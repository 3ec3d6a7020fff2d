--------------------------- MODULE SubmissionCheck ---------------------------
(***************************************************************************)
(* scripts/check_submission.py: eighteen checks of the repository itself,  *)
(* each PASS, FAIL, WARN or SKIP, and the exit code they make together.    *)
(*                                                                         *)
(* A repository is the set of files that have landed, the flaws that are   *)
(* in them or in the history, and how each tool of the machine ends: it    *)
(* "works", is "missing" (127), "exits_1" with an error of its own, or     *)
(* "fails" with any other code or none (124, for a tool that timed out).   *)
(***************************************************************************)
EXTENDS Sequences, SequencesExt

\* The files a check looks for.
Files == {"README.md", "Makefile", ".env.example", "compose.yaml",
    "compose.prod.yaml", "k8s", "k8s/overlays", "postgres-statefulset.yaml",
    "ci.yml", "cd.yml", "backend/app", "settings.py", "seed.py",
    "backend/tests", "frontend/tests", "docs/adr", "docs/evidence"}

Tools == {"git", "gitleaks", "grep", "kubectl", "gh", "python"}

\* A flaw is in a file, or is one of the history ("-").
FlawIn ==
    [leaked |-> "-", secret |-> "-", direct_commit |-> "-",
     few_commits |-> "-", lopsided |-> "-", few_prs |-> "-",
     bare_secret |-> "k8s", unpinned |-> "compose.yaml",
     localhost |-> "backend/app", open_network |-> "compose.yaml",
     frontend_inside |-> "compose.yaml", port |-> "compose.prod.yaml",
     later_port |-> "compose.prod.yaml", placeholder |-> "ci.yml",
     ungated |-> "cd.yml", latest |-> "k8s/overlays",
     deployment |-> "postgres-statefulset.yaml",
     no_claims |-> "postgres-statefulset.yaml",
     no_quickstart |-> "README.md", no_commands |-> "README.md",
     no_target |-> "Makefile", drift |-> "settings.py",
     few_tests |-> "backend/tests", adr_missing |-> "docs/adr",
     adr_short |-> "docs/adr", no_evidence |-> "docs/evidence"]

Has(repo, file) == file \in repo.files
Flawed(repo, flaw) ==
    flaw \in repo.flaws /\ FlawIn[flaw] \in repo.files \cup {"-"}

Runs(repo, tool) == repo.tools[tool] = "works"

-----------------------------------------------------------------------------

\* The exit code 1 of gitleaks is a secret it found or an error it met.
sec_env_history(repo) ==
    IF \/ Runs(repo, "git") /\ Flawed(repo, "leaked")
       \/ Runs(repo, "gitleaks") /\ Flawed(repo, "secret")
       \/ repo.tools["gitleaks"] = "exits_1" THEN "FAIL"
    ELSE IF ~Runs(repo, "gitleaks") THEN "WARN" ELSE "PASS"

sec_k8s_secret(repo) ==
    IF ~Has(repo, "k8s") THEN "SKIP"
    ELSE IF Flawed(repo, "bare_secret") THEN "FAIL" ELSE "PASS"

img_unpinned(repo) ==
    IF repo.files \cap {"compose.yaml", "compose.prod.yaml", "k8s"} = {}
    THEN "SKIP"
    ELSE IF Flawed(repo, "unpinned") THEN "FAIL" ELSE "PASS"

\* What grep did not print is not there.
net_localhost(repo) ==
    IF repo.files \cap
         {"backend/app", "compose.yaml", "compose.prod.yaml", "k8s"} = {}
    THEN "SKIP"
    ELSE IF Runs(repo, "grep") /\ Flawed(repo, "localhost") THEN "FAIL"
    ELSE "PASS"

\* That the frontend is on the edge network only is not looked at: its name
\* is to occur in the file.
net_segment(repo) ==
    IF ~Has(repo, "compose.yaml") THEN "SKIP"
    ELSE IF Flawed(repo, "open_network") THEN "FAIL" ELSE "PASS"

\* The ports of any service below the database's name count as its own.
port_exposed_prod(repo) ==
    IF ~Has(repo, "compose.prod.yaml") THEN "SKIP"
    ELSE IF Flawed(repo, "port") \/ Flawed(repo, "later_port") THEN "FAIL" ELSE "PASS"

\* The jobs of a workflow; the placeholder of Phase 0 has none.
_job_blocks(repo, workflow) ==
    IF \/ ~Has(repo, workflow)
       \/ workflow = "ci.yml" /\ Flawed(repo, "placeholder")
    THEN {} ELSE {"test", "deploy"}

_publishes_or_deploys(job) == job = "deploy"

_has_needs(repo, workflow, job) ==
    ~(workflow = "cd.yml" /\ job = "deploy" /\ Flawed(repo, "ungated"))

ci_needs(repo) ==
    CASE ~Has(repo, "ci.yml") -> "SKIP"
      [] Has(repo, "ci.yml") /\ _job_blocks(repo, "ci.yml") = {}
            /\ ~Has(repo, "cd.yml") -> "SKIP"
      [] OTHER ->
            IF \E w \in {"ci.yml", "cd.yml"} : \E j \in _job_blocks(repo, w) :
                  _publishes_or_deploys(j) /\ ~_has_needs(repo, w, j)
            THEN "FAIL" ELSE "PASS"

\* Mutant of cd_latest_deploy: kubectl's exit code is not looked at.
LatestInOutput(repo) ==
    IF ~Has(repo, "k8s/overlays") THEN "SKIP"
    ELSE IF Runs(repo, "kubectl") /\ Flawed(repo, "latest")
    THEN "FAIL" ELSE "PASS"

cd_latest_deploy(repo) ==
    IF ~Has(repo, "k8s/overlays") THEN "SKIP"
    ELSE IF ~Runs(repo, "kubectl") THEN "WARN"
    ELSE IF Flawed(repo, "latest") THEN "FAIL" ELSE "PASS"

k8s_db_deployment(repo) ==
    IF ~Has(repo, "postgres-statefulset.yaml") THEN "SKIP"
    ELSE IF Flawed(repo, "deployment") \/ Flawed(repo, "no_claims")
    THEN "FAIL" ELSE "PASS"

vcs_direct_main(repo) ==
    IF ~Runs(repo, "git") THEN "WARN"
    ELSE IF Flawed(repo, "direct_commit") THEN "FAIL" ELSE "PASS"

\* The Makefile is read without a look whether it is there.
doc_quickstart(repo) ==
    IF ~Has(repo, "README.md") \/ Flawed(repo, "no_quickstart")
         \/ Flawed(repo, "no_commands") THEN "FAIL"
    ELSE IF ~Has(repo, "Makefile") THEN "raises"
    ELSE IF Flawed(repo, "no_target") THEN "FAIL" ELSE "PASS"

env_parity(repo) ==
    IF ~Has(repo, ".env.example") THEN "FAIL"
    ELSE IF ~Has(repo, "settings.py") THEN "SKIP"
    ELSE IF Flawed(repo, "drift") THEN "WARN" ELSE "PASS"

rubric_commits(repo) ==
    IF \/ ~Runs(repo, "git")
       \/ Flawed(repo, "few_commits") \/ Flawed(repo, "lopsided")
    THEN "WARN" ELSE "PASS"

rubric_prs(repo) ==
    IF ~Runs(repo, "gh") \/ Flawed(repo, "few_prs") THEN "WARN" ELSE "PASS"

\* pytest that did not run has collected no tests.
rubric_tests(repo) ==
    IF ~Has(repo, "backend/tests") THEN "SKIP"
    ELSE IF ~Runs(repo, "python") \/ Flawed(repo, "few_tests")
    THEN "WARN" ELSE "PASS"

rubric_seed(repo) == "SKIP"

rubric_adr(repo) ==
    IF ~Has(repo, "docs/adr") THEN "SKIP"
    ELSE IF Flawed(repo, "adr_missing") THEN "WARN"
    ELSE IF Flawed(repo, "adr_short") THEN "FAIL" ELSE "PASS"

rubric_evidence(repo) ==
    IF ~Has(repo, "docs/evidence") THEN "SKIP"
    ELSE IF Flawed(repo, "no_evidence") THEN "WARN" ELSE "PASS"

-----------------------------------------------------------------------------

CHECKS(repo) ==
    [sec_env_history |-> sec_env_history(repo),
     sec_k8s_secret |-> sec_k8s_secret(repo),
     img_unpinned |-> img_unpinned(repo),
     net_localhost |-> net_localhost(repo),
     net_segment |-> net_segment(repo),
     port_exposed_prod |-> port_exposed_prod(repo),
     ci_needs |-> ci_needs(repo),
     cd_latest_deploy |-> cd_latest_deploy(repo),
     k8s_db_deployment |-> k8s_db_deployment(repo),
     vcs_direct_main |-> vcs_direct_main(repo),
     doc_quickstart |-> doc_quickstart(repo),
     env_parity |-> env_parity(repo),
     rubric_commits |-> rubric_commits(repo),
     rubric_prs |-> rubric_prs(repo),
     rubric_tests |-> rubric_tests(repo),
     rubric_seed |-> rubric_seed(repo),
     rubric_adr |-> rubric_adr(repo),
     rubric_evidence |-> rubric_evidence(repo)]

\* Exit code 1 is a FAIL's, and Python's own for a check that raised.
main(repo) ==
    IF {"FAIL", "raises"} \cap Range(CHECKS(repo)) # {} THEN 1 ELSE 0

\* What a check that reads only a tool's output cannot see.
Unseen(repo, flaw) ==
    \/ flaw = "leaked" /\ ~Runs(repo, "git")
    \/ flaw = "localhost" /\ ~Runs(repo, "grep")

\* The check that is meant to catch a flaw.
CheckFor ==
    [leaked |-> "sec_env_history", secret |-> "sec_env_history",
     bare_secret |-> "sec_k8s_secret", unpinned |-> "img_unpinned",
     localhost |-> "net_localhost", open_network |-> "net_segment",
     port |-> "port_exposed_prod", ungated |-> "ci_needs",
     latest |-> "cd_latest_deploy", deployment |-> "k8s_db_deployment",
     no_claims |-> "k8s_db_deployment", direct_commit |-> "vcs_direct_main",
     no_quickstart |-> "doc_quickstart", no_commands |-> "doc_quickstart",
     no_target |-> "doc_quickstart", adr_short |-> "rubric_adr"]
=============================================================================
