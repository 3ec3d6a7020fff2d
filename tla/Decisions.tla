------------------------------ MODULE Decisions ------------------------------
(***************************************************************************)
(* The decisions the code takes on one input, with no state of its own:    *)
(* the rules, the adapters and the prompt of the triage, the edge of the   *)
(* HTTP service, and the submission check.  A behaviour is a series of     *)
(* calls, each followed by its result; any may be the next.                *)
(***************************************************************************)
EXTENDS ProviderAdapters, TriagePrompt, HttpEdge, SubmissionCheck

CONSTANTS
    Texts,      \* normalised texts the rules are asked about,
    Sentences,  \* and the lengths of a first sentence
    MaxMarks,   \* length of a text that goes into the prompt
    MaxLeft,    \* quarters of a second left of a rate limit window,
    MaxClock,   \* and on the pod's clock
    Forged,     \* what a client may write into X-Forwarded-For,
    MaxForged,  \* how often,
    Proxies,    \* the addresses of proxies,
    MaxProxies, \* and how many there may be before the backend
    MaxRows,    \* rows a list matches
    Drafts,     \* what can be in the form
    Repos       \* repositories the submission check is run on

\* An entry of X-Forwarded-For that client_ip does not drop.
IsAddress(entry) == entry # ""

\* A form of another release may send a field more.
IsDraft(body) ==
    /\ body.json = "read" /\ body.contact \in Contacts
    /\ body.extra \in {{}, {"note"}}
    /\ {body.text, body.location} \subseteq [points : Nat, wide : Nat]

IsRepository(repo) ==
    repo \in [files : SUBSET Files, flaws : SUBSET DOMAIN FlawIn,
              tools : [Tools -> {"works", "missing", "exits_1", "fails"}]]

ASSUME DecisionsAssumption ==
    /\ Texts \subseteq Seq(STRING)
    /\ Sentences \subseteq Nat \ {0}
    /\ MaxMarks \in Nat /\ MaxLeft \in Nat /\ MaxClock \in Nat
    /\ MaxForged \in Nat /\ MaxProxies \in Nat /\ MaxRows \in Nat
    /\ {"nginx", "ingress"} \subseteq Proxies
    /\ \A proxy \in Proxies : IsAddress(proxy)
    /\ \A body \in Drafts : IsDraft(body)
    /\ \A repo \in Repos : IsRepository(repo)

VARIABLE call

Init == call = [of |-> "none"]

Idle == call.of = "none"

Returned(of, in, out) == call' = [of |-> of, in |-> in, out |-> out]

SeqsUpTo(S, n) == UNION {[1 .. m -> S] : m \in 0 .. n}

-----------------------------------------------------------------------------

AskRules ==
    /\ Idle
    /\ \E text \in Texts, first \in Sentences :
           Returned("rules", [text |-> text, first |-> first],
                    RuleVerdict(text, first))

AskProvider ==
    /\ Idle
    /\ \E rules \in {RuleVerdict(<<"flood">>, 1)} :
           \/ \E setting \in {"llm", "ollama"}, met \in Replies \X Replies :
                 Returned("ladder", [setting |-> setting, met |-> met],
                          LadderOutcome(setting, met, rules))
           \/ \E met \in Simulations :
                 Returned("ladder",
                          [setting |-> "simulated", met |-> <<met, met>>],
                          LadderOutcome("simulated", <<met, met>>, rules))

BuildPrompt ==
    /\ Idle
    /\ \E text \in SeqsUpTo(Marks, MaxMarks) :
           Returned("prompt", text, sanitise_user_text(text))

AnswerRequest ==
    /\ Idle
    /\ \E q \in Requests : Returned("edge", q, Serve(q))

RefuseRequest ==
    /\ Idle
    /\ \E left \in 1 .. MaxLeft, now \in 0 .. MaxClock :
           Returned("429", [left |-> left, now |-> now],
                    rate_limited_response(left, now))

ResolveAddress ==
    /\ Idle
    /\ \E sent \in SeqsUpTo(Forged, MaxForged),
          d \in {Compose, OverlayDev, OverlayProd}
                \cup {[path |-> path, hops |-> Len(path)] :
                         path \in SeqsUpTo(Proxies, MaxProxies)} :
           Returned("address", [sent |-> sent, deployed |-> d],
                    client_ip(Forwarded(sent, "citizen", d.path),
                              _peer_host("citizen", d.path), d.hops))

\* A client asks for page after page, and one more.
ListPages ==
    /\ Idle
    /\ \E keys \in SeqsUpTo(1 .. MaxRows, MaxRows), page_size \in 1 .. MaxRows :
           \E orders \in [1 .. MaxRows + 1 -> Orders(keys)] :
               Returned("pages", [keys |-> keys, page_size |-> page_size],
                        [page \in 1 .. MaxRows + 1 |->
                            list_complaints(orders[page], page, page_size)])

\* The form sends what it found no error in; the limiter comes before the
\* validators.
SubmitForm ==
    /\ Idle
    /\ \E body \in Drafts, over \in BOOLEAN :
           /\ validate(body) = {}
           /\ LET errors == IF over THEN {} ELSE ComplaintCreate(body)
              IN  Returned("form", body,
                           [refused |-> over \/ errors # {}, errors |-> errors,
                            shown |-> IF over \/ errors # {}
                                      THEN Shown(errors) ELSE {}])

CheckSubmission ==
    /\ Idle
    /\ \E repo \in Repos :
           Returned("check", repo,
                    [results |-> CHECKS(repo), exit |-> main(repo)])

NextCall == ~Idle /\ call' = [of |-> "none"]

Next == \/ AskRules \/ AskProvider \/ BuildPrompt \/ AnswerRequest
        \/ RefuseRequest \/ ResolveAddress \/ ListPages \/ SubmitForm
        \/ CheckSubmission \/ NextCall

Spec == Init /\ [][Next]_call

-----------------------------------------------------------------------------
(* Properties.                                                             *)

\* _score_categories: a category is chosen only if it beats every other one,
\* whatever the order the table lists them in; and a word of danger makes the
\* priority high whatever the category, or the tie, came out as.
ClearWinnerOnly ==
    call.of = "rules" =>
        LET text == call.in.text
            chosen == call.out.category
        IN  /\ chosen # "other" =>
                  \A c \in Range(CategoryOrder) \ {chosen} :
                      Score(text, c) < Score(text, chosen)
            /\ _score_categories(text, Reverse(CategoryOrder)) = chosen
            /\ _has_urgency_term(text) => call.out.priority = "high"
            /\ call.out.summary < SUMMARY_MAX

\* llm.py and ollama.py: whatever two replies a provider sends, the ladder
\* makes the same of them over either transport, but for two.  A connection
\* that was never made is retried over Ollama; the openai client reports it as
\* an APIConnectionError, which classify does not know, so with the LLM the
\* rules answer at once, although triage_service.py:15 counts "connect" among
\* the failures that are retried.  And a verdict in a code fence is unwrapped
\* by the LLM adapter alone.
TransportsAgree ==
    (call.of = "ladder" /\ call.in.setting = "llm") =>
        LET met == call.in.met
            llm == call.out
            ollama == LadderOutcome("ollama", met, RuleVerdict(<<"flood">>, 1))
            fenced == met[llm.attempts].body = "fenced"
        IN  /\ met[1] \in Connections =>
                  /\ llm.fallback /\ llm.attempts = 1
                  /\ ollama.fallback <=> met[2].body # "sound"
                  /\ ollama.attempts = 2
            /\ (met[1] \notin Connections /\ fenced) =>
                  /\ ~llm.fallback /\ ollama.fallback
                  /\ ollama.attempts = llm.attempts
            /\ (met[1] \notin Connections /\ ~fenced) => llm = ollama

\* The reply of the real LLM that a mode of the simulation stands for: raise,
\* for one that the adapter itself trips over.
StandsFor(met) ==
    CASE met.mode \in {"none", "low_confidence"} -> Sound(met.drawn)
      [] met.mode = "timeout" -> Failure("silent")
      [] met.mode = "rate_limit" -> Status(429)
      [] met.mode = "server_error" -> Status(503)
      [] met.mode = "malformed" -> Body("prose")
      [] met.mode = "overlong_summary" -> Body("overlong")
      [] met.mode \in {"bad_enum", "injection_obey"} -> Body("bad_enum")
      [] met.mode = "raise" -> Body("no_list")

\* simulated.py: each mode has the ladder retry, downgrade and fall back as
\* the real LLM's reply has, so that a test with the simulation says something
\* of it; and of the ten modes low_confidence alone is downgraded, as long as
\* triage_min_confidence lies between what the two modes draw.
SimulationFaithful ==
    (call.of = "ladder" /\ call.in.setting = "simulated") =>
        LET met == call.in.met[1]
            reply == StandsFor(met)
            downgraded == ~call.out.fallback /\ call.out.verdict.category = "other"
        IN  /\ call.out = LadderOutcome("llm", <<reply, reply>>,
                                        RuleVerdict(<<"flood">>, 1))
            /\ Floor \in 35 .. 50 => (downgraded <=> met.mode = "low_confidence")

\* prompt.py: no text can hold a delimiter of the prompt, not even one that
\* appears only when the hidden characters in it are gone.
NoSentinelLeft == call.of = "prompt" => ~HasSentinel(call.out)

\* request_id.py, errors.py: header and body of an error carry the same id up
\* to the case of its letters, and the client's own if it sent a UUIDv4.
EnvelopeNamesItsRequest ==
    (call.of = "edge" /\ call.out.status >= 400) =>
        /\ call.out.body = Lower(call.out.header)
        /\ _is_uuid4(call.in.id) => call.out.body = Lower(call.in.id)

\* The template a request is counted under: what the limiter refuses has met
\* no router.
TemplateOf(q) == IF q.over THEN "unmatched" ELSE q.route

\* prometheus.py, access_log.py: each answered request of a path that is
\* observed is counted once, under its own template and with the status the
\* client saw, and logged once, whatever layer answered.  A crash, and nothing
\* else, is answered 500: it is in no counter, and its one line is that of the
\* handler outside them all.
TelemetryAgrees ==
    call.of = "edge" =>
        LET q == call.in
            crashed == call.out.status = 500
        IN  /\ crashed <=> ~q.over /\ q.raises = "crash"
            /\ call.out.counted =
                  IF crashed \/ q.route = "/metrics" THEN {}
                  ELSE {<<TemplateOf(q), call.out.status>>}
            /\ {l.log : l \in call.out.lines} =
                  IF crashed THEN {"unhandled"}
                  ELSE IF q.route \in {"/ready", "/metrics"} THEN {}
                  ELSE {"access"}

\* errors.py:150: "The request_id is the join key: header, body, and this log
\* line all carry it."
EveryLogLineCarriesId ==
    call.of = "edge" => \A line \in call.out.lines : line.id # "-"

\* ratelimit.py: a client that waits as it is told comes back half a second
\* early at most and less than a second late; the time of the reset may be
\* early by the pod's whole-second clock besides.
RetryAfterHonest ==
    call.of = "429" =>
        LET left == call.in.left
            now == call.in.now
        IN  /\ call.out.retry_after >= 1
            /\ 4 * call.out.retry_after \in left - 2 .. left + 3
            /\ 4 * call.out.reset \in now + left - 5 .. now + left + 3

\* client_ip.py: with the hops set to the number of proxies the key is the
\* citizen's address, whatever X-Forwarded-For the citizen sent along.
KeyFromProxies ==
    (/\ call.of = "address"
     /\ Len(call.in.deployed.path) = call.in.deployed.hops) =>
        call.out = "citizen"

\* k8s/overlays/prod/configmap-patch.yaml: the hops of each deployment are the
\* proxies that append to X-Forwarded-For, so each citizen has a key.
KeyIsCitizens == call.of = "address" => call.out = "citizen"

\* The items of all pages, one page after the other.
Joined(pages) ==
    LET read[n \in 0 .. Len(pages)] ==
            IF n = 0 THEN <<>> ELSE read[n - 1] \o pages[n].items
    IN  read[Len(pages)]

\* The places of a listing that page shows.
OnPage(i, page, page_size) ==
    (page - 1) * page_size < i /\ i <= page * page_size

\* complaint_repo.py, list_page: read to the end, the pages hold rows with the
\* keys of a full listing, each in its place.  A row is shown exactly once if
\* the rows of its key all belong on one page; a key whose rows are split
\* between pages may have one shown twice and another not at all, as the
\* statement orders by nothing else.  Past the end the list looks empty.
PagesPartition ==
    call.of = "pages" =>
        LET keys == call.in.keys
            read == Joined(call.out)
        IN  /\ Len(read) = Len(keys)
            /\ \A order \in Orders(keys) :
                  /\ \A i \in DOMAIN read : keys[read[i]] = keys[order[i]]
                  /\ \A row \in DOMAIN keys, page \in DOMAIN call.out :
                        (\A i \in DOMAIN keys : keys[order[i]] = keys[row] =>
                              OnPage(i, page, call.in.page_size)) =>
                          \E i \in DOMAIN read :
                              \A j \in DOMAIN read : read[j] = row <=> j = i
            /\ \A page \in DOMAIN call.out :
                  IF page = 1 \/ page <= call.out[1].pages
                  THEN call.out[page].total = Len(keys)
                  ELSE call.out[page].items = <<>> /\ call.out[page].total = 0

\* Submit.tsx: an error of the API is shown, at its input or above the form.
NoErrorSwallowed ==
    (call.of = "form" /\ call.out.refused) =>
        \/ call.out.shown = {"form"}
        \/ /\ call.out.shown # {}
           /\ call.out.shown = {e.field : e \in call.out.errors}

\* check_submission.py: whatever tools are missing or fail, a repository with
\* a flaw gets exit code 0 only with a WARN or SKIP of the check that looks
\* for it; but for a leaked file without git and localhost without grep, whose
\* failure is taken for finding nothing.
NoFalsePass ==
    call.of = "check" =>
        \A flaw \in DOMAIN CheckFor :
            (/\ Flawed(call.in, flaw) /\ ~Unseen(call.in, flaw)
             /\ call.out.exit = 0) =>
                call.out.results[CheckFor[flaw]] \in {"WARN", "SKIP"}
=============================================================================
