# CivicPulse: specifications, model checking and proofs

CivicPulse takes citizens' complaints, has a language model (or, when that
fails, a set of keyword rules) label them, and shows operators a list and
statistics. A FastAPI backend (`backend/app`) runs in two or more pods, one
event loop each; the pods share a PostgreSQL table and one Redis. A React
frontend talks to it through nginx. A script checks the repository itself.

This directory holds TLA+ modules for the parts of the system whose correctness
depends on order, failure, concurrency or a choice among many cases, TLC
configurations that check them on small instances, and TLAPS proofs of what
matters most for every instance.

## 1. Inventory

| Component | State | Operations | What it shares, and with whom |
|---|---|---|---|
| Status table, `domain/transitions.py` | none (a dict) | `is_allowed` | read by `change_status` and the 409 handler |
| Status change, `complaint_service.py` `change_status`, `complaint_repo.py` | table `complaints`, per-request session with an identity map | PATCH | rows and row locks with every other request; invalidates the stats cache |
| Intake, `complaint_service.py` `create` | table | POST | calls the ladder, then INSERT, COMMIT, invalidate |
| Connection pool, `db/session.py`, `deps.py` | connections of one process | a session per request | every request of the pod |
| Stats cache, `stats_service.py` | Redis keys `stats:v1`, `lock:stats` | `get`, `invalidate` | Redis with all pods; reads the table in six statements |
| Triage ladder, `triage_service.py`, `providers/triage/cache.py` | Redis keys `triage:v1:*`; per process a ring of outcomes and counters | `triage_with_fallback` | Redis with all pods; providers over HTTP; ring read by `/api/meta/providers` |
| Providers and prompt, `providers/triage/` | HTTP clients | `triage`, `classify`, the sanitising of a text | rungs of the ladder |
| Rule-based provider, `providers/triage/rules.py` | none | `triage` | last rung of the ladder |
| Rate limiter, `providers/ratelimit/`, `middleware/rate_limit.py` | Redis keys `rl:*`, the script cache; per process the script's hash | `check`, `client_ip` | Redis with all pods; runs before anything else of a POST; the proxies of a deployment |
| Edge: validators, exception handlers, middleware stack | the request's id; counters, log lines | every request | all routes |
| Complaint list | none | GET with filters and pages | one statement on the table |
| Lifecycle and probes, `main.py`, `routes/ops.py` | `app.state.ready`, clients, pool | start, drain, `/ready` | Kubernetes, uvicorn |
| Seed, `cli/seed.py` | table | one transaction | writes the table, does not invalidate |
| Dashboard page | list, sequence number, pending PATCH, locked complaints | load, transition | the API, and other operators |
| Submit page | one form | submit | the API |
| Stats page | timers | poll | the API |
| Submission check, `scripts/check_submission.py` | none | eighteen checks, an exit code | the repository's files and history; git, gitleaks, grep, kubectl, gh |
| Schema, deployment, CI, load tests | | | configuration |

Where it is hard:

- **Concurrency.** Handlers interleave at every `await`, and pods at every
  statement or Redis command. `change_status` checks the table in one await and
  writes in another; a stats aggregate runs in six statements while writes
  commit and delete the cache key; pods share one limiter counter; the requests
  of a pod share its connections.
- **Failure.** Every statement and every Redis command may raise, some after
  they took effect; a pod may die between a COMMIT and its DEL, or with a row
  locked; Redis may restart and lose its script cache and its last second; a
  pod is drained with requests running; an answer may not reach the browser; a
  tool the submission check calls may be missing or time out.
- **Order.** Answers reach the dashboard in any order, among the moves of other
  operators; a request passes five layers of middleware and the handlers, and an
  exception passes them in the other direction.
- **Time.** The TTLs of the stats cache and its lock, the budget, timeout and
  jitter of the ladder, the window of the limiter.

What makes each component correct:

- *Status change*: committed statuses follow the table; of the PATCHes that read
  one status one wins; a client is told the truth about its own PATCH; nobody
  waits for ever.
- *Intake and pool*: what was acknowledged is stored; a report is stored twice
  only after its citizen was told of a failure; no connection is held outside a
  statement; every submission is answered.
- *Stats cache*: a write whose invalidation ran is in the cache from then on,
  except for one race; staleness ends; nobody is blocked on the stampede lock.
- *Ladder*: bounded attempts and time; retry only what can pass; nothing below
  the confidence floor and no fallback is ever cached or served as a provider's
  verdict; one record and at most one WARNING per call; `/api/meta/providers`
  shows the newest outcomes, newest first.
- *Providers, rules, prompt*: the ladder makes the same of the same reply over
  either transport, save for two differences that are known, and of a simulated
  failure as of a real one; no category
  wins by its place in a table; no text can close the prompt's delimiter.
- *Limiter*: at most the limit admitted per window by all pods together; no
  permanent ban; refusals do not extend a window; every request is decided; the
  key is the citizen's address; `Retry-After` is honest.
- *Edge*: header, body and log name the same request; each request is counted
  and logged once; no validation error is lost on the way to the form.
- *Dashboard*: the list answers the query in the URL; a locked complaint is
  terminal; a status goes back only for a reason; the spinner ends.
- *Submission check*: a flaw never passes silently.

`PROJECT.json` lists the components with their status, and under `hazards` each
place of the code these properties are aimed at.

## 2. Modules

| Module | Models | Proofs | Checked by |
|---|---|---|---|
| `StatusTable` | `domain/transitions.py` | | the lifecycle and dashboard runs |
| `StatusRegister` | what PATCH promises: the abstract specification | | `lifecycle` (refinement) |
| `StatusLifecycle` | `change_status`, `transition`, `commit`, `get_session` | `StatusLifecycleProofs` | `lifecycle`, `lifecycle_conflict` |
| `StatsCache` | `StatsService`, `stats_counts`, the writers' COMMIT and DEL, the seed | `StatsCacheProofs` | `stats` |
| `TriageLadder` | `triage_with_fallback`, `RedisTriageCache`, the ring and counters | `TriageLadderProofs` | `triage`, `triage_raises`, `triage_redis` |
| `RateLimiter` | `RateLimiter.check`, `fixed_window.lua`, the middleware's decision | `RateLimiterProofs` | `limiter` |
| `RuleTriage` | `rules.py` | `DecisionsProofs` | `decisions` |
| `ProviderAdapters` | `llm.py`, `ollama.py`, `simulated.py`, `factory.py`, `classify` | `DecisionsProofs` | `decisions` |
| `TriagePrompt` | `prompt.py` | `DecisionsProofs` | `decisions` |
| `Sieve` | a list without one kind of entry, for `prompt.py` and `client_ip.py` | `DecisionLemmas` | `decisions` |
| `HttpEdge` | validators, `errors.py`, `middleware/`, `client_ip.py`, the 429, list pages, the form's validation | `DecisionsProofs` | `decisions`, `edge_log`, `edge_key` |
| `SubmissionCheck` | `scripts/check_submission.py` | `DecisionsProofs` | `decisions` |
| `Decisions` | composes the six above | `DecisionsProofs`, on the facts of `DecisionLemmas` | `decisions`, `edge_log`, `edge_key` |
| `Dashboard` | `Dashboard.tsx` against the API | `DashboardProofs` | `dashboard` |
| `ReportMailbox` | what form and POST promise: the abstract specification | | `intake` (refinement) |
| `Intake` | `Submit.tsx`, `create`, the pool, a pod's life | `IntakeProofs` | `intake` |

Each `MC*` module is the TLC instance of the module it is named after.
Definitions commented *Mutant* are the same operator with a plausible bug; no
specification uses them. They record, for each property, a bug it catches.

### StatusLifecycle

`row` is the committed status of each complaint and `holder` the transaction
that locks it; `pc[p]` is the await a PATCH is suspended at and `obj[p]` the
status of its session's `Complaint` instance. `get` reads `row`; the conditional
UPDATE waits until no other transaction has the row and then either matches
(`UpdateMatches`: lock it) or does not (`UpdateMisses`). Either way the ORM's
session synchronisation evaluates the WHERE clause against the in-memory
instance, which still has the expected status, and gives it the new one; hence
the second `get` of a lost race, answered by the identity map, sees the
*requested* status (`RefuseLostRace`).

Failures: any statement may raise; COMMIT may take effect and lose its
acknowledgement; `get_session` rolls back over a live connection or in vain over
a lost one; a pod may die anywhere. What a lost connection leaves open,
`SettleOrphan` ends later, as PostgreSQL does, by abort or, when the COMMIT was
on its way, by commit. `want` ranges over every complaint and status: the inputs
of every PATCH.

`StatusRegister` is the same service without sessions, locks and transactions.
The refinement mapping is the identity on `row`, `want` and `moved`, and
`answer` forgets the status an answer carries.

### StatsCache

The table is the number of commits it has seen. Each of the aggregate's six
statements sees the commits before it (READ COMMITTED); a payload surely holds
what its first statement saw, so `Query` is that statement and the other five
are any moment before `Store`. A cache entry remembers that number, who stored
it and its ticks left. `lock` is never given back, as in the code, only expires.
A write is `CommitWrite` then `Invalidate`, or `InvalidateLost` (the DEL raised,
or the pod died before it); the seed is `CommitSeed` alone.

A HIT changes nothing and is not an action. `across[w]` is history: the readers
that were in mid-aggregate when `w` committed.

### TriageLadder

`pc[c]` is the await of call `c`: the cache read, a provider attempt, the jitter
sleep, the cache write. Each call has its own clock, counted from its deadline,
since calls only meet in the cache and the ring. Content keys are any partition
of the calls. `classify` is a choice of its two answers (`ProviderAdapters` says
which), and a verdict is whether its confidence reaches the floor and whether
its labels are the provider's. `FallBack` runs together with the failure that
leads to it: the rules await nothing. A `cache.set` that raises may have taken
effect, its reply being all that was lost (`CacheSetRaises`). `Restart` loses
what a process knows and leaves the Redis cache.

`ring` is `app.state.ring`, a `deque(maxlen=triage_ring_size)` appended to on the
right; `get_providers` is the field `recent` of `/api/meta/providers`, its last
`RECENT_TRIAGE_MAX` records turned round. `ended`, history, is the order in which
the calls of this process returned, and `MetaTellsTruth` holds `recent` against
it: the newest calls that ended, as many as fit, newest first, each as it ended.

### RateLimiter

`count[k]` and `ttl[k]` are the Redis key of client `k`, `script` whether Redis
has the script cached, `sha[p]` whether pod `p` holds its hash. EVALSHA is one
atomic action whose reply may get lost (`EvalUnacknowledged`); the `except` clause
(`Stumble`) forgets the hash, loads the script and runs it once more, whatever
the exception was, and then lets it through to the middleware, which lets the
request pass. `RedisRestarts` empties the script cache and puts each counter back
to any earlier value, as an append-only file synced every second may; `Evict` is
the `allkeys-lru` policy; `PodDies` ends a pod's requests where they are. A slot
is used by one request after another. `admitted`, `asked`, `lost` and `charged`
are history of the open window.

Requests let pass because Redis is down are not admissions of the limiter and
are not counted by `NoOverAdmission`: failing open is the code's choice.

### Decisions

Much of the code takes one input to one result and keeps nothing. Those parts are
modules of operators, and `Decisions` is the machine that calls them: from an
idle state, one call with any input of a set, whose state holds the input and the
result; then the next. The sets are constants (texts, headers, drafts,
repositories) or bounded by one (marks, time, proxies, rows), so that TLC tries
small ones and a theorem speaks of all. The properties relate the result to the
input, or two definitions of the code to each other.

- `RuleTriage`: a text is a sequence of words. Terms of one word match whole
  words, longer ones match as substrings, so the model is told which letters
  occur inside, begin or end which words. Scores, the tie, priorities and the
  length of the summary follow `rules.py` with its own term table.
- `ProviderAdapters`: what each adapter raises or returns for each thing the
  network does, what `classify` calls retryable, and what two attempts in a row
  leave the ladder with. A reply is a failure of the connection, an error status,
  or a 200 whose body is a verdict with some confidence, a verdict in a code
  fence, or broken in one of six ways. The simulation is its mode and the
  confidence it draws, 0 to 0.34 with `low_confidence` and 0.50 to 0.95 with
  `none`, whatever the floor.
- `TriagePrompt`: a text is a sequence of marks, among them hidden characters;
  both layers of the sanitising in their order. Hidden are the characters the
  code strips (`prompt.py:35-36`): U+200B to U+200D, U+FEFF, U+202A to U+202E,
  U+2066 to U+2069 and the control characters but tab, newline and return.
  `NoSentinelLeft` says nothing of others that have no width, such as U+200E,
  U+200F, U+2060 and U+00AD, which stay in the text.
- `HttpEdge`: the validators on lengths, the handlers, the stack from the request
  id to the route, with what is answered, counted and logged under which id;
  `X-Forwarded-For` through each deployment's proxies; the numbers of a 429; the
  pages of a list whose equal keys may come in another order each time; the
  form's own validation and where it shows the API's.
- `SubmissionCheck`: a repository is the files that have landed, the flaws in
  them, and how each tool ends: it works, is missing, exits 1 (which is what
  gitleaks does when it has found a secret) or fails otherwise.

### Dashboard

`row` is the server. The browser has `key` (the query in the URL), the effect's
`timer`, `seq`, the unanswered `loads`, the `page` shown, `loading`, `loadError`,
the one `pending` PATCH and the `terminal` complaints whose buttons are locked.
A load is sent, reads the rows at some moment and is answered at a later one, or
fails; `latest()` decides whether it may write. A PATCH is answered as
`StatusLifecycle` answers, its lost race included, or fails with or without an
effect. Three things are history: a load's `overtaken`, the PATCHes answered since
it was sent; a PATCH's `listed`, whether a list came since it was sent; and
`misled`, the complaints for which a lost race had a 409 name a status they may
never have had.

### Intake

`<<r, n>>` is the n-th submission of report `r`. `pc` follows it from the form
through one pod (limiter and validators, triage, wait for a connection, INSERT,
COMMIT, DEL, answer) and `told` is what the browser has learned. `conns` and
`others` are the connections of each pool; the session begins with the first
statement, so triage holds none. `phase` is a pod's: up, draining (uvicorn after
SIGTERM), drained, closed (lifespan's clean-up); it may be killed in any of them.
A COMMIT under way when a connection breaks may take effect.

`ReportMailbox` is the same service as the citizen knows it: an inbox nothing is
taken out of, and one fate of each submission. The refinement mapping takes `rows`
for the inbox and `told` for the fate of what was sent; pods, pools and connections
are gone.

## 3. Runs

| Run | Instance | Distinct states | What it shows |
|---|---|---|---|
| `lifecycle` | 2 complaints, 2 PATCHes | 127,688 | type, table, one winner, true answers, refinement of the register, every PATCH ends |
| `stats` | 2 readers, 1 write, 1 seed; TTL 2, lock 1, poll 1 ticks | 116,222 | the only stale refill is a fill that straddles the COMMIT; staleness ends; every read ends |
| `triage` | 3 calls of one key, 1 retry, ring of 2, all of it shown; budget 2, attempt 3, the rest 1 tick | 461,197 | effort, retries, cache contents, records, counters, the newest outcomes in order, every call ends |
| `limiter` | 1 client, 2 pods, a slot on each, limit 2, window 2 ticks, 1 restart | 91,646 | no permanent key, no over-admission, double charge at most, every request decided, bans end |
| `decisions` | texts of 3 words and prompts of 5 marks, every pair of replies with confidences 0, 34, 35 and 100 at floor 35, every simulated mode with what it draws, every request, 10 s of window, 2 forged addresses and 2 proxies, 3 rows, one flaw, file and tool at a time | 25,202 | the eleven properties of `Decisions` |
| `dashboard` | 1 complaint, 2 queries, 5 loads or changes of the query | 94,342 | the list is what was asked for, locks are right, no status goes back unexplained, the spinner ends |
| `intake` | 1 report sent up to twice, 2 pods with 2 connections each | 43,344 | acknowledged is stored, duplicates only by repeats, no connection pinned, every submission ends, refinement of the mailbox |

Runs that end in a counterexample, each a disagreement between the code and what
a comment or document of the repository says of it (`findings` in
`PROJECT.json` quotes them):

| Run | Property | What happens |
|---|---|---|
| `lifecycle_conflict` | `ConflictReportsActualStatus` | the 409 of a lost race names the status the loser asked for |
| `triage_raises` | `NeverRaises` | the cache read is outside the ladder's `try`: Redis down is a 500 |
| `triage_redis` | `FallbackMeansProviderFailed` | a failed cache write drops a good verdict and is counted as the provider's failure |
| `edge_log` | `EveryLogLineCarriesId` | the line of an unhandled exception is logged after the id was reset |
| `edge_key` | `KeyIsCitizens` | production trusts two hops where only the ingress appends one: all citizens share a counter |

**Bounds.** Two PATCHes make a race; a second complaint shows that locks and
answers are per row. One straddling reader and one more that fills the cache in
between are the stale refill; a seed adds the write without a DEL. Ladder calls
meet only in cache and ring; three make every pair of interleavings and overflow
a ring of two, whose order then matters; `recent` shows as many. The ticks make a timed-out attempt end before, at and
after the budget; `PerAttempt` is above the budget, so that the budget is what
binds, and the theorem covers both. Two pods with a request each, used again and again, reach every
combination of a loaded and a forgotten hash; a limit of two has requests below,
at and above it, and the window of two ticks has a renewed expiry differ from a
kept one. `MaxRestarts` bounds only the restarts of Redis. Three words are enough
for two categories to tie, for a phrase and for a phrase hidden in longer words;
five marks hold a delimiter with a hidden character in it; two replies are an
attempt and its retry; the confidences lie just below and at the floor, which is
the 0.35 of `settings.py:42`, and at both ends. Complaints meet nowhere on the dashboard, whose one PATCH
at a time is compared with one complaint's rows; five numbers (`MaxSeq`, of which
`Spare` keeps the last for the timer) let two loads cross while a third is sent
again. Two submissions are the first and its repeat, which may run at once when
the answer to the first got lost, on one pod or on two; `others` stands for all
the rest of a pod's traffic. What bounded instances leave open, the proofs cover:
they hold for every number of requests, complaints, readers, calls, clients,
loads, reports and pods and for every value of the time constants.

**Deadlock** is not checked where the system really stops: PATCHes, writes,
ladder calls, loads and submissions are made finitely often, and readers may all
have died. The limiter and decisions runs check it.

**Symmetry** is not used: each run of a state machine has a liveness property.

**Fairness.**
- `lifecycle`: weak fairness of each handler's next step (the event loop resumes a
  handler whose await is ready) and of the server ending transactions of clients
  that are gone. None for failures or crashes.
- `stats`: weak fairness of time and of a live reader's steps (the Redis client
  has a 2 s socket timeout; statements return or raise). None for a client's
  asking, a write, or the delivery of a DEL.
- `triage`: weak fairness of what ends an await by itself: a timer, or a Redis
  command that returns or times out. None for a provider's answer.
- `limiter`: weak fairness of time and of each waiting request's step (every await
  of it is a Redis command). None for arrivals, restarts or a success.
- `dashboard`: weak fairness of the timer, of the end of each list request and of
  the PATCH, by an answer, a failure or nginx's `proxy_read_timeout` of 30 s
  (`frontend/nginx.conf:65`), and of the handler of an answer. None for a
  particular outcome, for the operator or for other operators.
- `intake`: weak fairness of a pod's work on each POST, `pool_timeout` included,
  and of nginx or the browser giving up on one whose pod is gone. None for the
  release of a connection by other requests, which may keep them all for ever,
  nor for anything a pod's life does.

## 4. Proofs

The theorems hold for every value of the constants that satisfies the `ASSUME`s:
that model values differ from data, that budgets and bounds are naturals, that the
inputs of `Decisions` have the shape of inputs and a proxy has an address, that
windows, TTLs, the ring, the least timeout and the pool are positive.

- **StatusLifecycleProofs.** `IInv` adds to the properties what they rest on:
  a lock belongs to an unfinished transaction on that row whose change is still
  allowed (`LockInv`), what a handler knows at each await (`HandlerInv`), and that
  a moved complaint has a higher `Rank` than the status it was moved from
  (`RankInv`). `OneWinner` needs the rank: the conditional UPDATE compares with the
  current status only, and it is the table having no cycle (`MoveClimbs`) that
  excludes a complaint coming back to a status a slow PATCH still expects.
  `ImplementsRegister` maps each step to a step of `StatusRegister` or a stutter,
  the COMMIT being the instant a PATCH takes effect.
- **StatsCacheProofs.** `FillInv`: a running aggregate lacks a committed write
  only if it was running when the write committed. That is what makes
  `StaleOnlyAcrossCommit` inductive: a later aggregate, whoever runs it, starts
  with the write visible.
- **TriageLadderProofs.** `LadderInv`: what a call knows at each await (its
  attempts, its time, that it has no verdict yet, why it is sleeping). Effort,
  cache contents, records and the retry rule follow step by step.
  `MetaIsTrue` is by cardinality: the calls that ended since the process started
  are split by their outcome, a step moves at most one call from one part to
  another and its counter with it. The ring is at every moment the end of the
  sequence of records of `ended` (`AppendedShape` is how one append keeps that, at
  the limit and below it), so the answer is that end turned round.
- **RateLimiterProofs.** `CountInv`: a counter is behind its window's admissions
  by what Redis lost at most. The script compares its own increment with the
  limit, so an allowed request never takes the window over it, however many pods
  run it. `ChargedTwice` needs more than the property: `Room`, that the counter
  *and the requests that were counted and are in their retry* are within twice
  the requests made, so that a retry spends what its first run reserved.
- **DecisionsProofs.** All eleven properties, for inputs of every size. A call is
  over in one step, so the work is in the operators. Their loops are recursive
  functions, and induction is stated for one set of naturals at a time, as the
  induction theorems of the library take an operator (`UpTo` in `DecisionLemmas`).
  - `RetryAfterHonest` is the arithmetic of Redis's rounding, the clamp and the pod's
    clock.
  - `TransportsAgree` has every pair of replies on its left side. A reply that is
    neither fenced nor a connection that was not made becomes, in either adapter,
    exceptions that `classify` treats alike or the same verdict
    (`RepliesCompared`); the rest follows the attempts the ladder makes over each
    transport (`TakenCases`). For a connection that is not made the property says
    what differs: the LLM's call falls back at once, Ollama's is retried.
  - `SimulationFaithful` compares each of the ten modes, with what it draws, to the
    reply it stands for (`ModesAlike`), at every floor; which mode is downgraded
    is stated for the floors between what the two modes draw, 0.35 to 0.50.
  - `NoSentinelLeft`: after the first layer no hidden mark is left, so nothing closes
    up later; the second breaks the first bracket of every three in a run, and what
    it puts there is no mark of a delimiter.
  - `KeyFromProxies`: what the proxies append has no empty entry, so dropping the
    empty ones of the client moves nothing at the right end, where the hops are
    counted from.
  - `ClearWinnerOnly`: what the loop over the categories carries is the best score so
    far and whether another one has it too; hence the same winner, or the same tie,
    in either order.
  - `PagesPartition`: the pages cut `1 .. n` into runs (`PagesRead`); the orders of
    two statements differ only among equal keys, since a smaller key at one place
    leaves more rows before it than the other order has places for
    (`OrderNotLess`, by the pigeonhole principle). The rows of one key so have the
    same places in every order; if one page holds them all, one statement shows
    them all, each once (`OnePage`).
  - `EnvelopeNamesItsRequest` and `TelemetryAgrees`: what the inner layers hand out
    (`InnerLayers`), then what the outer ones and the last handler make of it
    (`OuterLayers`).
  - `NoErrorSwallowed`, and `NoFalsePass` check by check (`CheckCatches`), but for the
    two flaws that a failing git or grep hides (`Unseen`).
- **DashboardProofs.** `LoadInv` (the latest load is for the query in the URL) and
  `AnswerInv` (a 409 on its way tells the truth, but for a lost race) carry
  `ShownIsAsked` and `LockedMeansTerminal`. `NoOtherWayBack` orders what is known of
  a complaint in four places by the table: what is shown came before what an
  unovertaken latest list brings, and both came before the server (`OrderInv`);
  what a PATCH was sent from came before what its answer names, and that before
  the server (`MoveInv`). A step back then needs one of the two overlaps, since
  the table has no cycle (`Forward`).
- **IntakeProofs.** A POST leaves no trace until it is sent (`SentInv`), a form is
  submitted again only after it was told of a failure (`EarlierFailed`), past the
  COMMIT there is a row (`AnswerInv`), a pod past its requests has none
  (`PhaseInv`), connections are of statements (`ConnInv`). `Duplicates` is
  `EarlierFailed` and `SentInv` together. The bound on a pool needs the
  cardinality of a finite set (`RoomForOne`). `ImplementsMailbox` maps each step to
  a step of `ReportMailbox` or a stutter: a submission is in the mailbox with its
  COMMIT, acknowledged or not, several at once when a pod ends, and its fate is the
  first thing its form hears. `EarlierFailed` is what lets the form submit again,
  `AnswerInv` what makes `created` true.

Only model-checked: liveness under fairness, and the counterexamples. Every
invariant and action property of the passing runs is a theorem.

## 5. Not modelled

The stats page, whose polls have no guard against late answers; presentation,
animation and wording; the normalisation of a text into words and the regular
expressions that find a contact, a label or a flaw (their results are inputs);
list filters, which only choose rows; CORS and tracing; the probes and their
timing; what the seed inserts; the schema beyond the status column; and
deployment files, from which only proxies, timeouts, replica counts and Redis
policies are taken. `PROJECT.json` gives the reason for each.

Also met while reading, and not the subject of a run:

- *Stats.* `docs/09-CACHE-RATELIMIT.md` has an invalidation make things fresh at
  once (:85) and a POST followed by a MISS (:352): a fill that straddles COMMIT and
  DEL brings the old numbers back, and `StaleOnlyAcrossCommit` is what holds
  instead. The stampede lock outlives its fill, so a reader may poll for nobody,
  where `stats_service.py:92` says "Someone else is computing." `cli/seed.py` does
  not invalidate, though `docs/09-CACHE-RATELIMIT.md:97` allows it to. The six
  statements of `stats_counts` are not one snapshot. The stats page polls without
  a sequence number.
- *Ladder.* The jitter sleep and the cache write run past the ladder's budget;
  `BoundedEffort` states by how much. `triage:v1` keys name the model only: two
  `llm:*` providers with the same model name share verdicts. The OpenAI client
  raises `APIConnectionError` and `APITimeoutError`, which are not in `RETRYABLE`,
  although `triage_service.py:15` and `docs/08-AI-TRIAGE.md:267` list refused
  connections as retryable: they are retried over Ollama only
  (`TransportsAgree` states it). A verdict in a code fence is unwrapped by the
  LLM's adapter and refused by Ollama's.
- *Limiter.* `docs/09-CACHE-RATELIMIT.md:266` forces the rules on requests that pass
  while Redis is down; the middleware only lets them pass. A lost reply charges a
  request twice, so a client may be refused before its limit: the `except` of
  `limiter.py:49` is written for NOSCRIPT and takes every exception.
- *Edge.* A 500 of an unhandled exception is neither counted in
  `http_requests_total` nor access-logged, although `docs/22-PRD.md:193` watches
  that counter for 5xx. A 429 is counted under `unmatched`. Header and body
  may write an id in different case. `frontend/nginx.conf:57` sets `X-Request-ID` to
  nginx's `$request_id`, 32 digits without dashes, which `_is_uuid4` rejects: a
  client's id does not survive nginx.
- *List.* `total` is 0 past the last page; `ORDER BY` has no tie-breaker
  (`complaint_repo.py:20-25`), so where rows of one key are split between pages, one
  may be repeated and another missed; `PagesPartition` promises no more of those.
- *Form and dashboard.* `submitForm.ts:17`, the "mirror of the server's bounds",
  counts UTF-16 units and does not check a contact's format. After a lost race
  the dashboard may lock a complaint that is not terminal, or show it in a status
  it never had.
- *Submission check.* `net_localhost` passes when grep cannot run and
  `sec_env_history` when git fails, the two cases `NoFalsePass` leaves out by name; `env_parity` fails on a missing `.env.example`;
  `doc_quickstart` raises without a `Makefile`; `rubric_seed` always skips;
  `net_segment` does not look at the frontend's networks; `port_exposed_prod` takes
  the ports of later services for the database's or the cache's.
- *Shutdown.* `main.py:51` says readiness flips first, but uvicorn runs the lifespan's
  end after it has drained or cancelled the requests. The grace period of
  `k8s/base/backend-deployment.yaml:17`, 30 s, "must exceed preStop (5s) + drain (5s) +
  margin", which leaves out uvicorn's own 25 s (`backend/Dockerfile:40`).

## 6. Plan

Done, in this order: status change, stats cache, triage ladder, rate limiter, each
with its first proofs; then the rules, adapters and prompt, the edge, the
submission check, the dashboard and the intake; the cardinality proofs of the
limiter and the ladder; the proofs of dashboard and intake; the proofs of all that
`Decisions` checks; the mailbox and that `Intake` implements it.

Next:

1. Proofs: an abstract specification of the stats cache, a value never older than
   the last write whose invalidation ran but for a fill under way, and that
   `StatsCache` implements it; the same of the limiter's window.
2. Composition: `Intake` with `RateLimiter` in front of it, so that a repeat after a
   lost answer is charged, and with `StatsCache` behind it.
3. Time in a pod's life: preStop, uvicorn's graceful timeout, the drain sleep and the
   kill at the end of the grace period, with readiness and probes.
4. The six counts of one payload, against a promise once the code makes one.
5. The seed: its `ON CONFLICT` and being run twice.
