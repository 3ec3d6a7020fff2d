---------------------------- MODULE TriageLadder ----------------------------
(***************************************************************************)
(* TriageService.triage_with_fallback: the calls one backend process       *)
(* serves concurrently, the Redis cache of verdicts they share, and the    *)
(* ring and counters they leave behind.                                    *)
(*                                                                         *)
(* A call is a sequence of awaits (cache get, provider, jitter sleep,      *)
(* cache set); what runs between two of them is one action.  Calls meet    *)
(* only in the cache and in the ring, so each keeps its own clock, counted *)
(* from the moment its deadline was set.                                   *)
(***************************************************************************)
EXTENDS Integers, Sequences, FiniteSets

CONSTANTS
    Calls,       \* calls of triage_with_fallback, each made once
    Keys,        \* content keys
    MaxRetries,  \* triage_max_retries
    Budget,      \* triage_total_budget_ms, in ticks
    PerAttempt,  \* triage_timeout_s, in ticks
    Jitter,      \* triage_retry_jitter_ms, in ticks
    Epsilon,     \* the smallest timeout _remaining gives, in ticks
    RedisWait,   \* how long a cache.set may take before it raises, in ticks
    RingSize,    \* triage_ring_size, the deque's maxlen
    RecentMax,   \* RECENT_TRIAGE_MAX, the records GET /api/meta/providers shows
    NoVerdict    \* nothing cached, or no verdict yet

ASSUME LadderAssumption ==
    /\ {MaxRetries, Budget, PerAttempt, Jitter, RedisWait} \subseteq Nat
    /\ Epsilon \in Nat \ {0}
    /\ RingSize \in Nat \ {0} /\ RecentMax \in Nat \ {0}
    /\ IsFiniteSet(Calls)

\* A TriageResult: whether its confidence reaches triage_min_confidence, and
\* whether its category and priority are the provider's or OTHER/NORMAL.
Verdicts == [conf : {"high", "low"}, label : {"given", "other"}]

ASSUME NoVerdictAssumption == NoVerdict \notin Verdicts

Providers == {"primary", "rules:fallback"}
Entries == [verdict : Verdicts, by : Providers]
Outcomes == [by : Providers \cup {"none"}, cached : BOOLEAN,
             verdict : Verdicts \cup {NoVerdict}]
Records == [call : Calls, by : Providers, cached : BOOLEAN]
Unanswered == [by |-> "none", cached |-> FALSE, verdict |-> NoVerdict]

VARIABLES
    cache,     \* cache[k]: the entry under content key k, or NoVerdict
    key,       \* key[c]: the content key of c's text and location
    pc,        \* pc[c]: the await c is suspended at
    attempts,  \* attempts[c]: provider calls c has made
    elapsed,   \* elapsed[c]: ticks since c set its deadline
    err,       \* err[c]: how c's last exception was classified
    verdict,   \* verdict[c]: the post-validated answer c's provider gave it
    outcome,   \* outcome[c]: what c returned
    ring,      \* app.state.ring, newest last
    ended,     \* history: the calls this process answered, in that order
    recorded,  \* recorded[c]: times c was recorded (ring, latency histogram)
    warned,    \* warned[c]: WARNING lines c logged
    results    \* TRIAGE_CACHE_RESULT and TRIAGE_FALLBACK_TOTAL

callVars == <<pc, attempts, elapsed, err, verdict, outcome>>
traceVars == <<ring, ended, recorded, warned, results>>
vars == <<cache, key, callVars, traceVars>>

PCs == {"idle", "attempt", "sleep", "store", "done", "raised", "past"}
Classes == {"retryable", "non_retryable"}
Counters == {"hit", "miss", "fallback"}

TypeOK ==
    /\ cache \in [Keys -> Entries \cup {NoVerdict}]
    /\ key \in [Calls -> Keys]
    /\ pc \in [Calls -> PCs]
    /\ attempts \in [Calls -> Nat]
    /\ elapsed \in [Calls -> Nat]
    /\ err \in [Calls -> Classes \cup {"none"}]
    /\ verdict \in [Calls -> Verdicts \cup {NoVerdict}]
    /\ outcome \in [Calls -> Outcomes]
    /\ ring \in Seq(Records)
    /\ ended \in Seq(Calls)
    /\ recorded \in [Calls -> Nat]
    /\ warned \in [Calls -> Nat]
    /\ results \in [Counters -> Nat]

Init ==
    /\ cache = [k \in Keys |-> NoVerdict]
    /\ key \in [Calls -> Keys]
    /\ pc = [c \in Calls |-> "idle"]
    /\ attempts = [c \in Calls |-> 0]
    /\ elapsed = [c \in Calls |-> 0]
    /\ err = [c \in Calls |-> "none"]
    /\ verdict = [c \in Calls |-> NoVerdict]
    /\ outcome = [c \in Calls |-> Unanswered]
    /\ ring = <<>>
    /\ ended = <<>>
    /\ recorded = [c \in Calls |-> 0]
    /\ warned = [c \in Calls |-> 0]
    /\ results = [n \in Counters |-> 0]

-----------------------------------------------------------------------------
(* Helpers                                                                 *)

Goto(c, label) == pc' = [pc EXCEPT ![c] = label]

Wait(c, ticks) == elapsed' = [elapsed EXCEPT ![c] = @ + ticks]

AtLeast(a, b) == IF a < b THEN b ELSE a
AtMost(a, b) == IF a < b THEN a ELSE b

_remaining(c) == AtLeast(Budget - elapsed[c], Epsilon)

\* Mutant: every attempt gets triage_timeout_s, whatever is left.
AttemptTimeoutIgnoringBudget(c) == PerAttempt

AttemptTimeout(c) == AtMost(PerAttempt, _remaining(c))

\* Mutant: an unsure verdict keeps its category and priority, too.
_postvalidateNothing(conf) == [conf |-> conf, label |-> "given"]

\* A verdict below triage_min_confidence keeps its confidence and loses its
\* category and priority.
_postvalidate(conf) ==
    [conf |-> conf, label |-> IF conf = "low" THEN "other" ELSE "given"]

\* Mutant: a full ring keeps what it has.
AppendedWhileRoom(record) ==
    IF Len(ring) < RingSize THEN Append(ring, record) ELSE ring

\* deque(maxlen): a full ring loses its oldest entry.  It is never longer than
\* RingSize, so the trim that _record makes at four times that never runs.
Appended(record) ==
    LET longer == Append(ring, record)
    IN  IF Len(longer) > RingSize THEN Tail(longer) ELSE longer

\* The ring and the latency histogram take one entry of c.
_record(c, by, cached) ==
    /\ ring' = Appended([call |-> c, by |-> by, cached |-> cached])
    /\ recorded' = [recorded EXCEPT ![c] = @ + 1]

\* The Prometheus counters of the names go up by one.
Count(names) ==
    results' = [n \in Counters |-> results[n] + (IF n \in names THEN 1 ELSE 0)]

FallbackIf(by) == IF by = "rules:fallback" THEN {"fallback"} ELSE {}

\* c is recorded and returns; what the coroutine kept count of is gone.
Return(c, by, cached, v) ==
    /\ Goto(c, "done")
    /\ outcome' = [outcome EXCEPT ![c] = [by |-> by, cached |-> cached, verdict |-> v]]
    /\ ended' = Append(ended, c)
    /\ attempts' = [attempts EXCEPT ![c] = 0]
    /\ err' = [err EXCEPT ![c] = "none"]
    /\ _record(c, by, cached)

\* The last rung, which awaits nothing: rules, one WARNING, one record.
FallBack(c) ==
    /\ warned' = [warned EXCEPT ![c] = @ + 1]
    /\ Count({"fallback"})
    /\ Return(c, "rules:fallback", FALSE, NoVerdict)

-----------------------------------------------------------------------------
(* The cache lookup, before the ladder and outside its try.                *)

\* cache.get finds an entry: it is returned as it is.
CacheHit(c) ==
    /\ pc[c] = "idle"
    /\ cache[key[c]] # NoVerdict
    /\ LET hit == cache[key[c]] IN
         /\ Count({"hit"} \cup FallbackIf(hit.by))
         /\ Return(c, hit.by, TRUE, hit.verdict)
    /\ UNCHANGED <<cache, key, elapsed, verdict, warned>>

\* cache.get finds none: the deadline is set and the provider called.
CacheMiss(c) ==
    /\ pc[c] = "idle"
    /\ cache[key[c]] = NoVerdict
    /\ Count({"miss"})
    /\ attempts' = [attempts EXCEPT ![c] = 1]
    /\ Goto(c, "attempt")
    /\ UNCHANGED <<cache, key, elapsed, err, verdict, outcome, ring, ended, recorded, warned>>

\* cache.get raises, and so does triage_with_fallback: a 500.
CacheGetRaises(c) ==
    /\ pc[c] = "idle"
    /\ Goto(c, "raised")
    /\ UNCHANGED <<cache, key, attempts, elapsed, err, verdict, outcome, traceVars>>

-----------------------------------------------------------------------------
(* The ladder                                                              *)

\* The provider answers within the attempt's timeout; cache.set comes next.
ProviderAnswers(c) ==
    /\ pc[c] = "attempt"
    /\ \E ticks \in 0 .. AttemptTimeout(c) : Wait(c, ticks)
    /\ \E conf \in {"high", "low"} :
         verdict' = [verdict EXCEPT ![c] = _postvalidate(conf)]
    /\ Goto(c, "store")
    /\ UNCHANGED <<cache, key, attempts, err, outcome, traceVars>>

\* Mutant: a validation failure is retried too.
GivesUpLate(c, class, ticks) ==
    attempts[c] > MaxRetries \/ elapsed[c] + ticks >= Budget

\* No other attempt: the failure will not pass, or no attempt or time is left.
GivesUp(c, class, ticks) ==
    \/ class = "non_retryable"
    \/ attempts[c] > MaxRetries
    \/ elapsed[c] + ticks >= Budget

\* Mutant: a WARNING for this attempt, too.
BackOffWarning(c, class) ==
    /\ Goto(c, "sleep")
    /\ err' = [err EXCEPT ![c] = class]
    /\ warned' = [warned EXCEPT ![c] = @ + 1]
    /\ UNCHANGED <<attempts, outcome, ring, ended, recorded, results>>

\* The jitter sleep before another attempt.
BackOff(c, class) ==
    /\ Goto(c, "sleep")
    /\ err' = [err EXCEPT ![c] = class]
    /\ UNCHANGED <<attempts, outcome, traceVars>>

\* The except clause, which leaves the cache alone.
Fail(c, class, ticks) ==
    /\ Wait(c, ticks)
    /\ \/ GivesUp(c, class, ticks) /\ FallBack(c)
       \/ ~GivesUp(c, class, ticks) /\ BackOff(c, class)
    /\ UNCHANGED <<key, verdict>>

\* The provider raises within the attempt's timeout.
ProviderRaises(c) ==
    /\ pc[c] = "attempt"
    /\ \E ticks \in 0 .. AttemptTimeout(c), class \in Classes : Fail(c, class, ticks)
    /\ UNCHANGED cache

\* Mutant: once the budget is used up, no timer is armed.
ProviderTimesOutInBudget(c) ==
    /\ pc[c] = "attempt"
    /\ elapsed[c] < Budget
    /\ Fail(c, "retryable", AttemptTimeout(c))
    /\ UNCHANGED cache

\* asyncio.timeout cancels a provider that does not answer.
ProviderTimesOut(c) ==
    /\ pc[c] = "attempt"
    /\ Fail(c, "retryable", AttemptTimeout(c))
    /\ UNCHANGED cache

\* The jitter sleep is over: another attempt.  The loop's own test holds, and
\* the deadline is not looked at again.
Retry(c) ==
    /\ pc[c] = "sleep"
    /\ attempts[c] <= MaxRetries
    /\ \E ticks \in 0 .. Jitter : Wait(c, ticks)
    /\ attempts' = [attempts EXCEPT ![c] = @ + 1]
    /\ Goto(c, "attempt")
    /\ UNCHANGED <<cache, key, err, verdict, outcome, traceVars>>

\* RedisTriageCache.set, as far as Redis is concerned.
Store(c) == cache' = [cache EXCEPT ![key[c]] = [verdict |-> verdict[c], by |-> "primary"]]

\* cache.set succeeds: the verdict is cached, recorded and returned.
CacheSet(c) ==
    /\ pc[c] = "store"
    /\ \E ticks \in 0 .. RedisWait : Wait(c, ticks)
    /\ Store(c)
    /\ Return(c, "primary", FALSE, verdict[c])
    /\ UNCHANGED <<key, verdict, warned, results>>

\* cache.set raises inside the try: a RedisError is not retryable, so the
\* verdict in hand is dropped for the rules'.  Only the reply may be lost, and
\* the SET have taken effect.
CacheSetRaises(c) ==
    /\ pc[c] = "store"
    /\ \E ticks \in 0 .. RedisWait : Fail(c, "non_retryable", ticks)
    /\ UNCHANGED cache \/ Store(c)

\* The field recent of GET /api/meta/providers: the end of the ring, newest
\* first.
get_providers ==
    [i \in 1 .. AtMost(RecentMax, Len(ring)) |-> ring[Len(ring) + 1 - i]]

-----------------------------------------------------------------------------
(* The world around                                                        *)

\* Redis drops an entry: its TTL is over, or an eviction.
Expire(k) ==
    /\ cache[k] # NoVerdict
    /\ cache' = [cache EXCEPT ![k] = NoVerdict]
    /\ UNCHANGED <<key, callVars, traceVars>>

\* The process dies and another takes its place: what it knew of its calls,
\* its ring and its counters are gone; Redis keeps the cache.
Restart ==
    /\ \E c \in Calls : pc[c] \notin {"idle", "past"}
    /\ pc' = [c \in Calls |-> IF pc[c] = "idle" THEN "idle" ELSE "past"]
    /\ attempts' = [c \in Calls |-> 0]
    /\ elapsed' = [c \in Calls |-> 0]
    /\ err' = [c \in Calls |-> "none"]
    /\ verdict' = [c \in Calls |-> NoVerdict]
    /\ outcome' = [c \in Calls |-> Unanswered]
    /\ ring' = <<>>
    /\ ended' = <<>>
    /\ recorded' = [c \in Calls |-> 0]
    /\ warned' = [c \in Calls |-> 0]
    /\ results' = [n \in Counters |-> 0]
    /\ UNCHANGED <<cache, key>>

-----------------------------------------------------------------------------
Serve(c) ==
    \/ CacheHit(c) \/ CacheMiss(c) \/ CacheGetRaises(c)
    \/ ProviderAnswers(c) \/ ProviderRaises(c) \/ ProviderTimesOut(c)
    \/ Retry(c) \/ CacheSet(c) \/ CacheSetRaises(c)

Next ==
    \/ \E c \in Calls : Serve(c)
    \/ \E k \in Keys : Expire(k)
    \/ Restart

Spec == Init /\ [][Next]_vars

\* What ends each await of a call without anyone's help: timers fire, and the
\* Redis client has a socket timeout.  Nothing makes a provider answer.
Proceed(c) ==
    \/ CacheHit(c) \/ CacheMiss(c) \/ CacheGetRaises(c)
    \/ ProviderTimesOut(c) \/ Retry(c) \/ CacheSet(c) \/ CacheSetRaises(c)

Fairness == \A c \in Calls : WF_vars(Proceed(c))

FairSpec == Spec /\ Fairness

-----------------------------------------------------------------------------
(* Properties                                                              *)

\* However providers and Redis behave, a call costs at most MaxRetries + 1
\* provider calls, and holds its client for no longer than the budget plus
\* what the code lets run past it: the last sleep, the least timeout an
\* attempt gets, and the cache.set that no timeout covers.
BoundedEffort ==
    \A c \in Calls :
        /\ attempts[c] <= MaxRetries + 1
        /\ elapsed[c] <= Budget + Jitter + Epsilon + RedisWait

\* A provider is called again only after a failure that may pass, never once
\* it has answered, and only by a call whose budget was not used up.
RetryOnlyTransient ==
    [][\A c \in Calls :
         attempts'[c] > attempts[c] /\ attempts[c] > 0 =>
            /\ err[c] = "retryable"
            /\ verdict[c] = NoVerdict
            /\ elapsed[c] < Budget]_vars

\* A verdict as _postvalidate leaves it.
Trusted(v) == v \in Verdicts /\ (v.conf = "low" => v.label = "other")

\* Whoever filled the cache, what is served as a provider's verdict is one it
\* was sure of, or is labelled OTHER/NORMAL: the hit path trusts the cache to
\* hold nothing else, and a fallback, above all, is never in it.
ServedVerdictsTrusted ==
    /\ \A k \in Keys : cache[k] # NoVerdict =>
          cache[k].by = "primary" /\ Trusted(cache[k].verdict)
    /\ \A c \in Calls : outcome[c] # Unanswered =>
          \/ outcome[c].by = "primary" /\ Trusted(outcome[c].verdict)
          \/ outcome[c].by = "rules:fallback" /\ ~outcome[c].cached

\* A call that returned was recorded once and logged a WARNING exactly if it
\* fell back, whichever step failed; one that did not return, not at all.
RecordedOnce ==
    \A c \in Calls :
        /\ pc[c] # "done" => recorded[c] = 0 /\ warned[c] = 0
        /\ pc[c] = "done" =>
              /\ recorded[c] = 1
              /\ warned[c] = IF outcome[c].by = "rules:fallback" THEN 1 ELSE 0

Done == { c \in Calls : pc[c] = "done" }
Hits == { c \in Done : outcome[c].cached }
Fallbacks == { c \in Done : outcome[c].by = "rules:fallback" }
Misses == { c \in Done : ~outcome[c].cached }
             \cup { c \in Calls : pc[c] \in {"attempt", "sleep", "store"} }

CountTruth ==
    /\ results.hit = Cardinality(Hits)
    /\ results.fallback = Cardinality(Fallbacks)
    /\ results.miss = Cardinality(Misses)

\* The record of a call that returned.
RecordOf(c) == [call |-> c, by |-> outcome[c].by, cached |-> outcome[c].cached]

\* ended is the order in which the calls that returned did so.
EndedOnce ==
    /\ { ended[i] : i \in DOMAIN ended } = Done
    /\ \A i, j \in DOMAIN ended : ended[i] = ended[j] => i = j

\* The answer names the last calls that ended, as many as ring and answer
\* have room for, newest first, each as it ended.
RingTruth ==
    /\ EndedOnce
    /\ get_providers =
          [i \in 1 .. AtMost(RecentMax, AtMost(RingSize, Len(ended))) |->
              RecordOf(ended[Len(ended) + 1 - i])]

\* GET /api/meta/providers tells the truth about the process: the counters
\* agree with the calls it has served, and recent lists the newest of them in
\* order, however calls, failures and restarts fall together.
MetaTellsTruth == CountTruth /\ RingTruth

\* Every call ends, even with a provider that never answers.
EveryCallEnds == <>(\A c \in Calls : pc[c] \in {"done", "raised", "past"})

\* Nothing raises past this class.  The code does not ensure it: cache.get is
\* awaited outside the try.
NeverRaises == \A c \in Calls : pc[c] # "raised"

\* A fallback means that the provider failed.  The code does not ensure it: a
\* cache.set that raises is taken for a provider failure.
FallbackMeansProviderFailed ==
    \A c \in Calls :
        outcome[c] # Unanswered /\ outcome[c].by = "rules:fallback"
            => verdict[c] = NoVerdict

-----------------------------------------------------------------------------
(* The inductive invariant behind these.                                   *)

\* What a call knows at the await it is suspended at.
AwaitInv(c) ==
    /\ pc[c] = "idle" => attempts[c] = 0 /\ elapsed[c] = 0
    /\ pc[c] \in {"idle", "raised"} => outcome[c] = Unanswered
    /\ pc[c] \in {"attempt", "sleep", "store"} =>
          /\ outcome[c] = Unanswered
          /\ attempts[c] \in 1 .. MaxRetries + 1
    /\ pc[c] \in {"attempt", "sleep", "idle"} => verdict[c] = NoVerdict
    /\ pc[c] = "sleep" => /\ attempts[c] <= MaxRetries
                          /\ elapsed[c] < Budget
                          /\ err[c] = "retryable"
    /\ pc[c] = "attempt" => elapsed[c] <= Budget + Jitter
    /\ pc[c] = "store" => /\ elapsed[c] <= Budget + Jitter + Epsilon
                          /\ Trusted(verdict[c])
    /\ pc[c] = "done" => outcome[c] # Unanswered

LadderInv == \A c \in Calls : AwaitInv(c)

IInv == TypeOK /\ LadderInv /\ BoundedEffort /\ ServedVerdictsTrusted /\ RecordedOnce
=============================================================================
