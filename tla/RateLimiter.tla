---------------------------- MODULE RateLimiter ----------------------------
(***************************************************************************)
(* The distributed fixed-window limiter in front of POST /api/complaints:  *)
(* RateLimitMiddleware.dispatch, RateLimiter.check on every pod, and the   *)
(* Lua script Redis runs for them.                                         *)
(*                                                                         *)
(* Redis runs a script atomically, but its reply may be lost after the     *)
(* script ran, and check() then runs it again.  A restart of Redis empties *)
(* its script cache and may lose the last second of writes (appendfsync    *)
(* everysec); the allkeys-lru policy may evict a counter.                  *)
(*                                                                         *)
(* A counter is kept up to Limit + 1: beyond that INCR's result only means *)
(* "over the limit".  Time is counted down in ticks.                       *)
(***************************************************************************)
EXTENDS Integers, FiniteSets

CONSTANTS
    Requests,     \* finitely many slots for POSTs, used again and again
    Clients,      \* client addresses, the limiter's keys
    Pods,         \* backend processes, one RateLimiter each
    client,       \* client[r]: whose POSTs use slot r
    pod,          \* pod[r]: the pod serving them
    Limit,        \* ratelimit_requests
    Window,       \* ratelimit_window_s, in ticks
    MaxRestarts   \* bound on the restarts of Redis

ASSUME LimiterAssumption ==
    /\ IsFiniteSet(Requests)
    /\ client \in [Requests -> Clients]
    /\ pod \in [Requests -> Pods]
    /\ Limit \in Nat \ {0}
    /\ Window \in Nat \ {0}
    /\ MaxRestarts \in Nat

VARIABLES
    count,     \* count[k]: the counter rl:{k}, 0 when there is no such key
    ttl,       \* ttl[k]: ticks the key has left, 0 when it has no expiry
    script,    \* whether Redis has the script in its cache
    restarts,  \* restarts of Redis so far
    sha,       \* sha[p]: whether the limiter of pod p holds the script's hash
    pc,        \* pc[r]: the await r is suspended at, or what was decided
    retried,   \* retried[r]: whether r is past its first EVALSHA
    charged,   \* history: whether the open window has counted the waiting r
    admitted,  \* history: requests the open window of k has allowed
    asked,     \* history: distinct requests it has counted, up to Limit + 1
    lost       \* history: increments of it that Redis forgot

redisVars == <<count, ttl, script, restarts>>
requestVars == <<pc, retried>>
historyVars == <<charged, admitted, asked, lost>>
vars == <<redisVars, sha, requestVars, historyVars>>

Waiting == {"load", "eval"}
Decisions == {"allowed", "refused", "passed"}

TypeOK ==
    /\ count \in [Clients -> 0 .. Limit + 1]
    /\ ttl \in [Clients -> 0 .. Window]
    /\ script \in BOOLEAN
    /\ restarts \in 0 .. MaxRestarts
    /\ sha \in [Pods -> BOOLEAN]
    /\ pc \in [Requests -> {"idle"} \cup Waiting \cup Decisions]
    /\ retried \in [Requests -> BOOLEAN]
    /\ charged \in [Requests -> BOOLEAN]
    /\ admitted \in [Clients -> Nat]
    /\ asked \in [Clients -> 0 .. Limit + 1]
    /\ lost \in [Clients -> Nat]

Init ==
    /\ count = [k \in Clients |-> 0]
    /\ ttl = [k \in Clients |-> 0]
    /\ script = FALSE
    /\ restarts = 0
    /\ sha = [p \in Pods |-> FALSE]
    /\ pc = [r \in Requests |-> "idle"]
    /\ retried = [r \in Requests |-> FALSE]
    /\ charged = [r \in Requests |-> FALSE]
    /\ admitted = [k \in Clients |-> 0]
    /\ asked = [k \in Clients |-> 0]
    /\ lost = [k \in Clients |-> 0]

-----------------------------------------------------------------------------
(* Helpers                                                                 *)

Goto(r, label) == pc' = [pc EXCEPT ![r] = label]

Saturated(n) == IF n > Limit THEN Limit + 1 ELSE n

\* The history of a window: it ends for the clients in K, and the counters
\* of the others lose what loss says.
Forget(K, loss) ==
    /\ charged' = [r \in Requests |-> charged[r] /\ client[r] \notin K]
    /\ admitted' = [k \in Clients |-> IF k \in K THEN 0 ELSE admitted[k]]
    /\ asked' = [k \in Clients |-> IF k \in K THEN 0 ELSE asked[k]]
    /\ lost' = [k \in Clients |-> IF k \in K THEN 0 ELSE lost[k] + loss[k]]

\* The keys of the clients in K are gone, and their windows are over.
Close(K) ==
    /\ count' = [k \in Clients |-> IF k \in K THEN 0 ELSE count[k]]
    /\ Forget(K, [k \in Clients |-> 0])

\* fixed_window.lua for key k: INCR, then EXPIRE when that made the key.
Incremented(k) == Saturated(count[k] + 1)

\* Mutant of Expiry: each request sets the expiry again.
ExpirySliding(k) == Window

Expiry(k) == IF Incremented(k) = 1 THEN Window ELSE ttl[k]

\* Mutant of Run: two round trips, and the pod may be killed in between.
RunInTwoTrips(r) ==
    /\ script
    /\ count' = [count EXCEPT ![client[r]] = Incremented(client[r])]
    /\ ttl' \in {ttl, [ttl EXCEPT ![client[r]] = Expiry(client[r])]}
    /\ asked' = [asked EXCEPT ![client[r]] =
                    IF charged[r] THEN @ ELSE Saturated(@ + 1)]
    /\ charged' = [charged EXCEPT ![r] = TRUE]
    /\ UNCHANGED <<script, restarts, lost>>

\* The script runs for r: its client's window has counted it.
Run(r) ==
    /\ script
    /\ count' = [count EXCEPT ![client[r]] = Incremented(client[r])]
    /\ ttl' = [ttl EXCEPT ![client[r]] = Expiry(client[r])]
    /\ asked' = [asked EXCEPT ![client[r]] =
                    IF charged[r] THEN @ ELSE Saturated(@ + 1)]
    /\ charged' = [charged EXCEPT ![r] = TRUE]
    /\ UNCHANGED <<script, restarts, lost>>

\* Mutant of Stumble: a loop in place of the one retry.
StumbleForEver(r) ==
    /\ retried' = [retried EXCEPT ![r] = TRUE]
    /\ sha' = [sha EXCEPT ![pod[r]] = FALSE]
    /\ Goto(r, "load")

\* The except clause of check(): the first time, whatever the exception,
\* forget the hash and load the script again; then let it through to
\* dispatch(), which lets the request pass.
Stumble(r) ==
    \/ /\ ~retried[r]
       /\ retried' = [retried EXCEPT ![r] = TRUE]
       /\ sha' = [sha EXCEPT ![pod[r]] = FALSE]
       /\ Goto(r, "load")
    \/ /\ retried[r]
       /\ Goto(r, "passed")
       /\ UNCHANGED <<retried, sha>>

-----------------------------------------------------------------------------
(* RateLimiter.check, one action per await.                                *)

\* A POST reaches a pod, whose limiter may hold the hash already.
Arrive(r) ==
    /\ pc[r] \notin Waiting
    /\ Goto(r, IF sha[pod[r]] THEN "eval" ELSE "load")
    /\ retried' = [retried EXCEPT ![r] = FALSE]
    /\ charged' = [charged EXCEPT ![r] = FALSE]
    /\ UNCHANGED <<redisVars, sha, admitted, asked, lost>>

\* SCRIPT LOAD succeeds, unless another request of the pod has loaded it.
Load(r) ==
    /\ pc[r] = "load"
    /\ script' = TRUE
    /\ sha' = [sha EXCEPT ![pod[r]] = TRUE]
    /\ Goto(r, "eval")
    /\ UNCHANGED <<count, ttl, restarts, retried, historyVars>>

\* SCRIPT LOAD raises: fail open.
LoadFails(r) ==
    /\ pc[r] = "load"
    /\ Goto(r, "passed")
    /\ UNCHANGED <<redisVars, sha, retried, historyVars>>

\* Mutant of Allow: the count before this request is compared.
AllowOneMore(r) ==
    /\ pc[r] = "eval"
    /\ Run(r)
    /\ count[client[r]] <= Limit
    /\ admitted' = [admitted EXCEPT ![client[r]] = @ + 1]
    /\ Goto(r, "allowed")
    /\ UNCHANGED <<sha, retried>>

\* EVALSHA replies with a count within the limit.
Allow(r) ==
    /\ pc[r] = "eval"
    /\ Run(r)
    /\ Incremented(client[r]) <= Limit
    /\ admitted' = [admitted EXCEPT ![client[r]] = @ + 1]
    /\ Goto(r, "allowed")
    /\ UNCHANGED <<sha, retried>>

\* It replies with one over the limit: 429.
Refuse(r) ==
    /\ pc[r] = "eval"
    /\ Run(r)
    /\ Incremented(client[r]) > Limit
    /\ Goto(r, "refused")
    /\ UNCHANGED <<sha, retried, admitted>>

\* EVALSHA raises and has done nothing: NOSCRIPT, or no connection.
EvalFails(r) ==
    /\ pc[r] = "eval"
    /\ Stumble(r)
    /\ UNCHANGED <<redisVars, historyVars>>

\* EVALSHA raises after the script ran: the reply was lost or late.
EvalUnacknowledged(r) ==
    /\ pc[r] = "eval"
    /\ Run(r)
    /\ Stumble(r)
    /\ UNCHANGED admitted

-----------------------------------------------------------------------------
(* The world around                                                        *)

\* A second of Redis' clock.
Tick ==
    /\ \E k \in Clients : ttl[k] > 0
    /\ ttl' = [k \in Clients |-> IF ttl[k] = 0 THEN 0 ELSE ttl[k] - 1]
    /\ Close({ k \in Clients : ttl[k] = 1 })
    /\ UNCHANGED <<script, restarts, sha, pc, retried>>

\* maxmemory: Redis evicts a counter.
Evict(k) ==
    /\ count[k] > 0
    /\ ttl' = [ttl EXCEPT ![k] = 0]
    /\ Close({k})
    /\ UNCHANGED <<script, restarts, sha, requestVars>>

\* Redis restarts from its AOF: the script cache is empty, and the counters
\* may be back at earlier values, or not there yet.
RedisRestarts ==
    /\ restarts < MaxRestarts
    /\ restarts' = restarts + 1
    /\ script' = FALSE
    /\ \E kept \in [Clients -> 0 .. Limit + 1] :
         /\ \A k \in Clients : kept[k] <= count[k]
         /\ count' = kept
         /\ Forget({ k \in Clients : kept[k] = 0 },
                   [k \in Clients |-> count[k] - kept[k]])
    /\ ttl' = [k \in Clients |-> IF count'[k] = 0 THEN 0 ELSE ttl[k]]
    /\ UNCHANGED <<sha, requestVars>>

\* A pod is killed under its requests, and replaced.
PodDies(p) ==
    /\ sha' = [sha EXCEPT ![p] = FALSE]
    /\ pc' = [r \in Requests |->
                 IF pod[r] = p /\ pc[r] \in Waiting THEN "idle" ELSE pc[r]]
    /\ UNCHANGED <<redisVars, retried, historyVars>>

-----------------------------------------------------------------------------
Serve(r) ==
    \/ Load(r) \/ LoadFails(r)
    \/ Allow(r) \/ Refuse(r)
    \/ EvalFails(r) \/ EvalUnacknowledged(r)

Next ==
    \/ \E r \in Requests : Arrive(r) \/ Serve(r)
    \/ \E k \in Clients : Evict(k)
    \/ \E p \in Pods : PodDies(p)
    \/ RedisRestarts
    \/ Tick

Spec == Init /\ [][Next]_vars

\* Time passes, and the Redis client's socket timeout ends every await.
Fairness == WF_vars(Tick) /\ \A r \in Requests : WF_vars(Serve(r))

FairSpec == Spec /\ Fairness

-----------------------------------------------------------------------------
(* Properties                                                              *)

\* A counter never stays behind without an expiry: no interleaving of pods,
\* kills, evictions and restarts bans a client for good.
EveryKeyExpires == \A k \in Clients : count[k] > 0 <=> ttl[k] > 0

\* All pods together allow a client no more than Limit requests in a window,
\* save the increments Redis lost.
NoOverAdmission == \A k \in Clients : admitted[k] <= Limit + lost[k]

\* The retry of check() charges a request twice at most: a client pays two of
\* its allowance for a lost reply, never more.
AtMostDoubleCharge == \A k \in Clients : count[k] <= 2 * asked[k]

\* Every request is decided: Redis down, restarting or slow cannot hold it.
EveryRequestDecided ==
    \A r \in Requests : pc[r] \in Waiting ~> pc[r] \notin Waiting

\* A client that keeps asking while refused is let in again: refusals do not
\* extend the window.
BansEnd == \A k \in Clients : []<>(count[k] = 0)

-----------------------------------------------------------------------------
(* The inductive invariant behind EveryKeyExpires and NoOverAdmission.     *)

\* A counter is behind what its window has allowed by what Redis lost.
CountInv == \A k \in Clients : admitted[k] <= count[k] + lost[k]

IInv == TypeOK /\ EveryKeyExpires /\ CountInv /\ NoOverAdmission

(* And behind AtMostDoubleCharge.                                          *)

\* A request that was counted and still waits is in its retry.
RetryInv ==
    \A r \in Requests : pc[r] \in Waiting /\ charged[r] => retried[r]

\* Requests in their retry may be counted once more each: until Limit + 1
\* requests have been, there is room for that below the double charge.
InRetry(k) ==
    {r \in Requests : client[r] = k /\ pc[r] \in Waiting /\ charged[r]}

Room(k) == asked[k] = Limit + 1 \/ count[k] + Cardinality(InRetry(k)) <= 2 * asked[k]

ChargeInv == RetryInv /\ \A k \in Clients : Room(k)
=============================================================================
