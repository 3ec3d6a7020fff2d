-------------------------- MODULE RateLimiterProofs --------------------------
(***************************************************************************)
(* Proofs about RateLimiter, for any number of clients, requests and pods, *)
(* any limit and window, and any number of restarts of Redis.              *)
(*                                                                         *)
(* IInv is inductive: a counter is at least what its window has allowed,   *)
(* less the increments Redis lost, and has an expiry exactly when it has a *)
(* value.  The script checks its own increment against the limit, so an    *)
(* allowed request never takes the window over it.                         *)
(***************************************************************************)
EXTENDS RateLimiter, FiniteSetTheorems, TLAPS

USE LimiterAssumption

\* Every variable keeps its type in every step of the limiter, of Redis and
\* of the pods around it.
LEMMA TypeStep ==
    ASSUME TypeOK, [Next]_vars
    PROVE  TypeOK'
<1> USE DEF TypeOK, Waiting, Decisions
<1>1. ASSUME NEW r \in Requests, Arrive(r) PROVE TypeOK'
  BY <1>1 DEF Arrive, Goto, redisVars
<1>2. ASSUME NEW r \in Requests, Load(r) PROVE TypeOK'
  BY <1>2 DEF Load, Goto, historyVars
<1>3. ASSUME NEW r \in Requests, LoadFails(r) PROVE TypeOK'
  BY <1>3 DEF LoadFails, Goto, redisVars, historyVars
<1>4. ASSUME NEW r \in Requests, Run(r)
      PROVE  /\ count' \in [Clients -> 0 .. Limit + 1]
             /\ ttl' \in [Clients -> 0 .. Window]
             /\ asked' \in [Clients -> 0 .. Limit + 1]
             /\ charged' \in [Requests -> BOOLEAN]
             /\ lost' \in [Clients -> Nat]
             /\ script' \in BOOLEAN /\ restarts' \in 0 .. MaxRestarts
  BY <1>4 DEF Run, Incremented, Saturated, Expiry
<1>5. ASSUME NEW r \in Requests, Stumble(r)
      PROVE  /\ retried' \in [Requests -> BOOLEAN]
             /\ sha' \in [Pods -> BOOLEAN]
             /\ pc' \in [Requests -> {"idle"} \cup Waiting \cup Decisions]
  BY <1>5 DEF Stumble, Goto
<1>6. ASSUME NEW r \in Requests, Allow(r) PROVE TypeOK'
  BY <1>6, <1>4 DEF Allow, Goto
<1>7. ASSUME NEW r \in Requests, Refuse(r) PROVE TypeOK'
  BY <1>7, <1>4 DEF Refuse, Goto
<1>8. ASSUME NEW r \in Requests, EvalFails(r) PROVE TypeOK'
  BY <1>8, <1>5 DEF EvalFails, redisVars, historyVars
<1>9. ASSUME NEW r \in Requests, EvalUnacknowledged(r) PROVE TypeOK'
  BY <1>9, <1>4, <1>5 DEF EvalUnacknowledged
<1>10. ASSUME NEW K, NEW loss \in [Clients -> Nat], Forget(K, loss)
       PROVE  /\ charged' \in [Requests -> BOOLEAN]
              /\ admitted' \in [Clients -> Nat]
              /\ asked' \in [Clients -> 0 .. Limit + 1]
              /\ lost' \in [Clients -> Nat]
  BY <1>10 DEF Forget
<1>11. ASSUME NEW K, Close(K)
       PROVE  /\ count' \in [Clients -> 0 .. Limit + 1]
              /\ charged' \in [Requests -> BOOLEAN]
              /\ admitted' \in [Clients -> Nat]
              /\ asked' \in [Clients -> 0 .. Limit + 1]
              /\ lost' \in [Clients -> Nat]
  <2>1. [k \in Clients |-> 0] \in [Clients -> Nat]
    OBVIOUS
  <2>2. QED
    BY <1>11, <1>10, <2>1 DEF Close
<1>12. CASE Tick
  BY <1>12, <1>11 DEF Tick
<1>13. ASSUME NEW k \in Clients, Evict(k) PROVE TypeOK'
  BY <1>13, <1>11 DEF Evict, requestVars
<1>14. CASE RedisRestarts
  <2>1. PICK kept \in [Clients -> 0 .. Limit + 1] :
           /\ \A k \in Clients : kept[k] <= count[k]
           /\ count' = kept
           /\ Forget({ k \in Clients : kept[k] = 0 },
                     [k \in Clients |-> count[k] - kept[k]])
    BY <1>14 DEF RedisRestarts
  <2>2. [k \in Clients |-> count[k] - kept[k]] \in [Clients -> Nat]
    BY <2>1
  <2>3. /\ charged' \in [Requests -> BOOLEAN]
        /\ admitted' \in [Clients -> Nat]
        /\ asked' \in [Clients -> 0 .. Limit + 1]
        /\ lost' \in [Clients -> Nat]
    BY <1>10, <2>1, <2>2
  <2>4. ttl' \in [Clients -> 0 .. Window] /\ restarts' \in 0 .. MaxRestarts
    BY <1>14 DEF RedisRestarts
  <2>5. QED
    BY <1>14, <2>1, <2>3, <2>4 DEF RedisRestarts, requestVars
<1>15. ASSUME NEW p \in Pods, PodDies(p) PROVE TypeOK'
  BY <1>15 DEF PodDies, redisVars, historyVars
<1>16. CASE UNCHANGED vars
  BY <1>16 DEF vars, redisVars, requestVars, historyVars
<1>17. QED
  BY <1>1, <1>2, <1>3, <1>6, <1>7, <1>8, <1>9, <1>12, <1>13, <1>14, <1>15,
     <1>16 DEF Next, Serve

\* What the invariant says of the counters alone.
CountersInv == EveryKeyExpires /\ CountInv /\ NoOverAdmission

\* A run of the script that allows nobody new: the counter only grows.
LEMMA RunKeeps ==
    ASSUME IInv, NEW r \in Requests, Run(r), UNCHANGED admitted
    PROVE  CountersInv'
<1> DEFINE c == client[r]
<1>1. c \in Clients
  OBVIOUS
<1>2. /\ count' = [count EXCEPT ![c] = Incremented(c)]
      /\ ttl' = [ttl EXCEPT ![c] = Expiry(c)]
      /\ lost' = lost
  BY DEF Run
<1>3. Incremented(c) >= count[c] /\ Incremented(c) > 0
  BY <1>1 DEF IInv, TypeOK, Incremented, Saturated
<1>4. Expiry(c) > 0
  <2>1. CASE count[c] = 0
    BY <1>1, <2>1 DEF IInv, TypeOK, Expiry, Incremented, Saturated
  <2>2. CASE count[c] # 0
    BY <1>1, <2>2 DEF IInv, TypeOK, EveryKeyExpires, Expiry, Incremented, Saturated
  <2>3. QED
    BY <2>1, <2>2
<1> HIDE DEF c
<1>5. EveryKeyExpires'
  BY <1>1, <1>2, <1>3, <1>4 DEF IInv, TypeOK, EveryKeyExpires
<1>6. CountInv'
  BY <1>1, <1>2, <1>3 DEF IInv, TypeOK, CountInv, Incremented, Saturated
<1>7. NoOverAdmission'
  BY <1>2 DEF IInv, NoOverAdmission
<1>8. QED
  BY <1>5, <1>6, <1>7 DEF CountersInv

\* A run that allows r: the counter, at most Limit, grows with the admissions.
LEMMA RunAllows ==
    ASSUME IInv, NEW r \in Requests, Allow(r)
    PROVE  CountersInv'
<1> DEFINE c == client[r]
<1>1. c \in Clients
  OBVIOUS
<1>2. /\ count' = [count EXCEPT ![c] = Incremented(c)]
      /\ ttl' = [ttl EXCEPT ![c] = Expiry(c)]
      /\ admitted' = [admitted EXCEPT ![c] = @ + 1]
      /\ lost' = lost
      /\ Incremented(c) <= Limit
  BY DEF Allow, Run
<1>3. Incremented(c) = count[c] + 1
  BY <1>1, <1>2 DEF IInv, TypeOK, Incremented, Saturated
<1>4. Expiry(c) > 0
  BY <1>1, <1>3 DEF IInv, TypeOK, EveryKeyExpires, Expiry
<1>5. \A k \in Clients : count[k] \in Nat /\ ttl[k] \in Nat
                           /\ admitted[k] \in Nat /\ lost[k] \in Nat
  BY DEF IInv, TypeOK
<1>6. count \in [Clients -> 0 .. Limit + 1] /\ ttl \in [Clients -> 0 .. Window]
        /\ admitted \in [Clients -> Nat] /\ lost \in [Clients -> Nat]
  BY DEF IInv, TypeOK
<1> HIDE DEF c
<1>7. EveryKeyExpires'
  BY <1>1, <1>2, <1>3, <1>4, <1>5, <1>6 DEF IInv, EveryKeyExpires
<1>8. CountInv'
  BY <1>1, <1>2, <1>3, <1>5, <1>6 DEF IInv, CountInv
<1>9. NoOverAdmission'
  BY <1>1, <1>2, <1>3, <1>5, <1>6 DEF IInv, CountInv, NoOverAdmission
<1>10. QED
  BY <1>7, <1>8, <1>9 DEF CountersInv

\* Windows that end.
LEMMA CloseKeeps ==
    ASSUME IInv, NEW K \in SUBSET Clients, Close(K), ttl' \in [Clients -> 0 .. Window],
           \A k \in Clients : ttl'[k] = 0 <=> k \in K \/ ttl[k] = 0
    PROVE  CountersInv'
<1>1. \A k \in Clients :
        /\ count'[k] = IF k \in K THEN 0 ELSE count[k]
        /\ admitted'[k] = IF k \in K THEN 0 ELSE admitted[k]
        /\ lost'[k] = IF k \in K THEN 0 ELSE lost[k] + 0
  BY DEF Close, Forget
<1>2. \A k \in Clients : count[k] \in Nat /\ ttl[k] \in Nat /\ ttl'[k] \in Nat
                           /\ admitted[k] \in Nat /\ lost[k] \in Nat
  BY DEF IInv, TypeOK
<1>3. EveryKeyExpires'
  BY <1>1, <1>2 DEF IInv, EveryKeyExpires
<1>4. CountInv' /\ NoOverAdmission'
  BY <1>1, <1>2 DEF IInv, CountInv, NoOverAdmission
<1>5. QED
  BY <1>3, <1>4 DEF CountersInv

\* A restart of Redis: what the counters lose is accounted for.
LEMMA RestartKeeps ==
    ASSUME IInv, RedisRestarts
    PROVE  CountersInv'
<1>1. PICK kept \in [Clients -> 0 .. Limit + 1] :
         /\ \A k \in Clients : kept[k] <= count[k]
         /\ count' = kept
         /\ Forget({ k \in Clients : kept[k] = 0 },
                   [k \in Clients |-> count[k] - kept[k]])
  BY DEF RedisRestarts
<1>2. \A k \in Clients :
        /\ admitted'[k] = IF kept[k] = 0 THEN 0 ELSE admitted[k]
        /\ lost'[k] = IF kept[k] = 0 THEN 0 ELSE lost[k] + (count[k] - kept[k])
        /\ ttl'[k] = IF kept[k] = 0 THEN 0 ELSE ttl[k]
  BY <1>1 DEF Forget, RedisRestarts
<1>3. \A k \in Clients : count[k] \in Nat /\ ttl[k] \in Nat /\ kept[k] \in Nat
                           /\ admitted[k] \in Nat /\ lost[k] \in Nat
  BY <1>1 DEF IInv, TypeOK
<1>4. EveryKeyExpires'
  BY <1>1, <1>2, <1>3 DEF IInv, EveryKeyExpires
<1>5. CountInv' /\ NoOverAdmission'
  BY <1>1, <1>2, <1>3 DEF IInv, CountInv, NoOverAdmission
<1>6. QED
  BY <1>4, <1>5 DEF CountersInv

\* Each step keeps IInv.
LEMMA InvStep ==
    ASSUME IInv, [Next]_vars
    PROVE  IInv'
<1>1. TypeOK'
  BY TypeStep DEF IInv
<1>2. ASSUME UNCHANGED <<count, ttl, admitted, lost>> PROVE CountersInv'
  BY <1>2 DEF IInv, CountersInv, EveryKeyExpires, CountInv, NoOverAdmission
<1>3. ASSUME NEW r \in Requests, Arrive(r) \/ Serve(r) PROVE CountersInv'
  <2>1. CASE Arrive(r) \/ Load(r) \/ LoadFails(r) \/ EvalFails(r)
    BY <1>2, <2>1 DEF Arrive, Load, LoadFails, EvalFails, redisVars, historyVars
  <2>2. CASE Allow(r)
    BY RunAllows, <2>2
  <2>3. CASE Refuse(r) \/ EvalUnacknowledged(r)
    BY RunKeeps, <2>3 DEF Refuse, EvalUnacknowledged
  <2>4. QED
    BY <1>3, <2>1, <2>2, <2>3 DEF Serve
<1>4. ASSUME NEW k \in Clients, Evict(k) PROVE CountersInv'
  <2>1. Close({k}) /\ \A j \in Clients : ttl'[j] = 0 <=> j \in {k} \/ ttl[j] = 0
    BY <1>4 DEF Evict, IInv, TypeOK
  <2>2. QED
    BY <1>1, <2>1, CloseKeeps DEF TypeOK
<1>5. ASSUME Tick PROVE CountersInv'
  <2> DEFINE K == { k \in Clients : ttl[k] = 1 }
  <2>1. Close(K) /\ K \in SUBSET Clients
    BY <1>5 DEF Tick
  <2>2. \A k \in Clients : ttl'[k] = 0 <=> k \in K \/ ttl[k] = 0
    BY <1>5 DEF Tick, IInv, TypeOK
  <2>3. QED
    BY <1>1, <2>1, <2>2, CloseKeeps DEF TypeOK
<1>6. ASSUME NEW p \in Pods, PodDies(p) PROVE CountersInv'
  BY <1>2, <1>6 DEF PodDies, redisVars, historyVars
<1>7. ASSUME RedisRestarts PROVE CountersInv'
  BY RestartKeeps, <1>7
<1>8. ASSUME UNCHANGED vars PROVE CountersInv'
  BY <1>2, <1>8 DEF vars, redisVars, historyVars
<1>9. CountersInv'
  BY <1>3, <1>4, <1>5, <1>6, <1>7, <1>8 DEF Next
<1>10. QED
  BY <1>1, <1>9 DEF IInv, CountersInv

\* The limiter's strengthened invariant is invariant.
THEOREM Inductive == Spec => []IInv
<1>1. Init => IInv
  <2>1. Init => TypeOK
    <3>1. 0 \in Nat /\ 0 \in 0 .. Limit + 1 /\ 0 \in 0 .. Window /\ 0 \in 0 .. MaxRestarts
      OBVIOUS
    <3>2. Init => /\ count \in [Clients -> 0 .. Limit + 1]
                  /\ ttl \in [Clients -> 0 .. Window]
                  /\ asked \in [Clients -> 0 .. Limit + 1]
                  /\ admitted \in [Clients -> Nat]
                  /\ lost \in [Clients -> Nat]
                  /\ restarts \in 0 .. MaxRestarts
      BY <3>1 DEF Init
    <3>3. Init => /\ pc \in [Requests -> {"idle"} \cup Waiting \cup Decisions]
                  /\ script \in BOOLEAN
                  /\ sha \in [Pods -> BOOLEAN]
                  /\ retried \in [Requests -> BOOLEAN]
                  /\ charged \in [Requests -> BOOLEAN]
      BY DEF Init
    <3>4. QED
      BY <3>2, <3>3 DEF TypeOK
  <2>2. Init => EveryKeyExpires
    BY DEF Init, EveryKeyExpires
  <2>3. Init => CountInv /\ NoOverAdmission
    BY DEF Init, CountInv, NoOverAdmission
  <2>4. QED
    BY <2>1, <2>2, <2>3 DEF IInv
<1>2. IInv /\ [Next]_vars => IInv'
  BY InvStep
<1>3. QED
  BY <1>1, <1>2, PTL DEF Spec

\* The variables keep their types.
THEOREM TypeCorrect == Spec => []TypeOK
<1>1. IInv => TypeOK
  BY DEF IInv
<1>2. QED
  BY <1>1, Inductive, PTL

\* The atomic script leaves no counter without an expiry, wherever a pod is
\* killed and whatever Redis forgets: no client is banned for good.
THEOREM KeysExpire == Spec => []EveryKeyExpires
<1>1. IInv => EveryKeyExpires
  BY DEF IInv
<1>2. QED
  BY <1>1, Inductive, PTL

\* All pods together allow a client no more than the limit in a window,
\* except for the increments a restart of Redis lost.
THEOREM AdmissionIsBounded == Spec => []NoOverAdmission
<1>1. IInv => NoOverAdmission
  BY DEF IInv
<1>2. QED
  BY <1>1, Inductive, PTL

-----------------------------------------------------------------------------
(* The double charge.                                                      *)

\* The requests in their retry can be counted.
LEMMA RetryFinite ==
    ASSUME NEW k \in Clients
    PROVE  IsFiniteSet(InRetry(k)) /\ Cardinality(InRetry(k)) \in Nat
<1>1. InRetry(k) \subseteq Requests
  BY DEF InRetry
<1>2. IsFiniteSet(InRetry(k))
  BY <1>1, FS_Subset
<1>3. QED
  BY <1>2, FS_CardinalityType

\* Where nobody new is counted and nobody enters the retry, the room stays.
LEMMA RoomStays ==
    ASSUME TypeOK, TypeOK', NEW k \in Clients, Room(k),
           InRetry(k)' \subseteq InRetry(k), asked'[k] = asked[k],
           count'[k] <= count[k]
    PROVE  Room(k)'
<1>1. Cardinality(InRetry(k)') <= Cardinality(InRetry(k)) /\ Cardinality(InRetry(k)') \in Nat
  BY RetryFinite, FS_Subset, FS_CardinalityType
<1>2. Cardinality(InRetry(k)) \in Nat
  BY RetryFinite
<1>3. /\ count[k] \in 0 .. Limit + 1 /\ count'[k] \in 0 .. Limit + 1
      /\ asked[k] \in 0 .. Limit + 1
  BY DEF TypeOK
<1>4. asked[k] = Limit + 1 \/ count[k] + Cardinality(InRetry(k)) <= 2 * asked[k]
  BY DEF Room
<1>5. asked[k] = Limit + 1 \/ count'[k] + Cardinality(InRetry(k)') <= 2 * asked[k]
  BY <1>1, <1>2, <1>3, <1>4
<1>6. QED
  BY <1>5 DEF Room

\* A window that ends leaves nobody counted.
LEMMA RoomEnds ==
    ASSUME TypeOK, NEW k \in Clients, count'[k] = 0, asked'[k] = 0,
           \A r \in Requests : client[r] = k => ~charged'[r]
    PROVE  Room(k)'
<1>1. InRetry(k)' = {}
  BY DEF InRetry
<1>2. Cardinality(InRetry(k)') = 0
  BY <1>1, FS_EmptySet
<1>3. QED
  BY <1>2 DEF Room

\* A run of the script, whether or not its reply comes: the charge of a
\* request counted before was reserved, and one counted for the first time
\* makes room for two.
LEMMA RoomRun ==
    ASSUME TypeOK, TypeOK', ChargeInv, NEW r \in Requests, Run(r), pc[r] \in Waiting,
           pc' = [pc EXCEPT ![r] = pc'[r]], retried[r] => pc'[r] \notin Waiting,
           NEW k \in Clients
    PROVE  Room(k)'
<1>1. Room(k) /\ (charged[r] => retried[r])
  BY DEF ChargeInv, RetryInv
<1>2. charged' = [charged EXCEPT ![r] = TRUE]
  BY DEF Run
<1>3. \A q \in Requests : q # r => pc'[q] = pc[q] /\ charged'[q] = charged[q]
  BY <1>2 DEF TypeOK
<1>4. CASE client[r] # k
  <2>1. InRetry(k)' = InRetry(k)
    BY <1>3, <1>4 DEF InRetry
  <2>2. count'[k] = count[k] /\ asked'[k] = asked[k]
    BY <1>4 DEF Run, TypeOK
  <2>3. QED
    BY <1>1, <2>1, <2>2, RoomStays DEF TypeOK
<1>5. CASE client[r] = k
  <2>1. /\ count[k] \in 0 .. Limit + 1 /\ asked[k] \in 0 .. Limit + 1
        /\ count'[k] \in 0 .. Limit + 1 /\ count'[k] <= count[k] + 1
    BY <1>5 DEF Run, TypeOK, Incremented, Saturated
  <2>2. IsFiniteSet(InRetry(k)) /\ Cardinality(InRetry(k)) \in Nat
    BY RetryFinite
  <2>3. asked[k] = Limit + 1 \/ count[k] + Cardinality(InRetry(k)) <= 2 * asked[k]
    BY <1>1 DEF Room
  <2>4. CASE charged[r]
    <3>1. InRetry(k)' = InRetry(k) \ {r} /\ r \in InRetry(k)
      BY <1>1, <1>3, <1>5, <2>4 DEF InRetry
    <3>2. Cardinality(InRetry(k)') = Cardinality(InRetry(k)) - 1
      <4>1. Cardinality(InRetry(k) \ {r}) = Cardinality(InRetry(k)) - 1
        BY <2>2, <3>1, FS_RemoveElement
      <4>2. QED
        BY <3>1, <4>1
    <3>3. asked'[k] = asked[k]
      BY <1>5, <2>4 DEF Run, TypeOK
    <3>4. asked[k] = Limit + 1 \/ count'[k] + Cardinality(InRetry(k)') <= 2 * asked[k]
      BY <2>1, <2>2, <2>3, <3>2
    <3>5. QED
      BY <3>3, <3>4 DEF Room
  <2>5. CASE ~charged[r]
    <3>1. r \notin InRetry(k) /\ InRetry(k)' \subseteq InRetry(k) \cup {r}
      BY <1>3, <1>5, <2>5 DEF InRetry
    <3>2. /\ IsFiniteSet(InRetry(k) \cup {r})
          /\ Cardinality(InRetry(k) \cup {r}) = Cardinality(InRetry(k)) + 1
      BY <2>2, <3>1, FS_AddElement
    <3>3. /\ Cardinality(InRetry(k)') <= Cardinality(InRetry(k)) + 1
          /\ Cardinality(InRetry(k)') \in Nat
      BY <3>1, <3>2, FS_Subset, FS_CardinalityType
    <3>4. asked'[k] = IF asked[k] + 1 > Limit THEN Limit + 1 ELSE asked[k] + 1
      BY <1>5, <2>5 DEF Run, TypeOK, Saturated
    <3>5. asked'[k] = Limit + 1 \/ count'[k] + Cardinality(InRetry(k)') <= 2 * asked'[k]
      BY <2>1, <2>2, <2>3, <3>3, <3>4
    <3>6. QED
      BY <3>5 DEF Room
  <2>6. QED
    BY <2>4, <2>5
<1>6. QED
  BY <1>4, <1>5

\* Each step keeps the room for the retries.
LEMMA ChargeStep ==
    ASSUME TypeOK, TypeOK', ChargeInv, [Next]_vars
    PROVE  ChargeInv'
<1> USE DEF Waiting
<1>1. ASSUME UNCHANGED <<count, asked>>,
             \A r \in Requests : pc'[r] \in Waiting /\ charged'[r] =>
                 pc[r] \in Waiting /\ charged[r] /\ (retried[r] => retried'[r])
      PROVE  ChargeInv'
  <2>1. RetryInv'
    BY <1>1 DEF ChargeInv, RetryInv
  <2>2. ASSUME NEW k \in Clients PROVE Room(k)'
    <3>1. InRetry(k)' \subseteq InRetry(k)
      BY <1>1 DEF InRetry
    <3>2. QED
      BY <1>1, <3>1, RoomStays DEF ChargeInv, TypeOK
  <2>3. QED
    BY <2>1, <2>2 DEF ChargeInv
<1>2. ASSUME NEW r \in Requests, Arrive(r) \/ Load(r) \/ LoadFails(r) \/ EvalFails(r)
      PROVE  ChargeInv'
  <2>1. CASE Arrive(r)
    BY <1>1, <2>1 DEF Arrive, Goto, redisVars, TypeOK
  <2>2. CASE Load(r)
    BY <1>1, <2>2 DEF Load, Goto, historyVars, TypeOK
  <2>3. CASE LoadFails(r)
    BY <1>1, <2>3 DEF LoadFails, Goto, redisVars, historyVars, TypeOK
  <2>4. CASE EvalFails(r)
    BY <1>1, <2>4 DEF EvalFails, Stumble, Goto, redisVars, historyVars, TypeOK
  <2>5. QED
    BY <1>2, <2>1, <2>2, <2>3, <2>4
<1>3. ASSUME NEW r \in Requests, Allow(r) \/ Refuse(r) \/ EvalUnacknowledged(r)
      PROVE  ChargeInv'
  <2>1. /\ Run(r) /\ pc[r] \in Waiting
        /\ pc' = [pc EXCEPT ![r] = pc'[r]]
        /\ retried[r] => pc'[r] \notin Waiting
        /\ pc'[r] \in Waiting => retried'[r]
        /\ \A q \in Requests : q # r => retried'[q] = retried[q]
    BY <1>3 DEF Allow, Refuse, EvalUnacknowledged, Stumble, Goto, TypeOK
  <2>2. \A k \in Clients : Room(k)'
    BY <2>1, RoomRun
  <2>3. RetryInv'
    BY <2>1 DEF ChargeInv, RetryInv, Run, TypeOK
  <2>4. QED
    BY <2>2, <2>3 DEF ChargeInv
<1>4. ASSUME NEW K \in SUBSET Clients, UNCHANGED <<pc, retried>>,
             \A k \in Clients : k \in K => count'[k] = 0,
             \A k \in Clients : k \notin K => count'[k] <= count[k],
             \A k \in Clients : asked'[k] = IF k \in K THEN 0 ELSE asked[k],
             \A r \in Requests : charged'[r] => charged[r] /\ client[r] \notin K
      PROVE  ChargeInv'
  <2>1. RetryInv'
    BY <1>4 DEF ChargeInv, RetryInv
  <2>2. ASSUME NEW k \in Clients PROVE Room(k)'
    <3>1. CASE k \in K
      <4>1. count'[k] = 0 /\ asked'[k] = 0
        BY <1>4, <3>1
      <4>2. \A r \in Requests : client[r] = k => ~charged'[r]
        BY <1>4, <3>1
      <4>3. QED
        BY <4>1, <4>2, RoomEnds
    <3>2. CASE k \notin K
      <4>1. InRetry(k)' \subseteq InRetry(k)
        BY <1>4 DEF InRetry
      <4>2. QED
        BY <1>4, <3>2, <4>1, RoomStays DEF ChargeInv
    <3>3. QED
      BY <3>1, <3>2
  <2>3. QED
    BY <2>1, <2>2 DEF ChargeInv
<1>5. ASSUME NEW K \in SUBSET Clients, Close(K), UNCHANGED <<pc, retried>>
       PROVE  ChargeInv'
  <2>1. \A k \in Clients : count[k] \in Nat
    BY DEF TypeOK
  <2>2. \A k \in Clients : /\ count'[k] = IF k \in K THEN 0 ELSE count[k]
                           /\ asked'[k] = IF k \in K THEN 0 ELSE asked[k]
    BY <1>5 DEF Close, Forget
  <2>3. \A r \in Requests : charged'[r] => charged[r] /\ client[r] \notin K
    BY <1>5 DEF Close, Forget
  <2>4. /\ \A k \in Clients : k \in K => count'[k] = 0
        /\ \A k \in Clients : k \notin K => count'[k] <= count[k]
    BY <2>1, <2>2
  <2>5. QED
    BY <1>4, <1>5, <2>2, <2>3, <2>4
<1>6. ASSUME NEW k \in Clients, Evict(k) PROVE ChargeInv'
  <2>1. {k} \in SUBSET Clients /\ Close({k}) /\ UNCHANGED <<pc, retried>>
    BY <1>6 DEF Evict, requestVars
  <2>2. QED
    BY <1>5, <2>1
<1>7. CASE Tick
  <2> DEFINE K == { k \in Clients : ttl[k] = 1 }
  <2>1. K \in SUBSET Clients /\ Close(K) /\ UNCHANGED <<pc, retried>>
    BY <1>7 DEF Tick
  <2> HIDE DEF K
  <2>2. QED
    BY <1>5, <2>1
<1>8. CASE RedisRestarts
  <2>1. PICK kept \in [Clients -> 0 .. Limit + 1] :
           /\ \A k \in Clients : kept[k] <= count[k]
           /\ count' = kept
           /\ Forget({ k \in Clients : kept[k] = 0 },
                     [k \in Clients |-> count[k] - kept[k]])
    BY <1>8 DEF RedisRestarts
  <2> DEFINE K == { k \in Clients : kept[k] = 0 }
  <2>2. /\ \A k \in Clients : asked'[k] = IF k \in K THEN 0 ELSE asked[k]
        /\ \A r \in Requests : charged'[r] => charged[r] /\ client[r] \notin K
    BY <2>1 DEF Forget
  <2>3. QED
    BY <1>4, <1>8, <2>1, <2>2 DEF RedisRestarts, requestVars
<1>9. ASSUME NEW p \in Pods, PodDies(p) PROVE ChargeInv'
  BY <1>1, <1>9 DEF PodDies, redisVars, historyVars, TypeOK
<1>10. CASE UNCHANGED vars
  BY <1>1, <1>10 DEF vars, redisVars, requestVars, historyVars
<1>11. QED
  BY <1>2, <1>3, <1>6, <1>7, <1>8, <1>9, <1>10 DEF Next, Serve

\* The retry of check() makes a client pay twice for a request at most,
\* however many of its requests lose their replies at the same time.
THEOREM ChargedTwice == Spec => []AtMostDoubleCharge
<1>1. Init => ChargeInv
  <2>1. ASSUME Init PROVE \A k \in Clients : InRetry(k) = {}
    BY <2>1 DEF Init, InRetry
  <2>2. ASSUME Init PROVE \A k \in Clients : Room(k)
    <3>1. \A k \in Clients : Cardinality(InRetry(k)) = 0
      BY <2>1, <2>2, FS_EmptySet
    <3>2. \A k \in Clients : count[k] = 0 /\ asked[k] = 0
      BY <2>2 DEF Init
    <3>3. QED
      BY <3>1, <3>2 DEF Room
  <2>3. ASSUME Init PROVE RetryInv
    BY <2>3 DEF Init, RetryInv
  <2>4. QED
    BY <2>2, <2>3 DEF ChargeInv
<1>2. TypeOK /\ TypeOK' /\ ChargeInv /\ [Next]_vars => ChargeInv'
  BY ChargeStep
<1>3. TypeOK /\ ChargeInv => AtMostDoubleCharge
  <2> SUFFICES ASSUME TypeOK, ChargeInv, NEW k \in Clients
               PROVE  count[k] <= 2 * asked[k]
    BY DEF AtMostDoubleCharge
  <2>1. Cardinality(InRetry(k)) \in Nat
    BY RetryFinite
  <2>2. QED
    BY <2>1 DEF ChargeInv, Room, TypeOK
<1>4. QED
  BY <1>1, <1>2, <1>3, TypeCorrect, PTL DEF Spec
=============================================================================
