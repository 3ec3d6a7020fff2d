------------------------- MODULE TriageLadderProofs -------------------------
(***************************************************************************)
(* Proofs about TriageLadder for any number of concurrent calls, any retry *)
(* count, budget, timeout and jitter: type correctness, the bound on what  *)
(* a call costs, trust in what is served and cached, one record per call.  *)
(*                                                                         *)
(* The argument is local to a call, except that the hit path relies on     *)
(* what other calls cached: the inductive invariant says of each await     *)
(* what the call knows there, and of the cache that it holds only trusted  *)
(* verdicts of the primary.                                                *)
(***************************************************************************)
EXTENDS TriageLadder, SequenceTheorems, FiniteSetTheorems, TLAPS

-----------------------------------------------------------------------------
\* An attempt's timeout is a number of ticks, and takes no call further past
\* its deadline than the least timeout does.
LEMMA TimeoutBound ==
    ASSUME TypeOK, NEW c \in Calls
    PROVE  /\ AttemptTimeout(c) \in Nat
           /\ elapsed[c] <= Budget + Jitter =>
                elapsed[c] + AttemptTimeout(c) <= Budget + Jitter + Epsilon
  <1>1. /\ Budget \in Nat /\ PerAttempt \in Nat /\ Jitter \in Nat
        /\ Epsilon \in Nat /\ Epsilon > 0
    BY LadderAssumption
  <1>2. elapsed[c] \in Nat
    BY DEF TypeOK
  <1> QED
    BY <1>1, <1>2 DEF AttemptTimeout, _remaining, AtLeast, AtMost

\* The ring stays a sequence of records.
LEMMA AppendedType ==
    ASSUME ring \in Seq(Records), NEW record \in Records
    PROVE  Appended(record) \in Seq(Records)
  <1> DEFINE longer == Append(ring, record)
  <1>1. longer \in Seq(Records) /\ longer # <<>>
    BY AppendProperties
  <1>2. Tail(longer) \in Seq(Records)
    BY <1>1
  <1> QED
    BY <1>1, <1>2 DEF Appended

\* What the last rung does to the variables.
LEMMA FallBackEffect ==
    ASSUME TypeOK, NEW c \in Calls, FallBack(c)
    PROVE  /\ pc' = [pc EXCEPT ![c] = "done"]
           /\ outcome' = [outcome EXCEPT ![c] =
                [by |-> "rules:fallback", cached |-> FALSE, verdict |-> NoVerdict]]
           /\ recorded' = [recorded EXCEPT ![c] = @ + 1]
           /\ warned' = [warned EXCEPT ![c] = @ + 1]
           /\ attempts' = [attempts EXCEPT ![c] = 0]
           /\ err' = [err EXCEPT ![c] = "none"]
           /\ ended' = Append(ended, c)
           /\ ring' \in Seq(Records)
           /\ results' \in [Counters -> Nat]
  <1>1. ring' \in Seq(Records)
    <2>1. [call |-> c, by |-> "rules:fallback", cached |-> FALSE] \in Records
      BY DEF Records, Providers
    <2> QED
      BY <2>1, AppendedType DEF TypeOK, FallBack, Return, _record
  <1>2. results' \in [Counters -> Nat]
    BY DEF TypeOK, FallBack, Count
  <1> QED
    BY <1>1, <1>2 DEF FallBack, Return, _record, Goto

\* What the except clause does: it ends the call or has it sleep, with an
\* attempt and time left.
LEMMA FailEffect ==
    ASSUME TypeOK, NEW c \in Calls, NEW class \in Classes, NEW ticks \in Nat,
           Fail(c, class, ticks)
    PROVE  /\ elapsed' = [elapsed EXCEPT ![c] = @ + ticks]
           /\ UNCHANGED <<verdict, key>>
           /\ \/ FallBack(c)
              \/ /\ pc' = [pc EXCEPT ![c] = "sleep"]
                 /\ err' = [err EXCEPT ![c] = class]
                 /\ class = "retryable"
                 /\ attempts[c] <= MaxRetries
                 /\ elapsed[c] + ticks < Budget
                 /\ UNCHANGED <<attempts, outcome, traceVars>>
  <1>1. MaxRetries \in Nat /\ Budget \in Nat
    BY LadderAssumption
  <1>2. CASE FallBack(c)
    BY <1>2, FallBackEffect DEF Fail, Wait
  <1>3. CASE ~GivesUp(c, class, ticks) /\ BackOff(c, class)
    <2>1. /\ class = "retryable"
          /\ attempts[c] <= MaxRetries
          /\ elapsed[c] + ticks < Budget
      BY <1>1, <1>3 DEF GivesUp, Classes, TypeOK
    <2> QED
      BY <1>3, <2>1 DEF Fail, Wait, BackOff, Goto
  <1> QED
    BY <1>2, <1>3 DEF Fail

\* Every failing step of the ladder is a Fail within the attempt's timeout or
\* the time a cache.set may take; only the latter may have touched the cache.
LEMMA FailCases ==
    ASSUME TypeOK, NEW c \in Calls,
           ProviderRaises(c) \/ ProviderTimesOut(c) \/ CacheSetRaises(c)
    PROVE  \E class \in Classes, ticks \in Nat :
             /\ Fail(c, class, ticks)
             /\ \/ pc[c] = "attempt" /\ ticks <= AttemptTimeout(c)
                \/ pc[c] = "store" /\ ticks <= RedisWait /\ class = "non_retryable"
             /\ UNCHANGED cache \/ (pc[c] = "store" /\ Store(c))
  <1>1. AttemptTimeout(c) \in Nat /\ RedisWait \in Nat
    BY TimeoutBound, LadderAssumption
  <1>2. CASE ProviderRaises(c)
    <2>1. /\ pc[c] = "attempt" /\ UNCHANGED cache
          /\ \E ticks \in 0 .. AttemptTimeout(c), class \in Classes : Fail(c, class, ticks)
      BY <1>2 DEF ProviderRaises
    <2>2. PICK ticks \in 0 .. AttemptTimeout(c), class \in Classes : Fail(c, class, ticks)
      BY <2>1
    <2>3. ticks \in Nat /\ ticks <= AttemptTimeout(c)
      BY <1>1
    <2> QED
      BY <2>1, <2>2, <2>3
  <1>3. CASE ProviderTimesOut(c)
    <2>1. /\ pc[c] = "attempt" /\ UNCHANGED cache
          /\ Fail(c, "retryable", AttemptTimeout(c))
      BY <1>3 DEF ProviderTimesOut
    <2>2. "retryable" \in Classes /\ AttemptTimeout(c) <= AttemptTimeout(c)
      BY <1>1 DEF Classes
    <2> QED
      BY <1>1, <2>1, <2>2
  <1>4. CASE CacheSetRaises(c)
    <2>1. /\ pc[c] = "store" /\ (UNCHANGED cache \/ Store(c))
          /\ \E ticks \in 0 .. RedisWait : Fail(c, "non_retryable", ticks)
      BY <1>4 DEF CacheSetRaises
    <2>2. PICK ticks \in 0 .. RedisWait : Fail(c, "non_retryable", ticks)
      BY <2>1
    <2>3. ticks \in Nat /\ ticks <= RedisWait /\ "non_retryable" \in Classes
      BY <1>1 DEF Classes
    <2> QED
      BY <2>1, <2>2, <2>3
  <1> QED
    BY <1>2, <1>3, <1>4

-----------------------------------------------------------------------------
\* Every step keeps the types, a cache.set because a call has a verdict in
\* hand when it gets there.
LEMMA TypeStep == TypeOK /\ LadderInv /\ [Next]_vars => TypeOK'
  <1> SUFFICES ASSUME TypeOK, LadderInv, [Next]_vars PROVE TypeOK'
    OBVIOUS
  <1>v. \A c \in Calls : pc[c] = "store" => verdict[c] \in Verdicts
    BY DEF LadderInv, AwaitInv, Trusted
  <1>1. ASSUME NEW c \in Calls, Serve(c) PROVE TypeOK'
    <2>1. CASE CacheHit(c)
      <3> DEFINE hit == cache[key[c]]
      <3>1. hit \in Entries
        BY <2>1 DEF TypeOK, CacheHit
      <3>2. hit.by \in Providers /\ hit.verdict \in Verdicts
        BY <3>1 DEF Entries
      <3>3. ring' \in Seq(Records)
        BY <2>1, <3>2, AppendedType DEF TypeOK, CacheHit, Return, _record, Records
      <3>4. outcome' \in [Calls -> Outcomes]
        BY <2>1, <3>2 DEF TypeOK, CacheHit, Return, Outcomes
      <3>5. results' \in [Counters -> Nat]
        BY <2>1 DEF TypeOK, CacheHit, Count
      <3> QED
        BY <2>1, <3>3, <3>4, <3>5 DEF TypeOK, CacheHit, Return, _record, Goto, PCs
    <2>2. CASE CacheMiss(c)
      <3>1. results' \in [Counters -> Nat]
        BY <2>2 DEF TypeOK, CacheMiss, Count
      <3> QED
        BY <2>2, <3>1 DEF TypeOK, CacheMiss, Goto, PCs
    <2>3. CASE CacheGetRaises(c)
      BY <2>3 DEF TypeOK, CacheGetRaises, Goto, PCs, traceVars
    <2>4. CASE ProviderAnswers(c)
      <3>1. PICK ticks \in 0 .. AttemptTimeout(c) : Wait(c, ticks)
        BY <2>4 DEF ProviderAnswers
      <3>2. ticks \in Nat
        BY TimeoutBound
      <3>3. elapsed' \in [Calls -> Nat]
        BY <3>1, <3>2 DEF TypeOK, Wait
      <3>4. verdict' \in [Calls -> Verdicts \cup {NoVerdict}]
        BY <2>4 DEF TypeOK, ProviderAnswers, _postvalidate, Verdicts
      <3> QED
        BY <2>4, <3>3, <3>4 DEF TypeOK, ProviderAnswers, Goto, PCs, traceVars
    <2>5. CASE ProviderRaises(c) \/ ProviderTimesOut(c) \/ CacheSetRaises(c)
      <3>1. PICK class \in Classes, ticks \in Nat :
              /\ Fail(c, class, ticks)
              /\ UNCHANGED cache \/ (pc[c] = "store" /\ Store(c))
        BY <2>5, FailCases
      <3>2. /\ elapsed' = [elapsed EXCEPT ![c] = @ + ticks]
            /\ UNCHANGED <<verdict, key>>
            /\ \/ FallBack(c)
               \/ /\ pc' = [pc EXCEPT ![c] = "sleep"]
                  /\ err' = [err EXCEPT ![c] = class]
                  /\ UNCHANGED <<attempts, outcome, traceVars>>
        BY <3>1, FailEffect
      <3>3. /\ elapsed' \in [Calls -> Nat]
            /\ cache' \in [Keys -> Entries \cup {NoVerdict}]
        <4>1. CASE UNCHANGED cache
          BY <3>2, <4>1 DEF TypeOK
        <4>2. CASE pc[c] = "store" /\ Store(c)
          <5>1. [verdict |-> verdict[c], by |-> "primary"] \in Entries
            BY <1>v, <4>2 DEF Entries, Providers
          <5> QED
            BY <3>2, <4>2, <5>1 DEF TypeOK, Store
        <4> QED
          BY <3>1, <4>1, <4>2
      <3>4. CASE FallBack(c)
        <4> DEFINE answer == [by |-> "rules:fallback", cached |-> FALSE, verdict |-> NoVerdict]
        <4>a. /\ pc' = [pc EXCEPT ![c] = "done"]
              /\ outcome' = [outcome EXCEPT ![c] = answer]
              /\ recorded' = [recorded EXCEPT ![c] = @ + 1]
              /\ warned' = [warned EXCEPT ![c] = @ + 1]
              /\ attempts' = [attempts EXCEPT ![c] = 0]
              /\ err' = [err EXCEPT ![c] = "none"]
              /\ ended' = Append(ended, c)
          BY <3>4, FallBackEffect
        <4>b. answer \in Outcomes
          BY DEF Outcomes, Providers
        <4> HIDE DEF answer
        <4>1. outcome' \in [Calls -> Outcomes]
          BY <4>a, <4>b DEF TypeOK
        <4>2. /\ recorded' \in [Calls -> Nat] /\ warned' \in [Calls -> Nat]
              /\ attempts' \in [Calls -> Nat]
              /\ err' \in [Calls -> Classes \cup {"none"}]
              /\ ended' \in Seq(Calls)
          BY <4>a DEF TypeOK
        <4>3. pc' \in [Calls -> PCs]
          BY <4>a DEF TypeOK, PCs
        <4>4. ring' \in Seq(Records) /\ results' \in [Counters -> Nat]
          BY <3>4, FallBackEffect
        <4> QED
          BY <3>2, <3>3, <4>1, <4>2, <4>3, <4>4 DEF TypeOK
      <3>5. CASE /\ pc' = [pc EXCEPT ![c] = "sleep"]
                 /\ err' = [err EXCEPT ![c] = class]
                 /\ UNCHANGED <<attempts, outcome, traceVars>>
        BY <3>2, <3>3, <3>5 DEF TypeOK, PCs, traceVars
      <3> QED
        BY <3>2, <3>4, <3>5
    <2>6. CASE Retry(c)
      <3>1. PICK ticks \in 0 .. Jitter : Wait(c, ticks)
        BY <2>6 DEF Retry
      <3>2. ticks \in Nat
        BY <3>1, LadderAssumption
      <3>3. elapsed' \in [Calls -> Nat]
        BY <3>1, <3>2 DEF TypeOK, Wait
      <3>4. pc' \in [Calls -> PCs] /\ attempts' \in [Calls -> Nat]
        BY <2>6 DEF TypeOK, Retry, Goto, PCs
      <3> QED
        BY <2>6, <3>3, <3>4 DEF TypeOK, Retry, traceVars
    <2>7. CASE CacheSet(c)
      <3>1. PICK ticks \in 0 .. RedisWait : Wait(c, ticks)
        BY <2>7 DEF CacheSet
      <3>2. ticks \in Nat
        BY <3>1, LadderAssumption
      <3>3. elapsed' \in [Calls -> Nat]
        BY <3>1, <3>2 DEF TypeOK, Wait
      <3>4. outcome' \in [Calls -> Outcomes]
        BY <2>7 DEF TypeOK, CacheSet, Return, Outcomes, Providers
      <3>5. ring' \in Seq(Records)
        BY <2>7, AppendedType DEF TypeOK, CacheSet, Return, _record, Records, Providers
      <3>6. verdict[c] \in Verdicts
        BY <1>v, <2>7 DEF CacheSet
      <3>7. cache' \in [Keys -> Entries \cup {NoVerdict}]
        BY <2>7, <3>6 DEF TypeOK, CacheSet, Store, Entries, Providers
      <3>8. pc' \in [Calls -> PCs] /\ recorded' \in [Calls -> Nat]
        BY <2>7 DEF TypeOK, CacheSet, Return, _record, Goto, PCs
      <3>9. /\ attempts' \in [Calls -> Nat] /\ err' \in [Calls -> Classes \cup {"none"}]
            /\ ended' \in Seq(Calls)
        BY <2>7 DEF TypeOK, CacheSet, Return
      <3> QED
        BY <2>7, <3>3, <3>4, <3>5, <3>7, <3>8, <3>9 DEF TypeOK, CacheSet
    <2> QED
      BY <1>1, <2>1, <2>2, <2>3, <2>4, <2>5, <2>6, <2>7 DEF Serve
  <1>2. ASSUME NEW k \in Keys, Expire(k) PROVE TypeOK'
    BY <1>2 DEF TypeOK, Expire, callVars, traceVars
  <1>3. CASE Restart
    BY <1>3 DEF TypeOK, Restart, PCs, Unanswered, Outcomes
  <1>4. CASE UNCHANGED vars
    BY <1>4 DEF TypeOK, vars, callVars, traceVars
  <1> QED
    BY <1>1, <1>2, <1>3, <1>4 DEF Next

-----------------------------------------------------------------------------
(* The inductive invariant, one call at a time.                            *)

\* What the invariant says, beyond AwaitInv, of the cache,
CacheInv ==
    \A k \in Keys : cache[k] # NoVerdict =>
        cache[k].by = "primary" /\ Trusted(cache[k].verdict)

\* of its effort,
EffortInv(c) ==
    /\ attempts[c] <= MaxRetries + 1
    /\ elapsed[c] <= Budget + Jitter + Epsilon + RedisWait

\* of what it answered,
OutcomeInv(c) ==
    outcome[c] # Unanswered =>
        \/ outcome[c].by = "primary" /\ Trusted(outcome[c].verdict)
        \/ outcome[c].by = "rules:fallback" /\ ~outcome[c].cached

\* and of what it left in the ring and the log.
RecordInv(c) ==
    /\ pc[c] # "done" => recorded[c] = 0 /\ warned[c] = 0
    /\ pc[c] = "done" =>
          /\ recorded[c] = 1
          /\ warned[c] = IF outcome[c].by = "rules:fallback" THEN 1 ELSE 0

CallInv(c) == AwaitInv(c) /\ EffortInv(c) /\ OutcomeInv(c) /\ RecordInv(c)

\* The invariant is that, call by call.
LEMMA CallByCall ==
    IInv <=> TypeOK /\ CacheInv /\ \A c \in Calls : CallInv(c)
  BY DEF IInv, LadderInv, BoundedEffort, ServedVerdictsTrusted, RecordedOnce,
         CacheInv, CallInv, EffortInv, OutcomeInv, RecordInv

\* A call that a step leaves alone keeps its part.
LEMMA CallFrame ==
    ASSUME NEW d \in Calls, CallInv(d),
           pc'[d] = pc[d], attempts'[d] = attempts[d], elapsed'[d] = elapsed[d],
           err'[d] = err[d], verdict'[d] = verdict[d], outcome'[d] = outcome[d],
           recorded'[d] = recorded[d], warned'[d] = warned[d]
    PROVE  CallInv(d)'
  BY DEF CallInv, AwaitInv, EffortInv, OutcomeInv, RecordInv, Trusted

\* Falling back keeps a call's part: it was not recorded yet, and a fallback
\* is no provider's verdict.
LEMMA FallBackKeeps ==
    ASSUME TypeOK, NEW c \in Calls, CallInv(c), pc[c] # "done", FallBack(c),
           elapsed'[c] <= Budget + Jitter + Epsilon + RedisWait
    PROVE  CallInv(c)'
  <1>1. /\ pc'[c] = "done"
        /\ outcome'[c] = [by |-> "rules:fallback", cached |-> FALSE, verdict |-> NoVerdict]
        /\ recorded'[c] = recorded[c] + 1
        /\ warned'[c] = warned[c] + 1
        /\ attempts'[c] = 0
    <2>1. /\ pc' = [pc EXCEPT ![c] = "done"]
          /\ outcome' = [outcome EXCEPT ![c] =
               [by |-> "rules:fallback", cached |-> FALSE, verdict |-> NoVerdict]]
          /\ recorded' = [recorded EXCEPT ![c] = @ + 1]
          /\ warned' = [warned EXCEPT ![c] = @ + 1]
          /\ attempts' = [attempts EXCEPT ![c] = 0]
      BY FallBackEffect
    <2> QED
      BY <2>1 DEF TypeOK
  <1>2. recorded[c] = 0 /\ warned[c] = 0 /\ 0 <= MaxRetries + 1
    BY LadderAssumption DEF CallInv, RecordInv
  <1>3. outcome'[c] # Unanswered
    BY <1>1 DEF Unanswered
  <1> QED
    BY <1>1, <1>2, <1>3 DEF CallInv, AwaitInv, EffortInv, OutcomeInv, RecordInv

\* Every step keeps the invariant.
LEMMA InvStep == IInv /\ [Next]_vars => IInv'
  <1> SUFFICES ASSUME IInv, [Next]_vars PROVE IInv'
    OBVIOUS
  <1>i. TypeOK /\ LadderInv /\ CacheInv /\ \A c \in Calls : CallInv(c)
    BY CallByCall DEF IInv
  <1>t. TypeOK'
    BY <1>i, TypeStep
  <1>n. /\ MaxRetries \in Nat /\ Budget \in Nat /\ Jitter \in Nat
        /\ RedisWait \in Nat /\ Epsilon \in Nat
    BY LadderAssumption
  <1>s. ASSUME CacheInv', \A c \in Calls : CallInv(c)' PROVE IInv'
    <2>1. LadderInv' /\ BoundedEffort'
      BY <1>s DEF LadderInv, BoundedEffort, CallInv, EffortInv
    <2>2. ServedVerdictsTrusted' /\ RecordedOnce'
      BY <1>s DEF ServedVerdictsTrusted, RecordedOnce, CallInv, OutcomeInv, RecordInv, CacheInv
    <2> QED
      BY <1>t, <2>1, <2>2 DEF IInv
  <1>1. ASSUME NEW c \in Calls, Serve(c) PROVE CacheInv' /\ \A d \in Calls : CallInv(d)'
    <2>c. CallInv(c) /\ elapsed[c] \in Nat /\ attempts[c] \in Nat
      BY <1>i DEF TypeOK
    <2>o. ASSUME \A d \in Calls : d # c =>
                   /\ pc'[d] = pc[d] /\ attempts'[d] = attempts[d]
                   /\ elapsed'[d] = elapsed[d] /\ err'[d] = err[d]
                   /\ verdict'[d] = verdict[d] /\ outcome'[d] = outcome[d]
                   /\ recorded'[d] = recorded[d] /\ warned'[d] = warned[d]
          PROVE  \A d \in Calls : d # c => CallInv(d)'
      BY <1>i, <2>o, CallFrame
    <2>1. CASE CacheHit(c)
      <3> DEFINE hit == cache[key[c]]
      <3>1. hit.by = "primary" /\ Trusted(hit.verdict)
        BY <1>i, <2>1 DEF CacheInv, CacheHit, TypeOK
      <3>2. /\ pc'[c] = "done"
            /\ outcome'[c] = [by |-> hit.by, cached |-> TRUE, verdict |-> hit.verdict]
            /\ recorded'[c] = recorded[c] + 1
            /\ attempts'[c] = 0
            /\ UNCHANGED <<cache, elapsed, warned>>
            /\ pc[c] = "idle"
        BY <1>i, <2>1 DEF CacheHit, Return, _record, Goto, TypeOK
      <3>3. CallInv(c)'
        BY <1>n, <2>c, <3>1, <3>2
           DEF CallInv, AwaitInv, EffortInv, OutcomeInv, RecordInv, Unanswered
      <3>4. \A d \in Calls : d # c => CallInv(d)'
        BY <1>i, <2>1, <2>o DEF CacheHit, Return, _record, Goto, TypeOK
      <3> QED
        BY <1>i, <3>2, <3>3, <3>4 DEF CacheInv
    <2>2. CASE CacheMiss(c)
      <3>1. CallInv(c)'
        BY <1>i, <1>n, <2>c, <2>2
           DEF CacheMiss, Goto, TypeOK, CallInv, AwaitInv, EffortInv, OutcomeInv, RecordInv
      <3>2. \A d \in Calls : d # c => CallInv(d)'
        BY <1>i, <2>2, <2>o DEF CacheMiss, Goto, TypeOK
      <3> QED
        BY <1>i, <2>2, <3>1, <3>2 DEF CacheInv, CacheMiss
    <2>3. CASE CacheGetRaises(c)
      <3>1. CallInv(c)'
        BY <1>i, <2>c, <2>3
           DEF CacheGetRaises, Goto, traceVars, TypeOK, CallInv, AwaitInv, EffortInv,
               OutcomeInv, RecordInv
      <3>2. \A d \in Calls : d # c => CallInv(d)'
        BY <1>i, <2>3, <2>o DEF CacheGetRaises, Goto, traceVars, TypeOK
      <3> QED
        BY <1>i, <2>3, <3>1, <3>2 DEF CacheInv, CacheGetRaises
    <2>4. CASE ProviderAnswers(c)
      <3>1. PICK ticks \in 0 .. AttemptTimeout(c) : Wait(c, ticks)
        BY <2>4 DEF ProviderAnswers
      <3>2. /\ pc[c] = "attempt" /\ pc'[c] = "store"
            /\ elapsed'[c] = elapsed[c] + ticks
            /\ Trusted(verdict'[c])
            /\ UNCHANGED <<cache, attempts, outcome, recorded, warned>>
        BY <1>i, <2>4, <3>1
           DEF ProviderAnswers, _postvalidate, Goto, Wait, traceVars, TypeOK, Trusted, Verdicts
      <3>3. elapsed'[c] <= Budget + Jitter + Epsilon
        BY <1>i, <1>n, <2>c, <3>2, TimeoutBound DEF CallInv, AwaitInv
      <3>4. CallInv(c)'
        BY <1>n, <2>c, <3>2, <3>3 DEF CallInv, AwaitInv, EffortInv, OutcomeInv, RecordInv
      <3>5. \A d \in Calls : d # c => CallInv(d)'
        BY <1>i, <2>4, <2>o, <3>1 DEF ProviderAnswers, Goto, Wait, traceVars, TypeOK
      <3> QED
        BY <1>i, <3>2, <3>4, <3>5 DEF CacheInv
    <2>5. CASE ProviderRaises(c) \/ ProviderTimesOut(c) \/ CacheSetRaises(c)
      <3>1. PICK class \in Classes, ticks \in Nat :
              /\ Fail(c, class, ticks)
              /\ \/ pc[c] = "attempt" /\ ticks <= AttemptTimeout(c)
                 \/ pc[c] = "store" /\ ticks <= RedisWait /\ class = "non_retryable"
              /\ UNCHANGED cache \/ (pc[c] = "store" /\ Store(c))
        BY <1>i, <2>5, FailCases
      <3>2. /\ elapsed' = [elapsed EXCEPT ![c] = @ + ticks]
            /\ UNCHANGED <<verdict, key>>
            /\ \/ FallBack(c)
               \/ /\ pc' = [pc EXCEPT ![c] = "sleep"]
                  /\ err' = [err EXCEPT ![c] = class]
                  /\ class = "retryable"
                  /\ attempts[c] <= MaxRetries
                  /\ elapsed[c] + ticks < Budget
                  /\ UNCHANGED <<attempts, outcome, traceVars>>
        BY <1>i, <3>1, FailEffect
      <3>3. elapsed'[c] = elapsed[c] + ticks
        BY <1>i, <3>2 DEF TypeOK
      <3>c. CacheInv'
        <4>1. pc[c] = "store" => Trusted(verdict[c])
          BY <2>c DEF CallInv, AwaitInv
        <4>2. CASE UNCHANGED cache
          BY <1>i, <4>2 DEF CacheInv
        <4>3. CASE pc[c] = "store" /\ Store(c)
          BY <1>i, <4>1, <4>3 DEF CacheInv, Store, TypeOK
        <4> QED
          BY <3>1, <4>2, <4>3
      <3>4. CASE FallBack(c)
        <4>1. elapsed'[c] <= Budget + Jitter + Epsilon + RedisWait
          <5>1. CASE pc[c] = "attempt" /\ ticks <= AttemptTimeout(c)
            <6>1. AttemptTimeout(c) \in Nat
                  /\ elapsed[c] + AttemptTimeout(c) <= Budget + Jitter + Epsilon
              BY <1>i, <2>c, <5>1, TimeoutBound DEF CallInv, AwaitInv
            <6> QED
              BY <1>n, <2>c, <3>3, <5>1, <6>1
          <5>2. CASE pc[c] = "store" /\ ticks <= RedisWait
            BY <1>n, <2>c, <3>3, <5>2 DEF CallInv, AwaitInv
          <5> QED
            BY <3>1, <5>1, <5>2
        <4>2. CallInv(c)'
          BY <1>i, <2>c, <3>1, <3>2, <3>4, <4>1, FallBackKeeps
        <4>3. \A d \in Calls : d # c => CallInv(d)'
          <5>1. /\ pc' = [pc EXCEPT ![c] = "done"]
                /\ \E a : outcome' = [outcome EXCEPT ![c] = a]
                /\ recorded' = [recorded EXCEPT ![c] = @ + 1]
                /\ warned' = [warned EXCEPT ![c] = @ + 1]
                /\ attempts' = [attempts EXCEPT ![c] = 0]
                /\ err' = [err EXCEPT ![c] = "none"]
            BY <1>i, <3>4, FallBackEffect
          <5> QED
            BY <1>i, <2>o, <3>2, <5>1 DEF TypeOK
        <4> QED
          BY <3>c, <4>2, <4>3
      <3>5. CASE /\ pc' = [pc EXCEPT ![c] = "sleep"]
                 /\ err' = [err EXCEPT ![c] = class]
                 /\ class = "retryable"
                 /\ attempts[c] <= MaxRetries
                 /\ elapsed[c] + ticks < Budget
                 /\ UNCHANGED <<attempts, outcome, traceVars>>
        <4>1. pc[c] = "attempt" /\ pc'[c] = "sleep" /\ err'[c] = class
          BY <1>i, <3>1, <3>5 DEF TypeOK
        <4>2. CallInv(c)'
          BY <1>n, <2>c, <3>2, <3>3, <3>5, <4>1
             DEF traceVars, CallInv, AwaitInv, EffortInv, OutcomeInv, RecordInv
        <4>3. \A d \in Calls : d # c => CallInv(d)'
          BY <1>i, <2>o, <3>2, <3>5 DEF TypeOK, traceVars
        <4> QED
          BY <3>c, <4>2, <4>3
      <3> QED
        BY <3>2, <3>4, <3>5
    <2>6. CASE Retry(c)
      <3>1. PICK ticks \in 0 .. Jitter : Wait(c, ticks)
        BY <2>6 DEF Retry
      <3>2. /\ pc[c] = "sleep" /\ pc'[c] = "attempt"
            /\ elapsed'[c] = elapsed[c] + ticks
            /\ attempts'[c] = attempts[c] + 1
            /\ attempts[c] <= MaxRetries
            /\ UNCHANGED <<cache, verdict, outcome, recorded, warned>>
        BY <1>i, <2>6, <3>1 DEF Retry, Goto, Wait, traceVars, TypeOK
      <3>3. elapsed'[c] <= Budget + Jitter
        BY <1>n, <2>c, <3>2 DEF CallInv, AwaitInv
      <3>4. CallInv(c)'
        BY <1>n, <2>c, <3>2, <3>3 DEF CallInv, AwaitInv, EffortInv, OutcomeInv, RecordInv
      <3>5. \A d \in Calls : d # c => CallInv(d)'
        BY <1>i, <2>6, <2>o, <3>1 DEF Retry, Goto, Wait, traceVars, TypeOK
      <3> QED
        BY <1>i, <3>2, <3>4, <3>5 DEF CacheInv
    <2>7. CASE CacheSet(c)
      <3>1. PICK ticks \in 0 .. RedisWait : Wait(c, ticks)
        BY <2>7 DEF CacheSet
      <3>2. /\ pc[c] = "store" /\ pc'[c] = "done"
            /\ elapsed'[c] = elapsed[c] + ticks
            /\ outcome'[c] = [by |-> "primary", cached |-> FALSE, verdict |-> verdict[c]]
            /\ recorded'[c] = recorded[c] + 1
            /\ cache' = [cache EXCEPT ![key[c]] = [verdict |-> verdict[c], by |-> "primary"]]
            /\ attempts'[c] = 0
            /\ UNCHANGED <<verdict, warned>>
        BY <1>i, <2>7, <3>1 DEF CacheSet, Store, Return, _record, Goto, Wait, TypeOK
      <3>3. Trusted(verdict[c])
        BY <2>c, <3>2 DEF CallInv, AwaitInv
      <3>4. CallInv(c)'
        <4>1. elapsed'[c] <= Budget + Jitter + Epsilon + RedisWait
          BY <1>n, <2>c, <3>2 DEF CallInv, AwaitInv
        <4> QED
          BY <1>n, <2>c, <3>2, <3>3, <4>1
             DEF CallInv, AwaitInv, EffortInv, OutcomeInv, RecordInv, Unanswered
      <3>5. CacheInv'
        BY <1>i, <3>2, <3>3 DEF CacheInv, TypeOK
      <3>6. \A d \in Calls : d # c => CallInv(d)'
        BY <1>i, <2>7, <2>o, <3>1 DEF CacheSet, Return, _record, Goto, Wait, TypeOK
      <3> QED
        BY <3>4, <3>5, <3>6
    <2> QED
      BY <1>1, <2>1, <2>2, <2>3, <2>4, <2>5, <2>6, <2>7 DEF Serve
  <1>2. ASSUME NEW k \in Keys, Expire(k) PROVE CacheInv' /\ \A d \in Calls : CallInv(d)'
    <2>1. CacheInv'
      BY <1>i, <1>2 DEF CacheInv, Expire, TypeOK
    <2>2. ASSUME NEW d \in Calls PROVE CallInv(d)'
      BY <1>i, <1>2, CallFrame DEF Expire, callVars, traceVars
    <2> QED
      BY <2>1, <2>2
  <1>3. CASE Restart
    <2>1. CacheInv'
      BY <1>i, <1>3 DEF CacheInv, Restart
    <2>2. ASSUME NEW d \in Calls PROVE CallInv(d)'
      BY <1>i, <1>n, <1>3 DEF Restart, CallInv, AwaitInv, EffortInv, OutcomeInv, RecordInv
    <2> QED
      BY <1>s, <2>1, <2>2
  <1>4. CASE UNCHANGED vars
    <2>1. ASSUME NEW d \in Calls PROVE CallInv(d)'
      BY <1>i, <1>4, CallFrame DEF vars, callVars, traceVars
    <2>2. CacheInv'
      BY <1>i, <1>4 DEF vars, CacheInv
    <2> QED
      BY <1>s, <2>1, <2>2
  <1> QED
    BY <1>s, <1>1, <1>2, <1>3, <1>4 DEF Next

\* The inductive invariant holds of every reachable state.
THEOREM Inductive == Spec => []IInv
  <1>1. Init => IInv
    <2> SUFFICES ASSUME Init PROVE IInv
      OBVIOUS
    <2>1. TypeOK
      BY DEF Init, TypeOK, PCs, Unanswered, Outcomes
    <2>2. LadderInv
      BY DEF Init, LadderInv, AwaitInv
    <2>3. BoundedEffort
      BY LadderAssumption DEF Init, BoundedEffort
    <2>4. ServedVerdictsTrusted
      BY DEF Init, ServedVerdictsTrusted
    <2>5. RecordedOnce
      BY DEF Init, RecordedOnce
    <2> QED
      BY <2>1, <2>2, <2>3, <2>4, <2>5 DEF IInv
  <1> QED
    BY <1>1, InvStep, PTL DEF Spec

\* The reachable states are well typed, whatever the constants.
THEOREM TypeCorrect == Spec => []TypeOK
  <1>1. IInv => TypeOK
    BY DEF IInv
  <1> QED
    BY <1>1, Inductive, PTL

\* No provider, failing how it will, makes a call cost more than MaxRetries + 1
\* provider calls or keep its client past the budget, one sleep, the least
\* timeout and one cache.set.
THEOREM EffortIsBounded == Spec => []BoundedEffort
  <1>1. IInv => BoundedEffort
    BY DEF IInv
  <1> QED
    BY <1>1, Inductive, PTL

\* Nothing the primary was unsure of is served or cached under its label, and
\* no fallback is ever in the cache.
THEOREM VerdictsAreTrusted == Spec => []ServedVerdictsTrusted
  <1>1. IInv => ServedVerdictsTrusted
    BY DEF IInv
  <1> QED
    BY <1>1, Inductive, PTL

\* Every call that returned was recorded once, and warned once if it fell back.
THEOREM OneRecordPerCall == Spec => []RecordedOnce
  <1>1. IInv => RecordedOnce
    BY DEF IInv
  <1> QED
    BY <1>1, Inductive, PTL

\* A provider is called again only after a failure that may pass, by a call
\* that was not answered and had budget left.
THEOREM RetriesOnlyTransient == Spec => RetryOnlyTransient
  <1>1. IInv /\ [Next]_vars =>
          [\A c \in Calls :
             attempts'[c] > attempts[c] /\ attempts[c] > 0 =>
                /\ err[c] = "retryable"
                /\ verdict[c] = NoVerdict
                /\ elapsed[c] < Budget]_vars
    <2> SUFFICES ASSUME IInv, Next, NEW c \in Calls,
                        attempts'[c] > attempts[c], attempts[c] > 0
                 PROVE  /\ err[c] = "retryable"
                        /\ verdict[c] = NoVerdict
                        /\ elapsed[c] < Budget
      OBVIOUS
    <2>1. TypeOK /\ AwaitInv(c)
      BY DEF IInv, LadderInv
    <2>2. attempts[c] \in Nat
      BY <2>1 DEF TypeOK
    <2>3. CASE \E k \in Keys : Expire(k)
      BY <2>2, <2>3 DEF Expire, callVars
    <2>4. CASE Restart
      BY <2>2, <2>4 DEF Restart
    <2>5. ASSUME NEW d \in Calls, Serve(d) PROVE pc[c] = "sleep"
      <3>1. CASE Retry(d)
        <4>1. d = c
          BY <2>1, <2>2, <3>1 DEF Retry, TypeOK
        <4> QED
          BY <3>1, <4>1 DEF Retry
      <3>2. CASE CacheMiss(d)
        <4>1. d = c
          BY <2>1, <2>2, <3>2 DEF CacheMiss, TypeOK
        <4> QED
          BY <2>1, <2>2, <3>2, <4>1 DEF CacheMiss, AwaitInv
      <3>3. CASE CacheHit(d) \/ CacheGetRaises(d) \/ ProviderAnswers(d) \/ CacheSet(d)
        <4>1. attempts' = attempts \/ attempts' = [attempts EXCEPT ![d] = 0]
          BY <3>3 DEF CacheHit, CacheGetRaises, ProviderAnswers, CacheSet, Return
        <4>2. CASE d = c
          BY <2>1, <2>2, <4>1, <4>2 DEF TypeOK
        <4>3. CASE d # c
          BY <2>1, <2>2, <4>1, <4>3 DEF TypeOK
        <4> QED
          BY <4>2, <4>3
      <3>4. CASE ProviderRaises(d) \/ ProviderTimesOut(d) \/ CacheSetRaises(d)
        <4>1. attempts' = attempts \/ attempts' = [attempts EXCEPT ![d] = 0]
          BY <3>4 DEF ProviderRaises, ProviderTimesOut, CacheSetRaises, Fail,
                      FallBack, BackOff, Return
        <4>2. CASE d = c
          BY <2>1, <2>2, <4>1, <4>2 DEF TypeOK
        <4>3. CASE d # c
          BY <2>1, <2>2, <4>1, <4>3 DEF TypeOK
        <4> QED
          BY <4>2, <4>3
      <3> QED
        BY <2>5, <3>1, <3>2, <3>3, <3>4 DEF Serve
    <2> QED
      BY <2>1, <2>3, <2>4, <2>5 DEF Next, AwaitInv
  <1> QED
    BY <1>1, Inductive, PTL DEF Spec, RetryOnlyTransient

-----------------------------------------------------------------------------
(* The counters and the ring.                                              *)

\* The calls can be counted, and one more is one more.
LEMMA CallsCount ==
    ASSUME NEW S \in SUBSET Calls
    PROVE  /\ Cardinality(S) \in Nat
           /\ \A c \in Calls \ S : Cardinality(S \cup {c}) = Cardinality(S) + 1
  <1>1. IsFiniteSet(S)
    BY FS_Subset, LadderAssumption
  <1> QED
    BY <1>1, FS_CardinalityType, FS_AddElement

\* What a step from one state to the next relies on: the ring is the end of
\* the list of the calls that ended.
RingInv ==
    /\ EndedOnce
    /\ Len(ring) = AtMost(RingSize, Len(ended))
    /\ \A i \in DOMAIN ring : ring[i] = RecordOf(ended[Len(ended) - Len(ring) + i])

MetaInv == CountTruth /\ RingInv

\* Read from its end, such a ring gives the newest calls, newest first.
LEMMA RingIsRecent ==
    ASSUME TypeOK, RingInv
    PROVE  RingTruth
  <1>1. /\ Len(ring) \in Nat /\ DOMAIN ring = 1 .. Len(ring)
        /\ Len(ended) \in Nat /\ RecentMax \in Nat
    BY LadderAssumption DEF TypeOK
  <1>2. AtMost(RecentMax, Len(ring)) = AtMost(RecentMax, AtMost(RingSize, Len(ended)))
    BY DEF RingInv
  <1>3. ASSUME NEW i \in 1 .. AtMost(RecentMax, Len(ring))
        PROVE  ring[Len(ring) + 1 - i] = RecordOf(ended[Len(ended) + 1 - i])
    <2>1. Len(ring) + 1 - i \in DOMAIN ring
      BY <1>1 DEF AtMost
    <2>2. Len(ended) - Len(ring) + (Len(ring) + 1 - i) = Len(ended) + 1 - i
      BY <1>1
    <2> QED
      BY <2>1, <2>2 DEF RingInv
  <1>4. get_providers = [i \in 1 .. AtMost(RecentMax, Len(ring)) |->
                            RecordOf(ended[Len(ended) + 1 - i])]
    BY <1>3 DEF get_providers
  <1> QED
    BY <1>2, <1>4 DEF RingTruth, RingInv

\* A full ring loses its oldest record and moves up by one; a ring with room
\* stays; either takes the new record at its end.
LEMMA AppendedShape ==
    ASSUME TypeOK, Len(ring) <= RingSize, NEW record \in Records,
           NEW next, next = Appended(record)
    PROVE  \E s \in {0, 1} :
              /\ s = IF Len(ring) + 1 > RingSize THEN 1 ELSE 0
              /\ Len(next) = Len(ring) + 1 - s
              /\ DOMAIN next = 1 .. Len(ring) + 1 - s
              /\ \A i \in DOMAIN next :
                    next[i] = IF i + s <= Len(ring) THEN ring[i + s] ELSE record
  <1> DEFINE n == Len(ring)
             longer == Append(ring, record)
  <1>1. ring \in Seq(Records) /\ RingSize \in Nat \ {0} /\ n \in Nat
    BY LadderAssumption DEF TypeOK
  <1>2. /\ longer \in Seq(Records) /\ Len(longer) = n + 1
        /\ \A i \in 1 .. n : longer[i] = ring[i]
        /\ longer[n + 1] = record
    BY <1>1, AppendProperties
  <1>3. \A i \in 1 .. n + 1 : longer[i] = IF i <= n THEN ring[i] ELSE record
    BY <1>1, <1>2
  <1>4. CASE n + 1 > RingSize
    <2>1. next = Tail(longer)
      BY <1>2, <1>4 DEF Appended
    <2>2. /\ Len(next) = n /\ DOMAIN next = 1 .. n
          /\ \A i \in 1 .. n : next[i] = longer[i + 1]
      <3> HIDE DEF longer
      <3> QED
        BY <1>1, <1>2, <2>1
    <2>3. \A i \in 1 .. n : next[i] = IF i + 1 <= n THEN ring[i + 1] ELSE record
      <3> HIDE DEF longer
      <3> QED
        BY <1>1, <1>3, <2>2
    <2> WITNESS 1 \in {0, 1}
    <2> HIDE DEF longer
    <2> QED
      BY <1>1, <1>4, <2>2, <2>3
  <1>5. CASE ~(n + 1 > RingSize)
    <2>1. next = longer
      BY <1>2, <1>5 DEF Appended
    <2>2. /\ Len(next) = n + 1 /\ DOMAIN next = 1 .. n + 1
          /\ \A i \in 1 .. n + 1 : next[i] = IF i <= n THEN ring[i] ELSE record
      <3> HIDE DEF longer
      <3> QED
        BY <1>1, <1>2, <1>3, <2>1
    <2> WITNESS 0 \in {0, 1}
    <2> HIDE DEF longer
    <2> QED
      BY <1>1, <1>5, <2>2
  <1> QED
    BY <1>4, <1>5

\* The ring takes the record of a call that ends.
LEMMA RingTakes ==
    ASSUME TypeOK, RingInv, NEW c \in Calls, c \notin Done,
           NEW o, outcome' = [outcome EXCEPT ![c] = o],
           NEW record \in Records,
           record = [call |-> c, by |-> o.by, cached |-> o.cached],
           Done' = Done \cup {c}, ended' = Append(ended, c), ring' = Appended(record)
    PROVE  RingInv'
  <1>1. /\ ring \in Seq(Records) /\ ended \in Seq(Calls)
        /\ RingSize \in Nat \ {0}
    BY LadderAssumption DEF TypeOK
  <1>2. /\ Len(ended) \in Nat /\ DOMAIN ended = 1 .. Len(ended)
        /\ Len(ended') = Len(ended) + 1 /\ DOMAIN ended' = 1 .. Len(ended) + 1
        /\ \A i \in 1 .. Len(ended) : ended'[i] = ended[i]
        /\ ended'[Len(ended) + 1] = c
    BY <1>1, AppendProperties
  <1>3. EndedOnce'
    <2>1. /\ \A i \in 1 .. Len(ended) : ended[i] \in Done
          /\ \A d \in Done : \E i \in 1 .. Len(ended) : ended[i] = d
          /\ \A i, j \in 1 .. Len(ended) : ended[i] = ended[j] => i = j
      BY <1>2 DEF RingInv, EndedOnce
    <2>2. ASSUME NEW i \in DOMAIN ended' PROVE ended'[i] \in Done'
      BY <1>2, <2>1
    <2>3. ASSUME NEW d \in Done' PROVE \E i \in DOMAIN ended' : ended'[i] = d
      BY <1>2, <2>1
    <2>4. ASSUME NEW i \in DOMAIN ended', NEW j \in DOMAIN ended', ended'[i] = ended'[j]
          PROVE  i = j
      BY <1>2, <2>1, <2>4
    <2> QED
      BY <2>2, <2>3, <2>4 DEF EndedOnce
  <1>4. /\ Len(ring) = AtMost(RingSize, Len(ended)) /\ Len(ring) \in Nat
        /\ Len(ring) <= Len(ended)
    BY <1>1, <1>2 DEF RingInv, AtMost
  <1>5. Len(ring) <= RingSize
    BY <1>1, <1>2, <1>4 DEF AtMost
  <1>6. PICK s \in {0, 1} :
          /\ s = IF Len(ring) + 1 > RingSize THEN 1 ELSE 0
          /\ Len(ring') = Len(ring) + 1 - s
          /\ DOMAIN ring' = 1 .. Len(ring) + 1 - s
          /\ \A i \in DOMAIN ring' :
                ring'[i] = IF i + s <= Len(ring) THEN ring[i + s] ELSE record
    BY <1>5, AppendedShape
  <1>7. Len(ring') = AtMost(RingSize, Len(ended'))
    <2> DEFINE n == Len(ended)
    <2>1. /\ n \in Nat /\ RingSize \in Nat /\ Len(ended') = n + 1
          /\ Len(ring) = IF RingSize < n THEN RingSize ELSE n
          /\ Len(ring') = IF Len(ring) + 1 > RingSize THEN Len(ring) ELSE Len(ring) + 1
      BY <1>1, <1>2, <1>4, <1>6 DEF AtMost
    <2> HIDE DEF n
    <2> QED
      BY ONLY <2>1 DEF AtMost
  <1>8. /\ RecordOf(c)' = record
        /\ \A d \in Done : RecordOf(d)' = RecordOf(d)
    BY DEF RecordOf, TypeOK, Done
  <1>9. ASSUME NEW i \in DOMAIN ring'
        PROVE  ring'[i] = RecordOf(ended[Len(ended) - Len(ring) + i])'
    <2>1. /\ i \in Nat /\ i >= 1 /\ i + s <= Len(ring) + 1 /\ s \in Nat
          /\ Len(ended') - Len(ring') + i = Len(ended) - Len(ring) + i + s
      <3> DEFINE m == Len(ring)
                 n == Len(ended)
      <3>1. /\ m \in Nat /\ n \in Nat /\ s \in 0 .. 1
            /\ i \in 1 .. m + 1 - s
            /\ Len(ended') = n + 1 /\ Len(ring') = m + 1 - s
        BY <1>2, <1>4, <1>6
      <3> HIDE DEF m, n
      <3>2. n + 1 - (m + 1 - s) + i = n - m + i + s
        BY ONLY <3>1
      <3>3. i \in Nat /\ i >= 1 /\ i + s <= m + 1 /\ s \in Nat
        BY ONLY <3>1
      <3>4. Len(ended') - Len(ring') + i = n + 1 - (m + 1 - s) + i
        BY ONLY <3>1
      <3> QED
        BY ONLY <3>2, <3>3, <3>4 DEF m, n
    <2>2. CASE i + s <= Len(ring)
      <3> DEFINE k == Len(ended) - Len(ring) + i + s
      <3>1. i + s \in DOMAIN ring /\ ring'[i] = ring[i + s]
        BY <1>1, <1>4, <1>6, <2>1, <2>2
      <3>2. k \in 1 .. Len(ended) /\ k = Len(ended) - Len(ring) + (i + s)
        BY <1>2, <1>4, <2>1, <2>2
      <3>3. ring[i + s] = RecordOf(ended[k])
        BY <3>1, <3>2 DEF RingInv
      <3>4. ended[k] \in Done /\ ended'[k] = ended[k]
        BY <1>2, <3>2 DEF RingInv, EndedOnce
      <3> QED
        BY <1>8, <2>1, <3>1, <3>3, <3>4
    <2>3. CASE ~(i + s <= Len(ring))
      <3>1. Len(ended') - Len(ring') + i = Len(ended) + 1
        BY <1>2, <1>4, <2>1, <2>3
      <3>2. ring'[i] = record
        BY <1>6, <2>3
      <3> QED
        BY <1>2, <1>8, <3>1, <3>2
    <2> QED
      BY <2>2, <2>3
  <1> QED
    BY <1>3, <1>7, <1>9 DEF RingInv

\* The calls that have been made and wait.
Awaiting == {"attempt", "sleep", "store"}

\* A call that returns enters the ring and the sets its counters count.
LEMMA ReturnEffect ==
    ASSUME TypeOK, RingInv, NEW c \in Calls, pc[c] # "done",
           NEW by \in Providers, NEW cached \in BOOLEAN, NEW v,
           Return(c, by, cached, v)
    PROVE  /\ RingInv'
           /\ Hits' = IF cached THEN Hits \cup {c} ELSE Hits
           /\ Fallbacks' = IF by = "rules:fallback"
                           THEN Fallbacks \cup {c} ELSE Fallbacks
           /\ c \notin Hits /\ c \notin Fallbacks
           /\ pc[c] \in Awaiting /\ ~cached => Misses' = Misses
           /\ pc[c] = "idle" /\ cached => Misses' = Misses
  <1> DEFINE o == [by |-> by, cached |-> cached, verdict |-> v]
             record == [call |-> c, by |-> by, cached |-> cached]
  <1>1. /\ pc' = [pc EXCEPT ![c] = "done"]
        /\ outcome' = [outcome EXCEPT ![c] = o]
        /\ ended' = Append(ended, c)
        /\ ring' = Appended(record)
    BY DEF Return, Goto, _record
  <1>2. record \in Records
    BY DEF Records
  <1>3. /\ record = [call |-> c, by |-> o.by, cached |-> o.cached]
        /\ o.by = by /\ o.cached = cached
    OBVIOUS
  <1> HIDE DEF o, record
  <1>4. /\ pc'[c] = "done" /\ outcome'[c] = o
        /\ \A d \in Calls : d # c => pc'[d] = pc[d] /\ outcome'[d] = outcome[d]
    BY <1>1 DEF TypeOK
  <1>5. Done' = Done \cup {c} /\ c \notin Done
    BY <1>4 DEF Done
  <1>6. RingInv'
    BY <1>1, <1>2, <1>3, <1>5, RingTakes
  <1>7. Hits' = IF cached THEN Hits \cup {c} ELSE Hits
    BY <1>3, <1>4, <1>5 DEF Hits, Done
  <1>8. Fallbacks' = IF by = "rules:fallback" THEN Fallbacks \cup {c} ELSE Fallbacks
    BY <1>3, <1>4, <1>5 DEF Fallbacks, Done
  <1>9. pc[c] \in Awaiting /\ ~cached => Misses' = Misses
    BY <1>3, <1>4, <1>5 DEF Misses, Done, Awaiting
  <1>10. pc[c] = "idle" /\ cached => Misses' = Misses
    BY <1>3, <1>4, <1>5 DEF Misses, Done
  <1> QED
    BY <1>5, <1>6, <1>7, <1>8, <1>9, <1>10 DEF Hits, Fallbacks

\* What is counted are calls.
LEMMA CountedAreCalls ==
    /\ Done \in SUBSET Calls /\ Hits \in SUBSET Calls
    /\ Fallbacks \in SUBSET Calls /\ Misses \in SUBSET Calls
  BY DEF Done, Hits, Fallbacks, Misses

\* The counters of the names go up by one, the others stay.
LEMMA Counted ==
    ASSUME NEW names \in SUBSET Counters, Count(names)
    PROVE  \A n \in Counters : results'[n] = results[n] + (IF n \in names THEN 1 ELSE 0)
  BY DEF Count

\* A step that ends no call leaves the ring right.
LEMMA RingStays ==
    ASSUME TypeOK, RingInv, UNCHANGED <<ring, ended>>, Done' = Done,
           \A d \in Done : outcome'[d] = outcome[d]
    PROVE  RingInv'
  <1>1. EndedOnce'
    BY DEF RingInv, EndedOnce
  <1>2. ASSUME NEW i \in DOMAIN ring
        PROVE  ring[i] = RecordOf(ended[Len(ended) - Len(ring) + i])'
    <2> DEFINE k == Len(ended) - Len(ring) + i
    <2>1. /\ Len(ended) \in Nat /\ DOMAIN ended = 1 .. Len(ended)
          /\ Len(ring) \in Nat /\ i \in 1 .. Len(ring) /\ RingSize \in Nat
      BY LadderAssumption DEF TypeOK
    <2>2. k \in DOMAIN ended
      BY <2>1 DEF RingInv, AtMost
    <2>3. ended[k] \in Done
      BY <2>2 DEF RingInv, EndedOnce
    <2>4. ring[i] = RecordOf(ended[k])
      BY DEF RingInv
    <2> QED
      BY <2>3, <2>4 DEF RecordOf
  <1> QED
    BY <1>1, <1>2 DEF RingInv

\* A step that ends no call and makes none.
LEMMA MetaStays ==
    ASSUME TypeOK, MetaInv, UNCHANGED <<ring, ended, results>>,
           \A c \in Calls : /\ pc'[c] = "done" <=> pc[c] = "done"
                            /\ pc'[c] \in Awaiting <=> pc[c] \in Awaiting
                            /\ pc[c] = "done" => outcome'[c] = outcome[c]
    PROVE  MetaInv'
  <1>1. Done' = Done
    BY DEF Done
  <1>2. Hits' = Hits /\ Fallbacks' = Fallbacks /\ Misses' = Misses
    BY <1>1 DEF Hits, Fallbacks, Misses, Done, Awaiting
  <1>3. CountTruth'
    BY <1>2 DEF MetaInv, CountTruth
  <1>4. \A d \in Done : outcome'[d] = outcome[d]
    BY DEF Done
  <1>5. RingInv'
    BY <1>1, <1>4, RingStays DEF MetaInv
  <1> QED
    BY <1>3, <1>5 DEF MetaInv

\* The last rung: one more fallback, and a miss as before.
LEMMA MetaFallsBack ==
    ASSUME TypeOK, MetaInv, NEW c \in Calls, pc[c] \in Awaiting, FallBack(c)
    PROVE  MetaInv'
  <1>1. /\ RingInv' /\ Hits' = Hits /\ Misses' = Misses
        /\ Fallbacks' = Fallbacks \cup {c} /\ c \notin Fallbacks
    <2>1. Return(c, "rules:fallback", FALSE, NoVerdict) /\ pc[c] # "done"
      BY DEF FallBack, Awaiting
    <2>2. "rules:fallback" \in Providers /\ FALSE \in BOOLEAN
      BY DEF Providers
    <2> QED
      BY <2>1, <2>2, ReturnEffect DEF MetaInv
  <1>2. Cardinality(Fallbacks') = Cardinality(Fallbacks) + 1
    BY <1>1, CallsCount, CountedAreCalls
  <1>3. /\ results'.hit = results.hit + 0 /\ results'.miss = results.miss + 0
        /\ results'.fallback = results.fallback + 1
    BY Counted DEF FallBack, Counters
  <1>4. results.hit \in Nat /\ results.miss \in Nat
    BY DEF TypeOK, Counters
  <1>5. CountTruth'
    BY <1>1, <1>2, <1>3, <1>4 DEF MetaInv, CountTruth
  <1> QED
    BY <1>1, <1>5 DEF MetaInv

\* A hit.
LEMMA MetaHits ==
    ASSUME TypeOK, MetaInv, NEW c \in Calls, CacheHit(c)
    PROVE  MetaInv'
  <1> DEFINE hit == cache[key[c]]
  <1>1. hit.by \in Providers
    <2>1. hit \in Entries
      BY DEF TypeOK, CacheHit
    <2> QED
      BY <2>1 DEF Entries
  <1>2. /\ pc[c] = "idle" /\ Return(c, hit.by, TRUE, hit.verdict)
        /\ Count({"hit"} \cup FallbackIf(hit.by))
    BY DEF CacheHit
  <1> HIDE DEF hit
  <1>3. /\ RingInv' /\ Hits' = Hits \cup {c} /\ Misses' = Misses
        /\ Fallbacks' = IF hit.by = "rules:fallback"
                        THEN Fallbacks \cup {c} ELSE Fallbacks
        /\ c \notin Hits /\ c \notin Fallbacks
    BY <1>1, <1>2, ReturnEffect DEF MetaInv
  <1>4. Cardinality(Hits') = Cardinality(Hits) + 1
    BY <1>3, CallsCount, CountedAreCalls
  <1>5. Cardinality(Fallbacks') =
          Cardinality(Fallbacks) + (IF hit.by = "rules:fallback" THEN 1 ELSE 0)
    <2>1. Cardinality(Fallbacks) \in Nat
      BY CallsCount, CountedAreCalls
    <2> QED
      BY <1>3, <2>1, CallsCount, CountedAreCalls
  <1>6. {"hit"} \cup FallbackIf(hit.by) \in SUBSET Counters
    BY DEF FallbackIf, Counters
  <1>7. /\ results'.hit = results.hit + 1 /\ results'.miss = results.miss + 0
        /\ results'.fallback =
             results.fallback + (IF hit.by = "rules:fallback" THEN 1 ELSE 0)
    BY <1>2, <1>6, Counted DEF FallbackIf, Counters
  <1>8. results.miss \in Nat
    BY DEF TypeOK, Counters
  <1>9. CountTruth'
    BY <1>3, <1>4, <1>5, <1>7, <1>8 DEF MetaInv, CountTruth
  <1> QED
    BY <1>3, <1>9 DEF MetaInv

\* A miss.
LEMMA MetaMisses ==
    ASSUME TypeOK, MetaInv, NEW c \in Calls, CacheMiss(c)
    PROVE  MetaInv'
  <1>1. /\ pc[c] = "idle" /\ pc'[c] = "attempt"
        /\ \A d \in Calls : d # c => pc'[d] = pc[d]
        /\ outcome' = outcome /\ ring' = ring /\ ended' = ended /\ Count({"miss"})
    BY DEF CacheMiss, Goto, TypeOK
  <1>2. Done' = Done
    BY <1>1 DEF Done
  <1>3. /\ Hits' = Hits /\ Fallbacks' = Fallbacks
        /\ Misses' = Misses \cup {c} /\ c \notin Misses
    BY <1>1, <1>2 DEF Hits, Fallbacks, Misses, Done
  <1>4. Cardinality(Misses') = Cardinality(Misses) + 1
    BY <1>3, CallsCount, CountedAreCalls
  <1>5. /\ results'.hit = results.hit + 0 /\ results'.fallback = results.fallback + 0
        /\ results'.miss = results.miss + 1
    BY <1>1, Counted DEF Counters
  <1>6. results.hit \in Nat /\ results.fallback \in Nat
    BY DEF TypeOK, Counters
  <1>7. CountTruth'
    BY <1>3, <1>4, <1>5, <1>6 DEF MetaInv, CountTruth
  <1>8. RingInv'
    BY <1>1, <1>2, RingStays DEF MetaInv
  <1> QED
    BY <1>7, <1>8 DEF MetaInv

\* A new process.
LEMMA MetaEmpty ==
    ASSUME \A c \in Calls : pc[c] \notin {"done"} \cup Awaiting,
           ring = <<>>, ended = <<>>, results = [n \in Counters |-> 0]
    PROVE  MetaInv
  <1>1. Done = {} /\ Hits = {} /\ Fallbacks = {} /\ Misses = {}
    BY DEF Done, Hits, Fallbacks, Misses, Awaiting
  <1>2. CountTruth
    BY <1>1, FS_EmptySet DEF CountTruth, Counters
  <1>3. RingInv
    BY <1>1, LadderAssumption DEF RingInv, EndedOnce, AtMost
  <1> QED
    BY <1>2, <1>3 DEF MetaInv

\* Each step leaves the counters and the ring true.
LEMMA MetaStep ==
    ASSUME TypeOK, MetaInv, [Next]_vars
    PROVE  MetaInv'
  <1>1. ASSUME NEW c \in Calls, Serve(c) PROVE MetaInv'
    <2>1. CASE CacheHit(c)
      BY <2>1, MetaHits
    <2>2. CASE CacheMiss(c)
      BY <2>2, MetaMisses
    <2>3. CASE CacheGetRaises(c)
      BY <2>3, MetaStays DEF CacheGetRaises, Goto, traceVars, TypeOK, Awaiting
    <2>4. CASE ProviderAnswers(c)
      BY <2>4, MetaStays DEF ProviderAnswers, Goto, traceVars, TypeOK, Awaiting
    <2>5. CASE Retry(c)
      BY <2>5, MetaStays DEF Retry, Goto, traceVars, TypeOK, Awaiting
    <2>6. CASE CacheSet(c)
      <3>1. /\ Return(c, "primary", FALSE, verdict[c])
            /\ pc[c] \in Awaiting /\ pc[c] # "done" /\ results' = results
        BY <2>6 DEF CacheSet, Awaiting
      <3>2. "primary" \in Providers /\ "primary" # "rules:fallback" /\ FALSE \in BOOLEAN
        BY DEF Providers
      <3>3. /\ RingInv' /\ Hits' = Hits /\ Fallbacks' = Fallbacks
            /\ Misses' = Misses
        BY <3>1, <3>2, ReturnEffect DEF MetaInv
      <3> QED
        BY <3>1, <3>3 DEF MetaInv, CountTruth
    <2>7. CASE ProviderRaises(c) \/ ProviderTimesOut(c) \/ CacheSetRaises(c)
      <3>1. PICK class \in Classes, ticks \in Nat :
              Fail(c, class, ticks) /\ pc[c] \in Awaiting
        BY <2>7, FailCases DEF Awaiting
      <3>2. CASE FallBack(c)
        BY <3>1, <3>2, MetaFallsBack
      <3>3. CASE /\ pc' = [pc EXCEPT ![c] = "sleep"]
                 /\ UNCHANGED <<outcome, traceVars>>
        BY <3>1, <3>3, MetaStays DEF traceVars, TypeOK, Awaiting
      <3> QED
        BY <3>1, <3>2, <3>3, FailEffect
    <2> QED
      BY <1>1, <2>1, <2>2, <2>3, <2>4, <2>5, <2>6, <2>7 DEF Serve
  <1>2. ASSUME NEW k \in Keys, Expire(k) PROVE MetaInv'
    BY <1>2, MetaStays DEF Expire, callVars, traceVars
  <1>3. CASE Restart
    <2>1. /\ \A c \in Calls : pc'[c] \notin {"done"} \cup Awaiting
          /\ ring' = <<>> /\ ended' = <<>> /\ results' = [n \in Counters |-> 0]
      BY <1>3 DEF Restart, Awaiting
    <2>2. Done' = {} /\ Hits' = {} /\ Fallbacks' = {} /\ Misses' = {}
      BY <2>1 DEF Done, Hits, Fallbacks, Misses, Awaiting
    <2>3. CountTruth'
      BY <2>1, <2>2, FS_EmptySet DEF CountTruth, Counters
    <2>4. RingInv'
      BY <2>1, <2>2, LadderAssumption DEF RingInv, EndedOnce, AtMost
    <2> QED
      BY <2>3, <2>4 DEF MetaInv
  <1>4. CASE UNCHANGED vars
    BY <1>4, MetaStays DEF vars, callVars, traceVars
  <1> QED
    BY <1>1, <1>2, <1>3, <1>4 DEF Next

\* GET /api/meta/providers: after any number of calls and restarts of the
\* process, its counters are the numbers of calls it has served, by hit, miss
\* and fallback, and it lists the last calls that ended, as many as the ring
\* and the answer hold, newest first and each as it ended.
THEOREM MetaIsTrue == Spec => []MetaTellsTruth
  <1>1. Init => MetaInv
    BY MetaEmpty DEF Init, Awaiting
  <1>2. TypeOK /\ MetaInv /\ [Next]_vars => MetaInv'
    BY MetaStep
  <1>3. TypeOK /\ MetaInv => MetaTellsTruth
    BY RingIsRecent DEF MetaInv, MetaTellsTruth
  <1> QED
    BY <1>1, <1>2, <1>3, TypeCorrect, PTL DEF Spec
=============================================================================
