-------------------------- MODULE StatsCacheProofs --------------------------
(***************************************************************************)
(* Proofs about StatsCache for every number of readers, writers and seeds  *)
(* and every TTL: type correctness, the inductive invariant, and that only *)
(* a fill straddling a COMMIT outlives the DEL that follows it.            *)
(*                                                                         *)
(* The argument.  An aggregate whose first statement runs after a COMMIT   *)
(* holds the write, so one that lacks it was running when it committed     *)
(* (FillInv).  A DEL empties the cache; whatever is stored after it is the *)
(* payload of such an aggregate, or holds the write.                       *)
(***************************************************************************)
EXTENDS StatsCache, TLAPS

-----------------------------------------------------------------------------
\* Every step keeps the types: no action stores a payload, a lock or a pc the
\* rest of the code does not expect.
LEMMA TypeStep == TypeOK /\ [Next]_vars => TypeOK'
<1> SUFFICES ASSUME TypeOK, [Next]_vars PROVE TypeOK'
    OBVIOUS
<1> USE TimeAssumption DEF TypeOK, Entries, ReaderPCs, WriterPCs, Writes
<1>1. ASSUME NEW r \in Readers,
             Miss(r) \/ Serve(r) \/ QueryFails(r) \/ ReaderDies(r)
      PROVE  TypeOK'
  <2>1. CASE Miss(r)
        BY <2>1 DEF Miss, Goto, writerVars
  <2>2. CASE AcquireLock(r)
        BY <2>2 DEF AcquireLock, Goto, writerVars
  <2>3. CASE LockTaken(r)
        BY <2>3 DEF LockTaken, Goto, writerVars
  <2>4. CASE LockFails(r)
        BY <2>4 DEF LockFails, Goto, writerVars
  <2>5. CASE PollHit(r)
        BY <2>5 DEF PollHit, Goto, writerVars
  <2>6. CASE PollTimeout(r)
        BY <2>6 DEF PollTimeout, Goto, writerVars
  <2>7. CASE Query(r)
        BY <2>7 DEF Query, Goto, writerVars
  <2>8. CASE Store(r)
        BY <2>8 DEF Store, Goto, Forget, writerVars
  <2>9. CASE StoreFails(r)
        BY <2>9 DEF StoreFails, Goto, Forget, writerVars
  <2>10. CASE QueryFails(r)
        BY <2>10 DEF QueryFails, Goto, Forget, writerVars
  <2>11. CASE ReaderDies(r)
        BY <2>11 DEF ReaderDies, Goto, Forget, writerVars
  <2> QED
        BY <1>1, <2>1, <2>2, <2>3, <2>4, <2>5, <2>6, <2>7, <2>8, <2>9,
           <2>10, <2>11 DEF Serve
<1>2. ASSUME NEW w \in Writes, NEW label \in WriterPCs, CommitAs(w, label)
      PROVE  TypeOK'
  <2>1. commits' \in Nat /\ version' \in [Writes -> Nat]
        BY <1>2 DEF CommitAs
  <2>2. across' \in [Writes -> SUBSET Readers] /\ wpc' \in [Writes -> WriterPCs]
        BY <1>2 DEF CommitAs
  <2> QED
        BY <1>2, <2>1, <2>2 DEF CommitAs, readerVars
<1>3. ASSUME NEW w \in Writers, Invalidate(w) \/ InvalidateLost(w)
      PROVE  TypeOK'
      BY <1>3 DEF Invalidate, InvalidateLost, readerVars
<1>4. CASE Tick
  <2>1. cache' \in Entries \cup {Empty}
    <3>1. CASE cache = Empty \/ cache.left <= 1
          BY <1>4, <3>1 DEF Tick
    <3>2. CASE cache # Empty /\ ~(cache.left <= 1)
      <4>1. cache.left - 1 \in Nat
            BY <3>2
      <4> QED
          BY <1>4, <3>2, <4>1 DEF Tick
    <3> QED
          BY <3>1, <3>2
  <2>2. lock' \in Nat /\ wait' \in [Readers -> Nat]
        BY <1>4 DEF Tick, Age
  <2> QED
        BY <1>4, <2>1, <2>2 DEF Tick, writerVars
<1>5. CASE UNCHANGED vars
      BY <1>5 DEF vars, readerVars, writerVars
<1> QED
      BY <1>1, <1>2, <1>3, <1>4, <1>5 DEF Next, CommitWrite, CommitSeed

\* The reachable states are well typed, whatever the constants.
THEOREM TypeCorrect == Spec => []TypeOK
<1>1. Init => TypeOK
      BY DEF Init, TypeOK, ReaderPCs, WriterPCs
<1>2. TypeOK /\ [Next]_vars => TypeOK'
      BY TypeStep
<1> QED
      BY <1>1, <1>2, PTL DEF Spec

-----------------------------------------------------------------------------
\* Every step keeps the inductive invariant: a COMMIT marks the fills it cuts
\* across, a DEL removes what they stored so far, and a SETEX stores what
\* FillInv says of its reader.
LEMMA InvStep == IInv /\ [Next]_vars => IInv'
<1> SUFFICES ASSUME IInv, [Next]_vars PROVE IInv'
    OBVIOUS
<1>t. TypeOK'
      BY TypeStep DEF IInv
<1> USE DEF IInv, VersionInv, FillInv, StaleOnlyAcrossCommit, Aggregating
<1>1. ASSUME NEW r \in Readers,
             Miss(r) \/ Serve(r) \/ QueryFails(r) \/ ReaderDies(r)
      PROVE  IInv'
  <2>1. CASE Miss(r) \/ LockFails(r) \/ PollTimeout(r) \/ LockTaken(r)
               \/ AcquireLock(r) \/ PollHit(r)
    <3>1. /\ UNCHANGED <<commits, cache, first, writerVars>>
          /\ \A q \in Readers : pc'[q] = "store" => pc[q] = "store"
          BY <2>1 DEF TypeOK, Miss, LockFails, PollTimeout, LockTaken,
                      AcquireLock, PollHit, Goto
    <3> QED
          BY <1>t, <3>1 DEF writerVars
  <2>2. CASE Query(r)
    <3>1. /\ \A q \in Readers : q # r => first'[q] = first[q] /\ pc'[q] = pc[q]
          /\ first'[r] = commits
          BY <2>2 DEF TypeOK, Query, Goto
    <3>2. UNCHANGED <<commits, cache, writerVars>>
          BY <2>2 DEF Query
    <3>3. VersionInv'
          BY <3>1, <3>2 DEF TypeOK, writerVars
    <3>4. FillInv'
          BY <3>1, <3>2 DEF TypeOK, writerVars
    <3> QED
          BY <1>t, <3>2, <3>3, <3>4 DEF writerVars
  <2>3. CASE Store(r)
    <3>1. /\ cache' = [first |-> first[r], by |-> r, left |-> StatsTTL]
          /\ pc[r] = "store"
          /\ UNCHANGED <<commits, writerVars>>
          BY <2>3 DEF Store
    <3>2. \A q \in Readers :
            pc'[q] = "store" => pc[q] = "store" /\ first'[q] = first[q]
          BY <2>3 DEF TypeOK, Store, Goto, Forget
    <3>3. VersionInv'
          BY <3>1, <3>2 DEF writerVars
    <3>4. FillInv'
          BY <3>1, <3>2 DEF writerVars
    <3>5. StaleOnlyAcrossCommit'
          BY <3>1 DEF writerVars
    <3> QED
          BY <1>t, <3>3, <3>4, <3>5
  <2>4. CASE StoreFails(r) \/ QueryFails(r) \/ ReaderDies(r)
    <3>1. /\ UNCHANGED <<commits, cache, writerVars>>
          /\ \A q \in Readers :
               pc'[q] = "store" => pc[q] = "store" /\ first'[q] = first[q]
          BY <2>4 DEF TypeOK, StoreFails, QueryFails, ReaderDies, Goto, Forget
    <3> QED
          BY <1>t, <3>1 DEF writerVars
  <2> QED
        BY <1>1, <2>1, <2>2, <2>3, <2>4 DEF Serve
<1>2. ASSUME NEW w \in Writes, NEW label \in {"committed", "undeleted"},
             CommitAs(w, label)
      PROVE  IInv'
  <2>1. /\ commits' = commits + 1
        /\ version'[w] = commits + 1
        /\ across'[w] = { r \in Readers : pc[r] = "store" }
        /\ wpc'[w] = label
        /\ \A u \in Writes : u # w => /\ version'[u] = version[u]
                                      /\ across'[u] = across[u]
                                      /\ wpc'[u] = wpc[u]
        /\ UNCHANGED <<cache, pc, first>>
        BY <1>2 DEF TypeOK, CommitAs, readerVars
  <2>2. VersionInv'
        BY <2>1 DEF TypeOK, Entries
  <2>3. FillInv'
        BY <2>1
  <2>4. StaleOnlyAcrossCommit'
        BY <2>1
  <2> QED
        BY <1>t, <2>2, <2>3, <2>4
<1>3. ASSUME NEW w \in Writers, Invalidate(w) \/ InvalidateLost(w)
      PROVE  IInv'
  <2>1. /\ UNCHANGED <<commits, pc, first, version, across>>
        /\ \A u \in Writes : wpc'[u] = "write" <=> wpc[u] = "write"
        BY <1>3 DEF TypeOK, Writes, Invalidate, InvalidateLost, readerVars
  <2>2. cache' = Empty \/ cache' = cache
        BY <1>3 DEF Invalidate, InvalidateLost
  <2>3. StaleOnlyAcrossCommit'
    <3>1. CASE cache' = Empty
          BY <3>1
    <3>2. CASE InvalidateLost(w)
          BY <2>1, <3>2 DEF TypeOK, Writes, InvalidateLost
    <3> QED
          BY <1>3, <3>1, <3>2 DEF Invalidate
  <2> QED
        BY <1>t, <2>1, <2>2, <2>3
<1>4. CASE Tick
  <2>1. UNCHANGED <<commits, pc, first, writerVars>>
        BY <1>4 DEF Tick
  <2>2. cache' # Empty =>
          cache # Empty /\ cache'.first = cache.first /\ cache'.by = cache.by
        BY <1>4 DEF Tick, TypeOK, Entries
  <2> QED
        BY <1>t, <2>1, <2>2 DEF writerVars
<1>5. CASE UNCHANGED vars
      BY <1>t, <1>5 DEF vars, readerVars, writerVars
<1> QED
      BY <1>1, <1>2, <1>3, <1>4, <1>5 DEF Next, CommitWrite, CommitSeed, Writes

\* The inductive invariant holds of every reachable state.
THEOREM Inductive == Spec => []IInv
<1>1. Init => IInv
      BY DEF Init, IInv, TypeOK, VersionInv, FillInv, StaleOnlyAcrossCommit,
             Aggregating, ReaderPCs, WriterPCs
<1>2. IInv /\ [Next]_vars => IInv'
      BY InvStep
<1> QED
      BY <1>1, <1>2, PTL DEF Spec

\* Once a write's DEL has run, only an aggregate that was under way at its
\* COMMIT can have left a payload without the write in the cache.
THEOREM StaleOnlyByStraddlers == Spec => []StaleOnlyAcrossCommit
<1>1. IInv => StaleOnlyAcrossCommit
      BY DEF IInv
<1> QED
      BY <1>1, Inductive, PTL
=============================================================================
