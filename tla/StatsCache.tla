----------------------------- MODULE StatsCache -----------------------------
(***************************************************************************)
(* GET /api/stats through its read-through cache, concurrent with the      *)
(* writes that invalidate it: StatsService, the six aggregate statements   *)
(* of ComplaintRepository.stats_counts, and the COMMIT and DEL of          *)
(* ComplaintService.create/change_status and of the seed command.          *)
(*                                                                         *)
(* The table is abstracted to the number of commits it has seen.  Each of  *)
(* the six statements sees the commits made before it (READ COMMITTED), so *)
(* what a payload surely holds is what its first statement saw: the number *)
(* of commits kept for it.  The other five run at any time before SETEX.   *)
(*                                                                         *)
(* Time is counted down: an entry and the stampede lock carry the ticks    *)
(* they have left, a polling reader the ticks it will still wait.          *)
(***************************************************************************)
EXTENDS Integers

CONSTANTS
    Readers,   \* clients of GET /api/stats, each sending one after another
    Writers,   \* POST and PATCH requests: COMMIT, then DEL
    Seeds,     \* runs of the seed command: COMMIT only
    StatsTTL,  \* stats_cache_ttl_s, in ticks
    LockTTL,   \* _LOCK_TTL_MS, in ticks
    PollWait,  \* _DEFAULT_POLL_TIMEOUT_MS, in ticks
    Empty      \* no entry under stats:v1

Writes == Writers \cup Seeds

Entries == [first : Nat, by : Readers, left : Nat]

ASSUME TimeAssumption == StatsTTL \in Nat \ {0} /\ LockTTL \in Nat \ {0} /\ PollWait \in Nat
ASSUME WriteAssumption == Writers \cap Seeds = {}
ASSUME EmptyAssumption == Empty \notin Entries

VARIABLES
    commits,   \* how many writes have committed
    cache,     \* the value of stats:v1, or Empty
    lock,      \* ticks lock:stats has left, 0 when it is not set
    pc,        \* pc[r]: the await reader r is suspended at
    first,     \* first[r]: commits the first statement of r's aggregate saw
    wait,      \* wait[r]: ticks r will still poll
    wpc,       \* wpc[w]: how far write w has come
    version,   \* version[w]: the number of w's commit, 0 before it
    across     \* history: the readers in mid-aggregate when w committed

readerVars == <<pc, first, wait>>
writerVars == <<wpc, version, across>>
vars == <<commits, cache, lock, readerVars, writerVars>>

ReaderPCs == {"start", "lock", "poll", "query", "store", "dead"}
WriterPCs == {"write", "committed", "deleted", "undeleted"}

TypeOK ==
    /\ commits \in Nat
    /\ cache \in Entries \cup {Empty}
    /\ lock \in Nat
    /\ pc \in [Readers -> ReaderPCs]
    /\ first \in [Readers -> Nat]
    /\ wait \in [Readers -> Nat]
    /\ wpc \in [Writes -> WriterPCs]
    /\ version \in [Writes -> Nat]
    /\ across \in [Writes -> SUBSET Readers]

Init ==
    /\ commits = 0
    /\ cache = Empty
    /\ lock = 0
    /\ pc = [r \in Readers |-> "start"]
    /\ first = [r \in Readers |-> 0]
    /\ wait = [r \in Readers |-> 0]
    /\ wpc = [w \in Writes |-> "write"]
    /\ version = [w \in Writes |-> 0]
    /\ across = [w \in Writes |-> {}]

-----------------------------------------------------------------------------
(* StatsService.get, one action per await.  A served reader is back at     *)
(* "start": its client may ask again.                                      *)

Goto(r, label) == pc' = [pc EXCEPT ![r] = label]

\* The first statement has run, the payload is not stored yet.
Aggregating(r) == pc[r] = "store"

\* The payload r was computing goes out of scope.
Forget(r) == first' = [first EXCEPT ![r] = 0]

\* GET finds the key: X-Cache HIT, which changes nothing.  The other way:

\* GET finds nothing, or fails and is taken for a miss.
Miss(r) ==
    /\ pc[r] = "start"
    /\ Goto(r, "lock")
    /\ UNCHANGED <<commits, cache, lock, first, wait, writerVars>>

\* SET lock:stats NX PX wins.
AcquireLock(r) ==
    /\ pc[r] = "lock"
    /\ lock = 0
    /\ lock' = LockTTL
    /\ Goto(r, "query")
    /\ UNCHANGED <<commits, cache, first, wait, writerVars>>

\* SET NX loses: poll for the winner's payload.
LockTaken(r) ==
    /\ pc[r] = "lock"
    /\ lock > 0
    /\ wait' = [wait EXCEPT ![r] = PollWait]
    /\ Goto(r, "poll")
    /\ UNCHANGED <<commits, cache, lock, first, writerVars>>

\* SET NX raises: compute without the lock.
LockFails(r) ==
    /\ pc[r] = "lock"
    /\ Goto(r, "query")
    /\ UNCHANGED <<commits, cache, lock, first, wait, writerVars>>

\* A poll finds the key: X-Cache HIT.
PollHit(r) ==
    /\ pc[r] = "poll"
    /\ cache # Empty
    /\ Goto(r, "start")
    /\ wait' = [wait EXCEPT ![r] = 0]
    /\ UNCHANGED <<commits, cache, lock, first, writerVars>>

\* Mutant: the poll ran out, but compute only with the lock free.
PollUntilUnlocked(r) ==
    /\ pc[r] = "poll"
    /\ wait[r] = 0
    /\ lock = 0
    /\ Goto(r, "query")
    /\ UNCHANGED <<commits, cache, lock, first, wait, writerVars>>

\* The poll ran out: compute anyway, never block on the lock.
PollTimeout(r) ==
    /\ pc[r] = "poll"
    /\ wait[r] = 0
    /\ Goto(r, "query")
    /\ UNCHANGED <<commits, cache, lock, first, wait, writerVars>>

\* The first of stats_counts' statements; the five others follow.
Query(r) ==
    /\ pc[r] = "query"
    /\ first' = [first EXCEPT ![r] = commits]
    /\ Goto(r, "store")
    /\ UNCHANGED <<commits, cache, lock, wait, writerVars>>

\* SETEX: X-Cache MISS.  Nothing gives the lock back.
Store(r) ==
    /\ pc[r] = "store"
    /\ cache' = [first |-> first[r], by |-> r, left |-> StatsTTL]
    /\ Goto(r, "start")
    /\ Forget(r)
    /\ UNCHANGED <<commits, lock, wait, writerVars>>

\* SETEX raises: the payload is served all the same.
StoreFails(r) ==
    /\ pc[r] = "store"
    /\ Goto(r, "start")
    /\ Forget(r)
    /\ UNCHANGED <<commits, cache, lock, wait, writerVars>>

\* A statement raises: 500.
QueryFails(r) ==
    /\ pc[r] \in {"query", "store"}
    /\ Goto(r, "start")
    /\ Forget(r)
    /\ UNCHANGED <<commits, cache, lock, wait, writerVars>>

\* The pod dies under the reader, lock and all.
ReaderDies(r) ==
    /\ pc[r] \notin {"start", "dead"}
    /\ Goto(r, "dead")
    /\ Forget(r)
    /\ wait' = [wait EXCEPT ![r] = 0]
    /\ UNCHANGED <<commits, cache, lock, writerVars>>

-----------------------------------------------------------------------------
(* Writes                                                                  *)

\* What COMMIT does: the write becomes visible.
CommitAs(w, label) ==
    /\ wpc[w] = "write"
    /\ commits' = commits + 1
    /\ version' = [version EXCEPT ![w] = commits + 1]
    /\ across' = [across EXCEPT ![w] = { r \in Readers : Aggregating(r) }]
    /\ wpc' = [wpc EXCEPT ![w] = label]
    /\ UNCHANGED <<cache, lock, readerVars>>

\* Mutant: the DEL first, then the COMMIT.
CommitAfterDel(w) ==
    \/ /\ wpc[w] = "write"
       /\ cache' = Empty
       /\ wpc' = [wpc EXCEPT ![w] = "committed"]
       /\ UNCHANGED <<commits, lock, readerVars, version, across>>
    \/ /\ wpc[w] = "committed"
       /\ commits' = commits + 1
       /\ version' = [version EXCEPT ![w] = commits + 1]
       /\ wpc' = [wpc EXCEPT ![w] = "deleted"]
       /\ UNCHANGED <<cache, lock, readerVars, across>>

\* ComplaintService: repo.commit().
CommitWrite(w) == CommitAs(w, "committed")

\* ComplaintService: stats.invalidate(), DEL stats:v1.
Invalidate(w) ==
    /\ wpc[w] = "committed"
    /\ cache' = Empty
    /\ wpc' = [wpc EXCEPT ![w] = "deleted"]
    /\ UNCHANGED <<commits, lock, readerVars, version, across>>

\* The DEL raises and is swallowed, or the pod dies before sending it.
InvalidateLost(w) ==
    /\ wpc[w] = "committed"
    /\ wpc' = [wpc EXCEPT ![w] = "undeleted"]
    /\ UNCHANGED <<commits, cache, lock, readerVars, version, across>>

\* cli/seed.py: bulk_seed, commit, and no DEL.
CommitSeed(s) == CommitAs(s, "undeleted")

-----------------------------------------------------------------------------
(* Time: Redis expires keys, polling readers wait.                         *)

Age(n) == IF n = 0 THEN 0 ELSE n - 1

\* Mutant: the payload is SET with no expiry.
TickWithoutTTL ==
    /\ lock > 0 \/ \E r \in Readers : wait[r] > 0
    /\ lock' = Age(lock)
    /\ wait' = [r \in Readers |-> Age(wait[r])]
    /\ UNCHANGED <<commits, cache, pc, first, writerVars>>

Tick ==
    /\ cache # Empty \/ lock > 0 \/ \E r \in Readers : wait[r] > 0
    /\ cache' = IF cache = Empty \/ cache.left <= 1
                THEN Empty
                ELSE [cache EXCEPT !.left = @ - 1]
    /\ lock' = Age(lock)
    /\ wait' = [r \in Readers |-> Age(wait[r])]
    /\ UNCHANGED <<commits, pc, first, writerVars>>

-----------------------------------------------------------------------------
Serve(r) ==
    \/ AcquireLock(r) \/ LockTaken(r) \/ LockFails(r)
    \/ PollHit(r) \/ PollTimeout(r)
    \/ Query(r) \/ Store(r) \/ StoreFails(r)

Next ==
    \/ \E r \in Readers :
         \/ Miss(r) \/ Serve(r) \/ QueryFails(r) \/ ReaderDies(r)
    \/ \E w \in Writers : CommitWrite(w) \/ Invalidate(w) \/ InvalidateLost(w)
    \/ \E s \in Seeds : CommitSeed(s)
    \/ Tick

Spec == Init /\ [][Next]_vars

\* Every await of a live handler returns, and time passes.  Nothing makes a
\* client ask, a write happen or a DEL be delivered.
Fairness == WF_vars(Tick) /\ \A r \in Readers : WF_vars(Serve(r))

FairSpec == Spec /\ Fairness

-----------------------------------------------------------------------------
(* Properties                                                              *)

\* What COMMIT-then-DEL buys.  Once a write's DEL has run, the cache lacks
\* the write only if the aggregate that filled it was already under way when
\* the write committed and was still to be stored when the DEL ran.  With the
\* DEL before the COMMIT, any read in between would do.
StaleOnlyAcrossCommit ==
    \A w \in Writes :
        wpc[w] = "deleted" /\ cache # Empty /\ cache.first < version[w]
            => cache.by \in across[w]

\* Lost DELs, seeds and fills that straddle a write leave the page stale only
\* for a while: when writes stop, the cache comes to hold every one of them,
\* or nothing, for good.  The TTL is what makes this true.
StalenessEnds == <>[](cache # Empty => cache.first = commits)

\* A reader is never held up for good by the stampede lock, whether its
\* holder is slow, failed or dead.
EveryReadEnds ==
    \A r \in Readers : pc[r] # "start" ~> pc[r] \in {"start", "dead"}

-----------------------------------------------------------------------------
(* The inductive invariant behind StaleOnlyAcrossCommit.                   *)

\* Nothing holds a commit number from the future, and a write has one from
\* the moment it committed.
VersionInv ==
    /\ \A r \in Readers : Aggregating(r) => first[r] <= commits
    /\ cache # Empty => cache.first <= commits
    /\ \A w \in Writes : /\ version[w] <= commits
                         /\ wpc[w] = "write" <=> version[w] = 0

\* A running aggregate lacks a committed write only if the write committed
\* in the middle of it.
FillInv ==
    \A w \in Writes, r \in Readers :
        Aggregating(r) /\ first[r] < version[w] => r \in across[w]

IInv == TypeOK /\ VersionInv /\ FillInv /\ StaleOnlyAcrossCommit
=============================================================================
