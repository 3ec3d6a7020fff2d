------------------------------- MODULE Intake -------------------------------
(***************************************************************************)
(* A complaint on its way from the form in the browser, by POST, through   *)
(* one pod (triage, then INSERT, COMMIT and the DEL of the stats key) to   *)
(* the table and back.  The pod's pool of connections is shared with the   *)
(* other requests the pod serves.                                          *)
(*                                                                         *)
(* What goes wrong: refusals and failures of any step, answers that do not *)
(* reach the browser in time, a COMMIT without an acknowledgement, a pod   *)
(* told to terminate with requests running, and one killed.  The form then *)
(* still holds the report, and the citizen may submit it again.            *)
(*                                                                         *)
(* The pods of a rollout are told apart by their names only: a pod that    *)
(* has ended starts again.                                                 *)
(***************************************************************************)
EXTENDS Integers, FiniteSets

CONSTANTS
    Reports,   \* what citizens want to report, each in a form of its own
    Pods,
    Capacity,  \* pool_size + max_overflow
    MaxTries   \* bound of the model: submissions of one report

ASSUME IntakeAssumption == Capacity \in Nat \ {0} /\ MaxTries \in Nat \ {0}

VARIABLES
    tries,     \* submissions of each form
    told,      \* what the browser learned of each POST
    pc, pod,   \* where each POST is, and the pod that serves it
    rows,      \* the POSTs whose row is committed
    conns,     \* the POSTs that have a connection of their pod's pool
    others,    \* connections of each pool that other requests have
    phase      \* of the process of each pod

vars == <<tries, told, pc, pod, rows, conns, others, phase>>

\* POST <<r, n>> is the n-th submission of r.
Posts == Reports \X (1 .. MaxTries)

\* The steps of a POST at which a pod still works on it.
Working == {"edge", "triage", "pool", "insert", "commit", "invalidate", "answer",
            "error"}

At(d) == {p \in Posts : pc[p] \in Working /\ pod[p] = d}

Init ==
    /\ tries = [r \in Reports |-> 0]
    /\ told = [p \in Posts |-> "nothing"]
    /\ pc = [p \in Posts |-> "unsent"]
    /\ pod \in [Posts -> Pods]
    /\ rows = {} /\ conns = {}
    /\ others = [d \in Pods |-> 0]
    /\ phase = [d \in Pods |-> "up"]

-----------------------------------------------------------------------------
(* The form.                                                               *)

\* A form waits for the answer to its last POST, and a created one clears it.
Busy(r) == tries[r] > 0 /\ told[<<r, tries[r]>>] = "nothing"
Filled(r) == tries[r] > 0 => told[<<r, tries[r]>>] # "created"

Send(r, d) ==
    LET p == <<r, tries[r] + 1>> IN
    /\ tries' = [tries EXCEPT ![r] = @ + 1]
    /\ pod' = [pod EXCEPT ![p] = d]
    /\ \/ /\ phase[d] = "up"
          /\ pc' = [pc EXCEPT ![p] = "edge"] /\ UNCHANGED told
       \/ /\ pc' = [pc EXCEPT ![p] = "gone"]
          /\ told' = [told EXCEPT ![p] = "failure"]
    /\ UNCHANGED <<rows, conns, others, phase>>

\* Mutant of onSubmit: a second click while the first is being answered.
SubmitTwice(r, d) == tries[r] < MaxTries /\ Filled(r) /\ Send(r, d)

onSubmit(r, d) ==
    /\ tries[r] < MaxTries
    /\ ~Busy(r) /\ Filled(r)
    /\ Send(r, d)

\* The connection breaks or nginx stops waiting; the pod does not notice.
AnswerLost(p) ==
    /\ pc[p] \in Working \cup {"gone"} /\ told[p] = "nothing"
    /\ told' = [told EXCEPT ![p] = "failure"]
    /\ UNCHANGED <<tries, pc, pod, rows, conns, others, phase>>

-----------------------------------------------------------------------------
(* One POST at its pod.                                                    *)

Goes(p, from, to) == pc[p] = from /\ pc' = [pc EXCEPT ![p] = to]

Keeps == UNCHANGED <<tries, told, pod, others, phase>>

InUse(d) == Cardinality({p \in conns : pod[p] = d}) + others[d]

\* Mutant of Admit: create starts with a query.
AdmitWithQuery(p) ==
    /\ Goes(p, "edge", "triage")
    /\ InUse(pod[p]) < Capacity
    /\ conns' = conns \cup {p}
    /\ Keeps /\ UNCHANGED rows

\* A 400 or a 429; or it is let through to create.
Refuse(p) == Goes(p, "edge", "error") /\ Keeps /\ UNCHANGED <<rows, conns>>
Admit(p) == Goes(p, "edge", "triage") /\ Keeps /\ UNCHANGED <<rows, conns>>

\* The ladder has a verdict, or its cache read raised.
triage_with_fallback(p) ==
    /\ Goes(p, "triage", "pool") \/ Goes(p, "triage", "error")
    /\ Keeps /\ UNCHANGED <<rows, conns>>

Connect(p) ==
    /\ InUse(pod[p]) < Capacity
    /\ Goes(p, "pool", "insert")
    /\ conns' = conns \cup {p}
    /\ Keeps /\ UNCHANGED rows

\* Mutant of PoolTimesOut: a request waits for a connection, however long.
PoolWaits(p) == pc[p] = "pool" /\ UNCHANGED vars

PoolTimesOut(p) ==
    /\ InUse(pod[p]) >= Capacity
    /\ Goes(p, "pool", "error")
    /\ Keeps /\ UNCHANGED <<rows, conns>>

Insert(p) == Goes(p, "insert", "commit") /\ Keeps /\ UNCHANGED <<rows, conns>>

\* Mutant of Commit: the commit is left to get_session, after the answer.
CommitAfterwards(p) ==
    /\ Goes(p, "commit", "invalidate")
    /\ rows' \in {rows, rows \cup {p}}
    /\ conns' = conns \ {p}
    /\ Keeps

Commit(p) ==
    /\ Goes(p, "commit", "invalidate")
    /\ rows' = rows \cup {p}
    /\ conns' = conns \ {p}
    /\ Keeps

\* The rollback of get_session; a COMMIT may have taken effect all the same.
Raise(p) ==
    /\ \/ Goes(p, "insert", "error") /\ UNCHANGED rows
       \/ Goes(p, "commit", "error") /\ rows' \in {rows, rows \cup {p}}
    /\ conns' = conns \ {p}
    /\ Keeps

\* Whether or not the DEL works.
Invalidate(p) ==
    Goes(p, "invalidate", "answer") /\ Keeps /\ UNCHANGED <<rows, conns>>

\* Mutant of Learns: a late answer is taken for the submission it answers.
LearnsLate(p, what) == told' = [told EXCEPT ![p] = what]

\* A browser that has given up does not take the answer any more.
Learns(p, what) ==
    told' = [told EXCEPT ![p] = IF @ = "nothing" THEN what ELSE @]

Respond(p) ==
    /\ \/ Goes(p, "answer", "gone") /\ Learns(p, "created")
       \/ Goes(p, "error", "gone") /\ Learns(p, "failure")
    /\ UNCHANGED <<tries, pod, rows, conns, others, phase>>

-----------------------------------------------------------------------------
(* The pod and its pool.                                                   *)

OthersConnect(d) ==
    /\ phase[d] \in {"up", "draining"} /\ InUse(d) < Capacity
    /\ others' = [others EXCEPT ![d] = @ + 1]
    /\ UNCHANGED <<tries, told, pc, pod, rows, conns, phase>>

OthersRelease(d) ==
    /\ others[d] > 0
    /\ others' = [others EXCEPT ![d] = @ - 1]
    /\ UNCHANGED <<tries, told, pc, pod, rows, conns, phase>>

\* Every request of the pod ends where it is; a COMMIT may be on its way.
\* The browsers notice later (AnswerLost).
EndRequests(d) ==
    /\ pc' = [p \in Posts |-> IF p \in At(d) THEN "gone" ELSE pc[p]]
    /\ \E late \in SUBSET {p \in At(d) : pc[p] = "commit"} : rows' = rows \cup late
    /\ conns' = conns \ At(d)
    /\ others' = [others EXCEPT ![d] = 0]
    /\ UNCHANGED <<tries, told, pod>>

Phase(d, from, to) == phase[d] = from /\ phase' = [phase EXCEPT ![d] = to]

\* uvicorn on SIGTERM: no new connections; it waits for the requests it has,
\* cancels the rest after a while, and only then ends the lifespan.
Terminate(d) ==
    Phase(d, "up", "draining")
    /\ UNCHANGED <<tries, told, pc, pod, rows, conns, others>>

Drained(d) ==
    /\ At(d) = {} /\ others[d] = 0
    /\ Phase(d, "draining", "drained")
    /\ UNCHANGED <<tries, told, pc, pod, rows, conns, others>>

CancelRequests(d) == Phase(d, "draining", "drained") /\ EndRequests(d)

CloseClients(d) ==
    /\ Phase(d, "drained", "closed")
    /\ UNCHANGED <<tries, told, pc, pod, rows, conns, others>>

Kill(d) ==
    /\ phase[d] # "closed"
    /\ phase' = [phase EXCEPT ![d] = "closed"]
    /\ EndRequests(d)

StartPod(d) ==
    /\ Phase(d, "closed", "up")
    /\ UNCHANGED <<tries, told, pc, pod, rows, conns, others>>

create(p) ==
    \/ triage_with_fallback(p) \/ Connect(p) \/ PoolTimesOut(p) \/ Insert(p)
    \/ Commit(p) \/ Raise(p) \/ Invalidate(p)

Next ==
    \/ \E r \in Reports, d \in Pods : onSubmit(r, d)
    \/ \E p \in Posts :
          AnswerLost(p) \/ Refuse(p) \/ Admit(p) \/ create(p) \/ Respond(p)
    \/ \E d \in Pods :
          \/ OthersConnect(d) \/ OthersRelease(d)
          \/ Terminate(d) \/ Drained(d) \/ CancelRequests(d) \/ CloseClients(d)
          \/ Kill(d) \/ StartPod(d)

Spec == Init /\ [][Next]_vars

\* The pod gets on with every request, and a POST it let go is given up by
\* nginx or by the browser.
Serve(p) ==
    \/ Refuse(p) \/ Admit(p) \/ create(p) \/ Respond(p)
    \/ pc[p] = "gone" /\ AnswerLost(p)

Fairness == \A p \in Posts : WF_vars(Serve(p))

FairSpec == Spec /\ Fairness

-----------------------------------------------------------------------------
(* Properties.                                                             *)

\* The variables of the intake keep their types.
TypeOK ==
    /\ tries \in [Reports -> 0 .. MaxTries]
    /\ told \in [Posts -> {"nothing", "created", "failure"}]
    /\ pc \in [Posts -> Working \cup {"unsent", "gone"}]
    /\ pod \in [Posts -> Pods]
    /\ rows \subseteq Posts /\ conns \subseteq Posts
    /\ others \in [Pods -> 0 .. Capacity]
    /\ phase \in [Pods -> {"up", "draining", "drained", "closed"}]

\* complaint_service.py, create commits before it answers: a report whose
\* citizen saw it accepted is in the table, whatever becomes of the pod.
AcknowledgedMeansStored == \A p \in Posts : told[p] = "created" => p \in rows

\* Nothing makes a POST idempotent, so the table may hold a report twice; but
\* only when the citizen was told that the earlier submission failed.
DuplicatesOnlyByRepeat ==
    \A p, q \in rows : p[1] = q[1] /\ p[2] < q[2] => told[p] = "failure"

\* api/client.ts and routes/complaints.py: to the citizen the form, the pods and
\* the table are one ReportMailbox.  A COMMIT puts the submission into it, seen
\* or not, with several at once when a pod ends; a POST is over for its form
\* with the first thing it hears.
Mailbox == INSTANCE ReportMailbox WITH
    inbox <- rows,
    fate <- [p \in Posts |-> IF pc[p] = "unsent" THEN "unsent" ELSE told[p]]
MailboxSpec == Mailbox!Spec

\* A connection is out only for a statement that runs, at a pod whose pool is
\* open: no triage, no DEL, no failed and no cancelled request keeps one.
ConnectionsOnlyForStatements ==
    \A p \in conns : pc[p] \in {"insert", "commit"}
                     /\ phase[pod[p]] \in {"up", "draining"}

\* Every submission is answered: no full pool, dead pod or lost answer leaves
\* the form waiting, even if the pod's other requests keep its connections.
EverySubmissionEnds ==
    \A p \in Posts : pc[p] # "unsent" ~> told[p] # "nothing"
=============================================================================
