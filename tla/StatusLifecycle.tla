-------------------------- MODULE StatusLifecycle --------------------------
(***************************************************************************)
(* Concurrent PATCH /api/complaints/{id}/status requests over one          *)
(* PostgreSQL table: ComplaintService.change_status, the repository calls  *)
(* it makes, and the per-request session that commits or rolls back.       *)
(*                                                                         *)
(* Requests may run on different pods; what they share is the table.  An   *)
(* UPDATE locks its row until its transaction ends, and under READ         *)
(* COMMITTED a second UPDATE of the row waits for that and then            *)
(* re-evaluates its WHERE clause on what was committed.  Each session has  *)
(* an identity map: its Complaint instance is loaded once and a second     *)
(* session.get of the same id answers from memory.                         *)
(***************************************************************************)
EXTENDS StatusTable

CONSTANTS
    Complaints,  \* complaint ids
    Patches,     \* PATCH requests, each served once
    NONE         \* no request

ASSUME NoneAssumption == NONE \notin Patches

VARIABLES
    row,     \* row[c]: the committed status of c, Absent before its INSERT
    holder,  \* holder[c]: the request whose open transaction locks row c
    want,    \* want[p]: the path id and the body status of p
    pc,      \* pc[p]: the await the handler of p is suspended at
    obj,     \* obj[p]: status of the Complaint instance in the session of p
    answer,  \* answer[p]: the response of p, [code, status]
    moved    \* history: the committed status p moved its row from, or Absent

vars == <<row, holder, want, pc, obj, answer, moved>>

PCs == {"get", "update", "reread", "commit", "invalidate", "failing",
        "done", "dead"}
Codes == {"none", "ok", "not_found", "conflict", "error"}
Unanswered == [code |-> "none", status |-> Absent]

TypeOK ==
    /\ row \in [Complaints -> Statuses \cup {Absent}]
    /\ holder \in [Complaints -> Patches \cup {NONE}]
    /\ want \in [Patches -> [id : Complaints, new : Statuses]]
    /\ pc \in [Patches -> PCs]
    /\ obj \in [Patches -> Statuses \cup {Absent}]
    /\ answer \in [Patches -> [code : Codes, status : Statuses \cup {Absent}]]
    /\ moved \in [Patches -> Statuses \cup {Absent}]

Init ==
    /\ row = [c \in Complaints |-> Absent]
    /\ holder = [c \in Complaints |-> NONE]
    /\ want \in [Patches -> [id : Complaints, new : Statuses]]
    /\ pc = [p \in Patches |-> "get"]
    /\ obj = [p \in Patches |-> Absent]
    /\ answer = [p \in Patches |-> Unanswered]
    /\ moved = [p \in Patches |-> Absent]

-----------------------------------------------------------------------------
(* Helpers                                                                 *)

Goto(p, label) == pc' = [pc EXCEPT ![p] = label]

Respond(p, code, status) ==
    /\ Goto(p, "done")
    /\ answer' = [answer EXCEPT ![p] = [code |-> code, status |-> status]]

\* The row as p's statements see it: committed data only.
Row(p) == row[want[p].id]

\* COMMIT reaching the server: the UPDATE of p becomes the committed row.
Apply(p) ==
    /\ row' = [row EXCEPT ![want[p].id] = want[p].new]
    /\ moved' = [moved EXCEPT ![p] = Row(p)]
    /\ holder' = [holder EXCEPT ![want[p].id] = NONE]

-----------------------------------------------------------------------------
(* A complaint appears: POST /api/complaints commits its INSERT and leaves *)
(* the status to the column's default, "open"; the seed command's rows     *)
(* come with any status.                                                   *)

\* Mutant of Insert: a default that is no status.
InsertNew(c) ==
    /\ row[c] = Absent
    /\ row' = [row EXCEPT ![c] = "new"]
    /\ UNCHANGED <<holder, want, pc, obj, answer, moved>>

Insert(c) ==
    /\ row[c] = Absent
    /\ \E s \in Statuses : row' = [row EXCEPT ![c] = s]
    /\ UNCHANGED <<holder, want, pc, obj, answer, moved>>

-----------------------------------------------------------------------------
(* change_status, one action per await.                                    *)

\* repo.get finds nothing: NotFound, 404.
RefuseMissing(p) ==
    /\ pc[p] = "get"
    /\ Row(p) = Absent
    /\ Respond(p, "not_found", Absent)
    /\ UNCHANGED <<row, holder, want, obj, moved>>

\* repo.get loads a status the table does not let move: 409 naming it.
RefuseForbidden(p) ==
    /\ pc[p] = "get"
    /\ Row(p) # Absent
    /\ ~is_allowed(Row(p), want[p].new)
    /\ obj' = [obj EXCEPT ![p] = Row(p)]
    /\ Respond(p, "conflict", Row(p))
    /\ UNCHANGED <<row, holder, want, moved>>

\* Mutant of Load: the table is not consulted.
LoadUnchecked(p) ==
    /\ pc[p] = "get"
    /\ Row(p) # Absent
    /\ obj' = [obj EXCEPT ![p] = Row(p)]
    /\ Goto(p, "update")
    /\ UNCHANGED <<row, holder, want, answer, moved>>

\* repo.get loads a status that may move; the UPDATE comes next.
Load(p) ==
    /\ pc[p] = "get"
    /\ is_allowed(Row(p), want[p].new)
    /\ obj' = [obj EXCEPT ![p] = Row(p)]
    /\ Goto(p, "update")
    /\ UNCHANGED <<row, holder, want, answer, moved>>

\* Mutants of UpdateMatches: WHERE id alone; no commit afterwards.
UpdateWhereId(p) ==
    /\ pc[p] = "update"
    /\ holder[want[p].id] = NONE
    /\ holder' = [holder EXCEPT ![want[p].id] = p]
    /\ obj' = [obj EXCEPT ![p] = want[p].new]
    /\ Goto(p, "commit")
    /\ UNCHANGED <<row, want, answer, moved>>

UpdateUncommitted(p) ==
    /\ pc[p] = "update"
    /\ holder[want[p].id] = NONE
    /\ Row(p) = obj[p]
    /\ holder' = [holder EXCEPT ![want[p].id] = p]
    /\ obj' = [obj EXCEPT ![p] = want[p].new]
    /\ Goto(p, "invalidate")
    /\ UNCHANGED <<row, want, answer, moved>>

\* UPDATE ... WHERE id AND status = expected, once no other transaction has
\* the row: it matches, locks the row and RETURNs it.
UpdateMatches(p) ==
    /\ pc[p] = "update"
    /\ holder[want[p].id] = NONE
    /\ Row(p) = obj[p]
    /\ holder' = [holder EXCEPT ![want[p].id] = p]
    /\ obj' = [obj EXCEPT ![p] = want[p].new]
    /\ Goto(p, "commit")
    /\ UNCHANGED <<row, want, answer, moved>>

\* The UPDATE matches no row: someone moved it first.  The ORM synchronises
\* the session by evaluating the WHERE clause on the in-memory instance,
\* which still has the expected status, so the instance takes the new one.
UpdateMisses(p) ==
    /\ pc[p] = "update"
    /\ holder[want[p].id] = NONE
    /\ Row(p) # obj[p]
    /\ obj' = [obj EXCEPT ![p] = want[p].new]
    /\ Goto(p, "reread")
    /\ UNCHANGED <<row, holder, want, answer, moved>>

\* Lost the race: the second repo.get is answered by the identity map.
RefuseLostRace(p) ==
    /\ pc[p] = "reread"
    /\ Respond(p, "conflict", obj[p])
    /\ UNCHANGED <<row, holder, want, obj, moved>>

\* repo.commit() succeeds.
Commit(p) ==
    /\ pc[p] = "commit"
    /\ Apply(p)
    /\ Goto(p, "invalidate")
    /\ UNCHANGED <<want, obj, answer>>

\* stats.invalidate() has returned (it swallows a failed DEL): 200.
InvalidateAndAnswer(p) ==
    /\ pc[p] = "invalidate"
    /\ Respond(p, "ok", obj[p])
    /\ UNCHANGED <<row, holder, want, obj, moved>>

-----------------------------------------------------------------------------
(* Failures                                                                *)

\* A statement raises (no connection, pool timeout, server gone).
StatementFails(p) ==
    /\ pc[p] \in {"get", "update", "commit"}
    /\ Goto(p, "failing")
    /\ UNCHANGED <<row, holder, want, obj, answer, moved>>

\* COMMIT took effect but its acknowledgement was lost: commit() raises.
CommitUnacknowledged(p) ==
    /\ pc[p] = "commit"
    /\ Apply(p)
    /\ Goto(p, "failing")
    /\ UNCHANGED <<want, obj, answer>>

\* get_session rolls back and re-raises; the handler answers 500.  Over a
\* live connection the rollback ends the transaction; over a lost one the
\* server still has it open.
Rollback(p) ==
    /\ pc[p] = "failing"
    /\ \/ holder' = [c \in Complaints |-> IF holder[c] = p THEN NONE ELSE holder[c]]
       \/ UNCHANGED holder
    /\ Respond(p, "error", Absent)
    /\ UNCHANGED <<row, want, obj, moved>>

\* The pod dies under the request.  Its transaction, if it has one, stays
\* open until the server notices.
Crash(p) ==
    /\ pc[p] \notin {"done", "dead"}
    /\ Goto(p, "dead")
    /\ UNCHANGED <<row, holder, want, obj, answer, moved>>

\* Mutant of SettleOrphan: the transactions of lost connections stay open.
SettleDeadOnly(p) ==
    /\ pc[p] = "dead"
    /\ holder[want[p].id] = p
    /\ \/ Apply(p)
       \/ /\ holder' = [holder EXCEPT ![want[p].id] = NONE]
          /\ UNCHANGED <<row, moved>>
    /\ UNCHANGED <<want, pc, obj, answer>>

\* The server ends a transaction whose client is gone: abort, or commit when
\* the COMMIT was already on its way.
SettleOrphan(p) ==
    /\ pc[p] \in {"done", "dead"}
    /\ holder[want[p].id] = p
    /\ \/ Apply(p)
       \/ /\ holder' = [holder EXCEPT ![want[p].id] = NONE]
          /\ UNCHANGED <<row, moved>>
    /\ UNCHANGED <<want, pc, obj, answer>>

-----------------------------------------------------------------------------
\* What the handler of p does by itself.
Serve(p) ==
    \/ RefuseMissing(p) \/ RefuseForbidden(p) \/ Load(p)
    \/ UpdateMatches(p) \/ UpdateMisses(p) \/ RefuseLostRace(p)
    \/ Commit(p) \/ InvalidateAndAnswer(p) \/ Rollback(p)

Next ==
    \/ \E c \in Complaints : Insert(c)
    \/ \E p \in Patches :
         \/ Serve(p)
         \/ StatementFails(p)
         \/ CommitUnacknowledged(p)
         \/ Crash(p)
         \/ SettleOrphan(p)

Spec == Init /\ [][Next]_vars

\* The event loop resumes every handler whose await is ready, and the server
\* ends the transactions of clients that are gone.
Fairness == \A p \in Patches : WF_vars(Serve(p)) /\ WF_vars(SettleOrphan(p))

FairSpec == Spec /\ Fairness

-----------------------------------------------------------------------------
(* Properties                                                              *)

Moved(p) == moved[p] # Absent

\* Every change of a committed status is a pair of TRANSITIONS, however many
\* PATCHes checked the table before any of them wrote: the check in
\* change_status and the write in transition() are two awaits apart.
OnlyTableMoves ==
    [][\A c \in Complaints :
         \/ row'[c] = row[c]
         \/ row[c] = Absent
         \/ is_allowed(row[c], row'[c])]_row

\* Two PATCHes never both move a complaint away from the same status: of the
\* requests that read the same status, one wins and the rest lose the race.
OneWinnerPerStatus ==
    \A p, q \in Patches :
        p # q /\ want[p].id = want[q].id /\ Moved(p) => moved[p] # moved[q]

\* A client told 200 moved the complaint, and one told 404 or 409 did not:
\* no response contradicts the table after a lost race, a rollback or a crash.
AnswerMatchesEffect ==
    \A p \in Patches :
        /\ answer[p].code = "ok" => Moved(p) /\ answer[p].status = want[p].new
        /\ answer[p].code \in {"not_found", "conflict"} => ~Moved(p)

\* The locking, committing implementation keeps the abstract promise.
Register == INSTANCE StatusRegister WITH
                answer <- [p \in Patches |-> answer[p].code]
RegisterSpec == Register!Spec

\* No row lock outlives its transaction, so no PATCH waits for ever behind a
\* failed or crashed one: each is answered unless its own pod dies.
EveryPatchEnds == \A p \in Patches : <>(pc[p] \in {"done", "dead"})

\* The statuses complaint c has had.
Been(c) == {row[c]} \cup { moved[p] : p \in { q \in Patches : want[q].id = c /\ Moved(q) } }

\* A 409 names a status the complaint really had.  The code breaks this on
\* the lost-race path, where the re-read is served from the session.
ConflictReportsActualStatus ==
    \A p \in Patches :
        answer[p].code = "conflict" => answer[p].status \in Been(want[p].id)

-----------------------------------------------------------------------------
(* The inductive invariant behind OneWinnerPerStatus, AnswerMatchesEffect  *)
(* and the refinement.                                                     *)

\* A lock belongs to an unfinished transaction on that very row, whose
\* change is still allowed: nobody can move the row under it.
LockInv ==
    \A c \in Complaints : holder[c] # NONE =>
        /\ \/ pc[holder[c]] \in {"commit", "failing", "dead"}
           \/ answer[holder[c]].code = "error"
        /\ want[holder[c]].id = c
        /\ ~Moved(holder[c])
        /\ is_allowed(row[c], want[holder[c]].new)

\* What each handler knows at the await it is suspended at.
HandlerInv ==
    \A p \in Patches :
        /\ pc[p] = "update" => is_allowed(obj[p], want[p].new)
        /\ pc[p] = "commit" => holder[want[p].id] = p
        /\ pc[p] \in {"commit", "invalidate"} => obj[p] = want[p].new
        /\ pc[p] \in {"get", "update", "reread"} => ~Moved(p)
        /\ pc[p] = "invalidate" => Moved(p)
        /\ pc[p] = "done" <=> answer[p].code # "none"

\* A complaint has left every status it was moved from, for good.
RankInv ==
    \A p \in Patches : Moved(p) => Rank(moved[p]) < Rank(Row(p))

IInv == TypeOK /\ LockInv /\ HandlerInv /\ RankInv
          /\ OneWinnerPerStatus /\ AnswerMatchesEffect
=============================================================================
