----------------------- MODULE StatusLifecycleProofs -----------------------
(***************************************************************************)
(* Theorems about StatusLifecycle, for any number of complaints and of     *)
(* concurrent PATCH requests.                                              *)
(***************************************************************************)
EXTENDS StatusLifecycle, TLAPS

\* The table only climbs: a move ends at a higher rank than it started from.
LEMMA MoveClimbs ==
    ASSUME NEW s, NEW t, is_allowed(s, t)
    PROVE  /\ s \in Statuses /\ t \in Statuses
           /\ s # Absent /\ t # Absent /\ s # t
           /\ Rank(s) < Rank(t)
  BY DEF is_allowed, TRANSITIONS, Statuses, Absent, Rank

\* Ranks are numbers.
LEMMA RankNat == \A s : Rank(s) \in Nat
  BY DEF Rank

\* Type correctness: every variable of the PATCH handlers keeps its type.
THEOREM TypeCorrect == Spec => []TypeOK
<1>1. Init => TypeOK
  BY DEF Init, TypeOK, PCs, Codes, Unanswered
<1>2. TypeOK /\ [Next]_vars => TypeOK'
  <2> SUFFICES ASSUME TypeOK, [Next]_vars PROVE TypeOK'
    OBVIOUS
  <2> USE DEF TypeOK, PCs, Codes, Goto, Respond, Row
  <2>1. ASSUME NEW c \in Complaints, Insert(c) PROVE TypeOK'
    BY <2>1 DEF Insert, Statuses
  <2>2. ASSUME NEW p \in Patches, RefuseMissing(p) PROVE TypeOK'
    BY <2>2 DEF RefuseMissing
  <2>3. ASSUME NEW p \in Patches, RefuseForbidden(p) PROVE TypeOK'
    BY <2>3 DEF RefuseForbidden
  <2>4. ASSUME NEW p \in Patches, Load(p) PROVE TypeOK'
    BY <2>4 DEF Load
  <2>5. ASSUME NEW p \in Patches, UpdateMatches(p) PROVE TypeOK'
    BY <2>5 DEF UpdateMatches
  <2>6. ASSUME NEW p \in Patches, UpdateMisses(p) PROVE TypeOK'
    BY <2>6 DEF UpdateMisses
  <2>7. ASSUME NEW p \in Patches, RefuseLostRace(p) PROVE TypeOK'
    BY <2>7 DEF RefuseLostRace
  <2>8. ASSUME NEW p \in Patches, Commit(p) PROVE TypeOK'
    BY <2>8 DEF Commit, Apply
  <2>9. ASSUME NEW p \in Patches, InvalidateAndAnswer(p) PROVE TypeOK'
    BY <2>9 DEF InvalidateAndAnswer
  <2>10. ASSUME NEW p \in Patches, Rollback(p) PROVE TypeOK'
    BY <2>10 DEF Rollback
  <2>11. ASSUME NEW p \in Patches, StatementFails(p) PROVE TypeOK'
    BY <2>11 DEF StatementFails
  <2>12. ASSUME NEW p \in Patches, CommitUnacknowledged(p) PROVE TypeOK'
    BY <2>12 DEF CommitUnacknowledged, Apply
  <2>13. ASSUME NEW p \in Patches, Crash(p) PROVE TypeOK'
    BY <2>13 DEF Crash
  <2>14. ASSUME NEW p \in Patches, SettleOrphan(p) PROVE TypeOK'
    <3>1. want[p].id \in Complaints /\ want[p].new \in Statuses
      OBVIOUS
    <3>2. UNCHANGED <<want, pc, obj, answer>>
      BY <2>14 DEF SettleOrphan
    <3>3. CASE Apply(p)
      BY <3>1, <3>2, <3>3 DEF Apply
    <3>4. CASE ~Apply(p)
      BY <3>2, <3>4, <2>14 DEF SettleOrphan
    <3>5. QED
      BY <3>3, <3>4
  <2>15. CASE UNCHANGED vars
    BY <2>15 DEF vars
  <2>16. QED
    BY <2>1, <2>2, <2>3, <2>4, <2>5, <2>6, <2>7, <2>8, <2>9, <2>10, <2>11,
       <2>12, <2>13, <2>14, <2>15 DEF Next, Serve
<1>3. QED
  BY <1>1, <1>2, PTL DEF Spec

-----------------------------------------------------------------------------
(* The inductive invariant.                                                *)

\* A commit moves the row to a higher rank, so RankInv and the one winner
\* per status survive it.
LEMMA ApplyStep ==
    ASSUME TypeOK, LockInv, RankInv, OneWinnerPerStatus,
           NEW p \in Patches, holder[want[p].id] = p, Apply(p), want' = want
    PROVE  /\ RankInv' /\ OneWinnerPerStatus'
           /\ is_allowed(Row(p), want[p].new)
           /\ moved'[p] = Row(p) /\ Moved(p)'
           /\ \A q \in Patches : q # p => moved'[q] = moved[q]
           /\ \A c \in Complaints : c # want[p].id => row'[c] = row[c]
<1> DEFINE id == want[p].id
<1>1. /\ id \in Complaints
      /\ holder[id] # NONE
      /\ is_allowed(row[id], want[p].new)
      /\ ~Moved(p)
  BY NoneAssumption DEF TypeOK, LockInv
<1>2. /\ row' = [row EXCEPT ![id] = want[p].new]
      /\ moved' = [moved EXCEPT ![p] = row[id]]
  BY DEF Apply, Row
<1>3. /\ row[id] # Absent
      /\ Rank(row[id]) < Rank(want[p].new)
  BY <1>1, MoveClimbs
<1>4. /\ moved'[p] = row[id]
      /\ \A q \in Patches : q # p => moved'[q] = moved[q]
      /\ row'[id] = want[p].new
      /\ \A c \in Complaints : c # id => row'[c] = row[c]
  BY <1>1, <1>2 DEF TypeOK
<1>5. RankInv'
  <2> SUFFICES ASSUME NEW q \in Patches, moved'[q] # Absent
               PROVE  Rank(moved'[q]) < Rank(row'[want[q].id])
    BY DEF RankInv, Moved, Row
  <2>1. CASE q = p
    BY <2>1, <1>3, <1>4
  <2>2. CASE q # p /\ want[q].id = id
    <3>1. Rank(moved[q]) < Rank(row[id])
      BY <2>2, <1>4 DEF RankInv, Moved, Row
    <3>2. QED
      BY <3>1, <2>2, <1>3, <1>4, RankNat
  <2>3. CASE q # p /\ want[q].id # id
    BY <2>3, <1>4 DEF RankInv, Moved, Row, TypeOK
  <2>4. QED
    BY <2>1, <2>2, <2>3
<1>6. OneWinnerPerStatus'
  <2> SUFFICES ASSUME NEW q \in Patches, NEW r \in Patches, q # r,
                      want[q].id = want[r].id, moved'[q] # Absent
               PROVE  moved'[q] # moved'[r]
    BY DEF OneWinnerPerStatus, Moved
  <2>1. ASSUME NEW s \in Patches, s # p, want[s].id = id
        PROVE  moved[s] # row[id]
    \* s moved the complaint from a status of lower rank, or did not move it.
    <3>1. CASE moved[s] = Absent
      BY <3>1, <1>3
    <3>2. CASE moved[s] # Absent
      <4>1. Rank(moved[s]) < Rank(row[id])
        BY <3>2, <2>1 DEF RankInv, Moved, Row
      <4>2. QED
        BY <4>1, RankNat
    <3>3. QED
      BY <3>1, <3>2
  <2>2. CASE q = p
    BY <2>1, <2>2, <1>4
  <2>3. CASE r = p
    BY <2>1, <2>3, <1>4
  <2>4. CASE q # p /\ r # p
    BY <2>4, <1>4 DEF OneWinnerPerStatus, Moved
  <2>5. QED
    BY <2>2, <2>3, <2>4
<1>7. QED
  BY <1>1, <1>3, <1>4, <1>5, <1>6 DEF Row, Moved

\* A step that commits nothing leaves the history facts alone.
LEMMA QuietStep ==
    ASSUME RankInv, OneWinnerPerStatus, UNCHANGED <<row, want, moved>>
    PROVE  RankInv' /\ OneWinnerPerStatus'
  BY DEF RankInv, OneWinnerPerStatus, Moved, Row

\* The locks, the handlers' knowledge, the history facts and the answers
\* hold together in every reachable state.
THEOREM Inductive == Spec => []IInv
<1>1. Init => IInv
  <2> SUFFICES ASSUME Init PROVE IInv
    OBVIOUS
  <2>1. TypeOK
    BY DEF Init, TypeOK, PCs, Codes, Unanswered
  <2>2. LockInv /\ HandlerInv /\ RankInv /\ OneWinnerPerStatus
          /\ AnswerMatchesEffect
    BY DEF Init, LockInv, HandlerInv, RankInv, OneWinnerPerStatus,
           AnswerMatchesEffect, Moved, Unanswered
  <2>3. QED
    BY <2>1, <2>2 DEF IInv
<1>2. IInv /\ TypeOK' /\ [Next]_vars => IInv'
  <2> SUFFICES ASSUME IInv, TypeOK', [Next]_vars PROVE IInv'
    OBVIOUS
  <2> USE NoneAssumption
  <2>0. /\ TypeOK /\ LockInv /\ HandlerInv /\ RankInv
        /\ OneWinnerPerStatus /\ AnswerMatchesEffect
    BY DEF IInv
  <2>1. ASSUME NEW c \in Complaints, Insert(c) PROVE IInv'
    <3>1. RankInv'
      <4> SUFFICES ASSUME NEW p \in Patches, moved[p] # Absent
                   PROVE  Rank(moved[p]) < Rank(row'[want[p].id])
        BY <2>1 DEF RankInv, Moved, Row, Insert
      <4>1. Rank(moved[p]) < Rank(row[want[p].id])
        BY <2>0 DEF RankInv, Moved, Row
      <4>2. row[want[p].id] # Absent
        BY <4>1, RankNat DEF Rank, Absent
      <4>3. QED
        BY <4>1, <4>2, <2>0, <2>1 DEF Insert, TypeOK
    <3>2. LockInv'
      BY <2>0, <2>1, MoveClimbs DEF LockInv, Insert, TypeOK, Moved
    <3>3. HandlerInv' /\ OneWinnerPerStatus' /\ AnswerMatchesEffect'
      BY <2>0, <2>1 DEF HandlerInv, OneWinnerPerStatus, AnswerMatchesEffect,
                        Insert, Moved
    <3>4. QED
      BY <3>1, <3>2, <3>3 DEF IInv
  <2>2. ASSUME NEW p \in Patches,
               RefuseMissing(p) \/ RefuseForbidden(p) \/ RefuseLostRace(p)
        PROVE  IInv'
    <3>0. /\ pc[p] \in {"get", "reread"}
          /\ UNCHANGED <<row, holder, want, moved>>
          /\ pc' = [pc EXCEPT ![p] = "done"]
          /\ \E code \in {"not_found", "conflict"}, s \in Statuses \cup {Absent} :
               answer' = [answer EXCEPT ![p] = [code |-> code, status |-> s]]
          /\ \A q \in Patches : q # p => obj'[q] = obj[q]
      BY <2>0, <2>2 DEF RefuseMissing, RefuseForbidden, RefuseLostRace,
                        Respond, Goto, TypeOK
    <3>1. RankInv' /\ OneWinnerPerStatus'
      BY <3>0, <2>0, QuietStep
    <3>2. LockInv'
      <4>1. \A c \in Complaints : holder[c] # p
        BY <3>0, <2>0 DEF LockInv, HandlerInv, TypeOK
      <4>2. \A q \in Patches : q # p => pc'[q] = pc[q] /\ answer'[q] = answer[q]
        BY <3>0, <2>0 DEF TypeOK
      <4>3. QED
        BY <3>0, <4>1, <4>2, <2>0 DEF LockInv, TypeOK, Moved
    <3>3. HandlerInv' /\ AnswerMatchesEffect'
      BY <3>0, <2>0 DEF HandlerInv, AnswerMatchesEffect, TypeOK, Moved
    <3>4. QED
      BY <3>1, <3>2, <3>3 DEF IInv
  <2>3. ASSUME NEW p \in Patches, Load(p) PROVE IInv'
    <3>1. RankInv' /\ OneWinnerPerStatus'
      BY <2>0, <2>3, QuietStep DEF Load
    <3>2. LockInv'
      BY <2>0, <2>3 DEF LockInv, Load, Goto, TypeOK, Moved
    <3>3. HandlerInv' /\ AnswerMatchesEffect'
      BY <2>0, <2>3 DEF HandlerInv, AnswerMatchesEffect, Load, Goto, TypeOK, Moved, Row
    <3>4. QED
      BY <3>1, <3>2, <3>3 DEF IInv
  <2>4. ASSUME NEW p \in Patches, UpdateMatches(p) PROVE IInv'
    <3>1. RankInv' /\ OneWinnerPerStatus'
      BY <2>0, <2>4, QuietStep DEF UpdateMatches
    <3>2. LockInv'
      BY <2>0, <2>4 DEF LockInv, HandlerInv, UpdateMatches, Goto, TypeOK, Moved, Row
    <3>3. HandlerInv' /\ AnswerMatchesEffect'
      BY <2>0, <2>4 DEF HandlerInv, AnswerMatchesEffect, UpdateMatches, Goto, TypeOK, Moved
    <3>4. QED
      BY <3>1, <3>2, <3>3 DEF IInv
  <2>5. ASSUME NEW p \in Patches, UpdateMisses(p) PROVE IInv'
    <3>1. RankInv' /\ OneWinnerPerStatus'
      BY <2>0, <2>5, QuietStep DEF UpdateMisses
    <3>2. LockInv'
      BY <2>0, <2>5 DEF LockInv, UpdateMisses, Goto, TypeOK, Moved
    <3>3. HandlerInv' /\ AnswerMatchesEffect'
      BY <2>0, <2>5 DEF HandlerInv, AnswerMatchesEffect, UpdateMisses, Goto, TypeOK, Moved
    <3>4. QED
      BY <3>1, <3>2, <3>3 DEF IInv
  <2>6. ASSUME NEW p \in Patches, Commit(p) \/ CommitUnacknowledged(p)
        PROVE  IInv'
    <3>0. /\ pc[p] = "commit" /\ holder[want[p].id] = p
          /\ Apply(p) /\ UNCHANGED <<want, obj, answer>>
          /\ \E label \in {"invalidate", "failing"} :
               pc' = [pc EXCEPT ![p] = label]
      BY <2>0, <2>6 DEF Commit, CommitUnacknowledged, HandlerInv, Goto
    <3>1. /\ RankInv' /\ OneWinnerPerStatus'
          /\ moved'[p] # Absent
          /\ \A q \in Patches : q # p => moved'[q] = moved[q]
          /\ \A c \in Complaints : c # want[p].id => row'[c] = row[c]
      BY <3>0, <2>0, ApplyStep DEF Moved
    <3>2. LockInv'
      BY <3>0, <3>1, <2>0 DEF LockInv, Apply, TypeOK, Moved
    <3>3. HandlerInv' /\ AnswerMatchesEffect'
      BY <3>0, <3>1, <2>0 DEF HandlerInv, AnswerMatchesEffect, Apply, TypeOK, Moved
    <3>4. QED
      BY <3>1, <3>2, <3>3 DEF IInv
  <2>7. ASSUME NEW p \in Patches, InvalidateAndAnswer(p) PROVE IInv'
    <3>1. RankInv' /\ OneWinnerPerStatus'
      BY <2>0, <2>7, QuietStep DEF InvalidateAndAnswer
    <3>2. LockInv'
      <4>1. \A c \in Complaints : holder[c] # p
        BY <2>0, <2>7 DEF LockInv, HandlerInv, InvalidateAndAnswer, TypeOK
      <4>2. \A q \in Patches : q # p => pc'[q] = pc[q] /\ answer'[q] = answer[q]
        BY <2>0, <2>7 DEF TypeOK, InvalidateAndAnswer, Respond, Goto
      <4>3. QED
        BY <4>1, <4>2, <2>0, <2>7 DEF LockInv, TypeOK, Moved, InvalidateAndAnswer
    <3>3. HandlerInv' /\ AnswerMatchesEffect'
      BY <2>0, <2>7 DEF HandlerInv, AnswerMatchesEffect, InvalidateAndAnswer,
                        Respond, Goto, TypeOK, Moved
    <3>4. QED
      BY <3>1, <3>2, <3>3 DEF IInv
  <2>8. ASSUME NEW p \in Patches, Rollback(p) PROVE IInv'
    <3>1. RankInv' /\ OneWinnerPerStatus'
      BY <2>0, <2>8, QuietStep DEF Rollback
    <3>2. LockInv'
      BY <2>0, <2>8 DEF LockInv, Rollback, Respond, Goto, TypeOK, Moved
    <3>3. HandlerInv' /\ AnswerMatchesEffect'
      BY <2>0, <2>8 DEF HandlerInv, AnswerMatchesEffect, Rollback, Respond,
                        Goto, TypeOK, Moved
    <3>4. QED
      BY <3>1, <3>2, <3>3 DEF IInv
  <2>9. ASSUME NEW p \in Patches, StatementFails(p) \/ Crash(p) PROVE IInv'
    <3>0. /\ UNCHANGED <<row, holder, want, obj, answer, moved>>
          /\ pc[p] \notin {"done", "dead"}
          /\ \/ pc' = [pc EXCEPT ![p] = "failing"]
             \/ pc' = [pc EXCEPT ![p] = "dead"]
      BY <2>9 DEF StatementFails, Crash, Goto
    <3>1. RankInv' /\ OneWinnerPerStatus'
      BY <3>0, <2>0, QuietStep
    <3>2. LockInv'
      BY <3>0, <2>0 DEF LockInv, TypeOK, Moved
    <3>3. HandlerInv' /\ AnswerMatchesEffect'
      BY <3>0, <2>0 DEF HandlerInv, AnswerMatchesEffect, TypeOK, Moved
    <3>4. QED
      BY <3>1, <3>2, <3>3 DEF IInv
  <2>10. ASSUME NEW p \in Patches, SettleOrphan(p) PROVE IInv'
    <3>0. /\ pc[p] \in {"done", "dead"} /\ holder[want[p].id] = p
          /\ answer[p].code \in {"none", "error"}
          /\ UNCHANGED <<want, pc, obj, answer>>
      BY <2>0, <2>10 DEF SettleOrphan, LockInv, HandlerInv, TypeOK
    <3>1. CASE Apply(p)
      <4>1. /\ RankInv' /\ OneWinnerPerStatus'
            /\ moved'[p] # Absent
            /\ \A q \in Patches : q # p => moved'[q] = moved[q]
            /\ \A c \in Complaints : c # want[p].id => row'[c] = row[c]
        BY <3>0, <3>1, <2>0, ApplyStep DEF Moved
      <4>2. LockInv'
        BY <3>0, <3>1, <4>1, <2>0 DEF LockInv, Apply, TypeOK, Moved
      <4>3. HandlerInv' /\ AnswerMatchesEffect'
        BY <3>0, <3>1, <4>1, <2>0 DEF HandlerInv, AnswerMatchesEffect, Apply, TypeOK, Moved
      <4>4. QED
        BY <4>1, <4>2, <4>3 DEF IInv
    <3>2. CASE /\ holder' = [holder EXCEPT ![want[p].id] = NONE]
               /\ UNCHANGED <<row, moved>>
      <4>1. RankInv' /\ OneWinnerPerStatus'
        BY <3>0, <3>2, <2>0, QuietStep
      <4>2. LockInv'
        BY <3>0, <3>2, <2>0 DEF LockInv, TypeOK, Moved
      <4>3. HandlerInv' /\ AnswerMatchesEffect'
        BY <3>0, <3>2, <2>0 DEF HandlerInv, AnswerMatchesEffect, TypeOK, Moved
      <4>4. QED
        BY <4>1, <4>2, <4>3 DEF IInv
    <3>3. QED
      BY <3>1, <3>2, <2>10 DEF SettleOrphan
  <2>11. CASE UNCHANGED vars
    BY <2>0, <2>11 DEF vars, IInv, LockInv, HandlerInv, RankInv,
       OneWinnerPerStatus, AnswerMatchesEffect, Moved, Row
  <2>12. QED
    BY <2>1, <2>2, <2>3, <2>4, <2>5, <2>6, <2>7, <2>8, <2>9, <2>10, <2>11
       DEF Next, Serve
<1>3. QED
  BY <1>1, <1>2, TypeCorrect, PTL DEF Spec

-----------------------------------------------------------------------------
(* What follows from it.                                                   *)

\* Of the PATCHes that read the same status of a complaint, one moves it.
THEOREM OneWinner == Spec => []OneWinnerPerStatus
  BY Inductive, PTL DEF IInv

\* 200 is answered only to a PATCH that moved its complaint, 404 and 409 only
\* to one that did not.
THEOREM AnswersAreTrue == Spec => []AnswerMatchesEffect
  BY Inductive, PTL DEF IInv

\* The committed status of a complaint only ever follows TRANSITIONS.
THEOREM TableIsLaw == Spec => OnlyTableMoves
<1> DEFINE A == \A c \in Complaints :
                  \/ row'[c] = row[c]
                  \/ row[c] = Absent
                  \/ is_allowed(row[c], row'[c])
<1>1. IInv /\ [Next]_vars => [A]_row
  <2> SUFFICES ASSUME IInv, [Next]_vars, row' # row PROVE A
    OBVIOUS
  <2>0. TypeOK /\ LockInv /\ HandlerInv /\ RankInv /\ OneWinnerPerStatus
    BY DEF IInv
  <2>1. CASE \E c \in Complaints : Insert(c)
    BY <2>0, <2>1 DEF Insert, TypeOK
  <2>2. ASSUME NEW p \in Patches, holder[want[p].id] = p, Apply(p), want' = want
        PROVE  A
    <3>1. /\ is_allowed(row[want[p].id], want[p].new)
          /\ \A c \in Complaints : c # want[p].id => row'[c] = row[c]
      BY <2>0, <2>2, ApplyStep DEF Row
    <3>2. row'[want[p].id] = want[p].new
      BY <2>0, <2>2 DEF Apply, TypeOK
    <3>3. QED
      BY <3>1, <3>2
  <2>3. CASE \E p \in Patches : Commit(p) \/ CommitUnacknowledged(p)
    BY <2>0, <2>2, <2>3 DEF Commit, CommitUnacknowledged, HandlerInv
  <2>4. CASE \E p \in Patches : SettleOrphan(p)
    BY <2>2, <2>4 DEF SettleOrphan
  <2>5. ASSUME NEW p \in Patches,
               Serve(p) \/ StatementFails(p) \/ Crash(p), ~Commit(p)
        PROVE  FALSE
    BY <2>5 DEF Serve, RefuseMissing, RefuseForbidden, Load, UpdateMatches,
       UpdateMisses, RefuseLostRace, InvalidateAndAnswer, Rollback,
       StatementFails, Crash
  <2>6. CASE UNCHANGED vars
    BY <2>6 DEF vars
  <2>7. QED
    BY <2>1, <2>3, <2>4, <2>5, <2>6 DEF Next
<1>2. QED
  BY <1>1, Inductive, PTL DEF Spec, OnlyTableMoves

\* The handlers, sessions and row locks implement the register of
\* StatusRegister: a commit is a Move, a response an Answer, all else a stutter.
THEOREM ImplementsRegister == Spec => RegisterSpec
<1>0. /\ Register!Absent = Absent /\ Register!Statuses = Statuses
      /\ \A s, t : Register!is_allowed(s, t) <=> is_allowed(s, t)
  BY DEF Absent, Register!Absent, Statuses, Register!Statuses, is_allowed,
         Register!is_allowed, TRANSITIONS, Register!TRANSITIONS
<1>1. Init => Register!Init
  BY <1>0 DEF Init, Register!Init, Unanswered
<1>2. IInv /\ IInv' /\ [Next]_vars => [Register!Next]_(Register!vars)
  <2> SUFFICES ASSUME IInv, IInv', [Next]_vars
               PROVE  Register!Next \/ UNCHANGED Register!vars
    OBVIOUS
  <2>0. /\ TypeOK /\ LockInv /\ HandlerInv /\ RankInv
        /\ OneWinnerPerStatus /\ AnswerMatchesEffect /\ TypeOK'
    BY DEF IInv
  <2>1. ASSUME NEW c \in Complaints, Insert(c) PROVE Register!Insert(c)
    BY <1>0, <2>1 DEF Insert, Register!Insert
  <2>2. ASSUME NEW p \in Patches, holder[want[p].id] = p, Apply(p),
               answer[p].code \in {"none", "error"}, UNCHANGED <<want, answer>>
        PROVE  Register!Move(p)
    <3>1. is_allowed(row[want[p].id], want[p].new) /\ moved[p] = Absent
      BY <2>0, <2>2, ApplyStep, NoneAssumption DEF Row, LockInv, TypeOK, Moved
    <3>2. QED
      BY <1>0, <2>2, <3>1 DEF Register!Move, Apply, Row
  <2>3. ASSUME NEW p \in Patches, NEW code \in {"ok", "conflict", "not_found", "error"},
               NEW s, Respond(p, code, s), answer[p].code = "none",
               code = "ok" => Moved(p),
               code \in {"conflict", "not_found"} => ~Moved(p),
               UNCHANGED <<row, want, moved>>
        PROVE  Register!Answer(p, code)
    <3>1. [q \in Patches |-> answer'[q].code]
            = [[q \in Patches |-> answer[q].code] EXCEPT ![p] = code]
      BY <2>0, <2>3 DEF Respond, TypeOK
    <3>2. QED
      BY <1>0, <2>3, <3>1 DEF Register!Answer, Moved
  <2>4. ASSUME NEW p \in Patches, pc[p] # "done"
        PROVE  answer[p].code = "none"
    BY <2>0, <2>4 DEF HandlerInv
  <2>5. CASE \E c \in Complaints : Insert(c)
    BY <2>1, <2>5 DEF Register!Next
  <2>6. ASSUME NEW p \in Patches, RefuseMissing(p) \/ RefuseForbidden(p)
                 \/ RefuseLostRace(p) \/ InvalidateAndAnswer(p) \/ Rollback(p)
        PROVE  Register!Next
    <3>1. /\ answer[p].code = "none"
          /\ \E code \in {"ok", "conflict", "not_found", "error"}, s \in Statuses \cup {Absent} :
               /\ Respond(p, code, s)
               /\ code = "ok" => Moved(p)
               /\ code \in {"conflict", "not_found"} => ~Moved(p)
          /\ UNCHANGED <<row, want, moved>>
      BY <2>0, <2>4, <2>6 DEF RefuseMissing, RefuseForbidden, RefuseLostRace,
         InvalidateAndAnswer, Rollback, HandlerInv, TypeOK, Row
    <3>2. QED
      BY <2>3, <3>1 DEF Register!Next
  <2>7. ASSUME NEW p \in Patches,
               Commit(p) \/ CommitUnacknowledged(p) \/ (SettleOrphan(p) /\ Apply(p))
        PROVE  Register!Next
    <3>1. /\ holder[want[p].id] = p /\ Apply(p)
          /\ answer[p].code \in {"none", "error"}
          /\ UNCHANGED <<want, answer>>
      BY <2>0, <2>4, <2>7, NoneAssumption
         DEF Commit, CommitUnacknowledged, SettleOrphan, HandlerInv, LockInv, TypeOK
    <3>2. QED
      BY <2>2, <3>1 DEF Register!Next
  <2>8. ASSUME NEW p \in Patches, Load(p) \/ UpdateMatches(p) \/ UpdateMisses(p)
                 \/ StatementFails(p) \/ Crash(p) \/ (SettleOrphan(p) /\ ~Apply(p))
        PROVE  UNCHANGED Register!vars
    BY <2>8 DEF Load, UpdateMatches, UpdateMisses, StatementFails, Crash,
       SettleOrphan, Register!vars
  <2>9. CASE UNCHANGED vars
    BY <2>9 DEF vars, Register!vars
  <2>10. QED
    BY <2>5, <2>6, <2>7, <2>8, <2>9 DEF Next, Serve
<1>3. QED
  BY <1>1, <1>2, Inductive, PTL DEF Spec, RegisterSpec, Register!Spec
=============================================================================
