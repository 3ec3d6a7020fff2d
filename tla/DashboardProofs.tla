-------------------------- MODULE DashboardProofs ---------------------------
(***************************************************************************)
(* Safety of the dashboard, for every set of complaints and of queries and *)
(* any number of loads.                                                    *)
(***************************************************************************)
EXTENDS Dashboard, TLAPS

\* The latest load, if it is not answered yet, is for the query in the URL.
LoadInv ==
    \A l \in loads : l.mine <= seq /\ (l.mine = seq => l.key = key)

\* A 409 that is on its way tells the truth, but for a lost race.
AnswerInv ==
    (pending # NoPatch /\ Locks(pending.answer) /\ pending.id \notin misled) =>
        row[pending.id] \in TERMINAL

IInv == TypeOK /\ LoadInv /\ AnswerInv /\ ShownIsAsked /\ LockedMeansTerminal

\* Every variable keeps its type in every step.
LEMMA TypeStep ==
    ASSUME TypeOK, [Next]_vars
    PROVE  TypeOK'
<1> USE DashboardAssumption DEF TypeOK, Browser
<1>1. ASSUME load, UNCHANGED timer \/ timer' = FALSE PROVE TypeOK'
  <2>1. [mine |-> seq + 1, key |-> key, data |-> NoRows, overtaken |-> {}] \in Loads
    BY <1>1 DEF load, Loads
  <2>2. loads' \subseteq Loads
    BY <1>1, <2>1 DEF load
  <2>4. seq' \in 0 .. MaxSeq
    BY <1>1 DEF load
  <2>3. /\ loading' \in BOOLEAN /\ loadError' \in BOOLEAN /\ timer' \in BOOLEAN
        /\ UNCHANGED <<row, key, page, pending, terminal, misled>>
    BY <1>1 DEF load
  <2> QED BY <2>2, <2>3, <2>4
<1>2. CASE ChangeQuery
  <2>1. seq' \in 0 .. MaxSeq
    BY <1>2 DEF ChangeQuery, Spare
  <2> QED BY <1>2, <2>1 DEF ChangeQuery
<1>3. ASSUME NEW l \in loads, ReadRows(l) PROVE TypeOK'
  <2>1. [l EXCEPT !.data = row] \in Loads
    BY DEF Loads
  <2> QED BY <1>3, <2>1 DEF ReadRows
<1>4. ASSUME NEW l \in loads, ListArrives(l) PROVE TypeOK'
  <2>1. Listed \in Patches \cup {NoPatch}
    <3>1. CASE pending \in Patches
      BY <3>1 DEF Listed, Patches
    <3>2. CASE pending = NoPatch
      BY <3>2 DEF Listed
    <3> QED BY <3>1, <3>2
  <2>2. [key |-> l.key, items |-> l.data] \in [key : Queries, items : Rows]
    BY <1>4 DEF ListArrives, Loads
  <2> QED BY <1>4, <2>1, <2>2 DEF ListArrives
<1>5. ASSUME NEW l \in loads, ListFails(l) PROVE TypeOK'
  BY <1>5 DEF ListFails
<1>6. ASSUME NEW c \in Complaints, NEW to \in Statuses, transition(c, to)
      PROVE  TypeOK'
  <2>1. pending' \in Patches
    <3>1. page.items \in Rows
      BY <1>6 DEF transition
    <3> QED BY <1>6, <3>1 DEF transition, Patches, Unanswered, Rows
  <2> QED BY <1>6, <2>1 DEF transition
<1>7. ASSUME NEW code, NEW from, [code |-> code, from |-> from] \in Answers,
             Waiting, Answer(code, from)
      PROVE  pending' \in Patches \cup {NoPatch}
  BY <1>7 DEF Waiting, Answer, Patches
<1>8. pending # NoPatch =>
          pending.id \in Complaints /\ pending.to \in Statuses
  BY DEF Patches
<1>9. CASE MoveAnswered
  BY <1>9, <1>7, <1>8 DEF MoveAnswered, Waiting, Rows, Answers
<1>10. CASE MoveRefused
  BY <1>10, <1>7, <1>8 DEF MoveRefused, Waiting, Rows, Answers
<1>11. CASE MoveLosesRace
  BY <1>11, <1>7, <1>8 DEF MoveLosesRace, Waiting, Rows, Answers
<1>12. CASE MoveFails
  BY <1>12, <1>7, <1>8 DEF MoveFails, Waiting, Rows, Answers
<1>13. CASE AnswerArrives
  <2>1. page' \in [key : Queries, items : Rows] \cup {NoPage}
    <3>1. ASSUME NEW c \in Complaints, NEW s \in Statuses
          PROVE  Shows(c, s) \in [key : Queries, items : Rows] \cup {NoPage}
      <4>1. CASE page = NoPage
        BY <4>1 DEF Shows
      <4>2. CASE page # NoPage
        <5>1. page.items \in Rows /\ page.key \in Queries
          BY <4>2
        <5>2. [page.items EXCEPT ![c] = s] \in Rows
          BY <5>1 DEF Rows
        <5> QED BY <4>2, <5>1, <5>2 DEF Shows
      <4> QED BY <4>1, <4>2
    <3>2. pending.answer.code = 409 => pending.answer.from \in Statuses
      BY <1>13 DEF AnswerArrives, Patches, Answers, Unanswered
    <3> QED BY <1>13, <1>8, <3>1, <3>2 DEF AnswerArrives, Settled
  <2>2. loads' \subseteq Loads
    BY <1>13, <1>8 DEF AnswerArrives, Loads
  <2> QED BY <1>13, <1>8, <2>1, <2>2 DEF AnswerArrives
<1>14. ASSUME NEW c \in Complaints, OtherMoves(c) PROVE TypeOK'
  BY <1>14 DEF OtherMoves, Rows
<1>15. CASE UNCHANGED vars
  BY <1>15 DEF vars
<1> QED
  BY <1>1, <1>2, <1>3, <1>4, <1>5, <1>6, <1>9, <1>10, <1>11, <1>12, <1>13,
     <1>14, <1>15
  DEF Next, FireTimer, Retry

\* A complaint in a status no move leaves stays in it.
LEMMA TerminalStays ==
    \A s \in TERMINAL, t \in Statuses : ~is_allowed(s, t)
BY DEF TERMINAL, is_allowed

\* Loads and queries keep what is known of the list: the sequence number
\* of a load is older than every change of the query after it.
LEMMA ListStep ==
    ASSUME IInv, [Next]_vars
    PROVE  LoadInv' /\ ShownIsAsked'
<1> USE DEF IInv, LoadInv, ShownIsAsked
<1>0. seq \in Nat /\ \A l \in loads : l.mine \in Nat
  BY DashboardAssumption DEF TypeOK, Loads
<1>1. CASE load /\ (UNCHANGED timer \/ timer' = FALSE)
  BY <1>0, <1>1 DEF load
<1>2. CASE ChangeQuery
  BY <1>0, <1>2 DEF ChangeQuery
<1>3. ASSUME NEW l \in loads, ReadRows(l) PROVE LoadInv' /\ ShownIsAsked'
  <2>1. /\ [l EXCEPT !.data = row].mine = l.mine
        /\ [l EXCEPT !.data = row].key = l.key
    BY DEF TypeOK, Loads
  <2> QED BY <1>3, <2>1 DEF ReadRows
<1>4. ASSUME NEW l \in loads, ListArrives(l) PROVE LoadInv' /\ ShownIsAsked'
  <2>1. Latest(l) => page' # NoPage /\ page'.key = key
    BY <1>4, DashboardAssumption DEF ListArrives, Latest, NoPage, TypeOK
  <2> QED BY <1>4, <2>1 DEF ListArrives
<1>5. ASSUME NEW l \in loads, ListFails(l) PROVE LoadInv' /\ ShownIsAsked'
  BY <1>5 DEF ListFails
<1>6. CASE AnswerArrives
  <2>1. \A k \in loads' : \E l \in loads : k.mine = l.mine /\ k.key = l.key
    BY <1>6 DEF AnswerArrives, TypeOK, Loads
  <2>2. page # NoPage => page' # NoPage /\ page'.key = page.key
    <3>1. ASSUME NEW c, NEW s, page # NoPage
          PROVE  Shows(c, s).key = page.key /\ Shows(c, s) # NoPage
      BY <3>1, DashboardAssumption DEF Shows, TypeOK, NoPage
    <3> QED BY <1>6, <3>1 DEF AnswerArrives, Settled
  <2>3. UNCHANGED <<key, timer, seq, loading, loadError>>
    BY <1>6 DEF AnswerArrives
  <2> QED BY <2>1, <2>2, <2>3
<1>7. ASSUME UNCHANGED Browser PROVE LoadInv' /\ ShownIsAsked'
  BY <1>7 DEF Browser
<1>8. ASSUME NEW c \in Complaints, NEW to \in Statuses, transition(c, to)
      PROVE  UNCHANGED Browser
  BY <1>8 DEF transition, Browser
<1>9. CASE MoveAnswered \/ MoveRefused \/ MoveLosesRace \/ MoveFails
  BY <1>9, <1>7 DEF MoveAnswered, MoveRefused, MoveLosesRace, MoveFails
<1>10. ASSUME NEW c \in Complaints, OtherMoves(c) PROVE UNCHANGED Browser
  BY <1>10 DEF OtherMoves
<1>11. CASE UNCHANGED vars
  BY <1>11 DEF vars
<1> QED
  BY <1>1, <1>2, <1>3, <1>4, <1>5, <1>6, <1>7, <1>8, <1>9, <1>10, <1>11
  DEF Next, FireTimer, Retry

\* An answer changes nothing else of its PATCH.
LEMMA AnswerKept ==
    ASSUME TypeOK, pending # NoPatch, NEW code, NEW from, Answer(code, from)
    PROVE  /\ pending'.id = pending.id
           /\ pending'.answer.code = code /\ pending'.answer.from = from
<1> DEFINE a == [code |-> code, from |-> from]
<1>1. pending \in Patches
  BY DEF TypeOK
<1>2. pending' = [pending EXCEPT !.answer = a]
  BY DEF Answer
<1>3. a.code = code /\ a.from = from
  OBVIOUS
<1> HIDE DEF a
<1>4. pending'.id = pending.id /\ pending'.answer = a
  BY <1>1, <1>2 DEF Patches
<1> QED BY <1>3, <1>4

\* What a truthful 409 said stays true: nothing moves a terminal complaint.
LEMMA LockStep ==
    ASSUME IInv, [Next]_vars
    PROVE  AnswerInv' /\ LockedMeansTerminal'
<1> USE DEF IInv, AnswerInv, LockedMeansTerminal, Locks
<1>0. /\ \A c \in Complaints : row[c] \in Statuses
      /\ pending # NoPatch =>
             pending.id \in Complaints /\ pending.to \in Statuses
      /\ terminal \subseteq Complaints
  BY DEF TypeOK, Rows, Patches
<1>1. ASSUME UNCHANGED <<row, terminal, misled, pending>>
      PROVE  AnswerInv' /\ LockedMeansTerminal'
  BY <1>1
<1>2. CASE load \/ ChangeQuery \/ \E l \in loads : ReadRows(l) \/ ListFails(l)
  BY <1>1, <1>2 DEF load, ChangeQuery, ReadRows, ListFails
<1>3. ASSUME NEW l \in loads, ListArrives(l)
      PROVE  AnswerInv' /\ LockedMeansTerminal'
  <2>1. /\ pending' = NoPatch <=> pending = NoPatch
        /\ pending # NoPatch =>
              pending'.id = pending.id /\ pending'.answer = pending.answer
    <3>1. CASE pending \in Patches
      <4>1. [pending EXCEPT !.listed = TRUE] \in Patches
        BY <3>1 DEF Patches
      <4>2. \A q \in Patches : q # NoPatch
        BY DEF Patches, NoPatch
      <4> QED BY <1>3, <3>1, <4>1, <4>2 DEF ListArrives, Listed, Patches
    <3>2. CASE pending = NoPatch
      BY <1>3, <3>2 DEF ListArrives, Listed
    <3> QED BY <3>1, <3>2 DEF TypeOK
  <2> QED BY <1>3, <2>1 DEF ListArrives
<1>4. ASSUME NEW c \in Complaints, NEW to \in Statuses, transition(c, to)
      PROVE  AnswerInv' /\ LockedMeansTerminal'
  BY <1>4 DEF transition, Unanswered
<1>5. ASSUME NEW c \in Complaints, NEW s \in Statuses, is_allowed(row[c], s),
             row' = [row EXCEPT ![c] = s]
      PROVE  \A d \in Complaints : row[d] \in TERMINAL => row'[d] = row[d]
  BY <1>5, TerminalStays DEF TypeOK, Rows
<1>6. ASSUME NEW code, NEW from, pending # NoPatch, Answer(code, from)
      PROVE  /\ pending'.id = pending.id
             /\ pending'.answer.code = code /\ pending'.answer.from = from
  BY <1>6, AnswerKept
<1>7. CASE MoveAnswered
  <2>1. pending'.answer.code = 200
    BY <1>6, <1>7 DEF MoveAnswered, Waiting
  <2>2. \A d \in Complaints : row[d] \in TERMINAL => row'[d] = row[d]
    BY <1>0, <1>5, <1>7 DEF MoveAnswered, Waiting
  <2>3. terminal' = terminal /\ misled' = misled
    BY <1>7 DEF MoveAnswered, Browser
  <2> QED BY <1>0, <2>1, <2>2, <2>3
<1>8. CASE MoveRefused
  <2>1. pending'.id = pending.id /\ pending'.answer.from = row[pending.id]
    BY <1>6, <1>8 DEF MoveRefused, Waiting
  <2> QED BY <1>0, <1>8, <2>1 DEF MoveRefused, Waiting, Browser
<1>9. CASE MoveLosesRace
  <2>1. pending'.id = pending.id
    BY <1>6, <1>9 DEF MoveLosesRace, Waiting
  <2>2. PICK s \in Statuses : /\ is_allowed(row[pending.id], s)
                              /\ row' = [row EXCEPT ![pending.id] = s]
    BY <1>9 DEF MoveLosesRace
  <2>3. /\ terminal' = terminal /\ pending # NoPatch
        /\ misled' = misled \cup {pending.id}
    BY <1>9 DEF MoveLosesRace, Waiting, Browser
  <2> QED BY <1>0, <1>5, <2>1, <2>2, <2>3
<1>10. CASE MoveFails
  <2>1. pending'.answer.code = 500
    BY <1>6, <1>10 DEF MoveFails, Waiting
  <2> QED BY <1>0, <1>5, <1>10, <2>1 DEF MoveFails, Waiting, Browser
<1>11. CASE AnswerArrives
  BY <1>0, <1>11 DEF AnswerArrives
<1>12. ASSUME NEW c \in Complaints, OtherMoves(c)
       PROVE  AnswerInv' /\ LockedMeansTerminal'
  <2>1. \A d \in Complaints : row[d] \in TERMINAL => row'[d] = row[d]
    BY <1>5, <1>12 DEF OtherMoves
  <2> QED BY <1>0, <1>12, <2>1 DEF OtherMoves, Browser
<1>13. CASE UNCHANGED vars
  BY <1>1, <1>13 DEF vars
<1> QED
  BY <1>2, <1>3, <1>4, <1>7, <1>8, <1>9, <1>10, <1>11, <1>12, <1>13
  DEF Next, FireTimer, Retry

\* The dashboard keeps its invariant: what it knows of loads and answers.
THEOREM Inductive == Spec => []IInv
<1>1. ASSUME Init PROVE IInv
  <2>1. seq \in 0 .. MaxSeq /\ loads \subseteq Loads
    BY <1>1, DashboardAssumption DEF Init
  <2>2. TypeOK
    BY <1>1, <2>1 DEF Init, TypeOK
  <2> QED
    BY <1>1, <2>2
    DEF Init, IInv, LoadInv, AnswerInv, ShownIsAsked, LockedMeansTerminal
<1>2. IInv /\ [Next]_vars => IInv'
  BY TypeStep, ListStep, LockStep DEF IInv
<1> QED BY <1>1, <1>2, PTL DEF Spec

\* The variables of the dashboard keep their types.
THEOREM TypeCorrect == Spec => []TypeOK
<1>1. IInv => TypeOK
  BY DEF IInv
<1> QED BY <1>1, Inductive, PTL

\* Whatever is late: a list that is neither loading nor failed is the answer
\* to the query in the URL.
THEOREM Shown == Spec => []ShownIsAsked
<1>1. IInv => ShownIsAsked
  BY DEF IInv
<1> QED BY <1>1, Inductive, PTL

\* A complaint whose buttons are locked, and about which no lost race misled
\* the browser, is terminal and stays so.
THEOREM Locked == Spec => []LockedMeansTerminal
<1>1. IInv => LockedMeansTerminal
  BY DEF IInv
<1> QED BY <1>1, Inductive, PTL

-----------------------------------------------------------------------------
(* Going back.                                                             *)

Upto(s, t) == s = t \/ Before(s, t)

\* A load is known by its number.
NumberInv == \A k, l \in loads : k.mine = l.mine => k = l

\* What is shown, and what a list brings, was true of the server once; and
\* what the latest list brings, after what is shown, but for the complaints a
\* PATCH has overtaken it with.
OrderInv ==
    \A c \in Complaints \ misled :
        /\ page # NoPage => Upto(page.items[c], row[c])
        /\ \A l \in loads : l.data # NoRows =>
              /\ Upto(l.data[c], row[c])
              /\ (l.mine = seq /\ c \notin l.overtaken /\ page # NoPage) =>
                     Upto(page.items[c], l.data[c])

\* A PATCH that no list has come in on was sent from what is shown, and its
\* answer names a status that came after.
MoveInv ==
    (pending # NoPatch /\ pending.id \notin misled) =>
        /\ page # NoPage
        /\ Upto(pending.was, row[pending.id])
        /\ ~pending.listed => page.items[pending.id] = pending.was
        /\ pending.answer.code \in {200, 409} =>
              /\ Upto(pending.was, pending.answer.from)
              /\ Upto(pending.answer.from, row[pending.id])
        /\ pending.answer.code = 200 => pending.answer.from = pending.to

BackInv == NumberInv /\ OrderInv /\ MoveInv

\* The table has no cycle: what came after does not come before.
LEMMA Forward ==
    \A s, t, u \in Statuses :
        /\ Upto(s, s)
        /\ is_allowed(s, t) => Upto(s, t)
        /\ (Upto(s, t) /\ Upto(t, u)) => Upto(s, u)
        /\ Upto(s, t) => ~Before(t, s)
BY DEF Upto, Before, is_allowed, TRANSITIONS, Statuses

\* A step takes a complaint forward, if anywhere.
LEMMA RowClimbs ==
    ASSUME TypeOK, [Next]_vars, NEW c \in Complaints
    PROVE  Upto(row[c], row'[c])
<1> USE Forward DEF TypeOK, Rows
<1>1. ASSUME NEW d \in Complaints, NEW s \in Statuses, is_allowed(row[d], s),
             row' = [row EXCEPT ![d] = s]
      PROVE  Upto(row[c], row'[c])
  <2>1. CASE c = d
    BY <1>1, <2>1
  <2>2. CASE c # d
    BY <1>1, <2>2
  <2> QED BY <2>1, <2>2
<1>2. pending # NoPatch => pending.id \in Complaints /\ pending.to \in Statuses
  BY DEF Patches
<1>3. ASSUME UNCHANGED row PROVE Upto(row[c], row'[c])
  BY <1>3
<1>4. CASE MoveAnswered
  BY <1>1, <1>2, <1>4 DEF MoveAnswered, Waiting
<1>5. CASE MoveLosesRace
  BY <1>1, <1>2, <1>5 DEF MoveLosesRace, Waiting
<1>6. CASE MoveFails
  BY <1>1, <1>2, <1>3, <1>6 DEF MoveFails, Waiting
<1>7. CASE \E d \in Complaints : OtherMoves(d)
  BY <1>1, <1>7 DEF OtherMoves
<1>8. CASE FireTimer \/ Retry \/ ChangeQuery
           \/ (\E l \in loads : ReadRows(l) \/ ListArrives(l) \/ ListFails(l))
           \/ (\E d \in Complaints, to \in Statuses : transition(d, to))
           \/ MoveRefused \/ AnswerArrives \/ UNCHANGED vars
  <2>1. UNCHANGED row
    BY <1>8 DEF FireTimer, Retry, load, ChangeQuery, ReadRows, ListArrives,
                ListFails, transition, MoveRefused, AnswerArrives, vars
  <2> QED BY <1>3, <2>1
<1> QED BY <1>4, <1>5, <1>6, <1>7, <1>8 DEF Next

\* A load keeps its number, and no two have the same.
LEMMA NumberStep ==
    ASSUME TypeOK, LoadInv, NumberInv, [Next]_vars
    PROVE  NumberInv'
<1> USE DEF NumberInv
<1>0. seq \in Nat /\ \A l \in loads : l.mine \in Nat /\ l.mine <= seq
  BY DashboardAssumption DEF TypeOK, Loads, LoadInv
<1>1. CASE load
  BY <1>0, <1>1 DEF load
<1>2. ASSUME NEW l \in loads, ReadRows(l) PROVE NumberInv'
  <2>1. [l EXCEPT !.data = row].mine = l.mine
    BY DEF TypeOK, Loads
  <2> QED BY <1>2, <2>1 DEF ReadRows
<1>3. ASSUME NEW l \in loads, ListArrives(l) \/ ListFails(l) PROVE NumberInv'
  BY <1>3 DEF ListArrives, ListFails
<1>4. CASE AnswerArrives
  <2> DEFINE now(l) == IF pending.answer.code \in {200, 409}
                       THEN [l EXCEPT !.overtaken = @ \cup {pending.id}] ELSE l
  <2>1. \A l \in loads : now(l).mine = l.mine
    BY DEF TypeOK, Loads
  <2>2. loads' = {now(l) : l \in loads}
    BY <1>4 DEF AnswerArrives
  <2> HIDE DEF now
  <2> QED BY <2>1, <2>2
<1>5. CASE UNCHANGED loads
  BY <1>5
<1>6. CASE \/ ChangeQuery \/ MoveAnswered \/ MoveRefused \/ MoveLosesRace
           \/ MoveFails \/ UNCHANGED vars
           \/ \E c \in Complaints : OtherMoves(c)
           \/ \E c \in Complaints, to \in Statuses : transition(c, to)
  <2>1. UNCHANGED loads
    BY <1>6 DEF ChangeQuery, MoveAnswered, MoveRefused, MoveLosesRace,
                MoveFails, OtherMoves, transition, Browser, vars
  <2> QED BY <1>5, <2>1
<1> QED BY <1>1, <1>2, <1>3, <1>4, <1>6 DEF Next, FireTimer, Retry

\* What an answer does to the loads that are under way.
LEMMA AnsweredLoads ==
    ASSUME TypeOK, AnswerArrives, NEW k \in loads'
    PROVE  \E l \in loads :
              /\ k.mine = l.mine /\ k.data = l.data
              /\ l.overtaken \subseteq k.overtaken
              /\ pending.answer.code \in {200, 409} => pending.id \in k.overtaken
<1>1. CASE pending.answer.code \in {200, 409}
  <2>1. PICK l \in loads : k = [l EXCEPT !.overtaken = @ \cup {pending.id}]
    BY <1>1 DEF AnswerArrives
  <2> QED BY <2>1 DEF TypeOK, Loads
<1>2. CASE pending.answer.code \notin {200, 409}
  BY <1>2 DEF AnswerArrives
<1> QED BY <1>1, <1>2

\* What an answer shows of a complaint.
LEMMA AnsweredPage ==
    ASSUME TypeOK, AnswerArrives, page # NoPage, NEW c \in Complaints
    PROVE  /\ page' # NoPage
           /\ page'.items[c] =
                 IF /\ c = pending.id
                    /\ \/ pending.answer.code = 200
                       \/ /\ pending.answer.code = 409
                          /\ pending.answer.from # pending.was
                 THEN IF pending.answer.code = 200
                      THEN pending.to ELSE pending.answer.from
                 ELSE page.items[c]
<1>1. page.items \in Rows /\ page.key \in Queries
  BY DEF TypeOK
<1>2. ASSUME NEW d, NEW s, d \in Complaints
      PROVE  /\ Shows(d, s) # NoPage
             /\ Shows(d, s).items[c] = IF c = d THEN s ELSE page.items[c]
  <2>1. Shows(d, s).items = [page.items EXCEPT ![d] = s]
    BY <1>1, <1>2 DEF Shows, TypeOK
  <2>2. Shows(d, s).key = page.key
    BY <1>1, <1>2 DEF Shows, TypeOK
  <2>3. page.key # "none"
    BY <1>1, DashboardAssumption
  <2> QED BY <1>1, <1>2, <2>1, <2>2, <2>3 DEF Rows, NoPage
<1>3. pending.id \in Complaints
  BY DEF TypeOK, Patches, AnswerArrives
<1>4. page' = Settled(pending.answer)
  BY DEF AnswerArrives
<1> QED BY <1>2, <1>3, <1>4 DEF Settled

\* What has to be known of an answer when it arrives.
LEMMA AnswerKnown ==
    ASSUME TypeOK, MoveInv, AnswerArrives, pending.id \notin misled
    PROVE  /\ page # NoPage /\ pending.id \in Complaints
           /\ {pending.was, pending.to} \subseteq Statuses
           /\ pending.answer.code \in {200, 409} =>
                 /\ pending.answer.from \in Statuses
                 /\ Upto(pending.was, pending.answer.from)
                 /\ Upto(pending.answer.from, row[pending.id])
           /\ pending.answer.code = 200 => pending.answer.from = pending.to
           /\ ~pending.listed => page.items[pending.id] = pending.was
<1>1. pending # NoPatch /\ pending \in Patches /\ pending.answer \in Answers
  BY DEF AnswerArrives, Waiting, TypeOK, Patches
<1>2. pending.answer.code \in {200, 409} => pending.answer.from \in Statuses
  BY <1>1 DEF Answers
<1>3. /\ pending.id \in Complaints
      /\ {pending.was, pending.to} \subseteq Statuses
  BY <1>1 DEF Patches
<1> QED BY <1>1, <1>2, <1>3 DEF MoveInv

\* What is shown, and what a list brings, stays behind the server.
LEMMA OrderStep ==
    ASSUME IInv, BackInv, [Next]_vars, NEW c \in Complaints, c \notin misled'
    PROVE  /\ page' # NoPage => Upto(page'.items[c], row'[c])
           /\ \A l \in loads' : l.data # NoRows =>
                 /\ Upto(l.data[c], row'[c])
                 /\ (l.mine = seq' /\ c \notin l.overtaken /\ page' # NoPage) =>
                        Upto(page'.items[c], l.data[c])
<1> DEFINE Behind(p, r) == p # NoPage => Upto(p.items[c], r)
           Brings(l, p, q, r) ==
               l.data # NoRows =>
                  /\ Upto(l.data[c], r)
                  /\ (l.mine = q /\ c \notin l.overtaken /\ p # NoPage) =>
                         Upto(p.items[c], l.data[c])
           Goal == /\ Behind(page', row'[c])
                   /\ \A l \in loads' : Brings(l, page', seq', row'[c])
<1>1. c \notin misled
  BY DEF Next, FireTimer, Retry, load, ChangeQuery, ReadRows, ListArrives,
         ListFails, transition, MoveAnswered, MoveRefused, MoveLosesRace,
         MoveFails, AnswerArrives, OtherMoves, vars
<1>2. /\ Behind(page, row[c])
      /\ \A l \in loads : Brings(l, page, seq, row[c])
  BY <1>1 DEF BackInv, OrderInv
<1>3. /\ seq \in Nat /\ row[c] \in Statuses
      /\ page # NoPage => page.items[c] \in Statuses
      /\ \A l \in loads : /\ l.mine \in Nat /\ l.mine <= seq
                          /\ l.data # NoRows => l.data[c] \in Statuses
  BY DashboardAssumption DEF IInv, TypeOK, LoadInv, Loads, Rows
<1>4. Upto(row[c], row'[c]) /\ row'[c] \in Statuses
  <2>1. TypeOK'
    BY TypeStep DEF IInv
  <2> QED BY <2>1, RowClimbs DEF IInv, TypeOK, Rows
<1>5. ASSUME UNCHANGED <<loads, page, seq>> PROVE Goal
  <2>1. Behind(page, row'[c])
    BY <1>2, <1>3, <1>4, Forward
  <2>2. ASSUME NEW l \in loads PROVE Brings(l, page, seq, row'[c])
    BY <1>2, <1>3, <1>4, Forward
  <2> QED BY <1>5, <2>1, <2>2
<1>6. CASE load
  <2>1. [mine |-> seq + 1, key |-> key, data |-> NoRows, overtaken |-> {}].data
            = NoRows
    OBVIOUS
  <2> QED BY <1>2, <1>3, <1>6, <2>1 DEF load
<1>7. CASE ChangeQuery
  BY <1>2, <1>3, <1>7 DEF ChangeQuery
<1>8. ASSUME NEW l \in loads, ReadRows(l) PROVE Goal
  <2> DEFINE m == [l EXCEPT !.data = row]
  <2>1. m.data = row
    BY DEF IInv, TypeOK, Loads
  <2>2. loads' = (loads \ {l}) \cup {m} /\ UNCHANGED <<page, seq, row>>
    BY <1>8 DEF ReadRows
  <2> HIDE DEF m
  <2>3. Upto(row[c], row[c])
    BY <1>3, Forward
  <2>4. Brings(m, page, seq, row[c])
    BY <1>2, <2>1, <2>3
  <2> QED BY <1>2, <2>2, <2>4
<1>9. ASSUME NEW l \in loads, ListArrives(l) PROVE Goal
  <2>1. /\ loads' = loads \ {l} /\ l.data # NoRows
        /\ UNCHANGED <<row, seq>>
    BY <1>9 DEF ListArrives
  <2>2. CASE Latest(l)
    <3>1. page'.items = l.data
      BY <1>9, <2>2 DEF ListArrives
    <3>2. Behind(page', row[c])
      BY <1>2, <2>1, <3>1
    <3>3. ASSUME NEW k \in loads' PROVE Brings(k, page', seq, row[c])
      <4>1. k \in loads /\ k # l
        BY <2>1
      <4>2. k.mine # seq
        BY <2>2, <4>1 DEF Latest, BackInv, NumberInv
      <4> QED BY <1>2, <4>1, <4>2
    <3> QED BY <2>1, <3>2, <3>3
  <2>3. CASE ~Latest(l)
    <3>1. UNCHANGED page
      BY <1>9, <2>3 DEF ListArrives
    <3> QED BY <1>2, <2>1, <3>1
  <2> QED BY <2>2, <2>3
<1>10. ASSUME NEW l \in loads, ListFails(l) PROVE Goal
  BY <1>2, <1>10 DEF ListFails
<1>11. CASE AnswerArrives
  <2>1. UNCHANGED <<row, seq>> /\ (page = NoPage => page' = NoPage)
    BY <1>11 DEF AnswerArrives, Settled, Shows
  <2>2. CASE c = pending.id
    <3>1. page # NoPage /\ Behind(page', row[c])
      BY <1>1, <1>2, <1>11, <2>2, AnswerKnown, AnsweredPage
      DEF IInv, BackInv
    <3>2. ASSUME NEW k \in loads' PROVE Brings(k, page', seq, row[c])
      <4>1. PICK l \in loads :
                /\ k.mine = l.mine /\ k.data = l.data
                /\ l.overtaken \subseteq k.overtaken
                /\ pending.answer.code \in {200, 409} => c \in k.overtaken
        BY <1>11, <2>2, AnsweredLoads DEF IInv
      <4>2. pending.answer.code \notin {200, 409} =>
                page'.items[c] = page.items[c]
        BY <1>11, <3>1, AnsweredPage DEF IInv
      <4> QED BY <1>2, <3>1, <4>1, <4>2
    <3> QED BY <2>1, <3>1, <3>2
  <2>3. CASE c # pending.id
    <3>1. page # NoPage => page' # NoPage /\ page'.items[c] = page.items[c]
      BY <1>11, <2>3, AnsweredPage DEF IInv
    <3>2. ASSUME NEW k \in loads' PROVE Brings(k, page', seq, row[c])
      <4>1. PICK l \in loads : /\ k.mine = l.mine /\ k.data = l.data
                               /\ l.overtaken \subseteq k.overtaken
        BY <1>11, AnsweredLoads DEF IInv
      <4> QED BY <1>2, <2>1, <3>1, <4>1
    <3>3. Behind(page', row[c])
      BY <1>2, <2>1, <3>1
    <3> QED BY <2>1, <3>2, <3>3
  <2> QED BY <2>2, <2>3
<1>12. CASE \/ MoveAnswered \/ MoveRefused \/ MoveLosesRace \/ MoveFails
            \/ UNCHANGED vars \/ \E d \in Complaints : OtherMoves(d)
            \/ \E d \in Complaints, to \in Statuses : transition(d, to)
  <2>1. UNCHANGED <<loads, page, seq>>
    BY <1>12 DEF MoveAnswered, MoveRefused, MoveLosesRace, MoveFails,
                 OtherMoves, transition, Browser, vars
  <2> QED BY <1>5, <2>1
<1>13. Goal
  BY <1>6, <1>7, <1>8, <1>9, <1>10, <1>11, <1>12 DEF Next, FireTimer, Retry
<1> QED BY <1>13

\* A PATCH is sent from what is shown; its answer is of a later status.
LEMMA MoveStep ==
    ASSUME IInv, BackInv, [Next]_vars
    PROVE  MoveInv'
<1> DEFINE Sent(p, g, r) ==
        /\ g # NoPage
        /\ Upto(p.was, r)
        /\ ~p.listed => g.items[p.id] = p.was
        /\ p.answer.code \in {200, 409} =>
              Upto(p.was, p.answer.from) /\ Upto(p.answer.from, r)
        /\ p.answer.code = 200 => p.answer.from = p.to
<1>1. pending # NoPatch =>
          /\ pending \in Patches /\ pending.id \in Complaints
          /\ {pending.was, pending.to} \subseteq Statuses
          /\ row[pending.id] \in Statuses
          /\ pending.answer.code \in {200, 409} =>
                pending.answer.from \in Statuses
  BY DEF IInv, TypeOK, Patches, Answers, Unanswered, Rows
<1>2. (pending # NoPatch /\ pending.id \notin misled) =>
          Sent(pending, page, row[pending.id])
  BY DEF BackInv, MoveInv
<1>3. ASSUME NEW d \in Complaints
      PROVE  Upto(row[d], row'[d]) /\ row'[d] \in Statuses
  <2>1. TypeOK'
    BY TypeStep DEF IInv
  <2> QED BY <2>1, RowClimbs DEF IInv, TypeOK, Rows
<1>4. ASSUME UNCHANGED <<page, pending, misled>> PROVE MoveInv'
  BY <1>1, <1>2, <1>3, <1>4, Forward DEF MoveInv
<1>5. CASE \/ load \/ ChangeQuery \/ UNCHANGED vars
           \/ \E l \in loads : ReadRows(l) \/ ListFails(l)
           \/ \E d \in Complaints : OtherMoves(d)
  <2>1. UNCHANGED <<page, pending, misled>>
    BY <1>5 DEF load, ChangeQuery, ReadRows, ListFails, OtherMoves, Browser,
                vars
  <2> QED BY <1>4, <2>1
<1>6. ASSUME NEW l \in loads, ListArrives(l) PROVE MoveInv'
  <2>1. CASE Latest(l) /\ pending # NoPatch
    <3>1. /\ page' = [key |-> l.key, items |-> l.data]
          /\ pending' = [pending EXCEPT !.listed = TRUE]
          /\ UNCHANGED <<row, misled>>
      BY <1>6, <2>1 DEF ListArrives, Listed
    <3>2. page' # NoPage
      BY <3>1, DashboardAssumption DEF IInv, TypeOK, Loads, NoPage
    <3>3. /\ pending'.id = pending.id /\ pending'.was = pending.was
          /\ pending'.to = pending.to /\ pending'.answer = pending.answer
          /\ pending'.listed
      BY <1>1, <2>1, <3>1 DEF Patches
    <3> QED BY <1>2, <2>1, <3>1, <3>2, <3>3 DEF MoveInv
  <2>2. CASE Latest(l) /\ pending = NoPatch
    BY <1>6, <2>2 DEF ListArrives, Listed, MoveInv
  <2>3. CASE ~Latest(l)
    BY <1>4, <1>6, <2>3 DEF ListArrives
  <2> QED BY <2>1, <2>2, <2>3
<1>7. ASSUME NEW c \in Complaints, NEW to \in Statuses, transition(c, to)
      PROVE  MoveInv'
  <2>1. /\ pending' = [id |-> c, was |-> page.items[c], to |-> to,
                       listed |-> FALSE, answer |-> Unanswered]
        /\ page # NoPage /\ UNCHANGED <<page, row, misled>>
    BY <1>7 DEF transition
  <2>2. c \notin misled => Upto(page.items[c], row[c])
    BY <2>1 DEF BackInv, OrderInv
  <2> QED BY <2>1, <2>2 DEF MoveInv, Unanswered
<1>8. ASSUME NEW code, NEW from, pending # NoPatch, Answer(code, from)
      PROVE  /\ pending'.id = pending.id /\ pending'.was = pending.was
             /\ pending'.to = pending.to /\ pending'.listed = pending.listed
             /\ pending'.answer.code = code /\ pending'.answer.from = from
  <2>1. /\ pending'.answer.code = code /\ pending'.answer.from = from
        /\ pending'.id = pending.id
    BY <1>8, AnswerKept DEF IInv
  <2> QED BY <1>1, <1>8, <2>1 DEF Answer, Patches
<1>9. CASE MoveAnswered
  <2>1. /\ pending # NoPatch /\ is_allowed(row[pending.id], pending.to)
        /\ Answer(200, pending.to) /\ row'[pending.id] = pending.to
        /\ UNCHANGED <<page, misled>>
    BY <1>1, <1>9 DEF MoveAnswered, Waiting, Browser, IInv, TypeOK, Rows
  <2>2. pending.id \notin misled =>
            Upto(pending.was, pending.to) /\ Upto(pending.to, pending.to)
    BY <1>1, <1>2, <2>1, Forward
  <2> QED BY <1>2, <1>8, <2>1, <2>2 DEF MoveInv
<1>10. CASE MoveRefused
  <2>1. /\ pending # NoPatch /\ Answer(409, row[pending.id])
        /\ UNCHANGED <<page, row, misled>>
    BY <1>10 DEF MoveRefused, Waiting, Browser
  <2>2. Upto(row[pending.id], row[pending.id])
    BY <1>1, <2>1, Forward
  <2> QED BY <1>2, <1>8, <2>1, <2>2 DEF MoveInv
<1>11. CASE MoveLosesRace
  BY <1>8, <1>11 DEF MoveLosesRace, Waiting, MoveInv
<1>12. CASE MoveFails
  <2>1. /\ pending # NoPatch /\ Answer(500, "none")
        /\ UNCHANGED <<page, misled>>
    BY <1>12 DEF MoveFails, Waiting, Browser
  <2>2. pending.id \notin misled => Upto(pending.was, row'[pending.id])
    BY <1>1, <1>2, <1>3, <2>1, Forward
  <2> QED BY <1>2, <1>8, <2>1, <2>2 DEF MoveInv
<1>13. CASE AnswerArrives
  BY <1>13 DEF AnswerArrives, MoveInv
<1> QED
  BY <1>5, <1>6, <1>7, <1>9, <1>10, <1>11, <1>12, <1>13
  DEF Next, FireTimer, Retry

\* The dashboard keeps the order of what it shows, sends and hears.
THEOREM Ordered == Spec => []BackInv
<1>1. ASSUME Init PROVE BackInv
  <2>1. loads = {} /\ page = NoPage /\ pending = NoPatch
    BY <1>1 DEF Init
  <2> QED BY <2>1 DEF BackInv, NumberInv, OrderInv, MoveInv
<1>2. ASSUME IInv, BackInv, [Next]_vars PROVE BackInv'
  <2>1. NumberInv'
    BY <1>2, NumberStep DEF IInv, BackInv
  <2>2. OrderInv'
    BY <1>2, OrderStep DEF OrderInv
  <2>3. MoveInv'
    BY <1>2, MoveStep
  <2> QED BY <2>1, <2>2, <2>3 DEF BackInv
<1> QED BY <1>1, <1>2, Inductive, PTL DEF Spec

\* The list shows an older status than before only where a list and a PATCH
\* overlap, as no complaint goes back on the server.
THEOREM NoOtherWayBack == Spec => BackOnlyByOverlap
<1> DEFINE Back(c) == page # NoPage /\ Before(page'.items[c], page.items[c])
           Overlaps(c) ==
               \/ \E l \in loads \ loads' : c \in l.overtaken
               \/ /\ pending # NoPatch /\ pending' = NoPatch
                  /\ pending.id = c /\ pending.listed
                  /\ pending.answer.code \in {200, 409}
<1>1. ASSUME IInv, BackInv, Next, NEW c \in Complaints \ misled, Back(c)
      PROVE  Overlaps(c)
  <2>1. page # NoPage /\ page.items[c] \in Statuses
    BY <1>1 DEF IInv, TypeOK, Rows
  <2>2. page'.items[c] # page.items[c]
    BY <1>1, <2>1, Forward
  <2>3. ASSUME NEW l \in loads, ListArrives(l) PROVE Overlaps(c)
    <3>1. /\ Latest(l) /\ page'.items = l.data
          /\ l.data # NoRows /\ l \notin loads'
      BY <2>2, <2>3 DEF ListArrives
    <3>2. l.data[c] \in Statuses
      BY <1>1, <3>1 DEF IInv, TypeOK, Loads, Rows
    <3>3. CASE c \notin l.overtaken
      <4>1. Upto(page.items[c], l.data[c])
        BY <1>1, <2>1, <3>1, <3>3 DEF BackInv, OrderInv, Latest
      <4> QED BY <1>1, <2>1, <3>1, <3>2, <4>1, Forward
    <3> QED BY <3>1, <3>3
  <2>4. CASE AnswerArrives
    <3>1. pending # NoPatch /\ pending' = NoPatch
      BY <2>4 DEF AnswerArrives
    <3>2. pending.id = c /\ pending.answer.code \in {200, 409}
      BY <1>1, <2>1, <2>2, <2>4, AnsweredPage DEF IInv
    <3>3. /\ pending.answer.from \in Statuses
          /\ Upto(pending.was, pending.answer.from)
          /\ ~pending.listed => page.items[c] = pending.was
          /\ page'.items[c] = pending.answer.from
      BY <1>1, <2>1, <2>2, <2>4, <3>2, AnsweredPage, AnswerKnown
      DEF IInv, BackInv
    <3> QED BY <1>1, <2>1, <3>1, <3>2, <3>3, Forward
  <2>5. CASE \/ FireTimer \/ Retry \/ ChangeQuery
             \/ (\E l \in loads : ReadRows(l) \/ ListFails(l))
             \/ (\E d \in Complaints, to \in Statuses : transition(d, to))
             \/ MoveAnswered \/ MoveRefused \/ MoveLosesRace \/ MoveFails
             \/ (\E d \in Complaints : OtherMoves(d))
    BY <2>2, <2>5 DEF FireTimer, Retry, load, ChangeQuery, ReadRows, ListFails,
       transition, MoveAnswered, MoveRefused, MoveLosesRace, MoveFails,
       OtherMoves, Browser
  <2> QED BY <1>1, <2>3, <2>4, <2>5 DEF Next
<1>2. (IInv /\ BackInv /\ [Next]_vars) =>
          [\A c \in Complaints \ misled : Back(c) => Overlaps(c)]_vars
  BY <1>1
<1> QED BY <1>2, Inductive, Ordered, PTL DEF Spec, BackOnlyByOverlap
=============================================================================
