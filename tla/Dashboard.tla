----------------------------- MODULE Dashboard -----------------------------
(***************************************************************************)
(* One operator's dashboard in the browser: the list it loads for the      *)
(* query in its URL and the PATCHes it sends, against the complaints on    *)
(* the server, which other operators move as well.  Requests are answered  *)
(* late and in any order, or fail.                                         *)
(*                                                                         *)
(* A complaint is its status; queries (filters, sort, page) are told apart *)
(* but list the same complaints.                                           *)
(***************************************************************************)
EXTENDS StatusTable, Integers

CONSTANTS
    Complaints,
    Queries,  \* values of the URL's search parameters
    MaxSeq    \* bound of the model: loads and changes of the query

ASSUME DashboardAssumption ==
    Queries # {} /\ "none" \notin Queries /\ MaxSeq \in Nat \ {0}

VARIABLES
    row,      \* the status of each complaint on the server
    key,      \* the query in the URL
    timer,    \* the effect's timer for the load is set
    seq,      \* seq.current
    loads,    \* list requests that are not answered yet
    page,     \* what the list shows: a status for each complaint
    loading, loadError,
    pending,  \* the PATCH that is not answered yet
    terminal, \* complaints whose buttons are locked
    misled    \* complaints that a 409 told a status they may never have had

vars == <<row, key, timer, seq, loads, page, loading, loadError, pending,
          terminal, misled>>

Rows == [Complaints -> Statuses]
NoRows == <<>>
NoPage == [key |-> "none", items |-> NoRows]
NoPatch == [id |-> "none"]

\* A load remembers which PATCHes were answered after it was sent.
Loads == [mine : 1 .. MaxSeq, key : Queries, data : Rows \cup {NoRows},
          overtaken : SUBSET Complaints]

\* A PATCH remembers whether a list came after it was sent.  An answer is 200,
\* 409 with its details.from, or any other error.
Unanswered == [code |-> 0, from |-> "none"]
Answers == [code : {200, 409}, from : Statuses] \cup [code : {500}, from : {"none"}]
Patches == [id : Complaints, was : Statuses, to : Statuses, listed : BOOLEAN,
            answer : {Unanswered} \cup Answers]

Init ==
    /\ row \in Rows
    /\ key \in Queries
    /\ timer = TRUE
    /\ seq = 0
    /\ loads = {}
    /\ page = NoPage
    /\ loading = TRUE /\ loadError = FALSE
    /\ pending = NoPatch
    /\ terminal = {} /\ misled = {}

-----------------------------------------------------------------------------
(* Loading the list.                                                       *)

\* What the operator does leaves a load for the timer.
Spare == seq + 1 < MaxSeq

load ==
    /\ seq < MaxSeq
    /\ seq' = seq + 1
    /\ loads' = loads \cup {[mine |-> seq + 1, key |-> key, data |-> NoRows,
                             overtaken |-> {}]}
    /\ loading' = TRUE /\ loadError' = FALSE
    /\ UNCHANGED <<row, key, page, pending, terminal, misled>>

FireTimer == timer /\ load /\ timer' = FALSE

Retry == Spare /\ loadError /\ load /\ UNCHANGED timer

\* A new query: the effect is cleaned up and set up again.
ChangeQuery ==
    /\ Spare
    /\ \E k \in Queries \ {key} : key' = k
    /\ seq' = seq + 1
    /\ timer' = TRUE
    /\ UNCHANGED <<row, loads, page, loading, loadError, pending, terminal,
                   misled>>

ReadRows(l) ==
    /\ l.data = NoRows
    /\ loads' = (loads \ {l}) \cup {[l EXCEPT !.data = row]}
    /\ UNCHANGED <<row, key, timer, seq, page, loading, loadError, pending,
                   terminal, misled>>

Latest(l) == l.mine = seq

Listed == IF pending = NoPatch THEN NoPatch ELSE [pending EXCEPT !.listed = TRUE]

\* Mutant of ListArrives: whichever response comes is shown.
ListArrivesLate(l) ==
    /\ l.data # NoRows
    /\ loads' = loads \ {l}
    /\ page' = [key |-> l.key, items |-> l.data]
    /\ loading' = FALSE
    /\ pending' = Listed
    /\ UNCHANGED <<row, key, timer, seq, loadError, terminal, misled>>

ListArrives(l) ==
    /\ l.data # NoRows
    /\ loads' = loads \ {l}
    /\ IF Latest(l)
       THEN /\ page' = [key |-> l.key, items |-> l.data]
            /\ loading' = FALSE
            /\ pending' = Listed
       ELSE UNCHANGED <<page, loading, pending>>
    /\ UNCHANGED <<row, key, timer, seq, loadError, terminal, misled>>

\* Mutant of ListFails: loading is reset with the rows, not in finally.
ListFailsLoading(l) ==
    /\ loads' = loads \ {l}
    /\ IF Latest(l) THEN loadError' = TRUE ELSE UNCHANGED loadError
    /\ UNCHANGED <<row, key, timer, seq, page, loading, pending, terminal, misled>>

ListFails(l) ==
    /\ loads' = loads \ {l}
    /\ IF Latest(l) THEN loadError' = TRUE /\ loading' = FALSE
                    ELSE UNCHANGED <<loadError, loading>>
    /\ UNCHANGED <<row, key, timer, seq, page, pending, terminal, misled>>

-----------------------------------------------------------------------------
(* Moving a complaint.                                                     *)

transition(c, to) ==
    /\ page # NoPage /\ ~loadError
    /\ pending = NoPatch /\ c \notin terminal
    /\ to # page.items[c]
    /\ pending' = [id |-> c, was |-> page.items[c], to |-> to,
                   listed |-> FALSE, answer |-> Unanswered]
    /\ UNCHANGED <<row, key, timer, seq, loads, page, loading, loadError,
                   terminal, misled>>

Waiting == pending # NoPatch /\ pending.answer = Unanswered

Answer(code, from) ==
    pending' = [pending EXCEPT !.answer = [code |-> code, from |-> from]]

Browser == <<key, timer, seq, loads, page, loading, loadError, terminal>>

MoveAnswered ==
    /\ Waiting /\ is_allowed(row[pending.id], pending.to)
    /\ row' = [row EXCEPT ![pending.id] = pending.to]
    /\ Answer(200, pending.to)
    /\ UNCHANGED <<Browser, misled>>

MoveRefused ==
    /\ Waiting /\ ~is_allowed(row[pending.id], pending.to)
    /\ Answer(409, row[pending.id])
    /\ UNCHANGED <<row, Browser, misled>>

\* Another operator is faster between the check and the UPDATE: the 409 names
\* the status this one asked for (StatusLifecycle).
MoveLosesRace ==
    /\ Waiting /\ is_allowed(row[pending.id], pending.to)
    /\ \E s \in Statuses :
          /\ is_allowed(row[pending.id], s)
          /\ row' = [row EXCEPT ![pending.id] = s]
    /\ Answer(409, pending.to)
    /\ misled' = misled \cup {pending.id}
    /\ UNCHANGED Browser

\* No answer that says what happened: the server moved it or did not.
MoveFails ==
    /\ Waiting
    /\ \/ UNCHANGED row
       \/ /\ is_allowed(row[pending.id], pending.to)
          /\ row' = [row EXCEPT ![pending.id] = pending.to]
    /\ Answer(500, "none")
    /\ UNCHANGED <<Browser, misled>>

Shows(c, status) ==
    IF page = NoPage THEN page ELSE [page EXCEPT !.items[c] = status]

\* Mutant of Settled: a failed move puts the row back to where it was.
SettledBack(answer) ==
    CASE answer.code = 200 -> Shows(pending.id, pending.to)
      [] answer.code = 409 /\ answer.from # pending.was ->
            Shows(pending.id, answer.from)
      [] OTHER -> Shows(pending.id, pending.was)

Settled(answer) ==
    CASE answer.code = 200 -> Shows(pending.id, pending.to)
      [] answer.code = 409 /\ answer.from # pending.was ->
            Shows(pending.id, answer.from)
      [] OTHER -> page

\* Mutant of Locks: any conflict locks.
LocksOnConflict(answer) == answer.code = 409

Locks(answer) == answer.code = 409 /\ answer.from \in TERMINAL

AnswerArrives ==
    /\ pending # NoPatch /\ ~Waiting
    /\ page' = Settled(pending.answer)
    /\ terminal' = IF Locks(pending.answer) THEN terminal \cup {pending.id}
                                            ELSE terminal
    /\ loads' = IF pending.answer.code \in {200, 409}
                THEN {[l EXCEPT !.overtaken = @ \cup {pending.id}] : l \in loads}
                ELSE loads
    /\ pending' = NoPatch
    /\ UNCHANGED <<row, key, timer, seq, loading, loadError, misled>>

OtherMoves(c) ==
    /\ \E s \in Statuses : /\ is_allowed(row[c], s)
                           /\ row' = [row EXCEPT ![c] = s]
    /\ UNCHANGED <<Browser, pending, misled>>

Next ==
    \/ FireTimer \/ Retry \/ ChangeQuery
    \/ \E l \in loads : ReadRows(l) \/ ListArrives(l) \/ ListFails(l)
    \/ \E c \in Complaints, to \in Statuses : transition(c, to)
    \/ MoveAnswered \/ MoveRefused \/ MoveLosesRace \/ MoveFails
    \/ AnswerArrives
    \/ \E c \in Complaints : OtherMoves(c)

Spec == Init /\ [][Next]_vars

\* The timer fires, and nginx ends a request that the API does not answer.
LoadEnds(n) ==
    \E l \in loads : l.mine = n /\ (ReadRows(l) \/ ListArrives(l) \/ ListFails(l))

MoveEnds == MoveAnswered \/ MoveRefused \/ MoveLosesRace \/ MoveFails

Fairness ==
    /\ WF_vars(FireTimer)
    /\ \A n \in 1 .. MaxSeq : WF_vars(LoadEnds(n))
    /\ WF_vars(MoveEnds) /\ WF_vars(AnswerArrives)

FairSpec == Spec /\ Fairness

-----------------------------------------------------------------------------
(* Properties.                                                             *)

\* The variables of the dashboard keep their types.
TypeOK ==
    /\ row \in Rows /\ key \in Queries /\ timer \in BOOLEAN
    /\ seq \in 0 .. MaxSeq /\ loads \subseteq Loads
    /\ page \in [key : Queries, items : Rows] \cup {NoPage}
    /\ loading \in BOOLEAN /\ loadError \in BOOLEAN
    /\ pending \in Patches \cup {NoPatch}
    /\ terminal \subseteq Complaints /\ misled \subseteq Complaints

\* Dashboard.tsx:66, only the latest request writes: when nothing is being
\* loaded and no error shows, the list is the answer to the query in the URL.
ShownIsAsked ==
    (~timer /\ ~loading /\ ~loadError) => page # NoPage /\ page.key = key

\* A 409 locks the buttons of a complaint for the session: it is terminal,
\* and stays so, unless the 409 was of a lost race.
LockedMeansTerminal ==
    \A c \in terminal \ misled : row[c] \in TERMINAL

Before(s, t) ==
    is_allowed(s, t) \/ \E u \in Statuses : is_allowed(s, u) /\ is_allowed(u, t)

\* What the list shows of a complaint goes back to an earlier status only
\* where a list and a PATCH overlap: a list that was asked for before a PATCH
\* and answered after it, or a PATCH sent before a list and answered after it
\* with a status.
BackOnlyByOverlap ==
    [][\A c \in Complaints \ misled :
          (page # NoPage /\ Before(page'.items[c], page.items[c])) =>
              \/ \E l \in loads \ loads' : c \in l.overtaken
              \/ /\ pending # NoPatch /\ pending' = NoPatch
                 /\ pending.id = c /\ pending.listed
                 /\ pending.answer.code \in {200, 409}]_vars

\* An overtaken request leaves `loading` alone: still the spinner always ends,
\* and so does the wait for a PATCH, however the answers cross or fail.
AlwaysSettles ==
    /\ []<>(~loading /\ ~timer)
    /\ []<>(pending = NoPatch)
=============================================================================
