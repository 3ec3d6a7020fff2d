---------------------------- MODULE StatusTable ----------------------------
(***************************************************************************)
(* The status state machine of a complaint, as the table the backend keeps *)
(* in domain/transitions.py.  Every other module that moves a status goes  *)
(* through this one, as every service does.                                *)
(***************************************************************************)
EXTENDS Naturals

\* domain/enums.py: the Status enum.
Statuses == {"open", "in_progress", "resolved", "rejected"}

\* Not a Status: a complaint whose INSERT has not committed.
Absent == "absent"

\* domain/transitions.py: the dict, as the set of its (source, target) pairs.
TRANSITIONS == { <<"open", "in_progress">>,
                 <<"open", "rejected">>,
                 <<"in_progress", "resolved">>,
                 <<"in_progress", "rejected">> }

\* The statuses no pair leaves.
TERMINAL == { s \in Statuses : \A t \in Statuses : <<s, t>> \notin TRANSITIONS }

is_allowed(src, dst) == <<src, dst>> \in TRANSITIONS

\* How far along its life a complaint is.  TRANSITIONS only climbs, so a
\* complaint never returns to a status it left: the fact the "one winner"
\* argument of StatusLifecycle rests on.
Rank(s) == IF s = "open" THEN 1
           ELSE IF s = "in_progress" THEN 2
           ELSE IF s \in {"resolved", "rejected"} THEN 3
           ELSE 0
=============================================================================
