--------------------------- MODULE StatusRegister ---------------------------
(***************************************************************************)
(* What PATCH /api/complaints/{id}/status promises, with no session, no    *)
(* row lock and no transaction: a register per complaint that moves along  *)
(* TRANSITIONS, one PATCH per move, and answers that tell the client       *)
(* whether its PATCH was the one that moved it.                            *)
(*                                                                         *)
(*   - a PATCH takes effect at most once, at one instant;                  *)
(*   - "ok" is answered only to a PATCH that took effect, "conflict" and   *)
(*     "not_found" only to one that did not and never will;                *)
(*   - "error" leaves the client not knowing, and the effect possible (a   *)
(*     COMMIT still on its way), as does no answer at all (a crash).       *)
(***************************************************************************)
EXTENDS StatusTable

CONSTANTS Complaints, Patches

VARIABLES
    row,     \* row[c]: the committed status of c, or Absent
    want,    \* want[p]: the id and the status p asks for
    moved,   \* moved[p]: the status p moved its complaint from, or Absent
    answer   \* answer[p]: what the client of p has been told

vars == <<row, want, moved, answer>>

Init ==
    /\ row = [c \in Complaints |-> Absent]
    /\ want \in [Patches -> [id : Complaints, new : Statuses]]
    /\ moved = [p \in Patches |-> Absent]
    /\ answer = [p \in Patches |-> "none"]

Insert(c) ==
    /\ row[c] = Absent
    /\ \E s \in Statuses : row' = [row EXCEPT ![c] = s]
    /\ UNCHANGED <<want, moved, answer>>

Move(p) ==
    /\ answer[p] \in {"none", "error"}
    /\ moved[p] = Absent
    /\ is_allowed(row[want[p].id], want[p].new)
    /\ moved' = [moved EXCEPT ![p] = row[want[p].id]]
    /\ row' = [row EXCEPT ![want[p].id] = want[p].new]
    /\ UNCHANGED <<want, answer>>

Answer(p, code) ==
    /\ answer[p] = "none"
    /\ code = "ok" => moved[p] # Absent
    /\ code \in {"conflict", "not_found"} => moved[p] = Absent
    /\ answer' = [answer EXCEPT ![p] = code]
    /\ UNCHANGED <<row, want, moved>>

Next ==
    \/ \E c \in Complaints : Insert(c)
    \/ \E p \in Patches : Move(p)
    \/ \E p \in Patches, code \in {"ok", "conflict", "not_found", "error"} :
         Answer(p, code)

Spec == Init /\ [][Next]_vars
=============================================================================
