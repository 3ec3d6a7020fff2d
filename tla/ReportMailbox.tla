--------------------------- MODULE ReportMailbox ---------------------------
(***************************************************************************)
(* What the form and POST /api/complaints promise together, with no pods,  *)
(* pools, transactions or connections: a mailbox into which every report   *)
(* may be put several times, by submissions the citizen hears of or not.   *)
(*                                                                         *)
(*   - what is in the mailbox stays there;                                 *)
(*   - "created" is told only of a submission that is in the mailbox;      *)
(*   - "failure" leaves the citizen not knowing: the submission may be in  *)
(*     the mailbox, or come into it later, and may be repeated;            *)
(*   - whatever the citizen is told of a submission is told once, and a    *)
(*     report is submitted again only after every earlier failure.         *)
(***************************************************************************)
EXTENDS Integers

CONSTANTS Reports, MaxTries

VARIABLES
    inbox,   \* the submissions that are in the mailbox
    fate     \* of each submission: "unsent", or what the citizen was told

vars == <<inbox, fate>>

\* Submission <<r, n>> is the n-th of report r.
Submissions == Reports \X (1 .. MaxTries)

Init == inbox = {} /\ fate = [s \in Submissions |-> "unsent"]

\* A submission that does not reach the system fails at once.
Submit(r, n) ==
    /\ fate[<<r, n>>] = "unsent"
    /\ \A m \in 1 .. n - 1 : fate[<<r, m>>] = "failure"
    /\ \E told \in {"nothing", "failure"} : fate' = [fate EXCEPT ![<<r, n>>] = told]
    /\ UNCHANGED inbox

Put(S) ==
    /\ \A s \in S : fate[s] # "unsent"
    /\ inbox' = inbox \cup S
    /\ UNCHANGED fate

Tell(s, what) ==
    /\ fate[s] = "nothing"
    /\ what = "created" => s \in inbox
    /\ fate' = [fate EXCEPT ![s] = what]
    /\ UNCHANGED inbox

Next ==
    \/ \E r \in Reports, n \in 1 .. MaxTries : Submit(r, n)
    \/ \E S \in SUBSET Submissions : Put(S)
    \/ \E s \in Submissions, what \in {"created", "failure"} : Tell(s, what)

Spec == Init /\ [][Next]_vars
=============================================================================
