--------------------------- MODULE MCTriageLadder --------------------------
(* TLC instance of TriageLadder.                                           *)
EXTENDS TriageLadder
=============================================================================
