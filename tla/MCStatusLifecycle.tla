------------------------- MODULE MCStatusLifecycle -------------------------
(* TLC instance of StatusLifecycle.                                        *)
EXTENDS StatusLifecycle
=============================================================================
