---------------------------- MODULE MCDashboard ----------------------------
(* TLC instance of Dashboard, with the fairness of its liveness property.   *)
EXTENDS Dashboard
=============================================================================
