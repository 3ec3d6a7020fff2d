------------------------------ MODULE MCIntake ------------------------------
(* TLC instance of Intake, with the fairness of its liveness property.      *)
EXTENDS Intake
=============================================================================
