------------------------------ MODULE MCSteps ------------------------------
(* Steps with a first, a middle, a next to last and a last step.           *)
EXTENDS Steps

MCN == 4
=============================================================================
