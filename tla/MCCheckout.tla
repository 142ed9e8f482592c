------------------------------ MODULE MCCheckout ------------------------------
(* Instances of Checkout for TLC.                                          *)
EXTENDS Checkout, TLC

CONSTANTS proPlan, ultraPlan

MCRank == [p \in Plan |-> CASE p = proPlan -> 1 [] p = ultraPlan -> 2]
=============================================================================
