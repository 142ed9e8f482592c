----------------------- MODULE MCSubscriptionLifecycle -----------------------
(* Instances of SubscriptionLifecycle for TLC: the plans of TIERS.    *)
EXTENDS SubscriptionLifecycle, TLC

CONSTANTS freePlan, proPlan, ultraPlan

MCRank == [p \in Plan |-> CASE p = freePlan -> 0 [] p = proPlan -> 1 [] p = ultraPlan -> 2]

Symmetry == Permutations(Flow)
=============================================================================
