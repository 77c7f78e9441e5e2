---------------------------- MODULE MCCostTable ----------------------------
(* An instance of CostTable in which every pair has a cost of its own. *)
EXTENDS CostTable

MCCost == [i \in StripeIndex |-> [j \in StripeIndex |-> i * stripes_num + j]]
=============================================================================
