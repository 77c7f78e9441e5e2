-------------------------- MODULE MCSendingScheme --------------------------
(***************************************************************************)
(* Instances of SendingScheme.  Renaming the nodes maps any first stripe   *)
(* to the one on nodes 1..K+M, up to the order the crowded nodes are       *)
(* relieved in; the instances with fewer chunks take every first stripe.   *)
(***************************************************************************)
EXTENDS SendingScheme

AllStripes == Placement
StripeInOrder ==
    {[data |-> [x \in 1..K |-> x], parity |-> [x \in 1..M |-> K + x]]}
=============================================================================
