----------------------------- MODULE MCCluster -----------------------------
(***************************************************************************)
(* A master and two nodes.  The client of the first node has two threads,  *)
(* one more than the program gives it: they share the connection to the    *)
(* second node, to which chunks a and b go.                                *)
(***************************************************************************)
EXTENDS Cluster

CONSTANTS a, b, c, m1, x1, x2, y1

MCSource == [t \in Transfer |-> IF t = c THEN 2 ELSE 1]
MCOwner ==
    [x \in Thread |-> IF x = m1 THEN Master ELSE IF x = y1 THEN 2 ELSE 1]
MCTarget == [t \in Transfer |-> IF t = c THEN 1 ELSE 2]
=============================================================================
