------------------------------- MODULE Stripe -------------------------------
(***************************************************************************)
(* src/stripe.cc: a narrow stripe, where its chunks are, and what merging  *)
(* two of them costs.                                                      *)
(*                                                                         *)
(* A stripe has K data chunks and M parity chunks.  The wide stripe keeps  *)
(* the 2K data chunks, and parity chunk i of both stripes is combined on   *)
(* one node.  Nodes are numbered from 1, as in the transfers (node 0 is    *)
(* the master there).                                                      *)
(***************************************************************************)
EXTENDS Integers, FiniteSets

CONSTANTS K, M,       \* rs_k, rs_m
          NodeNum     \* node_num

\* Narrow stripes have a node for each chunk (generate_random_distributions
\* reads K + M of node_num shuffled indices), and costs stay below UINT8_MAX.
ASSUME StripeAssumption ==
    /\ K \in Nat \ {0} /\ M \in Nat \ {0} /\ NodeNum \in Nat
    /\ K + M <= NodeNum
    /\ K + M < 255

Node == 1..NodeNum

\* A stripe as the generators place it: every chunk on a node of its own.
Placement ==
    {p \in [data : [1..K -> Node], parity : [1..M -> Node]] :
        /\ \A i, j \in 1..K : p.data[i] = p.data[j] => i = j
        /\ \A i, j \in 1..M : p.parity[i] = p.parity[j] => i = j
        /\ \A i \in 1..K, j \in 1..M : p.data[i] # p.parity[j]}

-----------------------------------------------------------------------------
(* compute_cost *)

\* Fault: the first stripe's node, in use or not.
ParityDestFirst(p, q, used) == p

\* Fault: the test for a node in use is inverted.
ParityDestUsed(p, q, used) == IF p = q \/ p \in used THEN p ELSE q

\* Where the parity chunks on nodes p and q are combined, if the nodes of
\* used already hold a chunk.
ParityDest(p, q, used) == IF p = q \/ p \notin used THEN p ELSE q

DataNodes(a, b) == {a.data[i] : i \in 1..K} \cup {b.data[i] : i \in 1..K}

\* Nodes in use and cost so far, after the data and the first i parity chunks.
CostUpTo(a, b) ==
    LET acc[i \in 0..M] ==
          IF i = 0
          THEN [used |-> DataNodes(a, b),
                cost |-> 2 * K - Cardinality(DataNodes(a, b))]
          ELSE LET prev == acc[i - 1]
                   dest == ParityDest(a.parity[i], b.parity[i], prev.used)
               IN  [used |-> prev.used \cup {dest},
                    cost |-> prev.cost
                             + (IF a.parity[i] # b.parity[i] THEN 1 ELSE 0)
                             + (IF dest \in prev.used THEN 1 ELSE 0)]
    IN  acc

ComputeCost(a, b) == CostUpTo(a, b)[M].cost
=============================================================================
