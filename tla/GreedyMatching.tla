--------------------------- MODULE GreedyMatching ---------------------------
(***************************************************************************)
(* What the searches of MatchingGenerator promise about the pairs they     *)
(* choose: a cheapest pair of unmatched stripes at a time until nobody can *)
(* be matched any more; after that, two pairs may be exchanged for two     *)
(* that both cost nothing, if one of them cost something.                  *)
(***************************************************************************)
EXTENDS Naturals

CONSTANT Index      \* the stripes

VARIABLES cost,     \* of merging each two of them
          pairs     \* chosen

vars == <<cost, pairs>>

Pair == {p \in SUBSET Index : \E x, y \in p : x # y /\ p = {x, y}}
Free == {p \in Pair : p \cap UNION pairs = {}}

Init ==
    /\ cost \in [Pair -> Nat]
    /\ pairs = {}

Pick(p) ==
    /\ \A q \in Free : cost[p] <= cost[q]
    /\ pairs' = pairs \cup {p}
    /\ UNCHANGED cost

Exchange(p, q) ==
    /\ Free = {}
    /\ cost[p] > 0 /\ cost[q] = 0
    /\ \E r, s \in Pair :
          /\ r \cup s = p \cup q
          /\ cost[r] = 0 /\ cost[s] = 0
          /\ pairs' = (pairs \ {p, q}) \cup {r, s}
    /\ UNCHANGED cost

Next == \/ \E p \in Free : Pick(p)
        \/ \E p, q \in pairs : Exchange(p, q)

Spec == Init /\ [][Next]_vars
=============================================================================
