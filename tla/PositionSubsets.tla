-------------------------- MODULE PositionSubsets --------------------------
(***************************************************************************)
(* The bit arithmetic of MatchingGenerator::search_for_matching: a set of  *)
(* parity positions is a bit mask, and the search goes through the masks   *)
(* with rs_m - target_cost bits set.  Matching has the sets themselves.    *)
(***************************************************************************)
EXTENDS Integers, FiniteSets, Bitwise

\* build_map makes lists for rs_m < 8 only (its upside is 8 bits wide).
CONSTANT MaxM       \* bound: rs_m

\* Width of the int variables; no mask comes near it.
Width == 16

VARIABLES rs_m, target_cost, comb, tried

vars == <<rs_m, target_cost, comb, tried>>

uint8(x) == x % 256
all_one == uint8(2^rs_m - 1)

\* dist_based_search searches at costs below rs_m, and at cost 0 elsewhere.
Init ==
    /\ rs_m \in 2..MaxM
    /\ target_cost \in 1..(rs_m - 1)
    /\ comb = 2^(rs_m - target_cost) - 1
    /\ tried = {}

\* Fault: the ones are not moved back to the end.
NextCombLeft(x, y) == ((comb & (2^Width - 1 - y)) \div x) | y

\* ((comb & ~y) / x) >> 1 | y, which moves the lowest run of ones up by one
\* position and all of it but its top bit back to the low end.
NextComb(x, y) == (((comb & (2^Width - 1 - y)) \div x) \div 2) | y

Try ==
    /\ comb < all_one
    /\ tried' = tried \cup {comb}
    /\ LET x == comb & (2^Width - comb)
           y == x + comb
       IN  comb' = NextComb(x, y)
    /\ UNCHANGED <<rs_m, target_cost>>

Next == Try
Spec == Init /\ [][Next]_vars
FairSpec == Spec /\ WF_vars(Next)

-----------------------------------------------------------------------------
(* Properties *)

Ones(mask) == {b \in 0..(Width - 1) : (mask \div 2^b) % 2 = 1}
Wanted == {mask \in 1..(2^rs_m - 1) :
              Cardinality(Ones(mask)) = rs_m - target_cost}

\* The search misses no set of positions that a pair of that cost may agree on
\* and goes through them once, the masks in increasing order.
EverySubsetOnce ==
    /\ \A t \in tried : t < comb
    /\ tried = {mask \in Wanted : mask < comb}

\* The loop comes to its end, and only when no subset is left.
SubsetsEnd == <>(tried = Wanted)
=============================================================================
