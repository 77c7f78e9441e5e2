------------------------------ MODULE Matching ------------------------------
(***************************************************************************)
(* src/matching_generator.cc: which stripes are merged with which.  Two    *)
(* searches are modelled, the ones TCPNode chooses from: basic_greedy,     *)
(* which sorts all pairs by cost, and dist_based_search, which looks for a *)
(* stripe's partner in lists of stripes that share parity nodes, gives the *)
(* stripes that are left to basic_greedy, and then repairs some pairs.     *)
(*                                                                         *)
(* The lists are filled in increasing order and only lose elements, so a   *)
(* list is a set here and its first element the least one.  get_cost is a  *)
(* function of the two stripes: CostTable is about its table.              *)
(***************************************************************************)
EXTENDS Stripe, Sequences

CONSTANTS StripesNum,   \* stripes_num
          Choices       \* the placements considered

\* Every batch has an even number of stripes (ncscale_simulation.cc:5,22): the
\* one left over would keep matching_index = UINT32_MAX, and print_statics and
\* get_sending_scheme use it as an index.  Both searches give up on too few
\* nodes (matching_generator.cc:122,273).  The masks of parity positions are
\* int: shifting by more has no defined result.
ASSUME MatchingAssumption ==
    /\ StripesNum \in Nat /\ StripesNum % 2 = 0
    /\ Choices \subseteq Placement
    /\ NodeNum >= 2 * K + M
    /\ M < 31

Index == 1..StripesNum
NoIndex == 0            \* UINT32_MAX
NoCost == 255           \* UINT8_MAX
Pair == {p \in SUBSET Index : Cardinality(p) = 2}

VARIABLES
    pc,
    stripes,            \* placement of each stripe
    cost,               \* what get_cost returns for each pair
    matching_index, cur_cost, selected,     \* fields of each stripe
    remaining_stripes, parity_map, partial_dist_map,
    zero_map, none_zero_candidate,
    level,              \* the cost dist_based_search is at
    cur_stripe,         \* the last stripe it has come to on this level
    todo,               \* parity positions search_for_matching has to try
    it_to_del,
    remain_flag, num_to_select,
    flag, sent          \* get_sending_scheme: stripes seen, pairs generated

stripe_vars == <<matching_index, cur_cost, selected>>
map_vars == <<remaining_stripes, parity_map, partial_dist_map>>
opt_vars == <<zero_map, none_zero_candidate>>
search_vars == <<level, cur_stripe, todo, it_to_del>>
greedy_vars == <<remain_flag, num_to_select>>
out_vars == <<flag, sent>>
vars == <<pc, stripes, cost, stripe_vars, map_vars, opt_vars, search_vars,
          greedy_vars, out_vars>>

\* A key of partial_dist_map: the parity nodes of a stripe at some positions.
\* Which positions is part of the key, as in the code.
Key(x, positions) == [y \in positions |-> stripes[x].parity[y]]
ParityDist(x) == stripes[x].parity

PairCosts(s) ==
    [p \in Pair |->
        LET i == CHOOSE x \in p : \A y \in p : x <= y
            j == CHOOSE x \in p : x # i
        IN  ComputeCost(s[i], s[j])]

Init ==
    /\ stripes \in [Index -> Choices]
    /\ cost = PairCosts(stripes)
    /\ matching_index = [x \in Index |-> NoIndex]
    /\ cur_cost = [x \in Index |-> NoCost]
    /\ selected = [x \in Index |-> FALSE]
    /\ remaining_stripes = {}
    /\ parity_map = <<>> /\ partial_dist_map = <<>>
    /\ zero_map = [d \in {ParityDist(x) : x \in Index} |-> <<>>]
    /\ none_zero_candidate = <<>>
    /\ level = 0 /\ cur_stripe = NoIndex /\ todo = {} /\ it_to_del = {}
    /\ num_to_select = StripesNum \div 2
    /\ \/ pc = "build" /\ remain_flag = TRUE        \* dist_based_search()
       \/ pc = "greedy" /\ remain_flag = FALSE      \* basic_greedy()
    /\ flag = {} /\ sent = {}

-----------------------------------------------------------------------------
(* mark_matched *)

\* Fault: only the stripe itself is marked.
MarkOne(i, j, c) ==
    /\ matching_index' = [matching_index EXCEPT ![i] = j]
    /\ selected' = [selected EXCEPT ![i] = TRUE]
    /\ cur_cost' = [cur_cost EXCEPT ![i] = c]

Mark(i, j, c) ==
    /\ matching_index' = [matching_index EXCEPT ![i] = j, ![j] = i]
    /\ selected' = [selected EXCEPT ![i] = TRUE, ![j] = TRUE]
    /\ cur_cost' = [cur_cost EXCEPT ![i] = c, ![j] = c]

\* With the flag the pair is remembered for make_optimization.
Remember(i, j, c) ==
    /\ zero_map' = IF c # 0 THEN zero_map
                   ELSE [zero_map EXCEPT ![ParityDist(i)] = <<i>> \o @]
    /\ none_zero_candidate' =
          IF c # 0 /\ ParityDist(i) = ParityDist(j)
          THEN Append(none_zero_candidate, i) ELSE none_zero_candidate

-----------------------------------------------------------------------------
(* dist_based_search *)

\* The sets of positions with lists: the masks from 1 up to upside, which is a
\* uint8_t and so 0 from 8 parity chunks on.
Indexed == IF M < 8 THEN (SUBSET (1..M)) \ {{}} ELSE {}

BuildMap ==
    /\ pc = "build"
    /\ remaining_stripes' = Index
    /\ parity_map' = [d \in {ParityDist(x) : x \in Index} |->
                         {x \in Index : ParityDist(x) = d}]
    /\ partial_dist_map' =
          [key \in {Key(x, ps) : x \in Index, ps \in Indexed} |->
              {x \in Index : Key(x, DOMAIN key) = key}]
    /\ pc' = "visit"
    /\ UNCHANGED <<stripes, cost, stripe_vars, opt_vars, search_vars,
                   greedy_vars, out_vars>>

\* The stripes are visited in increasing order on every level.
Upcoming(x) ==
    /\ x \in remaining_stripes /\ x > cur_stripe
    /\ \A y \in remaining_stripes : y > cur_stripe => x <= y

\* Fault: the iterator stays.
SkipSelectedStay(x) ==
    /\ pc = "visit" /\ Upcoming(x)
    /\ selected[x]
    /\ it_to_del' = it_to_del \cup {x}
    /\ UNCHANGED <<pc, stripes, cost, stripe_vars, map_vars, opt_vars, level,
                   cur_stripe, todo, greedy_vars, out_vars>>

SkipSelected(x) ==
    /\ pc = "visit" /\ Upcoming(x)
    /\ selected[x]
    /\ cur_stripe' = x
    /\ it_to_del' = it_to_del \cup {x}
    /\ UNCHANGED <<pc, stripes, cost, stripe_vars, map_vars, opt_vars, level,
                   todo, greedy_vars, out_vars>>

\* Fault: the partner found on an earlier level is not looked at again.
TakeFoundStale(x) ==
    /\ pc = "visit" /\ Upcoming(x)
    /\ ~selected[x] /\ cur_cost[x] = level
    /\ Mark(x, matching_index[x], level)
    /\ Remember(x, matching_index[x], level)
    /\ cur_stripe' = x
    /\ it_to_del' = it_to_del \cup {x}
    /\ UNCHANGED <<pc, stripes, cost, map_vars, level, todo, greedy_vars,
                   out_vars>>

\* A partner of this cost was found on an earlier level and is still free.
TakeFound(x) ==
    /\ pc = "visit" /\ Upcoming(x)
    /\ ~selected[x] /\ cur_cost[x] = level
    /\ ~selected[matching_index[x]]
    /\ Mark(x, matching_index[x], level)
    /\ Remember(x, matching_index[x], level)
    /\ cur_stripe' = x
    /\ it_to_del' = it_to_del \cup {x}
    /\ UNCHANGED <<pc, stripes, cost, map_vars, level, todo, greedy_vars,
                   out_vars>>

\* Fault: pairs with fewer misaligned parities than the level only.
PositionsShort ==
    IF level = 0 THEN {1..M}
    ELSE {ps \in SUBSET (1..M) : Cardinality(ps) = M - level + 1}

\* The positions that search_for_matching tries: all of them for cost 0, else
\* every subset that a pair with at most level misaligned parities agrees on.
\* (From 9 parity chunks on all_one is too small and fewer are tried; the rest
\* have no lists then.)
Positions ==
    IF level = 0 THEN {1..M}
    ELSE {ps \in SUBSET (1..M) : Cardinality(ps) = M - level}

SearchPartner(x) ==
    /\ cur_stripe' = x
    /\ todo' = Positions
    /\ pc' = "search"
    /\ UNCHANGED <<stripes, cost, selected, map_vars, opt_vars, level,
                   it_to_del, greedy_vars, out_vars>>

BeginSearch(x) ==
    /\ pc = "visit" /\ Upcoming(x)
    /\ ~selected[x] /\ cur_cost[x] # level
    /\ SearchPartner(x)
    /\ UNCHANGED <<matching_index, cur_cost>>

\* The partner found has been matched with another stripe in the meantime.
SearchAgain(x) ==
    /\ pc = "visit" /\ Upcoming(x)
    /\ ~selected[x] /\ cur_cost[x] = level
    /\ selected[matching_index[x]]
    /\ matching_index' = [matching_index EXCEPT ![x] = NoIndex]
    /\ cur_cost' = [cur_cost EXCEPT ![x] = NoCost]
    /\ SearchPartner(x)

\* A key that is not found counts as a list too short to search.
Domain(ps) ==
    LET key == Key(cur_stripe, ps)
    IN  IF level = 0 THEN parity_map[key]
        ELSE IF key \in DOMAIN partial_dist_map THEN partial_dist_map[key]
        ELSE {}

SetDomain(ps, list) ==
    LET key == Key(cur_stripe, ps)
    IN  IF level = 0
        THEN /\ parity_map' = [parity_map EXCEPT ![key] = list]
             /\ UNCHANGED partial_dist_map
        ELSE /\ partial_dist_map' = [partial_dist_map EXCEPT ![key] = list]
             /\ UNCHANGED parity_map

-----------------------------------------------------------------------------
(* single_search, in the list of the stripes that agree with cur_stripe at   *)
(* the positions ps; lists of one stripe are not searched                    *)

CostTo(y) == cost[{cur_stripe, y}]

\* The stripes of a list that can improve on the best partner known so far.
Cheaper(list) ==
    {y \in list : ~selected[y] /\ y # cur_stripe
                   /\ CostTo(y) < cur_cost[cur_stripe]}

\* The search stops at y, which has the cost looked for.
Hit(list, y) ==
    /\ y \in Cheaper(list)
    /\ CostTo(y) = level
    /\ \A z \in Cheaper(list) : z < y => CostTo(z) > level

\* Selected stripes met on the way are erased from the list.
Met(list, y) == {z \in list : z < y /\ (selected[z] \/ z = cur_stripe)}

\* The subsets come in the order of their masks; any order here.
SearchHit(ps, y) ==
    /\ pc = "search" /\ ps \in todo
    /\ Cardinality(Domain(ps)) > 1
    /\ Hit(Domain(ps), y)
    /\ SetDomain(ps, Domain(ps) \ ({y} \cup Met(Domain(ps), y)))
    /\ Mark(cur_stripe, y, level)
    /\ Remember(cur_stripe, y, level)
    /\ it_to_del' = it_to_del \cup {cur_stripe}
    /\ todo' = {}
    /\ pc' = "visit"
    /\ UNCHANGED <<stripes, cost, remaining_stripes, level, cur_stripe,
                   greedy_vars, out_vars>>

\* The whole list is read; a partner that costs more is kept in mind.
SearchBetter(ps, y) ==
    /\ pc = "search" /\ ps \in todo
    /\ Cardinality(Domain(ps)) > 1
    /\ \A z \in Index : ~Hit(Domain(ps), z)
    /\ y \in Cheaper(Domain(ps))
    /\ \A z \in Cheaper(Domain(ps)) \ {y} :
          \/ CostTo(y) < CostTo(z)
          \/ CostTo(y) = CostTo(z) /\ y < z
    /\ cur_cost' = [cur_cost EXCEPT ![cur_stripe] = CostTo(y)]
    /\ matching_index' = [matching_index EXCEPT ![cur_stripe] = y]
    /\ SetDomain(ps, {z \in Domain(ps) : ~selected[z]})
    /\ todo' = todo \ {ps}
    /\ UNCHANGED <<pc, stripes, cost, selected, remaining_stripes, opt_vars,
                   level, cur_stripe, it_to_del, greedy_vars, out_vars>>

SearchNothing(ps) ==
    /\ pc = "search" /\ ps \in todo
    /\ \/ /\ Cardinality(Domain(ps)) > 1
          /\ Cheaper(Domain(ps)) = {}
          /\ SetDomain(ps, {z \in Domain(ps) : ~selected[z]})
       \/ /\ Cardinality(Domain(ps)) <= 1
          /\ UNCHANGED <<parity_map, partial_dist_map>>
    /\ todo' = todo \ {ps}
    /\ UNCHANGED <<pc, stripes, cost, stripe_vars, remaining_stripes, opt_vars,
                   level, cur_stripe, it_to_del, greedy_vars, out_vars>>

\* Fault: a stripe without a partner is dropped with the matched ones.
SearchFailedDrop ==
    /\ pc = "search" /\ todo = {}
    /\ pc' = "visit"
    /\ it_to_del' = it_to_del \cup {cur_stripe}
    /\ UNCHANGED <<stripes, cost, stripe_vars, map_vars, opt_vars, level,
                   cur_stripe, todo, greedy_vars, out_vars>>

SearchFailed ==
    /\ pc = "search" /\ todo = {}
    /\ pc' = "visit"
    /\ UNCHANGED <<stripes, cost, stripe_vars, map_vars, opt_vars, search_vars,
                   greedy_vars, out_vars>>

\* Fault: the level goes up by two.
NextLevelSkip ==
    /\ pc = "visit"
    /\ \A x \in Index : ~Upcoming(x)
    /\ level' = level + 2
    /\ cur_stripe' = NoIndex
    /\ pc' = IF level' < M THEN "visit" ELSE "optimize"
    /\ UNCHANGED <<stripes, cost, stripe_vars, map_vars, opt_vars, todo,
                   it_to_del, greedy_vars, out_vars>>

\* The stripes found selected are erased.  After the last level basic_greedy
\* gets those that remain; some of them may be selected.
NextLevel ==
    /\ pc = "visit"
    /\ \A x \in Index : ~Upcoming(x)
    /\ remaining_stripes' = remaining_stripes \ it_to_del
    /\ it_to_del' = {} /\ cur_stripe' = NoIndex
    /\ level' = level + 1
    /\ IF remaining_stripes' = {}
       THEN pc' = "optimize" /\ UNCHANGED num_to_select
       ELSE IF level' < M
       THEN pc' = "visit" /\ UNCHANGED num_to_select
       ELSE /\ pc' = "greedy"
            /\ num_to_select' = Cardinality(remaining_stripes') \div 2
    /\ UNCHANGED <<stripes, cost, stripe_vars, parity_map, partial_dist_map,
                   opt_vars, todo, remain_flag, out_vars>>

-----------------------------------------------------------------------------
(* basic_greedy *)

Unmatched == {p \in Pair : \A x \in p : ~selected[x]}

\* The pairs are sorted by cost, and in the order of their stripes for each.
Before(i, j, x, y) ==
    \/ cost[{i, j}] < cost[{x, y}]
    \/ /\ cost[{i, j}] = cost[{x, y}]
       /\ i < x \/ (i = x /\ j <= y)

GreedyPick(i, j) ==
    /\ pc = "greedy" /\ num_to_select > 0
    /\ i < j /\ {i, j} \in Unmatched
    /\ \A x, y \in Index : x < y /\ {x, y} \in Unmatched => Before(i, j, x, y)
    /\ Mark(i, j, cost[{i, j}])
    /\ num_to_select' = num_to_select - 1
    /\ UNCHANGED <<pc, stripes, cost, map_vars, opt_vars, search_vars,
                   remain_flag, out_vars>>

GreedyEnd ==
    /\ pc = "greedy"
    /\ num_to_select = 0 \/ Unmatched = {}
    /\ pc' = IF remain_flag THEN "optimize" ELSE "collect"
    /\ UNCHANGED <<stripes, cost, stripe_vars, map_vars, opt_vars, search_vars,
                   greedy_vars, out_vars>>

-----------------------------------------------------------------------------
(* make_optimization *)

\* Pairs {ci, cj} and {i, j} can be exchanged for two pairs that cost nothing.
Straight(ci, i) ==
    /\ cost[{ci, i}] = 0
    /\ cost[{matching_index[ci], matching_index[i]}] = 0
Crossed(ci, i) ==
    /\ cost[{ci, matching_index[i]}] = 0
    /\ cost[{matching_index[ci], i}] = 0

\* Fault: both calls of mark_matched have the flag's default.
ExchangeBoth(x, y, u, v) ==
    /\ matching_index' = [matching_index EXCEPT ![x] = y, ![y] = x,
                                                 ![u] = v, ![v] = u]
    /\ cur_cost' = [cur_cost EXCEPT ![x] = 0, ![y] = 0, ![u] = 0, ![v] = 0]
    /\ zero_map' = [zero_map EXCEPT ![ParityDist(x)] = <<u, x>> \o @]

\* mark_matched(x, y, 0) and mark_matched(u, v, 0, false).
Exchange(x, y, u, v) ==
    /\ matching_index' = [matching_index EXCEPT ![x] = y, ![y] = x,
                                                 ![u] = v, ![v] = u]
    /\ cur_cost' = [cur_cost EXCEPT ![x] = 0, ![y] = 0, ![u] = 0, ![v] = 0]
    /\ zero_map' = [zero_map EXCEPT ![ParityDist(x)] = <<x>> \o @]

\* The first entry of zero_map that helps the next candidate is used.  No
\* candidate is added meanwhile: what is remembered here has cost 0.
Optimize ==
    /\ pc = "optimize" /\ none_zero_candidate # <<>>
    /\ none_zero_candidate' = Tail(none_zero_candidate)
    /\ LET ci == Head(none_zero_candidate)
           list == zero_map[ParityDist(ci)]
           Helps(n) == Straight(ci, list[n]) \/ Crossed(ci, list[n])
       IN  \/ \E n \in DOMAIN list :
                 /\ Helps(n) /\ \A o \in 1..(n - 1) : ~Helps(o)
                 /\ LET i == list[n]
                        j == matching_index[i]
                        cj == matching_index[ci]
                    IN  IF Straight(ci, i) THEN Exchange(cj, j, ci, i)
                        ELSE Exchange(ci, j, cj, i)
           \/ /\ \A n \in DOMAIN list : ~Helps(n)
              /\ UNCHANGED <<matching_index, cur_cost, zero_map>>
    /\ UNCHANGED <<pc, stripes, cost, selected, map_vars, search_vars,
                   greedy_vars, out_vars>>

OptimizeEnd ==
    /\ pc = "optimize" /\ none_zero_candidate = <<>>
    /\ pc' = "collect"
    /\ UNCHANGED <<stripes, cost, stripe_vars, map_vars, opt_vars, search_vars,
                   greedy_vars, out_vars>>

-----------------------------------------------------------------------------
(* get_sending_scheme: the transfers of each pair, SendingScheme, once.      *)

\* Fault: only the stripe itself is flagged.
CollectBoth(x) ==
    /\ pc = "collect"
    /\ x \notin flag
    /\ \A y \in 1..(x - 1) : y \in flag
    /\ flag' = flag \cup {x}
    /\ sent' = IF cur_cost[x] # 0 THEN sent \cup {<<x, matching_index[x]>>}
                ELSE sent
    /\ UNCHANGED <<pc, stripes, cost, stripe_vars, map_vars, opt_vars,
                   search_vars, greedy_vars>>

Collect(x) ==
    /\ pc = "collect"
    /\ x \notin flag /\ matching_index[x] \notin flag
    /\ \A y \in 1..(x - 1) : y \in flag \/ matching_index[y] \in flag
    /\ flag' = flag \cup {x, matching_index[x]}
    /\ sent' = IF cur_cost[x] # 0 THEN sent \cup {<<x, matching_index[x]>>}
                ELSE sent
    /\ UNCHANGED <<pc, stripes, cost, stripe_vars, map_vars, opt_vars,
                   search_vars, greedy_vars>>

CollectEnd ==
    /\ pc = "collect"
    /\ \A x \in Index : x \in flag \/ matching_index[x] \in flag
    /\ pc' = "done"
    /\ UNCHANGED <<stripes, cost, stripe_vars, map_vars, opt_vars, search_vars,
                   greedy_vars, out_vars>>

-----------------------------------------------------------------------------

Visit(x) == SkipSelected(x) \/ TakeFound(x) \/ BeginSearch(x) \/ SearchAgain(x)
Search(ps) ==
    SearchNothing(ps) \/ \E y \in Index : SearchHit(ps, y) \/ SearchBetter(ps, y)

Next ==
    \/ BuildMap \/ SearchFailed \/ NextLevel
    \/ \E x \in Index : Visit(x) \/ Collect(x)
    \/ \E ps \in todo : Search(ps)
    \/ \E i, j \in Index : GreedyPick(i, j)
    \/ GreedyEnd \/ Optimize \/ OptimizeEnd \/ CollectEnd

Spec == Init /\ [][Next]_vars
FairSpec == Spec /\ WF_vars(Next)

-----------------------------------------------------------------------------
(* Properties *)

PairOf(x) == {x, matching_index[x]}
Chosen == {PairOf(x) : x \in {y \in Index : selected[y]}}
Lists == {parity_map[d] : d \in DOMAIN parity_map}
         \cup {partial_dist_map[k] : k \in DOMAIN partial_dist_map}

TypeOK ==
    /\ pc \in {"build", "visit", "search", "greedy", "optimize", "collect",
               "done"}
    /\ stripes \in [Index -> Choices]
    /\ cost \in [Pair -> 0..(K + M)]
    /\ matching_index \in [Index -> Index \cup {NoIndex}]
    /\ cur_cost \in [Index -> (0..(K + M)) \cup {NoCost}]
    /\ selected \in [Index -> BOOLEAN]
    /\ remaining_stripes \subseteq Index /\ Lists \subseteq SUBSET Index
    /\ \A d \in DOMAIN zero_map : zero_map[d] \in Seq(Index)
    /\ none_zero_candidate \in Seq(Index)
    /\ level \in 0..M /\ cur_stripe \in Index \cup {NoIndex}
    /\ todo \subseteq SUBSET (1..M) /\ it_to_del \subseteq Index
    /\ remain_flag \in BOOLEAN /\ num_to_select \in Nat
    /\ flag \subseteq Index /\ sent \subseteq Index \X Index

\* Stripes are matched in pairs, although each stripe stores its partner and
\* its cost by itself, an unmatched stripe stores the partner it may take
\* later, and make_optimization overwrites pairs: partners name each other and
\* both store what merging them costs.
PairsAgree ==
    \A x \in Index : selected[x] =>
        LET y == matching_index[x] IN
        /\ y # x /\ y \in Index
        /\ selected[y] /\ matching_index[y] = x
        /\ cur_cost[x] = cost[{x, y}] /\ cur_cost[y] = cost[{x, y}]

\* No stripe is left over when the search ends: get_sending_scheme and
\* print_statics use every matching_index as an index.
NobodyLeft == pc \in {"collect", "done"} => \A x \in Index : selected[x]

\* The lists find every pair: when dist_based_search is done with a level, no
\* two unmatched stripes could be merged at that cost or less.  (With 8 parity
\* chunks or more there are no lists to find them in: see Indexed.)
LevelDone == \A p \in Unmatched : cost[p] >= level

\* zero_map lists every pair once at most, and each of them costs nothing: no
\* pair is given away twice by make_optimization.
ZeroMapSound ==
    pc = "optimize" => \A d \in DOMAIN zero_map :
        LET list == zero_map[d] IN \A m, n \in DOMAIN list :
            /\ cost[PairOf(list[n])] = 0
            /\ PairOf(list[m]) = PairOf(list[n]) => m = n

\* The transfers of every pair that costs something are generated, once, the
\* stripe with the smaller index first (compute_cost depends on the order).
SchemeComplete ==
    pc = "done" =>
        sent = {q \in Index \X Index : /\ q[1] < q[2]
                                       /\ matching_index[q[1]] = q[2]
                                       /\ cost[{q[1], q[2]}] # 0}

\* Both searches choose a cheapest pair at a time, and make_optimization only
\* removes cost: the indexed search is as good as the sorted one at each step.
Abstract == INSTANCE GreedyMatching WITH pairs <- Chosen

ImplementsGreedy == Abstract!Spec

\* Both searches end, and the scheme is complete.
SearchEnds == <>(pc = "done")
=============================================================================
