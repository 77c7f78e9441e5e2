--------------------------- MODULE MatchingProofs ---------------------------
(***************************************************************************)
(* Theorems about Matching, for any code, any even number of stripes and   *)
(* any placements, and about the table its costs come from (CostTable).    *)
(***************************************************************************)
EXTENDS Matching, CostTable, StripeProofs

\* Types, with the costs left open.
CostRange == Nat \cup {cost[p] : p \in SUBSET Index}
Types ==
    /\ matching_index \in [Index -> Index \cup {NoIndex}]
    /\ cur_cost \in [Index -> CostRange]
    /\ selected \in [Index -> BOOLEAN]
    /\ level \in Nat
    /\ cur_stripe \in Index \cup {NoIndex}

\* dist_based_search looks for a partner of an unmatched stripe, at a cost that
\* is not the mark of a stripe without partner.
Searching ==
    /\ pc \in {"build", "visit", "search"} => level < M
    /\ pc = "search" => cur_stripe \in Index /\ ~selected[cur_stripe]

\* The partner an unmatched stripe has in mind has the cost it has in mind.
InMind ==
    \A x \in Index : ~selected[x] /\ cur_cost[x] # NoCost =>
        /\ matching_index[x] \in Index \ {x}
        /\ cost[{x, matching_index[x]}] = cur_cost[x]

\* The stripes whose pair costs nothing, and those whose pair does cost.
ZeroStripes ==
    {x \in Index : selected[x] /\ cost[{x, matching_index[x]}] = 0}
PaidStripes ==
    {x \in Index : selected[x] /\ cost[{x, matching_index[x]}] # 0}

\* make_optimization works on pairs that cost nothing and on pairs that do,
\* and on each of the latter once.
ZeroPairs == zero_map \in [{ParityDist(x) : x \in Index} -> Seq(ZeroStripes)]
Candidates ==
    /\ none_zero_candidate \in Seq(PaidStripes)
    /\ \A n, o \in DOMAIN none_zero_candidate : n # o =>
          /\ none_zero_candidate[o] # none_zero_candidate[n]
          /\ none_zero_candidate[o] # matching_index[none_zero_candidate[n]]

IInv == /\ Types /\ Searching /\ InMind /\ PairsAgree
        /\ ZeroPairs /\ Candidates

LEMMA IndexFacts == NoIndex \notin Index /\ \A x \in Index : x \in Nat
  BY MatchingAssumption DEF MatchingAssumption, Index, NoIndex

LEMMA CostInRange == \A x, y \in Index : cost[{x, y}] \in CostRange
<1>1. \A x, y \in Index : {x, y} \in SUBSET Index
  OBVIOUS
<1> QED BY <1>1 DEF CostRange

\* Sequences over more elements, with an element more, and with one less.
LEMMA SeqFacts ==
    ASSUME NEW S, NEW T, S \subseteq T, NEW q \in Seq(S)
    PROVE  /\ q \in Seq(T)
           /\ \A e \in T : <<e>> \o q \in Seq(T) /\ Append(q, e) \in Seq(T)
<1>1. Len(q) \in Nat /\ q \in [1..Len(q) -> S]
  OBVIOUS
<1>2. q \in [1..Len(q) -> T]
  BY <1>1
<1>3. q \in Seq(T)
  BY <1>1, <1>2
<1> QED BY <1>3

LEMMA TailFacts ==
    ASSUME NEW S, NEW q \in Seq(S), q # <<>>
    PROVE  /\ Tail(q) \in Seq(S)
           /\ \A n \in DOMAIN Tail(q) :
                 n + 1 \in DOMAIN q /\ Tail(q)[n] = q[n + 1] /\ n + 1 # 1
           /\ 1 \in DOMAIN q /\ Head(q) = q[1]
  OBVIOUS

\* Two unmatched stripes become a pair: the pairs there were are not touched.
LEMMA MarkPairs ==
    ASSUME Types, PairsAgree, InMind,
           NEW i \in Index, NEW j \in Index, i # j,
           ~selected[i], ~selected[j],
           NEW c \in CostRange, cost[{i, j}] = c,
           Mark(i, j, c), cost' = cost
    PROVE  /\ PairsAgree' /\ InMind'
           /\ matching_index' \in [Index -> Index \cup {NoIndex}]
           /\ cur_cost' \in [Index -> CostRange]
           /\ selected' \in [Index -> BOOLEAN]
           /\ \A x \in Index : selected[x] =>
                 /\ selected'[x] /\ matching_index'[x] = matching_index[x]
                 /\ x # i /\ matching_index[x] # i
           /\ selected'[i] /\ matching_index'[i] = j
<1> USE DEF Types
<1>1. /\ matching_index' \in [Index -> Index \cup {NoIndex}]
      /\ cur_cost' \in [Index -> CostRange]
      /\ selected' \in [Index -> BOOLEAN]
  BY DEF Mark
<1>2. /\ matching_index'[i] = j /\ matching_index'[j] = i
      /\ selected'[i] /\ selected'[j]
      /\ cur_cost'[i] = c /\ cur_cost'[j] = c
  BY DEF Mark
<1>3. \A x \in Index \ {i, j} : /\ matching_index'[x] = matching_index[x]
                                /\ selected'[x] = selected[x]
                                /\ cur_cost'[x] = cur_cost[x]
  BY DEF Mark
<1>4. \A x \in Index : selected[x] =>
          /\ x \notin {i, j} /\ matching_index[x] \in Index \ {i, j}
  <2>1. \A x \in Index : selected[x] =>
            matching_index[x] \in Index /\ selected[matching_index[x]]
    BY DEF PairsAgree
  <2> QED BY <2>1
<1>5. {i, j} = {j, i}
  OBVIOUS
<1>6. PairsAgree'
  <2> SUFFICES ASSUME NEW x \in Index, selected'[x]
               PROVE  /\ matching_index'[x] # x /\ matching_index'[x] \in Index
                      /\ selected'[matching_index'[x]]
                      /\ matching_index'[matching_index'[x]] = x
                      /\ cur_cost'[x] = cost[{x, matching_index'[x]}]
                      /\ cur_cost'[matching_index'[x]]
                            = cost[{x, matching_index'[x]}]
    BY DEF PairsAgree
  <2>1. CASE x = i
    BY <1>2, <2>1
  <2>2. CASE x = j
    BY <1>2, <1>5, <2>2
  <2>3. CASE x \notin {i, j}
    <3>1. selected[x]
      BY <1>3, <2>3
    <3>2. matching_index[x] \in Index \ {i, j}
      BY <1>4, <3>1
    <3> DEFINE y == matching_index[x]
    <3>3. matching_index'[x] = y /\ cur_cost'[x] = cur_cost[x]
      BY <1>3, <2>3
    <3>4. /\ y # x /\ selected[y] /\ matching_index[y] = x
          /\ cur_cost[x] = cost[{x, y}] /\ cur_cost[y] = cost[{x, y}]
      BY <3>1 DEF PairsAgree
    <3>5. /\ matching_index'[y] = matching_index[y]
          /\ selected'[y] = selected[y] /\ cur_cost'[y] = cur_cost[y]
      BY <1>3, <3>2
    <3> QED BY <3>2, <3>3, <3>4, <3>5
  <2> QED BY <2>1, <2>2, <2>3
<1>7. InMind'
  <2> SUFFICES ASSUME NEW x \in Index, ~selected'[x], cur_cost'[x] # NoCost
               PROVE  /\ matching_index'[x] \in Index \ {x}
                      /\ cost[{x, matching_index'[x]}] = cur_cost'[x]
    BY DEF InMind, NoCost
  <2>1. x \notin {i, j}
    BY <1>2
  <2> QED BY <1>3, <2>1 DEF InMind
<1>8. \A x \in Index : selected[x] =>
          /\ selected'[x] /\ matching_index'[x] = matching_index[x]
          /\ x # i /\ matching_index[x] # i
  BY <1>3, <1>4
<1> QED BY <1>1, <1>2, <1>6, <1>7, <1>8

\* What make_optimization works on, when selected stripes keep their partners.
LEMMA KeptStripes ==
    ASSUME cost' = cost,
           \A x \in Index : selected[x] =>
              selected'[x] /\ matching_index'[x] = matching_index[x]
    PROVE  ZeroStripes \subseteq ZeroStripes' /\ PaidStripes \subseteq PaidStripes'
<1>1. ZeroStripes \subseteq ZeroStripes'
  BY DEF ZeroStripes
<1>2. PaidStripes \subseteq PaidStripes'
  BY DEF PaidStripes
<1> QED BY <1>1, <1>2

LEMMA KeptPairs ==
    ASSUME ZeroPairs, Candidates,
           cost' = cost, stripes' = stripes, UNCHANGED opt_vars,
           \A x \in Index : selected[x] =>
              selected'[x] /\ matching_index'[x] = matching_index[x]
    PROVE  ZeroPairs' /\ Candidates'
<1>1. zero_map' = zero_map /\ none_zero_candidate' = none_zero_candidate
  BY DEF opt_vars
<1>2. ZeroStripes \subseteq ZeroStripes' /\ PaidStripes \subseteq PaidStripes'
  BY KeptStripes
<1>3. ZeroPairs'
  <2>1. \A d \in {ParityDist(x) : x \in Index} :
            zero_map[d] \in Seq(ZeroStripes')
    BY <1>2, SeqFacts DEF ZeroPairs
  <2> QED BY <1>1, <2>1 DEF ZeroPairs, ParityDist
<1>4. Candidates'
  <2>1. none_zero_candidate \in Seq(PaidStripes')
    BY <1>2, SeqFacts DEF Candidates
  <2>2. \A n \in DOMAIN none_zero_candidate :
            matching_index'[none_zero_candidate[n]]
               = matching_index[none_zero_candidate[n]]
    <3>1. \A n \in DOMAIN none_zero_candidate :
              none_zero_candidate[n] \in PaidStripes
      BY DEF Candidates
    <3> QED BY <3>1 DEF PaidStripes
  <2> QED BY <1>1, <2>1, <2>2 DEF Candidates
<1> QED BY <1>3, <1>4

\* mark_matched with the flag: a pair that costs nothing goes into zero_map, one
\* with the same parities that does not is a new candidate.
LEMMA RememberPairs ==
    ASSUME ZeroPairs, Candidates,
           cost' = cost, stripes' = stripes,
           NEW i \in Index, NEW j \in Index, NEW c, cost[{i, j}] = c,
           \A x \in Index : selected[x] =>
              /\ selected'[x] /\ matching_index'[x] = matching_index[x]
              /\ x # i /\ matching_index[x] # i,
           selected'[i], matching_index'[i] = j,
           \A x \in Index : selected[x] => j # x,
           Remember(i, j, c)
    PROVE  ZeroPairs' /\ Candidates'
<1> DEFINE cand == none_zero_candidate
           d0 == ParityDist(i)
<1>1. ZeroStripes \subseteq ZeroStripes' /\ PaidStripes \subseteq PaidStripes'
  BY KeptStripes
<1>2. \A d \in {ParityDist(x) : x \in Index} :
          zero_map[d] \in Seq(ZeroStripes) /\ zero_map[d] \in Seq(ZeroStripes')
  BY <1>1, SeqFacts DEF ZeroPairs
<1>3. cand \in Seq(PaidStripes')
  BY <1>1, SeqFacts DEF Candidates
<1>4. \A n \in DOMAIN cand : /\ cand[n] \in Index /\ selected[cand[n]]
                            /\ matching_index'[cand[n]] = matching_index[cand[n]]
  <2>1. \A n \in DOMAIN cand : cand[n] \in PaidStripes
    BY DEF Candidates
  <2> QED BY <2>1 DEF PaidStripes
<1>5. DOMAIN zero_map = {ParityDist(x) : x \in Index}
  BY DEF ZeroPairs
<1>6. CASE c = 0
  <2>1. /\ none_zero_candidate' = cand
        /\ zero_map' = [zero_map EXCEPT ![d0] = <<i>> \o zero_map[d0]]
    BY <1>6 DEF Remember
  <2>2. i \in ZeroStripes'
    BY <1>6 DEF ZeroStripes
  <2>3. <<i>> \o zero_map[d0] \in Seq(ZeroStripes')
    BY <1>1, <1>2, <2>2, SeqFacts
  <2>4. zero_map' \in [{ParityDist(x) : x \in Index} -> Seq(ZeroStripes')]
    BY <1>2, <1>5, <2>1, <2>3 DEF ZeroPairs
  <2>5. ZeroPairs'
    BY <2>4 DEF ZeroPairs, ParityDist
  <2> QED BY <1>3, <1>4, <2>1, <2>5 DEF Candidates
<1>7. CASE c # 0
  <2>1. zero_map' = zero_map
    BY <1>7 DEF Remember
  <2>2. ZeroPairs'
    BY <1>2, <2>1 DEF ZeroPairs, ParityDist
  <2>3. CASE none_zero_candidate' = cand
    BY <1>3, <1>4, <2>2, <2>3 DEF Candidates
  <2>4. CASE none_zero_candidate' = Append(cand, i)
    <3>1. i \in PaidStripes'
      BY <1>7 DEF PaidStripes
    <3>2. none_zero_candidate' \in Seq(PaidStripes')
      BY <1>3, <2>4, <3>1
    <3>3. /\ DOMAIN cand = 1..Len(cand) /\ Len(cand) \in Nat
          /\ DOMAIN none_zero_candidate' = 1..(Len(cand) + 1)
          /\ \A n \in DOMAIN cand : none_zero_candidate'[n] = cand[n]
          /\ none_zero_candidate'[Len(cand) + 1] = i
      BY <1>3, <2>4
    <3>4. ASSUME NEW n \in DOMAIN none_zero_candidate',
                 NEW o \in DOMAIN none_zero_candidate', n # o
          PROVE  /\ none_zero_candidate'[o] # none_zero_candidate'[n]
                 /\ none_zero_candidate'[o]
                       # matching_index'[none_zero_candidate'[n]]
      <4>1. CASE n \in DOMAIN cand /\ o \in DOMAIN cand
        BY <1>4, <3>3, <3>4, <4>1 DEF Candidates
      <4>2. CASE n \in DOMAIN cand /\ o = Len(cand) + 1
        BY <1>4, <3>3, <4>2
      <4>3. CASE n = Len(cand) + 1 /\ o \in DOMAIN cand
        BY <1>4, <3>3, <4>3
      <4> QED BY <3>3, <3>4, <4>1, <4>2, <4>3
    <3> QED BY <2>2, <3>2, <3>4 DEF Candidates
  <2> QED BY <1>7, <2>3, <2>4 DEF Remember
<1> QED BY <1>6, <1>7

LEMMA IInvInit == Init => IInv
<1> SUFFICES ASSUME Init PROVE IInv
  OBVIOUS
<1>1. 0 \in Nat /\ NoCost \in Nat /\ 0 < M
  BY StripeAssumption DEF StripeAssumption, NoCost
<1>2. Types
  BY <1>1 DEF Init, Types, CostRange
<1>3. Searching /\ InMind /\ PairsAgree
  BY <1>1 DEF Init, Searching, InMind, PairsAgree
<1>4. ZeroPairs
  BY DEF Init, ZeroPairs
<1>5. Candidates
  BY DEF Init, Candidates
<1> QED BY <1>2, <1>3, <1>4, <1>5 DEF IInv

\* Steps that leave the stripes alone.
LEMMA StripesKept ==
    ASSUME IInv, Types', Searching', UNCHANGED <<stripes, cost, stripe_vars, opt_vars>>
    PROVE  IInv'
<1>1. /\ matching_index' = matching_index /\ cur_cost' = cur_cost
      /\ selected' = selected /\ cost' = cost /\ stripes' = stripes
      /\ UNCHANGED opt_vars
  BY DEF stripe_vars
<1>2. ZeroPairs' /\ Candidates'
  BY <1>1, KeptPairs DEF IInv
<1>3. InMind' /\ PairsAgree'
  BY <1>1 DEF IInv, InMind, PairsAgree
<1> QED BY <1>2, <1>3 DEF IInv

\* A stripe takes the partner it has in mind or finds, with the flag.
LEMMA MatchStep ==
    ASSUME IInv, Searching', NEW i \in Index, NEW j \in Index, i # j,
           ~selected[i], ~selected[j],
           NEW c \in CostRange, cost[{i, j}] = c,
           Mark(i, j, c), Remember(i, j, c) \/ UNCHANGED opt_vars,
           UNCHANGED <<stripes, cost, level>>,
           cur_stripe' \in Index \cup {NoIndex}
    PROVE  IInv'
<1>1. /\ PairsAgree' /\ InMind'
      /\ matching_index' \in [Index -> Index \cup {NoIndex}]
      /\ cur_cost' \in [Index -> CostRange]
      /\ selected' \in [Index -> BOOLEAN]
      /\ \A x \in Index : selected[x] =>
            /\ selected'[x] /\ matching_index'[x] = matching_index[x]
            /\ x # i /\ matching_index[x] # i
      /\ selected'[i] /\ matching_index'[i] = j
  BY MarkPairs DEF IInv
<1>2. Types'
  <2>1. CostRange' = CostRange
    BY DEF CostRange
  <2> QED BY <1>1, <2>1 DEF IInv, Types
<1>3. ZeroPairs' /\ Candidates'
  <2>1. CASE Remember(i, j, c)
    BY <1>1, <2>1, RememberPairs DEF IInv
  <2>2. CASE UNCHANGED opt_vars
    BY <1>1, <2>2, KeptPairs DEF IInv
  <2> QED BY <2>1, <2>2
<1> QED BY <1>1, <1>2, <1>3 DEF IInv

\* Another partner, or none, in mind for a stripe that is not matched.
LEMMA MindStep ==
    ASSUME IInv, Searching', NEW i \in Index, ~selected[i],
           NEW y \in Index \cup {NoIndex}, NEW c \in CostRange,
           c # NoCost => y \in Index \ {i} /\ cost[{i, y}] = c,
           matching_index' = [matching_index EXCEPT ![i] = y],
           cur_cost' = [cur_cost EXCEPT ![i] = c],
           UNCHANGED <<stripes, cost, selected, opt_vars, level>>,
           cur_stripe' \in Index \cup {NoIndex}
    PROVE  IInv'
<1>1. /\ matching_index' \in [Index -> Index \cup {NoIndex}]
      /\ cur_cost' \in [Index -> CostRange]
      /\ matching_index'[i] = y /\ cur_cost'[i] = c
      /\ \A x \in Index \ {i} : /\ matching_index'[x] = matching_index[x]
                               /\ cur_cost'[x] = cur_cost[x]
  BY DEF IInv, Types
<1>2. Types'
  <2>1. CostRange' = CostRange
    BY DEF CostRange
  <2> QED BY <1>1, <2>1 DEF IInv, Types
<1>3. \A x \in Index : selected[x] => x # i /\ matching_index[x] \in Index \ {i}
  BY DEF IInv, PairsAgree
<1>4. ZeroPairs' /\ Candidates'
  BY <1>1, <1>3, KeptPairs DEF IInv
<1>5. PairsAgree'
  BY <1>1, <1>3 DEF IInv, PairsAgree
<1>6. InMind'
  <2> SUFFICES ASSUME NEW x \in Index, ~selected[x], cur_cost'[x] # NoCost
               PROVE  /\ matching_index'[x] \in Index \ {x}
                      /\ cost[{x, matching_index'[x]}] = cur_cost'[x]
    BY DEF InMind, NoCost
  <2>1. CASE x = i
    BY <1>1, <2>1
  <2>2. CASE x # i
    <3>1. /\ matching_index'[x] = matching_index[x]
          /\ cur_cost'[x] = cur_cost[x]
      BY <1>1, <2>2
    <3> QED BY <3>1 DEF IInv, InMind
  <2> QED BY <2>1, <2>2
<1> QED BY <1>2, <1>4, <1>5, <1>6 DEF IInv

\* make_optimization exchanges a pair that costs something and one that does
\* not for two that do not.
LEMMA ExchangeStep ==
    ASSUME IInv, none_zero_candidate # <<>>,
           none_zero_candidate' = Tail(none_zero_candidate),
           NEW ci \in PaidStripes, ci = Head(none_zero_candidate),
           NEW i \in ZeroStripes,
           NEW x \in Index, NEW y \in Index, NEW u \in Index, NEW v \in Index,
           \/ x = matching_index[ci] /\ y = matching_index[i] /\ u = ci /\ v = i
           \/ x = ci /\ y = matching_index[i] /\ u = matching_index[ci] /\ v = i,
           cost[{x, y}] = 0, cost[{u, v}] = 0,
           Exchange(x, y, u, v),
           UNCHANGED <<pc, stripes, cost, selected, search_vars>>
    PROVE  IInv'
<1> DEFINE cj == matching_index[ci]
           j == matching_index[i]
           four == {ci, cj, i, j}
<1> USE DEF IInv
<1>1. ci \in Index /\ selected[ci] /\ cost[{ci, cj}] # 0
  BY DEF PaidStripes
<1>2. i \in Index /\ selected[i] /\ cost[{i, j}] = 0
  BY DEF ZeroStripes
<1>3. /\ cj \in Index /\ cj # ci /\ selected[cj] /\ matching_index[cj] = ci
      /\ j \in Index /\ j # i /\ selected[j] /\ matching_index[j] = i
  BY <1>1, <1>2 DEF PairsAgree
<1>4. /\ {ci, cj} = {cj, ci} /\ {i, j} = {j, i}
      /\ i # ci /\ i # cj /\ j # ci /\ j # cj
  BY <1>1, <1>2, <1>3
<1>5. /\ x # y /\ u # v /\ x # u /\ x # v /\ y # u /\ y # v
      /\ {x, y, u, v} = four
  BY <1>3, <1>4
<1>6. /\ matching_index' \in [Index -> Index \cup {NoIndex}]
      /\ cur_cost' \in [Index -> CostRange]
      /\ matching_index'[x] = y /\ matching_index'[y] = x
      /\ matching_index'[u] = v /\ matching_index'[v] = u
      /\ cur_cost'[x] = 0 /\ cur_cost'[y] = 0
      /\ cur_cost'[u] = 0 /\ cur_cost'[v] = 0
  <2>1. /\ matching_index' = [matching_index EXCEPT ![x] = y, ![y] = x,
                                                    ![u] = v, ![v] = u]
        /\ cur_cost' = [cur_cost EXCEPT ![x] = 0, ![y] = 0, ![u] = 0, ![v] = 0]
    BY DEF Exchange
  <2>2. /\ matching_index \in [Index -> Index \cup {NoIndex}]
        /\ cur_cost \in [Index -> CostRange] /\ 0 \in CostRange
    <3>1. 0 \in CostRange
      BY DEF CostRange
    <3> QED BY <3>1 DEF Types
  <2>3. /\ matching_index' \in [Index -> Index \cup {NoIndex}]
        /\ cur_cost' \in [Index -> CostRange]
    BY <2>1, <2>2
  <2>4. /\ matching_index'[x] = y /\ matching_index'[y] = x
        /\ matching_index'[u] = v /\ matching_index'[v] = u
    BY <1>5, <2>1, <2>2
  <2>5. /\ cur_cost'[x] = 0 /\ cur_cost'[y] = 0
        /\ cur_cost'[u] = 0 /\ cur_cost'[v] = 0
    BY <1>5, <2>1, <2>2
  <2> QED BY <2>3, <2>4, <2>5
<1>7. \A z \in Index \ four : /\ matching_index'[z] = matching_index[z]
                             /\ cur_cost'[z] = cur_cost[z]
  BY <1>5 DEF Exchange, Types
<1>8. \A z \in Index \ four : selected[z] =>
          matching_index[z] \in Index \ four
  <2> SUFFICES ASSUME NEW z \in Index \ four, selected[z]
               PROVE  matching_index[z] \in Index \ four
    OBVIOUS
  <2>1. matching_index[z] \in Index /\ matching_index[matching_index[z]] = z
    BY DEF PairsAgree
  <2>2. \A t \in four : matching_index[t] \in four
    BY <1>3
  <2> QED BY <2>1, <2>2
<1>9. {x, y} = {y, x} /\ {u, v} = {v, u}
  OBVIOUS
<1>10. Types'
  <2>1. CostRange' = CostRange
    BY DEF CostRange
  <2> QED BY <1>6, <2>1 DEF Types, search_vars
<1>11. Searching'
  BY DEF Searching, search_vars
<1>12. InMind'
  <2>1. \A z \in Index : ~selected[z] => z \notin four
    BY <1>1, <1>2, <1>3
  <2>2. \A z \in Index : ~selected[z] =>
            /\ matching_index'[z] = matching_index[z]
            /\ cur_cost'[z] = cur_cost[z]
    BY <1>7, <2>1
  <2> QED BY <2>2 DEF InMind
<1>13. PairsAgree'
  <2> SUFFICES ASSUME NEW z \in Index, selected[z]
               PROVE  /\ matching_index'[z] # z /\ matching_index'[z] \in Index
                      /\ selected[matching_index'[z]]
                      /\ matching_index'[matching_index'[z]] = z
                      /\ cur_cost'[z] = cost[{z, matching_index'[z]}]
                      /\ cur_cost'[matching_index'[z]]
                            = cost[{z, matching_index'[z]}]
    BY DEF PairsAgree
  <2>1. selected[x] /\ selected[y] /\ selected[u] /\ selected[v]
    BY <1>1, <1>2, <1>3
  <2>2. CASE z = x
    BY <1>5, <1>6, <2>1, <2>2
  <2>3. CASE z = y
    <3>1. matching_index'[z] = x /\ matching_index'[x] = z /\ x # z
      BY <1>5, <1>6, <2>3
    <3>2. cost[{z, x}] = 0 /\ cur_cost'[z] = 0 /\ cur_cost'[x] = 0
      BY <1>6, <1>9, <2>3
    <3> QED BY <2>1, <3>1, <3>2
  <2>4. CASE z = u
    BY <1>5, <1>6, <2>1, <2>4
  <2>5. CASE z = v
    <3>1. matching_index'[z] = u /\ matching_index'[u] = z /\ u # z
      BY <1>5, <1>6, <2>5
    <3>2. cost[{z, u}] = 0 /\ cur_cost'[z] = 0 /\ cur_cost'[u] = 0
      BY <1>6, <1>9, <2>5
    <3> QED BY <2>1, <3>1, <3>2
  <2>6. CASE z \notin four
    <3> DEFINE w == matching_index[z]
    <3>1. /\ w # z /\ w \in Index /\ selected[w] /\ matching_index[w] = z
          /\ cur_cost[z] = cost[{z, w}] /\ cur_cost[w] = cost[{z, w}]
      BY DEF PairsAgree
    <3>2. w \in Index \ four
      BY <1>8, <2>6
    <3>3. matching_index'[z] = w /\ cur_cost'[z] = cur_cost[z]
      BY <1>7, <2>6
    <3>4. matching_index'[w] = matching_index[w] /\ cur_cost'[w] = cur_cost[w]
      BY <1>7, <3>2
    <3> QED BY <3>1, <3>3, <3>4
  <2> QED BY <1>5, <2>2, <2>3, <2>4, <2>5, <2>6
<1>14. ZeroPairs'
  <2>1. ZeroStripes \subseteq ZeroStripes' /\ x \in ZeroStripes'
    <3>1. \A z \in four : z \in ZeroStripes'
      <4>1. /\ cost[{x, matching_index'[x]}] = 0
            /\ cost[{y, matching_index'[y]}] = 0
            /\ cost[{u, matching_index'[u]}] = 0
            /\ cost[{v, matching_index'[v]}] = 0
        BY <1>6, <1>9
      <4>2. \A z \in {x, y, u, v} : cost[{z, matching_index'[z]}] = 0
        BY <4>1
      <4>3. \A z \in four : z \in Index /\ selected[z]
        BY <1>1, <1>2, <1>3
      <4> QED BY <1>5, <4>2, <4>3 DEF ZeroStripes
    <3>2. \A z \in ZeroStripes \ four : z \in ZeroStripes'
      BY <1>7 DEF ZeroStripes
    <3> QED BY <1>5, <3>1, <3>2
  <2>2. \A d \in {ParityDist(z) : z \in Index} :
            zero_map[d] \in Seq(ZeroStripes')
    BY <2>1, SeqFacts DEF ZeroPairs
  <2>3. <<x>> \o zero_map[ParityDist(x)] \in Seq(ZeroStripes')
    BY <2>1, <2>2, SeqFacts
  <2>4. zero_map' = [zero_map EXCEPT ![ParityDist(x)] =
                                        <<x>> \o zero_map[ParityDist(x)]]
    BY DEF Exchange
  <2>5. zero_map' \in [{ParityDist(z) : z \in Index} -> Seq(ZeroStripes')]
    BY <2>2, <2>3, <2>4 DEF ZeroPairs
  <2> QED BY <2>5 DEF ZeroPairs, ParityDist
<1>15. Candidates'
  <2> DEFINE cand == none_zero_candidate
             rest == Tail(none_zero_candidate)
  <2>1. /\ rest \in Seq(PaidStripes)
        /\ \A n \in DOMAIN rest :
              n + 1 \in DOMAIN cand /\ rest[n] = cand[n + 1] /\ n + 1 # 1
        /\ 1 \in DOMAIN cand /\ ci = cand[1]
    BY TailFacts DEF Candidates
  <2>2. \A n \in DOMAIN rest : rest[n] \in PaidStripes
    BY <2>1
  <2>3. \A n \in DOMAIN rest : rest[n] \in PaidStripes \ four
    <3> SUFFICES ASSUME NEW n \in DOMAIN rest PROVE rest[n] \notin four
      BY <2>2
    <3>1. rest[n] # ci /\ rest[n] # cj
      BY <2>1 DEF Candidates
    <3>2. rest[n] # i /\ rest[n] # j
      <4>1. cost[{i, matching_index[i]}] = 0 /\ cost[{j, matching_index[j]}] = 0
        BY <1>2, <1>3, <1>4
      <4>2. cost[{rest[n], matching_index[rest[n]]}] # 0
        BY <2>2 DEF PaidStripes
      <4> QED BY <4>1, <4>2
    <3> QED BY <3>1, <3>2
  <2>4. \A z \in PaidStripes \ four : /\ z \in PaidStripes'
                                     /\ matching_index'[z] = matching_index[z]
    BY <1>7 DEF PaidStripes
  <2>5. rest \in Seq(PaidStripes')
    <3> HIDE DEF rest, four
    <3>1. \A n \in DOMAIN rest : rest[n] \in PaidStripes'
      BY <2>3, <2>4
    <3>2. Len(rest) \in Nat /\ DOMAIN rest = 1..Len(rest)
          /\ rest = [n \in 1..Len(rest) |-> rest[n]]
      BY <2>1
    <3>3. rest \in [1..Len(rest) -> PaidStripes']
      BY <3>1, <3>2
    <3> QED BY <3>2, <3>3
  <2>6. ASSUME NEW n \in DOMAIN rest, NEW o \in DOMAIN rest, n # o
        PROVE  rest[o] # rest[n] /\ rest[o] # matching_index'[rest[n]]
    <3>1. matching_index'[rest[n]] = matching_index[rest[n]]
      BY <2>3, <2>4
    <3>2. n \in Nat /\ o \in Nat /\ n + 1 # o + 1
      BY <2>1, <2>6
    <3> QED BY <2>1, <2>6, <3>1, <3>2 DEF Candidates
  <2> QED BY <2>5, <2>6 DEF Candidates
<1> QED BY <1>10, <1>11, <1>12, <1>13, <1>14, <1>15

\* IInv is inductive, one step for each action.
LEMMA IInvStep == IInv /\ [Next]_vars => IInv'
<1> SUFFICES ASSUME IInv, [Next]_vars PROVE IInv'
  OBVIOUS
<1> USE DEF IInv
<1>1. ASSUME Types', Searching',
             UNCHANGED <<stripes, cost, stripe_vars, opt_vars>>
      PROVE  IInv'
  BY <1>1, StripesKept
<1>2. ASSUME UNCHANGED <<cost, stripe_vars, opt_vars, stripes>>,
             level' \in Nat, cur_stripe' \in Index \cup {NoIndex}
      PROVE  Types'
  <2>1. CostRange' = CostRange
    BY <1>2 DEF CostRange
  <2> QED BY <1>2, <2>1 DEF Types, stripe_vars
<1>3. level \in Nat /\ cur_stripe \in Index \cup {NoIndex} /\ 255 > M
  BY StripeAssumption DEF Types, StripeAssumption
<1>4. CASE BuildMap
  <2>1. Types' /\ Searching'
    BY <1>2, <1>3, <1>4 DEF BuildMap, search_vars, Searching
  <2> QED BY <1>1, <1>4, <2>1 DEF BuildMap
<1>5. ASSUME NEW x \in Index, Visit(x)
      PROVE  IInv'
  <2>1. CASE SkipSelected(x)
    <3>1. Types' /\ Searching'
      BY <1>2, <1>3, <2>1 DEF SkipSelected, Searching
    <3> QED BY <1>1, <2>1, <3>1 DEF SkipSelected
  <2>2. CASE TakeFound(x)
    <3> DEFINE y == matching_index[x]
    <3>1. /\ ~selected[x] /\ cur_cost[x] = level /\ ~selected[y]
          /\ Mark(x, y, level) /\ Remember(x, y, level)
          /\ UNCHANGED <<stripes, cost, level, pc>> /\ cur_stripe' = x
          /\ pc = "visit"
      BY <2>2 DEF TakeFound
    <3>2. level < M /\ Searching'
      BY <1>3, <3>1 DEF Searching
    <3>3. y \in Index \ {x} /\ cost[{x, y}] = level
      BY <1>3, <3>1, <3>2, StripeAssumption
      DEF InMind, NoCost, StripeAssumption
    <3>4. level \in CostRange
      BY <1>3 DEF CostRange
    <3> HIDE DEF y
    <3> QED BY <3>1, <3>2, <3>3, <3>4, MatchStep
  <2>3. CASE BeginSearch(x)
    <3>1. Types'
      BY <1>2, <1>3, <2>3 DEF BeginSearch, SearchPartner, stripe_vars
    <3>2. Searching'
      BY <2>3 DEF BeginSearch, SearchPartner, Searching
    <3> QED BY <1>1, <2>3, <3>1, <3>2
            DEF BeginSearch, SearchPartner, stripe_vars
  <2>4. CASE SearchAgain(x)
    <3>1. /\ ~selected[x] /\ cur_stripe' = x
          /\ matching_index' = [matching_index EXCEPT ![x] = NoIndex]
          /\ cur_cost' = [cur_cost EXCEPT ![x] = NoCost]
          /\ UNCHANGED <<stripes, cost, selected, opt_vars, level>>
      BY <2>4 DEF SearchAgain, SearchPartner
    <3>2. Searching'
      BY <2>4 DEF SearchAgain, SearchPartner, Searching
    <3>3. NoCost \in CostRange
      BY DEF NoCost, CostRange
    <3> QED BY <3>1, <3>2, <3>3, MindStep
  <2> QED BY <1>5, <2>1, <2>2, <2>3, <2>4 DEF Visit
<1>6. ASSUME NEW ps \in todo, NEW y \in Index, SearchHit(ps, y)
      PROVE  IInv'
  <2>1. /\ pc = "search" /\ pc' = "visit" /\ y \in Cheaper(Domain(ps))
        /\ CostTo(y) = level
        /\ Mark(cur_stripe, y, level) /\ Remember(cur_stripe, y, level)
        /\ UNCHANGED <<stripes, cost, level, cur_stripe>>
    BY <1>6 DEF SearchHit, Hit
  <2>2. cur_stripe \in Index /\ ~selected[cur_stripe] /\ Searching'
    BY <2>1 DEF Searching
  <2>3. ~selected[y] /\ y # cur_stripe /\ cost[{cur_stripe, y}] = level
    BY <2>1 DEF Cheaper, CostTo
  <2>4. level \in CostRange
    BY <1>3 DEF CostRange
  <2> QED BY <2>1, <2>2, <2>3, <2>4, MatchStep
<1>7. ASSUME NEW ps \in todo, NEW y \in Index, SearchBetter(ps, y)
      PROVE  IInv'
  <2>1. /\ pc = "search" /\ pc' = pc /\ y \in Cheaper(Domain(ps))
        /\ matching_index' = [matching_index EXCEPT ![cur_stripe] = y]
        /\ cur_cost' = [cur_cost EXCEPT ![cur_stripe] = cost[{cur_stripe, y}]]
        /\ UNCHANGED <<stripes, cost, selected, opt_vars, level, cur_stripe>>
    BY <1>7 DEF SearchBetter, CostTo
  <2>2. cur_stripe \in Index /\ ~selected[cur_stripe] /\ Searching'
    BY <2>1 DEF Searching
  <2>3. y # cur_stripe
    BY <2>1 DEF Cheaper
  <2>4. cost[{cur_stripe, y}] \in CostRange
    BY <2>2, CostInRange
  <2> QED BY <2>1, <2>2, <2>3, <2>4, MindStep
<1>8. ASSUME NEW ps \in todo, SearchNothing(ps)
      PROVE  IInv'
  <2>1. Types' /\ Searching'
    BY <1>2, <1>3, <1>8 DEF SearchNothing, Searching, stripe_vars
  <2> QED BY <1>1, <1>8, <2>1 DEF SearchNothing
<1>9. CASE SearchFailed
  <2>1. Types' /\ Searching'
    BY <1>2, <1>3, <1>9 DEF SearchFailed, search_vars, Searching
  <2> QED BY <1>1, <1>9, <2>1 DEF SearchFailed
<1>10. CASE NextLevel
  <2>1. Types' /\ Searching'
    BY <1>2, <1>3, <1>10 DEF NextLevel, Searching
  <2> QED BY <1>1, <1>10, <2>1 DEF NextLevel
<1>11. ASSUME NEW i \in Index, NEW j \in Index, GreedyPick(i, j)
       PROVE  IInv'
  <2>1. /\ pc = "greedy" /\ i < j /\ {i, j} \in Unmatched
        /\ Mark(i, j, cost[{i, j}])
        /\ UNCHANGED <<pc, stripes, cost, opt_vars, level, cur_stripe>>
    BY <1>11 DEF GreedyPick, search_vars
  <2>2. i # j /\ ~selected[i] /\ ~selected[j]
    BY <2>1, IndexFacts DEF Unmatched
  <2>3. cost[{i, j}] \in CostRange
    BY CostInRange
  <2>4. Searching'
    BY <2>1 DEF Searching
  <2> QED BY <1>3, <2>1, <2>2, <2>3, <2>4, MatchStep
<1>12. CASE GreedyEnd
  <2>1. Types' /\ Searching'
    BY <1>2, <1>3, <1>12 DEF GreedyEnd, search_vars, Searching
  <2> QED BY <1>1, <1>12, <2>1 DEF GreedyEnd
<1>13. CASE Optimize
  <2> DEFINE cand == none_zero_candidate
             ci == Head(none_zero_candidate)
             list == zero_map[ParityDist(ci)]
             cj == matching_index[ci]
  <2>1. /\ pc = "optimize" /\ cand # <<>> /\ cand' = Tail(cand)
        /\ UNCHANGED <<pc, stripes, cost, selected, search_vars>>
    BY <1>13 DEF Optimize
  <2>2. ci \in PaidStripes /\ Tail(cand) \in Seq(PaidStripes)
    BY <2>1, TailFacts DEF Candidates
  <2>3. list \in Seq(ZeroStripes)
    BY <2>2 DEF ZeroPairs, PaidStripes
  <2>4. CASE UNCHANGED <<matching_index, cur_cost, zero_map>>
    <3>1. Types' /\ Searching' /\ InMind' /\ PairsAgree'
      <4>1. Types' /\ Searching'
        <5>1. CostRange' = CostRange
          BY <2>1 DEF CostRange
        <5> QED BY <2>1, <2>4, <5>1 DEF Types, Searching, search_vars
      <4> QED BY <4>1, <2>1, <2>4 DEF InMind, PairsAgree
    <3>2. ZeroStripes' = ZeroStripes /\ PaidStripes' = PaidStripes
      BY <2>1, <2>4 DEF ZeroStripes, PaidStripes
    <3>3. ZeroPairs'
      BY <2>1, <2>4, <3>2 DEF ZeroPairs, ParityDist
    <3>4. Candidates'
      <4>1. \A n \in DOMAIN Tail(cand) :
                n + 1 \in DOMAIN cand /\ Tail(cand)[n] = cand[n + 1]
        BY <2>1, TailFacts DEF Candidates
      <4>2. \A n \in DOMAIN Tail(cand) : n \in Nat
        BY <2>2
      <4>3. ASSUME NEW n \in DOMAIN Tail(cand), NEW o \in DOMAIN Tail(cand),
                   n # o
            PROVE  /\ Tail(cand)[o] # Tail(cand)[n]
                   /\ Tail(cand)[o] # matching_index[Tail(cand)[n]]
        <5>1. n + 1 # o + 1
          BY <4>2, <4>3
        <5> QED BY <4>1, <5>1 DEF Candidates
      <4> QED BY <2>1, <2>2, <2>4, <3>2, <4>3 DEF Candidates
    <3> QED BY <3>1, <3>3, <3>4
  <2>5. ASSUME NEW n \in DOMAIN list,
               Straight(ci, list[n]) \/ Crossed(ci, list[n]),
               IF Straight(ci, list[n])
               THEN Exchange(cj, matching_index[list[n]], ci, list[n])
               ELSE Exchange(ci, matching_index[list[n]], cj, list[n])
        PROVE  IInv'
    <3> DEFINE i == list[n]
               j == matching_index[i]
    <3>1. i \in ZeroStripes
      BY <2>3
    <3>2. ci \in Index /\ cj \in Index /\ i \in Index /\ j \in Index
      BY <2>2, <3>1 DEF PaidStripes, ZeroStripes, PairsAgree
    <3> HIDE DEF i, j, cj, ci
    <3>3. CASE Straight(ci, i)
      <4>1. cost[{cj, j}] = 0 /\ cost[{ci, i}] = 0
        BY <3>3 DEF Straight, cj, j
      <4>2. Exchange(cj, j, ci, i)
        BY <2>5, <3>3 DEF i, j
      <4> QED BY <2>1, <2>2, <3>1, <3>2, <4>1, <4>2, ExchangeStep
              DEF ci, cj, j
    <3>4. CASE ~Straight(ci, i)
      <4>1. cost[{ci, j}] = 0 /\ cost[{cj, i}] = 0
        BY <2>5, <3>4 DEF Crossed, cj, j, i
      <4>2. Exchange(ci, j, cj, i)
        BY <2>5, <3>4 DEF i, j
      <4> QED BY <2>1, <2>2, <3>1, <3>2, <4>1, <4>2, ExchangeStep
              DEF ci, cj, j
    <3> QED BY <3>3, <3>4
  <2> QED BY <1>13, <2>4, <2>5 DEF Optimize
<1>14. CASE OptimizeEnd
  <2>1. Types' /\ Searching'
    BY <1>2, <1>3, <1>14 DEF OptimizeEnd, search_vars, Searching
  <2> QED BY <1>1, <1>14, <2>1 DEF OptimizeEnd
<1>15. ASSUME NEW x \in Index, Collect(x)
       PROVE  IInv'
  <2>1. Types' /\ Searching'
    BY <1>2, <1>3, <1>15 DEF Collect, search_vars, Searching, stripe_vars
  <2> QED BY <1>1, <1>15, <2>1 DEF Collect
<1>16. CASE CollectEnd
  <2>1. Types' /\ Searching'
    BY <1>2, <1>3, <1>16 DEF CollectEnd, search_vars, Searching
  <2> QED BY <1>1, <1>16, <2>1 DEF CollectEnd
<1>17. CASE UNCHANGED vars
  <2>1. Types' /\ Searching'
    BY <1>2, <1>3, <1>17 DEF vars, search_vars, Searching, stripe_vars
  <2> QED BY <1>1, <1>17, <2>1 DEF vars
<1> QED BY <1>4, <1>5, <1>6, <1>7, <1>8, <1>9, <1>10, <1>11, <1>12, <1>13,
           <1>14, <1>15, <1>16, <1>17 DEF Next, Search

\* Whatever the costs and however the search, the exchanges and the marks of a
\* partner to be taken later go, selected stripes come in pairs: both stripes
\* of a pair name each other and store the cost of merging them.
THEOREM PairsAgreeHolds == Spec => []PairsAgree
<1>1. IInv => PairsAgree
  BY DEF IInv
<1> QED BY <1>1, IInvInit, IInvStep, PTL DEF Spec

-----------------------------------------------------------------------------
(* Nobody is left over *)

Left == {x \in Index : ~selected[x]}

\* The stripes that are left are even in number and still in remaining_stripes;
\* basic_greedy is to select at least as many pairs as there are left.
LeftEven == IsFiniteSet(Left) /\ Cardinality(Left) % 2 = 0

LeftServed ==
    /\ remaining_stripes \subseteq Index
    /\ it_to_del \cap Left = {}
    /\ pc \in {"visit", "search"} => Left \subseteq remaining_stripes
    /\ pc = "greedy" => /\ num_to_select \in Nat
                        /\ Cardinality(Left) <= 2 * num_to_select
    /\ pc \in {"optimize", "collect", "done"} => Left = {}

LEMMA IndexFinite ==
    /\ IsFiniteSet(Index) /\ StripesNum \in Nat /\ StripesNum % 2 = 0
    /\ Cardinality(Index) = StripesNum
<1>1. StripesNum \in Nat /\ StripesNum % 2 = 0
  BY MatchingAssumption DEF MatchingAssumption
<1>2. IsFiniteSet(1..StripesNum) /\ Cardinality(1..StripesNum) = StripesNum
  <2>1. /\ IsFiniteSet(1..StripesNum)
        /\ Cardinality(1..StripesNum) =
              IF 1 > StripesNum THEN 0 ELSE StripesNum - 1 + 1
    BY <1>1, FS_Interval
  <2> QED BY <1>1, <2>1
<1> QED BY <1>1, <1>2 DEF Index

\* A new pair is two of those who were left.
LEMMA LeftMarked ==
    ASSUME Types, LeftEven, NEW i \in Left, NEW j \in Left, i # j, NEW c, Mark(i, j, c)
    PROVE  /\ Left' = Left \ {i, j} /\ LeftEven'
           /\ Cardinality(Left') = Cardinality(Left) - 2
<1>1. i \in Index /\ j \in Index
  BY DEF Left
<1>2. \A x \in Index : selected'[x] = IF x \in {i, j} THEN TRUE ELSE selected[x]
  BY <1>1 DEF Mark, Types
<1>3. Left' = Left \ {i, j}
  BY <1>2 DEF Left
<1>4. /\ IsFiniteSet(Left \ {i}) /\ Cardinality(Left \ {i}) = Cardinality(Left) - 1
  BY FS_RemoveElement DEF LeftEven
<1>5. /\ IsFiniteSet((Left \ {i}) \ {j})
      /\ Cardinality((Left \ {i}) \ {j}) = Cardinality(Left \ {i}) - 1
  BY <1>4, FS_RemoveElement
<1>6. (Left \ {i}) \ {j} = Left \ {i, j}
  OBVIOUS
<1>7. Cardinality(Left) \in Nat
  BY FS_CardinalityType DEF LeftEven
<1>8. Cardinality(Left') = Cardinality(Left) - 2 /\ IsFiniteSet(Left')
  <2>1. /\ Cardinality(Left \ {i, j}) = Cardinality(Left \ {i}) - 1
        /\ IsFiniteSet(Left \ {i, j})
    BY <1>5, <1>6
  <2>2. Cardinality(Left \ {i, j}) = Cardinality(Left) - 2
    BY <1>4, <1>7, <2>1
  <2> QED BY <1>3, <2>1, <2>2
<1>9. (Cardinality(Left) - 2) % 2 = 0
  BY <1>7 DEF LeftEven
<1> QED BY <1>3, <1>8, <1>9 DEF LeftEven

\* Where no two are left, nobody is.
LEMMA LeftAlone == ASSUME LeftEven, Unmatched = {} PROVE Left = {}
<1> SUFFICES ASSUME NEW x \in Left PROVE FALSE
  OBVIOUS
<1>1. Left # {x}
  BY FS_Singleton DEF LeftEven
<1>2. PICK y \in Left : y # x
  BY <1>1
<1>3. Cardinality({x, y}) = 2
  <2>1. IsFiniteSet({x}) /\ Cardinality({x}) = 1
    BY FS_Singleton
  <2>2. Cardinality({x} \cup {y}) = 2
    BY <1>2, <2>1, FS_AddElement
  <2>3. {x} \cup {y} = {x, y}
    OBVIOUS
  <2> QED BY <2>2, <2>3
<1>4. {x, y} \in Unmatched
  BY <1>3 DEF Unmatched, Pair, Left
<1> QED BY <1>4

LEMMA LeftInit == Init => LeftEven /\ LeftServed
<1> SUFFICES ASSUME Init PROVE LeftEven /\ LeftServed
  OBVIOUS
<1>1. Left = Index
  BY DEF Init, Left
<1>2. LeftEven
  BY <1>1, IndexFinite DEF LeftEven
<1>3. StripesNum <= 2 * (StripesNum \div 2) /\ StripesNum \div 2 \in Nat
  BY IndexFinite
<1> QED BY <1>1, <1>2, <1>3, IndexFinite DEF Init, LeftServed

LEMMA LeftStep ==
    ASSUME IInv, LeftEven, LeftServed, [Next]_vars PROVE LeftEven' /\ LeftServed'
<1> USE DEF IInv
<1>1. ASSUME selected' = selected PROVE Left' = Left /\ LeftEven'
  BY <1>1 DEF Left, LeftEven
<1>2. Cardinality(Left) \in Nat
  BY FS_CardinalityType DEF LeftEven
<1>3. CASE BuildMap
  <2>1. Left' = Left /\ LeftEven' /\ Left \subseteq Index
    BY <1>1, <1>3 DEF BuildMap, stripe_vars, Left
  <2> QED BY <1>3, <2>1 DEF BuildMap, LeftServed, search_vars
<1>4. ASSUME NEW x \in Index, Visit(x)
      PROVE  LeftEven' /\ LeftServed'
  <2>1. CASE SkipSelected(x)
    <3>1. Left' = Left /\ LeftEven' /\ x \notin Left
      BY <1>1, <2>1 DEF SkipSelected, stripe_vars, Left
    <3> QED BY <2>1, <3>1 DEF SkipSelected, LeftServed, map_vars
  <2>2. CASE TakeFound(x)
    <3> DEFINE y == matching_index[x]
    <3>1. /\ ~selected[x] /\ cur_cost[x] = level /\ ~selected[y] /\ pc = "visit"
          /\ Mark(x, y, level) /\ pc' = pc
          /\ it_to_del' = it_to_del \cup {x}
          /\ remaining_stripes' = remaining_stripes
      BY <2>2 DEF TakeFound, map_vars
    <3>2. level # NoCost
      BY <3>1, StripeAssumption DEF Searching, StripeAssumption, NoCost, Types
    <3>3. y \in Index \ {x}
      BY <3>1, <3>2 DEF InMind
    <3>4. x \in Left /\ y \in Left /\ x # y
      BY <3>1, <3>3 DEF Left
    <3> HIDE DEF y
    <3>5. Left' = Left \ {x, y} /\ LeftEven'
      BY <3>1, <3>4, LeftMarked
    <3> QED BY <3>1, <3>5 DEF LeftServed
  <2>3. CASE BeginSearch(x) \/ SearchAgain(x)
    <3>1. Left' = Left /\ LeftEven'
      BY <1>1, <2>3 DEF BeginSearch, SearchAgain, SearchPartner
    <3> QED BY <2>3, <3>1
            DEF BeginSearch, SearchAgain, SearchPartner, LeftServed, map_vars
  <2> QED BY <1>4, <2>1, <2>2, <2>3 DEF Visit
<1>5. ASSUME NEW ps \in todo, NEW y \in Index, SearchHit(ps, y)
      PROVE  LeftEven' /\ LeftServed'
  <2>1. /\ pc = "search" /\ pc' = "visit" /\ y \in Cheaper(Domain(ps))
        /\ Mark(cur_stripe, y, level)
        /\ it_to_del' = it_to_del \cup {cur_stripe}
        /\ remaining_stripes' = remaining_stripes
    BY <1>5 DEF SearchHit, Hit
  <2>2. cur_stripe \in Left /\ y \in Left /\ y # cur_stripe
    BY <2>1 DEF Searching, Cheaper, Left
  <2>3. Left' = Left \ {cur_stripe, y} /\ LeftEven'
    BY <2>1, <2>2, LeftMarked
  <2> QED BY <2>1, <2>3 DEF LeftServed
<1>6. ASSUME NEW ps \in todo, SearchNothing(ps) \/ \E y \in Index : SearchBetter(ps, y)
      PROVE  LeftEven' /\ LeftServed'
  <2>1. /\ selected' = selected /\ pc' = pc
        /\ UNCHANGED <<remaining_stripes, it_to_del, num_to_select>>
    BY <1>6 DEF SearchNothing, SearchBetter, stripe_vars, greedy_vars
  <2>2. Left' = Left /\ LeftEven'
    BY <1>1, <2>1
  <2> QED BY <2>1, <2>2 DEF LeftServed
<1>7. CASE SearchFailed
  <2>1. Left' = Left /\ LeftEven'
    BY <1>1, <1>7 DEF SearchFailed, stripe_vars
  <2> QED BY <1>7, <2>1 DEF SearchFailed, LeftServed, map_vars, search_vars
<1>8. CASE NextLevel
  <2>1. Left' = Left /\ LeftEven'
    BY <1>1, <1>8 DEF NextLevel, stripe_vars
  <2>2. /\ pc = "visit" /\ it_to_del' = {}
        /\ remaining_stripes' = remaining_stripes \ it_to_del
        /\ \/ remaining_stripes' = {} /\ pc' = "optimize"
           \/ pc' = "visit"
           \/ /\ pc' = "greedy"
              /\ num_to_select' = Cardinality(remaining_stripes') \div 2
    BY <1>8 DEF NextLevel
  <2>3. Left \subseteq remaining_stripes' /\ remaining_stripes' \subseteq Index
    BY <2>2 DEF LeftServed
  <2>4. /\ Cardinality(remaining_stripes') \in Nat
        /\ Cardinality(Left) <= Cardinality(remaining_stripes')
    BY <2>3, IndexFinite, FS_Subset, FS_CardinalityType
  <2>5. /\ Cardinality(remaining_stripes') \div 2 \in Nat
        /\ Cardinality(Left) <= 2 * (Cardinality(remaining_stripes') \div 2)
    BY <1>2, <2>4 DEF LeftEven
  <2> QED BY <2>1, <2>2, <2>3, <2>5 DEF LeftServed
<1>9. ASSUME NEW i \in Index, NEW j \in Index, GreedyPick(i, j)
      PROVE  LeftEven' /\ LeftServed'
  <2>1. /\ pc = "greedy" /\ pc' = pc /\ i < j /\ {i, j} \in Unmatched
        /\ num_to_select > 0 /\ num_to_select' = num_to_select - 1
        /\ Mark(i, j, cost[{i, j}])
        /\ UNCHANGED <<remaining_stripes, it_to_del>>
    BY <1>9 DEF GreedyPick, search_vars, map_vars
  <2>2. i \in Left /\ j \in Left /\ i # j
    BY <2>1, IndexFacts DEF Unmatched, Left
  <2>3. /\ Left' = Left \ {i, j} /\ LeftEven'
        /\ Cardinality(Left') = Cardinality(Left) - 2
    BY <2>1, <2>2, LeftMarked
  <2> QED BY <1>2, <2>1, <2>3 DEF LeftServed
<1>10. CASE GreedyEnd
  <2>1. Left' = Left /\ LeftEven'
    BY <1>1, <1>10 DEF GreedyEnd, stripe_vars
  <2>2. Left = {}
    <3>1. CASE Unmatched = {}
      BY <3>1, LeftAlone
    <3>2. CASE num_to_select = 0
      BY <1>2, <1>10, <3>2, FS_EmptySet DEF GreedyEnd, LeftServed, LeftEven
    <3> QED BY <1>10, <3>1, <3>2 DEF GreedyEnd
  <2> QED BY <1>10, <2>1, <2>2 DEF GreedyEnd, LeftServed, map_vars, search_vars
<1>11. CASE Optimize \/ OptimizeEnd \/ CollectEnd
  <2>1. Left' = Left /\ LeftEven'
    BY <1>1, <1>11 DEF Optimize, OptimizeEnd, CollectEnd, stripe_vars
  <2> QED BY <1>11, <2>1
          DEF Optimize, OptimizeEnd, CollectEnd, LeftServed, map_vars, search_vars
<1>12. ASSUME NEW x \in Index, Collect(x)
       PROVE  LeftEven' /\ LeftServed'
  <2>1. Left' = Left /\ LeftEven'
    BY <1>1, <1>12 DEF Collect, stripe_vars
  <2> QED BY <1>12, <2>1 DEF Collect, LeftServed, map_vars, search_vars
<1>13. CASE UNCHANGED vars
  <2>1. Left' = Left /\ LeftEven'
    BY <1>1, <1>13 DEF vars, stripe_vars
  <2> QED BY <1>13, <2>1
          DEF vars, LeftServed, map_vars, search_vars, greedy_vars
<1> QED BY <1>3, <1>4, <1>5, <1>6, <1>7, <1>8, <1>9, <1>10, <1>11, <1>12,
           <1>13 DEF Next, Search

\* For any even number of stripes nobody is without partner when a search has
\* ended: no matching_index is read that is UINT32_MAX.
THEOREM NobodyLeftHolds == Spec => []NobodyLeft
<1>1. Init => IInv /\ LeftEven /\ LeftServed
  BY IInvInit, LeftInit
<1>2. IInv /\ LeftEven /\ LeftServed /\ [Next]_vars
         => IInv' /\ LeftEven' /\ LeftServed'
  BY IInvStep, LeftStep
<1>3. LeftServed => NobodyLeft
  BY DEF LeftServed, NobodyLeft, Left
<1> QED BY <1>1, <1>2, <1>3, PTL DEF Spec

-----------------------------------------------------------------------------
(* get_sending_scheme *)

\* The pairs whose transfers are to be generated, of the stripes seen so far.
Due == {q \in Index \X Index : /\ q[1] \in flag /\ q[1] < q[2]
                              /\ matching_index[q[1]] = q[2]
                              /\ cost[{q[1], q[2]}] # 0}

Collecting == {"collect", "done"}

\* Stripes are flagged pair by pair, and what was due for them is generated.
SentSoFar ==
    /\ flag \subseteq Index
    /\ sent = Due
    /\ \A x \in Index : x \in flag <=> matching_index[x] \in flag
    /\ pc \notin Collecting => flag = {}
    /\ pc = "done" => flag = Index

LEMMA SentInit == Init => SentSoFar
<1> SUFFICES ASSUME Init PROVE SentSoFar
  OBVIOUS
<1>1. flag = {} /\ sent = {} /\ pc \notin Collecting /\ pc # "done"
  BY DEF Init, Collecting
<1>2. Due = {}
  BY <1>1 DEF Due
<1> QED BY <1>1, <1>2 DEF SentSoFar

\* While nothing is flagged, pairs may change.
LEMMA SentNothing ==
    ASSUME SentSoFar, pc \notin Collecting, flag' = flag, sent' = sent, pc' # "done"
    PROVE  SentSoFar'
<1>1. flag = {} /\ flag' = {} /\ sent' = sent /\ sent = {}
  BY DEF SentSoFar, Due
<1>2. Due' = {}
  BY <1>1 DEF Due
<1> QED BY <1>1, <1>2 DEF SentSoFar

LEMMA SentStep ==
    ASSUME IInv, LeftServed, SentSoFar, [Next]_vars PROVE SentSoFar'
<1>1. ASSUME NEW x \in Index, Collect(x) PROVE SentSoFar'
  <2> DEFINE y == matching_index[x]
  <2>1. /\ pc = "collect" /\ pc' = pc /\ x \notin flag /\ y \notin flag
        /\ \A z \in 1..(x - 1) : z \in flag \/ matching_index[z] \in flag
        /\ flag' = flag \cup {x, y}
        /\ sent' = IF cur_cost[x] # 0 THEN sent \cup {<<x, y>>} ELSE sent
        /\ UNCHANGED <<cost, matching_index>>
    BY <1>1 DEF Collect, stripe_vars
  <2>2. \A z \in Index : /\ matching_index[z] \in Index /\ matching_index[z] # z
                        /\ matching_index[matching_index[z]] = z
                        /\ cur_cost[z] = cost[{z, matching_index[z]}]
    BY <2>1 DEF IInv, LeftServed, Left, PairsAgree
  <2>3. y \in Index /\ matching_index[y] = x /\ y # x
    BY <2>2
  <2>4. x < y
    <3>1. y \in 1..StripesNum /\ x \in 1..StripesNum /\ StripesNum \in Nat
      BY <2>3, IndexFinite DEF Index
    <3>2. ASSUME y < x PROVE FALSE
      <4>1. y \in 1..(x - 1)
        BY <3>1, <3>2
      <4> QED BY <2>1, <2>3, <4>1
    <3> QED BY <2>3, <3>1, <3>2
  <2>5. \A z \in Index : z \in flag' <=> matching_index[z] \in flag'
    <3> SUFFICES ASSUME NEW z \in Index
                 PROVE  z \in flag' <=> matching_index[z] \in flag'
      OBVIOUS
    <3>1. z \in {x, y} <=> matching_index[z] \in {x, y}
      BY <2>2, <2>3
    <3>2. z \in flag <=> matching_index[z] \in flag
      BY DEF SentSoFar
    <3> HIDE DEF y
    <3> QED BY <2>1, <3>1, <3>2
  <2>6. ASSUME NEW q \in Index \X Index
        PROVE  q \in sent' <=> /\ q[1] \in flag' /\ q[1] < q[2]
                               /\ matching_index[q[1]] = q[2]
                               /\ cost[{q[1], q[2]}] # 0
    <3>1. q \in sent <=> /\ q[1] \in flag /\ q[1] < q[2]
                         /\ matching_index[q[1]] = q[2]
                         /\ cost[{q[1], q[2]}] # 0
      BY DEF SentSoFar, Due
    <3>2. q = <<q[1], q[2]>> /\ q[1] \in Index /\ q[2] \in Index
      OBVIOUS
    <3>3. CASE q[1] = x
      <4>1. q = <<x, y>> <=> q[2] = y
        BY <3>2, <3>3
      <4>2. q \notin sent
        BY <2>1, <3>1, <3>3
      <4>3. cur_cost[x] = cost[{x, y}]
        BY <2>2
      <4>4. q \in sent' <=> q = <<x, y>> /\ cur_cost[x] # 0
        BY <2>1, <4>2
      <4> HIDE DEF y
      <4> QED BY <2>1, <2>4, <3>3, <4>1, <4>3, <4>4 DEF y
    <3>4. CASE q[1] # x
      <4>1. q \in sent' <=> q \in sent
        BY <2>1, <3>2, <3>4
      <4>2. CASE q[1] = y
        <5>1. matching_index[q[1]] = x /\ x \in Nat /\ y \in Nat
          BY <2>3, <4>2, IndexFacts
        <5>2. ~(q[1] < q[2] /\ matching_index[q[1]] = q[2])
          BY <2>4, <4>2, <5>1
        <5> QED BY <3>1, <4>1, <5>2
      <4>3. CASE q[1] # y
        <5>1. q[1] \in flag' <=> q[1] \in flag
          BY <2>1, <3>4, <4>3
        <5> QED BY <3>1, <4>1, <5>1
      <4> QED BY <4>2, <4>3
    <3> QED BY <3>3, <3>4
  <2>7. sent' \subseteq Index \X Index
    <3>1. sent \subseteq Index \X Index
      BY DEF SentSoFar, Due
    <3> QED BY <2>1, <2>3, <3>1
  <2>8. sent' = Due'
    BY <2>1, <2>6, <2>7 DEF Due
  <2> QED BY <2>1, <2>3, <2>5, <2>8 DEF SentSoFar, Collecting
<1>2. CASE CollectEnd
  <2>1. /\ pc = "collect" /\ pc' = "done"
        /\ UNCHANGED <<matching_index, cost, flag, sent>>
        /\ \A x \in Index : x \in flag \/ matching_index[x] \in flag
    BY <1>2 DEF CollectEnd, stripe_vars, out_vars
  <2>2. flag = Index
    BY <2>1 DEF SentSoFar
  <2>3. Due' = Due
    BY <2>1 DEF Due
  <2> QED BY <2>1, <2>2, <2>3 DEF SentSoFar, Collecting
<1>3. CASE UNCHANGED vars
  <2>1. UNCHANGED <<pc, flag, sent, matching_index, cost>>
    BY <1>3 DEF vars, out_vars, stripe_vars
  <2>2. Due' = Due
    BY <2>1 DEF Due
  <2> QED BY <2>1, <2>2 DEF SentSoFar
<1>4. ASSUME [Next]_vars, \A x \in Index : ~Collect(x), ~CollectEnd, vars' # vars
      PROVE  pc \notin Collecting /\ flag' = flag /\ sent' = sent /\ pc' # "done"
  <2>1. CASE BuildMap \/ SearchFailed \/ NextLevel
    BY <2>1 DEF BuildMap, SearchFailed, NextLevel, out_vars, Collecting
  <2>2. ASSUME NEW x \in Index, Visit(x)
        PROVE  pc \notin Collecting /\ flag' = flag /\ sent' = sent /\ pc' # "done"
    BY <2>2 DEF Visit, SkipSelected, TakeFound, BeginSearch, SearchAgain,
                SearchPartner, out_vars, Collecting
  <2>3. ASSUME NEW ps \in todo, Search(ps)
        PROVE  pc \notin Collecting /\ flag' = flag /\ sent' = sent /\ pc' # "done"
    BY <2>3 DEF Search, SearchNothing, SearchHit, SearchBetter, out_vars, Collecting
  <2>4. ASSUME NEW i \in Index, NEW j \in Index, GreedyPick(i, j)
        PROVE  pc \notin Collecting /\ flag' = flag /\ sent' = sent /\ pc' # "done"
    BY <2>4 DEF GreedyPick, out_vars, Collecting
  <2>5. CASE GreedyEnd \/ Optimize \/ OptimizeEnd
    BY <2>5 DEF GreedyEnd, Optimize, OptimizeEnd, out_vars, Collecting
  <2> QED BY <1>4, <2>1, <2>2, <2>3, <2>4, <2>5 DEF Next
<1> QED BY <1>1, <1>2, <1>3, <1>4, SentNothing

\* The transfers of every pair that costs something are generated, once each and
\* with the smaller index first, for any even number of stripes and any costs.
THEOREM SchemeCompleteHolds == Spec => []SchemeComplete
<1>1. Init => IInv /\ LeftEven /\ LeftServed /\ SentSoFar
  BY IInvInit, LeftInit, SentInit
<1>2. IInv /\ LeftEven /\ LeftServed /\ SentSoFar /\ [Next]_vars
         => IInv' /\ LeftEven' /\ LeftServed' /\ SentSoFar'
  BY IInvStep, LeftStep, SentStep
<1>3. SentSoFar => SchemeComplete
  BY DEF SentSoFar, SchemeComplete, Due
<1> QED BY <1>1, <1>2, <1>3, PTL DEF Spec

-----------------------------------------------------------------------------
(* zero_map *)

\* Each list of zero_map has a pair once; candidates have their partner's parities,
\* so that an exchange adds to the list that it took from.
ZeroOnce ==
    \A d \in DOMAIN zero_map : \A m, n \in DOMAIN zero_map[d] :
        PairOf(zero_map[d][m]) = PairOf(zero_map[d][n]) => m = n
Aligned ==
    \A n \in DOMAIN none_zero_candidate :
        ParityDist(none_zero_candidate[n])
            = ParityDist(matching_index[none_zero_candidate[n]])

\* The pair of a stripe after a step.
PairNext(x) == {x, matching_index'[x]}

Kept ==
    /\ cost' = cost /\ stripes' = stripes
    /\ \A x \in Index : selected[x] =>
          selected'[x] /\ matching_index'[x] = matching_index[x]

LEMMA ZeroEntries ==
    ASSUME ZeroPairs, NEW d \in DOMAIN zero_map
    PROVE  /\ zero_map[d] \in Seq(ZeroStripes)
           /\ \A n \in DOMAIN zero_map[d] :
                 zero_map[d][n] \in Index /\ selected[zero_map[d][n]]
<1>1. zero_map[d] \in Seq(ZeroStripes)
  BY DEF ZeroPairs
<1>2. \A n \in DOMAIN zero_map[d] : zero_map[d][n] \in ZeroStripes
  BY <1>1
<1> QED BY <1>1, <1>2 DEF ZeroStripes

LEMMA CandidateEntries ==
    ASSUME Candidates
    PROVE  \A n \in DOMAIN none_zero_candidate :
              /\ none_zero_candidate[n] \in Index
              /\ selected[none_zero_candidate[n]]
<1>1. \A n \in DOMAIN none_zero_candidate : none_zero_candidate[n] \in PaidStripes
  BY DEF Candidates
<1> QED BY <1>1 DEF PaidStripes

\* An element in front of a sequence.
LEMMA FrontFacts ==
    ASSUME NEW S, NEW q \in Seq(S), NEW e
    PROVE  /\ DOMAIN (<<e>> \o q) = 1..(Len(q) + 1) /\ Len(q) \in Nat
           /\ (<<e>> \o q)[1] = e
           /\ \A n \in 2..(Len(q) + 1) :
                 n - 1 \in DOMAIN q /\ (<<e>> \o q)[n] = q[n - 1]
<1>1. Len(q) \in Nat /\ DOMAIN q = 1..Len(q)
  OBVIOUS
<1>2. /\ Len(<<e>> \o q) = Len(q) + 1
      /\ <<e>> \o q \in Seq(S \cup {e})
  <2>1. <<e>> \in Seq(S \cup {e}) /\ q \in Seq(S \cup {e}) /\ Len(<<e>>) = 1
    BY SeqFacts
  <2> QED BY <2>1
<1>3. DOMAIN (<<e>> \o q) = 1..(Len(q) + 1)
  BY <1>2
<1>4. (<<e>> \o q)[1] = e
  BY <1>1
<1>5. \A n \in 2..(Len(q) + 1) :
         n - 1 \in DOMAIN q /\ (<<e>> \o q)[n] = q[n - 1]
  BY <1>1
<1> QED BY <1>1, <1>3, <1>4, <1>5

LEMMA ZeroOnceNext ==
    ASSUME \A d \in DOMAIN zero_map' : \A m, n \in DOMAIN zero_map'[d] :
              PairNext(zero_map'[d][m]) = PairNext(zero_map'[d][n]) => m = n
    PROVE  ZeroOnce'
  BY DEF ZeroOnce, PairOf, PairNext

LEMMA ZeroKept ==
    ASSUME ZeroPairs, Candidates, ZeroOnce, Aligned, Kept, UNCHANGED opt_vars
    PROVE  ZeroOnce' /\ Aligned'
<1>1. zero_map' = zero_map /\ none_zero_candidate' = none_zero_candidate
  BY DEF opt_vars
<1>2. \A d \in DOMAIN zero_map : \A n \in DOMAIN zero_map[d] :
          PairNext(zero_map[d][n]) = PairOf(zero_map[d][n])
  BY ZeroEntries DEF Kept, PairOf, PairNext
<1>3. ZeroOnce'
  BY <1>1, <1>2, ZeroOnceNext DEF ZeroOnce
<1>4. \A n \in DOMAIN none_zero_candidate :
          matching_index'[none_zero_candidate[n]]
             = matching_index[none_zero_candidate[n]]
  BY CandidateEntries DEF Kept
<1>5. Aligned'
  BY <1>1, <1>4 DEF Aligned, Kept, ParityDist
<1> QED BY <1>3, <1>5

\* An entry is put in front of one list: its pair is none of those listed.
LEMMA ZeroFront ==
    ASSUME ZeroPairs, NEW d0 \in DOMAIN zero_map, NEW i,
           zero_map' = [zero_map EXCEPT ![d0] = <<i>> \o @],
           \A d \in DOMAIN zero_map : \A m, n \in DOMAIN zero_map[d] :
              PairNext(zero_map[d][m]) = PairNext(zero_map[d][n]) => m = n,
           \A n \in DOMAIN zero_map[d0] :
              PairNext(zero_map[d0][n]) # PairNext(i)
    PROVE  ZeroOnce'
<1> SUFFICES ASSUME NEW d \in DOMAIN zero_map,
                    NEW m \in DOMAIN zero_map'[d], NEW n \in DOMAIN zero_map'[d],
                    PairNext(zero_map'[d][m]) = PairNext(zero_map'[d][n]),
                    m # n
             PROVE  FALSE
  BY ZeroOnceNext
<1> DEFINE list == zero_map[d]
<1>1. CASE d # d0
  <2>1. zero_map'[d] = list
    BY <1>1
  <2> QED BY <2>1
<1>2. CASE d = d0
  <2>1. zero_map'[d] = <<i>> \o list /\ list \in Seq(ZeroStripes)
    BY <1>2, ZeroEntries
  <2>2. /\ m \in 1..(Len(list) + 1) /\ n \in 1..(Len(list) + 1)
        /\ Len(list) \in Nat /\ zero_map'[d][1] = i
        /\ \A o \in 2..(Len(list) + 1) :
              o - 1 \in DOMAIN list /\ zero_map'[d][o] = list[o - 1]
    BY <2>1, FrontFacts
  <2>3. /\ \A o, p \in DOMAIN list :
              PairNext(list[o]) = PairNext(list[p]) => o = p
        /\ \A o \in DOMAIN list : PairNext(list[o]) # PairNext(i)
    BY <1>2
  <2> HIDE DEF list
  <2>4. CASE m = 1
    <3>1. n \in 2..(Len(list) + 1)
      BY <2>2, <2>4
    <3> QED BY <2>2, <2>3, <2>4, <3>1
  <2>5. CASE n = 1
    <3>1. m \in 2..(Len(list) + 1)
      BY <2>2, <2>5
    <3> QED BY <2>2, <2>3, <2>5, <3>1
  <2>6. CASE m # 1 /\ n # 1
    <3>1. m \in 2..(Len(list) + 1) /\ n \in 2..(Len(list) + 1)
      BY <2>2, <2>6
    <3>2. /\ m - 1 \in DOMAIN list /\ n - 1 \in DOMAIN list
          /\ zero_map'[d][m] = list[m - 1] /\ zero_map'[d][n] = list[n - 1]
      BY <2>2, <3>1
    <3>3. m - 1 = n - 1
      BY <2>3, <3>2
    <3> QED BY <2>2, <3>3
  <2> QED BY <2>4, <2>5, <2>6
<1> QED BY <1>1, <1>2

LEMMA ZeroRemembered ==
    ASSUME ZeroPairs, Candidates, ZeroOnce, Aligned, PairsAgree, Kept,
           NEW i \in Index, NEW j \in Index, ~selected[i],
           matching_index'[i] = j, NEW c, Remember(i, j, c)
    PROVE  ZeroOnce' /\ Aligned'
<1> DEFINE cand == none_zero_candidate
           d0 == ParityDist(i)
<1>1. \A x \in Index : selected[x] =>
         PairNext(x) = PairOf(x) /\ i \notin PairNext(x)
  <2>1. \A x \in Index : selected[x] =>
           x # i /\ matching_index[x] # i
    BY DEF PairsAgree
  <2>2. \A x \in Index : selected[x] =>
           matching_index'[x] = matching_index[x]
    BY DEF Kept
  <2> QED BY <2>1, <2>2 DEF PairOf, PairNext
<1>2. \A d \in DOMAIN zero_map : \A n \in DOMAIN zero_map[d] :
         /\ PairNext(zero_map[d][n]) = PairOf(zero_map[d][n])
         /\ i \notin PairNext(zero_map[d][n])
  BY <1>1, ZeroEntries
<1>3. ZeroOnce'
  <2>1. \A d \in DOMAIN zero_map : \A m, n \in DOMAIN zero_map[d] :
            PairNext(zero_map[d][m]) = PairNext(zero_map[d][n]) => m = n
    BY <1>2 DEF ZeroOnce
  <2>2. CASE zero_map' = zero_map
    BY <2>1, <2>2, ZeroOnceNext
  <2>3. CASE zero_map' = [zero_map EXCEPT ![d0] = <<i>> \o @]
    <3>1. d0 \in DOMAIN zero_map
      BY DEF ZeroPairs
    <3>2. i \in PairNext(i)
      BY DEF PairNext
    <3>3. \A n \in DOMAIN zero_map[d0] :
              PairNext(zero_map[d0][n]) # PairNext(i)
      BY <1>2, <3>1, <3>2
    <3> HIDE DEF d0
    <3> QED BY <2>1, <2>3, <3>1, <3>3, ZeroFront
  <2> QED BY <2>2, <2>3 DEF Remember
<1>4. Aligned'
  <2>1. \A n \in DOMAIN cand : matching_index'[cand[n]] = matching_index[cand[n]]
    BY CandidateEntries DEF Kept
  <2>2. CASE none_zero_candidate' = cand
    BY <2>1, <2>2 DEF Aligned, Kept, ParityDist
  <2>3. CASE none_zero_candidate' = Append(cand, i) /\ ParityDist(i) = ParityDist(j)
    <3>1. /\ DOMAIN cand = 1..Len(cand) /\ Len(cand) \in Nat
          /\ DOMAIN none_zero_candidate' = 1..(Len(cand) + 1)
          /\ \A n \in DOMAIN cand : none_zero_candidate'[n] = cand[n]
          /\ none_zero_candidate'[Len(cand) + 1] = i
      BY <2>3 DEF Candidates
    <3>2. ASSUME NEW n \in DOMAIN none_zero_candidate'
          PROVE  ParityDist(none_zero_candidate'[n])
                    = ParityDist(matching_index'[none_zero_candidate'[n]])
      <4>1. CASE n \in DOMAIN cand
        BY <2>1, <3>1, <4>1 DEF Aligned
      <4>2. CASE n = Len(cand) + 1
        BY <2>3, <3>1, <4>2
      <4> QED BY <3>1, <4>1, <4>2
    <3> QED BY <3>2 DEF Aligned, Kept, ParityDist
  <2> QED BY <2>2, <2>3 DEF Remember
<1> QED BY <1>3, <1>4

\* An exchange: the pair that cost nothing and the pair it gives away are
\* replaced by two pairs, and the list names one of each.
LEMMA ZeroExchanged ==
    ASSUME ZeroPairs, Candidates, ZeroOnce, Aligned, PairsAgree, Types,
           none_zero_candidate # <<>>,
           none_zero_candidate' = Tail(none_zero_candidate),
           NEW ci \in PaidStripes, ci = Head(none_zero_candidate),
           NEW n0 \in DOMAIN zero_map[ParityDist(ci)],
           NEW i \in Index, i = zero_map[ParityDist(ci)][n0],
           NEW x \in Index, NEW y \in Index, NEW u \in Index, NEW v \in Index,
           \/ x = matching_index[ci] /\ y = matching_index[i] /\ u = ci /\ v = i
           \/ x = ci /\ y = matching_index[i] /\ u = matching_index[ci] /\ v = i,
           Exchange(x, y, u, v),
           UNCHANGED <<stripes, cost, selected>>
    PROVE  ZeroOnce' /\ Aligned'
<1> DEFINE cj == matching_index[ci]
           j == matching_index[i]
           d0 == ParityDist(ci)
           four == {ci, cj, i, j}
           cand == none_zero_candidate
<1>1. ci \in Index /\ selected[ci] /\ cost[{ci, cj}] # 0
  BY DEF PaidStripes
<1>2. d0 \in DOMAIN zero_map
  BY <1>1 DEF ZeroPairs
<1>3. \A d \in DOMAIN zero_map : \A n \in DOMAIN zero_map[d] :
          zero_map[d][n] \in ZeroStripes
  <2> SUFFICES ASSUME NEW d \in DOMAIN zero_map
               PROVE  \A n \in DOMAIN zero_map[d] :
                         zero_map[d][n] \in ZeroStripes
    OBVIOUS
  <2>1. zero_map[d] \in Seq(ZeroStripes)
    BY ZeroEntries
  <2> QED BY <2>1
<1>4. i \in ZeroStripes
  BY <1>2, <1>3
<1>5. selected[i] /\ cost[{i, j}] = 0
  BY <1>4 DEF ZeroStripes
<1>6. /\ cj \in Index /\ cj # ci /\ selected[cj] /\ matching_index[cj] = ci
      /\ j \in Index /\ j # i /\ selected[j] /\ matching_index[j] = i
  BY <1>1, <1>5 DEF PairsAgree
<1>7. i # ci /\ i # cj /\ j # ci /\ j # cj
  <2>1. {ci, cj} = {cj, ci} /\ {i, j} # {ci, cj}
    BY <1>1, <1>5
  <2>2. /\ i = ci => j = cj
        /\ i = cj => j = ci
        /\ j = ci => i = cj
        /\ j = cj => i = ci
    BY <1>6
  <2> QED BY <2>1, <2>2
<1>8. /\ x # y /\ u # v /\ x # u /\ x # v /\ y # u /\ y # v
      /\ {x, y, u, v} = four /\ y = j /\ v = i
  BY <1>6, <1>7
<1>9. /\ matching_index' = [matching_index EXCEPT ![x] = y, ![y] = x,
                                                  ![u] = v, ![v] = u]
      /\ zero_map' = [zero_map EXCEPT ![ParityDist(x)] = <<x>> \o @]
  BY DEF Exchange
<1>10. /\ matching_index'[x] = y /\ matching_index'[y] = x
       /\ matching_index'[u] = v /\ matching_index'[v] = u
       /\ \A z \in Index \ four : matching_index'[z] = matching_index[z]
  <2>1. matching_index \in [Index -> Index \cup {NoIndex}]
    BY DEF Types
  <2>2. \A z \in Index \ four : z \notin {x, y, u, v}
    BY <1>8
  <2>3. /\ matching_index'[x] = y /\ matching_index'[y] = x
        /\ matching_index'[u] = v /\ matching_index'[v] = u
    BY <1>8, <1>9, <2>1
  <2>4. \A z \in Index \ four : matching_index'[z] = matching_index[z]
    BY <1>9, <2>1, <2>2
  <2> QED BY <2>3, <2>4
<1>11. ParityDist(x) = d0
  <2>1. 1 \in DOMAIN cand /\ cand[1] = ci
    BY TailFacts DEF Candidates
  <2>2. ParityDist(ci) = ParityDist(cj)
    BY <2>1 DEF Aligned
  <2> QED BY <2>2
\* What the lists name: stripes outside the four with their pairs, or i or j.
<1>12. \A z \in ZeroStripes : z \notin {ci, cj}
  <2>1. cost[{cj, matching_index[cj]}] # 0
    <3>1. {cj, matching_index[cj]} = {ci, cj}
      BY <1>6
    <3> QED BY <1>1, <3>1
  <2> QED BY <1>1, <2>1 DEF ZeroStripes
<1>13. \A z \in Index \ four : selected[z] =>
          PairNext(z) = PairOf(z) /\ PairNext(z) \cap four = {}
  <2>1. \A t \in four : matching_index[t] \in four
    BY <1>6
  <2>2. \A z \in Index \ four : selected[z] => matching_index[z] \notin four
    <3>1. \A z \in Index : selected[z] =>
             matching_index[matching_index[z]] = z
      BY DEF PairsAgree
    <3> HIDE DEF four
    <3> QED BY <2>1, <3>1
  <2>3. ASSUME NEW z \in Index \ four, selected[z]
        PROVE  PairNext(z) = PairOf(z) /\ PairNext(z) \cap four = {}
    <3>1. /\ matching_index'[z] = matching_index[z]
          /\ z \notin four /\ matching_index[z] \notin four
      BY <1>10, <2>2, <2>3
    <3> HIDE DEF four
    <3> QED BY <3>1 DEF PairOf, PairNext
  <2> QED BY <2>3
<1>14. PairNext(i) = {u, i} /\ PairNext(j) = {x, j} /\ PairNext(x) = {x, j}
  <2>1. /\ matching_index'[i] = u /\ matching_index'[j] = x
        /\ matching_index'[x] = j
    BY <1>8, <1>10
  <2>2. {i, u} = {u, i} /\ {j, x} = {x, j}
    OBVIOUS
  <2> QED BY <2>1, <2>2 DEF PairNext
<1>15. PairOf(i) = PairOf(j)
  BY <1>6 DEF PairOf
<1>16. ASSUME NEW d \in DOMAIN zero_map,
              NEW m \in DOMAIN zero_map[d], NEW n \in DOMAIN zero_map[d],
              PairNext(zero_map[d][m]) = PairNext(zero_map[d][n])
       PROVE  m = n
  <2> DEFINE p == zero_map[d][m]
             q == zero_map[d][n]
  <2>1. p \in ZeroStripes /\ q \in ZeroStripes
    BY <1>3
  <2>2. /\ p \in Index /\ selected[p] /\ p \notin {ci, cj}
        /\ q \in Index /\ selected[q] /\ q \notin {ci, cj}
    BY <1>12, <2>1 DEF ZeroStripes
  <2>3. p \in PairNext(p) /\ q \in PairNext(q)
    BY DEF PairNext
  <2>4. PairOf(p) = PairOf(q)
    <3> HIDE DEF p, q
    <3>0. PairNext(p) = PairNext(q)
      BY <1>16 DEF p, q
    <3>1. CASE p \notin four /\ q \notin four
      BY <1>13, <2>2, <3>0, <3>1
    <3>2. CASE p \in {i, j} /\ q \in {i, j}
      BY <1>15, <3>2
    <3>3. CASE p \notin four /\ q \in {i, j}
      BY <1>13, <2>2, <2>3, <3>0, <3>3
    <3>4. CASE q \notin four /\ p \in {i, j}
      BY <1>13, <2>2, <2>3, <3>0, <3>4
    <3> QED BY <2>2, <3>1, <3>2, <3>3, <3>4
  <2> QED BY <2>4 DEF ZeroOnce
<1>17. ASSUME NEW n \in DOMAIN zero_map[d0]
       PROVE  PairNext(zero_map[d0][n]) # PairNext(x)
  <2> DEFINE q == zero_map[d0][n]
  <2>1. q \in ZeroStripes /\ q \in Index /\ selected[q] /\ q \notin {ci, cj}
    BY <1>2, <1>3, <1>12 DEF ZeroStripes
  <2>2. q # j
    <3> SUFFICES ASSUME q = j PROVE FALSE
      OBVIOUS
    <3>1. PairOf(zero_map[d0][n]) = PairOf(zero_map[d0][n0])
      BY <1>15
    <3>2. n = n0
      BY <1>2, <3>1 DEF ZeroOnce
    <3> QED BY <1>6, <3>2
  <2> HIDE DEF q
  <2>3. ASSUME q = i PROVE PairNext(q) # PairNext(x)
    <3>1. x \notin {u, i} /\ x \in {x, j}
      BY <1>8
    <3>2. PairNext(q) = {u, i} /\ PairNext(x) = {x, j}
      BY <1>14, <2>3
    <3> QED BY <3>1, <3>2
  <2>4. ASSUME q \notin four PROVE PairNext(q) # PairNext(x)
    <3>1. x \in PairNext(x) /\ x \in four
      BY <1>8 DEF PairNext
    <3>2. PairNext(q) \cap four = {}
      BY <1>13, <2>1, <2>4
    <3> QED BY <3>1, <3>2
  <2>5. PairNext(q) # PairNext(x)
    <3>1. q = i \/ q \notin four
      BY <2>1, <2>2
    <3> QED BY <2>3, <2>4, <3>1
  <2> QED BY <2>5 DEF q
<1>18. ZeroOnce'
  <2>1. /\ zero_map' = [zero_map EXCEPT ![d0] = <<x>> \o @]
        /\ \A d \in DOMAIN zero_map : \A m, n \in DOMAIN zero_map[d] :
              PairNext(zero_map[d][m]) = PairNext(zero_map[d][n]) => m = n
        /\ \A n \in DOMAIN zero_map[d0] :
              PairNext(zero_map[d0][n]) # PairNext(x)
    BY <1>9, <1>11, <1>16, <1>17
  <2> HIDE DEF d0
  <2> QED BY <1>2, <2>1, ZeroFront
<1>19. Aligned'
  <2>1. ASSUME NEW n \in DOMAIN Tail(cand)
        PROVE  ParityDist(Tail(cand)[n])
                  = ParityDist(matching_index'[Tail(cand)[n]])
    <3> DEFINE z == cand[n + 1]
    <3>1. /\ n + 1 \in DOMAIN cand /\ Tail(cand)[n] = z /\ n + 1 # 1
          /\ 1 \in DOMAIN cand /\ cand[1] = ci
      BY TailFacts DEF Candidates
    <3>2. z # ci /\ z # cj
      BY <3>1 DEF Candidates
    <3>3. z \in PaidStripes
      BY <3>1 DEF Candidates
    <3>4. z \in Index /\ z \notin {i, j}
      <4>1. z \in Index /\ cost[{z, matching_index[z]}] # 0
        BY <3>3 DEF PaidStripes
      <4>2. cost[{j, matching_index[j]}] = 0
        <5>1. {j, matching_index[j]} = {i, j}
          BY <1>6
        <5> QED BY <1>5, <5>1
      <4> HIDE DEF z
      <4> QED BY <1>5, <4>1, <4>2
    <3>5. matching_index'[z] = matching_index[z]
      BY <1>10, <3>2, <3>4
    <3> QED BY <3>1, <3>5 DEF Aligned
  <2> QED BY <2>1 DEF Aligned, ParityDist
<1> QED BY <1>18, <1>19

LEMMA ZeroInit == Init => ZeroOnce /\ Aligned
<1> SUFFICES ASSUME Init PROVE ZeroOnce /\ Aligned
  OBVIOUS
<1>1. \A d \in DOMAIN zero_map : DOMAIN zero_map[d] = {}
  BY DEF Init
<1>2. DOMAIN none_zero_candidate = {}
  BY DEF Init
<1> QED BY <1>1, <1>2 DEF ZeroOnce, Aligned

LEMMA MarkKept ==
    ASSUME Types, NEW i \in Index, NEW j \in Index, i # j,
           ~selected[i], ~selected[j],
           NEW c, Mark(i, j, c), UNCHANGED <<stripes, cost>>
    PROVE  Kept /\ matching_index'[i] = j
<1>1. \A x \in Index : selected[x] => x # i /\ x # j
  OBVIOUS
<1>2. /\ matching_index' = [matching_index EXCEPT ![i] = j, ![j] = i]
      /\ selected' = [selected EXCEPT ![i] = TRUE, ![j] = TRUE]
      /\ DOMAIN matching_index = Index /\ DOMAIN selected = Index
  BY DEF Mark, Types
<1> QED BY <1>1, <1>2 DEF Kept

LEMMA ZeroStep ==
    IInv /\ ZeroOnce /\ Aligned /\ [Next]_vars => ZeroOnce' /\ Aligned'
<1> SUFFICES ASSUME IInv, ZeroOnce, Aligned, [Next]_vars
             PROVE  ZeroOnce' /\ Aligned'
  OBVIOUS
<1> USE DEF IInv
<1>1. ASSUME Kept, UNCHANGED opt_vars PROVE ZeroOnce' /\ Aligned'
  BY <1>1, ZeroKept
<1>2. ASSUME UNCHANGED <<stripes, cost, stripe_vars, opt_vars>>
      PROVE  ZeroOnce' /\ Aligned'
  BY <1>1, <1>2 DEF Kept, stripe_vars
\* A partner kept in mind is that of a stripe without a pair.
<1>3. ASSUME NEW x \in Index, ~selected[x], NEW y,
             matching_index' = [matching_index EXCEPT ![x] = y],
             UNCHANGED <<stripes, cost, selected, opt_vars>>
      PROVE  ZeroOnce' /\ Aligned'
  <2>1. \A z \in Index : selected[z] => z # x
    BY <1>3
  <2>2. Kept
    BY <1>3, <2>1 DEF Kept, Types
  <2> QED BY <1>1, <1>3, <2>2
<1>4. ASSUME NEW i \in Index, NEW j \in Index, i # j,
             ~selected[i], ~selected[j], NEW c,
             Mark(i, j, c), Remember(i, j, c), UNCHANGED <<stripes, cost>>
      PROVE  ZeroOnce' /\ Aligned'
  <2>1. Kept /\ matching_index'[i] = j
    BY <1>4, MarkKept
  <2> QED BY <1>4, <2>1, ZeroRemembered
<1>5. CASE BuildMap \/ SearchFailed \/ NextLevel \/ GreedyEnd
           \/ OptimizeEnd \/ CollectEnd
  BY <1>2, <1>5 DEF BuildMap, SearchFailed, NextLevel, GreedyEnd, OptimizeEnd,
                    CollectEnd
<1>6. ASSUME NEW x \in Index, Visit(x) PROVE ZeroOnce' /\ Aligned'
  <2>1. CASE SkipSelected(x)
    BY <1>2, <2>1 DEF SkipSelected
  <2>2. CASE TakeFound(x)
    <3>1. /\ ~selected[x] /\ cur_cost[x] = level /\ ~selected[matching_index[x]]
          /\ Mark(x, matching_index[x], level)
          /\ Remember(x, matching_index[x], level)
          /\ UNCHANGED <<stripes, cost>> /\ pc = "visit"
      BY <2>2 DEF TakeFound
    <3>2. level < M /\ level \in Nat
      BY <3>1 DEF Searching, Types
    <3>3. matching_index[x] \in Index \ {x}
      <4>1. cur_cost[x] # NoCost
        BY <3>1, <3>2, StripeAssumption DEF NoCost, StripeAssumption
      <4> QED BY <3>1, <4>1 DEF InMind
    <3> QED BY <1>4, <3>1, <3>3
  <2>3. CASE BeginSearch(x)
    BY <1>2, <2>3 DEF BeginSearch, SearchPartner, stripe_vars
  <2>4. CASE SearchAgain(x)
    BY <1>3, <2>4 DEF SearchAgain, SearchPartner
  <2> QED BY <1>6, <2>1, <2>2, <2>3, <2>4 DEF Visit
<1>7. ASSUME NEW ps \in todo, NEW y \in Index,
             SearchHit(ps, y) \/ SearchBetter(ps, y)
      PROVE  ZeroOnce' /\ Aligned'
  <2>1. pc = "search" /\ y \in Cheaper(Domain(ps))
    BY <1>7 DEF SearchHit, SearchBetter, Hit
  <2>2. /\ cur_stripe \in Index /\ ~selected[cur_stripe]
        /\ ~selected[y] /\ y # cur_stripe
    BY <2>1 DEF Searching, Cheaper
  <2>3. CASE SearchHit(ps, y)
    <3>1. /\ Mark(cur_stripe, y, level) /\ Remember(cur_stripe, y, level)
          /\ UNCHANGED <<stripes, cost>>
      BY <2>3 DEF SearchHit
    <3> QED BY <1>4, <2>2, <3>1
  <2>4. CASE SearchBetter(ps, y)
    <3>1. /\ matching_index' = [matching_index EXCEPT ![cur_stripe] = y]
          /\ UNCHANGED <<stripes, cost, selected, opt_vars>>
      BY <2>4 DEF SearchBetter
    <3> QED BY <1>3, <2>2, <3>1
  <2> QED BY <1>7, <2>3, <2>4
<1>8. ASSUME NEW ps \in todo, SearchNothing(ps) PROVE ZeroOnce' /\ Aligned'
  BY <1>2, <1>8 DEF SearchNothing
<1>9. ASSUME NEW i \in Index, NEW j \in Index, GreedyPick(i, j)
      PROVE  ZeroOnce' /\ Aligned'
  <2>1. /\ i < j /\ {i, j} \in Unmatched /\ Mark(i, j, cost[{i, j}])
        /\ UNCHANGED <<stripes, cost, opt_vars>>
    BY <1>9 DEF GreedyPick
  <2>2. i # j /\ ~selected[i] /\ ~selected[j]
    BY <2>1, IndexFacts DEF Unmatched
  <2>3. Kept
    BY <2>1, <2>2, MarkKept
  <2> QED BY <1>1, <2>1, <2>3
<1>10. CASE Optimize
  <2> DEFINE cand == none_zero_candidate
             ci == Head(none_zero_candidate)
             list == zero_map[ParityDist(ci)]
             cj == matching_index[ci]
  <2>1. /\ cand # <<>> /\ cand' = Tail(cand)
        /\ UNCHANGED <<stripes, cost, selected>>
    BY <1>10 DEF Optimize
  <2>2. ci \in PaidStripes /\ ci \in Index
    <3>1. ci \in PaidStripes
      BY <2>1, TailFacts DEF Candidates
    <3> QED BY <3>1 DEF PaidStripes
  <2>3. CASE UNCHANGED <<matching_index, cur_cost, zero_map>>
    <3>1. ZeroOnce'
      BY <2>3 DEF ZeroOnce, PairOf
    <3>2. \A n \in DOMAIN Tail(cand) :
              n + 1 \in DOMAIN cand /\ Tail(cand)[n] = cand[n + 1]
      BY <2>1, TailFacts DEF Candidates
    <3>3. Aligned'
      BY <2>1, <2>3, <3>2 DEF Aligned, ParityDist
    <3> QED BY <3>1, <3>3
  <2>4. ASSUME NEW n \in DOMAIN list,
               Straight(ci, list[n]) \/ Crossed(ci, list[n]),
               IF Straight(ci, list[n])
               THEN Exchange(cj, matching_index[list[n]], ci, list[n])
               ELSE Exchange(ci, matching_index[list[n]], cj, list[n])
        PROVE  ZeroOnce' /\ Aligned'
    <3> DEFINE i == list[n]
               j == matching_index[i]
    <3>1. i \in Index /\ selected[i] /\ i = zero_map[ParityDist(ci)][n]
      BY <2>2, ZeroEntries DEF ZeroPairs
    <3>2. cj \in Index /\ j \in Index
      BY <2>2, <3>1 DEF PaidStripes, PairsAgree
    <3> HIDE DEF i, j, cj, ci
    <3>3. CASE Exchange(cj, j, ci, i)
      BY <2>1, <2>2, <3>1, <3>2, <3>3, ZeroExchanged DEF ci, cj, j
    <3>4. CASE Exchange(ci, j, cj, i)
      BY <2>1, <2>2, <3>1, <3>2, <3>4, ZeroExchanged DEF ci, cj, j
    <3> QED BY <2>4, <3>3, <3>4 DEF i, j
  <2> QED BY <1>10, <2>3, <2>4 DEF Optimize
<1>11. ASSUME NEW x \in Index, Collect(x) PROVE ZeroOnce' /\ Aligned'
  BY <1>2, <1>11 DEF Collect
<1>12. CASE UNCHANGED vars
  BY <1>2, <1>12 DEF vars
<1> QED BY <1>5, <1>6, <1>7, <1>8, <1>9, <1>10, <1>11, <1>12 DEF Next, Search

\* However pairs are found and exchanged, zero_map lists each pair once under
\* the same parities, and only pairs that cost nothing.
THEOREM ZeroMapSoundHolds == Spec => []ZeroMapSound
<1>1. IInv /\ ZeroOnce => ZeroMapSound
  <2> SUFFICES ASSUME IInv, ZeroOnce, NEW d \in DOMAIN zero_map,
                      NEW m \in DOMAIN zero_map[d], NEW n \in DOMAIN zero_map[d]
               PROVE  /\ cost[PairOf(zero_map[d][n])] = 0
                      /\ PairOf(zero_map[d][m]) = PairOf(zero_map[d][n]) => m = n
    BY DEF ZeroMapSound
  <2>1. zero_map[d] \in Seq(ZeroStripes)
    BY ZeroEntries DEF IInv
  <2>2. zero_map[d][n] \in ZeroStripes
    BY <2>1
  <2> QED BY <2>2 DEF ZeroOnce, ZeroStripes, PairOf
<1> QED BY <1>1, IInvInit, IInvStep, ZeroInit, ZeroStep, PTL DEF Spec

-----------------------------------------------------------------------------
(* Types *)

LEMMA PairFacts ==
    /\ \A x, y \in Index : x # y => {x, y} \in Pair
    /\ \A p \in Pair : \E x, y \in Index : x < y /\ p = {x, y}
<1>1. ASSUME NEW x \in Index, NEW y \in Index, x # y PROVE {x, y} \in Pair
  <2>1. IsFiniteSet({x}) /\ Cardinality({x}) = 1
    BY FS_Singleton
  <2>2. Cardinality({x} \cup {y}) = 2
    BY <1>1, <2>1, FS_AddElement
  <2>3. {x} \cup {y} = {x, y}
    OBVIOUS
  <2> QED BY <2>2, <2>3 DEF Pair
<1>2. ASSUME NEW p \in Pair PROVE \E x, y \in Index : x < y /\ p = {x, y}
  <2>1. p \subseteq Index /\ IsFiniteSet(p) /\ Cardinality(p) = 2
    BY IndexFinite, FS_Subset DEF Pair
  <2>2. PICK x \in p : TRUE
    BY <2>1, FS_EmptySet
  <2>3. IsFiniteSet(p \ {x}) /\ Cardinality(p \ {x}) = 1
    BY <2>1, FS_RemoveElement
  <2>4. PICK y : p \ {x} = {y}
    BY <2>3, FS_Singleton
  <2>5. p = {x, y} /\ p = {y, x} /\ x # y /\ x \in Index /\ y \in Index
    BY <2>1, <2>4
  <2>6. x < y \/ y < x
    BY <2>5, IndexFacts
  <2> QED BY <2>5, <2>6
<1> QED BY <1>1, <1>2

\* get_cost: what compute_cost returns for the two stripes, the smaller index
\* first.
Priced == stripes \in [Index -> Choices] /\ cost = PairCosts(stripes)

LEMMA CostOfPair ==
    ASSUME Priced, NEW x \in Index, NEW y \in Index, x < y
    PROVE  cost[{x, y}] = ComputeCost(stripes[x], stripes[y])
<1> DEFINE p == {x, y}
           i == CHOOSE e \in p : \A f \in p : e <= f
           j == CHOOSE e \in p : i # e
<1>1. x \in Nat /\ y \in Nat /\ x # y /\ p \in Pair
  BY IndexFacts, PairFacts
<1>2. i = x
  <2>1. \A e \in p : (\A f \in p : e <= f) <=> e = x
    BY <1>1
  <2>2. \E e \in p : \A f \in p : e <= f
    BY <2>1
  <2>3. i \in p /\ \A f \in p : i <= f
    BY <2>2
  <2> QED BY <2>1, <2>3
<1>3. j = y
  <2>1. \E e \in p : i # e
    BY <1>1, <1>2
  <2>2. j \in p /\ i # j
    BY <2>1
  <2> QED BY <1>2, <2>2
<1>4. cost[p] = ComputeCost(stripes[i], stripes[j])
  BY <1>1 DEF Priced, PairCosts
<1> HIDE DEF i, j
<1> QED BY <1>2, <1>3, <1>4

LEMMA CostTyped ==
    ASSUME Priced PROVE cost \in [Pair -> 0..(K + M)]
<1>1. cost = [p \in Pair |-> cost[p]]
  BY DEF Priced, PairCosts
<1>2. ASSUME NEW p \in Pair PROVE cost[p] \in 0..(K + M)
  <2>1. PICK x \in Index, y \in Index : x < y /\ p = {x, y}
    BY PairFacts
  <2>2. stripes[x] \in Placement /\ stripes[y] \in Placement
    BY MatchingAssumption DEF Priced, MatchingAssumption
  <2>3. ComputeCost(stripes[x], stripes[y]) \in 0..(K + M)
    BY <2>2, CostBounds
  <2> QED BY <2>1, <2>3, CostOfPair
<1> QED BY <1>1, <1>2

\* The parts of TypeOK that need the costs, or that the other invariants leave
\* open.
Ranges ==
    /\ Priced
    /\ pc \in {"build", "visit", "search", "greedy", "optimize", "collect",
               "done"}
    /\ cur_cost \in [Index -> (0..(K + M)) \cup {NoCost}]
    /\ Lists \subseteq SUBSET Index
    /\ level \in 0..M
    /\ todo \subseteq SUBSET (1..M) /\ it_to_del \subseteq Index
    /\ remain_flag \in BOOLEAN /\ num_to_select \in Nat

\* A list loses elements.
LEMMA ListShrinks ==
    ASSUME Lists \subseteq SUBSET Index, NEW ps, NEW list,
           list \subseteq Domain(ps), SetDomain(ps, list)
    PROVE  Lists' \subseteq SUBSET Index
<1> DEFINE key == Key(cur_stripe, ps)
<1>1. ASSUME NEW d \in DOMAIN parity_map PROVE parity_map[d] \subseteq Index
  BY <1>1 DEF Lists
<1>2. ASSUME NEW d \in DOMAIN partial_dist_map
      PROVE  partial_dist_map[d] \subseteq Index
  BY <1>2 DEF Lists
<1>3. /\ DOMAIN parity_map' = DOMAIN parity_map
      /\ \A d \in DOMAIN parity_map : parity_map'[d] \subseteq Index
  <2>1. CASE level = 0
    BY <1>1, <2>1 DEF SetDomain, Domain
  <2>2. CASE level # 0
    BY <1>1, <2>2 DEF SetDomain
  <2> QED BY <2>1, <2>2
<1>4. /\ DOMAIN partial_dist_map' = DOMAIN partial_dist_map
      /\ \A d \in DOMAIN partial_dist_map : partial_dist_map'[d] \subseteq Index
  <2>1. CASE level = 0
    BY <1>2, <2>1 DEF SetDomain
  <2>2. CASE level # 0 /\ key \in DOMAIN partial_dist_map
    BY <1>2, <2>2 DEF SetDomain, Domain
  <2>3. CASE level # 0 /\ key \notin DOMAIN partial_dist_map
    BY <1>2, <2>3 DEF SetDomain
  <2> QED BY <2>1, <2>2, <2>3
<1> QED BY <1>3, <1>4 DEF Lists

LEMMA RangesInit == Init => Ranges
<1> SUFFICES ASSUME Init PROVE Ranges
  OBVIOUS
<1>1. Priced
  BY DEF Init, Priced
<1>2. Lists = {}
  BY DEF Init, Lists
<1>3. StripesNum \div 2 \in Nat /\ 0 \in 0..M
  BY IndexFinite, StripeAssumption DEF StripeAssumption
<1> QED BY <1>1, <1>2, <1>3 DEF Init, Ranges

LEMMA RangesStep == IInv /\ LeftServed /\ Ranges /\ [Next]_vars => Ranges'
<1> SUFFICES ASSUME IInv, LeftServed, Ranges, [Next]_vars PROVE Ranges'
  OBVIOUS
<1> USE DEF Ranges
<1>1. ASSUME stripes' = stripes, cost' = cost PROVE Priced'
  BY <1>1 DEF Priced, PairCosts
<1>2. cost \in [Pair -> 0..(K + M)]
  BY CostTyped
<1>3. level \in 0..(K + M) /\ M \in Nat
  BY StripeAssumption DEF StripeAssumption
<1>4. ASSUME UNCHANGED <<parity_map, partial_dist_map>>
      PROVE  Lists' \subseteq SUBSET Index
  BY <1>4 DEF Lists
<1>5. Positions \subseteq SUBSET (1..M)
  BY DEF Positions
<1>6. ASSUME NEW i \in Index, NEW j, NEW c \in 0..(K + M), Mark(i, j, c)
      PROVE  cur_cost' \in [Index -> (0..(K + M)) \cup {NoCost}]
  BY <1>6 DEF Mark
<1>7. CASE BuildMap
  <2>1. \A d \in DOMAIN parity_map' : parity_map'[d] \subseteq Index
    BY <1>7 DEF BuildMap
  <2>2. \A d \in DOMAIN partial_dist_map' : partial_dist_map'[d] \subseteq Index
    <3> DEFINE keys == {Key(x, ps) : x \in Index, ps \in Indexed}
               agree(key) == {x \in Index : Key(x, DOMAIN key) = key}
    <3>1. partial_dist_map' = [key \in keys |-> agree(key)]
      BY <1>7 DEF BuildMap
    <3>2. \A key \in keys : agree(key) \subseteq Index
      OBVIOUS
    <3> HIDE DEF keys, agree
    <3> QED BY <3>1, <3>2
  <2>3. Lists' \subseteq SUBSET Index
    BY <2>1, <2>2 DEF Lists
  <2> QED BY <1>1, <1>7, <2>3 DEF BuildMap, stripe_vars, search_vars, greedy_vars
<1>8. ASSUME NEW x \in Index, Visit(x) PROVE Ranges'
  <2>1. CASE SkipSelected(x)
    BY <1>1, <1>4, <2>1 DEF SkipSelected, stripe_vars, map_vars, greedy_vars
  <2>2. CASE TakeFound(x)
    <3>1. Mark(x, matching_index[x], level)
      BY <2>2 DEF TakeFound
    <3>2. cur_cost' \in [Index -> (0..(K + M)) \cup {NoCost}]
      BY <1>3, <1>6, <3>1
    <3> QED BY <1>1, <1>4, <2>2, <3>2 DEF TakeFound, map_vars, greedy_vars
  <2>3. CASE BeginSearch(x)
    BY <1>1, <1>4, <1>5, <2>3 DEF BeginSearch, SearchPartner, map_vars, greedy_vars
  <2>4. CASE SearchAgain(x)
    BY <1>1, <1>4, <1>5, <2>4 DEF SearchAgain, SearchPartner, map_vars, greedy_vars
  <2> QED BY <1>8, <2>1, <2>2, <2>3, <2>4 DEF Visit
<1>9. ASSUME NEW ps \in todo, NEW y \in Index, SearchHit(ps, y) PROVE Ranges'
  <2>1. Lists' \subseteq SUBSET Index
    <3> DEFINE list == Domain(ps) \ ({y} \cup Met(Domain(ps), y))
    <3>1. SetDomain(ps, list) /\ list \subseteq Domain(ps)
      BY <1>9 DEF SearchHit
    <3> HIDE DEF list
    <3> QED BY <3>1, ListShrinks
  <2>2. Mark(cur_stripe, y, level) /\ cur_stripe \in Index
    BY <1>9 DEF SearchHit, IInv, Searching
  <2>3. cur_cost' \in [Index -> (0..(K + M)) \cup {NoCost}]
    BY <1>3, <1>6, <2>2
  <2> QED BY <1>1, <1>9, <2>1, <2>2, <2>3 DEF SearchHit, greedy_vars
<1>10. ASSUME NEW ps \in todo, NEW y \in Index, SearchBetter(ps, y) PROVE Ranges'
  <2>1. Lists' \subseteq SUBSET Index
    <3> DEFINE list == {z \in Domain(ps) : ~selected[z]}
    <3>1. SetDomain(ps, list) /\ list \subseteq Domain(ps)
      BY <1>10 DEF SearchBetter
    <3> HIDE DEF list
    <3> QED BY <3>1, ListShrinks
  <2>2. cur_stripe \in Index /\ y # cur_stripe
    BY <1>10 DEF SearchBetter, Cheaper, IInv, Searching
  <2>3. CostTo(y) \in 0..(K + M)
    BY <1>2, <2>2, PairFacts DEF CostTo
  <2>4. cur_cost' \in [Index -> (0..(K + M)) \cup {NoCost}]
    BY <1>10, <2>3 DEF SearchBetter
  <2> QED BY <1>1, <1>10, <2>1, <2>4 DEF SearchBetter, greedy_vars
<1>11. ASSUME NEW ps \in todo, SearchNothing(ps) PROVE Ranges'
  <2>1. Lists' \subseteq SUBSET Index
    <3> DEFINE list == {z \in Domain(ps) : ~selected[z]}
    <3>1. \/ SetDomain(ps, list) /\ list \subseteq Domain(ps)
          \/ UNCHANGED <<parity_map, partial_dist_map>>
      BY <1>11 DEF SearchNothing
    <3> HIDE DEF list
    <3> QED BY <1>4, <3>1, ListShrinks
  <2> QED BY <1>1, <1>11, <2>1 DEF SearchNothing, stripe_vars, greedy_vars
<1>12. CASE SearchFailed
  BY <1>1, <1>4, <1>12
  DEF SearchFailed, stripe_vars, map_vars, search_vars, greedy_vars
<1>13. CASE NextLevel
  <2>1. level' \in 0..M
    BY <1>3, <1>13 DEF NextLevel, IInv, Searching
  <2>2. num_to_select' \in Nat
    <3>1. num_to_select' \in {num_to_select,
                              Cardinality(remaining_stripes') \div 2}
      BY <1>13 DEF NextLevel
    <3>2. remaining_stripes' \subseteq Index
      BY <1>13 DEF NextLevel, LeftServed
    <3>3. Cardinality(remaining_stripes') \in Nat
      BY <3>2, IndexFinite, FS_Subset, FS_CardinalityType
    <3>4. Cardinality(remaining_stripes') \div 2 \in Nat
      BY <3>3
    <3> QED BY <3>1, <3>4
  <2>3. pc' \in {"optimize", "visit", "greedy"}
    BY <1>13 DEF NextLevel
  <2> QED BY <1>1, <1>4, <1>13, <2>1, <2>2, <2>3 DEF NextLevel, stripe_vars
<1>14. ASSUME NEW i \in Index, NEW j \in Index, GreedyPick(i, j) PROVE Ranges'
  <2>1. Mark(i, j, cost[{i, j}]) /\ i # j
    BY <1>14, IndexFacts DEF GreedyPick
  <2>2. cost[{i, j}] \in 0..(K + M)
    BY <1>2, <2>1, PairFacts
  <2>3. cur_cost' \in [Index -> (0..(K + M)) \cup {NoCost}]
    BY <1>6, <2>1, <2>2
  <2> QED BY <1>1, <1>4, <1>14, <2>3 DEF GreedyPick, map_vars, search_vars
<1>15. CASE GreedyEnd
  BY <1>1, <1>4, <1>15
  DEF GreedyEnd, stripe_vars, map_vars, search_vars, greedy_vars
<1>16. CASE Optimize
  <2>1. cur_cost' \in [Index -> (0..(K + M)) \cup {NoCost}]
    <3>1. ASSUME NEW x, NEW y, NEW u, NEW v, Exchange(x, y, u, v)
          PROVE  cur_cost' \in [Index -> (0..(K + M)) \cup {NoCost}]
      <4>1. 0 \in 0..(K + M)
        BY StripeAssumption DEF StripeAssumption
      <4> QED BY <3>1, <4>1 DEF Exchange
    <3> QED BY <1>16, <3>1 DEF Optimize
  <2> QED BY <1>1, <1>4, <1>16, <2>1
          DEF Optimize, map_vars, search_vars, greedy_vars
<1>17. CASE OptimizeEnd \/ CollectEnd
  BY <1>1, <1>4, <1>17
  DEF OptimizeEnd, CollectEnd, stripe_vars, map_vars, search_vars, greedy_vars
<1>18. ASSUME NEW x \in Index, Collect(x) PROVE Ranges'
  BY <1>1, <1>4, <1>18
  DEF Collect, stripe_vars, map_vars, search_vars, greedy_vars
<1>19. CASE UNCHANGED vars
  BY <1>1, <1>4, <1>19
  DEF vars, stripe_vars, map_vars, search_vars, greedy_vars
<1> QED BY <1>7, <1>8, <1>9, <1>10, <1>11, <1>12, <1>13, <1>14, <1>15, <1>16,
           <1>17, <1>18, <1>19 DEF Next, Search

\* Every variable keeps its type for any code, stripes and placements: costs
\* fit the uint8_t that holds them and stay apart from UINT8_MAX, the level
\* never passes rs_m and every index is one of a stripe.
THEOREM TypeCorrect == Spec => []TypeOK
<1>1. IInv /\ LeftServed /\ Ranges /\ SentSoFar => TypeOK
  <2> SUFFICES ASSUME IInv, LeftServed, Ranges, SentSoFar PROVE TypeOK
    OBVIOUS
  <2>1. cost \in [Pair -> 0..(K + M)]
    BY CostTyped DEF Ranges
  <2>2. ASSUME NEW d \in DOMAIN zero_map PROVE zero_map[d] \in Seq(Index)
    <3>1. zero_map[d] \in Seq(ZeroStripes) /\ ZeroStripes \subseteq Index
      BY DEF IInv, ZeroPairs, ZeroStripes
    <3> QED BY <3>1, SeqFacts
  <2>3. none_zero_candidate \in Seq(Index)
    <3>1. /\ none_zero_candidate \in Seq(PaidStripes)
          /\ PaidStripes \subseteq Index
      BY DEF IInv, Candidates, PaidStripes
    <3> QED BY <3>1, SeqFacts
  <2>4. flag \subseteq Index /\ sent \subseteq Index \X Index
    BY DEF SentSoFar, Due
  <2> QED BY <2>1, <2>2, <2>3, <2>4
          DEF TypeOK, IInv, Types, LeftServed, Ranges, Priced
<1>2. Init => IInv /\ LeftEven /\ LeftServed /\ SentSoFar /\ Ranges
  BY IInvInit, LeftInit, SentInit, RangesInit
<1>3. IInv /\ LeftEven /\ LeftServed /\ SentSoFar /\ Ranges /\ [Next]_vars
         => (IInv /\ LeftEven /\ LeftServed /\ SentSoFar /\ Ranges)'
  BY IInvStep, LeftStep, SentStep, RangesStep
<1> QED BY <1>1, <1>2, <1>3, PTL DEF Spec

-----------------------------------------------------------------------------
(* The lists find every pair *)

LEMMA SubsetOfSize ==
    ASSUME NEW S, IsFiniteSet(S), NEW n \in 0..Cardinality(S)
    PROVE  \E T \in SUBSET S : Cardinality(T) = n
<1> DEFINE size == Cardinality(S)
           Sizes == {m \in Nat : \E T \in SUBSET S : Cardinality(T) = m}
<1>1. size \in Nat
  BY FS_CardinalityType
<1>2. 0 \in Sizes
  BY FS_EmptySet
<1>3. ASSUME NEW m \in 0..size, m # size, m \in Sizes PROVE m + 1 \in Sizes
  <2>1. PICK T \in SUBSET S : Cardinality(T) = m
    BY <1>3
  <2>2. IsFiniteSet(T) /\ T # S
    BY <1>3, <2>1, FS_Subset
  <2>3. PICK e \in S : e \notin T
    BY <2>2
  <2>4. Cardinality(T \cup {e}) = m + 1
    BY <2>1, <2>2, <2>3, FS_AddElement
  <2>5. T \cup {e} \in SUBSET S /\ m + 1 \in Nat
    BY <1>1
  <2> QED BY <2>4, <2>5
<1>4. 0..size \subseteq Sizes
  <2> HIDE DEF Sizes, size
  <2> QED BY <1>1, <1>2, <1>3, Induction
<1> QED BY <1>4

\* A pair costs at least the parity chunks it does not have in the same place.
LEMMA CostAtLeast ==
    ASSUME Priced, NEW x \in Index, NEW y \in Index, x # y
    PROVE  /\ cost[{x, y}] \in Nat
           /\ Cardinality(Misaligned(stripes[x], stripes[y], M)) <= cost[{x, y}]
<1>1. cost[{x, y}] \in Nat
  BY CostTyped, PairFacts
<1>2. stripes[x] \in Placement /\ stripes[y] \in Placement
  BY MatchingAssumption DEF Priced, MatchingAssumption
<1>3. ASSUME NEW u \in Index, NEW v \in Index, u < v,
             stripes[u] \in Placement, stripes[v] \in Placement
      PROVE  Cardinality(Misaligned(stripes[u], stripes[v], M)) <= cost[{u, v}]
  <2>1. Cardinality(Misaligned(stripes[u], stripes[v], M))
           \in 0..ComputeCost(stripes[u], stripes[v])
    BY <1>3, CostBounds
  <2>2. ComputeCost(stripes[u], stripes[v]) \in 0..(K + M)
    BY <1>3, CostBounds
  <2>3. cost[{u, v}] = ComputeCost(stripes[u], stripes[v])
    BY <1>3, CostOfPair
  <2> QED BY <2>1, <2>2, <2>3
<1>4. x < y \/ y < x
  BY IndexFacts
<1>5. {x, y} = {y, x}
  OBVIOUS
<1>6. Misaligned(stripes[x], stripes[y], M) = Misaligned(stripes[y], stripes[x], M)
  BY DEF Misaligned
<1> QED BY <1>1, <1>2, <1>3, <1>4, <1>5, <1>6

\* The positions tried on a level include some where the stripes of a pair that
\* costs no more agree.
LEMMA AgreeSomewhere ==
    ASSUME Priced, level \in Nat, level < M,
           NEW x \in Index, NEW y \in Index, x # y, cost[{x, y}] <= level
    PROVE  \E ps \in Positions : Key(x, ps) = Key(y, ps)
<1> DEFINE mis == Misaligned(stripes[x], stripes[y], M)
<1>1. M \in Nat
  BY StripeAssumption DEF StripeAssumption
<1>2. IsFiniteSet(mis) /\ Cardinality(mis) \in 0..M
  BY <1>1, MisalignedFacts
<1>3. Cardinality(mis) <= level
  BY <1>2, CostAtLeast
<1>4. \A ps \in SUBSET (1..M) : ps \cap mis = {} => Key(x, ps) = Key(y, ps)
  BY DEF Misaligned, Key
<1>5. mis \subseteq 1..M
  BY DEF Misaligned
<1> HIDE DEF mis
<1>6. CASE level = 0
  <2>1. mis = {}
    BY <1>2, <1>3, <1>6, FS_EmptySet
  <2>2. 1..M \in Positions
    BY <1>6 DEF Positions
  <2> QED BY <1>4, <2>1, <2>2
<1>7. CASE level # 0
  <2>1. IsFiniteSet(1..M) /\ Cardinality(1..M) = M
    <3>1. /\ IsFiniteSet(1..M)
          /\ Cardinality(1..M) = IF 1 > M THEN 0 ELSE M - 1 + 1
      BY <1>1, FS_Interval
    <3> QED BY <1>1, <3>1
  <2>2. (1..M) \cap mis = mis
    BY <1>5
  <2>3. /\ IsFiniteSet((1..M) \ mis)
        /\ Cardinality((1..M) \ mis) = M - Cardinality(mis)
    <3>1. /\ IsFiniteSet((1..M) \ mis)
          /\ Cardinality((1..M) \ mis)
                = Cardinality(1..M) - Cardinality((1..M) \cap mis)
      BY <2>1, FS_Difference
    <3> QED BY <2>1, <2>2, <3>1
  <2>4. M - level \in 0..Cardinality((1..M) \ mis)
    BY <1>1, <1>2, <1>3, <2>3
  <2>5. PICK ps \in SUBSET ((1..M) \ mis) : Cardinality(ps) = M - level
    BY <2>3, <2>4, SubsetOfSize
  <2>6. ps \in Positions
    BY <1>7, <2>5 DEF Positions
  <2>7. ps \in SUBSET (1..M) /\ ps \cap mis = {}
    OBVIOUS
  <2> QED BY <1>4, <2>6, <2>7
<1> QED BY <1>6, <1>7

Searches == {"visit", "search"}

\* A stripe that is left is still in every list it was put into.
Listed ==
    pc \in Searches => \A x \in Left :
        /\ Key(x, 1..M) \in DOMAIN parity_map
        /\ x \in parity_map[Key(x, 1..M)]
        /\ \A ps \in SUBSET (1..M) : ps # {} =>
              /\ Key(x, ps) \in DOMAIN partial_dist_map
              /\ x \in partial_dist_map[Key(x, ps)]

\* What a stripe has in mind is not cheaper than the level, and dearer once it
\* has been visited on this level.
Patient ==
    pc \in Searches => \A x \in Left :
        /\ cur_cost[x] >= level
        /\ x <= cur_stripe => cur_cost[x] > level

\* A stripe that has been visited has no partner for this cost left; the one
\* that is searching has none in the lists it has read.
Served ==
    pc \in Searches => \A x, y \in Left :
        /\ x # y /\ x <= cur_stripe
        /\ pc = "search" /\ x = cur_stripe =>
              \E ps \in Positions \ todo : Key(x, ps) = Key(y, ps)
        => cost[{x, y}] > level

Trying ==
    /\ pc = "build" => level = 0 /\ cur_stripe = NoIndex
    /\ pc = "search" => todo \subseteq Positions

\* No two stripes that are left could be merged at a cost that is done with.
Exhausted == \A x, y \in Left : x # y => cost[{x, y}] >= level

LevelInv == Listed /\ Patient /\ Served /\ Trying /\ Exhausted

\* The numbers that are compared.
LEMMA Comparable ==
    ASSUME IInv, Ranges
    PROVE  /\ level \in Nat /\ M \in Nat /\ level <= M /\ M < 255
           /\ cur_stripe \in Nat
           /\ \A x \in Index : x \in Nat /\ x > 0 /\ cur_cost[x] \in Nat
           /\ \A x, y \in Index : x # y => cost[{x, y}] \in Nat
<1>1. K \in Nat /\ M \in Nat /\ K + M < 255
  BY StripeAssumption DEF StripeAssumption
<1>2. \A x, y \in Index : x # y => cost[{x, y}] \in Nat
  BY CostAtLeast DEF Ranges
<1>3. \A x \in Index : x \in Nat /\ x > 0
  BY MatchingAssumption DEF MatchingAssumption, Index
<1>4. \A x \in Index : cur_cost[x] \in Nat
  <2>1. (0..(K + M)) \cup {NoCost} \subseteq Nat
    BY <1>1 DEF NoCost
  <2> QED BY <2>1 DEF Ranges
<1>5. cur_stripe \in Nat
  BY <1>3 DEF IInv, Types, NoIndex
<1> QED BY <1>1, <1>2, <1>3, <1>4, <1>5 DEF Ranges

\* The list read: stripes that are left and agree with cur_stripe are in it.
LEMMA DomainFacts ==
    ASSUME M < 8, IInv, Ranges, Listed, Trying, pc = "search", NEW ps \in todo
    PROVE  /\ Domain(ps) \subseteq Index
           /\ \A y \in Left : Key(y, ps) = Key(cur_stripe, ps) => y \in Domain(ps)
<1>1. ps \in Positions /\ ps \in SUBSET (1..M)
  BY DEF Trying, Ranges
<1>2. level \in Nat /\ M \in Nat /\ level < M
  BY Comparable DEF IInv, Searching
<1>3. cur_stripe \in Left
  BY DEF IInv, Searching, Left
<1>4. CASE level = 0
  <2>1. ps = 1..M
    BY <1>1, <1>4 DEF Positions
  <2>2. \A y \in Left : /\ Key(y, 1..M) \in DOMAIN parity_map
                        /\ y \in parity_map[Key(y, 1..M)]
    BY DEF Listed, Searches
  <2>3. parity_map[Key(cur_stripe, 1..M)] \subseteq Index
    BY <1>3, <2>2 DEF Ranges, Lists
  <2> QED BY <1>4, <2>1, <2>2, <2>3 DEF Domain
<1>5. CASE level # 0
  <2>1. Cardinality(ps) = M - level
    BY <1>1, <1>5 DEF Positions
  <2>2. ps \in SUBSET (1..M) /\ ps # {}
    <3>1. M - level # 0
      BY <1>2
    <3> QED BY <1>1, <2>1, <3>1, FS_EmptySet
  <2>3. \A y \in Left : /\ Key(y, ps) \in DOMAIN partial_dist_map
                        /\ y \in partial_dist_map[Key(y, ps)]
    <3>1. pc \in Searches
      BY DEF Searches
    <3> QED BY <2>2, <3>1 DEF Listed
  <2>4. /\ Key(cur_stripe, ps) \in DOMAIN partial_dist_map
        /\ partial_dist_map[Key(cur_stripe, ps)] \subseteq Index
    BY <1>3, <2>3 DEF Ranges, Lists
  <2> QED BY <1>5, <2>3, <2>4 DEF Domain
<1> QED BY <1>4, <1>5

\* A list that has been read without a hit has no partner for this cost.
LEMMA NoHit ==
    ASSUME M < 8, IInv, Ranges, LevelInv, pc = "search", NEW ps \in todo,
           \A z \in Index : ~Hit(Domain(ps), z),
           NEW y \in Left, y # cur_stripe, Key(cur_stripe, ps) = Key(y, ps)
    PROVE  cost[{cur_stripe, y}] > level
<1> USE DEF LevelInv
<1>1. cur_stripe \in Left /\ y \in Index /\ cur_stripe \in Index
  BY DEF IInv, Searching, Left
<1>2. /\ level \in Nat /\ cost[{cur_stripe, y}] \in Nat
      /\ cur_cost[cur_stripe] \in Nat /\ cur_stripe \in Nat
  BY <1>1, Comparable
<1>3. y \in Domain(ps) /\ Domain(ps) \subseteq Index
  BY DomainFacts
<1>4. cur_cost[cur_stripe] > level
  BY <1>1, <1>2 DEF Patient, Searches
<1>5. ASSUME NEW z \in Cheaper(Domain(ps))
      PROVE  z \in Nat /\ z \in Index /\ CostTo(z) \in Nat /\ CostTo(z) >= level
  <2>1. z \in Index /\ ~selected[z] /\ z # cur_stripe
    BY <1>3 DEF Cheaper
  <2>2. z \in Left /\ z \in Nat
    BY <2>1, IndexFacts DEF Left
  <2>3. cost[{cur_stripe, z}] \in Nat
    BY <1>1, <2>1, Comparable
  <2> QED BY <1>1, <2>1, <2>2, <2>3 DEF Exhausted, CostTo
<1>6. \A z \in Cheaper(Domain(ps)) : CostTo(z) # level
  <2> DEFINE Now == {z \in Cheaper(Domain(ps)) : CostTo(z) = level}
  <2> SUFFICES ASSUME Now # {} PROVE FALSE
    OBVIOUS
  <2>1. Now \in SUBSET Nat
    BY <1>5
  <2>2. PICK z \in Now : \A w \in Now : z <= w
    <3> HIDE DEF Now
    <3> QED BY <2>1, Smallest
  <2>3. \A w \in Cheaper(Domain(ps)) : w < z => CostTo(w) > level
    <3> SUFFICES ASSUME NEW w \in Cheaper(Domain(ps)), w < z
                 PROVE  CostTo(w) > level
      OBVIOUS
    <3>1. w \in Nat /\ z \in Nat /\ CostTo(w) \in Nat /\ CostTo(w) >= level
      BY <1>5
    <3>2. CostTo(w) # level
      BY <2>2, <3>1
    <3> QED BY <1>2, <3>1, <3>2
  <2>4. z \in Index
    BY <1>5
  <2>5. z \in Cheaper(Domain(ps)) /\ CostTo(z) = level
    OBVIOUS
  <2> QED BY <2>3, <2>4, <2>5 DEF Hit
<1>7. CASE y \in Cheaper(Domain(ps))
  <2>1. CostTo(y) \in Nat /\ CostTo(y) >= level /\ CostTo(y) # level
    BY <1>5, <1>6, <1>7
  <2> QED BY <1>2, <2>1 DEF CostTo
<1>8. CASE y \notin Cheaper(Domain(ps))
  <2>1. ~(CostTo(y) < cur_cost[cur_stripe])
    BY <1>3, <1>8 DEF Cheaper, Left
  <2> QED BY <1>2, <1>4, <2>1 DEF CostTo
<1> QED BY <1>7, <1>8

\* Listed', the stripes being the same.
ListedNext ==
    pc' \in Searches => \A x \in Left' :
        /\ Key(x, 1..M) \in DOMAIN parity_map'
        /\ x \in parity_map'[Key(x, 1..M)]
        /\ \A ps \in SUBSET (1..M) : ps # {} =>
              /\ Key(x, ps) \in DOMAIN partial_dist_map'
              /\ x \in partial_dist_map'[Key(x, ps)]

LEMMA ListedPrime == ASSUME stripes' = stripes, ListedNext PROVE Listed'
<1> DEFINE KeyNext(x, ps) == [y \in ps |-> stripes'[x].parity[y]]
<1>1. \A x, ps : KeyNext(x, ps) = Key(x, ps)
  BY DEF Key
<1>2. (pc' \in Searches => \A x \in Left' :
          /\ KeyNext(x, 1..M) \in DOMAIN parity_map'
          /\ x \in parity_map'[KeyNext(x, 1..M)]
          /\ \A ps \in SUBSET (1..M) : ps # {} =>
                /\ KeyNext(x, ps) \in DOMAIN partial_dist_map'
                /\ x \in partial_dist_map'[KeyNext(x, ps)])
      => Listed'
  BY DEF Listed, Key
<1> HIDE DEF KeyNext
<1> QED BY <1>1, <1>2 DEF ListedNext

\* A list loses no stripe that is left.
LEMMA ListKept ==
    ASSUME Listed, pc \in Searches, Left' \subseteq Left, stripes' = stripes,
           NEW ps, NEW list, SetDomain(ps, list),
           \A x \in Left' : x \in Domain(ps) => x \in list
    PROVE  Listed'
<1> SUFFICES ASSUME NEW x \in Left', NEW qs \in SUBSET (1..M)
             PROVE  /\ Key(x, 1..M) \in DOMAIN parity_map'
                    /\ x \in parity_map'[Key(x, 1..M)]
                    /\ qs # {} => /\ Key(x, qs) \in DOMAIN partial_dist_map'
                                  /\ x \in partial_dist_map'[Key(x, qs)]
  BY ListedPrime DEF ListedNext
<1> DEFINE key == Key(cur_stripe, ps)
<1>1. /\ Key(x, 1..M) \in DOMAIN parity_map
      /\ x \in parity_map[Key(x, 1..M)]
      /\ qs # {} => /\ Key(x, qs) \in DOMAIN partial_dist_map
                    /\ x \in partial_dist_map[Key(x, qs)]
  BY DEF Listed
<1>2. CASE level = 0
  <2>1. /\ parity_map' = [parity_map EXCEPT ![key] = list]
        /\ partial_dist_map' = partial_dist_map
    BY <1>2 DEF SetDomain
  <2>2. x \in parity_map[key] => x \in list
    BY <1>2 DEF Domain
  <2> HIDE DEF key
  <2> QED BY <1>1, <2>1, <2>2
<1>3. CASE level # 0
  <2>1. /\ partial_dist_map' = [partial_dist_map EXCEPT ![key] = list]
        /\ parity_map' = parity_map
    BY <1>3 DEF SetDomain
  <2>2. key \in DOMAIN partial_dist_map /\ x \in partial_dist_map[key]
           => x \in list
    BY <1>3 DEF Domain
  <2> HIDE DEF key
  <2> QED BY <1>1, <2>1, <2>2
<1> QED BY <1>2, <1>3

LEMMA ListsKept ==
    ASSUME Listed, pc \in Searches, Left' \subseteq Left, stripes' = stripes,
           UNCHANGED <<parity_map, partial_dist_map>>
    PROVE  Listed'
<1>1. ListedNext
  BY DEF Listed, ListedNext
<1> QED BY <1>1, ListedPrime

\* The stripes up to the one that is visited next have been visited before.
LEMMA Passed ==
    ASSUME IInv, Ranges, LeftServed, pc \in Searches,
           NEW x \in Index, Upcoming(x), NEW y \in Left, y <= x, y # x
    PROVE  y <= cur_stripe
<1>1. y \in remaining_stripes
  BY DEF LeftServed, Searches
<1>2. x \in Nat /\ y \in Nat /\ cur_stripe \in Nat
  BY Comparable DEF Left
<1>3. y > cur_stripe => x <= y
  BY <1>1 DEF Upcoming
<1> QED BY <1>2, <1>3

\* Served', the stripes, the costs and the level being the same.
ServedNext ==
    pc' \in Searches => \A x, y \in Left' :
        /\ x # y /\ x <= cur_stripe'
        /\ pc' = "search" /\ x = cur_stripe' =>
              \E ps \in Positions \ todo' : Key(x, ps) = Key(y, ps)
        => cost[{x, y}] > level

LEMMA ServedPrime ==
    ASSUME stripes' = stripes, cost' = cost, level' = level, ServedNext
    PROVE  Served'
<1> DEFINE KeyNext(x, ps) == [y \in ps |-> stripes'[x].parity[y]]
<1>1. \A x, ps : KeyNext(x, ps) = Key(x, ps)
  BY DEF Key
<1>2. Positions' = Positions
  BY DEF Positions
<1>3. (pc' \in Searches => \A x, y \in Left' :
          /\ x # y /\ x <= cur_stripe'
          /\ pc' = "search" /\ x = cur_stripe' =>
                \E ps \in Positions' \ todo' : KeyNext(x, ps) = KeyNext(y, ps)
          => cost'[{x, y}] > level')
      => Served'
  BY DEF Served, Key
<1> HIDE DEF KeyNext
<1> QED BY <1>1, <1>2, <1>3 DEF ServedNext

LEMMA LeftShrinks ==
    ASSUME IInv, [Next]_vars
    PROVE  Left' \subseteq Left /\ stripes' = stripes /\ cost' = cost
<1>1. selected' = selected => Left' \subseteq Left
  BY DEF Left
<1>2. ASSUME NEW x, NEW y, NEW c, Mark(x, y, c) PROVE Left' \subseteq Left
  <2>1. \A z \in Index : selected[z] => selected'[z]
    BY <1>2 DEF Mark, IInv, Types
  <2> QED BY <2>1 DEF Left
<1>3. CASE BuildMap
  BY <1>1, <1>3 DEF BuildMap, stripe_vars
<1>4. ASSUME NEW x \in Index, Visit(x)
      PROVE  Left' \subseteq Left /\ stripes' = stripes /\ cost' = cost
  <2>1. CASE SkipSelected(x)
    BY <1>1, <2>1 DEF SkipSelected, stripe_vars
  <2>2. CASE TakeFound(x)
    BY <1>2, <2>2 DEF TakeFound
  <2>3. CASE BeginSearch(x) \/ SearchAgain(x)
    BY <1>1, <2>3 DEF BeginSearch, SearchAgain, SearchPartner
  <2> QED BY <1>4, <2>1, <2>2, <2>3 DEF Visit
<1>5. ASSUME NEW ps \in todo, Search(ps)
      PROVE  Left' \subseteq Left /\ stripes' = stripes /\ cost' = cost
  <2>1. CASE SearchNothing(ps)
    BY <1>1, <2>1 DEF SearchNothing, stripe_vars
  <2>2. ASSUME NEW y \in Index, SearchHit(ps, y)
        PROVE  Left' \subseteq Left /\ stripes' = stripes /\ cost' = cost
    BY <1>2, <2>2 DEF SearchHit
  <2>3. ASSUME NEW y \in Index, SearchBetter(ps, y)
        PROVE  Left' \subseteq Left /\ stripes' = stripes /\ cost' = cost
    BY <1>1, <2>3 DEF SearchBetter
  <2> QED BY <1>5, <2>1, <2>2, <2>3 DEF Search
<1>6. CASE SearchFailed \/ NextLevel
  BY <1>1, <1>6 DEF SearchFailed, NextLevel, stripe_vars
<1>7. ASSUME NEW i \in Index, NEW j \in Index, GreedyPick(i, j)
      PROVE  Left' \subseteq Left /\ stripes' = stripes /\ cost' = cost
  BY <1>2, <1>7 DEF GreedyPick
<1>8. CASE GreedyEnd \/ Optimize \/ OptimizeEnd \/ CollectEnd
  BY <1>1, <1>8 DEF GreedyEnd, Optimize, OptimizeEnd, CollectEnd, stripe_vars
<1>9. ASSUME NEW x \in Index, Collect(x)
      PROVE  Left' \subseteq Left /\ stripes' = stripes /\ cost' = cost
  BY <1>1, <1>9 DEF Collect, stripe_vars
<1>10. CASE UNCHANGED vars
  BY <1>1, <1>10 DEF vars, stripe_vars
<1> QED BY <1>3, <1>4, <1>5, <1>6, <1>7, <1>8, <1>9, <1>10 DEF Next

LEMMA LevelInit == Init => LevelInv
<1> SUFFICES ASSUME Init PROVE LevelInv
  OBVIOUS
<1>1. pc \notin Searches /\ pc # "search" /\ level = 0 /\ cur_stripe = NoIndex
  BY DEF Init, Searches
<1>2. Exhausted
  <2>1. \A x, y \in Index : x # y => cost[{x, y}] \in Nat
    BY RangesInit, CostAtLeast DEF Ranges
  <2> QED BY <1>1, <2>1 DEF Exhausted, Left
<1> QED BY <1>1, <1>2 DEF LevelInv, Listed, Patient, Served, Trying

LEMMA LevelStep ==
    ASSUME M < 8, IInv, LeftServed, Ranges, LevelInv, [Next]_vars PROVE LevelInv'
<1>1. Left' \subseteq Left /\ stripes' = stripes /\ cost' = cost
  BY LeftShrinks
<1>2. Left \subseteq Index
  BY DEF Left
<1>3. /\ level \in Nat /\ M \in Nat /\ level <= M /\ M < 255 /\ cur_stripe \in Nat
      /\ \A x \in Index : x \in Nat /\ x > 0 /\ cur_cost[x] \in Nat
      /\ \A x, y \in Index : x # y => cost[{x, y}] \in Nat
  BY Comparable
<1>4. level' = level => Exhausted'
  BY <1>1 DEF LevelInv, Exhausted
<1>5. ASSUME pc' \notin Searches \cup {"build"}, level' = level PROVE LevelInv'
  <2>1. pc' # "build" /\ pc' # "search"
    BY <1>5 DEF Searches
  <2> QED BY <1>4, <1>5, <2>1
          DEF LevelInv, Listed, Patient, Served, Trying
\* Nothing about the search has changed.
<1>6. ASSUME pc' = pc, pc \in Searches, level' = level, cur_stripe' = cur_stripe,
             cur_cost' = cur_cost
      PROVE  Patient'
  BY <1>1, <1>6 DEF LevelInv, Patient
<1>7. CASE BuildMap
  <2>1. /\ pc = "build" /\ pc' = "visit" /\ level' = level
        /\ cur_stripe' = cur_stripe /\ cur_cost' = cur_cost
        /\ level = 0 /\ cur_stripe = 0
    BY <1>7 DEF BuildMap, search_vars, stripe_vars, LevelInv, Trying, NoIndex
  <2>2. Listed'
    <3> SUFFICES ASSUME NEW x \in Left, NEW ps \in SUBSET (1..M)
                 PROVE  /\ Key(x, 1..M) \in DOMAIN parity_map'
                        /\ x \in parity_map'[Key(x, 1..M)]
                        /\ ps # {} => /\ Key(x, ps) \in DOMAIN partial_dist_map'
                                      /\ x \in partial_dist_map'[Key(x, ps)]
      BY <1>1, ListedPrime DEF ListedNext
    <3>1. Key(x, 1..M) = ParityDist(x)
      <4>1. stripes[x].parity \in [1..M -> Node]
        BY <1>2, MatchingAssumption
        DEF Ranges, Priced, MatchingAssumption, Placement
      <4> QED BY <4>1 DEF Key, ParityDist
    <3>2. /\ ParityDist(x) \in DOMAIN parity_map'
          /\ x \in parity_map'[ParityDist(x)]
      BY <1>2, <1>7 DEF BuildMap
    <3>3. ASSUME ps # {}
          PROVE  /\ Key(x, ps) \in DOMAIN partial_dist_map'
                 /\ x \in partial_dist_map'[Key(x, ps)]
      <4> DEFINE keys == {Key(u, us) : u \in Index, us \in Indexed}
                 agree(key) == {u \in Index : Key(u, DOMAIN key) = key}
      <4>1. partial_dist_map' = [key \in keys |-> agree(key)]
        BY <1>7 DEF BuildMap
      <4>2. Key(x, ps) \in keys
        <5>1. x \in Index /\ ps \in Indexed
          BY <1>2, <3>3 DEF Indexed
        <5> HIDE DEF agree
        <5> QED BY <5>1
      <4>3. DOMAIN Key(x, ps) = ps
        BY DEF Key
      <4>4. x \in agree(Key(x, ps))
        BY <1>2, <4>3
      <4> HIDE DEF keys, agree
      <4> QED BY <4>1, <4>2, <4>4
    <3> QED BY <3>1, <3>2, <3>3
  <2>3. Patient'
    <3> SUFFICES ASSUME NEW x \in Left
                 PROVE  cur_cost[x] >= level /\ ~(x <= cur_stripe)
      BY <1>1, <2>1 DEF Patient
    <3> QED BY <1>2, <1>3, <2>1
  <2>4. Served'
    <3>1. ServedNext
      BY <1>1, <1>2, <1>3, <2>1 DEF ServedNext
    <3> QED BY <1>1, <2>1, <3>1, ServedPrime
  <2> QED BY <1>4, <2>1, <2>2, <2>3, <2>4 DEF LevelInv, Trying
<1>8. ASSUME NEW x \in Index, Visit(x) PROVE LevelInv'
  <2>1. /\ pc = "visit" /\ Upcoming(x) /\ level' = level /\ cur_stripe' = x
        /\ UNCHANGED <<parity_map, partial_dist_map>>
        /\ pc \in Searches /\ pc # "search"
    BY <1>8 DEF Visit, SkipSelected, TakeFound, BeginSearch, SearchAgain,
                SearchPartner, map_vars, Searches
  <2>2. Listed' /\ Exhausted'
    BY <1>1, <1>4, <2>1, ListsKept DEF LevelInv
  <2>3. \A y \in Left : y <= x /\ y # x => y <= cur_stripe
    BY <2>1, Passed
  <2>4. \A y, z \in Left : y <= x /\ y # x /\ y # z => cost[{y, z}] > level
    BY <2>1, <2>3 DEF LevelInv, Served
  <2>5. level < M
    BY <2>1 DEF IInv, Searching
  <2>6. CASE SkipSelected(x) \/ TakeFound(x)
    <3>1. pc' = "visit" /\ x \notin Left'
      BY <2>1, <2>6 DEF SkipSelected, TakeFound, Mark, Left, stripe_vars, IInv, Types
    <3>2. \A y \in Left' : cur_cost'[y] = cur_cost[y]
      <4>1. CASE SkipSelected(x)
        BY <4>1 DEF SkipSelected, stripe_vars
      <4>2. CASE TakeFound(x)
        BY <4>2 DEF TakeFound, Mark, Left, IInv, Types
      <4> QED BY <2>6, <4>1, <4>2
    <3>3. Patient'
      <4> SUFFICES ASSUME NEW y \in Left'
                   PROVE  /\ cur_cost[y] >= level
                          /\ y <= x => cur_cost[y] > level
        BY <2>1, <3>2 DEF Patient
      <4>1. y \in Left /\ y # x
        BY <1>1, <3>1
      <4> QED BY <2>1, <2>3, <4>1 DEF LevelInv, Patient
    <3>4. Served'
      <4>1. ServedNext
        BY <1>1, <2>1, <2>4, <3>1 DEF ServedNext
      <4> QED BY <1>1, <2>1, <4>1, ServedPrime
    <3> QED BY <2>2, <3>1, <3>3, <3>4 DEF LevelInv, Trying
  <2>7. CASE BeginSearch(x) \/ SearchAgain(x)
    <3>1. /\ pc' = "search" /\ todo' = Positions
          /\ ~selected[x] /\ selected' = selected
      BY <2>7 DEF BeginSearch, SearchAgain, SearchPartner
    <3>2. x \in Left /\ Left' = Left
      BY <3>1 DEF Left
    <3>3. /\ \A y \in Left \ {x} : cur_cost'[y] = cur_cost[y]
          /\ cur_cost'[x] > level
      <4>1. CASE BeginSearch(x)
        <5>1. cur_cost' = cur_cost /\ cur_cost[x] # level
          BY <4>1 DEF BeginSearch
        <5>2. cur_cost[x] >= level
          BY <2>1, <3>2 DEF LevelInv, Patient
        <5> QED BY <1>3, <5>1, <5>2
      <4>2. CASE SearchAgain(x)
        <5>1. cur_cost' = [cur_cost EXCEPT ![x] = 255]
          BY <4>2 DEF SearchAgain, NoCost
        <5>2. /\ cur_cost'[x] = 255
              /\ \A y \in Index \ {x} : cur_cost'[y] = cur_cost[y]
          BY <5>1 DEF IInv, Types
        <5> QED BY <1>2, <1>3, <5>2
      <4> QED BY <2>7, <4>1, <4>2
    <3>4. Patient'
      <4> SUFFICES ASSUME NEW y \in Left
                   PROVE  /\ cur_cost'[y] >= level
                          /\ y <= x => cur_cost'[y] > level
        BY <2>1, <3>2 DEF Patient
      <4>1. CASE y = x
        <5>1. cur_cost'[x] \in Nat
          BY <1>3, <3>3, <2>7 DEF BeginSearch, SearchAgain, NoCost, IInv, Types
        <5> QED BY <1>3, <3>3, <4>1, <5>1
      <4>2. CASE y # x
        BY <2>1, <2>3, <3>3, <4>2 DEF LevelInv, Patient
      <4> QED BY <4>1, <4>2
    <3>5. Served'
      <4>1. ServedNext
        BY <2>1, <2>4, <3>1, <3>2 DEF ServedNext
      <4> QED BY <1>1, <2>1, <4>1, ServedPrime
    <3>6. Trying'
      <4>1. Positions' = Positions
        BY <2>1 DEF Positions
      <4> QED BY <3>1, <4>1 DEF Trying
    <3> QED BY <2>2, <3>4, <3>5, <3>6 DEF LevelInv
  <2> QED BY <1>8, <2>6, <2>7 DEF Visit
<1>9. ASSUME NEW ps \in todo, NEW y \in Index, SearchHit(ps, y) PROVE LevelInv'
  <2> DEFINE list == Domain(ps) \ ({y} \cup Met(Domain(ps), y))
  <2>1. /\ pc = "search" /\ pc' = "visit" /\ pc \in Searches
        /\ SetDomain(ps, list)
        /\ Mark(cur_stripe, y, level)
        /\ level' = level /\ cur_stripe' = cur_stripe
    BY <1>9 DEF SearchHit, Searches
  <2>2. cur_stripe \in Left /\ cur_stripe \in Index
    BY <2>1 DEF IInv, Searching, Left
  <2>3. cur_stripe \notin Left' /\ y \notin Left'
    BY <2>1, <2>2 DEF Mark, Left, IInv, Types
  <2>4. Listed'
    <3>1. \A x \in Left' : x \in Domain(ps) => x \in list
      <4>1. \A x \in Left' : x \notin Met(Domain(ps), y)
        BY <1>1, <2>3 DEF Met, Left
      <4> QED BY <2>3, <4>1
    <3> HIDE DEF list
    <3> QED BY <1>1, <2>1, <3>1, ListKept DEF LevelInv
  <2>5. Patient'
    <3>1. \A x \in Left' : cur_cost'[x] = cur_cost[x]
      BY <1>1, <1>2, <2>1, <2>3 DEF Mark, IInv, Types
    <3> QED BY <1>1, <2>1, <3>1 DEF LevelInv, Patient
  <2>6. Served'
    <3>1. ServedNext
      BY <1>1, <2>1, <2>3 DEF ServedNext, LevelInv, Served
    <3> QED BY <1>1, <2>1, <3>1, ServedPrime
  <2> QED BY <1>4, <2>1, <2>4, <2>5, <2>6 DEF LevelInv, Trying
<1>10. ASSUME NEW ps \in todo,
              SearchNothing(ps) \/ \E y \in Index : SearchBetter(ps, y)
       PROVE  LevelInv'
  <2>1. /\ pc = "search" /\ pc' = "search" /\ pc \in Searches
        /\ todo' = todo \ {ps} /\ selected' = selected
        /\ level' = level /\ cur_stripe' = cur_stripe
    BY <1>10 DEF SearchNothing, SearchBetter, stripe_vars, Searches
  <2>2. cur_stripe \in Left /\ cur_stripe \in Index /\ Left' = Left
    BY <2>1 DEF IInv, Searching, Left
  <2>3. ps \in Positions /\ Positions' = Positions
    BY <2>1 DEF LevelInv, Trying, Positions
  <2>4. /\ Domain(ps) \subseteq Index
        /\ \A z \in Left : Key(z, ps) = Key(cur_stripe, ps) => z \in Domain(ps)
    BY <2>1, DomainFacts DEF LevelInv
  <2>5. Listed'
    <3> DEFINE list == {z \in Domain(ps) : ~selected[z]}
    <3>1. SetDomain(ps, list) \/ UNCHANGED <<parity_map, partial_dist_map>>
      BY <1>10 DEF SearchNothing, SearchBetter
    <3>2. \A x \in Left' : x \in Domain(ps) => x \in list
      BY <2>2 DEF Left
    <3> HIDE DEF list
    <3>3. CASE SetDomain(ps, list)
      BY <1>1, <2>1, <3>2, <3>3, ListKept DEF LevelInv
    <3>4. CASE UNCHANGED <<parity_map, partial_dist_map>>
      BY <1>1, <2>1, <3>4, ListsKept DEF LevelInv
    <3> QED BY <3>1, <3>3, <3>4
  <2>6. ASSUME NEW z \in Left, z # cur_stripe, Key(cur_stripe, ps) = Key(z, ps)
        PROVE  cost[{cur_stripe, z}] > level
    <3>1. z \in Domain(ps) /\ cur_stripe \in Domain(ps)
      BY <2>2, <2>4, <2>6
    <3>2. Cardinality(Domain(ps)) > 1
      <4>1. IsFiniteSet(Domain(ps))
        BY <2>4, IndexFinite, FS_Subset
      <4>2. Cardinality(Domain(ps)) \in Nat
        BY <4>1, FS_CardinalityType
      <4>3. Domain(ps) # {} /\ ~\E e : Domain(ps) = {e}
        BY <2>6, <3>1
      <4>4. Cardinality(Domain(ps)) # 0 /\ Cardinality(Domain(ps)) # 1
        BY <4>1, <4>3, FS_EmptySet, FS_Singleton
      <4> QED BY <4>2, <4>4
    <3>3. \A e \in Index : ~Hit(Domain(ps), e)
      <4>1. CASE SearchNothing(ps)
        <5>1. Cardinality(Domain(ps)) \in Nat
          BY <2>4, IndexFinite, FS_Subset, FS_CardinalityType
        <5>2. Cheaper(Domain(ps)) = {}
          BY <3>2, <4>1, <5>1 DEF SearchNothing
        <5> QED BY <5>2 DEF Hit
      <4>2. CASE \E y \in Index : SearchBetter(ps, y)
        BY <4>2 DEF SearchBetter
      <4> QED BY <1>10, <4>1, <4>2
    <3> QED BY <2>1, <2>6, <3>3, NoHit
  <2>7. Served'
    <3>1. ServedNext
      <4> SUFFICES ASSUME NEW x \in Left, NEW z \in Left, x # z, x <= cur_stripe,
                          x = cur_stripe =>
                             \E qs \in Positions \ (todo \ {ps}) :
                                Key(x, qs) = Key(z, qs)
                   PROVE  cost[{x, z}] > level
        BY <2>1, <2>2 DEF ServedNext
      <4>1. CASE x = cur_stripe /\ Key(x, ps) = Key(z, ps)
        BY <2>6, <4>1
      <4>2. CASE x # cur_stripe \/ Key(x, ps) # Key(z, ps)
        BY <2>1, <4>2 DEF LevelInv, Served
      <4> QED BY <4>1, <4>2
    <3> QED BY <1>1, <2>1, <3>1, ServedPrime
  <2>8. Patient'
    <3>1. ASSUME NEW x \in Left
          PROVE  cur_cost[x] >= level /\ (x <= cur_stripe => cur_cost[x] > level)
      BY <2>1 DEF LevelInv, Patient
    <3>2. CASE SearchNothing(ps)
      BY <2>1, <2>2, <3>1, <3>2 DEF SearchNothing, stripe_vars, Patient
    <3>3. ASSUME NEW y \in Index, SearchBetter(ps, y) PROVE Patient'
      <4>1. /\ y \in Cheaper(Domain(ps)) /\ ~Hit(Domain(ps), y)
            /\ \A z \in Index : ~Hit(Domain(ps), z)
            /\ \A z \in Cheaper(Domain(ps)) \ {y} :
                  CostTo(y) < CostTo(z) \/ (CostTo(y) = CostTo(z) /\ y < z)
            /\ cur_cost' = [cur_cost EXCEPT ![cur_stripe] = CostTo(y)]
        BY <3>3 DEF SearchBetter
      <4>2. y \in Left /\ y # cur_stripe
        BY <4>1 DEF Cheaper, Left
      <4>3. CostTo(y) \in Nat /\ CostTo(y) >= level
        BY <1>2, <1>3, <2>2, <4>2 DEF CostTo, LevelInv, Exhausted
      <4>4. CostTo(y) # level
        <5> SUFFICES ASSUME CostTo(y) = level PROVE FALSE
          OBVIOUS
        <5>1. PICK z \in Cheaper(Domain(ps)) : z < y /\ ~(CostTo(z) > level)
          BY <4>1 DEF Hit
        <5>2. z # y
          BY <1>3, <5>1
        <5>3. y < z \/ CostTo(y) < CostTo(z)
          BY <4>1, <5>1, <5>2
        <5>4. z \in Index /\ z # cur_stripe
          BY <2>4, <5>1 DEF Cheaper
        <5>5. z \in Nat /\ y \in Nat /\ CostTo(z) \in Nat
          BY <1>3, <2>2, <5>4 DEF CostTo
        <5> QED BY <1>3, <5>1, <5>3, <5>5
      <4>5. /\ cur_cost'[cur_stripe] > level
            /\ cur_cost'[cur_stripe] >= level
            /\ \A x \in Left \ {cur_stripe} : cur_cost'[x] = cur_cost[x]
        <5>1. /\ cur_cost'[cur_stripe] = CostTo(y)
              /\ \A x \in Left \ {cur_stripe} : cur_cost'[x] = cur_cost[x]
          BY <1>2, <2>2, <4>1 DEF IInv, Types
        <5> QED BY <1>3, <4>3, <4>4, <5>1
      <4> QED BY <2>1, <2>2, <3>1, <4>5 DEF Patient
    <3> QED BY <1>10, <3>2, <3>3
  <2>9. Trying'
    BY <2>1, <2>3 DEF LevelInv, Trying
  <2> QED BY <1>4, <2>1, <2>5, <2>7, <2>8, <2>9 DEF LevelInv
<1>11. CASE SearchFailed
  <2>1. /\ pc = "search" /\ pc' = "visit" /\ pc \in Searches
        /\ todo = {} /\ selected' = selected /\ cur_cost' = cur_cost
        /\ level' = level /\ cur_stripe' = cur_stripe
        /\ UNCHANGED <<parity_map, partial_dist_map>>
    BY <1>11 DEF SearchFailed, stripe_vars, Searches, search_vars, map_vars
  <2>2. cur_stripe \in Left /\ Left' = Left /\ level < M
    BY <2>1 DEF IInv, Searching, Left
  <2>3. Listed'
    BY <1>1, <2>1, ListsKept DEF LevelInv
  <2>4. Patient'
    BY <2>1, <2>2 DEF LevelInv, Patient, Searches
  <2>5. ASSUME NEW z \in Left, z # cur_stripe
        PROVE  cost[{cur_stripe, z}] > level
    <3>1. cost[{cur_stripe, z}] \in Nat /\ cur_stripe \in Index /\ z \in Index
      BY <1>2, <1>3, <2>2, <2>5
    <3>2. CASE cost[{cur_stripe, z}] <= level
      <4>1. \E ps \in Positions : Key(cur_stripe, ps) = Key(z, ps)
        BY <1>3, <2>2, <2>5, <3>1, <3>2, AgreeSomewhere DEF Ranges
      <4>2. cur_stripe <= cur_stripe
        BY <1>3
      <4> QED BY <2>1, <2>2, <2>5, <4>1, <4>2 DEF LevelInv, Served
    <3> QED BY <1>3, <3>1, <3>2
  <2>6. Served'
    <3>1. ServedNext
      <4> SUFFICES ASSUME NEW x \in Left, NEW z \in Left, x # z, x <= cur_stripe
                   PROVE  cost[{x, z}] > level
        BY <2>1, <2>2 DEF ServedNext
      <4> QED BY <2>1, <2>5 DEF LevelInv, Served
    <3> QED BY <1>1, <2>1, <3>1, ServedPrime
  <2> QED BY <1>4, <2>1, <2>3, <2>4, <2>6 DEF LevelInv, Trying
<1>12. CASE NextLevel
  <2>1. /\ pc = "visit" /\ pc \in Searches /\ pc # "search"
        /\ level' = level + 1 /\ cur_stripe' = 0
        /\ selected' = selected /\ cur_cost' = cur_cost
        /\ UNCHANGED <<parity_map, partial_dist_map>>
        /\ pc' \in {"visit", "optimize", "greedy"}
        /\ \A x \in Index : ~Upcoming(x)
    BY <1>12 DEF NextLevel, stripe_vars, Searches, NoIndex
  <2>2. Left' = Left
    BY <2>1 DEF Left
  <2>3. \A x \in Left : x <= cur_stripe
    <3> DEFINE Later == {x \in remaining_stripes : x > cur_stripe}
    <3>1. Later \subseteq Index /\ Later \in SUBSET Nat
      BY <1>3 DEF LeftServed
    <3>2. Later = {}
      <4> SUFFICES ASSUME Later # {} PROVE FALSE
        OBVIOUS
      <4>1. PICK x \in Later : \A y \in Later : x <= y
        <5> HIDE DEF Later
        <5> QED BY <3>1, Smallest
      <4>2. Upcoming(x)
        BY <4>1 DEF Upcoming
      <4> QED BY <2>1, <3>1, <4>2
    <3>3. Left \subseteq remaining_stripes
      BY <2>1 DEF LeftServed
    <3> QED BY <1>2, <1>3, <3>2, <3>3
  <2>4. \A x, y \in Left : x # y => cost[{x, y}] > level
    BY <2>1, <2>3 DEF LevelInv, Served
  <2>5. Exhausted'
    <3> SUFFICES ASSUME NEW x \in Left, NEW y \in Left, x # y
                 PROVE  cost[{x, y}] >= level + 1
      BY <1>1, <2>1, <2>2 DEF Exhausted
    <3>1. cost[{x, y}] > level /\ cost[{x, y}] \in Nat
      BY <1>2, <1>3, <2>4
    <3> QED BY <1>3, <3>1
  <2>6. Patient'
    <3> SUFFICES ASSUME NEW x \in Left
                 PROVE  cur_cost[x] >= level + 1 /\ ~(x <= 0)
      BY <2>1, <2>2 DEF Patient
    <3>1. cur_cost[x] > level
      BY <2>1, <2>3 DEF LevelInv, Patient
    <3> QED BY <1>2, <1>3, <3>1
  <2>7. Listed'
    BY <1>1, <2>1, ListsKept DEF LevelInv
  <2>8. Served'
    <3>1. \A x \in Left' : ~(x <= cur_stripe')
      BY <1>2, <1>3, <2>1, <2>2
    <3> QED BY <3>1 DEF Served
  <2> QED BY <2>1, <2>5, <2>6, <2>7, <2>8 DEF LevelInv, Trying
<1>13. ASSUME NEW i \in Index, NEW j \in Index, GreedyPick(i, j) PROVE LevelInv'
  BY <1>5, <1>13 DEF GreedyPick, search_vars, Searches
<1>14. CASE GreedyEnd
  BY <1>5, <1>14 DEF GreedyEnd, search_vars, Searches
<1>15. CASE Optimize \/ OptimizeEnd \/ CollectEnd
  BY <1>5, <1>15 DEF Optimize, OptimizeEnd, CollectEnd, search_vars, Searches
<1>16. ASSUME NEW x \in Index, Collect(x) PROVE LevelInv'
  BY <1>5, <1>16 DEF Collect, search_vars, Searches
<1>17. CASE UNCHANGED vars
  <2>1. UNCHANGED <<pc, parity_map, partial_dist_map, level, cur_stripe, todo,
                    selected, cur_cost>>
    BY <1>17 DEF vars, stripe_vars, map_vars, search_vars
  <2>2. Left' = Left /\ Positions' = Positions
    BY <2>1 DEF Left, Positions
  <2>3. Listed'
    BY <1>1, <2>1, ListedPrime DEF LevelInv, Listed, ListedNext
  <2>4. Served'
    BY <1>1, <2>1, <2>2, ServedPrime DEF LevelInv, Served, ServedNext
  <2>5. Patient' /\ Trying'
    BY <2>1, <2>2 DEF LevelInv, Patient, Trying
  <2> QED BY <1>4, <2>1, <2>3, <2>4, <2>5 DEF LevelInv
<1> QED BY <1>7, <1>8, <1>9, <1>10, <1>11, <1>12, <1>13, <1>14, <1>15, <1>16,
           <1>17 DEF Next, Search

\* Whatever the placements and the order in which the lists are read, the
\* indexed search of a code with fewer than 8 parity chunks misses nothing: once
\* it is done with a cost, no two unmatched stripes could be merged for that cost
\* or less.  From 8 parity chunks on build_map makes no lists of a part of the
\* parity nodes, so the levels after 0 find nobody new.
THEOREM LevelDoneHolds == ASSUME M < 8 PROVE Spec => []LevelDone
<1>1. Exhausted => LevelDone
  <2> SUFFICES ASSUME Exhausted, NEW p \in Unmatched PROVE cost[p] >= level
    BY DEF LevelDone
  <2>1. PICK x \in Index, y \in Index : x < y /\ p = {x, y}
    BY PairFacts DEF Unmatched
  <2>2. x \in Left /\ y \in Left /\ x # y
    BY <2>1, IndexFacts DEF Unmatched, Left
  <2> QED BY <2>1, <2>2 DEF Exhausted
<1>2. Init => IInv /\ LeftEven /\ LeftServed /\ Ranges /\ LevelInv
  BY IInvInit, LeftInit, RangesInit, LevelInit
<1>3. IInv /\ LeftEven /\ LeftServed /\ Ranges /\ LevelInv /\ [Next]_vars
         => (IInv /\ LeftEven /\ LeftServed /\ Ranges /\ LevelInv)'
  BY IInvStep, LeftStep, RangesStep, LevelStep
<1>4. LevelInv => Exhausted
  BY DEF LevelInv
<1> QED BY <1>1, <1>2, <1>3, <1>4, PTL DEF Spec

-----------------------------------------------------------------------------
(* Both searches implement the greedy choice *)

LEMMA SamePairs == Abstract!Pair = Pair
<1>1. ASSUME NEW p \in Abstract!Pair PROVE p \in Pair
  <2>1. PICK x \in Index, y \in Index : x # y /\ p = {x, y}
    BY DEF Abstract!Pair
  <2> QED BY <2>1, PairFacts
<1>2. ASSUME NEW p \in Pair PROVE p \in Abstract!Pair
  <2>1. PICK x \in Index, y \in Index : x < y /\ p = {x, y}
    BY PairFacts
  <2> QED BY <2>1, IndexFacts DEF Abstract!Pair
<1> QED BY <1>1, <1>2

\* Who is in no pair is not selected.
LEMMA FreeIsUnmatched == ASSUME IInv PROVE Abstract!Free = Unmatched
<1>1. UNION Chosen = {x \in Index : selected[x]}
  <2>1. \A x \in Index : selected[x] =>
            matching_index[x] \in Index /\ selected[matching_index[x]]
    BY DEF IInv, PairsAgree
  <2>2. \A x \in Index : selected[x] => x \in PairOf(x) /\ PairOf(x) \in Chosen
    BY DEF Chosen, PairOf
  <2>3. \A p \in Chosen : p \subseteq {x \in Index : selected[x]}
    BY <2>1 DEF Chosen, PairOf
  <2> QED BY <2>2, <2>3
<1>2. \A p \in Pair : p \cap UNION Chosen = {} <=> \A x \in p : ~selected[x]
  BY <1>1 DEF Pair
<1>3. Abstract!Free = {p \in Pair : p \cap UNION Chosen = {}}
  BY SamePairs DEF Abstract!Free
<1> QED BY <1>2, <1>3 DEF Unmatched

LEMMA NextPairs ==
    Chosen' = {{x, matching_index'[x]} : x \in {y \in Index : selected'[y]}}
  BY DEF Chosen, PairOf

LEMMA ChosenSame ==
    ASSUME selected' = selected,
           \A x \in Index : selected[x] => matching_index'[x] = matching_index[x]
    PROVE  Chosen' = Chosen
<1> DEFINE S == {x \in Index : selected[x]}
<1>1. Chosen' = {{x, matching_index'[x]} : x \in S}
  BY NextPairs
<1>2. Chosen = {{x, matching_index[x]} : x \in S}
  BY DEF Chosen, PairOf
<1>3. \A x \in S : {x, matching_index'[x]} = {x, matching_index[x]}
  OBVIOUS
<1> HIDE DEF S
<1> QED BY <1>1, <1>2, <1>3

\* A pair that is marked is chosen.
LEMMA ChosenMarked ==
    ASSUME IInv, NEW i \in Left, NEW j \in Left, i # j, NEW c, Mark(i, j, c)
    PROVE  Chosen' = Chosen \cup {{i, j}}
<1> DEFINE S == {x \in Index : selected[x]}
<1>1. i \in Index /\ j \in Index /\ ~selected[i] /\ ~selected[j]
  BY DEF Left
<1>2. /\ matching_index'[i] = j /\ matching_index'[j] = i
      /\ \A x \in S : matching_index'[x] = matching_index[x]
      /\ {x \in Index : selected'[x]} = S \cup {i, j}
  BY <1>1 DEF Mark, IInv, Types
<1>3. Chosen' = {{x, matching_index'[x]} : x \in S \cup {i, j}}
  BY <1>2, NextPairs
<1>4. Chosen = {{x, matching_index[x]} : x \in S}
  BY DEF Chosen, PairOf
<1> HIDE DEF S
<1>5. ASSUME NEW e \in Chosen' PROVE e \in Chosen \cup {{i, j}}
  <2>1. PICK x \in S \cup {i, j} : e = {x, matching_index'[x]}
    BY <1>3
  <2> QED BY <1>2, <1>4, <2>1
<1>6. ASSUME NEW e \in Chosen \cup {{i, j}} PROVE e \in Chosen'
  <2>1. CASE e \in Chosen
    <3>1. PICK x \in S : e = {x, matching_index[x]}
      BY <1>4, <2>1
    <3> QED BY <1>2, <1>3, <3>1
  <2>2. CASE e = {i, j}
    BY <1>2, <1>3, <2>2
  <2> QED BY <2>1, <2>2
<1> QED BY <1>5, <1>6

\* make_optimization gives away the pairs {ci, cj} and {i, j} for {x, y} and
\* {u, v}.
LEMMA ChosenExchanged ==
    ASSUME IInv, NEW ci \in PaidStripes, NEW i \in ZeroStripes,
           NEW x, NEW y, NEW u, NEW v,
           \/ x = matching_index[ci] /\ y = matching_index[i] /\ u = ci /\ v = i
           \/ x = ci /\ y = matching_index[i] /\ u = matching_index[ci] /\ v = i,
           Exchange(x, y, u, v), selected' = selected
    PROVE  /\ {x, y} \cup {u, v} = PairOf(ci) \cup PairOf(i)
           /\ x \in Index /\ y \in Index /\ u \in Index /\ v \in Index
           /\ x # y /\ u # v
           /\ Chosen' = (Chosen \ {PairOf(ci), PairOf(i)}) \cup {{x, y}, {u, v}}
<1> DEFINE cj == matching_index[ci]
           j == matching_index[i]
           four == {ci, cj, i, j}
           S == {z \in Index : selected[z]}
           old == {PairOf(ci), PairOf(i)}
           new == {{x, y}, {u, v}}
<1>1. ci \in S /\ cost[{ci, cj}] # 0 /\ i \in S /\ cost[{i, j}] = 0
  BY DEF PaidStripes, ZeroStripes
<1>2. /\ cj \in S /\ cj # ci /\ matching_index[cj] = ci
      /\ j \in S /\ j # i /\ matching_index[j] = i
  BY <1>1 DEF IInv, PairsAgree
<1>3. /\ {ci, cj} = {cj, ci} /\ {i, j} = {j, i}
      /\ i # ci /\ i # cj /\ j # ci /\ j # cj
  BY <1>1, <1>2
<1>4. /\ x # y /\ u # v /\ x # u /\ x # v /\ y # u /\ y # v
      /\ {x, y, u, v} = four
  BY <1>2, <1>3
<1>5. /\ matching_index'[x] = y /\ matching_index'[y] = x
      /\ matching_index'[u] = v /\ matching_index'[v] = u
      /\ \A z \in Index \ four : matching_index'[z] = matching_index[z]
  <2>1. matching_index' = [matching_index EXCEPT ![x] = y, ![y] = x,
                                                 ![u] = v, ![v] = u]
    BY DEF Exchange
  <2>2. /\ matching_index \in [Index -> Index \cup {NoIndex}]
        /\ x \in Index /\ y \in Index /\ u \in Index /\ v \in Index
    BY <1>1, <1>2 DEF IInv, Types
  <2> QED BY <1>4, <2>1, <2>2
<1>6. \A z \in four : {z, matching_index[z]} \in old
  BY <1>2, <1>3 DEF PairOf
<1>7. \A z \in four : {z, matching_index'[z]} \in new
  <2>1. \A z \in {x, y, u, v} : {z, matching_index'[z]} \in new
    BY <1>5
  <2> QED BY <1>4, <2>1
<1>8. Chosen' = {{z, matching_index'[z]} : z \in S}
  BY NextPairs
<1>9. Chosen = {{z, matching_index[z]} : z \in S}
  BY DEF Chosen, PairOf
<1>10. \A p \in old : p \subseteq four
  BY DEF PairOf
<1>11. four \subseteq S /\ S \subseteq Index
  BY <1>1, <1>2
<1>12. {x, y} = {x, matching_index'[x]} /\ {u, v} = {u, matching_index'[u]}
  BY <1>5
<1>13. {x, y} \cup {u, v} = PairOf(ci) \cup PairOf(i)
  BY <1>4 DEF PairOf
<1>14. x \in four /\ y \in four /\ u \in four /\ v \in four
  BY <1>4
<1> HIDE DEF S, four, old
<1>15. ASSUME NEW e \in Chosen' PROVE e \in (Chosen \ old) \cup new
  <2>1. PICK z \in S : e = {z, matching_index'[z]}
    BY <1>8
  <2>2. CASE z \in four
    BY <1>7, <2>1, <2>2
  <2>3. CASE z \notin four
    <3>1. e = {z, matching_index[z]}
      BY <1>5, <1>11, <2>1, <2>3
    <3>2. e \in Chosen /\ e \notin old
      BY <1>9, <1>10, <2>3, <3>1
    <3> QED BY <3>2
  <2> QED BY <2>2, <2>3
<1>16. ASSUME NEW e \in (Chosen \ old) \cup new PROVE e \in Chosen'
  <2>1. CASE e \in Chosen \ old
    <3>1. PICK z \in S : e = {z, matching_index[z]}
      BY <1>9, <2>1
    <3>2. z \notin four
      BY <1>6, <2>1, <3>1
    <3> QED BY <1>5, <1>8, <1>11, <3>1, <3>2
  <2>2. CASE e \in new
    BY <1>8, <1>11, <1>12, <1>14, <2>2
  <2> QED BY <2>1, <2>2
<1>17. Chosen' = (Chosen \ old) \cup new
  BY <1>15, <1>16
<1> QED BY <1>4, <1>11, <1>13, <1>14, <1>17 DEF old

\* Everybody who becomes a pair is a cheapest pair of those who are left.
LEMMA PickStep ==
    ASSUME IInv, Ranges, cost' = cost,
           NEW i \in Left, NEW j \in Left, i # j, NEW c, Mark(i, j, c),
           \A q \in Unmatched : cost[{i, j}] <= cost[q]
    PROVE  Abstract!Next
<1>1. {i, j} \in Unmatched
  BY PairFacts DEF Unmatched, Left
<1>2. Chosen' = Chosen \cup {{i, j}}
  BY ChosenMarked
<1>3. Abstract!Pick({i, j})
  BY <1>2, FreeIsUnmatched DEF Abstract!Pick
<1> QED BY <1>1, <1>3, FreeIsUnmatched DEF Abstract!Next

LEMMA GreedyInit == Init => Abstract!Init
<1> SUFFICES ASSUME Init PROVE Abstract!Init
  OBVIOUS
<1>1. Chosen = {}
  BY DEF Init, Chosen
<1>2. cost \in [Pair -> Nat]
  <2>1. cost \in [Pair -> 0..(K + M)]
    BY RangesInit, CostTyped DEF Ranges
  <2> QED BY <2>1
<1> QED BY <1>1, <1>2, SamePairs DEF Abstract!Init

LEMMA GreedyStep ==
    ASSUME IInv, LeftServed, Ranges, LevelInv, [Next]_vars
    PROVE  Abstract!Next \/ UNCHANGED Abstract!vars
<1>1. Left' \subseteq Left /\ stripes' = stripes /\ cost' = cost
  BY LeftShrinks
<1>2. level \in Nat /\ \A q \in Unmatched : cost[q] \in Nat /\ cost[q] >= level
  <2>1. level \in Nat
    BY Comparable
  <2> SUFFICES ASSUME NEW q \in Unmatched PROVE cost[q] \in Nat /\ cost[q] >= level
    BY <2>1
  <2>2. PICK x \in Index, y \in Index : x < y /\ q = {x, y}
    BY PairFacts DEF Unmatched
  <2>3. x \in Left /\ y \in Left /\ x # y
    BY <2>2, IndexFacts DEF Unmatched, Left
  <2> QED BY <2>2, <2>3, Comparable DEF LevelInv, Exhausted
<1>3. ASSUME selected' = selected,
             \A x \in Index : selected[x] => matching_index'[x] = matching_index[x]
      PROVE  UNCHANGED Abstract!vars
  <2>1. Chosen' = Chosen
    BY <1>3, ChosenSame
  <2> QED BY <1>1, <2>1 DEF Abstract!vars
<1>4. CASE BuildMap
  BY <1>3, <1>4 DEF BuildMap, stripe_vars
<1>5. ASSUME NEW x \in Index, Visit(x)
      PROVE  Abstract!Next \/ UNCHANGED Abstract!vars
  <2>1. CASE SkipSelected(x)
    BY <1>3, <2>1 DEF SkipSelected, stripe_vars
  <2>2. CASE TakeFound(x)
    <3> DEFINE y == matching_index[x]
    <3>1. /\ pc = "visit" /\ ~selected[x] /\ cur_cost[x] = level
          /\ ~selected[y] /\ Mark(x, y, level)
      BY <2>2 DEF TakeFound
    <3>2. level # NoCost
      BY <1>2, <3>1, StripeAssumption
      DEF IInv, Searching, StripeAssumption, NoCost
    <3>3. y \in Index \ {x} /\ cost[{x, y}] = level
      BY <3>1, <3>2 DEF IInv, InMind
    <3>4. x \in Left /\ y \in Left /\ x # y
      BY <3>1, <3>3 DEF Left
    <3> HIDE DEF y
    <3> QED BY <1>1, <1>2, <3>1, <3>3, <3>4, PickStep
  <2>3. CASE BeginSearch(x)
    BY <1>3, <2>3 DEF BeginSearch, SearchPartner
  <2>4. CASE SearchAgain(x)
    <3>1. /\ ~selected[x] /\ selected' = selected
          /\ matching_index' = [matching_index EXCEPT ![x] = NoIndex]
      BY <2>4 DEF SearchAgain, SearchPartner
    <3> QED BY <1>3, <3>1 DEF IInv, Types
  <2> QED BY <1>5, <2>1, <2>2, <2>3, <2>4 DEF Visit
<1>6. ASSUME NEW ps \in todo, Search(ps)
      PROVE  Abstract!Next \/ UNCHANGED Abstract!vars
  <2>1. CASE SearchNothing(ps)
    BY <1>3, <2>1 DEF SearchNothing, stripe_vars
  <2>2. ASSUME NEW y \in Index, SearchHit(ps, y) PROVE Abstract!Next
    <3>1. /\ pc = "search" /\ y \in Cheaper(Domain(ps)) /\ CostTo(y) = level
          /\ Mark(cur_stripe, y, level)
      BY <2>2 DEF SearchHit, Hit
    <3>2. cur_stripe \in Left /\ y \in Left /\ cur_stripe # y
      BY <3>1 DEF IInv, Searching, Cheaper, Left
    <3>3. cost[{cur_stripe, y}] = level
      BY <3>1 DEF CostTo
    <3> QED BY <1>1, <1>2, <3>1, <3>2, <3>3, PickStep
  <2>3. ASSUME NEW y \in Index, SearchBetter(ps, y)
        PROVE  UNCHANGED Abstract!vars
    <3>1. /\ pc = "search" /\ selected' = selected
          /\ matching_index' = [matching_index EXCEPT ![cur_stripe] = y]
      BY <2>3 DEF SearchBetter
    <3>2. ~selected[cur_stripe]
      BY <3>1 DEF IInv, Searching
    <3> QED BY <1>3, <3>1, <3>2 DEF IInv, Types
  <2> QED BY <1>6, <2>1, <2>2, <2>3 DEF Search
<1>7. CASE SearchFailed \/ NextLevel
  BY <1>3, <1>7 DEF SearchFailed, NextLevel, stripe_vars
<1>8. ASSUME NEW i \in Index, NEW j \in Index, GreedyPick(i, j)
      PROVE  Abstract!Next
  <2>1. /\ i < j /\ {i, j} \in Unmatched /\ Mark(i, j, cost[{i, j}])
        /\ \A x, y \in Index : x < y /\ {x, y} \in Unmatched => Before(i, j, x, y)
    BY <1>8 DEF GreedyPick
  <2>2. i \in Left /\ j \in Left /\ i # j
    BY <2>1, IndexFacts DEF Unmatched, Left
  <2>3. ASSUME NEW q \in Unmatched PROVE cost[{i, j}] <= cost[q]
    <3>1. PICK x \in Index, y \in Index : x < y /\ q = {x, y}
      BY PairFacts DEF Unmatched
    <3>2. Before(i, j, x, y)
      BY <2>1, <3>1
    <3>3. cost[{i, j}] \in Nat /\ cost[q] \in Nat
      BY <1>2, <2>1
    <3> QED BY <3>1, <3>2, <3>3 DEF Before
  <2> QED BY <1>1, <2>1, <2>2, <2>3, PickStep
<1>9. CASE GreedyEnd \/ OptimizeEnd \/ CollectEnd
  BY <1>3, <1>9 DEF GreedyEnd, OptimizeEnd, CollectEnd, stripe_vars
<1>10. CASE Optimize
  <2> DEFINE ci == Head(none_zero_candidate)
             cj == matching_index[ci]
             list == zero_map[ParityDist(ci)]
  <2>1. none_zero_candidate # <<>> /\ selected' = selected /\ pc = "optimize"
    BY <1>10 DEF Optimize
  <2>2. ci \in PaidStripes
    BY <2>1, TailFacts DEF IInv, Candidates
  <2>3. list \in Seq(ZeroStripes)
    BY <2>2 DEF IInv, ZeroPairs, PaidStripes
  <2>4. CASE UNCHANGED <<matching_index, cur_cost, zero_map>>
    BY <1>3, <2>1, <2>4
  <2>5. ASSUME NEW n \in DOMAIN list,
               Straight(ci, list[n]) \/ Crossed(ci, list[n]),
               IF Straight(ci, list[n])
               THEN Exchange(cj, matching_index[list[n]], ci, list[n])
               ELSE Exchange(ci, matching_index[list[n]], cj, list[n])
        PROVE  Abstract!Next
    <3> DEFINE i == list[n]
               j == matching_index[i]
    <3>1. i \in ZeroStripes
      BY <2>3
    <3>2. /\ PairOf(ci) \in Chosen /\ PairOf(i) \in Chosen
          /\ cost[PairOf(ci)] # 0 /\ cost[PairOf(i)] = 0
      BY <2>2, <3>1 DEF PaidStripes, ZeroStripes, Chosen, PairOf
    <3>3. cost[PairOf(ci)] \in Nat
      <4>1. ci \in Index /\ cj \in Index /\ ci # cj
        BY <2>2 DEF PaidStripes, IInv, PairsAgree
      <4>2. cost[{ci, cj}] \in Nat
        <5> HIDE DEF ci, cj
        <5> QED BY <4>1, Comparable
      <4> QED BY <4>2 DEF PairOf
    <3>4. Abstract!Free = {}
      <4>1. Left = {}
        BY <2>1 DEF LeftServed
      <4>2. Unmatched = {}
        <5> SUFFICES ASSUME NEW q \in Unmatched PROVE FALSE
          OBVIOUS
        <5>1. PICK x \in Index, y \in Index : x < y /\ q = {x, y}
          BY PairFacts DEF Unmatched
        <5> QED BY <4>1, <5>1 DEF Unmatched, Left
      <4> QED BY <4>2, FreeIsUnmatched
    <3>5. ASSUME NEW x, NEW y, NEW u, NEW v,
                 \/ x = cj /\ y = j /\ u = ci /\ v = i
                 \/ x = ci /\ y = j /\ u = cj /\ v = i,
                 Exchange(x, y, u, v), cost[{x, y}] = 0, cost[{u, v}] = 0
          PROVE  Abstract!Next
      <4> HIDE DEF ci, i
      <4>1. /\ {x, y} \cup {u, v} = PairOf(ci) \cup PairOf(i)
            /\ x \in Index /\ y \in Index /\ u \in Index /\ v \in Index
            /\ x # y /\ u # v
            /\ Chosen' = (Chosen \ {PairOf(ci), PairOf(i)}) \cup {{x, y}, {u, v}}
        BY <2>1, <2>2, <3>1, <3>5, ChosenExchanged
      <4>2. {x, y} \in Pair /\ {u, v} \in Pair
        BY <4>1, PairFacts
      <4>3. Abstract!Exchange(PairOf(ci), PairOf(i))
        <5> DEFINE p == PairOf(ci)
                   q == PairOf(i)
                   r == {x, y}
                   s == {u, v}
        <5>1. /\ cost[p] > 0 /\ cost[q] = 0 /\ cost[r] = 0 /\ cost[s] = 0
              /\ r \in Abstract!Pair /\ s \in Abstract!Pair
          BY <3>2, <3>3, <3>5, <4>2, SamePairs
        <5>2. r \cup s = p \cup q /\ Chosen' = (Chosen \ {p, q}) \cup {r, s}
          BY <4>1
        <5> HIDE DEF p, q, r, s
        <5>3. Abstract!Exchange(p, q)
          BY <1>1, <3>4, <5>1, <5>2 DEF Abstract!Exchange
        <5> QED BY <5>3 DEF p, q
      <4> QED BY <3>2, <4>3 DEF Abstract!Next
    <3>6. CASE Straight(ci, i)
      <4>1. cost[{cj, j}] = 0 /\ cost[{ci, i}] = 0 /\ Exchange(cj, j, ci, i)
        BY <2>5, <3>6 DEF Straight
      <4> HIDE DEF ci, cj, i, j
      <4> QED BY <3>5, <4>1
    <3>7. CASE ~Straight(ci, i)
      <4>1. cost[{ci, j}] = 0 /\ cost[{cj, i}] = 0 /\ Exchange(ci, j, cj, i)
        BY <2>5, <3>7 DEF Crossed
      <4> HIDE DEF ci, cj, i, j
      <4> QED BY <3>5, <4>1
    <3> QED BY <3>6, <3>7
  <2> QED BY <1>10, <2>4, <2>5 DEF Optimize
<1>11. ASSUME NEW x \in Index, Collect(x) PROVE UNCHANGED Abstract!vars
  BY <1>3, <1>11 DEF Collect, stripe_vars
<1>12. CASE UNCHANGED vars
  BY <1>3, <1>12 DEF vars, stripe_vars
<1> QED BY <1>4, <1>5, <1>6, <1>7, <1>8, <1>9, <1>10, <1>11, <1>12 DEF Next

\* dist_based_search, with its lists, its levels and the partners it keeps in
\* mind, and basic_greedy, with its sorted pairs, both choose a cheapest pair
\* of unmatched stripes at a time; make_optimization, which runs when nobody is
\* left, exchanges two pairs for two that cost nothing.  For codes with fewer
\* than 8 parity chunks, where the lists are made.
THEOREM SearchImplementsGreedy == ASSUME M < 8 PROVE Spec => ImplementsGreedy
<1>1. Init => Abstract!Init
  BY GreedyInit
<1>2. IInv /\ LeftServed /\ Ranges /\ LevelInv /\ [Next]_vars
         => [Abstract!Next]_(Abstract!vars)
  BY GreedyStep
<1>3. Init => IInv /\ LeftEven /\ LeftServed /\ Ranges /\ LevelInv
  BY IInvInit, LeftInit, RangesInit, LevelInit
<1>4. IInv /\ LeftEven /\ LeftServed /\ Ranges /\ LevelInv /\ [Next]_vars
         => (IInv /\ LeftEven /\ LeftServed /\ Ranges /\ LevelInv)'
  BY IInvStep, LeftStep, RangesStep, LevelStep
<1> QED BY <1>1, <1>2, <1>3, <1>4, PTL
        DEF Spec, ImplementsGreedy, Abstract!Spec

-----------------------------------------------------------------------------
(* Nobody is stuck *)

\* What the searches can go on with: the guards of the actions of Next.  A
\* stripe that has a partner in mind must have one to look at.
VisitReady ==
    \/ \A x \in Index : ~Upcoming(x)
    \/ \E x \in Index :
          /\ Upcoming(x)
          /\ ~selected[x] /\ cur_cost[x] = level => matching_index[x] \in Index

Cheapest(list, y) ==
    \A z \in Cheaper(list) \ {y} :
        CostTo(y) < CostTo(z) \/ (CostTo(y) = CostTo(z) /\ y < z)

ListReady(list) ==
    \/ Cardinality(list) <= 1
    \/ /\ Cardinality(list) > 1
       /\ \/ Cheaper(list) = {}
          \/ \E y \in Index : Hit(list, y)
          \/ /\ \A z \in Index : ~Hit(list, z)
             /\ \E y \in Cheaper(list) : Cheapest(list, y)

SearchReady == todo = {} \/ \E ps \in todo : ListReady(Domain(ps))

GreedyReady ==
    \/ num_to_select = 0 \/ Unmatched = {}
    \/ /\ num_to_select > 0
       /\ \E i, j \in Index :
             /\ i < j /\ {i, j} \in Unmatched
             /\ \A x, y \in Index : x < y /\ {x, y} \in Unmatched => Before(i, j, x, y)

HelpsOut(ci, i) == Straight(ci, i) \/ Crossed(ci, i)

OptimizeReady ==
    \/ none_zero_candidate = <<>>
    \/ LET ci == Head(none_zero_candidate)
           list == zero_map[ParityDist(ci)]
       IN  \/ \E n \in DOMAIN list : /\ HelpsOut(ci, list[n])
                                     /\ \A o \in 1..(n - 1) : ~HelpsOut(ci, list[o])
           \/ \A n \in DOMAIN list : ~HelpsOut(ci, list[n])

CollectReady ==
    \/ \A x \in Index : x \in flag \/ matching_index[x] \in flag
    \/ \E x \in Index :
          /\ x \notin flag /\ matching_index[x] \notin flag
          /\ \A y \in 1..(x - 1) : y \in flag \/ matching_index[y] \in flag

\* There is no state but the last in which a search has nothing to do.
NeverStuck ==
    \/ pc \in {"build", "done"}
    \/ pc = "visit" /\ VisitReady
    \/ pc = "search" /\ SearchReady
    \/ pc = "greedy" /\ GreedyReady
    \/ pc = "optimize" /\ OptimizeReady
    \/ pc = "collect" /\ CollectReady

\* Every stripe has a list by all its parity nodes, also when it is the only one
\* in it, and on the level of cost 0 that list is the one to read.
Keyed ==
    /\ pc \in Searches => \A x \in Index : Key(x, 1..M) \in DOMAIN parity_map
    /\ pc = "build" => level = 0
    /\ pc = "search" /\ level = 0 => todo \subseteq {1..M}

LEMMA KeyedInit == Init => Keyed
  BY DEF Init, Keyed, Searches

\* Keyed', the stripes and the keys being the same.
LEMMA KeyedPrime ==
    ASSUME stripes' = stripes, DOMAIN parity_map' = DOMAIN parity_map,
           Keyed, pc \in Searches, pc' # "build",
           pc' = "search" /\ level' = 0 => todo' \subseteq {1..M}
    PROVE  Keyed'
<1>1. \A x \in Index : [y \in 1..M |-> stripes[x].parity[y]] \in DOMAIN parity_map
  BY DEF Keyed, Key
<1> QED BY <1>1 DEF Keyed, Key

LEMMA KeyedStep == IInv /\ Ranges /\ Keyed /\ [Next]_vars => Keyed'
<1> SUFFICES ASSUME IInv, Ranges, Keyed, [Next]_vars PROVE Keyed'
  OBVIOUS
<1>1. stripes' = stripes
  BY LeftShrinks
<1>2. ASSUME pc' \notin Searches \cup {"build"} PROVE Keyed'
  BY <1>2 DEF Keyed, Searches
<1>3. ASSUME NEW ps, NEW list, SetDomain(ps, list)
      PROVE  DOMAIN parity_map' = DOMAIN parity_map
  BY <1>3 DEF SetDomain
<1>4. CASE BuildMap
  <2>1. \A x \in Index : Key(x, 1..M) = ParityDist(x)
    <3>1. \A x \in Index : stripes[x].parity \in [1..M -> Node]
      BY MatchingAssumption DEF Ranges, Priced, MatchingAssumption, Placement
    <3> QED BY <3>1 DEF Key, ParityDist
  <2>2. \A x \in Index : ParityDist(x) \in DOMAIN parity_map'
    BY <1>4 DEF BuildMap
  <2>3. \A x \in Index : Key(x, 1..M)' = Key(x, 1..M)
    BY <1>1 DEF Key
  <2> QED BY <1>4, <2>1, <2>2, <2>3 DEF BuildMap, Keyed
<1>5. ASSUME NEW x \in Index, Visit(x) PROVE Keyed'
  <2>1. /\ pc = "visit" /\ pc' \in {"visit", "search"} /\ level' = level
        /\ parity_map' = parity_map
        /\ pc' = "search" => todo' = Positions
    BY <1>5 DEF Visit, SkipSelected, TakeFound, BeginSearch, SearchAgain,
                SearchPartner, map_vars
  <2> QED BY <1>1, <2>1, KeyedPrime DEF Searches, Positions
<1>6. ASSUME NEW ps \in todo, Search(ps) PROVE Keyed'
  <2>1. /\ pc = "search" /\ pc' \in {"visit", "search"} /\ level' = level
        /\ DOMAIN parity_map' = DOMAIN parity_map
        /\ todo' \subseteq todo
    BY <1>3, <1>6 DEF Search, SearchHit, SearchBetter, SearchNothing
  <2>2. pc' = "search" /\ level' = 0 => todo' \subseteq {1..M}
    BY <2>1 DEF Keyed
  <2> QED BY <1>1, <2>1, <2>2, KeyedPrime DEF Searches
<1>7. CASE SearchFailed
  BY <1>1, <1>7, KeyedPrime DEF SearchFailed, map_vars, Searches
<1>8. CASE NextLevel
  BY <1>1, <1>8, KeyedPrime DEF NextLevel, Searches
<1>9. ASSUME NEW i \in Index, NEW j \in Index, GreedyPick(i, j) PROVE Keyed'
  BY <1>2, <1>9 DEF GreedyPick, Searches
<1>10. CASE GreedyEnd \/ Optimize \/ OptimizeEnd \/ CollectEnd
  BY <1>2, <1>10 DEF GreedyEnd, Optimize, OptimizeEnd, CollectEnd, Searches
<1>11. ASSUME NEW x \in Index, Collect(x) PROVE Keyed'
  BY <1>2, <1>11 DEF Collect, Searches
<1>12. CASE UNCHANGED vars
  BY <1>1, <1>12 DEF vars, map_vars, search_vars, Keyed, Key, Searches
<1> QED BY <1>4, <1>5, <1>6, <1>7, <1>8, <1>9, <1>10, <1>11, <1>12 DEF Next

\* Every list that is read is one of stripes.
LEMMA ListInRange ==
    ASSUME IInv, Ranges, Keyed, pc = "search", NEW ps \in todo
    PROVE  Domain(ps) \subseteq Index
<1>1. cur_stripe \in Index
  BY DEF IInv, Searching
<1>2. CASE level = 0
  <2>1. ps = 1..M /\ Key(cur_stripe, 1..M) \in DOMAIN parity_map
    BY <1>1, <1>2 DEF Keyed, Searches
  <2> QED BY <1>2, <2>1 DEF Ranges, Lists, Domain
<1>3. CASE level # 0
  BY <1>3 DEF Ranges, Lists, Domain
<1> QED BY <1>2, <1>3

AllInv == IInv /\ LeftEven /\ LeftServed /\ Ranges /\ Keyed

LEMMA AllInvHolds == Spec => []AllInv
<1>1. Init => AllInv
  BY IInvInit, LeftInit, RangesInit, KeyedInit DEF AllInv
<1>2. AllInv /\ [Next]_vars => AllInv'
  BY IInvStep, LeftStep, RangesStep, KeyedStep DEF AllInv
<1> QED BY <1>1, <1>2, PTL DEF Spec

\* A partner in mind is looked at on the level of its cost only, and that is
\* never the mark of a stripe without partner.
LEMMA VisitGoesOn ==
    ASSUME AllInv, pc = "visit" PROVE VisitReady
<1> SUFFICES ASSUME NEW x \in Index, Upcoming(x), ~selected[x], cur_cost[x] = level
             PROVE  matching_index[x] \in Index
  BY DEF VisitReady
<1>1. cur_cost[x] # NoCost
  BY Comparable DEF AllInv, NoCost
<1> QED BY <1>1 DEF AllInv, IInv, InMind

\* Of the stripes that improve on the best partner one is the first cheapest.
LEMMA SearchGoesOn ==
    ASSUME AllInv, pc = "search" PROVE SearchReady
<1> SUFFICES ASSUME NEW ps \in todo PROVE ListReady(Domain(ps))
  BY DEF SearchReady
<1> DEFINE list == Domain(ps)
           C == Cheaper(list)
<1>1. list \subseteq Index /\ cur_stripe \in Index
  BY ListInRange DEF AllInv, IInv, Searching
<1>2. Cardinality(list) \in Nat
  BY <1>1, IndexFinite, FS_Subset, FS_CardinalityType
<1>3. \A z \in C : z \in Index /\ z \in Nat /\ CostTo(z) \in Nat
  <2> SUFFICES ASSUME NEW z \in C PROVE z \in Index /\ z \in Nat /\ CostTo(z) \in Nat
    OBVIOUS
  <2>1. z \in Index /\ z # cur_stripe
    BY <1>1 DEF Cheaper
  <2>2. cost[{cur_stripe, z}] \in Nat /\ z \in Nat
    BY <1>1, <2>1, Comparable DEF AllInv
  <2> QED BY <2>1, <2>2 DEF CostTo
<1> HIDE DEF list, C
<1>4. C # {} => \E y \in C : \A z \in C \ {y} :
                    CostTo(y) < CostTo(z) \/ (CostTo(y) = CostTo(z) /\ y < z)
  <2> SUFFICES ASSUME C # {}
               PROVE  \E y \in C : \A z \in C \ {y} :
                          CostTo(y) < CostTo(z) \/ (CostTo(y) = CostTo(z) /\ y < z)
    OBVIOUS
  <2> DEFINE Costs == {CostTo(z) : z \in C}
  <2>1. Costs \in SUBSET Nat /\ Costs # {}
    BY <1>3
  <2>2. PICK c \in Costs : \A d \in Costs : c <= d
    <3> HIDE DEF Costs
    <3> QED BY <2>1, Smallest
  <2> DEFINE First == {z \in C : CostTo(z) = c}
  <2>3. First \in SUBSET Nat /\ First # {}
    BY <1>3
  <2>4. PICK y \in First : \A z \in First : y <= z
    <3> HIDE DEF First
    <3> QED BY <2>3, Smallest
  <2>5. ASSUME NEW z \in C \ {y}
        PROVE  CostTo(y) < CostTo(z) \/ (CostTo(y) = CostTo(z) /\ y < z)
    <3>1. CostTo(y) = c /\ c <= CostTo(z) /\ c \in Nat /\ CostTo(z) \in Nat
      BY <1>3, <2>2
    <3>2. CostTo(z) = c => y <= z
      BY <2>4
    <3>3. y \in Nat /\ z \in Nat /\ y # z
      BY <1>3
    <3> QED BY <3>1, <3>2, <3>3
  <2>6. y \in C
    OBVIOUS
  <2> QED BY <2>5, <2>6
<1> QED BY <1>2, <1>4 DEF ListReady, Cheapest, list, C

\* Of the unmatched pairs one is the first cheapest.
LEMMA GreedyGoesOn ==
    ASSUME AllInv, pc = "greedy" PROVE GreedyReady
<1> SUFFICES ASSUME num_to_select # 0, Unmatched # {} PROVE GreedyReady
  BY DEF GreedyReady
<1>1. num_to_select > 0
  BY DEF AllInv, Ranges
<1> DEFINE Is(i, j) == i < j /\ {i, j} \in Unmatched
           Costs == {cost[p] : p \in Unmatched}
<1>2. \A p \in Unmatched : /\ cost[p] \in Nat
                           /\ \E i, j \in Index : i < j /\ p = {i, j}
  BY CostTyped, PairFacts, StripeAssumption
     DEF AllInv, Ranges, Unmatched, StripeAssumption
<1>3. Costs \in SUBSET Nat /\ Costs # {}
  BY <1>2
<1>4. PICK c \in Costs : \A d \in Costs : c <= d
  <2> HIDE DEF Costs
  <2> QED BY <1>3, Smallest
<1> DEFINE Firsts == {i \in Index : \E j \in Index : Is(i, j) /\ cost[{i, j}] = c}
<1>5. Firsts \in SUBSET Nat /\ Firsts # {}
  <2>1. PICK p \in Unmatched : cost[p] = c
    OBVIOUS
  <2>2. PICK i \in Index, j \in Index : i < j /\ p = {i, j}
    BY <1>2
  <2>3. i \in Firsts
    BY <2>1, <2>2
  <2> QED BY <2>3, IndexFacts
<1>6. PICK i \in Firsts : \A x \in Firsts : i <= x
  <2> HIDE DEF Firsts
  <2> QED BY <1>5, Smallest
<1> DEFINE Seconds == {j \in Index : Is(i, j) /\ cost[{i, j}] = c}
<1>7. Seconds \in SUBSET Nat /\ Seconds # {}
  BY IndexFacts
<1>8. PICK j \in Seconds : \A y \in Seconds : j <= y
  <2> HIDE DEF Seconds
  <2> QED BY <1>7, Smallest
<1>9. i \in Index /\ j \in Index /\ i < j /\ {i, j} \in Unmatched /\ cost[{i, j}] = c
  OBVIOUS
<1>10. ASSUME NEW x \in Index, NEW y \in Index, x < y, {x, y} \in Unmatched
       PROVE  Before(i, j, x, y)
  <2>1. c <= cost[{x, y}] /\ c \in Nat /\ cost[{x, y}] \in Nat
    BY <1>2, <1>4, <1>10
  <2>2. cost[{x, y}] = c => i <= x /\ (x = i => j <= y)
    BY <1>6, <1>8, <1>10
  <2>3. i \in Nat /\ x \in Nat
    BY IndexFacts
  <2> QED BY <1>9, <2>1, <2>2, <2>3 DEF Before
<1> QED BY <1>1, <1>9, <1>10 DEF GreedyReady

\* Of the entries of zero_map that help one is the first.
LEMMA OptimizeGoesOn ==
    ASSUME AllInv, pc = "optimize" PROVE OptimizeReady
<1> SUFFICES ASSUME none_zero_candidate # <<>> PROVE OptimizeReady
  BY DEF OptimizeReady
<1> DEFINE ci == Head(none_zero_candidate)
           list == zero_map[ParityDist(ci)]
           Helping == {n \in DOMAIN list : HelpsOut(ci, list[n])}
<1>1. ci \in Index
  <2>1. none_zero_candidate \in Seq(PaidStripes)
    BY DEF AllInv, IInv, Candidates
  <2>2. ci \in PaidStripes
    BY <2>1
  <2> QED BY <2>2 DEF PaidStripes
<1>2. list \in Seq(ZeroStripes)
  BY <1>1 DEF AllInv, IInv, ZeroPairs
<1> HIDE DEF ci, list
<1>3. CASE Helping = {}
  <2>1. \A n \in DOMAIN list : ~HelpsOut(ci, list[n])
    BY <1>3
  <2> QED BY <2>1 DEF OptimizeReady, ci, list
<1>4. CASE Helping # {}
  <2>1. Helping \in SUBSET Nat
    BY <1>2
  <2>2. PICK n \in Helping : \A o \in Helping : n <= o
    <3> HIDE DEF Helping
    <3> QED BY <1>4, <2>1, Smallest
  <2>3. ASSUME NEW o \in 1..(n - 1) PROVE ~HelpsOut(ci, list[o])
    <3>1. n \in Nat /\ o \in DOMAIN list /\ ~(n <= o)
      BY <1>2
    <3> QED BY <2>2, <3>1
  <2> QED BY <2>2, <2>3 DEF OptimizeReady, ci, list
<1> QED BY <1>3, <1>4

\* Of the stripes that get_sending_scheme has not seen one is the first.
LEMMA CollectGoesOn == CollectReady
<1> DEFINE Unseen == {x \in Index : x \notin flag /\ matching_index[x] \notin flag}
<1>1. CASE Unseen = {}
  BY <1>1 DEF CollectReady
<1>2. CASE Unseen # {}
  <2>1. Unseen \in SUBSET Nat
    BY IndexFacts
  <2>2. PICK x \in Unseen : \A y \in Unseen : x <= y
    <3> HIDE DEF Unseen
    <3> QED BY <1>2, <2>1, Smallest
  <2>3. ASSUME NEW y \in 1..(x - 1) PROVE y \in flag \/ matching_index[y] \in flag
    <3>1. y \in Index /\ ~(x <= y)
      BY IndexFinite DEF Index
    <3> QED BY <2>2, <3>1
  <2> QED BY <2>2, <2>3 DEF CollectReady
<1> QED BY <1>1, <1>2

\* For any placements both searches can go on until the scheme is generated:
\* there is always a next stripe, a next list, a cheapest pair or a first
\* candidate to take, or the loop over them ends.
THEOREM NeverStuckHolds == Spec => []NeverStuck
<1>1. AllInv => NeverStuck
  BY VisitGoesOn, SearchGoesOn, GreedyGoesOn, OptimizeGoesOn, CollectGoesOn
     DEF NeverStuck, AllInv, Ranges
<1> QED BY <1>1, AllInvHolds, PTL

-----------------------------------------------------------------------------
(* Every step counts *)

PhaseNo == CASE pc = "build" -> 1 [] pc \in Searches -> 2 [] pc = "greedy" -> 3
             [] pc = "optimize" -> 4 [] pc = "collect" -> 5 [] OTHER -> 6

\* A visit is a level and a stripe.  Those that dist_based_search has not come
\* to, and the one whose lists it is searching.
Visits == (0..(M - 1)) \X Index
ToVisit(v) == v[1] > level \/ (v[1] = level /\ v[2] > cur_stripe)
Visiting(v) == pc = "search" /\ v[1] = level /\ v[2] = cur_stripe

Listing == {none_zero_candidate[n] : n \in DOMAIN none_zero_candidate}

\* What is still ahead of dist_based_search, of basic_greedy, of
\* make_optimization and of get_sending_scheme.
Ahead ==
    [phases |-> PhaseNo..5,
     levels |-> {l \in 0..(M - 1) : l >= level},
     visits |-> {v \in Visits : ToVisit(v)},
     ends |-> {v \in Visits : ToVisit(v) \/ Visiting(v)},
     lists |-> {s \in Visits \X SUBSET (1..M) :
                   ToVisit(s[1]) \/ (Visiting(s[1]) /\ s[2] \in todo)},
     pairs |-> Left,
     exchanges |-> Left \cup Listing,
     scheme |-> Index \ flag]

Advance == /\ \A k \in DOMAIN Ahead : Ahead'[k] \subseteq Ahead[k]
           /\ Ahead' # Ahead

\* Nothing is taken back.
PhaseOn == PhaseNo' >= PhaseNo
VisitOn ==
    /\ level' >= level
    /\ \A v \in Visits :
          /\ ToVisit(v)' => ToVisit(v)
          /\ Visiting(v)' => ToVisit(v) \/ Visiting(v)
          /\ \A ps \in todo' : Visiting(v)' => ToVisit(v) \/ (Visiting(v) /\ ps \in todo)
PairOn == Left' \subseteq Left /\ Listing' \subseteq Left \cup Listing
SchemeOn == flag \subseteq flag'
Onward == PhaseOn /\ VisitOn /\ PairOn /\ SchemeOn

\* Something is taken from what is ahead.
Taken == \E k \in DOMAIN Ahead : \E e \in Ahead[k] : e \notin Ahead'[k]

LEMMA AheadShrinks ==
    ASSUME AllInv, AllInv', Onward
    PROVE  \A k \in DOMAIN Ahead : Ahead'[k] \subseteq Ahead[k]
<1> USE DEF Onward, PhaseOn, VisitOn, PairOn, SchemeOn
<1>1. Ahead'["phases"] \subseteq Ahead["phases"]
  <2>1. PhaseNo \in Int /\ PhaseNo' \in Int
    BY DEF PhaseNo
  <2>2. PhaseNo'..5 \subseteq PhaseNo..5
    BY <2>1
  <2> QED BY <2>2 DEF Ahead
<1>2. Ahead'["levels"] \subseteq Ahead["levels"]
  <2>1. level \in Int /\ level' \in Int
    BY Comparable DEF AllInv, IInv, Types
  <2>2. \A l \in 0..(M - 1) : l >= level' => l >= level
    BY <2>1
  <2> QED BY <2>2 DEF Ahead
<1>3. /\ Ahead'["visits"] \subseteq Ahead["visits"]
      /\ Ahead'["ends"] \subseteq Ahead["ends"]
  BY DEF Ahead, Visits
<1>4. Ahead'["lists"] \subseteq Ahead["lists"]
  <2>1. \A s \in Visits \X SUBSET (1..M) : s[1] \in Visits
    OBVIOUS
  <2> QED BY <2>1 DEF Ahead, Visits
<1>5. /\ Ahead'["pairs"] \subseteq Ahead["pairs"]
      /\ Ahead'["exchanges"] \subseteq Ahead["exchanges"]
      /\ Ahead'["scheme"] \subseteq Ahead["scheme"]
  BY DEF Ahead
<1>6. DOMAIN Ahead = {"phases", "levels", "visits", "ends", "lists", "pairs",
                      "exchanges", "scheme"}
  BY DEF Ahead
<1> QED BY <1>1, <1>2, <1>3, <1>4, <1>5, <1>6

LEMMA AheadDiffers == ASSUME Taken PROVE Ahead' # Ahead
  BY DEF Taken

\* What a step leaves alone is not taken back by it.
LEMMA Rests ==
    ASSUME AllInv
    PROVE  /\ UNCHANGED pc => PhaseOn
           /\ UNCHANGED <<pc, search_vars>> => VisitOn
           /\ UNCHANGED selected /\ UNCHANGED none_zero_candidate => PairOn
           /\ UNCHANGED flag => SchemeOn
<1>1. PhaseNo \in Int /\ level \in Int
  BY Comparable DEF AllInv, PhaseNo
<1>2. UNCHANGED pc => PhaseOn
  BY <1>1 DEF PhaseNo, PhaseOn
<1>3. UNCHANGED <<pc, search_vars>> => VisitOn
  BY <1>1 DEF VisitOn, search_vars, ToVisit, Visiting
<1>4. UNCHANGED selected /\ UNCHANGED none_zero_candidate => PairOn
  BY DEF PairOn, Left, Listing
<1> QED BY <1>2, <1>3, <1>4 DEF SchemeOn

\* The phases go on in their order.
LEMMA PhaseGoesOnward ==
    ASSUME \/ pc = "build" /\ pc' = "visit"
           \/ pc = "greedy" /\ pc' \in {"optimize", "collect"}
           \/ pc = "optimize" /\ pc' = "collect"
           \/ pc = "collect" /\ pc' = "done",
           AllInv, UNCHANGED search_vars
    PROVE  /\ PhaseOn /\ VisitOn
           /\ Taken
<1> USE DEF Taken
<1>1. /\ PhaseNo \in 1..5 /\ PhaseNo' \in 1..6 /\ PhaseNo' > PhaseNo
      /\ pc' # "search"
  BY DEF PhaseNo, Searches
<1>2. level \in Int
  BY Comparable DEF AllInv
<1>3. PhaseOn /\ VisitOn
  BY <1>1, <1>2 DEF PhaseOn, VisitOn, search_vars, ToVisit, Visiting
<1>4. PhaseNo \in PhaseNo..5 /\ PhaseNo \notin PhaseNo'..5
  BY <1>1
<1>5. "phases" \in DOMAIN Ahead /\ PhaseNo \in Ahead["phases"]
      /\ PhaseNo \notin Ahead'["phases"]
  BY <1>4 DEF Ahead
<1> QED BY <1>3, <1>5

\* The stripe come to is greater than the last one.
LEMMA VisitGoesOnward ==
    ASSUME AllInv, pc = "visit", NEW x \in Index, x > cur_stripe,
           pc' \in Searches, level' = level, cur_stripe' = x
    PROVE  /\ PhaseOn /\ VisitOn
           /\ Taken
<1> USE DEF Taken
<1>1. /\ level \in Nat /\ level < M /\ M \in Nat /\ cur_stripe \in Nat
      /\ \A y \in Index : y \in Nat
  BY Comparable DEF AllInv, IInv, Searching
<1>2. PhaseOn
  BY DEF PhaseOn, PhaseNo, Searches
<1>3. VisitOn
  <2> SUFFICES ASSUME NEW v \in Visits
               PROVE  (ToVisit(v)' => ToVisit(v)) /\ (Visiting(v)' => ToVisit(v))
    BY <1>1 DEF VisitOn
  <2>1. v[2] \in Nat
    BY <1>1 DEF Visits
  <2> QED BY <1>1, <2>1 DEF ToVisit, Visiting
<1> DEFINE v == <<level, x>>
<1>4. v \in Visits /\ ToVisit(v) /\ ~ToVisit(v)'
  BY <1>1 DEF Visits, ToVisit
<1>5. "visits" \in DOMAIN Ahead /\ v \in Ahead["visits"] /\ v \notin Ahead'["visits"]
  BY <1>4 DEF Ahead
<1> QED BY <1>2, <1>3, <1>5

\* The search for the partner of a stripe reads a list less, or it ends.
LEMMA ListGoesOnward ==
    ASSUME AllInv, pc = "search", level' = level, cur_stripe' = cur_stripe,
           \/ pc' = "visit"
           \/ pc' = "search" /\ \E ps \in todo : todo' = todo \ {ps}
    PROVE  /\ PhaseOn /\ VisitOn
           /\ Taken
<1> USE DEF Taken
<1>1. /\ level \in Nat /\ level < M /\ M \in Nat /\ cur_stripe \in Index
      /\ \A y \in Index : y \in Nat
  BY Comparable DEF AllInv, IInv, Searching
<1>2. PhaseOn
  BY DEF PhaseOn, PhaseNo, Searches
<1>3. VisitOn
  BY <1>1 DEF VisitOn, ToVisit, Visiting
<1> DEFINE v == <<level, cur_stripe>>
<1>4. v \in Visits /\ ~ToVisit(v) /\ ~ToVisit(v)' /\ Visiting(v)
  BY <1>1 DEF Visits, ToVisit, Visiting
<1>5. CASE pc' = "visit"
  <2>1. ~Visiting(v)'
    BY <1>5 DEF Visiting
  <2>2. "ends" \in DOMAIN Ahead /\ v \in Ahead["ends"] /\ v \notin Ahead'["ends"]
    BY <1>4, <2>1 DEF Ahead
  <2> QED BY <1>2, <1>3, <2>2
<1>6. ASSUME NEW ps \in todo, todo' = todo \ {ps}
      PROVE  Taken
  <2>1. ps \in SUBSET (1..M)
    BY DEF AllInv, Ranges
  <2>2. PICK s : s = <<v, ps>>
    OBVIOUS
  <2>3. s \in Visits \X SUBSET (1..M)
    BY <1>4, <2>1, <2>2
  <2>4. ~ToVisit(s[1])' /\ Visiting(s[1]) /\ s[2] \in todo /\ s[2] \notin todo'
    BY <1>1, <1>6, <2>2 DEF ToVisit, Visiting
  <2>5. "lists" \in DOMAIN Ahead /\ s \in Ahead["lists"] /\ s \notin Ahead'["lists"]
    BY <2>3, <2>4 DEF Ahead
  <2> QED BY <2>5
<1> QED BY <1>2, <1>3, <1>5, <1>6

LEMMA LevelGoesOnward ==
    ASSUME AllInv, NextLevel
    PROVE  /\ PhaseOn /\ VisitOn
           /\ Taken
<1> USE DEF Taken
<1>1. /\ level \in Nat /\ level < M /\ M \in Nat /\ level' = level + 1
      /\ pc = "visit" /\ pc' \in {"visit", "greedy", "optimize"}
  BY Comparable DEF AllInv, IInv, Searching, NextLevel
<1>2. PhaseOn
  BY <1>1 DEF PhaseOn, PhaseNo, Searches
<1>3. VisitOn
  <2> SUFFICES ASSUME NEW v \in Visits PROVE ToVisit(v)' => ToVisit(v)
    BY <1>1 DEF VisitOn, Visiting
  <2>1. v[1] \in Int
    BY <1>1 DEF Visits
  <2> QED BY <1>1, <2>1 DEF ToVisit
<1>4. level \in 0..(M - 1) /\ level >= level /\ ~(level >= level')
  BY <1>1
<1>5. "levels" \in DOMAIN Ahead /\ level \in Ahead["levels"] /\ level \notin Ahead'["levels"]
  BY <1>4 DEF Ahead
<1> QED BY <1>2, <1>3, <1>5

\* A pair that is remembered as a candidate is one of a stripe that was left.
LEMMA RememberOnward ==
    ASSUME AllInv, NEW i \in Left, NEW j, NEW c, Remember(i, j, c), Left' \subseteq Left
    PROVE  PairOn
<1>1. none_zero_candidate \in Seq(PaidStripes)
  BY DEF AllInv, IInv, Candidates
<1>2. CASE none_zero_candidate' = none_zero_candidate
  BY <1>2 DEF PairOn, Listing
<1>3. CASE none_zero_candidate' = Append(none_zero_candidate, i)
  <2>1. \A n \in DOMAIN none_zero_candidate' :
            none_zero_candidate'[n] = i \/ none_zero_candidate'[n] \in Listing
    <3> SUFFICES ASSUME NEW n \in DOMAIN none_zero_candidate',
                        none_zero_candidate'[n] # i
                 PROVE  none_zero_candidate'[n] \in Listing
      OBVIOUS
    <3>1. /\ n \in DOMAIN none_zero_candidate
          /\ none_zero_candidate'[n] = none_zero_candidate[n]
      BY <1>1, <1>3
    <3> QED BY <3>1 DEF Listing
  <2>2. Listing' = {none_zero_candidate'[n] : n \in DOMAIN none_zero_candidate'}
    BY DEF Listing
  <2> QED BY <2>1, <2>2 DEF PairOn
<1> QED BY <1>2, <1>3 DEF Remember

LEMMA OptimizeOnward ==
    ASSUME AllInv, Optimize
    PROVE  /\ PairOn
           /\ Taken
<1> USE DEF Taken
<1> DEFINE cand == none_zero_candidate
           ci == Head(none_zero_candidate)
<1>1. cand # <<>> /\ cand' = Tail(cand) /\ selected' = selected
  BY DEF Optimize
<1>2. cand \in Seq(PaidStripes)
  BY DEF AllInv, IInv, Candidates
<1>3. 1 \in DOMAIN cand /\ ci = cand[1] /\ ci \in PaidStripes
  BY <1>1, <1>2
<1>4. \A n \in DOMAIN cand' : n + 1 \in DOMAIN cand /\ cand'[n] = cand[n + 1] /\ n + 1 # 1
  BY <1>1, <1>2, TailFacts
<1>5. \A n \in DOMAIN cand' : cand'[n] # ci
  BY <1>3, <1>4 DEF AllInv, IInv, Candidates
<1>6. Listing' \subseteq Listing /\ Left' = Left /\ ci \in Listing /\ ci \notin Listing'
  BY <1>1, <1>3, <1>4, <1>5 DEF Listing, Left
<1>7. ci \notin Left
  BY <1>3 DEF PaidStripes, Left
<1>8. /\ "exchanges" \in DOMAIN Ahead /\ ci \in Ahead["exchanges"]
      /\ ci \notin Ahead'["exchanges"]
  BY <1>6, <1>7 DEF Ahead
<1> QED BY <1>6, <1>8 DEF PairOn

LEMMA StepOnward ==
    ASSUME AllInv, Next
    PROVE  Onward /\ Taken
<1> USE DEF Onward, Taken
<1>1. Left' \subseteq Left
  BY LeftShrinks DEF AllInv
<1>2. CASE BuildMap
  <2>1. pc = "build" /\ pc' = "visit" /\ UNCHANGED <<stripe_vars, opt_vars, search_vars, out_vars>>
    BY <1>2 DEF BuildMap
  <2>2. PairOn /\ SchemeOn
    BY <2>1, Rests DEF stripe_vars, opt_vars, out_vars
  <2> QED BY <2>1, <2>2, PhaseGoesOnward
<1>3. ASSUME NEW x \in Index, Visit(x)
      PROVE  Onward /\ Taken
  <2>1. /\ pc = "visit" /\ x > cur_stripe /\ pc' \in Searches
        /\ level' = level /\ cur_stripe' = x /\ UNCHANGED flag
    BY <1>3 DEF Visit, SkipSelected, TakeFound, BeginSearch, SearchAgain, SearchPartner,
                Upcoming, Searches, out_vars
  <2>2. SchemeOn
    BY <2>1, Rests
  <2>3. PairOn
    <3>1. CASE TakeFound(x)
      <4>1. x \in Left /\ Remember(x, matching_index[x], level)
        BY <3>1 DEF TakeFound, Left
      <4> QED BY <4>1, <1>1, RememberOnward
    <3>2. CASE ~TakeFound(x)
      <4>1. UNCHANGED selected /\ UNCHANGED none_zero_candidate
        BY <1>3, <3>2 DEF Visit, SkipSelected, BeginSearch, SearchAgain, SearchPartner,
                          stripe_vars, opt_vars
      <4> QED BY <4>1, Rests
    <3> QED BY <3>1, <3>2
  <2> QED BY <2>1, <2>2, <2>3, VisitGoesOnward
<1>4. ASSUME NEW ps \in todo, Search(ps)
      PROVE  Onward /\ Taken
  <2>1. CASE SearchNothing(ps)
    <3>1. /\ pc = "search" /\ pc' = "search" /\ todo' = todo \ {ps}
          /\ level' = level /\ cur_stripe' = cur_stripe
          /\ UNCHANGED selected /\ UNCHANGED none_zero_candidate /\ UNCHANGED flag
      BY <2>1 DEF SearchNothing, stripe_vars, opt_vars, out_vars
    <3>2. PairOn /\ SchemeOn
      BY <3>1, Rests
    <3> QED BY <3>1, <3>2, ListGoesOnward
  <2>2. ASSUME NEW y \in Index, SearchBetter(ps, y)
        PROVE  Onward /\ Taken
    <3>1. /\ pc = "search" /\ pc' = "search" /\ todo' = todo \ {ps}
          /\ level' = level /\ cur_stripe' = cur_stripe
          /\ UNCHANGED selected /\ UNCHANGED none_zero_candidate /\ UNCHANGED flag
      BY <2>2 DEF SearchBetter, opt_vars, out_vars
    <3>2. PairOn /\ SchemeOn
      BY <3>1, Rests
    <3> QED BY <3>1, <3>2, ListGoesOnward
  <2>3. ASSUME NEW y \in Index, SearchHit(ps, y)
        PROVE  Onward /\ Taken
    <3>1. /\ pc = "search" /\ pc' = "visit"
          /\ level' = level /\ cur_stripe' = cur_stripe
          /\ Remember(cur_stripe, y, level) /\ UNCHANGED flag
      BY <2>3 DEF SearchHit, out_vars
    <3>2. cur_stripe \in Left
      BY <3>1 DEF AllInv, IInv, Searching, Left
    <3>3. PairOn
      BY <1>1, <3>1, <3>2, RememberOnward
    <3>4. SchemeOn
      BY <3>1, Rests
    <3> QED BY <3>1, <3>3, <3>4, ListGoesOnward
  <2> QED BY <1>4, <2>1, <2>2, <2>3 DEF Search
<1>5. CASE SearchFailed
  <2>1. /\ pc = "search" /\ pc' = "visit" /\ level' = level /\ cur_stripe' = cur_stripe
        /\ UNCHANGED selected /\ UNCHANGED none_zero_candidate /\ UNCHANGED flag
    BY <1>5 DEF SearchFailed, stripe_vars, opt_vars, search_vars, out_vars
  <2>2. PairOn /\ SchemeOn
    BY <2>1, Rests
  <2> QED BY <2>1, <2>2, ListGoesOnward
<1>6. CASE NextLevel
  <2>1. UNCHANGED selected /\ UNCHANGED none_zero_candidate /\ UNCHANGED flag
    BY <1>6 DEF NextLevel, stripe_vars, opt_vars, out_vars
  <2>2. PairOn /\ SchemeOn
    BY <2>1, Rests
  <2> QED BY <1>6, <2>2, LevelGoesOnward
<1>7. ASSUME NEW i \in Index, NEW j \in Index, GreedyPick(i, j)
      PROVE  Onward /\ Taken
  <2>1. /\ {i, j} \in Unmatched /\ Mark(i, j, cost[{i, j}])
        /\ UNCHANGED <<pc, opt_vars, search_vars, out_vars>>
    BY <1>7 DEF GreedyPick
  <2>2. PhaseOn /\ VisitOn /\ SchemeOn
    BY <2>1, Rests DEF out_vars
  <2>3. PairOn
    BY <1>1, <2>1 DEF PairOn, Listing, opt_vars
  <2>4. i \in Left /\ i \notin Left'
    BY <2>1 DEF Unmatched, Left, Mark, AllInv, IInv, Types
  <2>5. "pairs" \in DOMAIN Ahead /\ i \in Ahead["pairs"] /\ i \notin Ahead'["pairs"]
    BY <2>4 DEF Ahead
  <2> QED BY <2>2, <2>3, <2>5
<1>8. CASE GreedyEnd \/ OptimizeEnd \/ CollectEnd
  <2>1. /\ \/ pc = "greedy" /\ pc' \in {"optimize", "collect"}
           \/ pc = "optimize" /\ pc' = "collect"
           \/ pc = "collect" /\ pc' = "done"
        /\ UNCHANGED search_vars
        /\ UNCHANGED selected /\ UNCHANGED none_zero_candidate /\ UNCHANGED flag
    BY <1>8 DEF GreedyEnd, OptimizeEnd, CollectEnd, stripe_vars, opt_vars, out_vars
  <2>2. PairOn /\ SchemeOn
    BY <2>1, Rests
  <2> QED BY <2>1, <2>2, PhaseGoesOnward
<1>9. CASE Optimize
  <2>1. UNCHANGED <<pc, search_vars>> /\ UNCHANGED flag
    BY <1>9 DEF Optimize, out_vars
  <2>2. PhaseOn /\ VisitOn /\ SchemeOn
    BY <2>1, Rests
  <2> QED BY <1>9, <2>2, OptimizeOnward
<1>10. ASSUME NEW x \in Index, Collect(x)
       PROVE  Onward /\ Taken
  <2>1. /\ UNCHANGED <<pc, search_vars>> /\ x \notin flag
        /\ flag' = flag \cup {x, matching_index[x]}
        /\ UNCHANGED selected /\ UNCHANGED none_zero_candidate
    BY <1>10 DEF Collect, stripe_vars, opt_vars
  <2>2. PhaseOn /\ VisitOn /\ PairOn
    BY <2>1, Rests
  <2>3. "scheme" \in DOMAIN Ahead /\ x \in Ahead["scheme"] /\ x \notin Ahead'["scheme"]
    BY <2>1 DEF Ahead
  <2> QED BY <2>1, <2>2, <2>3 DEF SchemeOn
<1> QED BY <1>2, <1>3, <1>4, <1>5, <1>6, <1>7, <1>8, <1>9, <1>10 DEF Next

\* What is ahead only ever shrinks, and every step takes something from it: a
\* stripe is visited once on a level, a list is read once in a visit, a pair is
\* chosen once, a candidate is tried once, a stripe is collected once.
THEOREM EveryStepCounts == Spec => [][Advance]_vars
<1>1. AllInv /\ AllInv' /\ Next => Advance
  BY StepOnward, AheadShrinks, AheadDiffers DEF Advance
<1>2. AllInv /\ AllInv' /\ [Next]_vars => [Advance]_vars
  BY <1>1
<1> QED BY <1>2, AllInvHolds, PTL DEF Spec

\* Finitely much is ahead of the searches, so that they cannot run for ever;
\* with NeverStuckHolds, they can only stop when the scheme is generated.
THEOREM AheadIsFinite == Spec => [](\A k \in DOMAIN Ahead : IsFiniteSet(Ahead[k]))
<1>1. ASSUME AllInv PROVE \A k \in DOMAIN Ahead : IsFiniteSet(Ahead[k])
  <2>1. M \in Nat /\ PhaseNo \in Int
    BY StripeAssumption DEF StripeAssumption, PhaseNo
  <2>2. IsFiniteSet(PhaseNo..5)
    BY <2>1, FS_Interval
  <2>3. IsFiniteSet(0..(M - 1)) /\ IsFiniteSet(1..M)
    BY <2>1, FS_Interval
  <2>4. IsFiniteSet(Visits)
    BY <2>3, IndexFinite, FS_Product DEF Visits
  <2>5. IsFiniteSet(Visits \X SUBSET (1..M))
    BY <2>3, <2>4, FS_Product, FS_SUBSET
  <2>6. none_zero_candidate \in Seq(PaidStripes)
    BY <1>1 DEF AllInv, IInv, Candidates
  <2>7. Left \subseteq Index /\ Listing \subseteq Index
    <3>1. \A n \in DOMAIN none_zero_candidate : none_zero_candidate[n] \in PaidStripes
      BY <2>6
    <3> QED BY <3>1 DEF Left, Listing, PaidStripes
  <2>8. /\ Ahead["phases"] = PhaseNo..5
        /\ Ahead["levels"] \in SUBSET (0..(M - 1))
        /\ Ahead["visits"] \in SUBSET Visits /\ Ahead["ends"] \in SUBSET Visits
        /\ Ahead["lists"] \in SUBSET (Visits \X SUBSET (1..M))
        /\ Ahead["pairs"] \in SUBSET Index /\ Ahead["exchanges"] \in SUBSET Index
        /\ Ahead["scheme"] \in SUBSET Index
    BY <2>7 DEF Ahead
  <2>9. /\ \A S \in SUBSET (0..(M - 1)) : IsFiniteSet(S)
        /\ \A S \in SUBSET Visits : IsFiniteSet(S)
        /\ \A S \in SUBSET (Visits \X SUBSET (1..M)) : IsFiniteSet(S)
        /\ \A S \in SUBSET Index : IsFiniteSet(S)
    BY <2>3, <2>4, <2>5, IndexFinite, FS_Subset
  <2>10. DOMAIN Ahead = {"phases", "levels", "visits", "ends", "lists", "pairs",
                         "exchanges", "scheme"}
    BY DEF Ahead
  <2> HIDE DEF Ahead, Visits
  <2>11. /\ IsFiniteSet(Ahead["phases"]) /\ IsFiniteSet(Ahead["levels"])
         /\ IsFiniteSet(Ahead["visits"]) /\ IsFiniteSet(Ahead["ends"])
         /\ IsFiniteSet(Ahead["lists"]) /\ IsFiniteSet(Ahead["pairs"])
         /\ IsFiniteSet(Ahead["exchanges"]) /\ IsFiniteSet(Ahead["scheme"])
    BY <2>2, <2>8, <2>9
  <2> QED BY <2>10, <2>11
<1> QED BY <1>1, AllInvHolds, PTL

-----------------------------------------------------------------------------
(* get_cost, which Matching takes for a function of the pair.  CostTable has *)
(* its table.                                                                *)

\* Twice the first entry of the row of stripe i; the halving is exact.
LEMMA RowStart ==
    ASSUME NEW i \in Nat, NEW n \in Nat
    PROVE  2 * ((i * (2 * n - 3 - i)) \div 2) = i * (2 * n - 3 - i)
<1>1. CASE \E h \in Nat : i = 2 * h
  <2>1. PICK h \in Nat : i = 2 * h
    BY <1>1
  <2>2. i * (2 * n - 3 - i) = 2 * (h * (2 * n - 3 - i))
    BY <2>1
  <2> DEFINE p == h * (2 * n - 3 - i)
  <2>3. p \in Int
    BY <2>1
  <2> HIDE DEF p
  <2>4. (2 * p) \div 2 = p
    BY <2>3
  <2> QED BY <2>2, <2>4 DEF p
<1>2. CASE \E h \in Nat : i = 2 * h + 1
  <2>1. PICK h \in Nat : i = 2 * h + 1
    BY <1>2
  <2>2. 2 * n - 3 - i = 2 * (n - 2 - h)
    BY <2>1
  <2>3. i * (2 * n - 3 - i) = 2 * (i * (n - 2 - h))
    BY <2>1, <2>2
  <2> DEFINE p == i * (n - 2 - h)
  <2>4. p \in Int
    BY <2>1
  <2> HIDE DEF p
  <2>5. (2 * p) \div 2 = p
    BY <2>4
  <2> QED BY <2>3, <2>5 DEF p
<1>3. (\E h \in Nat : i = 2 * h) \/ (\E h \in Nat : i = 2 * h + 1)
  <2>1. /\ i \div 2 \in Nat
        /\ i = 2 * (i \div 2) \/ i = 2 * (i \div 2) + 1
    OBVIOUS
  <2> QED BY <2>1
<1> QED BY <1>1, <1>2, <1>3

\* The entries of stripe i end before those of any later stripe x begin: twice
\* the gap between the last of the one and the first of the other, less the two
\* they are apart at least, is a product of two naturals.
LEMMA RowsApart ==
    ASSUME NEW n \in Nat, NEW i \in Nat, NEW x \in Nat, i < x, x < n
    PROVE  (i * (2 * n - 3 - i)) + 2 * (n - 2) + 2
              <= x * (2 * n - 3 - x) + 2 * x
<1> DEFINE d == x - i
           m == n - 1 - i
<1>1. d \in Nat /\ m \in Nat /\ d >= 1 /\ m >= d
  OBVIOUS
<1>2. x = i + d /\ n = m + 1 + i
  OBVIOUS
<1> HIDE DEF d, m
<1>3. (d - 1) * (2 * m - d) >= 0
  <2>1. d - 1 \in Nat /\ 2 * m - d \in Nat
    BY <1>1
  <2>2. \A p, q \in Nat : p * q >= 0
    OBVIOUS
  <2> QED BY <2>1, <2>2
<1>4. x * (2 * n - 3 - x) + 2 * x - (i * (2 * n - 3 - i)) - 2 * (n - 2) - 2
         = (d - 1) * (2 * m - d)
  BY <1>1, <1>2
<1> QED BY <1>3, <1>4

\* The size of the table is exact, too.
LEMMA TableSizeExact ==
    ASSUME NEW n \in Nat
    PROVE  2 * ((n * (n - 1)) \div 2) = n * (n - 1)
<1>1. PICK h \in Nat : n = 2 * h \/ n = 2 * h + 1
  <2>1. /\ n \div 2 \in Nat
        /\ n = 2 * (n \div 2) \/ n = 2 * (n \div 2) + 1
    OBVIOUS
  <2> QED BY <2>1
<1>2. PICK p \in Int : n * (n - 1) = 2 * p
  <2>1. CASE n = 2 * h
    <3>1. h * (n - 1) \in Int /\ n * (n - 1) = 2 * (h * (n - 1))
      BY <2>1
    <3> QED BY <3>1
  <2>2. CASE n = 2 * h + 1
    <3>1. n * h \in Int /\ n - 1 = 2 * h
      BY <2>2
    <3>2. n * (n - 1) = 2 * (n * h)
      BY <3>1
    <3> QED BY <3>1, <3>2
  <2> QED BY <1>1, <2>1, <2>2
<1>3. (2 * p) \div 2 = p
  OBVIOUS
<1> QED BY <1>2, <1>3

\* The entry of a pair, without its division.
LEMMA SlotTwice ==
    ASSUME NEW i \in StripeIndex, NEW j \in StripeIndex, i < j
    PROVE  /\ Slot(i, j) \in Int
           /\ 2 * Slot(i, j) = i * (2 * stripes_num - 3 - i) + 2 * (j - 1)
<1>1. i \in Nat /\ j \in Nat /\ stripes_num \in Nat
  BY TableAssumption DEF TableAssumption, StripeIndex
<1>2. 2 * ((i * (2 * stripes_num - 3 - i)) \div 2)
         = i * (2 * stripes_num - 3 - i)
  BY <1>1, RowStart
<1> DEFINE r == (i * (2 * stripes_num - 3 - i)) \div 2
<1>3. r \in Int
  <2>1. i * (2 * stripes_num - 3 - i) \in Int
    BY <1>1
  <2> QED BY <2>1
<1>4. Slot(i, j) = r + j - 1
  BY DEF Slot
<1> HIDE DEF r
<1>5. 2 * (r + j - 1) = 2 * r + 2 * (j - 1)
  BY <1>1, <1>3
<1> QED BY <1>1, <1>2, <1>3, <1>4, <1>5 DEF r

\* Every pair has its entry within the table.
LEMMA SlotInTable ==
    ASSUME NEW i \in StripeIndex, NEW j \in StripeIndex, i < j
    PROVE  Slot(i, j) \in Slots
<1> DEFINE n == stripes_num
           e == n - 2 - i
<1>1. i \in Nat /\ j \in Nat /\ n \in Nat /\ e \in Nat /\ j <= n - 1
  BY TableAssumption DEF TableAssumption, StripeIndex
<1>2. Slot(i, j) \in Int /\ 2 * Slot(i, j) = i * (2 * n - 3 - i) + 2 * (j - 1)
  BY SlotTwice
<1>3. 2 * TableSize = n * (n - 1) /\ TableSize \in Int
  BY <1>1, TableSizeExact DEF TableSize
<1>4. i = n - 2 - e
  BY <1>1
<1> HIDE DEF e
<1>5. n * (n - 1) - 2 - (i * (2 * n - 3 - i) + 2 * (n - 2)) = e * e + e
  BY <1>1, <1>4
<1>6. e * e >= 0
  BY <1>1
<1>7. 2 * Slot(i, j) <= 2 * TableSize - 2
  BY <1>1, <1>2, <1>3, <1>5, <1>6
<1>8. 2 * Slot(i, j) >= 0
  <2>1. 2 * n - 3 - i \in Nat
    BY <1>1, <1>4
  <2>2. \A p, q \in Nat : p * q >= 0 /\ p * q \in Int
    OBVIOUS
  <2>3. i * (2 * n - 3 - i) >= 0 /\ i * (2 * n - 3 - i) \in Int
    BY <1>1, <2>1, <2>2
  <2>4. j >= 1
    BY <1>1
  <2> QED BY <1>1, <1>2, <2>3, <2>4
<1> QED BY <1>2, <1>3, <1>7, <1>8 DEF Slots

\* No two pairs share an entry.
LEMMA SlotInjective ==
    ASSUME NEW i \in StripeIndex, NEW j \in StripeIndex, i < j,
           NEW x \in StripeIndex, NEW y \in StripeIndex, x < y,
           Slot(i, j) = Slot(x, y)
    PROVE  i = x /\ j = y
<1> DEFINE n == stripes_num
<1>1. /\ n \in Nat
      /\ i \in Nat /\ j \in Nat /\ x \in Nat /\ y \in Nat
      /\ i < n /\ j <= n - 1 /\ x < n /\ y <= n - 1
  BY TableAssumption DEF TableAssumption, StripeIndex
<1>2. i * (2 * n - 3 - i) + 2 * (j - 1) = x * (2 * n - 3 - x) + 2 * (y - 1)
  BY SlotTwice
<1>3. ASSUME NEW u \in Nat, NEW v \in Nat, NEW s \in Nat, NEW t \in Nat,
             u < v, v < n, s <= n - 1, v < t,
             u * (2 * n - 3 - u) + 2 * (s - 1) = v * (2 * n - 3 - v) + 2 * (t - 1)
      PROVE  FALSE
  <2>1. u * (2 * n - 3 - u) + 2 * (n - 2) + 2 <= v * (2 * n - 3 - v) + 2 * v
    BY <1>1, <1>3, RowsApart
  <2>2. u * (2 * n - 3 - u) \in Int /\ v * (2 * n - 3 - v) \in Int
    BY <1>1, <1>3
  <2> QED BY <1>1, <1>3, <2>1, <2>2
<1>4. ~(i < x) /\ ~(x < i)
  BY <1>1, <1>2, <1>3
<1>5. i = x
  BY <1>1, <1>4
<1> QED BY <1>1, <1>2, <1>5

\* Types, and what makes the cache right: an entry that is filled holds the
\* cost of its pair.
Filled ==
    \A i, j \in StripeIndex :
        i < j => cost_table[Slot(i, j)] \in {Empty, Cost[i][j]}

\* get_cost is the cost of the pair, for any number of stripes and any costs.
THEOREM AnswersRightHolds == TableSpec => []AnswersRight
<1> DEFINE TInv == TableTypeOK /\ Filled /\ AnswersRight
<1>1. TableInit => TInv
  <2> SUFFICES ASSUME TableInit PROVE TInv
    OBVIOUS
  <2>1. cost_table = [s \in Slots |-> Empty] /\ asked = <<0, 0>>
        /\ answer = Empty
    BY DEF TableInit
  <2>2. TableTypeOK
    BY <2>1, TableAssumption DEF TableTypeOK, TableAssumption, StripeIndex, Empty
  <2>3. Filled
    BY <2>1, SlotInTable DEF Filled
  <2>4. AnswersRight
    <3> SUFFICES ASSUME NEW i \in StripeIndex, NEW j \in StripeIndex, i < j,
                        asked \in {<<i, j>>, <<j, i>>}
                 PROVE  FALSE
      BY DEF AnswersRight
    <3>1. i = 0 /\ j = 0
      BY <2>1
    <3> QED BY <3>1
  <2> QED BY <2>2, <2>3, <2>4
<1>2. TInv /\ [TableNext]_table_vars => TInv'
  <2> SUFFICES ASSUME TableTypeOK, Filled, AnswersRight, [TableNext]_table_vars PROVE TInv'
    OBVIOUS
  <2>1. CASE UNCHANGED table_vars
    BY <2>1 DEF table_vars, TableTypeOK, Filled, AnswersRight
  <2>2. CASE TableNext
    <3>1. PICK i \in StripeIndex, j \in StripeIndex : Lookup(i, j)
      BY <2>2 DEF TableNext
    <3>2. i < j
      BY <3>1 DEF Lookup
    <3>3. Slot(i, j) \in Slots
      BY <3>2, SlotInTable
    <3>4. Cost[i][j] \in 0..(Empty - 1)
      BY <3>2, TableAssumption DEF TableAssumption
    <3>5. cost_table \in [Slots -> 0..Empty]
      BY DEF TableTypeOK
    <3>6. /\ cost_table' \in [Slots -> 0..Empty]
          /\ cost_table'[Slot(i, j)] = Cost[i][j]
          /\ \A s \in Slots \ {Slot(i, j)} : cost_table'[s] = cost_table[s]
      <4>1. CASE cost_table[Slot(i, j)] = Empty
        <5>1. cost_table' = [cost_table EXCEPT ![Slot(i, j)] = Cost[i][j]]
          BY <3>1, <4>1 DEF Lookup
        <5>2. Cost[i][j] \in 0..Empty
          BY <3>4 DEF Empty
        <5> HIDE DEF Empty
        <5> QED BY <3>3, <3>5, <5>1, <5>2
      <4>2. CASE cost_table[Slot(i, j)] # Empty
        <5>1. cost_table' = cost_table
          BY <3>1, <4>2 DEF Lookup
        <5>2. cost_table[Slot(i, j)] = Cost[i][j]
          BY <3>2, <4>2 DEF Filled
        <5> QED BY <3>5, <5>1, <5>2
      <4> QED BY <4>1, <4>2
    <3>7. /\ answer' = Cost[i][j]
          /\ asked' \in {<<i, j>>, <<j, i>>}
      BY <3>1, <3>6 DEF Lookup
    <3>8. TableTypeOK'
      BY <3>4, <3>6, <3>7 DEF TableTypeOK, Empty
    <3>9. Filled'
      <4> SUFFICES ASSUME NEW x \in StripeIndex, NEW y \in StripeIndex, x < y
                   PROVE  cost_table'[Slot(x, y)] \in {Empty, Cost[x][y]}
        BY DEF Filled
      <4>1. CASE Slot(x, y) = Slot(i, j)
        <5>1. x = i /\ y = j
          BY <3>2, <4>1, SlotInjective
        <5> QED BY <3>6, <5>1
      <4>2. CASE Slot(x, y) # Slot(i, j)
        <5>1. Slot(x, y) \in Slots
          BY SlotInTable
        <5>2. cost_table'[Slot(x, y)] = cost_table[Slot(x, y)]
          BY <3>6, <4>2, <5>1
        <5> QED BY <5>2 DEF Filled
      <4> QED BY <4>1, <4>2
    <3>10. AnswersRight'
      <4> SUFFICES ASSUME NEW x \in StripeIndex, NEW y \in StripeIndex, x < y,
                          asked' \in {<<x, y>>, <<y, x>>}
                   PROVE  answer' = Cost[x][y]
        BY DEF AnswersRight
      <4>1. (x = i /\ y = j) \/ (x = j /\ y = i)
        BY <3>7
      <4>2. i \in Int /\ j \in Int
        BY DEF StripeIndex
      <4>3. x = i /\ y = j
        BY <3>2, <4>1, <4>2
      <4> QED BY <3>7, <4>3
    <3> QED BY <3>8, <3>9, <3>10
  <2> QED BY <2>1, <2>2
<1>3. TInv => AnswersRight
  OBVIOUS
<1> QED BY <1>1, <1>2, <1>3, PTL DEF TableSpec

\* What CostTable assumes of the costs is so for compute_cost and any stripes:
\* no cost is UINT8_MAX, the mark of an entry that is not filled.
LEMMA CostsFitTable ==
    ASSUME NEW s \in [StripeIndex -> Placement],
           NEW i \in StripeIndex, NEW j \in StripeIndex
    PROVE  ComputeCost(s[i], s[j]) \in 0..(Empty - 1)
<1>1. K \in Nat /\ M \in Nat /\ K + M < 255
  BY StripeAssumption DEF StripeAssumption
<1>2. ComputeCost(s[i], s[j]) \in 0..(K + M)
  <2>1. s[i] \in Placement /\ s[j] \in Placement
    OBVIOUS
  <2> QED BY <2>1, CostBounds
<1>3. 0..(K + M) \subseteq 0..(Empty - 1)
  BY <1>1 DEF Empty
<1> QED BY <1>2, <1>3
=============================================================================
