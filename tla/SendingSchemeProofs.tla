------------------------- MODULE SendingSchemeProofs -------------------------
(***************************************************************************)
(* Theorems about SendingScheme, for any code parameters, any number of    *)
(* nodes that can hold a stripe, and any pair of placements.               *)
(***************************************************************************)
EXTENDS SendingScheme, StripeProofs

\* The nodes being relieved had more than one chunk when the free nodes were
\* collected, so none of them is a target, although the code may use the same
\* free node several times.
RelievedApart ==
    /\ pc = "parity" => j = 0
    /\ \A n \in remain_nodes : host_blocks_num[n] > 1
    /\ \A x \in DOMAIN available_nodes :
          /\ available_nodes[x] \notin remain_nodes
          /\ j > 0 => available_nodes[x] # node

LEMMA CountsAreNat ==
    ASSUME NEW n, NEW s PROVE DataOn(n, s) \in Nat
<1>1. IsFiniteSet(1..K)
  BY StripeAssumption, FS_Interval DEF StripeAssumption
<1>2. IsFiniteSet({x \in 1..K : s.data[x] = n})
  BY <1>1, FS_Subset
<1> QED BY <1>2, FS_CardinalityType DEF DataOn

\* A sequence that loses its last element keeps the others.
LEMMA FrontFacts ==
    ASSUME NEW S, NEW q \in Seq(S), q # <<>>
    PROVE  /\ SubSeq(q, 1, Len(q) - 1) \in Seq(S)
           /\ Len(SubSeq(q, 1, Len(q) - 1)) = Len(q) - 1
           /\ \A x \in DOMAIN SubSeq(q, 1, Len(q) - 1) :
                 x \in DOMAIN q /\ SubSeq(q, 1, Len(q) - 1)[x] = q[x]
<1>1. /\ SubSeq(q, 1, Len(q) - 1) \in Seq(S)
      /\ \A x \in DOMAIN SubSeq(q, 1, Len(q) - 1) :
            x \in DOMAIN q /\ SubSeq(q, 1, Len(q) - 1)[x] = q[x]
  BY SMT
<1>2. ASSUME NEW n \in 0..Len(q) PROVE Len(SubSeq(q, 1, n)) = n
  OBVIOUS
<1>3. Len(SubSeq(q, 1, Len(q) - 1)) = Len(q) - 1
  <2>1. Len(q) - 1 \in 0..Len(q)
    OBVIOUS
  <2> QED BY <1>2, <2>1
<1> QED BY <1>1, <1>3

\* Type correctness of the generation of a scheme, and the fact that keeps the
\* nodes relieved and the nodes filled apart.
THEOREM TypeCorrect == Spec => [](TypeOK /\ RelievedApart)
<1> USE StripeAssumption, SchemeAssumption
       DEF StripeAssumption, SchemeAssumption
<1>1. Init => TypeOK /\ RelievedApart
  <2> SUFFICES ASSUME Init PROVE TypeOK /\ RelievedApart
    OBVIOUS
  <2>1. a \in Placement /\ b \in Placement /\ node_num \in Sizes
    BY DEF Init
  <2>2. host_blocks_num \in [Node -> Nat]
    BY CountsAreNat DEF Init
  <2>3. <<>> \in Seq(Node) /\ <<>> \in Seq(Transfer)
    OBVIOUS
  <2>4. /\ pc \in {"parity", "move", "done"}
        /\ i \in 1..(M + 1) /\ node \in 0..NodeNum /\ j \in Nat /\ j = 0
        /\ remain_nodes = {} /\ available_nodes = <<>> /\ blocks_to_sent = <<>>
    BY DEF Init
  <2>5. TypeOK
    BY <2>1, <2>2, <2>3, <2>4 DEF TypeOK
  <2> QED BY <2>4, <2>5 DEF RelievedApart
<1>2. TypeOK /\ RelievedApart /\ [Next]_vars => TypeOK' /\ RelievedApart'
  <2> SUFFICES ASSUME TypeOK, RelievedApart, [Next]_vars
               PROVE  TypeOK' /\ RelievedApart'
    OBVIOUS
  <2> USE DEF TypeOK, RelievedApart
  <2>1. ASSUME pc = "parity", i <= M
        PROVE  /\ a.parity[i] \in Node /\ b.parity[i] \in Node
               /\ i \in 1..M /\ i + 1 \in 1..(M + 1)
    BY <2>1 DEF Placement
  <2>2. ASSUME NEW s \in Node, NEW t \in Node, NEW c \in 0..M
        PROVE  Send(s, t, c) \in Seq(Transfer)
    BY DEF Send, Transfer
  <2>3. ASSUME NEW d \in Node, PlaceParity(d), i + 1 \in 1..(M + 1),
               blocks_to_sent' \in Seq(Transfer)
        PROVE  TypeOK' /\ RelievedApart'
    BY <2>3 DEF PlaceParity
  <2>4. CASE AlignedParity
    BY <2>1, <2>3, <2>4 DEF AlignedParity
  <2>5. CASE ParityToA
    <3>1. /\ a.parity[i] \in Node /\ b.parity[i] \in Node
          /\ i \in 0..M /\ i + 1 \in 1..(M + 1)
          /\ blocks_to_sent' = Send(b.parity[i], a.parity[i], i)
          /\ PlaceParity(a.parity[i])
      BY <2>1, <2>5 DEF ParityToA
    <3>2. blocks_to_sent' \in Seq(Transfer)
      BY <2>2, <3>1
    <3> QED BY <2>3, <3>1, <3>2
  <2>6. CASE ParityToB
    <3>1. /\ a.parity[i] \in Node /\ b.parity[i] \in Node
          /\ i \in 0..M /\ i + 1 \in 1..(M + 1)
          /\ blocks_to_sent' = Send(a.parity[i], b.parity[i], i)
          /\ PlaceParity(b.parity[i])
      BY <2>1, <2>6 DEF ParityToB
    <3>2. blocks_to_sent' \in Seq(Transfer)
      BY <2>2, <3>1
    <3> QED BY <2>3, <3>1, <3>2
  <2>7. CASE Scan
    <3>1. IsFiniteSet(Node) /\ Empty \subseteq Node /\ Crowded \subseteq Node
      <4>1. IsFiniteSet(1..NodeNum)
        BY FS_Interval, StripeAssumption DEF StripeAssumption
      <4>2. node_num \in 1..NodeNum /\ NodeNum \in Nat
        BY SchemeAssumption, StripeAssumption
           DEF SchemeAssumption, StripeAssumption
      <4> HIDE StripeAssumption, SchemeAssumption
      <4>3. 1..node_num \subseteq 1..NodeNum
        BY <4>2
      <4> QED BY <4>1, <4>3 DEF Node, Empty, Crowded
    <3>2. Cardinality(Empty) \in Nat
      BY <3>1, FS_Subset, FS_CardinalityType
    <3>3. /\ available_nodes' \in [1..Cardinality(Empty) -> Empty]
          /\ remain_nodes' = Crowded
          /\ UNCHANGED <<node_num, a, b, host_blocks_num, i, node, j, blocks_to_sent>>
          /\ pc' = "move"
      BY <2>7 DEF Scan
    <3>4. available_nodes' \in Seq(Node)
      <4> HIDE StripeAssumption, SchemeAssumption
      <4>1. available_nodes' \in [1..Cardinality(Empty) -> Node]
        BY <3>1, <3>3
      <4> QED BY <3>2, <4>1
    <3>5. TypeOK'
      BY <3>1, <3>3, <3>4
    <3>6. j = 0
      BY <2>7 DEF Scan
    <3>7. RelievedApart'
      <4>1. /\ \A n \in remain_nodes' : host_blocks_num'[n] > 1
            /\ j' = 0
        BY <3>3, <3>6 DEF Crowded
      <4>2. \A x \in DOMAIN available_nodes' :
               host_blocks_num[available_nodes'[x]] = 0
        BY <3>3 DEF Empty
      <4>3. \A x \in DOMAIN available_nodes' :
               available_nodes'[x] \notin remain_nodes'
        BY <3>3, <4>1, <4>2
      <4> QED BY <3>3, <4>1, <4>3
    <3> QED BY <3>5, <3>7
  <2>8. CASE NextNode
    BY <2>8 DEF NextNode, Node
  <2>9. CASE Move
    <3>1. /\ node \in Node /\ Head(available_nodes) \in Node
          /\ available_nodes # <<>>
      BY <2>9 DEF Move
    <3>2. blocks_to_sent' \in Seq(Transfer)
      <4>1. 0 \in 0..M
        OBVIOUS
      <4>2. blocks_to_sent' = Send(node, Head(available_nodes), 0)
        BY <2>9 DEF Move
      <4> QED BY <2>2, <3>1, <4>1, <4>2
    <3>3. /\ available_nodes' \in Seq(Node)
          /\ \A x \in DOMAIN available_nodes' :
                x \in DOMAIN available_nodes
                /\ available_nodes'[x] = available_nodes[x]
      BY <2>9, <3>1, FrontFacts DEF Move
    <3>4. /\ host_blocks_num' \in [Node -> Nat]
          /\ \A n \in Node : host_blocks_num'[n] >= host_blocks_num[n]
          /\ j' \in Nat /\ (j' > 0 => j > 0)
          /\ UNCHANGED <<pc, node_num, a, b, i, remain_nodes, node>>
      <4>1. /\ host_blocks_num' = [host_blocks_num EXCEPT
                                     ![Head(available_nodes)] = @ + 1]
            /\ j > 0 /\ j' = j - 1
            /\ UNCHANGED <<pc, node_num, a, b, i, remain_nodes, node>>
        BY <2>9 DEF Move
      <4>2. host_blocks_num' \in [Node -> Nat]
        <5> HIDE StripeAssumption, SchemeAssumption
        <5>1. host_blocks_num[Head(available_nodes)] \in Nat
          BY <3>1
        <5> QED BY <3>1, <4>1, <5>1
      <4>3. ASSUME NEW n \in Node
            PROVE  host_blocks_num'[n] >= host_blocks_num[n]
        <5>1. CASE n = Head(available_nodes)
          BY <3>1, <4>1, <5>1
        <5>2. CASE n # Head(available_nodes)
          BY <3>1, <4>1, <5>2
        <5> QED BY <5>1, <5>2
      <4> QED BY <4>1, <4>2, <4>3
    <3>5. TypeOK'
      BY <3>1, <3>2, <3>3, <3>4
    <3>6. \A n \in remain_nodes' : host_blocks_num'[n] > 1
      <4>1. \A n \in remain_nodes :
               /\ n \in Node /\ host_blocks_num[n] > 1
               /\ host_blocks_num[n] \in Nat /\ host_blocks_num'[n] \in Nat
        BY <3>4
      <4> QED BY <3>4, <4>1
    <3>7. RelievedApart'
      BY <2>9, <3>3, <3>4, <3>6 DEF Move
    <3> QED BY <3>5, <3>7
  <2>10. CASE NoNodeLeft
    BY <2>10 DEF NoNodeLeft
  <2>11. CASE Finish
    BY <2>11 DEF Finish
  <2>12. CASE UNCHANGED vars
    BY <2>12 DEF vars
  <2> QED
    BY <2>4, <2>5, <2>6, <2>7, <2>8, <2>9, <2>10, <2>11, <2>12 DEF Next
<1> QED BY <1>1, <1>2, PTL DEF Spec

\* No transfer of a scheme has its source for target, so none is taken for a
\* shutdown signal (tcp_server.cc:56).
THEOREM NoSelfTransferHolds == Spec => []NoSelfTransfer
<1> USE StripeAssumption, SchemeAssumption
       DEF StripeAssumption, SchemeAssumption
<1>1. Init => NoSelfTransfer
  BY DEF Init, NoSelfTransfer, Sends
<1>2. TypeOK /\ RelievedApart /\ NoSelfTransfer /\ [Next]_vars
         => NoSelfTransfer'
  <2> SUFFICES ASSUME TypeOK, RelievedApart, NoSelfTransfer, [Next]_vars
               PROVE  NoSelfTransfer'
    OBVIOUS
  <2> USE DEF TypeOK, NoSelfTransfer, Sends
  <2>1. CASE UNCHANGED blocks_to_sent
    BY <2>1
  <2>2. ASSUME NEW s \in Node, NEW t \in Node, NEW c \in 0..M, s # t,
               blocks_to_sent' = Send(s, t, c)
        PROVE  NoSelfTransfer'
    <3> DEFINE e == [source |-> s, target |-> t, coefficient |-> c]
    <3>1. e \in Transfer /\ e.source # e.target
      BY <2>2 DEF Transfer
    <3>2. \A x \in DOMAIN blocks_to_sent' :
             blocks_to_sent'[x] = e \/ (x \in DOMAIN blocks_to_sent
                               /\ blocks_to_sent'[x] = blocks_to_sent[x])
      BY <2>2, <3>1 DEF Send
    <3> QED BY <3>1, <3>2
  <2>3. ASSUME pc = "parity", i <= M
        PROVE  a.parity[i] \in Node /\ b.parity[i] \in Node /\ i \in 0..M
    BY <2>3 DEF Placement
  <2>4. CASE ParityToA
    BY <2>2, <2>3, <2>4 DEF ParityToA
  <2>5. CASE ParityToB
    BY <2>2, <2>3, <2>5 DEF ParityToB
  <2>6. CASE Move
    <3>1. /\ node \in Node /\ Head(available_nodes) \in Node
          /\ node # Head(available_nodes) /\ 0 \in 0..M
      BY <2>6 DEF Move, RelievedApart
    <3> QED BY <2>2, <2>6, <3>1 DEF Move
  <2>7. CASE AlignedParity \/ Scan \/ NextNode \/ NoNodeLeft \/ Finish
    BY <2>1, <2>7 DEF AlignedParity, Scan, NextNode, NoNodeLeft, Finish
  <2>8. CASE UNCHANGED vars
    BY <2>1, <2>8 DEF vars
  <2> QED BY <2>4, <2>5, <2>6, <2>7, <2>8 DEF Next
<1> QED BY <1>1, <1>2, TypeCorrect, PTL DEF Spec

\* A cost indexes level[rs_n + 1] and count[rs_n + 1] of the matching without
\* overrunning them, whatever the two placements (matching_generator.cc:94, 129).
THEOREM CostFitsLevelsHolds == Spec => []CostFitsLevels
<1>1. TypeOK => CostFitsLevels
  BY CostBounds DEF TypeOK, CostFitsLevels
<1> QED BY <1>1, TypeCorrect, PTL

-----------------------------------------------------------------------------
(* The chunks on each node, as compute_cost places them *)

\* The node of parity chunk x, and the chunks on each node when m parity chunks
\* are placed.
DestOf(p, q, x) ==
    ParityDest(p.parity[x], q.parity[x], CostUpTo(p, q)[x - 1].used)
PlacedOn(p, q, m, n) == {x \in 1..m : DestOf(p, q, x) = n}
Load(p, q, m) ==
    [n \in Node |-> DataOn(n, p) + DataOn(n, q) + Cardinality(PlacedOn(p, q, m, n))]

\* The nodes that hold a chunk, and the chunks that are not alone: one for each
\* but the first on a node.
Support(h) == {n \in Node : h[n] # 0}
Over(h) == {c \in Node \X Nat : 2 <= c[2] /\ c[2] <= h[c[1]]}

\* One chunk more.
Add(h, d) == [h EXCEPT ![d] = @ + 1]

LEMMA AddCounts ==
    ASSUME NEW h \in [Node -> Nat], NEW d \in Node
    PROVE  /\ Add(h, d) \in [Node -> Nat]
           /\ Support(Add(h, d)) = Support(h) \cup {d}
           /\ d \in Support(h) => /\ Over(Add(h, d)) = Over(h) \cup {<<d, h[d] + 1>>}
                                  /\ <<d, h[d] + 1>> \notin Over(h)
           /\ d \notin Support(h) => Over(Add(h, d)) = Over(h)
<1> DEFINE g == Add(h, d)
<1>1. /\ g \in [Node -> Nat] /\ g[d] = h[d] + 1 /\ h[d] \in Nat
      /\ \A n \in Node \ {d} : g[n] = h[n]
  BY DEF Add
<1> HIDE DEF g
<1>2. Support(g) = Support(h) \cup {d}
  BY <1>1 DEF Support
<1>3. ASSUME d \in Support(h)
      PROVE  /\ Over(g) = Over(h) \cup {<<d, h[d] + 1>>}
             /\ <<d, h[d] + 1>> \notin Over(h)
  <2>1. h[d] >= 1
    BY <1>1, <1>3 DEF Support
  <2>2. \A n \in Node, k \in Nat :
           (2 <= k /\ k <= g[n]) <=> ((2 <= k /\ k <= h[n]) \/ (n = d /\ k = h[d] + 1))
    <3> SUFFICES ASSUME NEW n \in Node, NEW k \in Nat
                 PROVE  (2 <= k /\ k <= g[n])
                           <=> ((2 <= k /\ k <= h[n]) \/ (n = d /\ k = h[d] + 1))
      OBVIOUS
    <3>1. CASE n = d
      BY <1>1, <2>1, <3>1
    <3>2. CASE n # d
      BY <1>1, <3>2
    <3> QED BY <3>1, <3>2
  <2>3. \A c \in Node \X Nat : c \in Over(g) <=> c \in Over(h) \cup {<<d, h[d] + 1>>}
    <3> SUFFICES ASSUME NEW n \in Node, NEW k \in Nat
                 PROVE  <<n, k>> \in Over(g)
                           <=> <<n, k>> \in Over(h) \cup {<<d, h[d] + 1>>}
      OBVIOUS
    <3>1. /\ <<n, k>> \in Over(g) <=> (2 <= k /\ k <= g[n])
          /\ <<n, k>> \in Over(h) <=> (2 <= k /\ k <= h[n])
      BY DEF Over
    <3> QED BY <2>2, <3>1
  <2>4. /\ Over(g) \subseteq Node \X Nat
        /\ Over(h) \cup {<<d, h[d] + 1>>} \subseteq Node \X Nat
    BY <1>1 DEF Over
  <2>5. Over(g) = Over(h) \cup {<<d, h[d] + 1>>}
    BY <2>3, <2>4
  <2>6. ~(h[d] + 1 <= h[d])
    BY <1>1
  <2> QED BY <2>5, <2>6 DEF Over
<1>4. ASSUME d \notin Support(h) PROVE Over(g) = Over(h)
  <2>1. h[d] = 0 /\ g[d] = 1
    BY <1>1, <1>4 DEF Support
  <2>2. \A n \in Node, k \in Nat :
           (2 <= k /\ k <= g[n]) <=> (2 <= k /\ k <= h[n])
    <3> SUFFICES ASSUME NEW n \in Node, NEW k \in Nat
                 PROVE  (2 <= k /\ k <= g[n]) <=> (2 <= k /\ k <= h[n])
      OBVIOUS
    <3>1. CASE n = d
      BY <2>1, <3>1
    <3>2. CASE n # d
      BY <1>1, <3>2
    <3> QED BY <3>1, <3>2
  <2> QED BY <2>2 DEF Over
<1> QED BY <1>1, <1>2, <1>3, <1>4 DEF g

LEMMA LoadType ==
    ASSUME NEW p \in Placement, NEW q \in Placement, NEW m \in 0..M
    PROVE  /\ \A n : /\ IsFiniteSet(PlacedOn(p, q, m, n))
                     /\ Cardinality(PlacedOn(p, q, m, n)) \in Nat
           /\ Load(p, q, m) \in [Node -> Nat]
<1>1. IsFiniteSet(1..m)
  BY FS_Interval
<1>2. ASSUME NEW n
      PROVE  /\ IsFiniteSet(PlacedOn(p, q, m, n))
             /\ Cardinality(PlacedOn(p, q, m, n)) \in Nat
  <2>1. PlacedOn(p, q, m, n) \subseteq 1..m
    BY DEF PlacedOn
  <2> QED BY <1>1, <2>1, FS_Subset, FS_CardinalityType
<1> QED BY <1>2, CountsAreNat DEF Load

LEMMA LoadAdd ==
    ASSUME NEW p \in Placement, NEW q \in Placement, NEW m \in 1..M
    PROVE  /\ DestOf(p, q, m) \in Node
           /\ Load(p, q, m) = Add(Load(p, q, m - 1), DestOf(p, q, m))
<1> DEFINE d == DestOf(p, q, m)
           h == Load(p, q, m - 1)
           g == Load(p, q, m)
<1>1. m \in Nat /\ m - 1 \in 0..M /\ m \in 0..M
  BY StripeAssumption DEF StripeAssumption
<1>2. d \in Node
  BY DEF DestOf, ParityDest, Placement
<1>3. h \in [Node -> Nat] /\ g \in [Node -> Nat]
  BY <1>1, LoadType
<1>4. \A x \in 1..m : x \in 1..(m - 1) \/ x = m
  BY <1>1
<1>5. m \notin 1..(m - 1) /\ 1..(m - 1) \subseteq 1..m /\ m \in 1..m
  BY <1>1
<1>6. ASSUME NEW n \in Node PROVE g[n] = IF n = d THEN h[n] + 1 ELSE h[n]
  <2> DEFINE P == PlacedOn(p, q, m - 1, n)
             Q == PlacedOn(p, q, m, n)
  <2>1. IsFiniteSet(P) /\ Cardinality(P) \in Nat
    BY <1>1, LoadType
  <2>2. /\ g[n] = DataOn(n, p) + DataOn(n, q) + Cardinality(Q)
        /\ h[n] = DataOn(n, p) + DataOn(n, q) + Cardinality(P)
    BY DEF Load
  <2>3. DataOn(n, p) \in Nat /\ DataOn(n, q) \in Nat
    BY CountsAreNat
  <2>4. CASE n = d
    <3>1. Q = P \cup {m} /\ m \notin P
      BY <1>4, <1>5, <2>4 DEF PlacedOn
    <3> HIDE DEF P, Q
    <3>2. Cardinality(P \cup {m}) = Cardinality(P) + 1
      BY <2>1, <3>1, FS_AddElement
    <3> HIDE DEF h, g, d
    <3> QED BY <2>1, <2>2, <2>3, <2>4, <3>1, <3>2
  <2>5. CASE n # d
    <3>1. Q = P
      BY <1>4, <1>5, <2>5 DEF PlacedOn
    <3> QED BY <2>2, <2>5, <3>1
  <2> QED BY <2>4, <2>5
<1> HIDE DEF d, g, h
<1>7. g = Add(h, d)
  <2>1. Add(h, d) = [n \in Node |-> IF n = d THEN h[n] + 1 ELSE h[n]]
    BY <1>2, <1>3 DEF Add
  <2>2. g = [n \in Node |-> g[n]]
    BY <1>3
  <2> QED BY <1>6, <2>1, <2>2
<1> QED BY <1>2, <1>7 DEF d, g, h

\* No two data chunks of a stripe share a node.
DataOf(p) == {p.data[x] : x \in 1..K}

LEMMA DataOnce ==
    ASSUME NEW p \in Placement
    PROVE  /\ IsFiniteSet(DataOf(p)) /\ Cardinality(DataOf(p)) = K
           /\ DataOf(p) \subseteq Node
           /\ \A n : DataOn(n, p) = IF n \in DataOf(p) THEN 1 ELSE 0
<1>1. /\ K \in Nat /\ p.data \in [1..K -> Node]
      /\ \A x, y \in 1..K : p.data[x] = p.data[y] => x = y
  BY StripeAssumption DEF StripeAssumption, Placement
<1>2. IsFiniteSet(DataOf(p)) /\ Cardinality(DataOf(p)) = K
  <2> DEFINE f == p.data
             T == DataOf(p)
  <2>1. /\ f \in [1..K -> T]
        /\ \A x, y \in 1..K : f[x] = f[y] => x = y
        /\ \A t \in T : \E x \in 1..K : f[x] = t
    BY <1>1 DEF DataOf
  <2> HIDE DEF f, T
  <2>2. IsFiniteSet(T) /\ Cardinality(T) = K
    BY <1>1, <2>1, ImageSize
  <2> QED BY <2>2 DEF T
<1>3. ASSUME NEW n PROVE DataOn(n, p) = IF n \in DataOf(p) THEN 1 ELSE 0
  <2> DEFINE S == {x \in 1..K : p.data[x] = n}
  <2>1. CASE n \in DataOf(p)
    <3>1. PICK x \in 1..K : p.data[x] = n
      BY <2>1 DEF DataOf
    <3>2. S = {x}
      BY <1>1, <3>1
    <3>3. Cardinality({x}) = 1
      BY FS_Singleton
    <3> QED BY <2>1, <3>2, <3>3 DEF DataOn
  <2>2. CASE n \notin DataOf(p)
    <3>1. S = {}
      BY <2>2 DEF DataOf
    <3> QED BY <2>2, <3>1, FS_EmptySet DEF DataOn
  <2> QED BY <2>1, <2>2
<1>4. DataOf(p) \subseteq Node
  BY <1>1 DEF DataOf
<1> QED BY <1>2, <1>3, <1>4

\* The nodes in use are those that hold a chunk, and the cost is the number of
\* parity chunks sent and of chunks that are not alone.
Priced(p, q, m) ==
    LET r == CostUpTo(p, q)[m]
        h == Load(p, q, m)
    IN  /\ h \in [Node -> Nat] /\ Support(h) = r.used
        /\ IsFiniteSet(Over(h))
        /\ r.cost = Cardinality(Over(h)) + Cardinality(Misaligned(p, q, m))

LEMMA PricedStart ==
    ASSUME NEW p \in Placement, NEW q \in Placement PROVE Priced(p, q, 0)
<1> DEFINE A == DataOf(p)
           B == DataOf(q)
           h == Load(p, q, 0)
           r == CostUpTo(p, q)[0]
<1>1. /\ IsFiniteSet(A) /\ Cardinality(A) = K /\ A \subseteq Node
      /\ IsFiniteSet(B) /\ Cardinality(B) = K /\ B \subseteq Node
      /\ \A n : /\ DataOn(n, p) = IF n \in A THEN 1 ELSE 0
                /\ DataOn(n, q) = IF n \in B THEN 1 ELSE 0
  BY DataOnce
<1>2. r = CostStart(p, q)
  BY CostSteps
<1>3. r.used = A \cup B /\ r.cost = 2 * K - Cardinality(A \cup B)
  BY <1>2 DEF CostStart, DataNodes, DataOf
<1>4. Cardinality(Misaligned(p, q, 0)) = 0
  BY MisalignedFacts
<1>5. \A n : PlacedOn(p, q, 0, n) = {}
  BY DEF PlacedOn
<1>6. \A n : Cardinality(PlacedOn(p, q, 0, n)) = 0
  BY <1>5, FS_EmptySet
<1>7. \A n \in Node :
         h[n] = (IF n \in A THEN 1 ELSE 0) + (IF n \in B THEN 1 ELSE 0)
  BY <1>1, <1>6 DEF Load
<1>8. h \in [Node -> Nat]
  BY StripeAssumption, LoadType DEF StripeAssumption
<1>9. K \in Nat
  BY StripeAssumption DEF StripeAssumption
<1> HIDE DEF A, B, h, r
<1>10. Support(h) = A \cup B
  BY <1>1, <1>7 DEF Support
<1>11. Over(h) = (A \cap B) \X {2}
  <2>1. \A n \in Node, k \in Nat :
           (2 <= k /\ k <= h[n]) <=> (n \in A /\ n \in B /\ k = 2)
    BY <1>7
  <2>2. (A \cap B) \X {2} \subseteq Node \X Nat
    BY <1>1
  <2>3. \A c \in Node \X Nat : c \in Over(h) <=> c \in (A \cap B) \X {2}
    BY <2>1 DEF Over
  <2> QED BY <2>2, <2>3 DEF Over
<1>12. /\ IsFiniteSet(A \cap B) /\ Cardinality(A \cap B) \in Nat
       /\ Cardinality(A \cup B) = Cardinality(A) + Cardinality(B)
                                 - Cardinality(A \cap B)
  BY <1>1, FS_Intersection, FS_Union, FS_CardinalityType
<1>13. IsFiniteSet({2}) /\ Cardinality({2}) = 1
  BY FS_Singleton
<1>14. /\ IsFiniteSet((A \cap B) \X {2})
       /\ Cardinality((A \cap B) \X {2}) = Cardinality(A \cap B) * Cardinality({2})
  BY <1>12, <1>13, FS_Product
<1>15. Cardinality(Over(h)) = Cardinality(A \cap B)
  BY <1>11, <1>12, <1>13, <1>14
<1>16. r.cost = Cardinality(Over(h)) + Cardinality(Misaligned(p, q, 0))
  BY <1>1, <1>3, <1>4, <1>9, <1>12, <1>15
<1> QED BY <1>3, <1>8, <1>10, <1>11, <1>14, <1>16 DEF Priced, h, r

LEMMA PricedStep ==
    ASSUME NEW p \in Placement, NEW q \in Placement,
           NEW m \in 0..M, m # M, Priced(p, q, m)
    PROVE  Priced(p, q, m + 1)
<1> DEFINE r == CostUpTo(p, q)[m]
           s == CostUpTo(p, q)[m + 1]
           h == Load(p, q, m)
           g == Load(p, q, m + 1)
           d == DestOf(p, q, m + 1)
           before == Cardinality(Misaligned(p, q, m))
           after == Cardinality(Misaligned(p, q, m + 1))
           one == IF p.parity[m + 1] # q.parity[m + 1] THEN 1 ELSE 0
<1>1. m + 1 \in 1..M /\ m \in Nat /\ m + 1 \in Nat \ {0} /\ (m + 1) - 1 = m
  BY StripeAssumption DEF StripeAssumption
<1>2. /\ h \in [Node -> Nat] /\ Support(h) = r.used /\ IsFiniteSet(Over(h))
      /\ r.cost = Cardinality(Over(h)) + before
  BY DEF Priced
<1>3. s = CostStep(r, p.parity[m + 1], q.parity[m + 1])
  BY <1>1, CostSteps
<1>4. s.used = r.used \cup {d}
      /\ s.cost = r.cost + one + (IF d \in r.used THEN 1 ELSE 0)
  BY <1>1, <1>3 DEF CostStep, DestOf
<1>5. before \in Nat /\ after = before + one
  <2>1. Cardinality(Misaligned(p, q, m)) \in 0..m
    BY <1>1, MisalignedFacts
  <2>2. Cardinality(Misaligned(p, q, m + 1)) =
           Cardinality(Misaligned(p, q, (m + 1) - 1))
           + (IF p.parity[m + 1] # q.parity[m + 1] THEN 1 ELSE 0)
    BY <1>1, MisalignedFacts
  <2> QED BY <1>1, <2>1, <2>2
<1>6. d \in Node /\ g = Add(h, d)
  <2>1. /\ DestOf(p, q, m + 1) \in Node
        /\ Load(p, q, m + 1) = Add(Load(p, q, (m + 1) - 1), DestOf(p, q, m + 1))
    BY <1>1, LoadAdd
  <2> QED BY <1>1, <2>1
<1>7. one \in {0, 1}
  OBVIOUS
<1> HIDE DEF r, s, h, g, d, before, after, one
<1>8. /\ g \in [Node -> Nat] /\ Support(g) = Support(h) \cup {d}
      /\ d \in Support(h) => /\ Over(g) = Over(h) \cup {<<d, h[d] + 1>>}
                             /\ <<d, h[d] + 1>> \notin Over(h)
      /\ d \notin Support(h) => Over(g) = Over(h)
  BY <1>2, <1>6, AddCounts
<1>9. Cardinality(Over(h)) \in Nat
  BY <1>2, FS_CardinalityType
<1>10. IsFiniteSet(Over(g)) /\ s.cost = Cardinality(Over(g)) + after
  <2>1. CASE d \in Support(h)
    <3>1. /\ IsFiniteSet(Over(h) \cup {<<d, h[d] + 1>>})
          /\ Cardinality(Over(h) \cup {<<d, h[d] + 1>>}) = Cardinality(Over(h)) + 1
      <4>1. <<d, h[d] + 1>> \notin Over(h)
        BY <1>8, <2>1
      <4> QED BY <1>2, <4>1, FS_AddElement
    <3>2. s.cost = r.cost + one + 1
      BY <1>2, <1>4, <2>1
    <3>3. Over(g) = Over(h) \cup {<<d, h[d] + 1>>}
      BY <1>8, <2>1
    <3> QED BY <1>2, <1>5, <1>7, <1>9, <3>1, <3>2, <3>3
  <2>2. CASE d \notin Support(h)
    <3>1. s.cost = r.cost + one + 0 /\ Over(g) = Over(h)
      BY <1>2, <1>4, <1>8, <2>2
    <3> QED BY <1>2, <1>5, <1>7, <1>9, <3>1
  <2> QED BY <2>1, <2>2
<1>11. Support(g) = s.used
  BY <1>2, <1>4, <1>8
<1> QED BY <1>8, <1>10, <1>11 DEF Priced, g, s, after

LEMMA PricedAlways ==
    ASSUME NEW p \in Placement, NEW q \in Placement, NEW m \in 0..M
    PROVE  Priced(p, q, m)
<1> DEFINE S == {n \in Nat : Priced(p, q, n)}
<1>1. M \in Nat
  BY StripeAssumption DEF StripeAssumption
<1>2. 0 \in S
  BY PricedStart
<1>3. \A n \in 0..M : n # M /\ n \in S => n + 1 \in S
  BY PricedStep
<1> HIDE DEF S
<1>4. 0..M \subseteq S
  BY <1>1, <1>2, <1>3, Induction
<1> QED BY <1>4 DEF S

-----------------------------------------------------------------------------
(* The number of transfers *)

Price == ComputeCost(a, b)
Fits == On(a, node_num) /\ On(b, node_num)

\* get_sending_scheme does not ask for the transfers of a pair without a cost.
Skipped == pc = "done" /\ Price = 0 /\ blocks_to_sent = <<>>

\* While the parity chunks are placed, the chunks on the nodes are those that
\* compute_cost has placed, and as many are sent as are misaligned.
Placing ==
    /\ pc = "parity"
    /\ host_blocks_num = Load(a, b, i - 1)
    /\ Len(blocks_to_sent) = Cardinality(Misaligned(a, b, i - 1))

\* The chunks still to be given away: numbered from 2, as the first may stay.
Waiting ==
    {c \in Node \X Nat :
        /\ 2 <= c[2]
        /\ \/ c[1] \in remain_nodes /\ c[2] <= host_blocks_num[c[1]]
           \/ c[1] = node /\ c[2] <= j + 1}

\* After that every chunk paid for has been sent or waits, unless the free nodes
\* have run out; transfers and free nodes add up to a number that stays.
Relieving ==
    /\ pc \in {"move", "done"}
    /\ pc = "done" => j = 0 /\ remain_nodes = {}
    /\ j > 0 => node \notin remain_nodes
    /\ IsFiniteSet(Waiting)
    /\ Len(blocks_to_sent) + Len(available_nodes) + 2 * K + M = Price + node_num
    /\ \/ Len(blocks_to_sent) + Cardinality(Waiting) = Price
       \/ /\ available_nodes = <<>> /\ Shortage > 0
          /\ Len(blocks_to_sent) + Cardinality(Waiting) <= Price

Counted == Fits /\ (Skipped \/ Placing \/ Relieving)

LEMMA Numbers ==
    ASSUME TypeOK
    PROVE  /\ K \in Nat /\ M \in Nat /\ node_num \in Nat /\ node_num <= NodeNum
           /\ 1..node_num \subseteq Node /\ i \in Nat /\ j \in Nat
           /\ a \in Placement /\ b \in Placement /\ Price \in Nat
           /\ Len(blocks_to_sent) \in Nat /\ Len(available_nodes) \in Nat
<1>1. /\ K \in Nat /\ M \in Nat /\ NodeNum \in Nat
      /\ node_num \in 1..NodeNum
  BY StripeAssumption, SchemeAssumption
     DEF StripeAssumption, SchemeAssumption, TypeOK
<1>2. 1..node_num \subseteq Node
  BY <1>1 DEF Node
<1>3. /\ i \in Nat /\ j \in Nat /\ a \in Placement /\ b \in Placement
      /\ blocks_to_sent \in Seq(Transfer) /\ available_nodes \in Seq(Node)
  BY <1>1 DEF TypeOK
<1>4. Price \in Nat
  BY <1>1, <1>3, CostBounds DEF Price
<1> QED BY <1>1, <1>2, <1>3, <1>4

LEMMA CountedInit == TypeOK /\ Init => Counted
<1> SUFFICES ASSUME TypeOK, Init PROVE Counted
  OBVIOUS
<1>1. Fits
  BY DEF Init, Fits
<1>2. Price \in Nat /\ a \in Placement /\ b \in Placement
  BY Numbers
<1>3. CASE Price = 0
  <2>1. Skipped
    BY <1>3 DEF Init, Skipped, Price
  <2> QED BY <1>1, <2>1 DEF Counted
<1>4. CASE Price > 0
  <2>1. pc = "parity" /\ i - 1 = 0 /\ blocks_to_sent = <<>>
    BY <1>4 DEF Init, Price
  <2>2. Cardinality(Misaligned(a, b, 0)) = 0
    BY MisalignedFacts
  <2>3. \A n : PlacedOn(a, b, 0, n) = {}
    BY DEF PlacedOn
  <2>4. \A n : Cardinality(PlacedOn(a, b, 0, n)) = 0
    BY <2>3, FS_EmptySet
  <2>5. Load(a, b, 0) = [n \in Node |-> DataOn(n, a) + DataOn(n, b)]
    <3>1. \A n : DataOn(n, a) + DataOn(n, b) + 0 = DataOn(n, a) + DataOn(n, b)
      BY CountsAreNat
    <3> QED BY <2>4, <3>1 DEF Load
  <2>6. host_blocks_num = Load(a, b, i - 1)
    BY <2>1, <2>5 DEF Init
  <2>7. Placing
    BY <2>1, <2>2, <2>6 DEF Placing
  <2> QED BY <1>1, <2>7 DEF Counted
<1> QED BY <1>2, <1>3, <1>4

\* One parity chunk is placed where compute_cost has placed it.
LEMMA PlaceStep ==
    ASSUME TypeOK, Placing, i <= M, PlaceParity(DestOf(a, b, i)),
           Len(blocks_to_sent') = Len(blocks_to_sent)
                    + (IF a.parity[i] # b.parity[i] THEN 1 ELSE 0)
    PROVE  Placing'
<1>1. i \in 1..M /\ i \in Nat \ {0} /\ a \in Placement /\ b \in Placement
  BY Numbers DEF TypeOK
<1>2. Load(a, b, i) = Add(Load(a, b, i - 1), DestOf(a, b, i))
  BY <1>1, LoadAdd
<1>3. Cardinality(Misaligned(a, b, i)) =
         Cardinality(Misaligned(a, b, i - 1))
         + (IF a.parity[i] # b.parity[i] THEN 1 ELSE 0)
  BY <1>1, MisalignedFacts
<1>4. /\ pc' = "parity" /\ a' = a /\ b' = b /\ i' - 1 = i
      /\ host_blocks_num' = Add(host_blocks_num, DestOf(a, b, i))
  BY <1>1 DEF PlaceParity, Placing, Add
<1>5. /\ host_blocks_num' = Load(a, b, i)
      /\ Len(blocks_to_sent') = Cardinality(Misaligned(a, b, i))
  BY <1>2, <1>3, <1>4 DEF Placing
<1> QED BY <1>4, <1>5 DEF Placing

\* The code tells a node in use by its count.
LEMMA UsedOrNot ==
    ASSUME TypeOK, Placing, i <= M
    PROVE  /\ DestOf(a, b, i) =
                 IF \/ a.parity[i] = b.parity[i]
                    \/ host_blocks_num[a.parity[i]] = 0
                 THEN a.parity[i] ELSE b.parity[i]
           /\ a.parity[i] \in Node /\ b.parity[i] \in Node /\ i \in 0..M
<1>1. i \in 1..M /\ i - 1 \in 0..M /\ a \in Placement /\ b \in Placement
  BY Numbers DEF TypeOK
<1>2. a.parity[i] \in Node /\ b.parity[i] \in Node
  BY <1>1 DEF Placement
<1>3. Priced(a, b, i - 1)
  BY <1>1, PricedAlways
<1>4. host_blocks_num[a.parity[i]] = 0
         <=> a.parity[i] \notin CostUpTo(a, b)[i - 1].used
  BY <1>2, <1>3 DEF Priced, Placing, Support
<1> QED BY <1>1, <1>2, <1>4 DEF DestOf, ParityDest

LEMMA SendOne ==
    ASSUME TypeOK, NEW s \in Node, NEW t \in Node, NEW c \in 0..M,
           blocks_to_sent' = Send(s, t, c)
    PROVE  Len(blocks_to_sent') = Len(blocks_to_sent) + 1
<1>1. [source |-> s, target |-> t, coefficient |-> c] \in Transfer
  BY DEF Transfer
<1> QED BY <1>1 DEF Send, TypeOK

LEMMA CountedParity ==
    ASSUME TypeOK, Placing, AlignedParity \/ ParityToA \/ ParityToB
    PROVE  Placing'
<1>1. i <= M
  BY DEF AlignedParity, ParityToA, ParityToB
<1>2. /\ DestOf(a, b, i) =
            IF \/ a.parity[i] = b.parity[i]
               \/ host_blocks_num[a.parity[i]] = 0
            THEN a.parity[i] ELSE b.parity[i]
      /\ a.parity[i] \in Node /\ b.parity[i] \in Node /\ i \in 0..M
  BY <1>1, UsedOrNot
<1>3. Len(blocks_to_sent) \in Nat
  BY Numbers
<1>4. CASE AlignedParity
  <2>1. /\ PlaceParity(DestOf(a, b, i)) /\ a.parity[i] = b.parity[i]
        /\ Len(blocks_to_sent') = Len(blocks_to_sent) + 0
    BY <1>2, <1>3, <1>4 DEF AlignedParity
  <2> QED BY <1>1, <2>1, PlaceStep
<1>5. CASE ParityToA
  <2>1. /\ PlaceParity(DestOf(a, b, i)) /\ a.parity[i] # b.parity[i]
        /\ blocks_to_sent' = Send(b.parity[i], a.parity[i], i)
    BY <1>2, <1>5 DEF ParityToA
  <2>2. Len(blocks_to_sent') = Len(blocks_to_sent) + 1
    BY <1>2, <2>1, SendOne
  <2> QED BY <1>1, <2>1, <2>2, PlaceStep
<1>6. CASE ParityToB
  <2>1. /\ PlaceParity(DestOf(a, b, i)) /\ a.parity[i] # b.parity[i]
        /\ blocks_to_sent' = Send(a.parity[i], b.parity[i], i)
    BY <1>2, <1>6 DEF ParityToB
  <2>2. Len(blocks_to_sent') = Len(blocks_to_sent) + 1
    BY <1>2, <2>1, SendOne
  <2> QED BY <1>1, <2>1, <2>2, PlaceStep
<1> QED BY <1>4, <1>5, <1>6

\* compute_cost uses nodes of the cluster only: what it has not paid for is a
\* node of its own.
LEMMA UsedFits ==
    ASSUME TypeOK, Fits
    PROVE  LET used == CostUpTo(a, b)[M].used
           IN  /\ used \subseteq 1..node_num /\ IsFiniteSet(used)
               /\ Cardinality(used) \in 0..node_num
               /\ Price + Cardinality(used)
                     = 2 * K + M + Cardinality(Misaligned(a, b, M))
<1> DEFINE used == CostUpTo(a, b)[M].used
<1>1. /\ K \in Nat /\ M \in Nat /\ node_num \in Nat /\ 1..node_num \subseteq Node
      /\ a \in Placement /\ b \in Placement
  BY Numbers
<1>2. Accounted(a, b, M)
  BY <1>1, CostAccounted
<1>3. /\ used \subseteq Node /\ used \subseteq Holds(a, M) \cup Holds(b, M)
      /\ Price + Cardinality(used) = 2 * K + M + Cardinality(Misaligned(a, b, M))
  BY <1>2 DEF Accounted, Price, ComputeCost
<1> HIDE DEF used
<1>4. \A n \in Holds(a, M) \cup Holds(b, M) : n <= node_num
  <2>1. 1 \in 1..K /\ 1 \in 1..M
    BY StripeAssumption DEF StripeAssumption
  <2>2. /\ \A x \in 1..K : a.data[x] <= node_num /\ b.data[x] <= node_num
        /\ \A y \in 1..M : a.parity[y] <= node_num /\ b.parity[y] <= node_num
    BY <2>1 DEF Fits, On
  <2> QED BY <2>2 DEF Holds
<1>5. \A n \in Node : n \in Nat /\ 1 <= n
  BY DEF Node
<1>6. used \subseteq 1..node_num
  BY <1>1, <1>3, <1>4, <1>5
<1>7. IsFiniteSet(1..node_num) /\ Cardinality(1..node_num) = node_num
  BY <1>1, IntervalSize
<1>8. /\ IsFiniteSet(used) /\ Cardinality(used) \in Nat
      /\ Cardinality(used) <= Cardinality(1..node_num)
  BY <1>6, <1>7, FS_Subset, FS_CardinalityType
<1> QED BY <1>1, <1>3, <1>6, <1>7, <1>8 DEF used

LEMMA CountedScan ==
    ASSUME TypeOK, RelievedApart, Fits, Placing, Scan
    PROVE  Relieving'
<1> DEFINE h == host_blocks_num
           used == CostUpTo(a, b)[M].used
           mis == Cardinality(Misaligned(a, b, M))
<1>1. /\ K \in Nat /\ M \in Nat /\ node_num \in Nat /\ 1..node_num \subseteq Node
      /\ a \in Placement /\ b \in Placement /\ Price \in Nat
      /\ Len(blocks_to_sent) \in Nat /\ Len(available_nodes) \in Nat
  BY Numbers
<1>2. /\ i - 1 = M /\ j = 0
      /\ pc' = "move" /\ remain_nodes' = Crowded
      /\ available_nodes' \in [1..Cardinality(Empty) -> Empty]
      /\ UNCHANGED <<node_num, a, b, host_blocks_num, node, j, blocks_to_sent>>
  BY <1>1 DEF Scan, Placing, RelievedApart, TypeOK
<1>3. /\ used \subseteq 1..node_num /\ IsFiniteSet(used)
      /\ Cardinality(used) \in 0..node_num
      /\ Price + Cardinality(used) = 2 * K + M + mis
  BY UsedFits
<1>4. Priced(a, b, M)
  BY <1>1, PricedAlways
<1>5. /\ h \in [Node -> Nat] /\ Support(h) = used /\ IsFiniteSet(Over(h))
      /\ Price = Cardinality(Over(h)) + mis
      /\ Len(blocks_to_sent) = mis
  BY <1>2, <1>4 DEF Priced, Placing, Price, ComputeCost
<1> HIDE DEF h, used, mis
<1>6. Waiting' = Over(h)
  <2>1. ASSUME NEW n \in Node, h[n] >= 2
        PROVE  n \in Crowded
    <3>1. h[n] # 0 /\ h[n] > 1
      BY <1>5, <2>1
    <3>2. n \in Support(h)
      BY <3>1 DEF Support
    <3>3. n \in 1..node_num
      BY <1>3, <1>5, <3>2
    <3> QED BY <3>1, <3>3 DEF Crowded, h
  <2>2. \A n \in Node, k \in Nat :
           (2 <= k /\ ((n \in Crowded /\ k <= h[n]) \/ (n = node /\ k <= 0 + 1)))
              <=> (2 <= k /\ k <= h[n])
    <3> SUFFICES ASSUME NEW n \in Node, NEW k \in Nat, 2 <= k
                 PROVE  (n \in Crowded /\ k <= h[n]) \/ (n = node /\ k <= 0 + 1)
                           <=> k <= h[n]
      OBVIOUS
    <3>1. ~(k <= 0 + 1)
      OBVIOUS
    <3>2. h[n] \in Nat /\ (k <= h[n] => h[n] >= 2)
      BY <1>5
    <3> QED BY <2>1, <3>1, <3>2
  <2>3. Waiting' = {c \in Node \X Nat :
                      /\ 2 <= c[2]
                      /\ \/ c[1] \in Crowded /\ c[2] <= h[c[1]]
                         \/ c[1] = node /\ c[2] <= 0 + 1}
    BY <1>2 DEF Waiting, h
  <2> QED BY <2>2, <2>3 DEF Over
<1>7. Len(available_nodes') = node_num - Cardinality(used)
  <2>1. Empty = (1..node_num) \ used
    BY <1>1, <1>5 DEF Empty, Support, h
  <2>2. IsFiniteSet(1..node_num) /\ Cardinality(1..node_num) = node_num
    BY <1>1, IntervalSize
  <2>3. Cardinality((1..node_num) \ used)
           = Cardinality(1..node_num) - Cardinality((1..node_num) \cap used)
    BY <2>2, FS_Difference
  <2>4. (1..node_num) \cap used = used
    BY <1>3
  <2>5. Cardinality(Empty) = node_num - Cardinality(used)
    BY <2>1, <2>2, <2>3, <2>4
  <2>6. Cardinality(Empty) \in Nat
    BY <1>1, <1>3, <2>5
  <2>7. Len(available_nodes') = Cardinality(Empty)
    BY <1>2, <2>6
  <2> QED BY <2>5, <2>7
<1>8. Len(blocks_to_sent) + Cardinality(Waiting') = Price
  <2>1. Cardinality(Over(h)) \in Nat
    BY <1>5, FS_CardinalityType
  <2>2. mis \in Nat
    BY <1>1, <1>5
  <2> QED BY <1>5, <1>6, <2>1, <2>2
<1>9. Len(blocks_to_sent) + Len(available_nodes') + 2 * K + M = Price + node_num
  <2> DEFINE u == Cardinality(used)
             l == Len(available_nodes')
  <2>1. u \in Nat /\ l = node_num - u /\ Price + u = 2 * K + M + mis
    BY <1>3, <1>7
  <2>2. mis \in Nat /\ Len(blocks_to_sent) = mis
    BY <1>1, <1>5
  <2> HIDE DEF u, l
  <2>3. mis + l + 2 * K + M = Price + node_num
    BY <1>1, <2>1, <2>2
  <2> QED BY <2>2, <2>3 DEF l
<1>10. Price' = Price
  BY <1>2 DEF Price
<1>11. IsFiniteSet(Waiting')
  BY <1>5, <1>6
<1> QED BY <1>2, <1>8, <1>9, <1>10, <1>11 DEF Relieving

\* Chunks that wait when the free nodes run out are chunks without a node.
LEMMA RunOut ==
    ASSUME TypeOK, Relieving, j > 0, available_nodes = <<>>
    PROVE  Shortage > 0
<1> DEFINE sent == Len(blocks_to_sent)
           left == Cardinality(Waiting)
<1>1. /\ K \in Nat /\ M \in Nat /\ node_num \in Nat
      /\ Price \in Nat /\ sent \in Nat /\ j \in Nat
  BY Numbers
<1>2. Len(available_nodes) = 0
  OBVIOUS
<1>3. /\ sent + 0 + 2 * K + M = Price + node_num
      /\ IsFiniteSet(Waiting)
      /\ sent + left = Price \/ Shortage > 0
  BY <1>2 DEF Relieving
<1>4. <<node, j + 1>> \in Waiting
  BY <1>1 DEF Waiting, TypeOK
<1>5. left \in Nat /\ left # 0
  BY <1>3, <1>4, FS_EmptySet, FS_CardinalityType
<1> HIDE DEF sent, left
<1>6. sent + left = Price => 2 * K + M > node_num
  BY <1>1, <1>3, <1>5
<1>7. 2 * K + M > node_num => Shortage > 0
  BY <1>1 DEF Shortage
<1> QED BY <1>3, <1>6, <1>7

LEMMA CountedRelief ==
    ASSUME TypeOK, RelievedApart, Relieving,
           NextNode \/ Move \/ NoNodeLeft \/ Finish
    PROVE  Relieving'
<1> DEFINE sent == Len(blocks_to_sent)
           free == Len(available_nodes)
           left == Cardinality(Waiting)
<1>1. /\ K \in Nat /\ M \in Nat /\ node_num \in Nat
      /\ Price \in Nat /\ sent \in Nat /\ free \in Nat /\ j \in Nat
      /\ host_blocks_num \in [Node -> Nat] /\ remain_nodes \subseteq Node
  BY Numbers DEF TypeOK
<1>2. /\ sent + free + 2 * K + M = Price + node_num
      /\ IsFiniteSet(Waiting) /\ left \in Nat
      /\ \/ sent + left = Price
         \/ available_nodes = <<>> /\ Shortage > 0 /\ sent + left <= Price
  BY FS_CardinalityType DEF Relieving
<1>3. UNCHANGED <<node_num, a, b>>
  BY DEF NextNode, Move, NoNodeLeft, Finish
<1>4. Price' = Price /\ Shortage' = Shortage
  BY <1>3 DEF Price, Shortage
<1> HIDE DEF sent, free, left
<1>5. CASE NextNode
  <2>1. PICK n \in remain_nodes :
           /\ node' = n /\ j' = host_blocks_num[n] - 1
           /\ remain_nodes' = remain_nodes \ {n}
    BY <1>5 DEF NextNode
  <2>2. /\ pc = "move" /\ j = 0
        /\ UNCHANGED <<pc, host_blocks_num, available_nodes, blocks_to_sent>>
    BY <1>5 DEF NextNode
  <2>3. Waiting' = Waiting
    <3>1. \A m \in Node, k \in Nat :
             (2 <= k /\ (\/ m \in remain_nodes /\ k <= host_blocks_num[m]
                         \/ m = node /\ k <= j + 1))
             <=> (2 <= k /\ (\/ m \in remain_nodes' /\ k <= host_blocks_num[m]
                             \/ m = node' /\ k <= j' + 1))
      BY <1>1, <2>1, <2>2
    <3> QED BY <2>2, <3>1 DEF Waiting
  <2>4. node' \notin remain_nodes'
    BY <2>1
  <2> QED BY <1>2, <1>3, <1>4, <2>2, <2>3, <2>4 DEF Relieving, sent, free, left
<1>6. CASE Move
  <2> DEFINE target == Head(available_nodes)
             e == <<node, j + 1>>
  <2>1. /\ pc = "move" /\ pc' = "move" /\ j > 0 /\ available_nodes # <<>>
        /\ j' = j - 1 /\ UNCHANGED <<node, remain_nodes>>
        /\ host_blocks_num' = [host_blocks_num EXCEPT ![target] = @ + 1]
        /\ blocks_to_sent' = Send(node, target, 0)
        /\ available_nodes' = SubSeq(available_nodes, 1, Len(available_nodes) - 1)
    BY <1>6 DEF Move
  <2>2. target \in Node /\ node \in Node /\ 0 \in 0..M
    BY <1>1, <2>1 DEF TypeOK
  <2>3. target \notin remain_nodes /\ node \notin remain_nodes
    <3>1. 1 \in DOMAIN available_nodes /\ target = available_nodes[1]
      BY <2>1 DEF TypeOK
    <3> QED BY <2>1, <3>1 DEF RelievedApart, Relieving
  <2>4. Len(blocks_to_sent') = sent + 1
    BY <2>1, <2>2, SendOne DEF sent
  <2>5. Len(available_nodes') = free - 1
    <3>1. available_nodes \in Seq(Node) /\ available_nodes # <<>>
      BY <2>1 DEF TypeOK
    <3>2. Len(SubSeq(available_nodes, 1, Len(available_nodes) - 1))
             = Len(available_nodes) - 1
      BY <3>1, FrontFacts
    <3> QED BY <2>1, <3>2 DEF free
  <2>6. Waiting' = Waiting \ {e} /\ e \in Waiting
    <3>1. \A m \in remain_nodes : host_blocks_num'[m] = host_blocks_num[m]
      BY <1>1, <2>1, <2>2, <2>3
    <3>2. \A m \in Node, k \in Nat :
             (2 <= k /\ (\/ m \in remain_nodes' /\ k <= host_blocks_num'[m]
                         \/ m = node' /\ k <= j' + 1))
             <=> ((2 <= k /\ (\/ m \in remain_nodes /\ k <= host_blocks_num[m]
                              \/ m = node /\ k <= j + 1))
                  /\ ~(m = node /\ k = j + 1))
      BY <1>1, <2>1, <2>3, <3>1
    <3>3. e \in Waiting
      BY <1>1, <2>1, <2>2 DEF Waiting
    <3>4. /\ Waiting' \subseteq Node \X Nat /\ Waiting \subseteq Node \X Nat
          /\ \A m \in Node, k \in Nat : <<m, k>> \in Waiting' <=>
                (2 <= k /\ (\/ m \in remain_nodes' /\ k <= host_blocks_num'[m]
                            \/ m = node' /\ k <= j' + 1))
          /\ \A m \in Node, k \in Nat : <<m, k>> \in Waiting <=>
                (2 <= k /\ (\/ m \in remain_nodes /\ k <= host_blocks_num[m]
                            \/ m = node /\ k <= j + 1))
      BY DEF Waiting
    <3>5. \A c \in Node \X Nat : c \in Waiting' <=> c \in Waiting /\ c # e
      BY <3>2, <3>4
    <3> QED BY <3>3, <3>4, <3>5
  <2>7. /\ IsFiniteSet(Waiting \ {e})
        /\ Cardinality(Waiting \ {e}) = left - 1
    <3>1. e \in Waiting
      BY <2>6
    <3> HIDE DEF e
    <3> QED BY <1>2, <3>1, FS_RemoveElement DEF left
  <2>8. Len(blocks_to_sent') + Cardinality(Waiting') = Price
    <3>1. sent + left = Price
      BY <1>2, <2>1
    <3> QED BY <1>1, <1>2, <2>4, <2>6, <2>7, <3>1
  <2>9. Len(blocks_to_sent') + Len(available_nodes') + 2 * K + M = Price + node_num
    BY <1>1, <1>2, <2>4, <2>5
  <2> QED BY <1>3, <1>4, <2>1, <2>3, <2>6, <2>7, <2>8, <2>9 DEF Relieving
<1>7. CASE NoNodeLeft
  <2>1. /\ pc = "move" /\ j > 0 /\ available_nodes = <<>> /\ j' = 0
        /\ UNCHANGED <<pc, host_blocks_num, remain_nodes, node, available_nodes,
                       blocks_to_sent>>
    BY <1>7 DEF NoNodeLeft
  <2>5. Waiting' \subseteq Waiting
    BY <1>1, <2>1 DEF Waiting
  <2>6. /\ IsFiniteSet(Waiting') /\ Cardinality(Waiting') <= left
        /\ Cardinality(Waiting') \in Nat
    BY <1>2, <2>5, FS_Subset, FS_CardinalityType DEF left
  <2>7. Shortage > 0 /\ sent + left <= Price
    BY <1>1, <1>2, <1>7, RunOut DEF NoNodeLeft
  <2>8. sent + Cardinality(Waiting') <= Price
    BY <1>1, <1>2, <2>6, <2>7
  <2> QED BY <1>2, <1>3, <1>4, <2>1, <2>6, <2>7, <2>8 DEF Relieving, sent, free
<1>8. CASE Finish
  <2>1. /\ j = 0 /\ remain_nodes = {} /\ pc' = "done"
        /\ UNCHANGED <<host_blocks_num, remain_nodes, node, j, available_nodes,
                       blocks_to_sent>>
    BY <1>8 DEF Finish
  <2>2. Waiting' = Waiting
    BY <2>1 DEF Waiting
  <2> QED BY <1>2, <1>3, <1>4, <2>1, <2>2 DEF Relieving, sent, free, left
<1> QED BY <1>5, <1>6, <1>7, <1>8

LEMMA CountedStep ==
    TypeOK /\ RelievedApart /\ Counted /\ [Next]_vars => Counted'
<1> SUFFICES ASSUME TypeOK, RelievedApart, Counted, [Next]_vars
             PROVE  Counted'
  OBVIOUS
<1>1. Fits'
  <2>1. UNCHANGED <<node_num, a, b>>
    BY DEF Next, vars, AlignedParity, ParityToA, ParityToB, PlaceParity, Scan,
           NextNode, Move, NoNodeLeft, Finish
  <2> QED BY <2>1 DEF Counted, Fits
<1>2. CASE UNCHANGED vars
  <2>1. UNCHANGED <<Price, Waiting, Shortage>>
    BY <1>2 DEF vars, Price, Waiting, Shortage
  <2> QED BY <1>1, <1>2, <2>1 DEF vars, Counted, Skipped, Placing, Relieving
<1>3. CASE AlignedParity \/ ParityToA \/ ParityToB
  <2>1. Placing
    BY <1>3 DEF AlignedParity, ParityToA, ParityToB, Counted, Skipped, Relieving
  <2> QED BY <1>1, <1>3, <2>1, CountedParity DEF Counted
<1>4. CASE Scan
  <2>1. Placing /\ Fits
    BY <1>4 DEF Scan, Counted, Skipped, Relieving
  <2> QED BY <1>1, <1>4, <2>1, CountedScan DEF Counted
<1>5. CASE NextNode \/ Move \/ NoNodeLeft \/ Finish
  <2>1. Relieving
    BY <1>5 DEF NextNode, Move, NoNodeLeft, Finish, Counted, Skipped, Placing
  <2> QED BY <1>1, <1>5, <2>1, CountedRelief DEF Counted
<1> QED BY <1>2, <1>3, <1>4, <1>5 DEF Next

LEMMA CountedSize == TypeOK /\ Counted => SchemeSizeIsCost
<1> SUFFICES ASSUME TypeOK, Counted, pc = "done"
             PROVE  Len(blocks_to_sent) = Price - Shortage
  BY DEF SchemeSizeIsCost, Price
<1> DEFINE sent == Len(blocks_to_sent)
           free == Len(available_nodes)
<1>1. /\ K \in Nat /\ M \in Nat /\ node_num \in Nat /\ Price \in Nat
      /\ sent \in Nat /\ free \in Nat
      /\ a \in Placement /\ b \in Placement
  BY Numbers
<1>2. CASE Skipped
  <2> DEFINE used == CostUpTo(a, b)[M].used
             u == Cardinality(used)
             mis == Cardinality(Misaligned(a, b, M))
  <2>1. u \in 0..node_num /\ Price + u = 2 * K + M + mis
    BY UsedFits DEF Counted
  <2>2. mis \in 0..M
    BY <1>1, MisalignedFacts
  <2>3. sent = 0 /\ Price = 0
    BY <1>2 DEF Skipped
  <2> HIDE DEF sent, u, mis
  <2>4. 2 * K + M <= node_num
    BY <1>1, <2>1, <2>2, <2>3
  <2>5. Shortage = 0
    BY <1>1, <2>4 DEF Shortage
  <2> QED BY <2>3, <2>5 DEF sent
<1>3. CASE Relieving
  <2>1. Waiting = {}
    <3>1. j = 0 /\ remain_nodes = {}
      BY <1>3 DEF Relieving
    <3>2. \A n \in Node, k \in Nat :
             ~(2 <= k /\ ((n \in {} /\ k <= host_blocks_num[n])
                          \/ (n = node /\ k <= 0 + 1)))
      OBVIOUS
    <3> QED BY <3>1, <3>2 DEF Waiting
  <2>2. Cardinality(Waiting) = 0
    BY <2>1, FS_EmptySet
  <2>3. sent + free + 2 * K + M = Price + node_num
    BY <1>3 DEF Relieving
  <2>4. sent = Price \/ (free = 0 /\ Shortage > 0 /\ sent <= Price)
    BY <1>1, <1>3, <2>2 DEF Relieving
  <2> HIDE DEF sent, free
  <2>5. CASE sent = Price
    <3>1. 2 * K + M <= node_num
      BY <1>1, <2>3, <2>5
    <3> QED BY <1>1, <2>5, <3>1 DEF Shortage, sent
  <2>6. CASE free = 0 /\ Shortage > 0 /\ sent <= Price
    <3>1. node_num < 2 * K + M
      BY <1>1, <2>6 DEF Shortage
    <3>2. Shortage = 2 * K + M - node_num
      BY <1>1, <3>1 DEF Shortage
    <3> QED BY <1>1, <2>3, <2>6, <3>2 DEF sent
  <2> QED BY <2>4, <2>5, <2>6
<1> QED BY <1>2, <1>3 DEF Counted, Placing

\* As many transfers are generated as compute_cost said, but for the chunks that
\* no node is left for: what the matching minimises is what is executed.
THEOREM SchemeSizeIsCostHolds == Spec => []SchemeSizeIsCost
<1>1. Init /\ TypeOK => Counted
  BY CountedInit
<1>2. TypeOK /\ RelievedApart /\ Counted /\ [Next]_vars => Counted'
  BY CountedStep
<1>3. TypeOK /\ Counted => SchemeSizeIsCost
  BY CountedSize
<1> QED BY <1>1, <1>2, <1>3, TypeCorrect, PTL DEF Spec

-----------------------------------------------------------------------------
(* Parity chunks *)

\* The transfers of parity chunk x in the list q, by their places.
SentOf(q, x) == {y \in DOMAIN q : q[y].coefficient = x}

\* The chunks with number x, on the nodes m and n, meet on node d.
Meet(q, x, m, n, d) ==
    IF m = n THEN SentOf(q, x) = {}
    ELSE \E y \in DOMAIN q : /\ SentOf(q, x) = {y}
                             /\ {q[y].source, q[y].target} = {m, n}
                             /\ q[y].target = d
MeetIn(q, x) == Meet(q, x, a.parity[x], b.parity[x], DestOf(a, b, x))

\* The parity chunks up to i meet where compute_cost has placed them, nothing has
\* been sent of the others.
MetSoFar ==
    /\ pc # "parity" => i > M
    /\ \A x \in 1..M :
          /\ x < i => MeetIn(blocks_to_sent, x)
          /\ x >= i => SentOf(blocks_to_sent, x) = {}

LEMMA SendFacts ==
    ASSUME NEW q \in Seq(Transfer), NEW e \in Transfer
    PROVE  /\ \A x : x # e.coefficient =>
                 /\ SentOf(Append(q, e), x) = SentOf(q, x)
                 /\ \A m, n, d : Meet(q, x, m, n, d) => Meet(Append(q, e), x, m, n, d)
           /\ SentOf(q, e.coefficient) = {} => \A m, n :
                 m # n /\ {e.source, e.target} = {m, n}
                    => Meet(Append(q, e), e.coefficient, m, n, e.target)
<1> DEFINE r == Append(q, e)
           new == Len(q) + 1
           c == e.coefficient
<1>2. /\ Len(q) \in Nat /\ DOMAIN q = 1..Len(q)
      /\ DOMAIN r = 1..new /\ r[new] = e
      /\ \A y \in DOMAIN q : r[y] = q[y]
  OBVIOUS
<1>3. DOMAIN r = DOMAIN q \cup {new} /\ new \notin DOMAIN q
  BY <1>2
<1> HIDE DEF r, new, c
<1>4. ASSUME NEW x, x # c
      PROVE  /\ SentOf(r, x) = SentOf(q, x)
             /\ \A m, n, d : Meet(q, x, m, n, d) => Meet(r, x, m, n, d)
  <2>1. SentOf(r, x) = SentOf(q, x)
    BY <1>2, <1>3, <1>4 DEF SentOf, c
  <2> QED BY <1>2, <1>3, <2>1 DEF Meet
<1>5. ASSUME SentOf(q, c) = {}, NEW m, NEW n, m # n,
             {e.source, e.target} = {m, n}
      PROVE  Meet(r, c, m, n, e.target)
  <2>1. \A y \in DOMAIN q : r[y].coefficient # c
    BY <1>2, <1>5 DEF SentOf
  <2>2. SentOf(r, c) = {new}
    BY <1>2, <1>3, <2>1 DEF SentOf, c
  <2>3. /\ new \in DOMAIN r /\ {r[new].source, r[new].target} = {m, n}
        /\ r[new].target = e.target
    BY <1>2, <1>3, <1>5
  <2> QED BY <1>5, <2>2, <2>3 DEF Meet
<1> QED BY <1>4, <1>5 DEF r, c

\* A pair without a cost has all its parities in place.
LEMMA NothingMisaligned ==
    ASSUME TypeOK, Skipped, NEW x \in 1..M
    PROVE  a.parity[x] = b.parity[x]
<1>1. Cardinality(Misaligned(a, b, M)) \in 0..Price
  BY Numbers, CostBounds DEF Price
<1>2. IsFiniteSet(Misaligned(a, b, M)) /\ Cardinality(Misaligned(a, b, M)) = 0
  <2>1. M \in Nat
    BY Numbers
  <2>2. IsFiniteSet(Misaligned(a, b, M))
    BY <2>1, MisalignedFacts
  <2> QED BY <1>1, <2>2 DEF Skipped
<1>3. Misaligned(a, b, M) = {}
  BY <1>2, FS_EmptySet
<1> QED BY <1>3 DEF Misaligned

LEMMA MetStep ==
    TypeOK /\ Counted /\ MetSoFar /\ [Next]_vars => MetSoFar'
<1> SUFFICES ASSUME TypeOK, Counted, MetSoFar, [Next]_vars
             PROVE  MetSoFar'
  OBVIOUS
<1> DEFINE q == blocks_to_sent
<1>0. i \in Nat /\ M \in Nat /\ q \in Seq(Transfer)
  BY StripeAssumption DEF TypeOK, StripeAssumption
<1>1. ASSUME UNCHANGED <<a, b, i, blocks_to_sent>>, pc' # "parity" => i > M
      PROVE  MetSoFar'
  BY <1>1 DEF MetSoFar, MeetIn
<1>2. ASSUME pc = "parity", i <= M
      PROVE  /\ i \in 1..M /\ i \in 0..M
             /\ a.parity[i] \in Node /\ b.parity[i] \in Node
             /\ \A x \in 1..M : /\ x < i + 1 => (x < i \/ x = i)
                                /\ x >= i + 1 => (x >= i /\ x # i)
  BY <1>0, <1>2 DEF TypeOK, Placement
<1>3. CASE AlignedParity
  <2>1. /\ pc = "parity" /\ i <= M /\ pc' = pc /\ i' = i + 1
        /\ a.parity[i] = b.parity[i]
        /\ UNCHANGED <<a, b, blocks_to_sent>>
    BY <1>3 DEF AlignedParity, PlaceParity
  <2>2. MeetIn(q, i)
    <3>1. SentOf(q, i) = {}
      BY <1>0, <1>2, <2>1 DEF MetSoFar
    <3> QED BY <2>1, <3>1 DEF Meet, MeetIn
  <2> QED BY <1>2, <2>1, <2>2 DEF MetSoFar, MeetIn
<1>4. ASSUME NEW s \in Node, NEW t \in Node, pc = "parity", i <= M,
             a.parity[i] # b.parity[i], {s, t} = {a.parity[i], b.parity[i]},
             t = DestOf(a, b, i),
             q' = Send(s, t, i), i' = i + 1, UNCHANGED <<pc, a, b>>
      PROVE  MetSoFar'
  <2>1. i \in 1..M /\ i \in 0..M /\ SentOf(q, i) = {}
    BY <1>0, <1>2, <1>4 DEF MetSoFar
  <2>2. /\ \A x \in 1..M : x # i =>
              /\ SentOf(q', x) = SentOf(q, x)
              /\ \A m, n, d : Meet(q, x, m, n, d) => Meet(q', x, m, n, d)
        /\ MeetIn(q', i)
    <3> DEFINE e == [source |-> s, target |-> t, coefficient |-> i]
    <3>1. /\ q' = Append(q, e) /\ e \in Transfer
          /\ e.source = s /\ e.target = t /\ e.coefficient = i
      BY <1>4, <2>1 DEF Send, Transfer
    <3> HIDE DEF e
    <3>2. /\ \A x : x # i =>
                /\ SentOf(q', x) = SentOf(q, x)
                /\ \A m, n, d : Meet(q, x, m, n, d) => Meet(q', x, m, n, d)
          /\ SentOf(q, i) = {} => \A m, n :
                m # n /\ {s, t} = {m, n} => Meet(q', i, m, n, t)
      BY <1>0, <3>1, SendFacts
    <3> QED BY <1>4, <2>1, <3>2 DEF MeetIn
  <2>3. ASSUME NEW x \in 1..M, x < i + 1
        PROVE  MeetIn(q', x)
    <3>1. CASE x < i
      <4>1. x # i /\ MeetIn(q, x)
        BY <1>0, <3>1 DEF MetSoFar
      <4> QED BY <2>2, <4>1 DEF MeetIn
    <3>2. CASE x = i
      BY <2>2, <3>2
    <3> QED BY <1>2, <1>4, <2>3, <3>1, <3>2
  <2>4. ASSUME NEW x \in 1..M, x >= i + 1
        PROVE  SentOf(q', x) = {}
    <3>1. x >= i /\ x # i
      BY <1>2, <1>4, <2>4
    <3> QED BY <2>2, <3>1 DEF MetSoFar
  <2> QED BY <1>4, <2>3, <2>4 DEF MetSoFar, MeetIn
<1>11. ASSUME pc = "parity", i <= M
       PROVE  DestOf(a, b, i) =
                 IF \/ a.parity[i] = b.parity[i]
                    \/ host_blocks_num[a.parity[i]] = 0
                 THEN a.parity[i] ELSE b.parity[i]
  <2>1. Placing
    BY <1>11 DEF Counted, Skipped, Relieving
  <2> QED BY <1>11, <2>1, UsedOrNot
<1>5. CASE ParityToA
  <2>1. /\ pc = "parity" /\ i <= M /\ a.parity[i] # b.parity[i]
        /\ q' = Send(b.parity[i], a.parity[i], i) /\ i' = i + 1
        /\ UNCHANGED <<pc, a, b>>
    BY <1>5 DEF ParityToA, PlaceParity
  <2>2. /\ a.parity[i] \in Node /\ b.parity[i] \in Node
        /\ {b.parity[i], a.parity[i]} = {a.parity[i], b.parity[i]}
    BY <1>2, <2>1
  <2>3. a.parity[i] = DestOf(a, b, i)
    BY <1>5, <1>11, <2>1 DEF ParityToA
  <2> QED BY <1>4, <2>1, <2>2, <2>3
<1>6. CASE ParityToB
  <2>1. /\ pc = "parity" /\ i <= M /\ a.parity[i] # b.parity[i]
        /\ q' = Send(a.parity[i], b.parity[i], i) /\ i' = i + 1
        /\ UNCHANGED <<pc, a, b>>
    BY <1>6 DEF ParityToB, PlaceParity
  <2>2. a.parity[i] \in Node /\ b.parity[i] \in Node
    BY <1>2, <2>1
  <2>3. b.parity[i] = DestOf(a, b, i)
    BY <1>6, <1>11, <2>1 DEF ParityToB
  <2> QED BY <1>4, <2>1, <2>2, <2>3
\* A move of data has coefficient 0.
<1>7. CASE Move
  <2>1. /\ node \in Node /\ Head(available_nodes) \in Node
        /\ 0 \in 0..M /\ UNCHANGED <<pc, a, b, i>>
        /\ q' = Send(node, Head(available_nodes), 0)
    BY <1>0, <1>7 DEF Move, TypeOK
  <2>2. \A x \in 1..M :
           /\ SentOf(q', x) = SentOf(q, x)
           /\ \A m, n, d : Meet(q, x, m, n, d) => Meet(q', x, m, n, d)
    <3> DEFINE e == [source |-> node, target |-> Head(available_nodes),
                     coefficient |-> 0]
    <3>1. q' = Append(q, e) /\ e \in Transfer /\ e.coefficient = 0
      BY <2>1 DEF Send, Transfer
    <3> HIDE DEF e
    <3>2. \A x : x # 0 =>
             /\ SentOf(q', x) = SentOf(q, x)
             /\ \A m, n, d : Meet(q, x, m, n, d) => Meet(q', x, m, n, d)
      BY <1>0, <3>1, SendFacts
    <3> QED BY <3>2
  <2> QED BY <2>1, <2>2 DEF MetSoFar, MeetIn
<1>8. CASE Scan
  BY <1>0, <1>1, <1>8 DEF Scan
<1>9. CASE NextNode \/ NoNodeLeft \/ Finish
  BY <1>1, <1>9 DEF NextNode, NoNodeLeft, Finish, MetSoFar
<1>10. CASE UNCHANGED vars
  BY <1>1, <1>10 DEF vars, MetSoFar
<1> QED BY <1>3, <1>5, <1>6, <1>7, <1>8, <1>9, <1>10 DEF Next

\* The two chunks of each parity meet on the node of one of them: by no transfer
\* when they are there already and by one otherwise.  The pairs whose transfers
\* nobody asks for, as their cost is 0, have no parity chunk to send.
THEOREM ParitiesMeetHolds == Spec => []ParitiesMeet
<1> DEFINE Met == Skipped \/ MetSoFar
<1>1. TypeOK /\ Init => Met
  <2> SUFFICES ASSUME TypeOK, Init, ~(Price = 0) PROVE MetSoFar
    BY DEF Init, Skipped, Price
  <2>1. DOMAIN blocks_to_sent = {} /\ i = 1 /\ pc = "parity"
    BY Numbers DEF Init, Price
  <2>2. \A x \in 1..M : ~(x < 1)
    OBVIOUS
  <2> QED BY <2>1, <2>2 DEF MetSoFar, SentOf
<1>2. TypeOK /\ Counted /\ Met /\ [Next]_vars => Met'
  <2>1. Skipped /\ [Next]_vars => Skipped'
    BY DEF Skipped, Price, Next, vars, AlignedParity, ParityToA, ParityToB, Scan,
           NextNode, Move, NoNodeLeft, Finish
  <2> QED BY <2>1, MetStep
<1>3. TypeOK /\ Met => ParitiesMeet
  <2> SUFFICES ASSUME TypeOK, Met, pc = "done", NEW x \in 1..M
               PROVE  IF a.parity[x] = b.parity[x]
                      THEN SentOf(blocks_to_sent, x) = {}
                      ELSE /\ Cardinality(SentOf(blocks_to_sent, x)) = 1
                           /\ \A y \in SentOf(blocks_to_sent, x) :
                                 {blocks_to_sent[y].source,
                                  blocks_to_sent[y].target}
                                     = {a.parity[x], b.parity[x]}
    BY DEF ParitiesMeet, SentOf
  <2>1. CASE Skipped
    <3>1. SentOf(blocks_to_sent, x) = {}
      BY <2>1 DEF Skipped, SentOf
    <3> QED BY <2>1, <3>1, NothingMisaligned
  <2>2. CASE MetSoFar
    <3>1. x < i
      BY <2>2, StripeAssumption DEF MetSoFar, TypeOK, StripeAssumption
    <3>2. MeetIn(blocks_to_sent, x)
      BY <2>2, <3>1 DEF MetSoFar
    <3> QED BY <3>2, FS_Singleton DEF Meet, MeetIn
  <2> QED BY <2>1, <2>2
<1>4. Init /\ TypeOK => Counted
  BY CountedInit
<1>5. TypeOK /\ RelievedApart /\ Counted /\ [Next]_vars => Counted'
  BY CountedStep
<1> QED BY <1>1, <1>2, <1>3, <1>4, <1>5, TypeCorrect, PTL DEF Spec
-----------------------------------------------------------------------------
(* Crowded nodes *)

\* The chunks of the wide stripe on node n before the data transfers, by what
\* compute_cost has placed; those that are not alone; those it still gives away.
Held(n) == Load(a, b, M)[n]
Surplus(n) == IF Held(n) > 1 THEN Held(n) - 1 ELSE 0
Left(n) == IF n \in remain_nodes THEN Held(n) - 1 ELSE IF n = node THEN j ELSE 0

\* A node's surplus has been moved or waits, or there was no node for it.
NodeRelieved(n) ==
    \/ MovedFrom(n) + Left(n) = Surplus(n)
    \/ /\ available_nodes = <<>> /\ Shortage > 0
       /\ MovedFrom(n) + Left(n) <= Surplus(n)

Relieved ==
    /\ pc = "parity" => \A n \in Node : MovedFrom(n) = 0
    /\ pc # "parity" =>
          /\ \A n \in remain_nodes : host_blocks_num[n] = Held(n)
          /\ \A n \in Node : NodeRelieved(n)

\* The data transfers from node n in the list q, by their places.
MovesIn(q, n) == {x \in DOMAIN q : q[x].coefficient = 0 /\ q[x].source = n}

LEMMA MovedFromIs ==
    ASSUME NEW n PROVE MovedFrom(n) = Cardinality(MovesIn(blocks_to_sent, n))
  BY DEF MovedFrom, Moves, MovesIn

LEMMA MovedFromNext ==
    ASSUME NEW n PROVE MovedFrom(n)' = Cardinality(MovesIn(blocks_to_sent', n))
  BY DEF MovedFrom, Moves, MovesIn

LEMMA MovesFinite ==
    ASSUME NEW S, NEW q \in Seq(S), NEW n
    PROVE  IsFiniteSet(MovesIn(q, n)) /\ Cardinality(MovesIn(q, n)) \in Nat
<1>1. IsFiniteSet(1..Len(q)) /\ DOMAIN q = 1..Len(q)
  BY IntervalSize
<1>2. MovesIn(q, n) \subseteq 1..Len(q)
  BY <1>1 DEF MovesIn
<1> QED BY <1>1, <1>2, FS_Subset, FS_CardinalityType

LEMMA MovesSend ==
    ASSUME NEW q \in Seq(Transfer), NEW e \in Transfer, NEW n
    PROVE  Cardinality(MovesIn(Append(q, e), n)) =
              Cardinality(MovesIn(q, n))
              + (IF e.coefficient = 0 /\ e.source = n THEN 1 ELSE 0)
<1> DEFINE r == Append(q, e)
           new == Len(q) + 1
           S == MovesIn(q, n)
<1>1. /\ Len(q) \in Nat /\ DOMAIN q = 1..Len(q)
      /\ DOMAIN r = 1..new /\ r[new] = e
      /\ \A y \in DOMAIN q : r[y] = q[y]
  OBVIOUS
<1>2. DOMAIN r = DOMAIN q \cup {new} /\ new \notin DOMAIN q
  BY <1>1
<1>3. IsFiniteSet(S) /\ Cardinality(S) \in Nat
  BY MovesFinite
<1> HIDE DEF r, new
<1>4. CASE e.coefficient = 0 /\ e.source = n
  <2>1. MovesIn(r, n) = S \cup {new} /\ new \notin S
    BY <1>1, <1>2, <1>4 DEF MovesIn
  <2> HIDE DEF S
  <2>2. Cardinality(S \cup {new}) = Cardinality(S) + 1
    BY <1>3, <2>1, FS_AddElement
  <2> QED BY <1>4, <2>1, <2>2 DEF S, r
<1>5. CASE ~(e.coefficient = 0 /\ e.source = n)
  <2>1. MovesIn(r, n) = S
    BY <1>1, <1>2, <1>5 DEF MovesIn
  <2> QED BY <1>3, <1>5, <2>1 DEF r
<1> QED BY <1>4, <1>5

LEMMA HeldType ==
    ASSUME TypeOK, NEW n
    PROVE  /\ n \in Node => Held(n) \in Nat /\ Surplus(n) \in Nat
           /\ MovedFrom(n) \in Nat
<1>1. Load(a, b, M) \in [Node -> Nat]
  <2>1. M \in 0..M /\ a \in Placement /\ b \in Placement
    BY Numbers
  <2> QED BY <2>1, LoadType
<1>2. MovedFrom(n) \in Nat
  BY MovedFromIs, MovesFinite DEF TypeOK
<1> QED BY <1>1, <1>2 DEF Held, Surplus

LEMMA RelievedParity ==
    ASSUME TypeOK, Counted, Relieved, AlignedParity \/ ParityToA \/ ParityToB
    PROVE  Relieved'
<1>1. pc = "parity" /\ pc' = "parity" /\ i \in 1..M /\ i # 0 /\ i \in 0..M
  BY Numbers DEF AlignedParity, ParityToA, ParityToB, PlaceParity, TypeOK
<1>2. \A n \in Node : MovedFrom(n) = 0
  BY <1>1 DEF Relieved
<1>3. ASSUME NEW n \in Node PROVE MovedFrom(n)' = 0
  <2>1. CASE UNCHANGED blocks_to_sent
    BY <1>2, <2>1, MovedFromIs, MovedFromNext
  <2>2. ASSUME NEW s \in Node, NEW t \in Node, blocks_to_sent' = Send(s, t, i)
        PROVE  MovedFrom(n)' = 0
    <3> DEFINE e == [source |-> s, target |-> t, coefficient |-> i]
    <3>1. /\ e \in Transfer /\ e.coefficient # 0
          /\ blocks_to_sent' = Append(blocks_to_sent, e)
          /\ blocks_to_sent \in Seq(Transfer)
      BY <1>1, <2>2 DEF Transfer, Send, TypeOK
    <3> HIDE DEF e
    <3>2. Cardinality(MovesIn(blocks_to_sent', n)) =
             Cardinality(MovesIn(blocks_to_sent, n)) + 0
      BY <3>1, MovesSend
    <3> QED BY <1>2, <3>2, MovedFromIs, MovedFromNext
  <2>3. a.parity[i] \in Node /\ b.parity[i] \in Node
    BY <1>1, Numbers DEF Placement
  <2> QED BY <2>1, <2>2, <2>3 DEF AlignedParity, ParityToA, ParityToB
<1> QED BY <1>1, <1>3 DEF Relieved

LEMMA RelievedScan ==
    ASSUME TypeOK, RelievedApart, Counted, Relieved, Scan
    PROVE  Relieved'
<1> DEFINE h == host_blocks_num
<1>1. /\ pc = "parity" /\ pc' = "move" /\ i - 1 = M /\ j = 0
      /\ remain_nodes' = Crowded
      /\ UNCHANGED <<node_num, a, b, host_blocks_num, node, j, blocks_to_sent>>
  BY Numbers DEF Scan, RelievedApart, TypeOK
<1>2. Placing /\ Fits
  BY <1>1 DEF Counted, Skipped, Relieving
<1>3. h = Load(a, b, M) /\ h \in [Node -> Nat]
  BY <1>1, <1>2 DEF Placing, TypeOK
<1>4. Support(h) \subseteq 1..node_num
  <2>1. Priced(a, b, M)
    BY Numbers, PricedAlways
  <2> QED BY <1>2, <1>3, <2>1, UsedFits DEF Priced
<1>5. \A n : Held(n)' = h[n]
  BY <1>1, <1>3 DEF Held
<1>6. ASSUME NEW n \in Node
      PROVE  MovedFrom(n)' + Left(n)' = Surplus(n)'
  <2>1. MovedFrom(n)' = 0
    BY <1>1, MovedFromIs, MovedFromNext DEF Relieved
  <2>2. Left(n)' = IF n \in Crowded THEN h[n] - 1 ELSE 0
    BY <1>1, <1>5 DEF Left
  <2>3. Surplus(n)' = IF h[n] > 1 THEN h[n] - 1 ELSE 0
    BY <1>5 DEF Surplus
  <2>4. h[n] \in Nat /\ (h[n] > 1 => n \in Support(h))
    BY <1>3 DEF Support
  <2> HIDE DEF h
  <2>5. n \in Crowded <=> h[n] > 1
    BY <1>4, <2>4 DEF Crowded, h
  <2> QED BY <2>1, <2>2, <2>3, <2>4, <2>5
<1>7. \A n \in remain_nodes' : host_blocks_num'[n] = Held(n)'
  BY <1>1, <1>5
<1> QED BY <1>1, <1>6, <1>7 DEF Relieved, NodeRelieved

LEMMA RelievedMoves ==
    ASSUME TypeOK, RelievedApart, Counted, Relieved,
           NextNode \/ Move \/ NoNodeLeft \/ Finish
    PROVE  Relieved'
<1>1. /\ pc = "move" /\ pc' # "parity" /\ UNCHANGED <<node_num, a, b>>
      /\ remain_nodes' \subseteq remain_nodes
  BY DEF NextNode, Move, NoNodeLeft, Finish
<1>2. Relieving
  BY <1>1 DEF Counted, Skipped, Placing
<1>3. /\ \A n : Held(n)' = Held(n) /\ Surplus(n)' = Surplus(n)
      /\ Shortage' = Shortage
  BY <1>1 DEF Held, Surplus, Shortage
<1>4. /\ \A n \in remain_nodes : host_blocks_num[n] = Held(n)
      /\ \A n \in Node : NodeRelieved(n)
  BY <1>1 DEF Relieved
<1>5. /\ \A n \in remain_nodes : host_blocks_num[n] > 1
      /\ remain_nodes \subseteq Node /\ j \in Nat
  BY DEF RelievedApart, TypeOK
<1>6. ASSUME UNCHANGED <<host_blocks_num, available_nodes, blocks_to_sent>>,
             \A n \in Node : Left(n)' = Left(n)
      PROVE  Relieved'
  <2>1. \A n : MovedFrom(n)' = MovedFrom(n)
    BY <1>6, MovedFromIs, MovedFromNext
  <2>2. \A n \in Node : NodeRelieved(n)'
    BY <1>3, <1>4, <1>6, <2>1 DEF NodeRelieved
  <2>3. \A n \in remain_nodes' : host_blocks_num'[n] = Held(n)'
    BY <1>1, <1>3, <1>4, <1>6
  <2> QED BY <1>1, <2>2, <2>3 DEF Relieved
<1>7. CASE NextNode
  <2>1. PICK n \in remain_nodes :
           /\ node' = n /\ j' = host_blocks_num[n] - 1
           /\ remain_nodes' = remain_nodes \ {n}
    BY <1>7 DEF NextNode
  <2>2. j = 0 /\ UNCHANGED <<host_blocks_num, available_nodes, blocks_to_sent>>
    BY <1>7 DEF NextNode
  <2>3. \A m \in Node : Left(m)' = Left(m)
    BY <1>3, <1>4, <2>1, <2>2 DEF Left
  <2> QED BY <1>6, <2>2, <2>3
<1>8. CASE Move
  <2> DEFINE e == [source |-> node, target |-> Head(available_nodes),
                   coefficient |-> 0]
  <2>1. /\ j > 0 /\ available_nodes # <<>> /\ j' = j - 1
        /\ UNCHANGED <<node, remain_nodes>>
        /\ host_blocks_num' =
              [host_blocks_num EXCEPT ![Head(available_nodes)] = @ + 1]
        /\ blocks_to_sent' = Append(blocks_to_sent, e)
    BY <1>8 DEF Move, Send
  <2>2. Head(available_nodes) \in Node /\ node \in Node /\ node \notin remain_nodes
    BY <1>2, <2>1 DEF TypeOK, Relieving
  <2>3. Head(available_nodes) \notin remain_nodes
    <3>1. 1 \in DOMAIN available_nodes /\ Head(available_nodes) = available_nodes[1]
      BY <2>1 DEF TypeOK
    <3> QED BY <3>1 DEF RelievedApart
  <2>4. /\ blocks_to_sent \in Seq(Transfer) /\ e \in Transfer
        /\ e.coefficient = 0 /\ e.source = node
    BY <2>2, Numbers DEF TypeOK, Transfer
  <2> HIDE DEF e
  <2>5. ASSUME NEW n \in Node
        PROVE  MovedFrom(n)' = MovedFrom(n) + (IF node = n THEN 1 ELSE 0)
    <3>1. Cardinality(MovesIn(Append(blocks_to_sent, e), n)) =
             Cardinality(MovesIn(blocks_to_sent, n))
             + (IF e.coefficient = 0 /\ e.source = n THEN 1 ELSE 0)
      BY <2>4, MovesSend
    <3> QED BY <2>1, <2>4, <3>1, MovedFromIs, MovedFromNext
  <2>6. ASSUME NEW n \in Node
        PROVE  Left(n)' = Left(n) - (IF node = n THEN 1 ELSE 0)
    <3>1. CASE n = node
      BY <2>1, <2>2, <3>1 DEF Left
    <3>2. CASE n # node
      <4>1. n \in remain_nodes => Held(n) \in Nat
        BY HeldType
      <4> QED BY <1>3, <2>1, <3>2, <4>1 DEF Left
    <3> QED BY <3>1, <3>2
  <2>7. ASSUME NEW n \in Node PROVE NodeRelieved(n)'
    <3>1. MovedFrom(n) + Left(n) = Surplus(n)
      BY <1>4, <2>1 DEF NodeRelieved
    <3>2. MovedFrom(n) \in Nat /\ Left(n) \in Int
      <4>1. MovedFrom(n) \in Nat /\ Held(n) \in Nat
        BY HeldType
      <4> QED BY <1>5, <4>1 DEF Left
    <3>3. MovedFrom(n)' + Left(n)' = MovedFrom(n) + Left(n)
      BY <2>5, <2>6, <3>2
    <3> QED BY <1>3, <3>1, <3>3 DEF NodeRelieved
  <2>8. \A n \in remain_nodes' : host_blocks_num'[n] = Held(n)'
    BY <1>3, <1>4, <1>5, <2>1, <2>2, <2>3 DEF TypeOK
  <2> QED BY <1>1, <2>7, <2>8 DEF Relieved
<1>9. CASE NoNodeLeft
  <2>1. /\ j > 0 /\ available_nodes = <<>> /\ j' = 0
        /\ UNCHANGED <<host_blocks_num, available_nodes, blocks_to_sent,
                       remain_nodes, node>>
    BY <1>9 DEF NoNodeLeft
  <2>2. Shortage > 0
    BY <1>2, <2>1, RunOut
  <2>3. \A n : MovedFrom(n)' = MovedFrom(n)
    BY <2>1, MovedFromIs, MovedFromNext
  <2>4. ASSUME NEW n \in Node PROVE NodeRelieved(n)'
    <3>1. /\ MovedFrom(n) \in Nat /\ Held(n) \in Nat /\ Surplus(n) \in Nat
          /\ Held(n) - 1 \in Int
      BY HeldType
    <3>2. Left(n)' <= Left(n) /\ Left(n) \in Int /\ Left(n)' \in Int
      BY <1>3, <1>5, <2>1, <3>1 DEF Left
    <3>3. MovedFrom(n) + Left(n) <= Surplus(n)
      <4>1. CASE MovedFrom(n) + Left(n) = Surplus(n)
        BY <3>1, <4>1
      <4>2. CASE MovedFrom(n) + Left(n) <= Surplus(n)
        BY <4>2
      <4> QED BY <1>4, <4>1, <4>2 DEF NodeRelieved
    <3>4. MovedFrom(n) + Left(n)' <= Surplus(n)
      BY <3>1, <3>2, <3>3
    <3> QED BY <1>3, <2>1, <2>2, <2>3, <3>4 DEF NodeRelieved
  <2>5. \A n \in remain_nodes' : host_blocks_num'[n] = Held(n)'
    BY <1>3, <1>4, <2>1
  <2> QED BY <1>1, <2>4, <2>5 DEF Relieved
<1>10. CASE Finish
  <2>1. UNCHANGED <<host_blocks_num, available_nodes, blocks_to_sent,
                    remain_nodes, node, j>>
    BY <1>10 DEF Finish
  <2>2. \A n \in Node : Left(n)' = Left(n)
    BY <1>3, <2>1 DEF Left
  <2> QED BY <1>6, <2>1, <2>2
<1> QED BY <1>7, <1>8, <1>9, <1>10

\* The transfers put every parity chunk where compute_cost has put it.
LEMMA GatheredIs ==
    ASSUME TypeOK, MetSoFar, pc = "done", NEW n \in Node
    PROVE  Gathered(n) = Held(n) /\ Excess(n) = Surplus(n)
<1>1. ASSUME NEW x \in 1..M PROVE ParityNode(x) = DestOf(a, b, x)
  <2>1. MeetIn(blocks_to_sent, x)
    BY Numbers DEF MetSoFar
  <2>2. CASE a.parity[x] = b.parity[x]
    <3>1. SentOf(blocks_to_sent, x) = {}
      BY <2>1, <2>2 DEF MeetIn, Meet
    <3>2. ~(\E s \in Sends : s.coefficient = x)
      BY <3>1 DEF SentOf, Sends
    <3> QED BY <2>2, <3>2 DEF ParityNode, DestOf, ParityDest
  <2>3. CASE a.parity[x] # b.parity[x]
    <3>1. PICK y \in DOMAIN blocks_to_sent :
             /\ SentOf(blocks_to_sent, x) = {y}
             /\ blocks_to_sent[y].target = DestOf(a, b, x)
      BY <2>1, <2>3 DEF MeetIn, Meet
    <3>2. \A s \in Sends : s.coefficient = x <=> s = blocks_to_sent[y]
      BY <3>1 DEF SentOf, Sends
    <3>3. blocks_to_sent[y] \in Sends
      BY <3>1 DEF Sends
    <3>4. (CHOOSE s \in Sends : s.coefficient = x) = blocks_to_sent[y]
      BY <3>2, <3>3
    <3> QED BY <3>1, <3>2, <3>3, <3>4 DEF ParityNode
  <2> QED BY <2>2, <2>3
<1>2. {x \in 1..M : ParityNode(x) = n} = PlacedOn(a, b, M, n)
  BY <1>1 DEF PlacedOn
<1>3. Gathered(n) = Held(n)
  BY <1>2 DEF Gathered, Held, Load
<1> QED BY <1>3 DEF Excess, Surplus

\* A pair without a cost has each chunk on a node of its own.
LEMMA SkippedAlone ==
    ASSUME TypeOK, Skipped, NEW n \in Node
    PROVE  MovedFrom(n) = 0 /\ Excess(n) = 0
<1>1. M \in 0..M /\ a \in Placement /\ b \in Placement /\ Price \in Nat
  BY Numbers
<1>2. MovedFrom(n) = 0
  <2>1. MovesIn(blocks_to_sent, n) = {}
    BY DEF MovesIn, Skipped
  <2> QED BY <2>1, MovedFromIs, FS_EmptySet
<1>3. ASSUME NEW x \in 1..M PROVE ParityNode(x) = DestOf(a, b, x)
  <2>1. a.parity[x] = b.parity[x]
    BY NothingMisaligned
  <2>2. Sends = {}
    BY DEF Sends, Skipped
  <2> QED BY <2>1, <2>2 DEF ParityNode, DestOf, ParityDest
<1>4. {x \in 1..M : ParityNode(x) = n} = PlacedOn(a, b, M, n)
  BY <1>3 DEF PlacedOn
<1>5. Gathered(n) = Load(a, b, M)[n]
  BY <1>4 DEF Gathered, Load
<1>6. Priced(a, b, M)
  BY <1>1, PricedAlways
<1>7. Over(Load(a, b, M)) = {} /\ Load(a, b, M) \in [Node -> Nat]
  <2> DEFINE O == Over(Load(a, b, M))
             mis == Cardinality(Misaligned(a, b, M))
  <2>1. IsFiniteSet(O) /\ 0 = Cardinality(O) + mis /\ Load(a, b, M) \in [Node -> Nat]
    BY <1>6 DEF Priced, Skipped, Price, ComputeCost
  <2> M \in Nat
    BY Numbers
  <2>2. mis \in 0..M
    BY <1>1, MisalignedFacts
  <2>3. Cardinality(O) \in Nat
    BY <2>1, FS_CardinalityType
  <2> HIDE DEF O, mis
  <2>4. Cardinality(O) = 0
    BY <1>1, <2>1, <2>2, <2>3
  <2>5. O = {}
    BY <2>1, <2>4, FS_EmptySet
  <2> QED BY <2>1, <2>5 DEF O
<1>8. ~(Gathered(n) > 1)
  <2> SUFFICES ASSUME Gathered(n) > 1 PROVE FALSE
    OBVIOUS
  <2>1. Gathered(n) \in Nat /\ 2 <= Gathered(n)
    BY <1>5, <1>7
  <2>2. <<n, Gathered(n)>> \in Over(Load(a, b, M))
    BY <1>5, <2>1 DEF Over
  <2> QED BY <1>7, <2>2
<1> QED BY <1>2, <1>8 DEF Excess

\* A crowded node gives away all its chunks but one, or the cluster is too small
\* and its free nodes have run out; no node gives away its last chunk.
THEOREM CrowdedNodesRelievedHolds == Spec => []CrowdedNodesRelieved
<1> DEFINE Done == Skipped \/ (MetSoFar /\ Relieved)
<1>1. TypeOK /\ Init => Done
  <2> SUFFICES ASSUME TypeOK, Init, ~(Price = 0) PROVE MetSoFar /\ Relieved
    BY DEF Init, Skipped, Price
  <2>1. blocks_to_sent = <<>> /\ i = 1 /\ pc = "parity"
    BY Numbers DEF Init, Price
  <2>2. \A x \in 1..M : ~(x < 1)
    OBVIOUS
  <2>3. MetSoFar
    BY <2>1, <2>2 DEF MetSoFar, SentOf
  <2>4. \A n : MovesIn(blocks_to_sent, n) = {}
    BY <2>1 DEF MovesIn
  <2>5. \A n : MovedFrom(n) = 0
    BY <2>4, MovedFromIs, FS_EmptySet
  <2> QED BY <2>1, <2>3, <2>5 DEF Relieved
<1>2. TypeOK /\ RelievedApart /\ Counted /\ Done /\ [Next]_vars => Done'
  <2> SUFFICES ASSUME TypeOK, RelievedApart, Counted, Done, [Next]_vars
               PROVE  Done'
    OBVIOUS
  <2>1. CASE Skipped
    <3>1. Skipped'
      BY <2>1 DEF Skipped, Price, Next, vars, AlignedParity, ParityToA, ParityToB,
             Scan, NextNode, Move, NoNodeLeft, Finish
    <3> QED BY <3>1
  <2>2. CASE MetSoFar /\ Relieved
    <3>1. MetSoFar'
      BY <2>2, MetStep
    <3>2. CASE UNCHANGED vars
      <4>1. \A n : MovedFrom(n)' = MovedFrom(n)
        BY <3>2, MovedFromIs, MovedFromNext DEF vars
      <4>2. \A n : NodeRelieved(n)' = NodeRelieved(n)
        BY <3>2, <4>1 DEF vars, NodeRelieved, Left, Surplus, Held, Shortage
      <4>3. Relieved'
        BY <2>2, <3>2, <4>1, <4>2 DEF vars, Relieved, Held
      <4> QED BY <3>1, <4>3
    <3>3. CASE AlignedParity \/ ParityToA \/ ParityToB
      BY <2>2, <3>1, <3>3, RelievedParity
    <3>4. CASE Scan
      BY <2>2, <3>1, <3>4, RelievedScan
    <3>5. CASE NextNode \/ Move \/ NoNodeLeft \/ Finish
      BY <2>2, <3>1, <3>5, RelievedMoves
    <3> QED BY <3>2, <3>3, <3>4, <3>5 DEF Next
  <2> QED BY <2>1, <2>2
<1>3. TypeOK /\ Counted /\ Done => CrowdedNodesRelieved
  <2> SUFFICES ASSUME TypeOK, Counted, Done, pc = "done", NEW n \in Node
               PROVE  /\ MovedFrom(n) <= Excess(n)
                      /\ MovedFrom(n) < Excess(n)
                            => Shortage > 0 /\ available_nodes = <<>>
    BY DEF CrowdedNodesRelieved
  <2>1. CASE Skipped
    BY <2>1, SkippedAlone
  <2>2. CASE MetSoFar /\ Relieved /\ ~Skipped
    <3>1. Excess(n) = Surplus(n)
      BY <2>2, GatheredIs
    <3>2. Left(n) = 0
      <4>1. j = 0 /\ remain_nodes = {}
        BY <2>2 DEF Counted, Placing, Relieving
      <4> QED BY <4>1 DEF Left
    <3>3. MovedFrom(n) \in Nat /\ Surplus(n) \in Nat
      BY HeldType
    <3>4. NodeRelieved(n)
      BY <2>2 DEF Relieved
    <3>5. \/ MovedFrom(n) = Surplus(n)
          \/ /\ available_nodes = <<>> /\ Shortage > 0
             /\ MovedFrom(n) <= Surplus(n)
      BY <3>2, <3>3, <3>4 DEF NodeRelieved
    <3> HIDE DEF Surplus
    <3> QED BY <3>1, <3>3, <3>5
  <2> QED BY <2>1, <2>2
<1>4. Init /\ TypeOK => Counted
  BY CountedInit
<1>5. TypeOK /\ RelievedApart /\ Counted /\ [Next]_vars => Counted'
  BY CountedStep
<1> QED BY <1>1, <1>2, <1>3, <1>4, <1>5, TypeCorrect, PTL DEF Spec
=============================================================================
