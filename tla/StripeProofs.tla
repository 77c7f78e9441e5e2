---------------------------- MODULE StripeProofs ----------------------------
(***************************************************************************)
(* What compute_cost computes, for any code and any two placements.        *)
(***************************************************************************)
EXTENDS Stripe, FiniteSetTheorems, WellFoundedInduction, TLAPS

-----------------------------------------------------------------------------
(* Induction, for sets of naturals instead of predicates *)

Less == {p \in Nat \X Nat : p[1] < p[2]}

LEMMA Smallest ==
    ASSUME NEW S \in SUBSET Nat, S # {}
    PROVE  \E n \in S : \A m \in S : n <= m
<1>1. IsWellFoundedOn(Less, Nat)
  BY NatLessThanWellFounded DEF Less, OpToRel
<1>2. PICK n \in S : \A m \in S : ~(<<m, n>> \in Less)
  BY <1>1, WFMin
<1>3. ASSUME NEW m \in S, m < n PROVE FALSE
  <2>1. m \in Nat /\ n \in Nat
    OBVIOUS
  <2>2. <<m, n>> \in Less
    BY <1>3, <2>1 DEF Less
  <2> QED BY <1>2, <2>2
<1> QED BY <1>3

LEMMA Induction ==
    ASSUME NEW n \in Nat, NEW S, 0 \in S,
           \A i \in 0..n : i # n /\ i \in S => i + 1 \in S
    PROVE  0..n \subseteq S
<1> SUFFICES ASSUME (0..n) \ S # {} PROVE FALSE
  OBVIOUS
<1>1. PICK i \in (0..n) \ S : \A j \in (0..n) \ S : i <= j
  <2>1. (0..n) \ S \in SUBSET Nat
    OBVIOUS
  <2> QED BY <2>1, Smallest
<1>2. i # 0 /\ i - 1 \in 0..n /\ i - 1 # n /\ ~(i <= i - 1)
  OBVIOUS
<1>3. i - 1 \in S
  BY <1>1, <1>2
<1>4. (i - 1) + 1 = i
  OBVIOUS
<1> QED BY <1>1, <1>2, <1>3, <1>4

-----------------------------------------------------------------------------
(* compute_cost *)

\* Before the parity chunks, and one parity chunk on.
CostStart(a, b) ==
    [used |-> DataNodes(a, b), cost |-> 2 * K - Cardinality(DataNodes(a, b))]
CostStep(prev, p, q) ==
    [used |-> prev.used \cup {ParityDest(p, q, prev.used)},
     cost |-> prev.cost + (IF p # q THEN 1 ELSE 0)
              + (IF ParityDest(p, q, prev.used) \in prev.used THEN 1 ELSE 0)]

\* acc is what CostUpTo asks for, up to parity chunk n.
CostRun(acc, a, b, n) ==
    acc = [i \in 0..n |-> IF i = 0 THEN CostStart(a, b)
                          ELSE CostStep(acc[i - 1], a.parity[i], b.parity[i])]

\* The recursion defines a function.
LEMMA CostRunExists ==
    ASSUME NEW a, NEW b PROVE \E acc : CostRun(acc, a, b, M)
<1> DEFINE S == {n \in Nat : \E acc : CostRun(acc, a, b, n)}
<1>1. 0 \in S
  <2> DEFINE acc == [i \in 0..0 |-> CostStart(a, b)]
  <2>1. CostRun(acc, a, b, 0)
    BY DEF CostRun
  <2> QED BY <2>1
<1>2. ASSUME NEW n \in Nat, n \in S PROVE n + 1 \in S
  <2>1. PICK acc : CostRun(acc, a, b, n)
    BY <1>2
  <2> DEFINE new == [i \in 0..(n + 1) |->
                        IF i = n + 1
                        THEN CostStep(acc[n], a.parity[n + 1], b.parity[n + 1])
                        ELSE acc[i]]
             run == [i \in 0..(n + 1) |->
                        IF i = 0 THEN CostStart(a, b)
                        ELSE CostStep(new[i - 1], a.parity[i], b.parity[i])]
  <2>2. ASSUME NEW i \in 0..(n + 1) PROVE new[i] = run[i]
    <3>1. CASE i = n + 1
      <4>1. i # 0 /\ i - 1 = n /\ n \in 0..(n + 1) /\ n # n + 1
        BY <3>1
      <4>2. new[n] = acc[n]
        BY <4>1
      <4> QED BY <3>1, <4>1, <4>2
    <3>2. CASE i = 0
      <4>1. i # n + 1 /\ acc[0] = CostStart(a, b)
        BY <2>1, <3>2 DEF CostRun
      <4> QED BY <3>2, <4>1
    <3>3. CASE i # 0 /\ i # n + 1
      <4>1. /\ i \in 0..n /\ i - 1 \in 0..(n + 1) /\ i - 1 # n + 1
        BY <3>3
      <4>2. acc[i] = CostStep(acc[i - 1], a.parity[i], b.parity[i])
        BY <2>1, <3>3, <4>1 DEF CostRun
      <4>3. new[i] = acc[i] /\ new[i - 1] = acc[i - 1]
        BY <3>3, <4>1
      <4> QED BY <3>3, <4>2, <4>3
    <3> QED BY <3>1, <3>2, <3>3
  <2>3. new = run
    BY <2>2
  <2>4. CostRun(new, a, b, n + 1)
    BY <2>3 DEF CostRun
  <2> HIDE DEF new
  <2>5. \E f : CostRun(f, a, b, n + 1)
    BY <2>4
  <2> QED BY <2>5
<1>3. \A i \in 0..M : i # M /\ i \in S => i + 1 \in S
  BY <1>2
<1>4. 0..M \subseteq S
  <2> HIDE DEF S
  <2>1. M \in Nat
    BY StripeAssumption DEF StripeAssumption
  <2> QED BY <1>1, <1>3, <2>1, Induction
<1>5. M \in 0..M
  BY StripeAssumption DEF StripeAssumption
<1> QED BY <1>4, <1>5

LEMMA CostUpToRuns ==
    ASSUME NEW a, NEW b PROVE CostRun(CostUpTo(a, b), a, b, M)
<1>1. CostUpTo(a, b) = CHOOSE acc : CostRun(acc, a, b, M)
  BY DEF CostUpTo, CostRun, CostStart, CostStep
<1> QED BY <1>1, CostRunExists

LEMMA CostSteps ==
    ASSUME NEW a, NEW b
    PROVE  /\ CostUpTo(a, b)[0] = CostStart(a, b)
           /\ \A i \in 1..M : CostUpTo(a, b)[i] =
                 CostStep(CostUpTo(a, b)[i - 1], a.parity[i], b.parity[i])
<1> DEFINE acc == CostUpTo(a, b)
<1>1. CostRun(acc, a, b, M)
  BY CostUpToRuns
<1> HIDE DEF acc
<1>2. 0 \in 0..M /\ \A i \in 1..M : i \in 0..M /\ i # 0
  BY StripeAssumption DEF StripeAssumption
<1> QED BY <1>1, <1>2 DEF CostRun, acc

-----------------------------------------------------------------------------
(* Counting *)

LEMMA IntervalSize ==
    ASSUME NEW n \in Nat PROVE IsFiniteSet(1..n) /\ Cardinality(1..n) = n
<1>1. /\ IsFiniteSet(1..n)
      /\ Cardinality(1..n) = IF 1 > n THEN 0 ELSE n - 1 + 1
  BY FS_Interval
<1> QED BY <1>1

LEMMA NodesFinite == IsFiniteSet(Node) /\ Cardinality(Node) = NodeNum
<1>1. NodeNum \in Nat
  BY StripeAssumption DEF StripeAssumption
<1>2. IsFiniteSet(1..NodeNum) /\ Cardinality(1..NodeNum) = NodeNum
  BY <1>1, IntervalSize
<1> QED BY <1>2 DEF Node

\* Different places, different chunks: as many nodes as chunks.
LEMMA ImageSize ==
    ASSUME NEW n \in Nat, NEW T, NEW f \in [1..n -> T],
           \A i, j \in 1..n : f[i] = f[j] => i = j,
           \A t \in T : \E i \in 1..n : f[i] = t
    PROVE  IsFiniteSet(T) /\ Cardinality(T) = n
<1>1. f \in Bijection(1..n, T)
  BY DEF Bijection, Injection, Surjection, IsInjective
<1>2. ExistsBijection(1..n, T)
  BY <1>1 DEF ExistsBijection
<1>3. IsFiniteSet(1..n) /\ Cardinality(1..n) = n
  BY IntervalSize
<1>4. IsFiniteSet(T) /\ Cardinality(T) = Cardinality(1..n)
  BY <1>2, <1>3, FS_Bijection
<1> QED BY <1>3, <1>4

\* The places among the first i where the parity nodes of two stripes differ.
Misaligned(a, b, i) == {x \in 1..i : a.parity[x] # b.parity[x]}

LEMMA MisalignedFacts ==
    ASSUME NEW a, NEW b
    PROVE  /\ Cardinality(Misaligned(a, b, 0)) = 0
           /\ \A i \in Nat :
                 /\ IsFiniteSet(Misaligned(a, b, i))
                 /\ Cardinality(Misaligned(a, b, i)) \in 0..i
           /\ \A i \in Nat \ {0} :
                 Cardinality(Misaligned(a, b, i)) =
                    Cardinality(Misaligned(a, b, i - 1))
                    + (IF a.parity[i] # b.parity[i] THEN 1 ELSE 0)
<1>1. Misaligned(a, b, 0) = {}
  BY DEF Misaligned
<1>2. ASSUME NEW i \in Nat
      PROVE  /\ IsFiniteSet(Misaligned(a, b, i))
             /\ Cardinality(Misaligned(a, b, i)) \in 0..i
  <2>1. /\ IsFiniteSet(1..i)
        /\ Cardinality(1..i) = IF 1 > i THEN 0 ELSE i - 1 + 1
    BY FS_Interval
  <2>2. Misaligned(a, b, i) \subseteq 1..i
    BY DEF Misaligned
  <2>3. /\ IsFiniteSet(Misaligned(a, b, i))
        /\ Cardinality(Misaligned(a, b, i)) <= Cardinality(1..i)
    BY <2>1, <2>2, FS_Subset
  <2>4. Cardinality(Misaligned(a, b, i)) \in Nat
    BY <2>3, FS_CardinalityType
  <2> QED BY <2>1, <2>3, <2>4
<1>3. ASSUME NEW i \in Nat \ {0}
      PROVE  Cardinality(Misaligned(a, b, i)) =
                Cardinality(Misaligned(a, b, i - 1))
                + (IF a.parity[i] # b.parity[i] THEN 1 ELSE 0)
  <2> DEFINE P == Misaligned(a, b, i - 1)
  <2>1. IsFiniteSet(P) /\ i - 1 \in Nat /\ Cardinality(P) \in Nat
    BY <1>2
  <2>2. CASE a.parity[i] # b.parity[i]
    <3>1. Misaligned(a, b, i) = P \cup {i} /\ i \notin P
      BY <2>2 DEF Misaligned
    <3> HIDE DEF P
    <3>2. Cardinality(P \cup {i}) = Cardinality(P) + 1
      BY <2>1, <3>1, FS_AddElement
    <3> QED BY <2>2, <3>1, <3>2 DEF P
  <2>3. CASE a.parity[i] = b.parity[i]
    <3>1. Misaligned(a, b, i) = P
      BY <2>3 DEF Misaligned
    <3> QED BY <2>1, <2>3, <3>1
  <2> QED BY <2>2, <2>3
<1> QED BY <1>1, <1>2, <1>3, FS_EmptySet

-----------------------------------------------------------------------------
(* What the cost is *)

LEMMA DataSize ==
    ASSUME NEW a \in Placement, NEW b \in Placement
    PROVE  /\ IsFiniteSet(DataNodes(a, b)) /\ DataNodes(a, b) \subseteq Node
           /\ Cardinality(DataNodes(a, b)) \in 0..(2 * K)
<1>1. K \in Nat
  BY StripeAssumption DEF StripeAssumption
<1> DEFINE A == {a.data[i] : i \in 1..K}
           B == {b.data[i] : i \in 1..K}
<1>2. /\ a.data \in [1..K -> Node] /\ b.data \in [1..K -> Node]
      /\ \A i, j \in 1..K : a.data[i] = a.data[j] => i = j
      /\ \A i, j \in 1..K : b.data[i] = b.data[j] => i = j
  BY DEF Placement
<1>3. IsFiniteSet(A) /\ Cardinality(A) = K
  <2> DEFINE f == a.data
  <2>1. /\ f \in [1..K -> A]
        /\ \A i, j \in 1..K : f[i] = f[j] => i = j
        /\ \A t \in A : \E i \in 1..K : f[i] = t
    BY <1>2
  <2> HIDE DEF f, A
  <2> QED BY <1>1, <2>1, ImageSize
<1>4. IsFiniteSet(B) /\ Cardinality(B) = K
  <2> DEFINE f == b.data
  <2>1. /\ f \in [1..K -> B]
        /\ \A i, j \in 1..K : f[i] = f[j] => i = j
        /\ \A t \in B : \E i \in 1..K : f[i] = t
    BY <1>2
  <2> HIDE DEF f, B
  <2> QED BY <1>1, <2>1, ImageSize
<1>5. DataNodes(a, b) = A \cup B /\ A \cup B \subseteq Node
  <2>1. DataNodes(a, b) = A \cup B
    BY DEF DataNodes
  <2>2. a.data \in [1..K -> Node] /\ b.data \in [1..K -> Node]
    BY <1>2
  <2>3. (\A i \in 1..K : a.data[i] \in Node) /\ \A i \in 1..K : b.data[i] \in Node
    BY <2>2
  <2>4. A \subseteq Node /\ B \subseteq Node
    BY ONLY <2>3
  <2> QED BY <2>1, <2>4
<1> HIDE DEF A, B
<1>6. /\ IsFiniteSet(A \cup B)
      /\ Cardinality(A \cup B) = Cardinality(A) + Cardinality(B)
                                 - Cardinality(A \cap B)
  BY <1>3, <1>4, FS_Union
<1>7. IsFiniteSet(A \cap B)
  BY <1>3, FS_Intersection
<1>8. Cardinality(A \cap B) \in Nat /\ Cardinality(A \cup B) \in Nat
  BY <1>6, <1>7, FS_CardinalityType
<1> QED BY <1>1, <1>3, <1>4, <1>5, <1>6, <1>8

\* The nodes of a stripe's data and of its first i parity chunks.
Holds(p, i) == {p.data[x] : x \in 1..K} \cup {p.parity[x] : x \in 1..i}

LEMMA HoldsSize ==
    ASSUME NEW p \in Placement, NEW i \in 0..M
    PROVE  IsFiniteSet(Holds(p, i)) /\ Cardinality(Holds(p, i)) = K + i
<1>1. K \in Nat /\ i \in Nat /\ 1..i \subseteq 1..M
  BY StripeAssumption DEF StripeAssumption
<1> DEFINE A == {p.data[x] : x \in 1..K}
           B == {p.parity[x] : x \in 1..i}
           f == [x \in 1..i |-> p.parity[x]]
<1>2. /\ p.data \in [1..K -> Node] /\ p.parity \in [1..M -> Node]
      /\ \A x, y \in 1..K : p.data[x] = p.data[y] => x = y
      /\ \A x, y \in 1..M : p.parity[x] = p.parity[y] => x = y
      /\ \A x \in 1..K, y \in 1..M : p.data[x] # p.parity[y]
  BY DEF Placement
<1>3. IsFiniteSet(A) /\ Cardinality(A) = K
  <2> DEFINE g == p.data
  <2>1. /\ g \in [1..K -> A]
        /\ \A x, y \in 1..K : g[x] = g[y] => x = y
        /\ \A t \in A : \E x \in 1..K : g[x] = t
    BY <1>2
  <2> HIDE DEF g, A
  <2> QED BY <1>1, <2>1, ImageSize
<1>4. IsFiniteSet(B) /\ Cardinality(B) = i
  <2>1. /\ f \in [1..i -> B]
        /\ \A x, y \in 1..i : f[x] = f[y] => x = y
        /\ \A t \in B : \E x \in 1..i : f[x] = t
    BY <1>1, <1>2
  <2> HIDE DEF f, B
  <2> QED BY <1>1, <2>1, ImageSize
<1>5. A \cap B = {} /\ Holds(p, i) = A \cup B
  BY <1>1, <1>2 DEF Holds
<1> HIDE DEF A, B
<1>6. /\ IsFiniteSet(A \cup B)
      /\ Cardinality(A \cup B) = Cardinality(A) + Cardinality(B)
                                 - Cardinality(A \cap B)
  BY <1>3, <1>4, FS_Union
<1>7. Cardinality(A \cap B) = 0
  BY <1>5, FS_EmptySet
<1> QED BY <1>1, <1>3, <1>4, <1>5, <1>6, <1>7

\* After i parity chunks: every chunk placed so far is on a node of its own or
\* has been paid for, every parity chunk that has to be sent has been paid for,
\* and the nodes in use are nodes of the two stripes, all of the first one's.
Accounted(a, b, i) ==
    LET r == CostUpTo(a, b)[i] IN
    /\ r.used \subseteq Node /\ r.cost \in Nat
    /\ r.used \subseteq Holds(a, M) \cup Holds(b, M)
    /\ r.cost + Cardinality(r.used)
          = 2 * K + i + Cardinality(Misaligned(a, b, i))
    /\ r.cost >= Cardinality(Misaligned(a, b, i))
    /\ DataNodes(a, b) \subseteq r.used
    /\ Holds(a, i) \subseteq r.used

LEMMA AccountedStart ==
    ASSUME NEW a \in Placement, NEW b \in Placement PROVE Accounted(a, b, 0)
<1> DEFINE r == CostUpTo(a, b)[0]
           d == DataNodes(a, b)
           mis == Cardinality(Misaligned(a, b, 0))
<1>1. r = CostStart(a, b)
  BY CostSteps
<1>2. r.used = d /\ r.cost = 2 * K - Cardinality(d)
  BY <1>1 DEF CostStart
<1>3. d \subseteq Node /\ Cardinality(d) \in 0..(2 * K)
  BY DataSize
<1>4. mis = 0
  BY MisalignedFacts
<1>5. Holds(a, 0) \subseteq d /\ d \subseteq Holds(a, M) \cup Holds(b, M)
  BY DEF Holds, DataNodes
<1>6. K \in Nat
  BY StripeAssumption DEF StripeAssumption
<1> HIDE DEF r, d, mis
<1>7. /\ r.used \subseteq Node /\ r.cost \in Nat
      /\ r.used \subseteq Holds(a, M) \cup Holds(b, M)
      /\ r.cost + Cardinality(r.used) = 2 * K + 0 + mis
      /\ r.cost >= mis
      /\ d \subseteq r.used /\ Holds(a, 0) \subseteq r.used
  BY <1>2, <1>3, <1>4, <1>5, <1>6
<1> QED BY <1>7 DEF Accounted, r, d, mis

LEMMA AccountedStep ==
    ASSUME NEW a \in Placement, NEW b \in Placement,
           NEW n \in 0..M, n # M, Accounted(a, b, n)
    PROVE  Accounted(a, b, n + 1)
<1> DEFINE r == CostUpTo(a, b)[n]
           s == CostUpTo(a, b)[n + 1]
           p == a.parity[n + 1]
           q == b.parity[n + 1]
           dest == ParityDest(p, q, r.used)
           before == Cardinality(Misaligned(a, b, n))
           after == Cardinality(Misaligned(a, b, n + 1))
<1>1. /\ K \in Nat /\ n + 1 \in 1..M /\ n \in Nat /\ n + 1 \in Nat \ {0}
      /\ (n + 1) - 1 = n
  BY StripeAssumption DEF StripeAssumption
<1>2. /\ p \in Node /\ q \in Node
      /\ p \in Holds(a, M) /\ q \in Holds(b, M)
      /\ Holds(a, n + 1) \subseteq Holds(a, n) \cup {p}
  <2>1. /\ p \in Node /\ q \in Node
        /\ p \in Holds(a, M) /\ q \in Holds(b, M)
    BY <1>1 DEF Placement, Holds
  <2>2. \A x \in 1..(n + 1) : x \in 1..n \/ x = n + 1
    BY <1>1
  <2>3. Holds(a, n + 1) \subseteq Holds(a, n) \cup {p}
    BY <2>2 DEF Holds
  <2> QED BY <2>1, <2>3
<1>3. s = CostStep(r, p, q)
  BY <1>1, CostSteps
<1>4. /\ r.used \subseteq Node /\ r.cost \in Nat
      /\ r.used \subseteq Holds(a, M) \cup Holds(b, M)
      /\ r.cost + Cardinality(r.used) = 2 * K + n + before
      /\ r.cost >= before
      /\ DataNodes(a, b) \subseteq r.used
      /\ Holds(a, n) \subseteq r.used
  BY DEF Accounted
<1>5. before \in Nat /\ after = before + (IF p # q THEN 1 ELSE 0)
  <2>1. Cardinality(Misaligned(a, b, n)) \in 0..n
    BY <1>1, MisalignedFacts
  <2>2. Cardinality(Misaligned(a, b, n + 1)) =
           Cardinality(Misaligned(a, b, (n + 1) - 1))
           + (IF a.parity[n + 1] # b.parity[n + 1] THEN 1 ELSE 0)
    BY <1>1, MisalignedFacts
  <2> QED BY <1>1, <2>1, <2>2
<1>6. /\ s.used = r.used \cup {dest}
      /\ s.cost = r.cost + (IF p # q THEN 1 ELSE 0)
                  + (IF dest \in r.used THEN 1 ELSE 0)
      /\ dest \in {p, q} /\ (p = dest \/ p \in r.used)
  BY <1>3 DEF CostStep, ParityDest
<1> HIDE DEF r, s, p, q, dest, before, after
<1>7. IsFiniteSet(r.used) /\ Cardinality(r.used) \in Nat
  BY <1>4, NodesFinite, FS_Subset, FS_CardinalityType
<1>8. Cardinality(s.used) = IF dest \in r.used THEN Cardinality(r.used)
                            ELSE Cardinality(r.used) + 1
  <2> DEFINE u == r.used
  <2>1. IsFiniteSet(u)
    BY <1>7
  <2> HIDE DEF u
  <2>2. Cardinality(u \cup {dest})
           = IF dest \in u THEN Cardinality(u) ELSE Cardinality(u) + 1
    BY <2>1, FS_AddElement
  <2> QED BY <1>6, <2>2 DEF u
<1>9. /\ s.cost \in Nat /\ s.cost >= after
      /\ s.cost + Cardinality(s.used) = 2 * K + (n + 1) + after
  <2> DEFINE u == Cardinality(r.used)
             v == Cardinality(s.used)
             c == r.cost
             d == s.cost
  <2>1. u \in Nat /\ c \in Nat /\ c + u = 2 * K + n + before /\ c >= before
    BY <1>4, <1>7
  <2>2. /\ v = IF dest \in r.used THEN u ELSE u + 1
        /\ d = c + (IF p # q THEN 1 ELSE 0) + (IF dest \in r.used THEN 1 ELSE 0)
    BY <1>6, <1>8
  <2> HIDE DEF u, v, c, d
  <2>3. d \in Nat /\ d >= after /\ d + v = 2 * K + (n + 1) + after
    BY <1>1, <1>5, <2>1, <2>2
  <2> QED BY <2>3 DEF v, d
<1>10. /\ s.used \subseteq Node /\ DataNodes(a, b) \subseteq s.used
       /\ s.used \subseteq Holds(a, M) \cup Holds(b, M)
       /\ Holds(a, n + 1) \subseteq s.used
  BY <1>2, <1>4, <1>6
<1> QED BY <1>9, <1>10 DEF Accounted, s, after

LEMMA CostAccounted ==
    ASSUME NEW a \in Placement, NEW b \in Placement, NEW i \in 0..M
    PROVE  Accounted(a, b, i)
<1> DEFINE S == {n \in Nat : Accounted(a, b, n)}
<1>1. M \in Nat
  BY StripeAssumption DEF StripeAssumption
<1>2. 0 \in S
  BY AccountedStart
<1>3. \A n \in 0..M : n # M /\ n \in S => n + 1 \in S
  BY AccountedStep
<1> HIDE DEF S
<1>4. 0..M \subseteq S
  BY <1>1, <1>2, <1>3, Induction
<1> QED BY <1>4 DEF S

\* compute_cost is at least the number of parity chunks that have to be sent,
\* and at most the number of chunks of a narrow stripe: below UINT8_MAX.
LEMMA CostBounds ==
    ASSUME NEW a \in Placement, NEW b \in Placement
    PROVE  /\ ComputeCost(a, b) \in 0..(K + M)
           /\ Cardinality(Misaligned(a, b, M)) \in 0..ComputeCost(a, b)
<1> DEFINE r == CostUpTo(a, b)[M]
           mis == Cardinality(Misaligned(a, b, M))
<1>0. K \in Nat /\ M \in Nat /\ M \in 0..M
  BY StripeAssumption DEF StripeAssumption
<1>1. /\ r.used \subseteq Node /\ r.cost \in Nat
      /\ r.cost + Cardinality(r.used) = 2 * K + M + mis
      /\ r.cost >= mis
      /\ Holds(a, M) \subseteq r.used
  BY <1>0, CostAccounted DEF Accounted
<1>2. mis \in 0..M
  BY <1>0, MisalignedFacts
<1>3. IsFiniteSet(r.used) /\ Cardinality(r.used) \in Nat
  BY <1>1, NodesFinite, FS_Subset, FS_CardinalityType
<1>4. Cardinality(Holds(a, M)) = K + M
  BY <1>0, HoldsSize
<1>5. Cardinality(Holds(a, M)) <= Cardinality(r.used)
  BY <1>1, <1>3, FS_Subset
<1>6. ComputeCost(a, b) = r.cost
  BY DEF ComputeCost
<1> HIDE DEF r, mis
<1> QED BY <1>0, <1>1, <1>2, <1>3, <1>4, <1>5, <1>6 DEF mis
=============================================================================
