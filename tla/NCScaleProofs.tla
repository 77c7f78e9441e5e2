--------------------------- MODULE NCScaleProofs ---------------------------
(***************************************************************************)
(* Theorems about NCScale, for any codes and any numbers of batches.       *)
(***************************************************************************)
EXTENDS NCScale, FiniteSetTheorems, TLAPS

-----------------------------------------------------------------------------
(* Arithmetic *)

LEMMA Wrap ==
    ASSUME NEW n \in Nat \ {0}, NEW r \in 0..(n - 1)
    PROVE  /\ r % n = r
           /\ (r + 1) % n = IF r + 1 = n THEN 0 ELSE r + 1
  OBVIOUS

\* Turns come in whole rounds of n and a rest.
LEMMA RoundsLess ==
    ASSUME NEW n \in Nat \ {0}, NEW p \in Nat, NEW q \in Nat,
           NEW r \in 0..(n - 1), NEW s \in 0..(n - 1), p * n + r <= q * n + s
    PROVE  p <= q
  <1>1. ASSUME q + 1 <= p PROVE (q + 1) * n <= p * n
    BY <1>1
  <1>2. (q + 1) * n = q * n + n /\ q * n \in Nat /\ p * n \in Nat
    OBVIOUS
  <1>. QED
    BY <1>1, <1>2

LEMMA RoundsEqual ==
    ASSUME NEW n \in Nat \ {0}, NEW p \in Nat, NEW q \in Nat,
           NEW r \in 0..(n - 1), NEW s \in 0..(n - 1), p * n + r = q * n + s
    PROVE  p = q /\ r = s
  <1>1. p * n + r <= q * n + s /\ q * n + s <= p * n + r
    BY p * n \in Nat, q * n \in Nat
  <1>2. p <= q /\ q <= p
    BY <1>1, RoundsLess
  <1>. QED
    BY <1>2, p * n \in Nat

LEMMA RoundsLeft ==
    ASSUME NEW n \in Nat \ {0}, NEW per \in Nat, NEW q \in Nat, NEW r \in 0..(n - 1)
    PROVE  /\ q * n + r < n * per => q < per
           /\ q * n + r = n * per => q = per /\ r = 0
  <1>1. n * per = per * n + 0 /\ per * n \in Nat /\ q * n \in Nat /\ 0 \in 0..(n - 1)
    OBVIOUS
  <1>2. ASSUME q * n + r < n * per PROVE q < per
    <2>1. q <= per
      BY <1>1, <1>2, RoundsLess
    <2>. QED
      BY <1>1, <1>2, <2>1
  <1>3. ASSUME q * n + r = n * per PROVE q = per /\ r = 0
    BY <1>1, <1>3, RoundsEqual
  <1>. QED
    BY <1>2, <1>3

\* A round robin stays where it is when that node has load left.
LEMMA LoadedHere ==
    ASSUME NEW n \in Nat \ {0}, NEW x \in 0..(n - 1), NEW load, load[x] > 0
    PROVE  Loaded(load, x, n) = x
  <1>. DEFINE away == {d \in 0..(n - 1) : load[(x + d) % n] > 0}
              least == CHOOSE d \in away : \A e \in away : d <= e
  <1>0. x + 0 = x /\ (x + 0) % n = x
    <2>1. x % n = x
      BY Wrap
    <2>2. x + 0 = x
      OBVIOUS
    <2>. QED
      BY <2>1, <2>2
  <1>1. 0 \in away /\ \A e \in away : 0 <= e
    BY <1>0
  <1>2. least \in away /\ \A e \in away : least <= e
    BY <1>1
  <1>3. least = 0
    BY <1>1, <1>2
  <1>4. Loaded(load, x, n) = (x + least) % n
    BY DEF Loaded
  <1>. QED
    BY <1>0, <1>3, <1>4

-----------------------------------------------------------------------------
(* Round robins *)

\* A round robin over n nodes with load per each that began at node f, after `done'
\* turns: it is at node `at', and the nodes from f to it have had one turn more than
\* the others.
Robin(load, per, n, f, at, done) ==
    \E q \in Nat, p \in 0..(n - 1) :
        /\ done = q * n + p
        /\ at = IF p + f = n THEN 0 ELSE p + f
        /\ load \in [0..(n - 1) -> Nat]
        /\ \A x \in 0..(n - 1) :
              load[x] = IF f <= x /\ x < p + f THEN per - q - 1 ELSE per - q

LEMMA RobinStart ==
    ASSUME NEW n \in Nat \ {0}, NEW per \in Nat, NEW f \in {0, 1}, f < n,
           NEW load, load = [x \in 0..(n - 1) |-> per]
    PROVE  Robin(load, per, n, f, f, 0)
  <1>1. /\ 0 \in 0..(n - 1) /\ 0 = 0 * n + 0
        /\ f = IF 0 + f = n THEN 0 ELSE 0 + f
    OBVIOUS
  <1>2. \A x \in 0..(n - 1) :
           load[x] = IF f <= x /\ x < 0 + f THEN per - 0 - 1 ELSE per - 0
    OBVIOUS
  <1>3. load \in [0..(n - 1) -> Nat]
    OBVIOUS
  <1>. QED
    BY <1>1, <1>2, <1>3 DEF Robin

LEMMA RobinStep ==
    ASSUME NEW n \in Nat \ {0}, NEW per \in Nat, NEW f \in {0, 1},
           NEW done \in Nat, done < n * per,
           NEW at, NEW load, Robin(load, per, n, f, at, done)
    PROVE  /\ at \in 0..(n - 1) /\ load[at] \in Nat \ {0}
           /\ Loaded(load, at, n) = at
           /\ Robin([load EXCEPT ![at] = @ - 1], per, n, f, (at + 1) % n, done + 1)
  <1>1. PICK q \in Nat, p \in 0..(n - 1) :
            /\ done = q * n + p
            /\ at = IF p + f = n THEN 0 ELSE p + f
            /\ load \in [0..(n - 1) -> Nat]
            /\ \A x \in 0..(n - 1) :
                  load[x] = IF f <= x /\ x < p + f THEN per - q - 1 ELSE per - q
    BY DEF Robin
  <1>2. q < per
    BY <1>1, RoundsLeft
  <1>3. at \in 0..(n - 1) /\ load[at] = per - q /\ load[at] \in Nat \ {0}
    BY <1>1, <1>2
  <1>4. Loaded(load, at, n) = at
    BY <1>3, LoadedHere
  <1>5. DEFINE new == [load EXCEPT ![at] = @ - 1]
  <1>6. /\ new \in [0..(n - 1) -> Nat]
        /\ \A x \in 0..(n - 1) : new[x] = IF x = at THEN load[x] - 1 ELSE load[x]
    BY <1>1, <1>3
  <1>. HIDE DEF new
  <1>7. CASE p + 1 = n
    <2>1. /\ at = IF f = 1 THEN 0 ELSE p
          /\ (at + 1) % n = IF 0 + f = n THEN 0 ELSE 0 + f
          /\ 0 \in 0..(n - 1)
      BY <1>1, <1>3, <1>7, Wrap
    <2>2. done + 1 = (q + 1) * n + 0
      <3>1. (q + 1) * n = q * n + n /\ q * n \in Nat
        OBVIOUS
      <3>. QED
        BY <1>1, <1>7, <3>1
    <2>3. \A x \in 0..(n - 1) : f <= x /\ x < p + f <=> x # at
      BY <1>7, <2>1
    <2>4. \A x \in 0..(n - 1) : new[x] = per - (q + 1)
      <3>1. ASSUME NEW x \in 0..(n - 1) PROVE new[x] = per - (q + 1)
        <4>1. CASE x = at
          BY <1>1, <1>2, <1>3, <1>6, <4>1
        <4>2. CASE x # at
          <5>1. load[x] = per - q - 1
            BY <1>1, <2>3, <4>2
          <5>. QED
            BY <1>1, <1>6, <4>2, <5>1
        <4>. QED
          BY <4>1, <4>2
      <3>. QED
        BY <3>1
    <2>5. \A x \in 0..(n - 1) :
             new[x] = IF f <= x /\ x < 0 + f THEN per - (q + 1) - 1 ELSE per - (q + 1)
      BY <2>4
    <2>6. q + 1 \in Nat
      OBVIOUS
    <2>. QED
      BY <1>3, <1>4, <1>6, <2>1, <2>2, <2>5, <2>6 DEF Robin, new
  <1>8. CASE p + 1 # n
    <2>1. /\ at = p + f /\ p + 1 \in 0..(n - 1)
          /\ (at + 1) % n = IF (p + 1) + f = n THEN 0 ELSE (p + 1) + f
      <3>1. (at + 1) % n = IF at + 1 = n THEN 0 ELSE at + 1
        BY <1>3, Wrap
      <3>2. at = p + f
        BY <1>1, <1>8
      <3>. QED
        BY <1>1, <1>8, <3>1, <3>2
    <2>2. done + 1 = q * n + (p + 1)
      <3>1. q * n \in Nat
        OBVIOUS
      <3>. QED
        BY <1>1, <3>1
    <2>3. \A x \in 0..(n - 1) :
             new[x] = IF f <= x /\ x < (p + 1) + f THEN per - q - 1 ELSE per - q
      <3> SUFFICES ASSUME NEW x \in 0..(n - 1)
                   PROVE  new[x] = IF f <= x /\ x < (p + 1) + f
                                   THEN per - q - 1 ELSE per - q
        OBVIOUS
      <3>1. x \in Nat /\ p \in Nat
        OBVIOUS
      <3>2. CASE x = at
        <4>1. new[x] = load[x] - 1 /\ load[x] = per - q
          BY <1>1, <1>6, <2>1, <3>1, <3>2
        <4>2. f <= x /\ x < (p + 1) + f
          BY <2>1, <3>1, <3>2
        <4>. QED
          BY <4>1, <4>2
      <3>3. CASE x # at
        <4>1. new[x] = load[x]
          BY <1>6, <3>3
        <4>2. x < (p + 1) + f <=> x < p + f
          BY <2>1, <3>1, <3>3
        <4>. QED
          BY <1>1, <4>1, <4>2
      <3>. QED
        BY <3>2, <3>3
    <2>. QED
      BY <1>3, <1>4, <1>6, <2>1, <2>2, <2>3 DEF Robin, new
  <1>. QED
    BY <1>7, <1>8

\* After all turns no load is left.
LEMMA RobinEnd ==
    ASSUME NEW n \in Nat \ {0}, NEW per \in Nat, NEW f \in {0, 1},
           NEW at, NEW load, Robin(load, per, n, f, at, n * per)
    PROVE  \A x \in 0..(n - 1) : load[x] = 0
  <1>1. PICK q \in Nat, p \in 0..(n - 1) :
            /\ n * per = q * n + p
            /\ \A x \in 0..(n - 1) :
                  load[x] = IF f <= x /\ x < p + f THEN per - q - 1 ELSE per - q
    BY DEF Robin
  <1>2. q = per /\ p = 0
    BY <1>1, RoundsLeft
  <1>. QED
    BY <1>1, <1>2

\* The robin that began at node 1 is always one node ahead.
LEMMA RobinsApart ==
    ASSUME NEW n \in Nat \ {0, 1}, NEW per, NEW done, NEW a, NEW b, NEW u, NEW v,
           Robin(u, per, n, 0, a, done), Robin(v, per, n, 1, b, done)
    PROVE  a # b
  <1>1. PICK q \in Nat, p \in 0..(n - 1) : /\ done = q * n + p
                                   /\ a = IF p + 0 = n THEN 0 ELSE p + 0
    BY DEF Robin
  <1>2. PICK s \in Nat, r \in 0..(n - 1) : /\ done = s * n + r
                                   /\ b = IF r + 1 = n THEN 0 ELSE r + 1
    BY DEF Robin
  <1>3. p = r
    <2>1. q * n + p = s * n + r
      BY <1>1, <1>2
    <2>. QED
      BY <2>1, RoundsEqual
  <1>. QED
    BY <1>1, <1>2, <1>3

-----------------------------------------------------------------------------
(* The transfers of a node *)

Transfers == [source : Int, target : Int, coefficient : Int]
Sent(q, x, c) == {y \in DOMAIN q : q[y].source = x /\ q[y].coefficient = c}
Received(q, x) == {y \in DOMAIN q : q[y].target = x}

LEMMA OneMore ==
    ASSUME NEW q \in Seq(Transfers), NEW e \in Transfers
    PROVE  /\ Append(q, e) \in Seq(Transfers) /\ Len(Append(q, e)) = Len(q) + 1
           /\ \A x, c : Cardinality(Sent(Append(q, e), x, c)) =
                 Cardinality(Sent(q, x, c))
                     + IF e.source = x /\ e.coefficient = c THEN 1 ELSE 0
           /\ \A x : Cardinality(Received(Append(q, e), x)) =
                 Cardinality(Received(q, x)) + IF e.target = x THEN 1 ELSE 0
           /\ \A x, c : Cardinality(Sent(q, x, c)) \in Nat
           /\ \A x : Cardinality(Received(q, x)) \in Nat
  <1>. DEFINE new == Append(q, e)
              last == Len(q) + 1
  <1>1. /\ new \in Seq(Transfers) /\ Len(new) = last /\ Len(q) \in Nat
        /\ DOMAIN new = 1..last /\ DOMAIN q = 1..Len(q)
        /\ new[last] = e /\ \A y \in 1..Len(q) : new[y] = q[y]
    OBVIOUS
  <1>2. 1..last = (1..Len(q)) \cup {last} /\ last \notin 1..Len(q)
    BY <1>1
  <1>3. IsFiniteSet(1..Len(q))
    BY <1>1, FS_Interval
  <1>. HIDE DEF new, last
  <1>4. ASSUME NEW x, NEW c
        PROVE  /\ Cardinality(Sent(new, x, c)) = Cardinality(Sent(q, x, c))
                      + IF e.source = x /\ e.coefficient = c THEN 1 ELSE 0
               /\ Cardinality(Sent(q, x, c)) \in Nat
    <2>1. IsFiniteSet(Sent(q, x, c)) /\ last \notin Sent(q, x, c)
      BY <1>1, <1>2, <1>3, FS_Subset DEF Sent
    <2>2. Cardinality(Sent(q, x, c)) \in Nat
      BY <2>1, FS_CardinalityType
    <2>3. CASE e.source = x /\ e.coefficient = c
      <3>1. Sent(new, x, c) = Sent(q, x, c) \cup {last}
        BY <1>1, <1>2, <2>3 DEF Sent
      <3>. QED
        <4>1. Cardinality(Sent(q, x, c) \cup {last}) = Cardinality(Sent(q, x, c)) + 1
          BY <2>1, FS_AddElement
        <4>. QED
          BY <2>2, <2>3, <3>1, <4>1
    <2>4. CASE ~(e.source = x /\ e.coefficient = c)
      <3>1. Sent(new, x, c) = Sent(q, x, c)
        BY <1>1, <1>2, <2>4 DEF Sent
      <3>. QED
        BY <2>2, <2>4, <3>1
    <2>. QED
      BY <2>3, <2>4, <2>2
  <1>5. ASSUME NEW x
        PROVE  /\ Cardinality(Received(new, x)) =
                      Cardinality(Received(q, x)) + IF e.target = x THEN 1 ELSE 0
               /\ Cardinality(Received(q, x)) \in Nat
    <2>1. IsFiniteSet(Received(q, x)) /\ last \notin Received(q, x)
      BY <1>1, <1>2, <1>3, FS_Subset DEF Received
    <2>2. Cardinality(Received(q, x)) \in Nat
      BY <2>1, FS_CardinalityType
    <2>3. CASE e.target = x
      <3>1. Received(new, x) = Received(q, x) \cup {last}
        BY <1>1, <1>2, <2>3 DEF Received
      <3>. QED
        BY <2>1, <2>2, <2>3, <3>1, FS_AddElement
    <2>4. CASE e.target # x
      <3>1. Received(new, x) = Received(q, x)
        BY <1>1, <1>2, <2>4 DEF Received
      <3>. QED
        BY <2>2, <2>4, <3>1
    <2>. QED
      BY <2>3, <2>4, <2>2
  <1>. QED
    BY <1>1, <1>4, <1>5 DEF new, last

-----------------------------------------------------------------------------
(* get_scheme *)

\* The loads of each node at the start.
per_migration == ratio * old_migration_num
per_recv == ratio * new_recv_num
per_delta == ratio * old_delta_num

Codes == rs_k \in Nat \ {0} /\ rs_m \in Nat \ {0} /\ ratio \in Nat \ {0}

\* Senders and receivers have the same number of turns, and the costs add up.
LEMMA Totals ==
    ASSUME Codes
    PROVE  /\ rs_n \in Nat \ {0, 1}
           /\ per_migration \in Nat /\ per_recv \in Nat /\ per_delta \in Nat
           /\ rs_n * ratio * old_migration_num = rs_n * per_migration
           /\ rs_n * ratio * old_delta_num = rs_n * per_delta
           /\ rs_n * per_migration = rs_k * per_recv
           /\ rs_n * per_migration + rs_n * per_delta = ratio * get_total_costs
           /\ rs_n * per_migration \in Nat /\ rs_n * per_delta \in Nat
  <1>. DEFINE S == single_scaling_num
              n == rs_n
  <1>1. rs_k \in Nat \ {0} /\ rs_m \in Nat \ {0} /\ ratio \in Nat \ {0}
    BY DEF Codes
  <1>2. S \in Nat /\ n \in Nat \ {0, 1} /\ rs_k + (rs_m - 1) = n - 1 /\ rs_m - 1 \in Nat
    BY <1>1 DEF single_scaling_num, rs_n
  <1>3. /\ per_migration = ratio * (rs_k * S) /\ per_recv = ratio * (S * n)
        /\ per_delta = ratio * ((rs_m - 1) * S)
        /\ get_total_costs = (S * n) * (n - 1)
    BY DEF per_migration, per_recv, per_delta, old_migration_num, new_recv_num,
           old_delta_num, get_total_costs, scaling_num
  <1>4. /\ old_migration_num = rs_k * S /\ old_delta_num = (rs_m - 1) * S
        /\ rs_n = n
    BY DEF old_migration_num, old_delta_num
  <1>. HIDE DEF S, n
  <1>5. /\ ratio * (rs_k * S) \in Nat /\ ratio * (S * n) \in Nat
        /\ ratio * ((rs_m - 1) * S) \in Nat
    BY <1>1, <1>2
  <1>6. /\ n * ratio * (rs_k * S) = n * (ratio * (rs_k * S))
        /\ n * ratio * ((rs_m - 1) * S) = n * (ratio * ((rs_m - 1) * S))
        /\ n * (ratio * (rs_k * S)) = rs_k * (ratio * (S * n))
    BY <1>1, <1>2
  <1>7. n * (ratio * (rs_k * S)) + n * (ratio * ((rs_m - 1) * S))
            = ratio * ((S * n) * (n - 1))
    <2>1. n * (ratio * (rs_k * S)) + n * (ratio * ((rs_m - 1) * S))
              = (ratio * (S * n)) * (rs_k + (rs_m - 1))
      BY <1>1, <1>2
    <2>2. (ratio * (S * n)) * (n - 1) = ratio * ((S * n) * (n - 1))
      BY <1>1, <1>2
    <2>. QED
      BY <1>2, <2>1, <2>2
  <1>8. n * (ratio * (rs_k * S)) \in Nat /\ n * (ratio * ((rs_m - 1) * S)) \in Nat
    BY <1>2, <1>5
  <1>. QED
    BY <1>2, <1>3, <1>4, <1>5, <1>6, <1>7, <1>8

\* Where the generation is: each robin at its turn, every transfer counted by its
\* sender and its receiver.
Generating ==
    /\ Codes
    /\ pc \in {"migrate", "delta", "done"} /\ i \in Nat
    /\ scheme \in Seq(Transfers)
    /\ pc = "migrate" =>
           /\ i <= rs_n * per_migration /\ Len(scheme) = i
           /\ Robin(old_mig_send, per_migration, rs_n, 0, j, i)
           /\ Robin(new_mig_recv, per_recv, rs_k, 0, k, i)
           /\ old_delta_send = [x \in Old |-> per_delta]
           /\ old_delta_recv = [x \in Old |-> per_delta]
    /\ pc = "delta" =>
           /\ i <= rs_n * per_delta /\ Len(scheme) = rs_n * per_migration + i
           /\ Robin(old_delta_send, per_delta, rs_n, 0, j, i)
           /\ Robin(old_delta_recv, per_delta, rs_n, 1, k, i)
    /\ pc # "migrate" =>
           /\ \A x \in Old : old_mig_send[x] = 0
           /\ \A x \in New : new_mig_recv[x] = 0
    /\ pc = "done" =>
           /\ Len(scheme) = rs_n * per_migration + rs_n * per_delta
           /\ \A x \in Old : old_delta_send[x] = 0 /\ old_delta_recv[x] = 0

Counted ==
    /\ \A x \in Old :
           /\ Cardinality(Sent(scheme, x + 1, 0)) = per_migration - old_mig_send[x]
           /\ Cardinality(Sent(scheme, x + 1, 1)) = per_delta - old_delta_send[x]
           /\ Cardinality(Received(scheme, x + 1)) = per_delta - old_delta_recv[x]
    /\ \A x \in New :
           Cardinality(Received(scheme, x + rs_n + 1)) = per_recv - new_mig_recv[x]

Apart == \A x \in DOMAIN scheme : scheme[x].source # scheme[x].target

LEMMA InitGenerating ==
    ASSUME BatchesAssumption, Init PROVE Generating /\ Counted /\ Apart
  <1>1. Codes
    BY DEF Init, Codes, BatchesAssumption
  <1>2. /\ rs_n \in Nat \ {0, 1} /\ rs_k \in Nat \ {0}
        /\ per_migration \in Nat /\ per_recv \in Nat /\ per_delta \in Nat
        /\ rs_n * per_migration \in Nat
    BY <1>1, Totals DEF Codes
  <1>3. /\ pc = "migrate" /\ i = 0 /\ j = 0 /\ k = 0 /\ scheme = <<>>
        /\ old_mig_send = [x \in 0..(rs_n - 1) |-> per_migration]
        /\ new_mig_recv = [x \in 0..(rs_k - 1) |-> per_recv]
        /\ old_delta_send = [x \in Old |-> per_delta]
        /\ old_delta_recv = [x \in Old |-> per_delta]
    BY DEF Init, Old, New, per_migration, per_recv, per_delta
  <1>4. Robin(old_mig_send, per_migration, rs_n, 0, j, i)
    <2>1. Robin(old_mig_send, per_migration, rs_n, 0, 0, 0)
      BY <1>2, <1>3, RobinStart
    <2>. QED
      BY <1>3, <2>1
  <1>5. Robin(new_mig_recv, per_recv, rs_k, 0, k, i)
    <2>1. Robin(new_mig_recv, per_recv, rs_k, 0, 0, 0)
      BY <1>2, <1>3, RobinStart
    <2>. QED
      BY <1>3, <2>1
  <1>6. scheme \in Seq(Transfers) /\ Len(scheme) = 0 /\ DOMAIN scheme = {}
    BY <1>3
  <1>7. Generating
    BY <1>1, <1>2, <1>3, <1>4, <1>5, <1>6 DEF Generating
  <1>8. /\ \A x, c : Sent(scheme, x, c) = {}
        /\ \A x : Received(scheme, x) = {}
        /\ Cardinality({}) = 0
    BY <1>6, FS_EmptySet DEF Sent, Received
  <1>9. Counted
    BY <1>2, <1>3, <1>8 DEF Counted, Old, New
  <1>. QED
    BY <1>6, <1>7, <1>9 DEF Apart

\* The numbers of a code do not change.
LEMMA SameCode ==
    ASSUME UNCHANGED code_vars
    PROVE  /\ rs_n' = rs_n /\ Old' = Old /\ New' = New
           /\ per_migration' = per_migration /\ per_recv' = per_recv
           /\ per_delta' = per_delta
           /\ Codes => Codes'
  BY DEF code_vars, rs_n, Old, New, per_migration, per_recv, per_delta, Codes,
         old_migration_num, new_recv_num, old_delta_num, single_scaling_num

LEMMA MigrateStep ==
    ASSUME Generating, Counted, Apart, Migrate
    PROVE  Generating' /\ Counted' /\ Apart'
  <1>1. /\ pc = "migrate" /\ pc' = pc /\ i < rs_n * per_migration /\ i' = i + 1
        /\ UNCHANGED <<code_vars, old_delta_send, old_delta_recv>>
    BY Totals DEF Generating, Migrate, delta_vars
  <1>2. /\ rs_n \in Nat \ {0, 1} /\ rs_k \in Nat \ {0} /\ i \in Nat
        /\ per_migration \in Nat /\ per_recv \in Nat /\ per_delta \in Nat
    BY Totals DEF Generating, Codes
  <1>3. /\ Robin(old_mig_send, per_migration, rs_n, 0, j, i)
        /\ Robin(new_mig_recv, per_recv, rs_k, 0, k, i)
        /\ Len(scheme) = i /\ scheme \in Seq(Transfers)
    BY <1>1 DEF Generating
  <1>4. /\ j \in 0..(rs_n - 1) /\ old_mig_send[j] \in Nat \ {0}
        /\ Loaded(old_mig_send, j, rs_n) = j
        /\ Robin([old_mig_send EXCEPT ![j] = @ - 1], per_migration, rs_n, 0,
                 (j + 1) % rs_n, i + 1)
    <2>1. /\ rs_n \in Nat \ {0} /\ per_migration \in Nat /\ i \in Nat
          /\ i < rs_n * per_migration
          /\ Robin(old_mig_send, per_migration, rs_n, 0, j, i)
      BY <1>1, <1>2, <1>3
    <2>. QED
      BY <2>1, RobinStep
  <1>0. i < rs_k * per_recv
    <2>1. rs_n * per_migration = rs_k * per_recv
      BY Totals DEF Generating
    <2>. QED
      BY <1>1, <2>1
  <1>5. /\ k \in 0..(rs_k - 1) /\ new_mig_recv[k] \in Nat \ {0}
        /\ Loaded(new_mig_recv, k, rs_k) = k
        /\ Robin([new_mig_recv EXCEPT ![k] = @ - 1], per_recv, rs_k, 0,
                 (k + 1) % rs_k, i + 1)
    <2>1. /\ rs_k \in Nat \ {0} /\ per_recv \in Nat /\ i \in Nat
          /\ i < rs_k * per_recv
          /\ Robin(new_mig_recv, per_recv, rs_k, 0, k, i)
      BY <1>0, <1>2, <1>3
    <2>. QED
      BY <2>1, RobinStep
  <1>. DEFINE e == [source |-> j + 1, target |-> k + rs_n + 1, coefficient |-> 0]
  <1>6. /\ scheme' = Append(scheme, e)
        /\ old_mig_send' = [old_mig_send EXCEPT ![j] = @ - 1]
        /\ new_mig_recv' = [new_mig_recv EXCEPT ![k] = @ - 1]
        /\ j' = (j + 1) % rs_n /\ k' = (k + 1) % rs_k
    BY <1>4, <1>5 DEF Migrate, Emit
  <1>7. e \in Transfers /\ e.source # e.target
    BY <1>2, <1>4, <1>5 DEF Transfers
  <1>8. /\ e.source = j + 1 /\ e.target = k + rs_n + 1 /\ e.coefficient = 0
    OBVIOUS
  <1>. HIDE DEF e
  <1>9. /\ scheme' \in Seq(Transfers) /\ Len(scheme') = i + 1
        /\ \A x, c : Cardinality(Sent(scheme', x, c)) =
              Cardinality(Sent(scheme, x, c))
                  + IF e.source = x /\ e.coefficient = c THEN 1 ELSE 0
        /\ \A x : Cardinality(Received(scheme', x)) =
              Cardinality(Received(scheme, x)) + IF e.target = x THEN 1 ELSE 0
        /\ \A x, c : Cardinality(Sent(scheme, x, c)) \in Nat
        /\ \A x : Cardinality(Received(scheme, x)) \in Nat
    BY <1>3, <1>6, <1>7, OneMore
  <1>10. Generating'
    <2>1. Codes' /\ i' \in Nat /\ i' <= rs_n * per_migration
      <3>1. rs_n * per_migration \in Nat
        BY <1>2
      <3>. QED
        BY <1>1, <1>2, <3>1, SameCode DEF Generating
    <2>2. /\ old_delta_send' = [x \in Old |-> per_delta]
          /\ old_delta_recv' = [x \in Old |-> per_delta]
      BY <1>1 DEF Generating
    <2>3. /\ Robin(old_mig_send', per_migration, rs_n, 0, j', i')
          /\ Robin(new_mig_recv', per_recv, rs_k, 0, k', i')
      BY <1>1, <1>4, <1>5, <1>6
    <2>4. /\ rs_n' = rs_n /\ rs_k' = rs_k /\ Old' = Old
          /\ per_migration' = per_migration /\ per_recv' = per_recv
          /\ per_delta' = per_delta
      BY <1>1, SameCode DEF code_vars
    <2>. QED
      BY <1>1, <1>9, <2>1, <2>2, <2>3, <2>4 DEF Generating
  <1>11. Apart'
    BY <1>3, <1>6, <1>7 DEF Apart
  <1>12. /\ old_mig_send \in [Old -> Nat] /\ new_mig_recv \in [New -> Nat]
    BY <1>3 DEF Robin, Old, New
  <1>13. ASSUME NEW x \in Old
         PROVE  /\ Cardinality(Sent(scheme', x + 1, 0)) = per_migration - old_mig_send'[x]
                /\ Cardinality(Sent(scheme', x + 1, 1)) = per_delta - old_delta_send[x]
                /\ Cardinality(Received(scheme', x + 1)) = per_delta - old_delta_recv[x]
    <2>1. x \in Nat /\ x < rs_n
      BY <1>2 DEF Old
    <2>2. (e.source = x + 1 <=> x = j) /\ e.target # x + 1 /\ e.coefficient # 1
      BY <1>2, <1>4, <1>5, <1>8, <2>1
    <2>3. old_mig_send'[x] = IF x = j THEN old_mig_send[x] - 1 ELSE old_mig_send[x]
      BY <1>6, <1>12
    <2>4. old_mig_send[x] \in Nat
      BY <1>12
    <2>5. /\ Cardinality(Sent(scheme, x + 1, 0)) = per_migration - old_mig_send[x]
          /\ Cardinality(Sent(scheme, x + 1, 1)) = per_delta - old_delta_send[x]
          /\ Cardinality(Received(scheme, x + 1)) = per_delta - old_delta_recv[x]
      BY DEF Counted
    <2>6. Cardinality(Sent(scheme', x + 1, 0)) = per_migration - old_mig_send'[x]
      BY <1>2, <1>8, <1>9, <2>2, <2>3, <2>4, <2>5
    <2>7. Cardinality(Sent(scheme', x + 1, 1)) = Cardinality(Sent(scheme, x + 1, 1))
      BY <1>9, <2>2
    <2>8. Cardinality(Received(scheme', x + 1)) = Cardinality(Received(scheme, x + 1))
      BY <1>9, <2>2
    <2>. QED
      BY <2>5, <2>6, <2>7, <2>8
  <1>14. ASSUME NEW x \in New
         PROVE  Cardinality(Received(scheme', x + rs_n + 1)) = per_recv - new_mig_recv'[x]
    <2>1. x \in Nat /\ (e.target = x + rs_n + 1 <=> x = k)
      BY <1>2, <1>5, <1>8 DEF New
    <2>2. new_mig_recv'[x] = IF x = k THEN new_mig_recv[x] - 1 ELSE new_mig_recv[x]
      BY <1>6, <1>12
    <2>3. new_mig_recv[x] \in Nat
      BY <1>12
    <2>4. Cardinality(Received(scheme, x + rs_n + 1)) = per_recv - new_mig_recv[x]
      BY DEF Counted
    <2>. QED
      BY <1>2, <1>9, <2>1, <2>2, <2>3, <2>4
  <1>15. Counted'
    BY <1>1, <1>13, <1>14, SameCode DEF Counted
  <1>. QED
    BY <1>10, <1>11, <1>15

LEMMA DeltaStep ==
    ASSUME Generating, Counted, Apart, Delta
    PROVE  Generating' /\ Counted' /\ Apart'
  <1>1. /\ pc = "delta" /\ i < rs_n * per_delta
        /\ UNCHANGED <<code_vars, old_mig_send, new_mig_recv>>
    BY Totals DEF Generating, Delta, mig_vars
  <1>2. /\ rs_n \in Nat \ {0, 1} /\ i \in Nat
        /\ per_migration \in Nat /\ per_recv \in Nat /\ per_delta \in Nat
        /\ rs_n * per_migration \in Nat
    BY Totals DEF Generating
  <1>3. /\ Robin(old_delta_send, per_delta, rs_n, 0, j, i)
        /\ Robin(old_delta_recv, per_delta, rs_n, 1, k, i)
        /\ Len(scheme) = rs_n * per_migration + i /\ scheme \in Seq(Transfers)
    BY <1>1 DEF Generating
  <1>4. /\ j \in 0..(rs_n - 1) /\ old_delta_send[j] \in Nat \ {0}
        /\ Loaded(old_delta_send, j, rs_n) = j
        /\ Robin([old_delta_send EXCEPT ![j] = @ - 1], per_delta, rs_n, 0,
                 (j + 1) % rs_n, i + 1)
    BY <1>1, <1>2, <1>3, RobinStep
  <1>5. /\ k \in 0..(rs_n - 1) /\ old_delta_recv[k] \in Nat \ {0}
        /\ Loaded(old_delta_recv, k, rs_n) = k
        /\ Robin([old_delta_recv EXCEPT ![k] = @ - 1], per_delta, rs_n, 1,
                 (k + 1) % rs_n, i + 1)
    BY <1>1, <1>2, <1>3, RobinStep
  <1>6. j # k
    BY <1>2, <1>3, RobinsApart
  <1>. DEFINE e == [source |-> j + 1, target |-> k + 1, coefficient |-> 1]
  <1>7. /\ scheme' = Append(scheme, e)
        /\ old_delta_send' = [old_delta_send EXCEPT ![j] = @ - 1]
        /\ old_delta_recv' = [old_delta_recv EXCEPT ![k] = @ - 1]
        /\ j' = (j + 1) % rs_n /\ k' = (k + 1) % rs_n
        /\ i' = i + 1 /\ pc' = pc
    BY <1>4, <1>5, <1>6 DEF Delta, Emit
  <1>8. /\ e \in Transfers /\ e.source = j + 1 /\ e.target = k + 1
        /\ e.coefficient = 1 /\ e.source # e.target
    BY <1>4, <1>5, <1>6 DEF Transfers
  <1>. HIDE DEF e
  <1>9. /\ scheme' \in Seq(Transfers) /\ Len(scheme') = rs_n * per_migration + (i + 1)
        /\ \A x, c : Cardinality(Sent(scheme', x, c)) =
              Cardinality(Sent(scheme, x, c))
                  + IF e.source = x /\ e.coefficient = c THEN 1 ELSE 0
        /\ \A x : Cardinality(Received(scheme', x)) =
              Cardinality(Received(scheme, x)) + IF e.target = x THEN 1 ELSE 0
        /\ \A x, c : Cardinality(Sent(scheme, x, c)) \in Nat
        /\ \A x : Cardinality(Received(scheme, x)) \in Nat
    BY <1>2, <1>3, <1>7, <1>8, OneMore
  <1>10. Generating'
    <2>1. /\ \A x \in Old : old_mig_send'[x] = 0
          /\ \A x \in New : new_mig_recv'[x] = 0
      BY <1>1 DEF Generating
    <2>2. Codes' /\ i' \in Nat /\ i' <= rs_n * per_delta
      <3>1. rs_n * per_delta \in Nat
        BY <1>2
      <3>. QED
        BY <1>1, <1>2, <1>7, <3>1, SameCode DEF Generating
    <2>. QED
      BY <1>1, <1>4, <1>5, <1>7, <1>9, <2>1, <2>2, SameCode DEF Generating
  <1>11. Apart'
    BY <1>3, <1>7, <1>8 DEF Apart
  <1>12. /\ old_delta_send \in [Old -> Nat] /\ old_delta_recv \in [Old -> Nat]
    BY <1>3 DEF Robin, Old
  <1>13. ASSUME NEW x \in Old
         PROVE  /\ Cardinality(Sent(scheme', x + 1, 0)) = per_migration - old_mig_send[x]
                /\ Cardinality(Sent(scheme', x + 1, 1)) = per_delta - old_delta_send'[x]
                /\ Cardinality(Received(scheme', x + 1)) = per_delta - old_delta_recv'[x]
    <2>1. x \in Nat /\ x < rs_n
      BY <1>2 DEF Old
    <2>2. /\ e.source = x + 1 <=> x = j
          /\ e.target = x + 1 <=> x = k
          /\ e.coefficient # 0
      BY <1>4, <1>5, <1>8, <2>1
    <2>3. /\ old_delta_send'[x] = IF x = j THEN old_delta_send[x] - 1 ELSE old_delta_send[x]
          /\ old_delta_recv'[x] = IF x = k THEN old_delta_recv[x] - 1 ELSE old_delta_recv[x]
      BY <1>7, <1>12
    <2>4. old_delta_send[x] \in Nat /\ old_delta_recv[x] \in Nat
      BY <1>12
    <2>5. /\ Cardinality(Sent(scheme, x + 1, 0)) = per_migration - old_mig_send[x]
          /\ Cardinality(Sent(scheme, x + 1, 1)) = per_delta - old_delta_send[x]
          /\ Cardinality(Received(scheme, x + 1)) = per_delta - old_delta_recv[x]
      BY DEF Counted
    <2>6. Cardinality(Sent(scheme', x + 1, 0)) = Cardinality(Sent(scheme, x + 1, 0))
      BY <1>9, <2>2
    <2>7. Cardinality(Sent(scheme', x + 1, 1)) = per_delta - old_delta_send'[x]
      BY <1>2, <1>8, <1>9, <2>2, <2>3, <2>4, <2>5
    <2>8. Cardinality(Received(scheme', x + 1)) = per_delta - old_delta_recv'[x]
      BY <1>2, <1>9, <2>2, <2>3, <2>4, <2>5
    <2>. QED
      BY <2>5, <2>6, <2>7, <2>8
  <1>14. ASSUME NEW x \in New
         PROVE  Cardinality(Received(scheme', x + rs_n + 1)) = per_recv - new_mig_recv[x]
    <2>1. e.target # x + rs_n + 1
      BY <1>2, <1>5, <1>8 DEF New
    <2>2. Cardinality(Received(scheme', x + rs_n + 1))
              = Cardinality(Received(scheme, x + rs_n + 1))
      BY <1>9, <2>1
    <2>. QED
      BY <2>2 DEF Counted
  <1>15. Counted'
    BY <1>1, <1>13, <1>14, SameCode DEF Counted
  <1>. QED
    BY <1>10, <1>11, <1>15

LEMMA PhaseStep ==
    ASSUME Generating, Counted, Apart, Migrated \/ Generated
    PROVE  Generating' /\ Counted' /\ Apart'
  <1>0. /\ rs_n * ratio * old_migration_num = rs_n * per_migration
        /\ rs_n * ratio * old_delta_num = rs_n * per_delta
    <2>1. Codes
      BY DEF Generating
    <2>. QED
      BY <2>1, Totals
  <1>1. /\ rs_n \in Nat \ {0, 1} /\ rs_k \in Nat \ {0} /\ i \in Nat
        /\ per_migration \in Nat /\ per_recv \in Nat /\ per_delta \in Nat
        /\ rs_n * per_migration = rs_k * per_recv
        /\ rs_n * per_migration \in Nat /\ rs_n * per_delta \in Nat
    BY Totals DEF Generating, Codes
  <1>2. UNCHANGED <<code_vars, old_mig_send, new_mig_recv, old_delta_send,
                    old_delta_recv, scheme>>
    BY DEF Migrated, Generated, mig_vars, delta_vars
  <1>3. Counted' /\ Apart'
    BY <1>2, SameCode DEF Counted, Apart
  <1>4. CASE Migrated
    <2>1. pc = "migrate" /\ pc' = "delta" /\ i' = 0 /\ j' = 0 /\ k' = 1
          /\ i = rs_n * per_migration
      <3>. DEFINE all == rs_n * per_migration
                  limit == rs_n * ratio * old_migration_num
      <3>1. limit = all /\ all \in Nat /\ i \in Nat
        BY <1>0, <1>1
      <3>2. /\ pc = "migrate" /\ pc' = "delta" /\ i' = 0 /\ j' = 0 /\ k' = 1
            /\ i >= limit
        BY <1>4 DEF Migrated
      <3>3. i <= all
        BY <3>2 DEF Generating
      <3>. HIDE DEF all, limit
      <3>4. i = all
        BY <3>1, <3>2, <3>3
      <3>. QED
        BY <3>2, <3>4 DEF all
    <2>2. \A x \in Old : old_mig_send[x] = 0
      BY <1>1, <2>1, RobinEnd DEF Generating, Old
    <2>3. \A x \in New : new_mig_recv[x] = 0
      BY <1>1, <2>1, RobinEnd DEF Generating, New
    <2>4. /\ Robin(old_delta_send, per_delta, rs_n, 0, 0, 0)
          /\ Robin(old_delta_recv, per_delta, rs_n, 1, 1, 0)
      <3>1. /\ old_delta_send = [x \in 0..(rs_n - 1) |-> per_delta]
            /\ old_delta_recv = [x \in 0..(rs_n - 1) |-> per_delta]
        BY <2>1 DEF Generating, Old
      <3>. QED
        BY <1>1, <3>1, RobinStart
    <2>. QED
      BY <1>1, <1>2, <1>3, <2>1, <2>2, <2>3, <2>4, SameCode DEF Generating
  <1>5. CASE Generated
    <2>1. pc = "delta" /\ pc' = "done" /\ i' = i /\ i = rs_n * per_delta
      <3>. DEFINE all == rs_n * per_delta
                  limit == rs_n * ratio * old_delta_num
      <3>1. limit = all /\ all \in Nat /\ i \in Nat
        BY <1>0, <1>1
      <3>2. pc = "delta" /\ pc' = "done" /\ i' = i /\ i >= limit
        BY <1>5 DEF Generated
      <3>3. i <= all
        BY <3>2 DEF Generating
      <3>. HIDE DEF all, limit
      <3>4. i = all
        BY <3>1, <3>2, <3>3
      <3>. QED
        BY <3>2, <3>4 DEF all
    <2>2. \A x \in Old : old_delta_send[x] = 0 /\ old_delta_recv[x] = 0
      BY <1>1, <2>1, RobinEnd DEF Generating, Old
    <2>. QED
      BY <1>1, <1>2, <1>3, <2>1, <2>2, SameCode DEF Generating
  <1>. QED
    BY <1>4, <1>5

LEMMA SchemeInvariant == Spec => [](Generating /\ Counted /\ Apart)
  <1>1. Init => Generating /\ Counted /\ Apart
    BY BatchesAssumption, InitGenerating
  <1>2. Generating /\ Counted /\ Apart /\ [Next]_vars
            => Generating' /\ Counted' /\ Apart'
    <2>1. ASSUME Generating, Counted, Apart, UNCHANGED vars
          PROVE  Generating' /\ Counted' /\ Apart'
      <3>1. UNCHANGED <<code_vars, pc, i, j, k, old_mig_send, new_mig_recv,
                         old_delta_send, old_delta_recv, scheme>>
        BY <2>1 DEF vars, mig_vars, delta_vars
      <3>2. Generating'
        <4>1. /\ rs_n' = rs_n /\ rs_k' = rs_k /\ Old' = Old /\ New' = New
              /\ per_migration' = per_migration /\ per_recv' = per_recv
              /\ per_delta' = per_delta /\ (Codes => Codes')
          BY <3>1, SameCode DEF code_vars
        <4>. QED
          BY <2>1, <3>1, <4>1 DEF Generating
      <3>3. Counted'
        BY <2>1, <3>1, SameCode DEF Counted
      <3>. QED
        BY <2>1, <3>1, <3>2, <3>3 DEF Apart
    <2>. QED
      BY <2>1, MigrateStep, DeltaStep, PhaseStep DEF Next
  <1>. QED
    BY <1>1, <1>2, PTL DEF Spec

\* The round robins never meet: no transfer has its source for target, and no bad
\* pair is left to repair (NCScale, RobinsNeverMeet).
THEOREM RobinsNeverMeetHolds == Spec => []RobinsNeverMeet
  <1>1. Generating /\ Counted /\ Apart => RobinsNeverMeet
    BY DEF Generating, Apart, RobinsNeverMeet
  <1>. QED
    BY <1>1, SchemeInvariant, PTL

\* The scheme has the length that get_total_costs promises (NCScale,
\* SchemeSizeIsTotalCost).
THEOREM SchemeSizeHolds == Spec => []SchemeSizeIsTotalCost
  <1>1. Generating /\ Counted /\ Apart => SchemeSizeIsTotalCost
    BY Totals DEF Generating, SchemeSizeIsTotalCost
  <1>. QED
    BY <1>1, SchemeInvariant, PTL

\* Every node has its share of the transfers (NCScale, EvenLoad).
THEOREM EvenLoadHolds == Spec => []EvenLoad
  <1>1. ASSUME Generating, Counted, pc = "done" PROVE EvenLoad
    <2>1. /\ rs_n \in Nat \ {0, 1} /\ rs_k \in Nat \ {0}
          /\ per_migration \in Nat /\ per_recv \in Nat /\ per_delta \in Nat
      BY <1>1, Totals DEF Generating, Codes
    <2>2. /\ \A x \in Old : /\ old_mig_send[x] = 0
                          /\ old_delta_send[x] = 0 /\ old_delta_recv[x] = 0
          /\ \A x \in New : new_mig_recv[x] = 0
      BY <1>1 DEF Generating
    <2>3. ASSUME NEW n \in OldNode
          PROVE  /\ Cardinality(Sent(scheme, n, 0)) = per_migration
                 /\ Cardinality(Sent(scheme, n, 1)) = per_delta
                 /\ Cardinality(Received(scheme, n)) = per_delta
      <3>1. n - 1 \in Old /\ (n - 1) + 1 = n
        BY <2>1 DEF OldNode, Old
      <3>2. /\ Cardinality(Sent(scheme, (n - 1) + 1, 0)) = per_migration - 0
            /\ Cardinality(Sent(scheme, (n - 1) + 1, 1)) = per_delta - 0
            /\ Cardinality(Received(scheme, (n - 1) + 1)) = per_delta - 0
        BY <1>1, <2>2, <3>1 DEF Counted
      <3>. QED
        BY <2>1, <3>1, <3>2
    <2>4. ASSUME NEW n \in NewNode
          PROVE  Cardinality(Received(scheme, n)) = per_recv
      <3>1. n - rs_n - 1 \in New /\ (n - rs_n - 1) + rs_n + 1 = n
        BY <2>1 DEF NewNode, New
      <3>2. Cardinality(Received(scheme, (n - rs_n - 1) + rs_n + 1)) = per_recv - 0
        BY <1>1, <2>2, <3>1 DEF Counted
      <3>. QED
        BY <2>1, <3>1, <3>2
    <2>. QED
      BY <2>3, <2>4
         DEF EvenLoad, Count, Sent, Received, per_migration, per_recv, per_delta
  <1>2. Generating /\ Counted /\ Apart => EvenLoad
    BY <1>1 DEF EvenLoad
  <1>. QED
    BY <1>2, SchemeInvariant, PTL
=============================================================================
