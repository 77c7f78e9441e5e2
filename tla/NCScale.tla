------------------------------- MODULE NCScale -------------------------------
(***************************************************************************)
(* src/ncscale_simulation.cc: the transfers of NCScale, the scheme that    *)
(* StripeMerge is compared with.  rs_n old nodes send data chunks to rs_k  *)
(* new nodes, and parity deltas to each other; two round robins give every *)
(* node the same load.                                                     *)
(***************************************************************************)
EXTENDS Integers, Sequences, FiniteSets

CONSTANT Batches    \* <<k, m, ratio>>: codes, and batches of stripes to scale

ASSUME BatchesAssumption ==
    Batches \subseteq (Nat \ {0}) \X (Nat \ {0}) \X (Nat \ {0})

VARIABLES
    rs_k, rs_m, ratio,
    pc,
    i, j, k,        \* transfers generated in this phase; sender, receiver
    old_mig_send, new_mig_recv, old_delta_send, old_delta_recv,
    send_empty_count, recv_empty_count,
    scheme

code_vars == <<rs_k, rs_m, ratio>>
mig_vars == <<old_mig_send, new_mig_recv>>
delta_vars == <<old_delta_send, old_delta_recv, send_empty_count,
                recv_empty_count>>
vars == <<code_vars, pc, i, j, k, mig_vars, delta_vars, scheme>>

\* The constructor's numbers; the first is scaling_num / rs_n, exactly.
rs_n == rs_k + rs_m
single_scaling_num == rs_k * (2 * rs_k + rs_m)
scaling_num == single_scaling_num * rs_n
old_migration_num == rs_k * single_scaling_num
\* Fault: a delta for the first parity too.
old_delta_all == rs_m * single_scaling_num
old_delta_num == (rs_m - 1) * single_scaling_num
new_recv_num == single_scaling_num * rs_n
get_total_costs == scaling_num * (rs_n - 1)

Old == 0..(rs_n - 1)
New == 0..(rs_k - 1)

Init ==
    /\ \E b \in Batches : rs_k = b[1] /\ rs_m = b[2] /\ ratio = b[3]
    /\ pc = "migrate"
    /\ i = 0 /\ j = 0 /\ k = 0
    /\ old_mig_send = [x \in Old |-> ratio * old_migration_num]
    /\ new_mig_recv = [x \in New |-> ratio * new_recv_num]
    /\ old_delta_send = [x \in Old |-> ratio * old_delta_num]
    /\ old_delta_recv = [x \in Old |-> ratio * old_delta_num]
    /\ send_empty_count = 0 /\ recv_empty_count = 0
    /\ scheme = <<>>

\* The inner loops: from node x on, around, to one with load left.
Loaded(load, x, n) ==
    LET away == {d \in 0..(n - 1) : load[(x + d) % n] > 0}
    IN  (x + CHOOSE d \in away : \A e \in away : d <= e) % n

Emit(s, t, c) ==
    scheme' = Append(scheme, [source |-> s, target |-> t, coefficient |-> c])

-----------------------------------------------------------------------------

\* Fault: the receiver is not moved on.
MigrateStay ==
    /\ pc = "migrate" /\ i < rs_n * ratio * old_migration_num
    /\ LET s == Loaded(old_mig_send, j, rs_n)
           r == Loaded(new_mig_recv, k, rs_k)
       IN  /\ Emit(s + 1, r + rs_n + 1, 0)
           /\ old_mig_send' = [old_mig_send EXCEPT ![s] = @ - 1]
           /\ j' = (s + 1) % rs_n
           /\ k' = r
    /\ i' = i + 1
    /\ UNCHANGED <<code_vars, pc, new_mig_recv, delta_vars>>

\* A data chunk from an old node to a new one.
Migrate ==
    /\ pc = "migrate" /\ i < rs_n * ratio * old_migration_num
    /\ LET s == Loaded(old_mig_send, j, rs_n)
           r == Loaded(new_mig_recv, k, rs_k)
       IN  /\ Emit(s + 1, r + rs_n + 1, 0)
           /\ old_mig_send' = [old_mig_send EXCEPT ![s] = @ - 1]
           /\ new_mig_recv' = [new_mig_recv EXCEPT ![r] = @ - 1]
           /\ j' = (s + 1) % rs_n
           /\ k' = (r + 1) % rs_k
    /\ i' = i + 1
    /\ UNCHANGED <<code_vars, pc, delta_vars>>

\* The delta round starts with the receiver one node ahead of the sender.
Migrated ==
    /\ pc = "migrate" /\ i >= rs_n * ratio * old_migration_num
    /\ pc' = "delta"
    /\ i' = 0 /\ j' = 0 /\ k' = 1
    /\ UNCHANGED <<code_vars, mig_vars, delta_vars, scheme>>

\* Fault: the round robins are not kept apart, and the receiver's stays.
DeltaStay ==
    /\ pc = "delta" /\ i < rs_n * ratio * old_delta_num
    /\ LET s == Loaded(old_delta_send, j, rs_n)
           r == Loaded(old_delta_recv, k, rs_n)
       IN  /\ Emit(s + 1, r + 1, 1)
           /\ old_delta_send' = [old_delta_send EXCEPT ![s] = @ - 1]
           /\ old_delta_recv' = [old_delta_recv EXCEPT ![r] = @ - 1]
           /\ j' = (s + 1) % rs_n
           /\ k' = r
    /\ i' = i + 1
    /\ UNCHANGED <<code_vars, pc, mig_vars, send_empty_count, recv_empty_count>>

\* A parity delta from one old node to another.  Should both round robins be
\* at the same node, one of them moves on, unless no other node has load left;
\* then the loop is left with a bad pair.
Delta ==
    /\ pc = "delta" /\ i < rs_n * ratio * old_delta_num
    /\ LET s == Loaded(old_delta_send, j, rs_n)
           r == Loaded(old_delta_recv, k, rs_n)
       IN  IF s = r
           THEN /\ IF send_empty_count < rs_n - 1
                   THEN j' = (s + 1) % rs_n /\ k' = r /\ UNCHANGED pc
                   ELSE IF recv_empty_count < rs_n - 1
                   THEN j' = s /\ k' = (r + 1) % rs_n /\ UNCHANGED pc
                   ELSE j' = s /\ k' = r /\ pc' = "bad pair"
                /\ UNCHANGED <<i, delta_vars, scheme>>
           ELSE /\ Emit(s + 1, r + 1, 1)
                /\ old_delta_send' = [old_delta_send EXCEPT ![s] = @ - 1]
                /\ old_delta_recv' = [old_delta_recv EXCEPT ![r] = @ - 1]
                /\ send_empty_count' = send_empty_count
                      + (IF old_delta_send[s] = 1 THEN 1 ELSE 0)
                /\ recv_empty_count' = recv_empty_count
                      + (IF old_delta_recv[r] = 1 THEN 1 ELSE 0)
                /\ j' = (s + 1) % rs_n
                /\ k' = (r + 1) % rs_n
                /\ i' = i + 1
                /\ UNCHANGED pc
    /\ UNCHANGED <<code_vars, mig_vars>>

Generated ==
    /\ pc = "delta" /\ i >= rs_n * ratio * old_delta_num
    /\ pc' = "done"
    /\ UNCHANGED <<code_vars, i, j, k, mig_vars, delta_vars, scheme>>

Next == Migrate \/ Migrated \/ Delta \/ Generated

Spec == Init /\ [][Next]_vars

-----------------------------------------------------------------------------
(* Properties *)

OldNode == 1..rs_n
NewNode == (rs_n + 1)..(rs_n + rs_k)
Count(test(_)) == Cardinality({x \in DOMAIN scheme : test(scheme[x])})

TypeOK ==
    /\ <<rs_k, rs_m, ratio>> \in Batches
    /\ pc \in {"migrate", "delta", "bad pair", "done"}
    /\ i \in Nat /\ j \in Old /\ k \in Old
    /\ old_mig_send \in [Old -> Nat] /\ new_mig_recv \in [New -> Nat]
    /\ old_delta_send \in [Old -> Nat] /\ old_delta_recv \in [Old -> Nat]
    /\ send_empty_count \in 0..rs_n /\ recv_empty_count \in 0..rs_n
    /\ scheme \in Seq([source : OldNode, target : OldNode \cup NewNode,
                       coefficient : {0, 1}])

\* What ncscale_test.cc:25,35 compares: the scheme is as long as the costs that
\* get_total_costs promises for its batches.
SchemeSizeIsTotalCost == pc = "done" => Len(scheme) = ratio * get_total_costs

\* What ncscale_test.cc:38-42 tests, and the servers rely on: no transfer goes
\* from a node to itself.  The round robins never meet, so the bad pairs that
\* get_scheme repairs (ncscale_simulation.cc:100-112) do not occur.
RobinsNeverMeet ==
    /\ \A x \in DOMAIN scheme : scheme[x].source # scheme[x].target
    /\ pc # "bad pair"

\* The load is even: old nodes send the same number of data chunks, new nodes
\* receive the same number, and old nodes send and receive the same number of
\* parity deltas, one for each new stripe and parity but the first.
EvenLoad ==
    pc = "done" =>
        /\ \A n \in OldNode :
              /\ LET sent(t) == t.source = n /\ t.coefficient = 0
                 IN  Count(sent) = ratio * old_migration_num
              /\ LET sent(t) == t.source = n /\ t.coefficient = 1
                 IN  Count(sent) = ratio * old_delta_num
              /\ LET received(t) == t.target = n
                 IN  Count(received) = ratio * old_delta_num
        /\ \A n \in NewNode :
              LET received(t) == t.target = n
              IN  Count(received) = ratio * new_recv_num
=============================================================================
