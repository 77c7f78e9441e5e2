---------------------------- MODULE SendingScheme ----------------------------
(***************************************************************************)
(* MatchingGenerator::get_one_scheme: the transfers that merge a matched   *)
(* pair of stripes into one wide stripe.  It is a piece of code of its     *)
(* own, separate from Stripe::compute_cost; the program sorts and matches  *)
(* by the price the one computes and executes the transfers of the other.  *)
(***************************************************************************)
EXTENDS Stripe, Sequences

CONSTANTS FirstStripe,  \* placements considered for the first stripe
          Sizes         \* of the cluster: node_num; NodeNum is the largest

\* Both searches give up on fewer than 2K + M nodes (matching_generator.cc:122,
\* 273); random_match, which the simulation compares them with, does not.
ASSUME SchemeAssumption ==
    /\ FirstStripe \subseteq Placement
    /\ Sizes \subseteq 1..NodeNum

\* One transfer: of data when coefficient is 0, otherwise of parity chunk
\* number coefficient.
Transfer == [source : Node, target : Node, coefficient : 0..M]

VARIABLES
    pc,
    node_num,
    a, b,       \* the stripes; a is the one with the smaller index
    host_blocks_num,
    i,          \* the next parity chunk
    remain_nodes, available_nodes,
    node, j,    \* the crowded node being relieved, chunks it still gives away
    blocks_to_sent

vars == <<pc, node_num, a, b, host_blocks_num, i, remain_nodes, available_nodes, node, j,
          blocks_to_sent>>

DataOn(n, s) == Cardinality({x \in 1..K : s.data[x] = n})

On(p, n) == \A x \in 1..K, y \in 1..M : p.data[x] <= n /\ p.parity[y] <= n

\* get_sending_scheme asks for the transfers of pairs with a cost only.
Init ==
    /\ node_num \in Sizes
    /\ a \in FirstStripe /\ On(a, node_num)
    /\ b \in Placement /\ On(b, node_num)
    /\ pc = IF ComputeCost(a, b) > 0 THEN "parity" ELSE "done"
    /\ host_blocks_num = [n \in Node |-> DataOn(n, a) + DataOn(n, b)]
    /\ i = 1
    /\ remain_nodes = {} /\ available_nodes = <<>>
    /\ node = 0 /\ j = 0
    /\ blocks_to_sent = <<>>

Send(s, t, c) ==
    Append(blocks_to_sent, [source |-> s, target |-> t, coefficient |-> c])

PlaceParity(dest) ==
    /\ host_blocks_num' = [host_blocks_num EXCEPT ![dest] = @ + 1]
    /\ i' = i + 1
    /\ UNCHANGED <<pc, node_num, a, b, remain_nodes, available_nodes, node, j>>

AlignedParity ==
    /\ pc = "parity" /\ i <= M
    /\ a.parity[i] = b.parity[i]
    /\ PlaceParity(a.parity[i])
    /\ UNCHANGED blocks_to_sent

\* Fault: a parity chunk that is where it belongs is sent too.
ParityToSelf ==
    /\ pc = "parity" /\ i <= M
    /\ host_blocks_num[a.parity[i]] = 0
    /\ blocks_to_sent' = Send(b.parity[i], a.parity[i], i)
    /\ PlaceParity(a.parity[i])

ParityToA ==
    /\ pc = "parity" /\ i <= M
    /\ a.parity[i] # b.parity[i]
    /\ host_blocks_num[a.parity[i]] = 0
    /\ blocks_to_sent' = Send(b.parity[i], a.parity[i], i)
    /\ PlaceParity(a.parity[i])

ParityToB ==
    /\ pc = "parity" /\ i <= M
    /\ a.parity[i] # b.parity[i]
    /\ host_blocks_num[a.parity[i]] # 0
    /\ blocks_to_sent' = Send(a.parity[i], b.parity[i], i)
    /\ PlaceParity(b.parity[i])

Crowded == {n \in 1..node_num : host_blocks_num[n] > 1}
Empty == {n \in 1..node_num : host_blocks_num[n] = 0}

\* The free nodes are shuffled: any order of them.
Scan ==
    /\ pc = "parity" /\ i > M
    /\ remain_nodes' = Crowded
    /\ \E order \in [1..Cardinality(Empty) -> Empty] :
          /\ \A x, y \in DOMAIN order : order[x] = order[y] => x = y
          /\ available_nodes' = order
    /\ pc' = "move"
    /\ UNCHANGED <<node_num, a, b, host_blocks_num, i, node, j, blocks_to_sent>>

\* Fault: the node is to give away all its chunks.
NextNodeAll ==
    /\ pc = "move" /\ j = 0 /\ remain_nodes # {}
    /\ \E n \in remain_nodes :
          /\ \A x \in remain_nodes : n <= x
          /\ node' = n
          /\ j' = host_blocks_num[n]
          /\ remain_nodes' = remain_nodes \ {n}
    /\ UNCHANGED <<pc, node_num, a, b, host_blocks_num, i, available_nodes,
                   blocks_to_sent>>

\* The crowded nodes are queued, and relieved, in increasing order.
NextNode ==
    /\ pc = "move" /\ j = 0 /\ remain_nodes # {}
    /\ \E n \in remain_nodes :
          /\ \A x \in remain_nodes : n <= x
          /\ node' = n
          /\ j' = host_blocks_num[n] - 1
          /\ remain_nodes' = remain_nodes \ {n}
    /\ UNCHANGED <<pc, node_num, a, b, host_blocks_num, i, available_nodes,
                   blocks_to_sent>>

\* The target is read at the front of the deque, the entry dropped at its back.
Move ==
    /\ pc = "move" /\ j > 0 /\ available_nodes # <<>>
    /\ LET target == Head(available_nodes) IN
          /\ host_blocks_num' = [host_blocks_num EXCEPT ![target] = @ + 1]
          /\ blocks_to_sent' = Send(node, target, 0)
    /\ available_nodes' =
          SubSeq(available_nodes, 1, Len(available_nodes) - 1)
    /\ j' = j - 1
    /\ UNCHANGED <<pc, node_num, a, b, i, remain_nodes, node>>

\* No node is free any more: the rest of the excess stays.
NoNodeLeft ==
    /\ pc = "move" /\ j > 0 /\ available_nodes = <<>>
    /\ j' = 0
    /\ UNCHANGED <<pc, node_num, a, b, host_blocks_num, i, remain_nodes, available_nodes,
                   node, blocks_to_sent>>

Finish ==
    /\ pc = "move" /\ j = 0 /\ remain_nodes = {}
    /\ pc' = "done"
    /\ UNCHANGED <<node_num, a, b, host_blocks_num, i, remain_nodes, available_nodes,
                   node, j, blocks_to_sent>>

Next ==
    \/ AlignedParity \/ ParityToA \/ ParityToB
    \/ Scan \/ NextNode \/ Move \/ NoNodeLeft \/ Finish

Spec == Init /\ [][Next]_vars

-----------------------------------------------------------------------------
(* Properties *)

Sends == {blocks_to_sent[x] : x \in DOMAIN blocks_to_sent}
Moves(test(_)) ==
    Cardinality({x \in DOMAIN blocks_to_sent :
                    blocks_to_sent[x].coefficient = 0 /\ test(blocks_to_sent[x])})
MovedFrom(n) == LET from(x) == x.source = n IN Moves(from)
MovedTo(n) == LET to(x) == x.target = n IN Moves(to)

\* The node that combines parity chunk x, as the transfers have it.
ParityNode(x) ==
    IF \E s \in Sends : s.coefficient = x
    THEN (CHOOSE s \in Sends : s.coefficient = x).target
    ELSE a.parity[x]

\* Chunks of the wide stripe on node n, before and after the data transfers.
Gathered(n) ==
    DataOn(n, a) + DataOn(n, b) + Cardinality({x \in 1..M : ParityNode(x) = n})
Final(n) == Gathered(n) - MovedFrom(n) + MovedTo(n)

\* Chunks of the wide stripe there is no node of their own for.
Shortage == IF node_num < 2 * K + M THEN 2 * K + M - node_num ELSE 0
Excess(n) == IF Gathered(n) > 1 THEN Gathered(n) - 1 ELSE 0

TypeOK ==
    /\ pc \in {"parity", "move", "done"}
    /\ node_num \in Sizes
    /\ a \in Placement /\ b \in Placement
    /\ host_blocks_num \in [Node -> Nat]
    /\ i \in 1..(M + 1)
    /\ remain_nodes \subseteq Node
    /\ available_nodes \in Seq(Node)
    /\ node \in 0..NodeNum
    /\ j \in Nat
    /\ j > 0 => node \in Node
    /\ blocks_to_sent \in Seq(Transfer)

\* The transfers generated are as many as compute_cost said, but for the chunks
\* that no node is left for: what the matching minimises is what is executed.
SchemeSizeIsCost ==
    pc = "done" => Len(blocks_to_sent) = ComputeCost(a, b) - Shortage

\* A cost indexes level[rs_n + 1] and count[rs_n + 1] in the matching: it is at
\* most the number of chunks of a narrow stripe, whatever the two placements.
CostFitsLevels == ComputeCost(a, b) \in 0..(K + M)

\* No transfer has its source for target.  The servers take such a task for
\* the shutdown signal of its connection and drop what follows it.
NoSelfTransfer == \A s \in Sends : s.source # s.target

\* The two chunks of each parity meet on one node, by one transfer at most.
ParitiesMeet ==
    pc = "done" => \A x \in 1..M :
        LET sx == {y \in DOMAIN blocks_to_sent :
                      blocks_to_sent[y].coefficient = x}
        IN  IF a.parity[x] = b.parity[x] THEN sx = {}
            ELSE /\ Cardinality(sx) = 1
                 /\ \A y \in sx : {blocks_to_sent[y].source,
                                   blocks_to_sent[y].target}
                                     = {a.parity[x], b.parity[x]}

\* A node that gathers more than one chunk gives away all but one of them, or
\* the free nodes have run out; no node gives away its last chunk.
CrowdedNodesRelieved ==
    pc = "done" => \A n \in Node :
        /\ MovedFrom(n) <= Excess(n)
        /\ MovedFrom(n) < Excess(n) => Shortage > 0 /\ available_nodes = <<>>

\* What the cost is for (stripe.cc:36, 50-51: the excess of data chunks and the
\* overflow after the parity blocks are placed): after the transfers no node
\* has more than one chunk of the wide stripe.
OneChunkPerNode ==
    pc = "done" /\ Shortage = 0 => \A n \in Node : Final(n) <= 1
=============================================================================
