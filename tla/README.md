# StripeMerge in TLA+

StripeMerge turns stripes of a (k, m) erasure code into stripes of a (2k, m)
code by merging them two by two. The program in `src/` has two halves:

* **The data plane**: one process per node. A master node generates a
  *scheme*, a list of transfers, and sends each transfer to the node that holds
  the chunk; that node sends the chunk to the target of the transfer; the target
  stores it, after combining it with a chunk of its own if it is a parity chunk.
  Every process is a handful of thread pools joined by queues.
* **The control plane**: sequential algorithms. Two searches choose which
  stripes are merged with which (`MatchingGenerator`), another piece of code
  turns a pair into transfers, and `NCScaleSimulation` generates the transfers
  of the scheme that StripeMerge is compared with.

This directory models both, checks the models with TLC on small instances and
proves the main safety properties with TLAPS for all values of the constants.

Paths below are relative to the repository (`src/tcp_server.cc` is the file of
that name in its `src` directory).

## Inventory

| Component | State | Operations | Interacts with | Hard behaviour |
|---|---|---|---|---|
| `ThreadPool` (`include/thread_pool.hh`) | mutex, condition variable, queue, `seal_flag`, threads | `add_task`, `get_task`, `set_finished`, `start_threads`, `wait_for_finish` | base class of `TCPClient`, `TCPServer`, `ComputeWorker`, `WriteWorker` | unlock before notify, spurious wake-ups, seal against add, several sealers |
| `MemoryPool` (`src/memory_pool.cc`) | mutex, condition variable, free queue, address map | `get_block`, `release_block` | receivers take buffers, writers give them back | exhaustion, lost wake-ups, a buffer given out twice |
| `TCPServer` (`src/tcp_server.cc`) | `serving_flag`, one receiver per connection, queue of the master's tasks | `wait_for_connection`, `start_serving`, `receive_handler`, `run` | peers' clients, `MemoryPool`, both workers, `TCPNode` | connections that break inside a header or a chunk, order of joins and seals |
| `ComputeWorker` (`src/compute_worker.cc`) | its queue, coding tables | `run` | takes from receivers, adds to and seals `WriteWorker` | every thread seals the next stage when it leaves |
| `WriteWorker` (`src/write_worker.cc`) | its queue | `run` | releases buffers to `MemoryPool` | sealed while tasks are on their way |
| `TCPClient` (`src/tcp_client.cc`) | connections, a lock per host, queue | constructor, `start_client`, `run`, `send_shutdown_signal` | servers of all other nodes | framing of header and chunk, start flags, several threads on one connection |
| `TCPNode`, `node_main` (`src/tcp_node.cc`) | role, server, client | `start` | moves the master's tasks from its server to its client | order of start-up over all nodes, termination of all nodes |
| `Stripe` (`src/stripe.cc`) | placement of the chunks, `matching_index`, `cur_cost`, `selected` | `compute_cost`, `generate_random_distributions` | `MatchingGenerator` | cost counted here, transfers generated elsewhere |
| `MatchingGenerator` (`src/matching_generator.cc`) | stripes, cost table, two indexes, `zero_map`, candidates | `get_cost`, `basic_greedy`, `build_map`, `dist_based_search`, `make_optimization`, `get_sending_scheme`, `random_match` | `TCPNode`, the simulation program | stale lists and partners, exchanging pairs while iterating, index arithmetic |
| `NCScaleSimulation` (`src/ncscale_simulation.cc`) | loads left, two round robins | `get_scheme`, `get_similar_batch_size` | `TCPNode`, the simulation program | round robins that could meet, loops that could fail to end |
| `Blossom` (`src/blossom.cc`) | | | none: not built | dead code |
| simulation program, tests, scripts | | | | none of their own |

What makes each of them correct:

* **ThreadPool**: no task lost, duplicated or reordered; no worker asleep beside
  a task; after the seal every worker runs the queue dry and leaves.
* **MemoryPool**: a buffer is in one place at a time; no receiver asleep beside
  a free buffer.
* **TCPServer with its workers**: a buffer has one user at a time and is never
  lost although nobody records its owner; every file holds the chunk it is named
  for, encoded if it has to be; everything received is written; `start_serving`
  returns.
* **Stripe and transfers**: the transfers generated are as many as the cost that
  was minimised; parities meet; no node ends with two chunks; no transfer from a
  node to itself, which the servers would take for a shutdown signal.
* **Searches**: partners agree on each other and on their cost; nobody is left
  over; the indexed search is as good, step by step, as sorting all pairs; an
  exchange only removes cost; each pair's transfers are generated once.
* **NCScale**: as many transfers as promised, evenly spread, no bad pair.
* **TCPClient, TCPNode**: every transfer of the scheme is executed once, by its
  source and to its target; nobody sends before the receivers serve; a receiver
  never loses the framing of a stream; every process ends, also when another dies.

## Modules

| Module | Source | Role |
|---|---|---|
| `TaskQueue` | what the callers of `ThreadPool` rely on | abstract: a FIFO that can be sealed |
| `ThreadPool` | `include/thread_pool.hh` | implements `TaskQueue` |
| `BufferPool` | what the callers of `MemoryPool` rely on | abstract: buffers free or given out |
| `MemoryPool` | `src/memory_pool.cc` | implements `BufferPool` |
| `TCPServer`, `MCTCPServer` | `src/tcp_server.cc`, `compute_worker.cc`, `write_worker.cc` | composes receivers, buffers and both workers |
| `Transfers` | what `TCPNode` relies on all processes for | abstract: each transfer ordered, sent and moved once |
| `Cluster`, `MCCluster` | `src/tcp_node.cc`, `src/tcp_client.cc`, the rest of `src/tcp_server.cc` | all processes of a run; implements `Transfers` |
| `Stripe` | `src/stripe.cc` | placements and `compute_cost`, used by the next two |
| `SendingScheme`, `MCSendingScheme` | `get_one_scheme` | transfers of one pair |
| `GreedyMatching` | what the searches promise | abstract: a cheapest pair at a time, then exchanges |
| `Matching`, `MCMatching` | the rest of `matching_generator.cc` | implements `GreedyMatching` |
| `CostTable`, `MCCostTable` | `get_cost` | the triangular table |
| `PositionSubsets` | `search_for_matching` | enumeration of bit masks |
| `NCScale`, `MCNCScale` | `src/ncscale_simulation.cc` | round robins of `get_scheme` |
| `StripeProofs` | | what `compute_cost` computes; lemmas for the next two |
| `SendingSchemeProofs`, `MatchingProofs` | | theorems about the module of the same name; `MatchingProofs` has those about `CostTable` as well |
| the other `*Proofs` | | theorems about the module of the same name |

An action is named after the piece of code it stands for and variables keep the
names of the fields. `PROJECT.json` maps every definition to its lines. A
definition marked `Fault` in its comment is *not* part of any specification: it
is the definition that follows it with a plausible bug, and is kept to show
that the properties notice.

### ThreadPool and MemoryPool: the grain of a step

A critical section is two steps, acquiring the mutex and the body that ends in
releasing it; `condition_variable::wait` is the atomic release-and-block, waking
up puts the thread back in front of the mutex, and `notify_one`/`notify_all`,
which the code calls after the unlock, are steps of their own. A
notification reaches any one of the waiting threads or is lost if there is none.
Spurious wake-ups are allowed: at most `MaxSpurious` in `ThreadPool` (so that its
liveness does not rest on them), any number in `MemoryPool`. The clients are the
most general ones: any producer may add and any closer seal at any time. That
covers the way the program uses the pools (several receivers feed
one queue; several compute threads seal the writers).

### TCPServer: the composition

`TCPServer` uses queue and buffer operations as single steps, the abstraction
`ThreadPool` and `MemoryPool` are shown to implement. The state is: where
`start_serving` is, `serving_flag`, the master's connection, each receiver, each
connection, the buffers and their contents, both queues with their seals and
threads, and the files. `info[t]` is what the receiver has got of the record of task
`t`: the coefficient, as 0 or not, and whose file `store_fn` names. `mem_ptr[t]` is the pointer in the live copy of task
`t`; `stage[t]` records how far the task has come and guards only the choice of
the next task of a peer. The master shuffles the scheme, so a peer's tasks
arrive in any order. A connection in `Breakable` may go *down* at any time after it
has been served: from then on its receiver reads what is still on its way, and
the stream ends

* between two records, or so early in a header that source and target are still
  the 0 of `MigrationInfo()` (`RecvEOF`);
* inside a header (`RecvCut`): the code takes any number of bytes for a record, and
  the coefficient and the names that are missing are whatever the memory
  held (`Headers`), so the record may ask for encoding or not, and name the file of any
  task. No byte of the chunk follows, and the buffer goes on with what it held before;
* inside a chunk (`RecvShort`), whose buffer is handed on all the same.

Since two records may then name one file, two writers may have it open at once:
either may have the last word in `WriteFile`, and a mixture of the two counts as the data
that does not belong there. A process that calls `exit(-1)`, because a record names a
file that cannot be opened, stops for good; the model has that in the behaviours
that stop, which every safety property covers and `FairSpec` leaves out.

### Cluster: all processes

`Cluster` puts together the master and `NodeNum` nodes. Of each process it has
the main thread (`main`: where it is in `TCPNode::start`), the thread in
`start_client` (`client`), the client's threads (`pc`, `hand`) with their queue,
and one server thread per incoming connection (`rpc`, `rtask`). What each
action stands for:

| Code | Actions |
|---|---|
| `TCPNode::start` of a node | `Construct`, `StartClient`, `JoinAccept`, `TakeTask`, `TakeStop`, `JoinClient`, `JoinServer` |
| `TCPNode::start` of the master | `StartClient`, `AddTask`, `FinishPlan`, `JoinClient` |
| `connect_one`, `wait_for_connection` | `Connect`, `Accept` |
| `start_client`, `wait_start_flag` | `ReadFlag`, `FlagFails`, `StartThreads`, `JoinThreads` |
| `TCPClient::run` | `Get`, `SendHeader`, `HeaderFails`, `SendChunk`, `Leave` |
| `send_shutdown_signal` | `SendShutdown`, `ShutdownFails` |
| `start_serving` (its gate) | `OpenGate` |
| `TCPServer::run` | `PassGate`, `SendFlagFails`, `QueueTask`, `QueueEnds` |
| `receive_handler` | `PassGate`, `SendFlagFails`, `RecvHeader`, `RecvChunk`, `RecvEnds` |
| the end of a process | `Die` in every action named `...Fails`; `Perish`, `PerishSending` |

* A connection is a sequence of records, headers and chunks, since that is what
  the two ends write and read with `write_n` and `read_n`; nothing on it says
  which is which. At most `Window` records fit, then the writer blocks.
* A node's thread holds the lock of its target from the header to the end of the
  chunk, which is `pc = "chunk"`: `LockFree` looks for such a thread.
* `MigrationInfo()` has source = target = 0. It is what `send_shutdown_signal`
  sends and also what `get_task` returns from a sealed empty queue; both are
  `NoTask`.
* A process that dies, by `exit(-1)` or otherwise, has its sockets closed by the
  operating system: who reads from it gets what is on its way and then the end
  of the stream, who writes to it writes into the void or gets an error (sockpp
  ignores SIGPIPE). That a machine or the network disappears without closing
  anything is not modelled. A death can cut the one header being written in two;
  the record a receiver makes of the part may have source and target 0
  (`ReadTask`), or both as sent; a cut exactly between the two is not modelled.
* Connecting and sending the index of the node is one step.
* `test/stdfile` is there and as long as a chunk.

`Cluster` and `TCPServer` meet in `receive_handler`. `Cluster` shows what
`TCPServer` takes for granted of its peers: a connection carries header and
chunk in turns (`StreamsFramed`), and only a peer that has died cuts a chunk, one
on a connection (`TornByDeathOnly`; `Breakable` in `TCPServer`, where the end inside a header
may leave any coefficient and any name; `Cluster`, which has no files, follows only whether such a
record passes for a shutdown signal). `TCPServer` shows
what `JoinServer` takes for granted: `start_serving` returns once the
connections have ended (`ServingReturns`). `ClusterAssumption` wants the source and the
target of a transfer to be different nodes, which is proved of both generators of
schemes: `NoSelfTransfer` of `SendingScheme` and `RobinsNeverMeet` of `NCScale`. `ThreadAssumption` gives
each client a thread: `thr_num` is 1 by default (`src/include/tcp_client.hh:44`), and
nobody passes 0.

`Transfers` says of each transfer how far it has come (`fate`) and of each
process how it has ended. `Cluster` computes the fate from where the last
trace of the transfer is: in the master's plan, client or hands it is *planned*;
on the connection to its source, in the source's server or client *ordered*;
then *sent*, and *moved* when it is stored whole, or *spoilt*.

### Searches

`Matching` starts in either search (`pc = "build"` for `dist_based_search`,
`"greedy"` for `basic_greedy`) with any placements from `Choices`. Lists are
filled in increasing order and only lose elements, so they are sets whose first
element is the least. `single_search` over a list is one step; its effects (the
partner kept in mind, elements erased on the way) are those of the loop. The
sort by cost is the order `Before`. Subsets of positions are
tried in any order, which includes the code's. `build_map` counts its masks in a `uint8_t`
(`Indexed`): with 8 parity chunks or more it makes no list of a part of the parity nodes, and the
levels after 0 find nobody; `basic_greedy` gets all that are left. That is in the
model, and what the lists promise, `LevelDone` and `ImplementsGreedy`, is claimed for
fewer than 8 parity chunks. The masks themselves are `int`, hence m < 31. `CostTable` shows that
`get_cost` is the function of the two stripes that `Matching` uses, and
`PositionSubsets` that the code's masks are the sets of `Positions`.

`SendingScheme` takes any cluster size in `Sizes`, also smaller ones than
2k + m: both searches give up there, but `random_match`, which nothing calls, does not.

## Runs

Bounds are in the `.cfg` files.

| Run | Instance | Shows |
|---|---|---|
| `ThreadPool` | 2 producers, 2 closers, 2 workers, 3 tasks, 1 spurious wake-up | all properties of the pool, also liveness, and that it implements `TaskQueue` |
| `MemoryPool` | 3 getters, 2 releasers, 2 buffers | each buffer in one place, no lost wake-up, implements `BufferPool` |
| `TCPServer` | 2 peers, one of them breakable, 2 + 2 workers, 2 buffers, 3 tasks (1 plain, 2 coded) | no buffer shared or lost; files faithful, but for one that a broken connection spoils; what can be left unwritten; `start_serving` returns (1.6 million states, some minutes) |
| `TCPServerStranded` | the same with 4 tasks, nothing breaks | **violated**: `AllWritten` |
| `Cluster` | a master and 2 nodes, 2 transfers from the first to the second, 1 thread, 2 on the first node, `Window` 1, node 1 may die | framing, start barrier, torn chunks, implements `Transfers`; every process ends |
| `Scheme` | k = 3, m = 2, 6 and 8 nodes | transfers against cost, parities, crowded nodes, no self transfer |
| `SchemeOneChunk` | k = 2, m = 1, 5 nodes, all pairs | **violated**: `OneChunkPerNode` |
| `Matching` | k = 1, m = 2, 5 nodes, 4 stripes of any kind from 3 parity placements, both searches | nobody left, the index finds every pair, implements `GreedyMatching` |
| `MatchingSix` | k = 2, m = 2, 7 nodes, 6 stripes with aligned parities | exchanges: partners agree, no pair used twice, scheme complete, search ends |
| `CostTable` | 5 stripes, a different cost for every pair | answers are the pair's own |
| `PositionSubsets` | m up to 7, every cost | every subset once, and the loop ends |
| `NCScale` | 7 combinations of k, m and batches | length, even load, no bad pair |

Why these bounds are enough to meet the interesting cases:

* *ThreadPool*: two workers asleep with one notification on its way, a seal
  between another closer's unlock and its `notify_all`, and a push after the seal
  need two of each thread. Three tasks let one be queued, one be in the hands of a
  worker and one be pushed.
* *MemoryPool*: more getters than buffers, so that one sleeps while another
  takes the buffer it was woken for.
* *TCPServer*: two receivers and fewer buffers than tasks, so that a buffer is
  reused and a receiver sleeps until a writer has given one back, the only chance of
  a cyclic wait; a coded task on each peer, so both compute workers can be busy
  when the seal arrives; a plain task, which overtakes them. The breakable
  connection carries a coded task and there is a file of another peer's for a cut header
  to name. The run checks
  liveness and so uses no symmetry.
* *TCPServerStranded*: one coded task more; the workers of each pool are
  interchangeable (symmetry; the run has no liveness).
* *Cluster*: both transfers use one connection and the sender has two threads,
  one more than the program gives it, so that framing rests on the lock.
  `Window` 1 makes every writer wait for its reader, the worst case for a cyclic
  wait. Node 1 may die at any step; master and node 2 can die of that, by a
  write that fails. Two nodes connect to each other in both directions and to
  the master, so that every order of start-up occurs; a third would add nothing
  but another pair. Three processes have all three roles of a transfer.
* *Scheme*: 8 = 2k + m nodes, every excess has a free node; 6 nodes, they run
  out. With three data chunks and two parities a node can gather three chunks.
  Renaming the nodes maps any first stripe to the one chosen, except for
  the order in which crowded nodes are relieved, so `SchemeOneChunk` takes
  all of them.
* *Matching*: with m = 2 there are pairs with aligned, half aligned and misaligned
  parities, levels 0 and 1 of the search, and leftovers for `basic_greedy`.
* *MatchingSix*: the smallest case with two candidates and one pair of cost 0
  that helps both, and the four kinds of stripes with which both forms of the
  exchange occur.

Deadlock is checked in `MemoryPool` and `CostTable`, whose
systems never stop. Every other system ends by design (threads exit, an algorithm
finishes), and that it ends where it should is a liveness property of its own.

## Fairness

Weak fairness of each thread of a node, taken as a whole: the operating system
schedules it as long as it can run. Nothing is assumed of the mutex or
of which sleeper a notification picks. In detail:

* *ThreadPool*: no fairness for `AddLock` and `SealLock`; nobody has to add a
  task or to seal. A worker that competes for the mutex is not assumed to get it
  against an endless stream of others: weak fairness is enough because the
  producers' tasks are finite in number.
* *MemoryPool*: no fairness for the calls themselves, none for spurious
  wake-ups; a woken getter competes with weak fairness only.
* *TCPServer*: every receiver and worker, and `start_serving`. `RecvStep`
  contains the peer's part of a transfer: a peer that is alive goes on sending and
  one that is not ends the connection. `MasterStep` is the master closing
  its connection in the end. No connection has to break.
* *Cluster*: weak fairness of `HostStep` of every process that is alive, all its
  threads together. No step of a process can be taken for ever (each one advances a
  thread or consumes a task), so a process that keeps running gets to each
  of its threads. No fairness for deaths. `EveryProcessEnds` excepts one case
  only, in which the code really waits for ever: a process that dies before all its
  connections are made leaves others in `connect_one` or in `accept`.
* *Matching*, *PositionSubsets*: the one thread of the algorithm.

## What is proved

All theorems hold for every value of the constants allowed by the named
assumptions (`ThreadsAssumption`, `PoolAssumption`, `ServerAssumption`,
`NoDataAssumption`, `ClusterAssumption`, `ThreadAssumption`, `StripeAssumption`, `SchemeAssumption`,
`TableAssumption`, `MatchingAssumption`, `BatchesAssumption`). TLC evaluates each of them in some run.

* **ThreadPool**: type invariant, hand-out in order, nothing left at exit, the
  seal wakes everyone, no lost wake-up, and the refinement of `TaskQueue`; also
  that the thread in a critical section is the one that holds the mutex. Each
  invariant is inductive together with the type invariant. The one for the wake-ups
  is a count: while somebody sleeps, `Len(task_queue)` is at most the number of
  producers that still owe a notification plus the workers that will look again by
  themselves. A push adds one to both sides; a notification turns a producer owed into
  a worker awake; a worker that goes to sleep has seen an empty queue in the step in
  which it gave up the mutex. `NothingLeftAtExit` follows from hand-out in order.
* **MemoryPool**: type invariant, each buffer once, no lost wake-up, and the
  refinement of `BufferPool`, along the same lines; here the refinement needs
  `EachBufferOnce`, since a release must give back a buffer that is given out.
* **TCPServer**: type invariant; `NoSharedBuffer`, `NoBufferLost`,
  `StoredFaithfully`, `StrandedBound`; and, with one compute worker, everything
  is written (`OneCoderWritesAll`). None of these is inductive: the code keeps
  no record of who owns a buffer. The strengthening is in named parts:
  *Located* (a task's `stage` says which one queue or thread holds it, and whether it
  has a buffer), *EveryTaskHeld* (the converse: there is such a queue or thread),
  *EveryBufferOwned* (a buffer is free or attached to one task), *RightChunk* and
  *OneSpoilt* (what filled buffers and files hold; of each connection, that one task at most
  is torn, or has a record that is not as it was sent, or has spoilt a file, and that the
  connection has then ended), *SealOrder* (what each seal and
  each join implies of the threads before it) and *LateForwards* (once a writer
  has left, each task still queued was the last one of a compute worker other
  than the one that sealed first). `NoSharedBuffer` and `NoBufferLost` follow
  from the first three, `StoredFaithfully` from the next two, `StrandedBound`
  from the last two by counting compute workers.
* **Cluster**: type invariant, `NobodySendsEarly`, `StreamsFramed` and
  `TornByDeathOnly`, for any number of nodes, of client threads, of transfers, any
  capacity and any deaths.
  `NobodySendsEarly` needs *FlagsServed*: the flag of a server has arrived only if it
  is past its gate or dead, and a gate once open stays open.
  `StreamsFramed` speaks of the head of a stream; what keeps it is a statement
  about the whole: *InTurns* (from the receiver's state on, each record on a
  connection is what the one before it announces), *OneWriter* (the thread that holds
  the lock of a connection, and it alone, owes it the chunk that is due) and
  *ClosedLast* (a connection is closed, and carries a shutdown record, only when
  its sender has finished with it or has died). It needs *Busy* (a thread that is
  about to write has a task in hand and a client that sends) and *Routed* (a task
  is only ever in the queues of its source and on the connection to its target). `TornByDeathOnly` adds *TornLast*: once a chunk of a connection has been
  torn, the sender is dead and the stream is empty, so that no second one comes.
* **Cluster implements Transfers** (`ImplementsTransfers`): the invariant follows each
  transfer. *OneTrace*: it is in one of ten places (the plan, the queue, hand and
  connection of the master, the inbox, queue and hand of its source, its
  connection, its receiver, the store) and in none only if the master or its source has
  died; *NoDoubles*: nor is it in one of them twice; *Hands*: who has sent a chunk does
  not keep its task, and who has died with a header half written does. So a
  step changes the fate of one transfer at most, and to the next one: a chunk that arrives whole, with
  a header that did, finds its transfer in nobody's hands. *Ends* (nothing comes
  after a shutdown record or half a header), *ClientEnds* (what each point that a main
  thread has reached says of its client, and of the connections to it) and *NodeEnds* (the
  shutdown record is the last entry of a node's inbox, and there only when the master has
  nothing left for it) give the other half: a process that ends properly has done its part.
  There `ThreadAssumption` is needed: a client without threads would join them at
  once and close with its queue full.
* **Stripe**: what the recursion of `compute_cost` adds up to, for any code and any two
  placements (*CostAccounted*): after i parity chunks, the cost and the number of
  nodes in use together are 2k + i plus the parity chunks among the i that are on two different nodes,
  the cost is at least the latter, and every node the first stripe has used so far is in use. From that the bounds
  of the cost (*CostBounds*). The library's induction theorems cannot be instantiated here, as they take a
  predicate as parameter; *Induction* is stated for sets instead and
  proved from the well-foundedness of `<` (`WFMin`), and gives also that the function
  that `CostUpTo` chooses exists.
* **SendingScheme**: type invariant, `NoSelfTransfer`, `ParitiesMeet`, `CostFitsLevels`, `SchemeSizeIsCost` and
  `CrowdedNodesRelieved`. `NoSelfTransfer` needs *RelievedApart*:
  the nodes being relieved had more than one chunk when the free nodes were
  collected, so no free node is among them, even though the code may use a free
  node several times. For `ParitiesMeet`, *MetSoFar* says that the
  parity chunks before `i` meet and nothing has been sent of the others; a pair
  without a cost, for which nothing is generated, has no parity chunk to
  send, by *CostAccounted*. `SchemeSizeIsCost` compares two pieces of code that count
  differently: *Counted* says that while parity chunks are placed the code's
  `host_blocks_num` is the load that `compute_cost` places and that the
  transfers are as many as chunks were misaligned; after that, that transfers and chunks
  that still wait to be given away add up to the cost, unless the free nodes have run
  out, and that transfers and free nodes add up to a number that stays. *Relieved* is the same
  count node by node and gives `CrowdedNodesRelieved`.
* **CostTable**: `AnswersRight`. The index of pair (i, j) is shown to be
  inside the table and injective: rows of smaller stripes end before the next one begins.
* **Matching**: type invariant, `PairsAgree` through both searches and every exchange, using
  nothing of `compute_cost` but that it is a function of the pair. The inductive
  invariant adds *Searching* (a partner is looked for at a level below m, for a
  stripe that is free), *InMind* (the partner a free stripe keeps in mind is
  another stripe, at the cost kept in mind), *ZeroPairs* (`zero_map` names stripes of
  pairs that cost nothing) and *Candidates* (candidates are of different pairs that
  do cost something). The last two make the four stripes of an exchange
  different, and are themselves preserved by it.
  `NobodyLeft`: the free stripes are even in number (*LeftEven*), all still in
  `remaining_stripes` and no more than `num_to_select` pairs of them
  (*LeftServed*), and two that are free can always be paired.
  `SchemeComplete`: stripes are flagged pair by pair, and what has been sent is what
  the flagged pairs are due (*SentSoFar*). `ZeroMapSound`: each list has a pair once
  (*ZeroOnce*); an exchange gives the listed stripe a new partner and lists the other
  pair under the parities of the candidate, which are its partner's (*Aligned*), so in
  the list where the given-away pair was found; there it is listed once, and elsewhere one of
  its two stripes at most. The type invariant bounds the costs with *CostBounds*
  (*Ranges*).
* **Matching, the index**: `LevelDone`, that the indexed search finds every pair of the cost it
  looks for, in codes with m < 8. A free stripe is still in every list it was put into (*Listed*). What it has in mind
  is not cheaper than the level, and dearer once it has been
  visited (*Patient*); no free stripe that has been visited could be merged at the level's cost, and the
  one that is searching could not with anybody in the lists it has read (*Served*). So
  when the level ends nothing is left for its cost (*Exhausted*). The last step is a fact about costs:
  two stripes that agree on fewer than m - c positions cost more than c, so a pair of
  cost c meets in one of the lists of that level.
* **Matching implements GreedyMatching** (`ImplementsGreedy`), again for m < 8: with *Exhausted* the pair that the
  indexed search chooses is a cheapest one, `basic_greedy` sorts and the first pair of two
  free stripes is one too, and the exchange of `make_optimization` runs when nobody is
  left, on pairs that cost what `PairsAgree` and *Candidates* say.
* **NCScale**: `RobinsNeverMeet`, `SchemeSizeIsTotalCost` and `EvenLoad` for every
  code and every number of batches. The inductive invariant says where each round
  robin is, *Robin*: after q rounds of n and p turns more it is at node p, counted
  from where it began, and the p nodes behind it have one turn less to come.
  The receivers' robin of the deltas begins one node ahead and so stays ahead:
  the two never meet, and the branch of `get_scheme` that repairs bad pairs
  (`src/ncscale_simulation.cc:99-112`) is unreachable. *Counted* relates the loads
  left to the transfers generated.

### Nobody is stuck, and every step counts

Liveness itself is out of the prover's reach, but the two facts that it rests on are
safety properties, and they are proved for every value of the constants.

*No deadlock* (`NeverStuckHolds`). `NeverStuck` of each proof module says that
some thread has a step to take, with the guards of the actions written out, since `ENABLED` cannot be
used in a proof:

* *ThreadPool*: while the pool is sealed or has a task in it, and until `wait_for_finish` returns.
  No spurious wake-up and no new call is counted on. Who holds the mutex will release
  it (*Held*); if all others sleep, `SealWakesEveryone` and `WakeupsCoverBacklog` name
  the thread whose notification is still to come.
* *MemoryPool*: while somebody is inside a call, unless every buffer is given out.
* *TCPServer*: until `start_serving` returns, even with one buffer. No break
  of a connection is counted on. A receiver that waits for a buffer has one coming, because every buffer that is not
  free is in a queue or a thread (`NoBufferLost`), and neither pool is sealed while a receiver
  is still open (*Started*).
* *Cluster*: until all processes have ended, unless somebody died before all
  connections were made (`DiedConnecting`, the case in which the code does wait for ever).
  The argument goes along the life of a process: once all are
  connected the gates open, so the flags arrive; then a full connection can be read, an
  empty one has a writer that can write or is at its end, and the lock of a
  connection is held by a thread that can write; so the
  master's clients finish, then its shutdown records arrive, then the nodes' clients finish, then the
  receivers.
* *Matching*: until the scheme is generated. A partner kept in mind is a stripe, and the
  list searched (*Keyed*: for any m, with partial lists or without), the pairs sorted, the entries that help and the stripes not yet
  collected have a first one when there is any.

*No step can be taken for ever* (`EveryStepCounts`, `AheadIsFinite`), for *TCPServer*, *Cluster* and
*Matching*. `Ahead` is a record of sets of what is still to be done: phases that a thread has not
come to, stages that a task has not reached, connections to be made or closed, levels, visits and lists. No
step adds to any of the sets, and every step takes something from at least one of them,
whatever the order of the steps, the breaks and the deaths. The sets are finite for finitely many tasks and
threads (always, for *Matching*), so every run is finite, and with `NeverStuck` it ends only
where it should. For *Cluster* this is also why weak fairness of a whole process is enough.

The guards are the right ones: on the instances of the runs `MemoryPool`, `ThreadPool`,
`TCPServer`, `Cluster`, `Matching` and `MatchingSix`, TLC found them equal to `ENABLED` of the steps in
every reachable state, and the theorems' formulas true there, before they were proved.
The runs do not repeat that.

The proofs are checked with `tlapm <Module>Proofs.tla`.

## What is only model-checked

* All liveness (`SealedPoolFinishes`, `QueuedBeforeSealIsTaken`,
  `FreeBufferIsUsed`, `ServingReturns`, `EveryProcessEnds`, `SearchEnds`, `SubsetsEnd`): liveness
  under fairness is out of the prover's reach. For `ServingReturns`, `EveryProcessEnds` and
  `SearchEnds` what is left is the last step, from "every run is finite and stops
  only at its end" to "a fair run gets to its end"; for the two pools it is more: that
  under fairness the one task or buffer in question is handed out, not only another one.
* `EverySubsetOnce` of `PositionSubsets`: no module with a theorem may use the bit
  operators. The run takes every number of parity chunks, below 8, that the code's
  `uint8_t` masks are right for, and every cost, so it is exhaustive.

## Findings

* **A chunk can be received and never written** (`TCPServerStranded`). Every
  compute thread calls `ww->set_finished()` when it leaves
  (`src/compute_worker.cc:36`), so the first one to leave seals the write queue
  while another may still be encoding. The writers drain the queue and exit,
  `start_serving` returns, and the chunk forwarded afterwards stays in
  the queue; nor is its buffer released. `StrandedBound` says how bad it can be: fewer
  chunks than there are compute threads, only encoded ones; `OneCoderWritesAll`
  that a single compute thread avoids it.
* **Two chunks sent to one free node** (`SchemeOneChunk`). `get_one_scheme` reads
  `available_nodes.front()` and drops `available_nodes.back()`
  (`src/matching_generator.cc:431-432`): while free nodes are left the same one is the
  target again. The number of transfers is as computed, the placement is
  not one chunk per node.
* A header that a break cuts is taken for a record (`src/tcp_server.cc:52` stops only at
  0 bytes or an error), and `MigrationInfo()` leaves the coefficient and the names unset
  (`src/include/migration_info.hh:17`). So a stale buffer can overwrite the file of another
  task that had arrived intact. `StoredFaithfully` says how far it goes: one
  file for each connection that broke. Nothing in the repository says otherwise of broken
  connections, so there is no run for it.
* `test/src/thread_pool_test.cc:26-27` ends with `wait_for_finish()` on pools that
  nobody seals. By `thread_pool.hh:35` its workers sleep for good once the
  queue is empty, so the test does not end by itself. The model agrees
  (`SealedPoolFinishes` promises an end only after a seal); no run is kept for it.

## Not modelled

* Of `TCPClient`, what the program does not use: the constructor for a single
  host and `demo_tasks`.
* Of `TCPNode`, reading the configuration and making directories. The scheme that
  the master distributes is any set of transfers between different nodes.
* Errors of `accept`, and a connection that ends before its index is read
  (`src/tcp_server.cc:115`): connecting is one step.
* Machines and networks that disappear without closing their connections.
* What a cut header can do beyond a wrong coefficient and a wrong `store_fn`: a
  coefficient larger than m, which would index `encode_gftbl` out of its bounds
  (`src/compute_worker.cc:56`), and a `target_fn` of another chunk.
* The exits when a file is missing, `test/stdfile` shorter than a chunk, short
  writes to a full disk.
* Galois-field arithmetic: encoding is the fact that it happened, once.
* Statistics, and the printing around them; `random_match`, whose only call is in
  a comment (`src/matching_main.cc:56`).
* The repair of bad pairs in `get_scheme`: proved unreachable.
* `Blossom`: not built by the makefile.
* Several `MatchingGenerator` objects of different sizes in one process (the
  static row length of `get_cost` would be stale): the program never makes them.

## Plan

1. *SendingScheme* composed with *Matching*, the whole of `get_sending_scheme`,
   so that its transfers are the `Transfer` of `Cluster`.
2. Proofs about that composition: a transfer is generated for each chunk of a pair that
   has to move and for no other.
