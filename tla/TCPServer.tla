------------------------------ MODULE TCPServer ------------------------------
(***************************************************************************)
(* The receiving half of a helper node: TCPServer::start_serving and its   *)
(* receive_handler threads (src/tcp_server.cc), the MemoryPool the chunks  *)
(* are received into, the ComputeWorker pool that re-encodes parity chunks *)
(* and the WriteWorker pool that stores every chunk in a file.             *)
(*                                                                         *)
(* add_task, get_task, set_finished, get_block and release_block are one   *)
(* step each here: ThreadPool shows what that abstraction stands for.      *)
(*                                                                         *)
(* The master shuffles the scheme (src/tcp_node.cc:141), so the order in   *)
(* which a peer's tasks arrive is any order: a receiver takes any task of  *)
(* its peer that it has not read yet.                                      *)
(*                                                                         *)
(* exit(-1), where a file cannot be opened, is the end of the process: a   *)
(* behaviour that stops.                                                   *)
(***************************************************************************)
EXTENDS Naturals, Sequences, FiniteSets

CONSTANTS Peer,       \* data nodes connected to this one, one receiver each
          CWorker,    \* threads of c_worker
          WWorker,    \* threads of w_worker
          PoolSize,   \* buffers of mem_pool
          Task,       \* migration tasks addressed to this node
          Coded,      \* the tasks with a non-zero coefficient (parity chunks)
          Sender,     \* the peer that sends each task
          Breakable,  \* the peers whose connection may break
          NoTask, NoData    \* nothing; as a file, one that is no task's

ASSUME ServerAssumption ==
    /\ IsFiniteSet(CWorker) /\ CWorker # {}
    /\ WWorker # {}
    /\ PoolSize \in Nat \ {0}
    /\ Coded \subseteq Task
    /\ Sender \in [Task -> Peer]
    /\ Breakable \subseteq Peer
    /\ NoTask \notin Task

\* The buffers, in the order the constructor queues them; 0 is the null mem_ptr.
Block == 1..PoolSize
NoBlock == 0

\* What a buffer or a file holds: the chunk of a task, received in full or cut
\* short, plain or combined with the local chunk by ec_encode_data.
Data == [task : Task, whole : BOOLEAN, coded : BOOLEAN]
ASSUME NoDataAssumption == NoData \notin Data

\* The fields of a record that are followed: the coefficient, 1 for any but 0,
\* and whose file store_fn is.
Header(t) == [coefficient |-> IF t \in Coded THEN 1 ELSE 0, store_fn |-> t]
Headers == [coefficient : {0, 1}, store_fn : Task \cup {NoTask}]

VARIABLES
    phase,          \* where start_serving is
    serving_flag,
    master,         \* the connection to the master, served by run()
    rpc, rtask,     \* receive_handler of each peer: where it is, its task
    link,           \* state of each peer's connection
    info,           \* the record of each task, as its receiver has got it
    free_queue,     \* MemoryPool: the free buffers
    mem_ptr,        \* the buffer each live task record points to
    chunk,          \* contents of the buffers
    cqueue, cseal, cpc, ctask,      \* ComputeWorker: queue, seal, threads
    wqueue, wseal, wpc, wtask,      \* WriteWorker: queue, seal, threads
    store,          \* contents of the store_fn files
    stage           \* history: how far each task has come

main_vars == <<phase, serving_flag, master>>
recv_vars == <<rpc, rtask, link, info>>
pool_vars == <<free_queue, mem_ptr, chunk>>
comp_vars == <<cqueue, cseal, cpc, ctask>>
write_vars == <<wqueue, wseal, wpc, wtask>>
vars == <<main_vars, recv_vars, pool_vars, comp_vars, write_vars, store, stage>>

\* In TLA+ a queue of tasks is a sequence; these are the tasks in it.
Elems(q) == {q[i] : i \in 1..Len(q)}

Init ==
    /\ phase = "starting"
    /\ serving_flag = FALSE
    /\ master = "gate"
    /\ rpc = [r \in Peer |-> "gate"]
    /\ rtask = [r \in Peer |-> NoTask]
    /\ link = [r \in Peer |-> "up"]
    /\ info = [t \in Task |-> Header(t)]
    /\ free_queue = [b \in Block |-> b]
    /\ mem_ptr = [t \in Task |-> NoBlock]
    /\ chunk = [b \in Block |-> NoData]
    /\ cqueue = <<>> /\ cseal = FALSE
    /\ cpc = [c \in CWorker |-> "new"]
    /\ ctask = [c \in CWorker |-> NoTask]
    /\ wqueue = <<>> /\ wseal = FALSE
    /\ wpc = [w \in WWorker |-> "new"]
    /\ wtask = [w \in WWorker |-> NoTask]
    /\ store = [t \in Task |-> NoData]
    /\ stage = [t \in Task |-> "sent"]

-----------------------------------------------------------------------------
(* start_serving *)

\* The workers are started before the receivers are let in.
StartServing ==
    /\ phase = "starting"
    /\ phase' = "receiving"
    /\ serving_flag' = TRUE
    /\ cpc' = [c \in CWorker |-> "ready"]
    /\ wpc' = [w \in WWorker |-> "ready"]
    /\ UNCHANGED <<master, recv_vars, pool_vars, cqueue, cseal, ctask, wqueue,
                   wseal, wtask, store, stage>>

\* All connections are joined, the master's too; then c_worker is sealed.
JoinReceivers ==
    /\ phase = "receiving"
    /\ master = "closed"
    /\ \A r \in Peer : rpc[r] = "closed"
    /\ phase' = "computing"
    /\ cseal' = TRUE
    /\ UNCHANGED <<serving_flag, master, recv_vars, pool_vars, cqueue, cpc,
                   ctask, write_vars, store, stage>>

JoinCompute ==
    /\ phase = "computing"
    /\ \A c \in CWorker : cpc[c] = "exited"
    /\ phase' = "writing"
    /\ UNCHANGED <<serving_flag, master, recv_vars, pool_vars, comp_vars,
                   write_vars, store, stage>>

JoinWriters ==
    /\ phase = "writing"
    /\ \A w \in WWorker : wpc[w] = "exited"
    /\ phase' = "finished"
    /\ UNCHANGED <<serving_flag, master, recv_vars, pool_vars, comp_vars,
                   write_vars, store, stage>>

-----------------------------------------------------------------------------
(* run(): the master's connection.  What it queues is for the node's client; *)
(* only its end matters to this half of the node.                            *)

MasterServed ==
    /\ master = "gate"
    /\ serving_flag
    /\ master' = "open"
    /\ UNCHANGED <<phase, serving_flag, recv_vars, pool_vars, comp_vars,
                   write_vars, store, stage>>

MasterClosed ==
    /\ master = "open"
    /\ master' = "closed"
    /\ UNCHANGED <<phase, serving_flag, recv_vars, pool_vars, comp_vars,
                   write_vars, store, stage>>

-----------------------------------------------------------------------------
(* receive_handler *)

\* Wait for serving_flag, then answer with the start flag.
PassGate(r) ==
    /\ rpc[r] = "gate"
    /\ serving_flag
    /\ rpc' = [rpc EXCEPT ![r] = "header"]
    /\ UNCHANGED <<main_vars, rtask, link, info, pool_vars, comp_vars, write_vars,
                   store, stage>>

RecvHeader(r) ==
    /\ rpc[r] = "header"
    /\ link[r] # "ended"
    /\ \E t \in Task :
          /\ Sender[t] = r
          /\ stage[t] = "sent"
          /\ rtask' = [rtask EXCEPT ![r] = t]
          /\ stage' = [stage EXCEPT ![t] = "received"]
    /\ rpc' = [rpc EXCEPT ![r] = "block"]
    /\ UNCHANGED <<main_vars, link, info, pool_vars, comp_vars, write_vars, store>>

\* The shutdown signal (source = target) after the peer's last task.
RecvShutdown(r) ==
    /\ rpc[r] = "header"
    /\ link[r] = "up"
    /\ \A t \in Task : Sender[t] = r => stage[t] # "sent"
    /\ rpc' = [rpc EXCEPT ![r] = "closed"]
    /\ UNCHANGED <<main_vars, rtask, link, info, pool_vars, comp_vars, write_vars,
                   store, stage>>

\* The connection ends inside a header: read_n returns how much there was, and
\* the record is taken for a whole one.  MigrationInfo() gives no value to the
\* coefficient and the names: what has not arrived is what the memory held.
RecvCut(r) ==
    /\ rpc[r] = "header"
    /\ link[r] = "down"
    /\ \E t \in Task, h \in Headers :
          /\ Sender[t] = r
          /\ stage[t] = "sent"
          /\ rtask' = [rtask EXCEPT ![r] = t]
          /\ stage' = [stage EXCEPT ![t] = "received"]
          /\ info' = [info EXCEPT ![t] = h]
    /\ link' = [link EXCEPT ![r] = "ended"]
    /\ rpc' = [rpc EXCEPT ![r] = "block"]
    /\ UNCHANGED <<main_vars, pool_vars, comp_vars, write_vars, store>>

\* read_n of the header returns nothing, or less than source and target, which
\* MigrationInfo() has made 0: the loop ends as after a shutdown signal.
RecvEOF(r) ==
    /\ rpc[r] = "header"
    /\ link[r] # "up"
    /\ rpc' = [rpc EXCEPT ![r] = "closed"]
    /\ link' = [link EXCEPT ![r] = "ended"]
    /\ UNCHANGED <<main_vars, rtask, info, pool_vars, comp_vars, write_vars, store,
                   stage>>

\* Fault: the buffer stays in the free queue.
GetBlockKeep(r) ==
    /\ rpc[r] = "block"
    /\ free_queue # <<>>
    /\ mem_ptr' = [mem_ptr EXCEPT ![rtask[r]] = Head(free_queue)]
    /\ rpc' = [rpc EXCEPT ![r] = "chunk"]
    /\ UNCHANGED <<main_vars, rtask, link, info, free_queue, chunk, comp_vars,
                   write_vars, store, stage>>

\* get_block blocks while the pool is empty.
GetBlock(r) ==
    /\ rpc[r] = "block"
    /\ free_queue # <<>>
    /\ mem_ptr' = [mem_ptr EXCEPT ![rtask[r]] = Head(free_queue)]
    /\ free_queue' = Tail(free_queue)
    /\ rpc' = [rpc EXCEPT ![r] = "chunk"]
    /\ UNCHANGED <<main_vars, rtask, link, info, chunk, comp_vars, write_vars, store,
                   stage>>

FillBuffer(r, whole) ==
    chunk' = [chunk EXCEPT ![mem_ptr[rtask[r]]] =
                 [task |-> rtask[r], whole |-> whole, coded |-> FALSE]]

RecvChunk(r) ==
    /\ rpc[r] = "chunk"
    /\ link[r] # "ended"
    /\ FillBuffer(r, TRUE)
    /\ rpc' = [rpc EXCEPT ![r] = "hand"]
    /\ UNCHANGED <<main_vars, rtask, link, info, free_queue, mem_ptr, comp_vars,
                   write_vars, store, stage>>

\* The stream ends inside the chunk, or has ended inside its header: the loop
\* over read_n stops and the buffer is handed on all the same, its tail holding
\* what it held before.
RecvShort(r) ==
    /\ rpc[r] = "chunk"
    /\ link[r] # "up"
    /\ FillBuffer(r, FALSE)
    /\ link' = [link EXCEPT ![r] = "ended"]
    /\ rpc' = [rpc EXCEPT ![r] = "hand"]
    /\ UNCHANGED <<main_vars, rtask, info, free_queue, mem_ptr, comp_vars,
                   write_vars, store, stage>>

\* The tasks whose records have a coefficient.
ToCode == {t \in Task : info[t].coefficient # 0}

\* Fault: the coefficient is not looked at.
HandOverToWriters(r) ==
    /\ rpc[r] = "hand"
    /\ rpc' = [rpc EXCEPT ![r] = "header"]
    /\ wqueue' = Append(wqueue, rtask[r])
    /\ stage' = [stage EXCEPT ![rtask[r]] = "wqueue"]
    /\ UNCHANGED <<main_vars, rtask, link, info, pool_vars, comp_vars, wseal, wpc,
                   wtask, store>>

HandOver(r) ==
    /\ rpc[r] = "hand"
    /\ rpc' = [rpc EXCEPT ![r] = "header"]
    /\ \/ /\ rtask[r] \in ToCode
          /\ cqueue' = Append(cqueue, rtask[r])
          /\ stage' = [stage EXCEPT ![rtask[r]] = "cqueue"]
          /\ UNCHANGED wqueue
       \/ /\ rtask[r] \notin ToCode
          /\ wqueue' = Append(wqueue, rtask[r])
          /\ stage' = [stage EXCEPT ![rtask[r]] = "wqueue"]
          /\ UNCHANGED cqueue
    /\ UNCHANGED <<main_vars, rtask, link, info, pool_vars, cseal, cpc, ctask, wseal,
                   wpc, wtask, store>>

\* The peer's process dies or the network loses it, once it has been served.
PeerBreaks(r) ==
    /\ r \in Breakable
    /\ link[r] = "up"
    /\ rpc[r] \notin {"gate", "closed"}
    /\ link' = [link EXCEPT ![r] = "down"]
    /\ UNCHANGED <<main_vars, rpc, rtask, info, pool_vars, comp_vars, write_vars,
                   store, stage>>

-----------------------------------------------------------------------------
(* ComputeWorker::run *)

ComputeTake(c) ==
    /\ cpc[c] = "ready"
    /\ cqueue # <<>>
    /\ ctask' = [ctask EXCEPT ![c] = Head(cqueue)]
    /\ stage' = [stage EXCEPT ![Head(cqueue)] = "coding"]
    /\ cqueue' = Tail(cqueue)
    /\ cpc' = [cpc EXCEPT ![c] = "encode"]
    /\ UNCHANGED <<main_vars, recv_vars, pool_vars, cseal, write_vars, store>>

\* ec_encode_data combines the buffer with the local chunk, in place.
Encode(c) ==
    /\ cpc[c] = "encode"
    /\ chunk' = [chunk EXCEPT ![mem_ptr[ctask[c]]].coded = TRUE]
    /\ cpc' = [cpc EXCEPT ![c] = "forward"]
    /\ UNCHANGED <<main_vars, recv_vars, free_queue, mem_ptr, cqueue, cseal,
                   ctask, write_vars, store, stage>>

Forward(c) ==
    /\ cpc[c] = "forward"
    /\ wqueue' = Append(wqueue, ctask[c])
    /\ stage' = [stage EXCEPT ![ctask[c]] = "wqueue"]
    /\ cpc' = [cpc EXCEPT ![c] = "ready"]
    /\ UNCHANGED <<main_vars, recv_vars, pool_vars, cqueue, cseal, ctask,
                   wseal, wpc, wtask, store>>

\* get_task returns the empty task, whose mem_ptr is null.
ComputeDrained(c) ==
    /\ cpc[c] = "ready"
    /\ cseal
    /\ cqueue = <<>>
    /\ cpc' = [cpc EXCEPT ![c] = "drained"]
    /\ UNCHANGED <<main_vars, recv_vars, pool_vars, cqueue, cseal, ctask,
                   write_vars, store, stage>>

\* Fault: the writers are not sealed.
LeaveUnsealed(c) ==
    /\ cpc[c] = "drained"
    /\ cpc' = [cpc EXCEPT ![c] = "exited"]
    /\ UNCHANGED <<main_vars, recv_vars, pool_vars, cqueue, cseal, ctask,
                   write_vars, store, stage>>

\* Every worker seals the writers on its way out, whatever the others are at.
SealWriters(c) ==
    /\ cpc[c] = "drained"
    /\ wseal' = TRUE
    /\ cpc' = [cpc EXCEPT ![c] = "exited"]
    /\ UNCHANGED <<main_vars, recv_vars, pool_vars, cqueue, cseal, ctask,
                   wqueue, wpc, wtask, store, stage>>

-----------------------------------------------------------------------------
(* WriteWorker::run *)

WriteTake(w) ==
    /\ wpc[w] = "ready"
    /\ wqueue # <<>>
    /\ wtask' = [wtask EXCEPT ![w] = Head(wqueue)]
    /\ stage' = [stage EXCEPT ![Head(wqueue)] = "writing"]
    /\ wqueue' = Tail(wqueue)
    /\ wpc' = [wpc EXCEPT ![w] = "write"]
    /\ UNCHANGED <<main_vars, recv_vars, pool_vars, comp_vars, wseal, store>>

\* The file the record names is emptied and filled.  Of two writers that have it
\* open at once, either may have the last word; a mixture of the two counts as
\* the data that does not belong there.
WriteFile(w) ==
    /\ wpc[w] = "write"
    /\ store' = [t \in Task |-> IF t = info[wtask[w]].store_fn
                                THEN chunk[mem_ptr[wtask[w]]] ELSE store[t]]
    /\ wpc' = [wpc EXCEPT ![w] = "release"]
    /\ UNCHANGED <<main_vars, recv_vars, pool_vars, comp_vars, wqueue, wseal,
                   wtask, stage>>

\* Fault: the buffer is not given back.
DropBlock(w) ==
    /\ wpc[w] = "release"
    /\ mem_ptr' = [mem_ptr EXCEPT ![wtask[w]] = NoBlock]
    /\ stage' = [stage EXCEPT ![wtask[w]] = "written"]
    /\ wpc' = [wpc EXCEPT ![w] = "ready"]
    /\ UNCHANGED <<main_vars, recv_vars, free_queue, chunk, comp_vars, wqueue,
                   wseal, wtask, store>>

\* release_block; the task record dies with the loop body, and its mem_ptr too.
ReleaseBlock(w) ==
    /\ wpc[w] = "release"
    /\ free_queue' = Append(free_queue, mem_ptr[wtask[w]])
    /\ mem_ptr' = [mem_ptr EXCEPT ![wtask[w]] = NoBlock]
    /\ stage' = [stage EXCEPT ![wtask[w]] = "written"]
    /\ wpc' = [wpc EXCEPT ![w] = "ready"]
    /\ UNCHANGED <<main_vars, recv_vars, chunk, comp_vars, wqueue, wseal,
                   wtask, store>>

\* Fault: a sealed queue is left with tasks in it.
WriteLeave(w) ==
    /\ wpc[w] = "ready"
    /\ wseal
    /\ wpc' = [wpc EXCEPT ![w] = "exited"]
    /\ UNCHANGED <<main_vars, recv_vars, pool_vars, comp_vars, wqueue, wseal,
                   wtask, store, stage>>

WriteDrained(w) ==
    /\ wpc[w] = "ready"
    /\ wseal
    /\ wqueue = <<>>
    /\ wpc' = [wpc EXCEPT ![w] = "exited"]
    /\ UNCHANGED <<main_vars, recv_vars, pool_vars, comp_vars, wqueue, wseal,
                   wtask, store, stage>>

-----------------------------------------------------------------------------

MainStep == StartServing \/ JoinReceivers \/ JoinCompute \/ JoinWriters
MasterStep == MasterServed \/ MasterClosed
RecvStep(r) ==
    \/ PassGate(r) \/ RecvHeader(r) \/ RecvShutdown(r) \/ RecvCut(r)
    \/ RecvEOF(r) \/ GetBlock(r) \/ RecvChunk(r) \/ RecvShort(r) \/ HandOver(r)
ComputeStep(c) ==
    \/ ComputeTake(c) \/ Encode(c) \/ Forward(c)
    \/ ComputeDrained(c) \/ SealWriters(c)
WriteStep(w) ==
    \/ WriteTake(w) \/ WriteFile(w) \/ ReleaseBlock(w) \/ WriteDrained(w)

Next ==
    \/ MainStep
    \/ MasterStep
    \/ \E r \in Peer : RecvStep(r) \/ PeerBreaks(r)
    \/ \E c \in CWorker : ComputeStep(c)
    \/ \E w \in WWorker : WriteStep(w)

Spec == Init /\ [][Next]_vars

\* Every thread of the node keeps running, and a peer that is alive keeps
\* sending; no connection is obliged to break.
FairSpec ==
    /\ Spec
    /\ WF_vars(MainStep)
    /\ WF_vars(MasterStep)
    /\ \A r \in Peer : WF_vars(RecvStep(r))
    /\ \A c \in CWorker : WF_vars(ComputeStep(c))
    /\ \A w \in WWorker : WF_vars(WriteStep(w))

-----------------------------------------------------------------------------
(* Properties *)

Buffered == {"chunk", "hand"}
Computing == {"encode", "forward"}
Writing == {"write", "release"}

\* The threads that have a task with a buffer in hand, each with its task.
InHand ==
    {<<"receiver", r, rtask[r]>> : r \in {r \in Peer : rpc[r] \in Buffered}}
    \cup {<<"computer", c, ctask[c]>> :
             c \in {c \in CWorker : cpc[c] \in Computing}}
    \cup {<<"writer", w, wtask[w]>> :
             w \in {w \in WWorker : wpc[w] \in Writing}}

\* Tasks that were received and whose chunk has not reached its file.
Stranded == {t \in Task : stage[t] \notin {"sent", "written"}}

TypeOK ==
    /\ phase \in {"starting", "receiving", "computing", "writing", "finished"}
    /\ serving_flag \in BOOLEAN
    /\ master \in {"gate", "open", "closed"}
    /\ rpc \in [Peer -> {"gate", "header", "block", "chunk", "hand", "closed"}]
    /\ rtask \in [Peer -> Task \cup {NoTask}]
    /\ link \in [Peer -> {"up", "down", "ended"}]
    /\ info \in [Task -> Headers]
    /\ free_queue \in Seq(Block)
    /\ mem_ptr \in [Task -> Block \cup {NoBlock}]
    /\ chunk \in [Block -> Data \cup {NoData}]
    /\ cqueue \in Seq(Task) /\ cseal \in BOOLEAN
    /\ cpc \in [CWorker -> {"new", "ready", "encode", "forward", "drained",
                            "exited"}]
    /\ ctask \in [CWorker -> Task \cup {NoTask}]
    /\ wqueue \in Seq(Task) /\ wseal \in BOOLEAN
    /\ wpc \in [WWorker -> {"new", "ready", "write", "release", "exited"}]
    /\ wtask \in [WWorker -> Task \cup {NoTask}]
    /\ store \in [Task -> Data \cup {NoData}]
    /\ stage \in [Task -> {"sent", "received", "cqueue", "coding", "wqueue",
                           "writing", "written"}]

\* The pointer to a buffer is copied from the receiver's task to the queues'
\* and the workers' copies of it, with no owner recorded anywhere.  Yet two
\* threads never have the same buffer in hand, and a buffer in hand is not in
\* the pool's free queue, where the next get_block would find it.
NoSharedBuffer ==
    \A x \in InHand :
        /\ mem_ptr[x[3]] \in Block \ Elems(free_queue)
        /\ \A y \in InHand : mem_ptr[x[3]] = mem_ptr[y[3]] => x = y

\* No buffer is lost: one that is not free belongs to a task that a queue or a
\* thread holds.  A receiver in get_block waits for a buffer that exists.
NoBufferLost ==
    \A b \in Block \ Elems(free_queue) :
        \E t \in Elems(cqueue) \cup Elems(wqueue) \cup {x[3] : x \in InHand} :
            mem_ptr[t] = b

\* The file of a task as it should be.
Intact(t) == [task |-> t, whole |-> TRUE, coded |-> t \in Coded]
Damaged == {t \in Task : store[t] \notin {NoData, Intact(t)}}

\* A file holds the chunk of its own task, whole, and re-encoded exactly when the
\* task has a coefficient, although buffers are reused as soon as they are
\* released.  A connection that breaks, inside a chunk or inside a header, with
\* the rest of the record left to chance, damages one file at most, which need
\* not be its own; and nothing else damages any.
StoredFaithfully ==
    \A t \in Damaged :
        /\ ~store[t].whole
        /\ link[Sender[store[t].task]] = "ended"
        /\ \A u \in Damaged :
              Sender[store[u].task] = Sender[store[t].task] => u = t

\* What start_serving can leave undone when it returns: chunks that a compute
\* worker forwarded after another one had sealed the writers, and so at most
\* one for each compute worker but the one that sealed first; a chunk whose
\* record asks for no encoding is never left.  With one compute worker nothing is.
StrandedBound ==
    phase = "finished" =>
        Stranded \subseteq ToCode /\ Cardinality(Stranded) < Cardinality(CWorker)

\* What tcp_server.cc:69 says of a received chunk, that it goes to the compute
\* queue or the write queue, and write_worker.cc:22 of a queued one, that it is
\* written: when start_serving returns, every chunk received is in its file.
AllWritten == phase = "finished" => Stranded = {}

\* start_serving returns, whatever the sizes of the pools and the order of the
\* tasks, and also when connections break (unless a file of that name cannot be
\* opened, and the process exits): get_block never blocks for good, and every
\* thread group is sealed in time for its join.
ServingReturns == <>(phase = "finished")
=============================================================================
