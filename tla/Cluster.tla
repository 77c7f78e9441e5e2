------------------------------ MODULE Cluster ------------------------------
(***************************************************************************)
(* All processes of a run of the prototype (TCPNode::start): the master    *)
(* hands each transfer of its scheme to the node that holds the chunk      *)
(* (TCPClient::run of the master, TCPServer::run of the node); the node's  *)
(* main thread passes it on to its own client, which sends a header and    *)
(* the chunk to the target (TCPClient::run, TCPServer::receive_handler).   *)
(* The start (connect, accept, start flags) and the end (shutdown records, *)
(* seals, joins) of all of them are modelled, and the death of a process.  *)
(*                                                                         *)
(* A task queue is a sequence (ThreadPool); what a server does with a      *)
(* chunk once it is received is TCPServer's subject.                       *)
(***************************************************************************)
EXTENDS Naturals, Sequences, FiniteSets

CONSTANTS NodeNum,         \* data nodes, node_num of the configuration
          Thread, owner,   \* the clients' threads, each of a process
          Transfer,        \* the scheme
          source, target,  \* of each transfer
          Window,          \* records that fit into a connection unread
          Mortal,          \* the processes that may die for reasons of their own
          NoTask

Master == 0
Node == 1..NodeNum
Host == 0..NodeNum

ASSUME ClusterAssumption ==
    /\ NodeNum \in Nat
    /\ owner \in [Thread -> Host]
    /\ source \in [Transfer -> Node] /\ target \in [Transfer -> Node]
    /\ \A t \in Transfer : source[t] # target[t]
    /\ Window \in Nat \ {0}
    /\ Mortal \subseteq Host
    /\ NoTask \notin Transfer

\* Each client has a thread at least: thr_num is not 0.
ASSUME ThreadAssumption == \A h \in Host : \E x \in Thread : owner[x] = h

\* The connections, <<from, to>>; every process connects to the other nodes.
Others(h) == Node \ {h}
Link == {l \in Host \X Node : l[1] # l[2]}

\* Records on a connection.  MigrationInfo() has source = target = 0: it is the
\* shutdown record, and what get_task returns from a sealed empty queue.
Header(t) == [kind |-> "header", task |-> t]
Chunk(t) == [kind |-> "chunk", task |-> t]
Shutdown == Header(NoTask)

VARIABLES
    main,            \* main thread: where it is in TCPNode::start
    plan,            \* the master: transfers not added to its client yet
    connected,       \* node_conns: whom each client is connected to
    client,          \* the thread in start_client
    flags,           \* wait_start_flag: whose flags have arrived
    queue, sealed,   \* the client's task queue
    pc, hand,        \* the client's threads: where they are, the task in hand
    shut,            \* send_shutdown_signal: the connections closed
    stream,          \* written and not read yet, on each connection
    serving,         \* serving_flag
    rpc, rtask,      \* the server's thread of each connection, its task
    inbox, inboxSealed,  \* the server's task queue: what the master sent
    stored,          \* how each chunk arrived, each time it did
    cut              \* headers of which only a part was written

main_vars == <<main, plan>>
client_vars == <<connected, client, flags, shut>>
queue_vars == <<queue, sealed, pc, hand>>
server_vars == <<serving, rpc, rtask, inbox, inboxSealed>>
vars == <<main_vars, client_vars, queue_vars, server_vars, stream, stored, cut>>

Init ==
    /\ main = [h \in Host |-> "new"]
    /\ plan = Transfer
    /\ connected = [h \in Host |-> {}]
    /\ client = [h \in Host |-> "new"]
    /\ flags = [h \in Host |-> {}]
    /\ queue = [h \in Host |-> <<>>]
    /\ sealed = [h \in Host |-> FALSE]
    /\ pc = [x \in Thread |-> "ready"]
    /\ hand = [x \in Thread |-> NoTask]
    /\ shut = [h \in Host |-> {}]
    /\ stream = [l \in Link |-> <<>>]
    /\ serving = [h \in Node |-> FALSE]
    /\ rpc = [l \in Link |-> "none"]
    /\ rtask = [l \in Link |-> NoTask]
    /\ inbox = [h \in Node |-> <<>>]
    /\ inboxSealed = [h \in Node |-> FALSE]
    /\ stored = [t \in Transfer |-> <<>>]
    /\ cut = {}

Dead(h) == main[h] = "dead"
Goto(h, from, to) == main[h] = from /\ main' = [main EXCEPT ![h] = to]

\* write_n blocks while the connection is full; to a process that is gone it
\* writes into the void, or fails.
CanWrite(g, h) == Dead(h) \/ Len(stream[<<g, h>>]) < Window
Write(g, h, record) == stream' = [stream EXCEPT ![<<g, h>>] = Append(@, record)]

\* read_n returns 0: all is read, and the other end is closed.
AtEnd(g, h) == stream[<<g, h>>] = <<>> /\ (Dead(g) \/ h \in shut[g])
Read(g, h) == stream' = [stream EXCEPT ![<<g, h>>] = Tail(@)]

\* exit(-1), or any other end of the process: its connections are closed.
Die(h) ==
    /\ main' = [main EXCEPT ![h] = "dead"]
    /\ UNCHANGED <<plan, client_vars, queue_vars, server_vars, stream, stored,
                   cut>>

-----------------------------------------------------------------------------
(* TCPNode::start, and the constructors of the server and the client *)

\* The server is constructed and accepts from now on.
Construct(h) ==
    /\ Goto(h, "new", "connecting")
    /\ UNCHANGED <<plan, client_vars, queue_vars, server_vars, stream, stored,
                   cut>>

\* Fault: the node joins wait_svr_thr before it constructs its client.
ConnectAfterAccept(g, h) ==
    /\ main[g] = "connecting"
    /\ \A l \in Link : l[2] = g => rpc[l] # "none"
    /\ h \in Others(g) \ connected[g]
    /\ main[h] \notin {"new", "dead"}
    /\ connected' = [connected EXCEPT ![g] = @ \cup {h}]
    /\ UNCHANGED <<main_vars, client, flags, shut, queue_vars, server_vars,
                   stream, stored, cut>>

\* connect_one, again and again until the other server is there; then it sends
\* the index of its node.
Connect(g, h) ==
    /\ main[g] = "connecting"
    /\ h \in Others(g) \ connected[g]
    /\ main[h] \notin {"new", "dead"}
    /\ connected' = [connected EXCEPT ![g] = @ \cup {h}]
    /\ UNCHANGED <<main_vars, client, flags, shut, queue_vars, server_vars,
                   stream, stored, cut>>

\* wait_for_connection takes the connections in any order and starts a thread
\* for each, receive_handler or, for the master's, run.
Accept(g, h) ==
    /\ h \in connected[g]
    /\ main[h] \in {"connecting", "accepting"}
    /\ rpc[<<g, h>>] = "none"
    /\ rpc' = [rpc EXCEPT ![<<g, h>>] = "gate"]
    /\ UNCHANGED <<main_vars, client_vars, queue_vars, serving, rtask, inbox,
                   inboxSealed, stream, stored, cut>>

\* The constructor of the client joins the connecting threads; cli_thr starts.
StartClient(h) ==
    /\ connected[h] = Others(h)
    /\ Goto(h, "connecting", IF h = Master THEN "planning" ELSE "accepting")
    /\ client' = [client EXCEPT ![h] = "flags"]
    /\ UNCHANGED <<plan, connected, flags, shut, queue_vars, server_vars,
                   stream, stored, cut>>

JoinAccept(h) ==
    /\ \A l \in Link : l[2] = h => rpc[l] # "none"
    /\ Goto(h, "accepting", "taking")
    /\ UNCHANGED <<plan, client_vars, queue_vars, server_vars, stream, stored,
                   cut>>

\* The scheme is shuffled and added to the client's queue.
AddTask(t) ==
    /\ main[Master] = "planning"
    /\ t \in plan
    /\ plan' = plan \ {t}
    /\ queue' = [queue EXCEPT ![Master] = Append(@, t)]
    /\ UNCHANGED <<main, client_vars, sealed, pc, hand, server_vars, stream,
                   stored, cut>>

FinishPlan ==
    /\ plan = {}
    /\ Goto(Master, "planning", "joining")
    /\ sealed' = [sealed EXCEPT ![Master] = TRUE]
    /\ UNCHANGED <<plan, client_vars, queue, pc, hand, server_vars, stream,
                   stored, cut>>

\* A node passes the master's tasks on to its client.
TakeTask(h) ==
    /\ main[h] = "taking"
    /\ inbox[h] # <<>>
    /\ Head(inbox[h]) # NoTask
    /\ inbox' = [inbox EXCEPT ![h] = Tail(@)]
    /\ queue' = [queue EXCEPT ![h] = Append(@, Head(inbox[h]))]
    /\ UNCHANGED <<main_vars, client_vars, sealed, pc, hand, serving, rpc,
                   rtask, inboxSealed, stream, stored, cut>>

\* The shutdown record, or a queue that has been sealed without it.
TakeStop(h) ==
    /\ Goto(h, "taking", "joining")
    /\ \/ inbox[h] # <<>> /\ Head(inbox[h]) = NoTask
       \/ inbox[h] = <<>> /\ inboxSealed[h]
    /\ sealed' = [sealed EXCEPT ![h] = TRUE]
    /\ UNCHANGED <<plan, client_vars, queue, pc, hand, server_vars, stream,
                   stored, cut>>

\* cli_thr.join
JoinClient(h) ==
    /\ client[h] = "closing" /\ shut[h] = Others(h)
    /\ Goto(h, "joining", IF h = Master THEN "over" ELSE "leaving")
    /\ UNCHANGED <<plan, client_vars, queue_vars, server_vars, stream, stored,
                   cut>>

\* svr_thr.join: start_serving has joined every connection's thread, and its
\* workers, which TCPServer shows to end then.
JoinServer(h) ==
    /\ \A l \in Link : l[2] = h => rpc[l] = "closed"
    /\ Goto(h, "leaving", "over")
    /\ UNCHANGED <<plan, client_vars, queue_vars, server_vars, stream, stored,
                   cut>>

MainStep(h) ==
    \/ Construct(h) \/ StartClient(h) \/ JoinClient(h)
    \/ h = Master /\ (FinishPlan \/ \E t \in Transfer : AddTask(t))
    \/ /\ h # Master
       /\ JoinAccept(h) \/ TakeTask(h) \/ TakeStop(h) \/ JoinServer(h)

-----------------------------------------------------------------------------
(* TCPClient *)

\* wait_start_flag gives up only on an error: the end of the stream counts as
\* the flag.
ReadFlag(g, h) ==
    /\ client[g] = "flags"
    /\ h \in Others(g) \ flags[g]
    /\ rpc[<<g, h>>] \notin {"none", "gate"} \/ Dead(h)
    /\ flags' = [flags EXCEPT ![g] = @ \cup {h}]
    /\ UNCHANGED <<main_vars, connected, client, shut, queue_vars, server_vars,
                   stream, stored, cut>>

FlagFails(g, h) ==
    /\ client[g] = "flags"
    /\ h \in Others(g) \ flags[g]
    /\ Dead(h)
    /\ Die(g)

\* Fault: the threads that wait for the flags are not joined.
StartThreadsAtOnce(g) ==
    /\ client[g] = "flags"
    /\ client' = [client EXCEPT ![g] = "sending"]
    /\ UNCHANGED <<main_vars, connected, flags, shut, queue_vars, server_vars,
                   stream, stored, cut>>

StartThreads(g) ==
    /\ client[g] = "flags"
    /\ flags[g] = Others(g)
    /\ client' = [client EXCEPT ![g] = "sending"]
    /\ UNCHANGED <<main_vars, connected, flags, shut, queue_vars, server_vars,
                   stream, stored, cut>>

Get(x) ==
    /\ client[owner[x]] = "sending"
    /\ pc[x] = "ready"
    /\ queue[owner[x]] # <<>>
    /\ hand' = [hand EXCEPT ![x] = Head(queue[owner[x]])]
    /\ queue' = [queue EXCEPT ![owner[x]] = Tail(@)]
    /\ pc' = [pc EXCEPT ![x] = "header"]
    /\ UNCHANGED <<main_vars, client_vars, sealed, server_vars, stream, stored,
                   cut>>

Leave(x) ==
    /\ client[owner[x]] = "sending"
    /\ pc[x] = "ready"
    /\ queue[owner[x]] = <<>> /\ sealed[owner[x]]
    /\ pc' = [pc EXCEPT ![x] = "left"]
    /\ UNCHANGED <<main_vars, client_vars, queue, sealed, hand, server_vars,
                   stream, stored, cut>>

\* Fault: the master is treated like a node.
DestAlike(x) == target[hand[x]]

\* The master sends a task to its source, a node sends it to its target.
Dest(x) == IF owner[x] = Master THEN source[hand[x]] ELSE target[hand[x]]

\* Fault: the lock is released between header and chunk.
LockNobody(x) == TRUE

\* req_mtxs: a node's thread holds it from its header to the end of its chunk.
LockFree(x) ==
    ~ \E y \in Thread :
          pc[y] = "chunk" /\ owner[y] = owner[x] /\ Dest(y) = Dest(x)

AtHeader(x) ==
    /\ pc[x] = "header"
    /\ LockFree(x)
    /\ CanWrite(owner[x], Dest(x))

WriteHeader(x) == Write(owner[x], Dest(x), Header(hand[x]))

\* A node goes on to the chunk, the master to its next task.
SendHeader(x) ==
    /\ AtHeader(x)
    /\ WriteHeader(x)
    /\ \/ /\ owner[x] = Master
          /\ pc' = [pc EXCEPT ![x] = "ready"]
          /\ hand' = [hand EXCEPT ![x] = NoTask]
       \/ /\ owner[x] # Master
          /\ pc' = [pc EXCEPT ![x] = "chunk"]
          /\ UNCHANGED hand
    /\ UNCHANGED <<main_vars, client_vars, queue, sealed, server_vars, stored,
                   cut>>

HeaderFails(x) == AtHeader(x) /\ Dead(Dest(x)) /\ Die(owner[x])

\* Nobody looks at what write_n returns for the chunk.
SendChunk(x) ==
    /\ pc[x] = "chunk"
    /\ CanWrite(owner[x], Dest(x))
    /\ Write(owner[x], Dest(x), Chunk(hand[x]))
    /\ pc' = [pc EXCEPT ![x] = "ready"]
    /\ hand' = [hand EXCEPT ![x] = NoTask]
    /\ UNCHANGED <<main_vars, client_vars, queue, sealed, server_vars, stored,
                   cut>>

JoinThreads(g) ==
    /\ client[g] = "sending"
    /\ \A x \in Thread : owner[x] = g => pc[x] = "left"
    /\ client' = [client EXCEPT ![g] = "closing"]
    /\ UNCHANGED <<main_vars, connected, flags, shut, queue_vars, server_vars,
                   stream, stored, cut>>

\* send_shutdown_signal goes through the connections in the order of the nodes.
AtShutdown(g, h) ==
    /\ client[g] = "closing"
    /\ h \in Others(g) \ shut[g]
    /\ \A i \in Others(g) \ shut[g] : h <= i
    /\ CanWrite(g, h)

SendShutdown(g, h) ==
    /\ AtShutdown(g, h)
    /\ Write(g, h, Shutdown)
    /\ shut' = [shut EXCEPT ![g] = @ \cup {h}]
    /\ UNCHANGED <<main_vars, connected, client, flags, queue_vars, server_vars,
                   stored, cut>>

ShutdownFails(g, h) == AtShutdown(g, h) /\ Dead(h) /\ Die(g)

ClientStep(g) ==
    \/ StartThreads(g) \/ JoinThreads(g)
    \/ \E h \in Node :
          \/ Connect(g, h) \/ ReadFlag(g, h) \/ FlagFails(g, h)
          \/ SendShutdown(g, h) \/ ShutdownFails(g, h)
    \/ \E x \in Thread :
          /\ owner[x] = g
          /\ \/ Get(x) \/ Leave(x)
             \/ SendHeader(x) \/ HeaderFails(x) \/ SendChunk(x)

-----------------------------------------------------------------------------
(* TCPServer *)

OpenGate(h) ==
    /\ main[h] \in {"taking", "joining", "leaving"}
    /\ ~serving[h]
    /\ serving' = [serving EXCEPT ![h] = TRUE]
    /\ UNCHANGED <<main_vars, client_vars, queue_vars, rpc, rtask, inbox,
                   inboxSealed, stream, stored, cut>>

\* A connection's thread waits for the gate, then sends the start flag.
PassGate(g, h) ==
    /\ rpc[<<g, h>>] = "gate"
    /\ serving[h]
    /\ rpc' = [rpc EXCEPT ![<<g, h>>] = "header"]
    /\ UNCHANGED <<main_vars, client_vars, queue_vars, serving, rtask, inbox,
                   inboxSealed, stream, stored, cut>>

SendFlagFails(g, h) ==
    /\ rpc[<<g, h>>] = "gate"
    /\ serving[h]
    /\ Dead(g)
    /\ Die(h)

\* A header that was cut may lack its source and target, which the constructor
\* has made 0.
ReadTask(g, h) ==
    LET t == Head(stream[<<g, h>>]).task
    IN  {t} \cup IF <<g, t>> \in cut THEN {NoTask} ELSE {}

\* run(): whatever the master sends is queued, the shutdown record too.
QueueTask(h) ==
    /\ rpc[<<Master, h>>] = "header"
    /\ stream[<<Master, h>>] # <<>>
    /\ Read(Master, h)
    /\ \E t \in ReadTask(Master, h) :
          inbox' = [inbox EXCEPT ![h] = Append(@, t)]
    /\ UNCHANGED <<main_vars, client_vars, queue_vars, serving, rpc, rtask,
                   inboxSealed, stored, cut>>

QueueEnds(h) ==
    /\ rpc[<<Master, h>>] = "header"
    /\ AtEnd(Master, h)
    /\ inboxSealed' = [inboxSealed EXCEPT ![h] = TRUE]
    /\ rpc' = [rpc EXCEPT ![<<Master, h>>] = "closed"]
    /\ UNCHANGED <<main_vars, client_vars, queue_vars, serving, rtask, inbox,
                   stream, stored, cut>>

\* receive_handler: a header announces a chunk, if source # target.
RecvHeader(g, h) ==
    /\ g # Master
    /\ rpc[<<g, h>>] = "header"
    /\ stream[<<g, h>>] # <<>>
    /\ Read(g, h)
    /\ rtask' \in {[rtask EXCEPT ![<<g, h>>] = t] : t \in ReadTask(g, h)}
    /\ rpc' = [rpc EXCEPT ![<<g, h>>] =
                  IF rtask'[<<g, h>>] = NoTask THEN "closed" ELSE "chunk"]
    /\ UNCHANGED <<main_vars, client_vars, queue_vars, serving, inbox,
                   inboxSealed, stored, cut>>

RecvEnds(g, h) ==
    /\ g # Master
    /\ rpc[<<g, h>>] = "header"
    /\ AtEnd(g, h)
    /\ rpc' = [rpc EXCEPT ![<<g, h>>] = "closed"]
    /\ UNCHANGED <<main_vars, client_vars, queue_vars, serving, rtask, inbox,
                   inboxSealed, stream, stored, cut>>

\* Fault: read_n is called once, and brings what has arrived by then.
RecvOnce(g, h) ==
    /\ g # Master
    /\ rpc[<<g, h>>] = "chunk"
    /\ stream[<<g, h>>] # <<>> /\ Read(g, h)
    /\ stored' = [stored EXCEPT ![rtask[<<g, h>>]] = Append(@, "torn")]
    /\ rpc' = [rpc EXCEPT ![<<g, h>>] = "header"]
    /\ rtask' = [rtask EXCEPT ![<<g, h>>] = NoTask]
    /\ UNCHANGED <<main_vars, client_vars, queue_vars, serving, inbox,
                   inboxSealed, cut>>

\* The chunk is handed over whether it was read to its end or not.
RecvChunk(g, h) ==
    /\ g # Master
    /\ rpc[<<g, h>>] = "chunk"
    /\ \/ /\ stream[<<g, h>>] # <<>>
          /\ Read(g, h)
          /\ stored' = [stored EXCEPT ![rtask[<<g, h>>]] = Append(@, "whole")]
       \/ /\ AtEnd(g, h)
          /\ stored' = [stored EXCEPT ![rtask[<<g, h>>]] = Append(@, "torn")]
          /\ UNCHANGED stream
    /\ rpc' = [rpc EXCEPT ![<<g, h>>] = "header"]
    /\ rtask' = [rtask EXCEPT ![<<g, h>>] = NoTask]
    /\ UNCHANGED <<main_vars, client_vars, queue_vars, serving, inbox,
                   inboxSealed, cut>>

ServerStep(h) ==
    \/ OpenGate(h) \/ QueueTask(h) \/ QueueEnds(h)
    \/ \E g \in Host \ {h} :
          \/ Accept(g, h) \/ PassGate(g, h) \/ SendFlagFails(g, h)
          \/ RecvHeader(g, h) \/ RecvEnds(g, h) \/ RecvChunk(g, h)

-----------------------------------------------------------------------------
(* Deaths *)

\* A process dies between two of its steps,
Perish(h) == h \in Mortal /\ main[h] # "over" /\ Die(h)

\* or with a header half written.
PerishSending(x) ==
    /\ owner[x] \in Mortal
    /\ AtHeader(x)
    /\ WriteHeader(x)
    /\ cut' = cut \cup {<<owner[x], hand[x]>>}
    /\ main' = [main EXCEPT ![owner[x]] = "dead"]
    /\ UNCHANGED <<plan, client_vars, queue_vars, server_vars, stored>>

HostStep(h) == MainStep(h) \/ ClientStep(h) \/ (h # Master /\ ServerStep(h))
DeathStep(h) ==
    \/ Perish(h)
    \/ \E x \in Thread : owner[x] = h /\ PerishSending(x)

Next == \E h \in Host : ~Dead(h) /\ (HostStep(h) \/ DeathStep(h))

Spec == Init /\ [][Next]_vars

\* Every process that is alive keeps running.  No step of a process can be
\* taken for ever, so that this is enough for each of its threads.
FairSpec == Spec /\ \A h \in Host : WF_vars(~Dead(h) /\ HostStep(h))
-----------------------------------------------------------------------------
(* Properties *)

Records == [kind : {"header", "chunk"}, task : Transfer \cup {NoTask}]

TypeOK ==
    /\ main \in [Host -> {"new", "connecting", "accepting", "planning", "taking",
                          "joining", "leaving", "over", "dead"}]
    /\ plan \subseteq Transfer
    /\ connected \in [Host -> SUBSET Node]
    /\ client \in [Host -> {"new", "flags", "sending", "closing"}]
    /\ flags \in [Host -> SUBSET Node]
    /\ queue \in [Host -> Seq(Transfer)]
    /\ sealed \in [Host -> BOOLEAN]
    /\ pc \in [Thread -> {"ready", "header", "chunk", "left"}]
    /\ hand \in [Thread -> Transfer \cup {NoTask}]
    /\ shut \in [Host -> SUBSET Node]
    /\ stream \in [Link -> Seq(Records)]
    /\ serving \in [Node -> BOOLEAN]
    /\ rpc \in [Link -> {"none", "gate", "header", "chunk", "closed"}]
    /\ rtask \in [Link -> Transfer \cup {NoTask}]
    /\ inbox \in [Node -> Seq(Transfer \cup {NoTask})]
    /\ inboxSealed \in [Node -> BOOLEAN]
    /\ stored \in [Transfer -> Seq({"whole", "torn"})]
    /\ cut \subseteq Host \X (Transfer \cup {NoTask})

\* A connection carries no lengths or marks: a receiver takes the next bytes for
\* a header or for the chunk it has just read a header of.  Whatever the threads
\* of the sender do, what it finds is what it takes it for.
StreamsFramed ==
    \A l \in Link : stream[l] # <<>> =>
        /\ rpc[l] = "header" => Head(stream[l]).kind = "header"
        /\ rpc[l] = "chunk" => Head(stream[l]) = Chunk(rtask[l])

\* The start flags are a barrier: no client sends before every server it is
\* connected to has started its workers and opened its gate.  (It is none for a
\* server that died: wait_start_flag takes the end of a connection for a flag.)
NobodySendsEarly ==
    \A g \in Host : client[g] \in {"sending", "closing"} =>
        \A h \in Others(g) : serving[h] \/ Dead(h)

\* A chunk is torn, and handed on as if it were not, only when its sender has
\* died, and then one on each of its connections at most.
TornByDeathOnly ==
    \A t, u \in Transfer :
        stored[t] = <<"torn">> =>
            /\ Dead(source[t])
            /\ /\ stored[u] = <<"torn">>
               /\ source[u] = source[t] /\ target[u] = target[t]
               => u = t

\* The fate of a transfer: where the last trace of it is.
Elems(q) == {q[i] : i \in 1..Len(q)}
InClient(g, t) ==
    \/ t \in Elems(queue[g])
    \/ \E x \in Thread : owner[x] = g /\ hand[x] = t

fate == [t \in Transfer |->
    CASE stored[t] # <<>> ->
            IF /\ stored[t] = <<"whole">>
               /\ <<Master, t>> \notin cut
            THEN "moved"
            ELSE IF Len(stored[t]) = 1 THEN "spoilt" ELSE "moved again"
      [] stored[t] = <<>> /\ (t \in plan \/ InClient(Master, t)) -> "planned"
      [] stored[t] = <<>> /\ ~(t \in plan \/ InClient(Master, t)) ->
            IF \/ Header(t) \in Elems(stream[<<Master, source[t]>>])
               \/ t \in Elems(inbox[source[t]])
               \/ InClient(source[t], t)
            THEN "ordered"
            ELSE "sent"]

ended == [h \in Host |-> CASE main[h] = "over" -> "properly"
                           [] main[h] = "dead" -> "died"
                           [] OTHER -> "no"]

T == INSTANCE Transfers

\* The cluster moves every transfer of the scheme once, from its source to its
\* target, in spite of threads, queues and deaths; and who ends of its own
\* accord has done its part of each, unless somebody upstream has died.
ImplementsTransfers == T!Spec

\* A process that died before all its connections were made leaves others in
\* connect_one or in accept for good.
DiedConnecting ==
    \E h \in Host :
        /\ Dead(h)
        /\ \/ connected[h] # Others(h)
           \/ \E g \in Host : h \in Others(g) \ connected[g]

\* Every process ends: no order of the start-up steps, no full connection and no
\* death once the connections are made keeps one of them waiting for good.
EveryProcessEnds ==
    <>(\/ \A h \in Host : main[h] \in {"over", "dead"}
       \/ DiedConnecting)
=============================================================================
