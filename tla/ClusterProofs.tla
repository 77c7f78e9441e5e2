--------------------------- MODULE ClusterProofs ---------------------------
(***************************************************************************)
(* Theorems about Cluster, for any number of nodes, client threads and     *)
(* transfers, any capacity of the connections and any processes that may   *)
(* die.                                                                    *)
(***************************************************************************)
EXTENDS Cluster, SequenceTheorems, FiniteSetTheorems, WellFoundedInduction, TLAPS

\* The steps of a process, one line for each thread of the program.
LEMMA StepCases ==
    ASSUME NEW h \in Host, HostStep(h) \/ DeathStep(h)
    PROVE  \/ Construct(h) \/ StartClient(h) \/ JoinClient(h)
           \/ /\ h \in Node
              /\ \/ JoinAccept(h) \/ TakeTask(h) \/ TakeStop(h) \/ JoinServer(h)
                 \/ OpenGate(h) \/ QueueTask(h) \/ QueueEnds(h)
           \/ h = Master /\ (FinishPlan \/ \E t \in Transfer : AddTask(t))
           \/ StartThreads(h) \/ JoinThreads(h)
           \/ \E i \in Node : \/ Connect(h, i) \/ ReadFlag(h, i)
                              \/ FlagFails(h, i) \/ SendShutdown(h, i)
                              \/ ShutdownFails(h, i)
           \/ \E x \in Thread : /\ owner[x] = h
                                /\ \/ Get(x) \/ Leave(x) \/ SendHeader(x)
                                   \/ HeaderFails(x) \/ SendChunk(x)
                                   \/ PerishSending(x)
           \/ \E g \in Host : /\ <<g, h>> \in Link
                              /\ \/ Accept(g, h) \/ PassGate(g, h)
                                 \/ SendFlagFails(g, h) \/ RecvHeader(g, h)
                                 \/ RecvEnds(g, h) \/ RecvChunk(g, h)
           \/ Perish(h)
  <1>1. h # Master => h \in Node
    BY DEF Host, Node, Master
  <1>2. \A g \in Host \ {h} : h # Master => <<g, h>> \in Link
    BY <1>1 DEF Link
  <1>3. CASE MainStep(h)
    BY <1>1, <1>3 DEF MainStep
  <1>4. CASE ClientStep(h)
    BY <1>4 DEF ClientStep
  <1>5. CASE h # Master /\ ServerStep(h)
    BY <1>1, <1>2, <1>5 DEF ServerStep
  <1>6. CASE DeathStep(h)
    BY <1>6 DEF DeathStep
  <1>. QED
    BY <1>3, <1>4, <1>5, <1>6 DEF HostStep

-----------------------------------------------------------------------------
(* Types *)

LEMMA ReadTaskType ==
    ASSUME TypeOK, NEW g \in Host, NEW h \in Node, g # h, stream[<<g, h>>] # <<>>
    PROVE  /\ Head(stream[<<g, h>>]) \in Records
           /\ ReadTask(g, h) \subseteq Transfer \cup {NoTask}
           /\ Tail(stream[<<g, h>>]) \in Seq(Records)
  <1>1. <<g, h>> \in Link
    BY DEF Link
  <1>2. stream[<<g, h>>] \in Seq(Records)
    BY <1>1 DEF TypeOK
  <1>3. Head(stream[<<g, h>>]) \in Records /\ Tail(stream[<<g, h>>]) \in Seq(Records)
    BY <1>2
  <1>. QED
    BY <1>3 DEF ReadTask, Records

\* Writing keeps the type of the streams, whatever the connection.
LEMMA WriteType ==
    ASSUME TypeOK, NEW g, NEW h, NEW r \in Records, Write(g, h, r)
    PROVE  stream' \in [Link -> Seq(Records)]
  <1>1. ASSUME NEW l \in Link, l = <<g, h>>
        PROVE  Append(stream[l], r) \in Seq(Records)
    BY DEF TypeOK
  <1>. QED
    BY <1>1 DEF Write, TypeOK

LEMMA TypeStep ==
    ASSUME TypeOK, [Next]_vars PROVE TypeOK'
  <1>. USE ClusterAssumption
  <1>1. CASE UNCHANGED vars
    BY <1>1 DEF TypeOK, vars, main_vars, client_vars, queue_vars, server_vars
  <1>2. ASSUME NEW h \in Host, HostStep(h) \/ DeathStep(h) PROVE TypeOK'
    <2>. USE DEF main_vars, client_vars, queue_vars, server_vars
    <2>0. Master \in Host /\ Node \subseteq Host
      BY DEF Master, Host, Node
    <2>1. CASE Construct(h)
      BY <2>1 DEF TypeOK, Construct, Goto
    <2>2. CASE StartClient(h)
      BY <2>2 DEF TypeOK, StartClient, Goto
    <2>3. CASE JoinAccept(h) \/ JoinClient(h) \/ JoinServer(h)
      <3>1. CASE JoinAccept(h)
        BY <3>1 DEF TypeOK, JoinAccept, Goto
      <3>2. CASE JoinClient(h)
        BY <3>2 DEF TypeOK, JoinClient, Goto
      <3>3. CASE JoinServer(h)
        BY <3>3 DEF TypeOK, JoinServer, Goto
      <3>. QED
        BY <2>3, <3>1, <3>2, <3>3
    <2>4. CASE h \in Node /\ TakeTask(h)
      <3>2. inbox[h] \in Seq(Transfer \cup {NoTask})
        BY <2>4 DEF TypeOK
      <3>3. /\ Tail(inbox[h]) \in Seq(Transfer \cup {NoTask})
            /\ Head(inbox[h]) \in Transfer
        BY <2>4, <3>2 DEF TakeTask
      <3>4. Append(queue[h], Head(inbox[h])) \in Seq(Transfer)
        BY <3>3 DEF TypeOK
      <3>. QED
        BY <2>4, <3>3, <3>4 DEF TypeOK, TakeTask
    <2>5. CASE TakeStop(h)
      BY <2>5 DEF TypeOK, TakeStop, Goto
    <2>6. CASE FinishPlan
      BY <2>6, <2>0 DEF TypeOK, FinishPlan, Goto
    <2>7. ASSUME NEW t \in Transfer, AddTask(t) PROVE TypeOK'
      <3>1. Append(queue[Master], t) \in Seq(Transfer)
        BY <2>0 DEF TypeOK
      <3>. QED
        BY <2>7, <3>1 DEF TypeOK, AddTask
    <2>8. CASE StartThreads(h) \/ JoinThreads(h)
      BY <2>8 DEF TypeOK, StartThreads, JoinThreads
    <2>9. ASSUME NEW i \in Node, Connect(h, i) \/ ReadFlag(h, i) PROVE TypeOK'
      <3>1. connected[h] \cup {i} \subseteq Node /\ flags[h] \cup {i} \subseteq Node
        BY DEF TypeOK
      <3>2. CASE Connect(h, i)
        BY <3>1, <3>2 DEF TypeOK, Connect
      <3>3. CASE ReadFlag(h, i)
        BY <3>1, <3>3 DEF TypeOK, ReadFlag
      <3>. QED
        BY <2>9, <3>2, <3>3
    <2>10. ASSUME NEW i \in Node, SendShutdown(h, i) PROVE TypeOK'
      <3>1. stream' \in [Link -> Seq(Records)]
        BY <2>10, WriteType DEF SendShutdown, Shutdown, Header, Records
      <3>. QED
        BY <2>10, <3>1 DEF TypeOK, SendShutdown
    <2>11. ASSUME Die(h) PROVE TypeOK'
      BY <2>11 DEF TypeOK, Die
    <2>12. ASSUME NEW x \in Thread, owner[x] = h, Get(x) PROVE TypeOK'
      <3>1. queue[h] \in Seq(Transfer) /\ queue[h] # <<>>
        BY <2>12 DEF TypeOK, Get
      <3>2. Head(queue[h]) \in Transfer /\ Tail(queue[h]) \in Seq(Transfer)
        BY <3>1
      <3>. QED
        BY <2>12, <3>2 DEF TypeOK, Get
    <2>13. ASSUME NEW x \in Thread, Leave(x) PROVE TypeOK'
      BY <2>13 DEF TypeOK, Leave
    <2>14. ASSUME NEW x \in Thread, SendHeader(x) PROVE TypeOK'
      <3>1. Header(hand[x]) \in Records
        BY DEF TypeOK, Header, Records
      <3>2. stream' \in [Link -> Seq(Records)]
        BY <2>14, <3>1, WriteType DEF SendHeader, WriteHeader
      <3>. QED
        BY <2>14, <3>2 DEF TypeOK, SendHeader
    <2>15. ASSUME NEW x \in Thread, SendChunk(x) PROVE TypeOK'
      <3>1. Chunk(hand[x]) \in Records
        BY DEF TypeOK, Chunk, Records
      <3>2. stream' \in [Link -> Seq(Records)]
        BY <2>15, <3>1, WriteType DEF SendChunk
      <3>. QED
        BY <2>15, <3>2 DEF TypeOK, SendChunk
    <2>16. ASSUME NEW x \in Thread, owner[x] = h, PerishSending(x) PROVE TypeOK'
      <3>1. Header(hand[x]) \in Records
        BY DEF TypeOK, Header, Records
      <3>2. stream' \in [Link -> Seq(Records)]
        BY <2>16, <3>1, WriteType DEF PerishSending, WriteHeader
      <3>3. <<owner[x], hand[x]>> \in Host \X (Transfer \cup {NoTask})
        BY <2>16 DEF TypeOK
      <3>. QED
        BY <2>16, <3>2, <3>3 DEF TypeOK, PerishSending
    <2>17. CASE h \in Node /\ OpenGate(h)
      BY <2>17 DEF TypeOK, OpenGate
    <2>18. CASE h \in Node /\ QueueTask(h)
      <3>1. Master # h /\ stream[<<Master, h>>] # <<>>
        BY <2>18 DEF QueueTask, Node, Master
      <3>2. PICK t \in ReadTask(Master, h) :
               inbox' = [inbox EXCEPT ![h] = Append(@, t)]
        BY <2>18 DEF QueueTask
      <3>3. t \in Transfer \cup {NoTask}
        BY <2>0, <2>18, <3>1, <3>2, ReadTaskType
      <3>4. Append(inbox[h], t) \in Seq(Transfer \cup {NoTask})
        BY <2>18, <3>3 DEF TypeOK
      <3>5. Tail(stream[<<Master, h>>]) \in Seq(Records)
        BY <2>0, <2>18, <3>1, ReadTaskType
      <3>. QED
        BY <2>18, <3>2, <3>4, <3>5 DEF TypeOK, QueueTask, Read
    <2>19. CASE h \in Node /\ QueueEnds(h)
      BY <2>19 DEF TypeOK, QueueEnds
    <2>20. ASSUME NEW g \in Host, Accept(g, h) \/ PassGate(g, h) PROVE TypeOK'
      <3>1. CASE Accept(g, h)
        BY <3>1 DEF TypeOK, Accept
      <3>2. CASE PassGate(g, h)
        BY <3>2 DEF TypeOK, PassGate
      <3>. QED
        BY <2>20, <3>1, <3>2
    <2>21. ASSUME NEW g \in Host, <<g, h>> \in Link, RecvHeader(g, h) PROVE TypeOK'
      <3>1. h \in Node /\ g # h /\ stream[<<g, h>>] # <<>>
        BY <2>21 DEF Link, RecvHeader
      <3>2. PICK t \in ReadTask(g, h) : rtask' = [rtask EXCEPT ![<<g, h>>] = t]
        BY <2>21 DEF RecvHeader
      <3>3. /\ t \in Transfer \cup {NoTask}
            /\ Tail(stream[<<g, h>>]) \in Seq(Records)
        BY <3>1, <3>2, ReadTaskType
      <3>. QED
        BY <2>21, <3>2, <3>3 DEF TypeOK, RecvHeader, Read
    <2>22. ASSUME NEW g \in Host, RecvEnds(g, h) PROVE TypeOK'
      BY <2>22 DEF TypeOK, RecvEnds
    <2>23. ASSUME NEW g \in Host, <<g, h>> \in Link, RecvChunk(g, h) PROVE TypeOK'
      <3>1. stream[<<g, h>>] # <<>> => Tail(stream[<<g, h>>]) \in Seq(Records)
        BY <2>23, ReadTaskType DEF Link
      <3>4. PICK o \in {"whole", "torn"} :
               stored' = [stored EXCEPT ![rtask[<<g, h>>]] = Append(@, o)]
        BY <2>23 DEF RecvChunk
      <3>5. \A t \in Transfer : Append(stored[t], o) \in Seq({"whole", "torn"})
        BY DEF TypeOK
      <3>2. stored' \in [Transfer -> Seq({"whole", "torn"})]
        BY <3>4, <3>5 DEF TypeOK
      <3>3. stream' \in [Link -> Seq(Records)]
        BY <2>23, <3>1 DEF TypeOK, RecvChunk, Read
      <3>. QED
        BY <2>23, <3>2, <3>3 DEF TypeOK, RecvChunk
    <2>. QED
      BY <1>2, StepCases, <2>1, <2>2, <2>3, <2>4, <2>5, <2>6, <2>7, <2>8,
         <2>9, <2>10, <2>11, <2>12, <2>13, <2>14, <2>15, <2>16, <2>17, <2>18,
         <2>19, <2>20, <2>21, <2>22, <2>23
         DEF FlagFails, ShutdownFails, HeaderFails, SendFlagFails, Perish
  <1>. QED
    BY <1>1, <1>2 DEF Next

\* The types of the cluster's state (Cluster).
THEOREM TypeCorrect == Spec => []TypeOK
  <1>1. Init => TypeOK
    BY ClusterAssumption DEF Init, TypeOK
  <1>. QED
    BY <1>1, TypeStep, PTL DEF Spec

-----------------------------------------------------------------------------
(* The start flags *)

\* A gate that is open stays open, and the dead stay dead.
LEMMA Lasting ==
    ASSUME TypeOK, [Next]_vars
    PROVE  /\ \A h \in Host : Dead(h) => Dead(h)'
           /\ \A h \in Node : serving[h] => serving'[h]
  <1>1. CASE UNCHANGED vars
    BY <1>1 DEF vars, main_vars, server_vars, Dead
  <1>2. ASSUME NEW h \in Host, ~Dead(h), HostStep(h) \/ DeathStep(h)
        PROVE  /\ \A i \in Host : Dead(i) => Dead(i)'
               /\ \A i \in Node : serving[i] => serving'[i]
    <2>1. \/ UNCHANGED main \/ \E at : main' = [main EXCEPT ![h] = at]
      BY <1>2, StepCases
         DEF Construct, StartClient, JoinClient, JoinAccept, TakeTask, TakeStop,
             JoinServer, OpenGate, QueueTask, QueueEnds, FinishPlan, AddTask,
             StartThreads, JoinThreads, Connect, ReadFlag, FlagFails,
             SendShutdown, ShutdownFails, Get, Leave, SendHeader, HeaderFails,
             SendChunk, PerishSending, Accept, PassGate, SendFlagFails,
             RecvHeader, RecvEnds, RecvChunk, Perish, Die, Goto, main_vars
    <2>2. UNCHANGED serving \/ serving' = [serving EXCEPT ![h] = TRUE]
      BY <1>2, StepCases
         DEF Construct, StartClient, JoinClient, JoinAccept, TakeTask, TakeStop,
             JoinServer, OpenGate, QueueTask, QueueEnds, FinishPlan, AddTask,
             StartThreads, JoinThreads, Connect, ReadFlag, FlagFails,
             SendShutdown, ShutdownFails, Get, Leave, SendHeader, HeaderFails,
             SendChunk, PerishSending, Accept, PassGate, SendFlagFails,
             RecvHeader, RecvEnds, RecvChunk, Perish, Die, server_vars
    <2>3. \A i \in Host : Dead(i) => i # h
      BY <1>2
    <2>. QED
      BY <2>1, <2>2, <2>3 DEF TypeOK, Dead
  <1>. QED
    BY <1>1, <1>2 DEF Next

\* A connection's thread past the gate, a flag that has arrived and a client that
\* has joined the waiting threads: each stands for a server that serves.
FlagsServed ==
    /\ \A l \in Link : rpc[l] \notin {"none", "gate"} => serving[l[2]]
    /\ \A g \in Host : \A h \in Others(g) : h \in flags[g] => serving[h] \/ Dead(h)
    /\ \A g \in Host :
          client[g] \in {"sending", "closing"} => Others(g) \subseteq flags[g]

LEMMA FlagsServedStep ==
    ASSUME TypeOK, FlagsServed, [Next]_vars PROVE FlagsServed'
  <1>0. /\ \A h \in Host : Dead(h) => Dead(h)'
        /\ \A h \in Node : serving[h] => serving'[h]
    BY Lasting
  <1>1. /\ \A l \in Link : l[1] \in Host /\ l[2] \in Node
        /\ \A g \in Host : Others(g) \subseteq Node
        /\ Node \subseteq Host
    BY DEF Link, Others, Node, Host
  <1>2. ASSUME UNCHANGED <<rpc, flags, client>> PROVE FlagsServed'
    BY <1>0, <1>1, <1>2 DEF FlagsServed, Others, Node
  <1>3. CASE UNCHANGED vars
    BY <1>2, <1>3 DEF vars, client_vars, server_vars
  <1>4. ASSUME NEW h \in Host, HostStep(h) \/ DeathStep(h) PROVE FlagsServed'
    <2>. USE <1>0, <1>1 DEF client_vars, server_vars
    <2>1. ASSUME Die(h) PROVE FlagsServed'
      BY <1>2, <2>1 DEF Die
    <2>2. CASE \/ Construct(h) \/ JoinClient(h) \/ JoinAccept(h) \/ TakeTask(h)
               \/ TakeStop(h) \/ JoinServer(h) \/ OpenGate(h) \/ QueueTask(h)
               \/ FinishPlan
      BY <1>2, <2>2 DEF Construct, JoinClient, JoinAccept, TakeTask, TakeStop,
         JoinServer, OpenGate, QueueTask, FinishPlan
    <2>3. ASSUME NEW t \in Transfer, AddTask(t) PROVE FlagsServed'
      BY <1>2, <2>3 DEF AddTask
    <2>4. ASSUME NEW i \in Node, Connect(h, i) \/ SendShutdown(h, i)
          PROVE  FlagsServed'
      BY <1>2, <2>4 DEF Connect, SendShutdown
    <2>5. ASSUME NEW x \in Thread, \/ Get(x) \/ Leave(x) \/ SendHeader(x)
                                    \/ SendChunk(x) \/ PerishSending(x)
          PROVE  FlagsServed'
      BY <1>2, <2>5 DEF Get, Leave, SendHeader, SendChunk, PerishSending
    <2>6. CASE StartClient(h)
      BY <2>6 DEF StartClient, FlagsServed, TypeOK, Others, Node
    <2>7. CASE StartThreads(h)
      BY <2>7 DEF StartThreads, FlagsServed, TypeOK, Others, Node
    <2>8. CASE JoinThreads(h)
      BY <2>8 DEF JoinThreads, FlagsServed, TypeOK, Others, Node
    <2>9. ASSUME NEW i \in Node, ReadFlag(h, i) PROVE FlagsServed'
      <3>1. i \in Others(h) /\ <<h, i>> \in Link
        BY <2>9 DEF ReadFlag, Link, Others
      <3>2. serving[i] \/ Dead(i)
        BY <2>9, <3>1 DEF ReadFlag, FlagsServed
      <3>. QED
        BY <2>9, <3>1, <3>2 DEF ReadFlag, FlagsServed, TypeOK, Others, Node
    <2>10. ASSUME NEW g \in Host, <<g, h>> \in Link,
                  \/ Accept(g, h) \/ PassGate(g, h) \/ RecvHeader(g, h)
                  \/ RecvEnds(g, h) \/ RecvChunk(g, h)
           PROVE  FlagsServed'
      <3>1. rpc' = [rpc EXCEPT ![<<g, h>>] = rpc'[<<g, h>>]]
        BY <2>10 DEF Accept, PassGate, RecvHeader, RecvEnds, RecvChunk, TypeOK
      <3>2. rpc'[<<g, h>>] \in {"none", "gate"} \/ serving[h]
        BY <2>10 DEF Accept, PassGate, RecvHeader, RecvEnds, RecvChunk,
                     FlagsServed, TypeOK
      <3>3. UNCHANGED <<flags, client>>
        BY <2>10 DEF Accept, PassGate, RecvHeader, RecvEnds, RecvChunk
      <3>4. ASSUME NEW l \in Link, rpc'[l] \notin {"none", "gate"}
            PROVE  serving'[l[2]]
        <4>1. CASE l = <<g, h>>
          BY <2>10, <3>2, <3>4, <4>1
        <4>2. CASE l # <<g, h>>
          BY <3>1, <3>4, <4>2 DEF FlagsServed, TypeOK
        <4>. QED
          BY <4>1, <4>2
      <3>. QED
        BY <3>3, <3>4 DEF FlagsServed, Others, Node
    <2>11. CASE h \in Node /\ QueueEnds(h)
      <3>1. <<Master, h>> \in Link
        BY <2>11, ClusterAssumption DEF Link, Node, Master, Host
      <3>. QED
        BY <2>11, <3>1 DEF QueueEnds, FlagsServed, TypeOK, Others, Node
    <2>. QED
      BY <1>4, StepCases, <2>1, <2>2, <2>3, <2>4, <2>5, <2>6, <2>7, <2>8, <2>9,
         <2>10, <2>11
         DEF FlagFails, ShutdownFails, HeaderFails, SendFlagFails, Perish
  <1>. QED
    BY <1>3, <1>4 DEF Next

\* The start flags are a barrier (Cluster, NobodySendsEarly).
THEOREM NobodySendsEarlyHolds == Spec => []NobodySendsEarly
  <1>1. Init => FlagsServed
    BY DEF Init, FlagsServed, Others
  <1>2. FlagsServed => NobodySendsEarly
    BY DEF FlagsServed, NobodySendsEarly
  <1>. QED
    BY <1>1, <1>2, TypeCorrect, FlagsServedStep, PTL DEF Spec

-----------------------------------------------------------------------------
(* Where tasks are *)

LEMMA ElemsAppend ==
    ASSUME NEW S, NEW s \in Seq(S), NEW e \in S
    PROVE  Elems(Append(s, e)) = Elems(s) \cup {e}
  <1>1. /\ Len(Append(s, e)) = Len(s) + 1 /\ Len(s) \in Nat
        /\ \A i \in 1..Len(s) : Append(s, e)[i] = s[i]
        /\ Append(s, e)[Len(s) + 1] = e
    OBVIOUS
  <1>2. 1..(Len(s) + 1) = (1..Len(s)) \cup {Len(s) + 1}
    BY <1>1
  <1>. QED
    BY <1>1, <1>2 DEF Elems

LEMMA ElemsTail ==
    ASSUME NEW S, NEW s \in Seq(S), s # <<>>
    PROVE  /\ Head(s) \in Elems(s)
           /\ Elems(Tail(s)) \subseteq Elems(s)
  <1>1. /\ Len(s) \in Nat \ {0} /\ Head(s) = s[1] /\ Len(Tail(s)) = Len(s) - 1
        /\ \A i \in 1..(Len(s) - 1) : Tail(s)[i] = s[i + 1] /\ i + 1 \in 1..Len(s)
    OBVIOUS
  <1>. QED
    BY <1>1 DEF Elems

\* The master's connections carry a task to its source, a node's to its target.
OnWay(l, t) ==
    IF l[1] = Master THEN l[2] = source[t] ELSE l = <<source[t], target[t]>>

\* Each task is in the hands of its source until it is on its connection.
Routed ==
    /\ \A h \in Node : \A t \in Elems(queue[h]) : source[t] = h
    /\ \A h \in Node : \A t \in Elems(inbox[h]) : t # NoTask => source[t] = h
    /\ \A x \in Thread :
           hand[x] # NoTask /\ owner[x] # Master => source[hand[x]] = owner[x]
    /\ \A l \in Link : \A r \in Elems(stream[l]) : r.task # NoTask => OnWay(l, r.task)
    /\ \A l \in Link :
           rtask[l] # NoTask => l[1] # Master /\ OnWay(l, rtask[l])

\* What the client's threads are about, and who has a client at all.
Busy ==
    /\ \A h \in Host : main[h] \in {"new", "connecting"} => client[h] = "new"
    /\ \A x \in Thread :
           pc[x] \in {"header", "chunk"} =>
               hand[x] \in Transfer /\ client[owner[x]] = "sending"
    /\ \A x \in Thread : pc[x] = "chunk" => owner[x] # Master
    /\ \A h \in Host : shut[h] # {} => client[h] = "closing"
    /\ \A h \in Host, t \in Transfer \cup {NoTask} : <<h, t>> \in cut => Dead(h)

\* A thread that is about to write has a connection to write to.
LEMMA DestLink ==
    ASSUME TypeOK, Routed, Busy,
           NEW x \in Thread, pc[x] \in {"header", "chunk"}
    PROVE  /\ <<owner[x], Dest(x)>> \in Link
           /\ OnWay(<<owner[x], Dest(x)>>, hand[x])
           /\ hand[x] \in Transfer
  <1>1. hand[x] \in Transfer /\ owner[x] \in Host
    BY ClusterAssumption DEF Busy
  <1>2. source[hand[x]] \in Node /\ target[hand[x]] \in Node
    BY <1>1, ClusterAssumption
  <1>3. Master \notin Node
    BY DEF Master, Node
  <1>4. CASE owner[x] = Master
    BY <1>1, <1>2, <1>3, <1>4 DEF Dest, Link, OnWay
  <1>5. CASE owner[x] # Master
    <2>1. source[hand[x]] = owner[x] /\ source[hand[x]] # target[hand[x]]
      BY <1>1, <1>5, ClusterAssumption DEF Routed
    <2>. QED
      BY <1>1, <1>2, <1>5, <2>1 DEF Dest, Link, OnWay
  <1>. QED
    BY <1>4, <1>5

\* Writing a record of a task on its way.
LEMMA RoutedWrite ==
    ASSUME TypeOK, Routed, NEW l \in Link, NEW r \in Records,
           r.task # NoTask => OnWay(l, r.task),
           stream' = [stream EXCEPT ![l] = Append(@, r)]
    PROVE  \A k \in Link : \A e \in Elems(stream'[k]) :
               e.task # NoTask => OnWay(k, e.task)
  <1>1. Elems(Append(stream[l], r)) = Elems(stream[l]) \cup {r}
    BY ElemsAppend DEF TypeOK
  <1>2. \A k \in Link : stream'[k] = IF k = l THEN Append(stream[l], r) ELSE stream[k]
    BY DEF TypeOK
  <1>. QED
    BY <1>1, <1>2 DEF Routed

LEMMA RoutedRead ==
    ASSUME TypeOK, Routed, NEW l \in Link, stream[l] # <<>>,
           stream' = [stream EXCEPT ![l] = Tail(@)]
    PROVE  /\ Head(stream[l]).task # NoTask => OnWay(l, Head(stream[l]).task)
           /\ \A k \in Link : \A e \in Elems(stream'[k]) :
                  e.task # NoTask => OnWay(k, e.task)
  <1>1. /\ Head(stream[l]) \in Elems(stream[l])
        /\ Elems(Tail(stream[l])) \subseteq Elems(stream[l])
    BY ElemsTail DEF TypeOK
  <1>2. \A k \in Link : stream'[k] = IF k = l THEN Tail(stream[l]) ELSE stream[k]
    BY DEF TypeOK
  <1>. QED
    BY <1>1, <1>2 DEF Routed

LEMMA BusyStep ==
    ASSUME TypeOK, Busy, [Next]_vars PROVE Busy'
  <1>0. \A h \in Host : Dead(h) => Dead(h)'
    BY Lasting
  <1>1. CASE UNCHANGED vars
    BY <1>0, <1>1 DEF Busy, vars, main_vars, client_vars, queue_vars
  <1>2. ASSUME NEW h \in Host, ~Dead(h), HostStep(h) \/ DeathStep(h) PROVE Busy'
    <2>. USE <1>0, ClusterAssumption DEF main_vars, client_vars, queue_vars
    <2>1. ASSUME UNCHANGED <<pc, hand, client, shut, cut>>,
                 UNCHANGED main \/ main' = [main EXCEPT ![h] = "dead"]
          PROVE  Busy'
      BY <2>1 DEF Busy, TypeOK
    <2>2. ASSUME Die(h) PROVE Busy'
      BY <2>1, <2>2 DEF Die
    <2>3. CASE Construct(h) \/ JoinClient(h) \/ JoinAccept(h) \/ JoinServer(h)
               \/ TakeStop(h)
      <3>1. UNCHANGED <<pc, hand, client, shut, cut>>
        BY <2>3 DEF Construct, JoinClient, JoinAccept, JoinServer, TakeStop
      <3>2. \A i \in Host : main'[i] \in {"new", "connecting"} =>
                              main[i] \in {"new", "connecting"}
        BY <2>3 DEF Construct, JoinClient, JoinAccept, JoinServer, TakeStop, Goto,
                    TypeOK
      <3>. QED
        BY <3>1, <3>2 DEF Busy
    <2>4. CASE h = Master /\ FinishPlan
      BY <2>4 DEF FinishPlan, Goto, Busy, TypeOK
    <2>5. CASE TakeTask(h) \/ OpenGate(h) \/ QueueTask(h) \/ QueueEnds(h)
      BY <2>1, <2>5 DEF TakeTask, OpenGate, QueueTask, QueueEnds
    <2>6. ASSUME NEW t \in Transfer, AddTask(t) PROVE Busy'
      BY <2>1, <2>6 DEF AddTask
    <2>7. CASE StartClient(h)
      BY <2>7 DEF StartClient, Goto, Busy, TypeOK, Dead
    <2>8. CASE StartThreads(h)
      BY <2>8 DEF StartThreads, Busy, TypeOK
    <2>9. CASE JoinThreads(h)
      <3>1. \A x \in Thread : owner[x] = h => pc[x] = "left"
        BY <2>9 DEF JoinThreads
      <3>2. main[h] \notin {"new", "connecting"}
        BY <2>9 DEF JoinThreads, Busy
      <3>. QED
        BY <2>9, <3>1, <3>2 DEF JoinThreads, Busy, TypeOK
    <2>10. ASSUME NEW i \in Node, Connect(h, i) \/ ReadFlag(h, i) PROVE Busy'
      BY <2>1, <2>10 DEF Connect, ReadFlag
    <2>11. ASSUME NEW i \in Node, SendShutdown(h, i) PROVE Busy'
      BY <2>11 DEF SendShutdown, AtShutdown, Busy, TypeOK
    <2>12. ASSUME NEW x \in Thread, owner[x] = h, Get(x) PROVE Busy'
      <3>1. Head(queue[h]) \in Transfer
        BY <2>12 DEF TypeOK, Get
      <3>. QED
        BY <2>12, <3>1 DEF Get, Busy, TypeOK
    <2>13. ASSUME NEW x \in Thread, Leave(x) PROVE Busy'
      BY <2>13 DEF Leave, Busy, TypeOK
    <2>14. ASSUME NEW x \in Thread, SendHeader(x) PROVE Busy'
      <3>1. CASE owner[x] = Master
        BY <2>14, <3>1 DEF SendHeader, Busy, TypeOK
      <3>2. CASE owner[x] # Master
        BY <2>14, <3>2 DEF SendHeader, AtHeader, Busy, TypeOK
      <3>. QED
        BY <3>1, <3>2
    <2>15. ASSUME NEW x \in Thread, SendChunk(x) PROVE Busy'
      BY <2>15 DEF SendChunk, Busy, TypeOK
    <2>16. ASSUME NEW x \in Thread, owner[x] = h, PerishSending(x) PROVE Busy'
      <3>1. Dead(h)'
        BY <2>16 DEF PerishSending, Dead, TypeOK
      <3>2. \A i \in Host : main'[i] \in {"new", "connecting"} =>
                              main[i] \in {"new", "connecting"}
        BY <2>16 DEF PerishSending, TypeOK
      <3>. QED
        BY <2>16, <3>1, <3>2 DEF PerishSending, Busy
    <2>17. ASSUME NEW g \in Host,
                  \/ Accept(g, h) \/ PassGate(g, h) \/ RecvHeader(g, h)
                  \/ RecvEnds(g, h) \/ RecvChunk(g, h)
           PROVE  Busy'
      BY <2>1, <2>17 DEF Accept, PassGate, RecvHeader, RecvEnds, RecvChunk
    <2>. QED
      BY <1>2, StepCases, <2>2, <2>3, <2>4, <2>5, <2>6, <2>7, <2>8, <2>9,
         <2>10, <2>11, <2>12, <2>13, <2>14, <2>15, <2>16, <2>17
         DEF FlagFails, ShutdownFails, HeaderFails, SendFlagFails, Perish
  <1>. QED
    BY <1>1, <1>2 DEF Next

LEMMA RoutedStep ==
    ASSUME TypeOK, Busy, Routed, [Next]_vars PROVE Routed'
  <1>1. CASE UNCHANGED vars
    BY <1>1 DEF Routed, OnWay, vars, main_vars, client_vars, queue_vars, server_vars
  <1>2. ASSUME NEW h \in Host, HostStep(h) \/ DeathStep(h) PROVE Routed'
    <2>. USE ClusterAssumption DEF main_vars, client_vars, queue_vars, server_vars
    <2>0. Master \notin Node /\ NoTask \notin Transfer
      BY DEF Master, Node
    <2>1. ASSUME UNCHANGED <<queue, inbox, hand, stream, rtask>> PROVE Routed'
      BY <2>1 DEF Routed, OnWay
    <2>2. ASSUME Die(h) PROVE Routed'
      BY <2>1, <2>2 DEF Die
    <2>3. CASE Construct(h) \/ JoinClient(h) \/ JoinAccept(h) \/ JoinServer(h)
               \/ TakeStop(h) \/ OpenGate(h) \/ QueueEnds(h) \/ FinishPlan
      BY <2>1, <2>3 DEF Construct, JoinClient, JoinAccept, JoinServer, TakeStop,
                        OpenGate, QueueEnds, FinishPlan
    <2>4. CASE StartClient(h) \/ StartThreads(h) \/ JoinThreads(h)
      BY <2>1, <2>4 DEF StartClient, StartThreads, JoinThreads
    <2>5. ASSUME NEW i \in Node, Connect(h, i) \/ ReadFlag(h, i) PROVE Routed'
      BY <2>1, <2>5 DEF Connect, ReadFlag
    <2>6. ASSUME NEW x \in Thread, Leave(x) PROVE Routed'
      BY <2>1, <2>6 DEF Leave
    <2>7. ASSUME NEW g \in Host, Accept(g, h) \/ PassGate(g, h) \/ RecvEnds(g, h)
          PROVE  Routed'
      BY <2>1, <2>7 DEF Accept, PassGate, RecvEnds
    <2>8. CASE h \in Node /\ TakeTask(h)
      <3>1. /\ inbox[h] \in Seq(Transfer \cup {NoTask}) /\ inbox[h] # <<>>
            /\ Head(inbox[h]) \in Transfer
        BY <2>8 DEF TypeOK, TakeTask
      <3>2. /\ Head(inbox[h]) \in Elems(inbox[h])
            /\ Elems(Tail(inbox[h])) \subseteq Elems(inbox[h])
        BY <3>1, ElemsTail
      <3>3. Elems(Append(queue[h], Head(inbox[h]))) =
                Elems(queue[h]) \cup {Head(inbox[h])}
        BY <3>1, ElemsAppend DEF TypeOK
      <3>4. source[Head(inbox[h])] = h
        BY <2>0, <2>8, <3>1, <3>2 DEF Routed
      <3>5. /\ \A i \in Node : inbox'[i] = IF i = h THEN Tail(inbox[h]) ELSE inbox[i]
            /\ \A i \in Node : queue'[i] =
                   IF i = h THEN Append(queue[h], Head(inbox[h])) ELSE queue[i]
            /\ UNCHANGED <<hand, stream, rtask>>
        BY <2>8 DEF TakeTask, TypeOK
      <3>. QED
        BY <3>2, <3>3, <3>4, <3>5 DEF Routed, OnWay
    <2>9. ASSUME NEW t \in Transfer, AddTask(t) PROVE Routed'
      <3>1. \A i \in Node : queue'[i] = queue[i]
        BY <2>0, <2>9 DEF AddTask, TypeOK
      <3>. QED
        BY <2>9, <3>1 DEF AddTask, Routed, OnWay
    <2>10. ASSUME NEW x \in Thread, Get(x) PROVE Routed'
      <3>1. queue[owner[x]] \in Seq(Transfer) /\ queue[owner[x]] # <<>>
        BY <2>10 DEF TypeOK, Get
      <3>2. /\ Head(queue[owner[x]]) \in Elems(queue[owner[x]])
            /\ Elems(Tail(queue[owner[x]])) \subseteq Elems(queue[owner[x]])
        BY <3>1, ElemsTail
      <3>3. owner[x] # Master => source[Head(queue[owner[x]])] = owner[x]
        BY <3>2 DEF Routed, Host, Node, Master
      <3>4. /\ \A i \in Node : Elems(queue'[i]) \subseteq Elems(queue[i])
            /\ \A y \in Thread :
                  hand'[y] = IF y = x THEN Head(queue[owner[x]]) ELSE hand[y]
            /\ UNCHANGED <<inbox, stream, rtask>>
        BY <2>10, <3>2 DEF Get, TypeOK
      <3>. QED
        BY <3>3, <3>4 DEF Routed, OnWay
    <2>11. ASSUME NEW x \in Thread, NEW r \in Records, r.task = hand[x],
                  pc[x] \in {"header", "chunk"}, Write(owner[x], Dest(x), r),
                  \/ UNCHANGED hand
                  \/ hand' = [hand EXCEPT ![x] = NoTask],
                  UNCHANGED <<queue, inbox, rtask>>
           PROVE  Routed'
      <3>1. \A k \in Link : \A e \in Elems(stream'[k]) :
               e.task # NoTask => OnWay(k, e.task)
        BY <2>11, DestLink, RoutedWrite DEF Write
      <3>2. \A y \in Thread : hand'[y] \in {hand[y], NoTask}
        BY <2>11 DEF TypeOK
      <3>. QED
        BY <2>11, <3>1, <3>2 DEF Routed, OnWay
    <2>12. ASSUME NEW x \in Thread,
                  SendHeader(x) \/ SendChunk(x) \/ PerishSending(x)
           PROVE  Routed'
      <3>1. /\ Header(hand[x]) \in Records /\ Header(hand[x]).task = hand[x]
            /\ Chunk(hand[x]) \in Records /\ Chunk(hand[x]).task = hand[x]
        BY DEF TypeOK, Header, Chunk, Records
      <3>2. CASE SendHeader(x)
        BY <2>11, <3>1, <3>2 DEF SendHeader, AtHeader, WriteHeader
      <3>3. CASE SendChunk(x)
        BY <2>11, <3>1, <3>3 DEF SendChunk
      <3>4. CASE PerishSending(x)
        BY <2>11, <3>1, <3>4 DEF PerishSending, AtHeader, WriteHeader
      <3>. QED
        BY <2>12, <3>2, <3>3, <3>4
    <2>13. ASSUME NEW i \in Node, SendShutdown(h, i) PROVE Routed'
      <3>1. <<h, i>> \in Link
        BY <2>13 DEF SendShutdown, AtShutdown, Others, Link
      <3>2. Shutdown \in Records /\ Shutdown.task = NoTask
        BY DEF Shutdown, Header, Records
      <3>3. \A k \in Link : \A e \in Elems(stream'[k]) :
               e.task # NoTask => OnWay(k, e.task)
        BY <2>13, <3>1, <3>2, RoutedWrite DEF SendShutdown, Write
      <3>. QED
        BY <2>13, <3>3 DEF SendShutdown, Routed, OnWay
    <2>14. CASE h \in Node /\ QueueTask(h)
      <3>1. <<Master, h>> \in Link
        BY <2>14 DEF Link, Master, Host, Node
      <3>2. PICK t \in ReadTask(Master, h) :
               inbox' = [inbox EXCEPT ![h] = Append(@, t)]
        BY <2>14 DEF QueueTask
      <3>3. /\ stream[<<Master, h>>] # <<>>
            /\ stream' = [stream EXCEPT ![<<Master, h>>] = Tail(@)]
        BY <2>14 DEF QueueTask, Read
      <3>4. t # NoTask => source[t] = h
        BY <3>1, <3>2, <3>3, RoutedRead DEF ReadTask, OnWay
      <3>5. \A k \in Link : \A e \in Elems(stream'[k]) :
               e.task # NoTask => OnWay(k, e.task)
        BY <3>1, <3>3, RoutedRead
      <3>6. t \in Transfer \cup {NoTask}
        BY <2>14, <3>1, <3>2, <3>3, ReadTaskType DEF Link
      <3>7. Elems(Append(inbox[h], t)) = Elems(inbox[h]) \cup {t}
        <4>1. inbox[h] \in Seq(Transfer \cup {NoTask})
          BY <2>14 DEF TypeOK
        <4>. QED
          BY <3>6, <4>1, ElemsAppend
      <3>8. \A i \in Node : inbox'[i] = IF i = h THEN Append(inbox[h], t) ELSE inbox[i]
        BY <3>2 DEF TypeOK
      <3>9. UNCHANGED <<queue, hand, rtask>>
        BY <2>14 DEF QueueTask
      <3>. QED
        BY <3>4, <3>5, <3>7, <3>8, <3>9 DEF Routed, OnWay
    <2>15. ASSUME NEW g \in Host, <<g, h>> \in Link, RecvHeader(g, h) PROVE Routed'
      <3>1. PICK t \in ReadTask(g, h) : rtask' = [rtask EXCEPT ![<<g, h>>] = t]
        BY <2>15 DEF RecvHeader
      <3>2. /\ g # Master /\ stream[<<g, h>>] # <<>>
            /\ stream' = [stream EXCEPT ![<<g, h>>] = Tail(@)]
        BY <2>15 DEF RecvHeader, Read
      <3>3. t # NoTask => OnWay(<<g, h>>, t)
        BY <2>15, <3>1, <3>2, RoutedRead DEF ReadTask
      <3>4. \A k \in Link : \A e \in Elems(stream'[k]) :
               e.task # NoTask => OnWay(k, e.task)
        BY <2>15, <3>2, RoutedRead
      <3>5. \A k \in Link : rtask'[k] = IF k = <<g, h>> THEN t ELSE rtask[k]
        BY <3>1 DEF TypeOK
      <3>6. UNCHANGED <<queue, inbox, hand>>
        BY <2>15 DEF RecvHeader
      <3>. QED
        BY <3>2, <3>3, <3>4, <3>5, <3>6 DEF Routed, OnWay
    <2>16. ASSUME NEW g \in Host, <<g, h>> \in Link, RecvChunk(g, h) PROVE Routed'
      <3>1. \A k \in Link : rtask'[k] \in {rtask[k], NoTask}
        BY <2>16 DEF RecvChunk, TypeOK
      <3>2. \A k \in Link : \A e \in Elems(stream'[k]) :
               e.task # NoTask => OnWay(k, e.task)
        BY <2>16, RoutedRead DEF RecvChunk, Read, Routed
      <3>3. UNCHANGED <<queue, inbox, hand>>
        BY <2>16 DEF RecvChunk
      <3>. QED
        BY <3>1, <3>2, <3>3 DEF Routed, OnWay
    <2>. QED
      BY <1>2, StepCases, <2>2, <2>3, <2>4, <2>5, <2>6, <2>7, <2>8, <2>9,
         <2>10, <2>12, <2>13, <2>14, <2>15, <2>16
         DEF FlagFails, ShutdownFails, HeaderFails, SendFlagFails, Perish
  <1>. QED
    BY <1>1, <1>2 DEF Next

-----------------------------------------------------------------------------
(* Headers and chunks in turns *)

\* A thread holds the lock of a connection.
AtChunk(x, l) == pc[x] = "chunk" /\ <<owner[x], Dest(x)>> = l

\* The task whose chunk is still to be written, after what was written so far.
Due(l) ==
    IF stream[l] = <<>>
    THEN IF rpc[l] = "chunk" THEN rtask[l] ELSE NoTask
    ELSE IF stream[l][Len(stream[l])].kind = "header"
         THEN stream[l][Len(stream[l])].task ELSE NoTask

Follows(r, e) ==
    IF r.kind = "header" /\ r.task # NoTask THEN e = Chunk(r.task)
                                            ELSE e.kind = "header"

\* From the receiver's state on, each record on the connection is what the one
\* before it announces.
InTurns(l) ==
    /\ rpc[l] = "chunk" => rtask[l] \in Transfer
    /\ stream[l] # <<>> =>
           /\ rpc[l] \in {"none", "gate", "header"} => stream[l][1].kind = "header"
           /\ rpc[l] = "chunk" => stream[l][1] = Chunk(rtask[l])
    /\ \A i \in 1..(Len(stream[l]) - 1) : Follows(stream[l][i], stream[l][i + 1])

\* A connection is closed by its sender's end only.
ClosedLast(l) ==
    /\ rpc[l] = "closed" => Dead(l[1]) \/ l[2] \in shut[l[1]]
    /\ \A r \in Elems(stream[l]) :
           r.kind = "header" /\ r.task = NoTask => l[2] \in shut[l[1]]

\* The thread that holds the lock, and it alone, owes a chunk.
OneWriter(l) ==
    /\ \A x \in Thread : AtChunk(x, l) => Due(l) = hand[x]
    /\ \A x, y \in Thread : AtChunk(x, l) /\ AtChunk(y, l) => x = y
    /\ Due(l) # NoTask => \E x \in Thread : AtChunk(x, l)

FramedAt(l) ==
    IF l[1] = Master
    THEN rpc[l] # "chunk" /\ \A r \in Elems(stream[l]) : r.kind = "header"
    ELSE InTurns(l) /\ ClosedLast(l) /\ (Dead(l[1]) \/ OneWriter(l))

Framed == \A l \in Link : FramedAt(l)

\* A connection that a step leaves alone.
LEMMA FramedKept ==
    ASSUME NEW l \in Link, FramedAt(l),
           stream'[l] = stream[l], rtask'[l] = rtask[l],
           \/ rpc'[l] = rpc[l]
           \/ rpc[l] \in {"none", "gate", "header"} /\ rpc'[l] \in {"gate", "header"},
           shut[l[1]] \subseteq shut'[l[1]],
           Dead(l[1]) => Dead(l[1])',
           \/ Dead(l[1])'
           \/ \A x \in Thread : /\ AtChunk(x, l)' <=> AtChunk(x, l)
                                /\ AtChunk(x, l) => hand'[x] = hand[x]
    PROVE  FramedAt(l)'
  <1>1. CASE l[1] = Master
    BY <1>1 DEF FramedAt
  <1>2. CASE l[1] # Master
    <2>1. InTurns(l)'
      BY <1>2 DEF FramedAt, InTurns
    <2>2. ClosedLast(l)'
      BY <1>2 DEF FramedAt, ClosedLast
    <2>3. Due(l)' = Due(l)
      BY DEF Due
    <2>4. ASSUME ~Dead(l[1])' PROVE OneWriter(l)'
      <3>1. OneWriter(l)
        BY <1>2, <2>4 DEF FramedAt
      <3>2. \A x \in Thread : /\ AtChunk(x, l)' <=> AtChunk(x, l)
                              /\ AtChunk(x, l) => hand'[x] = hand[x]
        BY <2>4
      <3>3. \A x \in Thread : AtChunk(x, l)' => Due(l)' = hand'[x]
        BY <2>3, <3>1, <3>2 DEF OneWriter
      <3>4. \A x, y \in Thread : AtChunk(x, l)' /\ AtChunk(y, l)' => x = y
        BY <3>1, <3>2 DEF OneWriter
      <3>5. Due(l)' # NoTask => \E x \in Thread : AtChunk(x, l)'
        BY <2>3, <3>1, <3>2 DEF OneWriter
      <3>. QED
        BY <3>3, <3>4, <3>5 DEF OneWriter
    <2>. QED
      BY <1>2, <2>1, <2>2, <2>4 DEF FramedAt
  <1>. QED
    BY <1>1, <1>2

\* A record is written where it is due.
LEMMA InTurnsWrite ==
    ASSUME TypeOK, NEW l \in Link, InTurns(l), rpc[l] # "closed",
           NEW r \in Records,
           IF Due(l) = NoTask THEN r.kind = "header" ELSE r = Chunk(Due(l)),
           stream'[l] = Append(stream[l], r), rpc'[l] = rpc[l], rtask'[l] = rtask[l]
    PROVE  /\ InTurns(l)'
           /\ Due(l)' = IF r.kind = "header" THEN r.task ELSE NoTask
  <1>1. stream[l] \in Seq(Records) /\ rpc[l] \in {"none", "gate", "header", "chunk"}
    BY DEF TypeOK
  <1>2. /\ Len(stream'[l]) = Len(stream[l]) + 1 /\ Len(stream[l]) \in Nat
        /\ \A i \in 1..Len(stream[l]) : stream'[l][i] = stream[l][i]
        /\ stream'[l][Len(stream[l]) + 1] = r
        /\ stream'[l] # <<>>
    BY <1>1
  <1>3. Due(l)' = IF r.kind = "header" THEN r.task ELSE NoTask
    BY <1>2 DEF Due
  <1>4. CASE stream[l] = <<>>
    <2>1. rpc[l] = "chunk" => r = Chunk(rtask[l])
      BY <1>4, ClusterAssumption DEF Due, InTurns
    <2>2. rpc[l] # "chunk" => r.kind = "header"
      BY <1>4 DEF Due
    <2>3. Len(stream'[l]) = 1 /\ stream'[l][1] = r
      BY <1>2, <1>4
    <2>. QED
      BY <1>3, <2>1, <2>2, <2>3 DEF InTurns
  <1>5. CASE stream[l] # <<>>
    <2>1. Len(stream[l]) \in 1..Len(stream[l])
      BY <1>1, <1>5
    <2>2. Follows(stream[l][Len(stream[l])], r)
      BY <1>5, <2>1 DEF Due, Follows
    <2>3. ASSUME NEW i \in 1..Len(stream[l])
          PROVE  Follows(stream'[l][i], stream'[l][i + 1])
      <3>1. CASE i = Len(stream[l])
        BY <1>2, <2>1, <2>2, <3>1
      <3>2. CASE i # Len(stream[l])
        <4>1. i \in 1..(Len(stream[l]) - 1) /\ i + 1 \in 1..Len(stream[l])
          BY <1>2, <3>2
        <4>. QED
          BY <1>2, <4>1 DEF InTurns
      <3>. QED
        BY <3>1, <3>2
    <2>4. stream'[l][1] = stream[l][1] /\ Len(stream'[l]) - 1 = Len(stream[l])
      BY <1>2, <2>1
    <2>. QED
      BY <1>3, <1>5, <2>3, <2>4 DEF InTurns
  <1>. QED
    BY <1>4, <1>5

\* A record is read, and the receiver expects what it announces or, when it has
\* closed the connection, nothing.
LEMMA InTurnsRead ==
    ASSUME TypeOK, NEW l \in Link, InTurns(l), stream[l] # <<>>,
           stream'[l] = Tail(stream[l]),
           \/ rpc'[l] = "closed"
           \/ rpc[l] = "chunk" /\ rpc'[l] = "header"
           \/ /\ rpc[l] = "header" /\ rpc'[l] = "chunk"
              /\ rtask'[l] = Head(stream[l]).task /\ rtask'[l] \in Transfer
    PROVE  /\ InTurns(l)'
           /\ rpc'[l] # "closed" \/ Head(stream[l]) = Shutdown => Due(l)' = Due(l)
  <1>1. stream[l] \in Seq(Records)
    BY DEF TypeOK
  <1>2. /\ Len(stream[l]) \in Nat \ {0} /\ Head(stream[l]) = stream[l][1]
        /\ Len(stream'[l]) = Len(stream[l]) - 1
        /\ \A i \in 1..(Len(stream[l]) - 1) : stream'[l][i] = stream[l][i + 1]
        /\ stream'[l] \in Seq(Records)
    BY <1>1
  <1>6. stream'[l] = <<>> <=> Len(stream[l]) = 1
    <2>1. stream'[l] = <<>> <=> Len(stream'[l]) = 0
      BY <1>2, EmptySeq
    <2>. QED
      BY <1>2, <2>1
  <1>3. \A i \in 1..(Len(stream'[l]) - 1) : Follows(stream'[l][i], stream'[l][i + 1])
    <2>1. \A i \in 1..(Len(stream'[l]) - 1) :
             /\ i \in 1..(Len(stream[l]) - 1)
             /\ i + 1 \in 1..(Len(stream[l]) - 1)
      BY <1>2
    <2>. QED
      BY <1>2, <2>1 DEF InTurns
  <1>4. CASE Len(stream[l]) = 1
    <2>1. InTurns(l)'
      BY <1>2, <1>6, <1>3, <1>4 DEF InTurns
    <2>2. ASSUME rpc'[l] # "closed" \/ Head(stream[l]) = Shutdown
          PROVE  Due(l)' = Due(l)
      BY <1>2, <1>6, <1>4, <2>2, ClusterAssumption
         DEF Due, InTurns, Chunk, Shutdown, Header
    <2>. QED
      BY <2>1, <2>2
  <1>5. CASE Len(stream[l]) # 1
    <2>1. /\ 1 \in 1..(Len(stream[l]) - 1)
          /\ Len(stream'[l]) \in 1..(Len(stream[l]) - 1)
          /\ Len(stream'[l]) + 1 = Len(stream[l])
      BY <1>2, <1>6, <1>5
    <2>2. Follows(stream[l][1], stream'[l][1])
      BY <1>2, <1>6, <2>1 DEF InTurns
    <2>3. Due(l)' = Due(l)
      BY <1>2, <1>6, <1>5, <2>1 DEF Due
    <2>4. InTurns(l)'
      <3>1. CASE rpc'[l] = "closed"
        BY <1>3, <3>1 DEF InTurns
      <3>2. CASE rpc[l] = "chunk" /\ rpc'[l] = "header"
        <4>1. stream[l][1].kind = "chunk"
          BY <3>2 DEF InTurns, Chunk
        <4>. QED
          BY <1>3, <2>2, <3>2, <4>1 DEF InTurns, Follows
      <3>3. CASE /\ rpc[l] = "header" /\ rpc'[l] = "chunk"
                 /\ rtask'[l] = Head(stream[l]).task /\ rtask'[l] \in Transfer
        <4>1. stream[l][1].kind = "header" /\ stream[l][1].task = rtask'[l]
          BY <1>2, <3>3 DEF InTurns
        <4>2. stream'[l][1] = Chunk(rtask'[l])
          BY <2>2, <3>3, <4>1, ClusterAssumption DEF Follows
        <4>. QED
          BY <1>3, <3>3, <4>2 DEF InTurns
      <3>. QED
        BY <3>1, <3>2, <3>3
    <2>. QED
      BY <2>3, <2>4
  <1>. QED
    BY <1>4, <1>5

\* A step of a process that writes and reads nothing.
LEMMA FramedIdle ==
    ASSUME TypeOK, Busy, Framed, [Next]_vars, UNCHANGED <<stream, rtask>>,
           \A l \in Link :
              \/ rpc'[l] = rpc[l]
              \/ /\ rpc[l] \in {"none", "gate", "header"}
                 /\ rpc'[l] \in {"gate", "header"},
           \A h \in Host : shut[h] \subseteq shut'[h],
           \A x \in Thread : /\ pc'[x] = "chunk" <=> pc[x] = "chunk"
                             /\ pc[x] = "chunk" => hand'[x] = hand[x]
    PROVE  Framed'
  <1>1. \A h \in Host : Dead(h) => Dead(h)'
    BY Lasting
  <1>2. ASSUME NEW l \in Link PROVE FramedAt(l)'
    <2>1. l[1] \in Host
      BY DEF Link
    <2>2. \A x \in Thread : /\ AtChunk(x, l)' <=> AtChunk(x, l)
                            /\ AtChunk(x, l) => hand'[x] = hand[x]
      BY DEF AtChunk, Dest
    <2>. QED
      BY <1>1, <2>1, <2>2, FramedKept DEF Framed
  <1>. QED
    BY <1>2 DEF Framed

\* A thread writes its header where nobody else is between header and chunk.
LEMMA FramedHeader ==
    ASSUME TypeOK, Busy, Routed, Framed, [Next]_vars,
           NEW x \in Thread, SendHeader(x) \/ PerishSending(x), ~Dead(owner[x])
    PROVE  Framed'
  <1>0. PICK m \in Link : m = <<owner[x], Dest(x)>>
    BY DestLink DEF SendHeader, PerishSending, AtHeader
  <1>1. /\ AtHeader(x) /\ pc[x] = "header" /\ LockFree(x)
        /\ Write(owner[x], Dest(x), Header(hand[x]))
        /\ UNCHANGED <<rpc, rtask, shut>>
    BY DEF SendHeader, PerishSending, AtHeader, WriteHeader, server_vars, client_vars
  <1>2. /\ m \in Link /\ m[1] = owner[x] /\ hand[x] \in Transfer
        /\ stream' = [stream EXCEPT ![m] = Append(@, Header(hand[x]))]
    BY <1>0, <1>1, DestLink DEF Write
  <1>3. Header(hand[x]) \in Records /\ Header(hand[x]).kind = "header"
    BY <1>2 DEF Header, Records
  <1>4. \A h \in Host : Dead(h) => Dead(h)'
    BY Lasting
  <1>5. \A l \in Link : l # m => stream'[l] = stream[l]
    BY <1>2 DEF TypeOK
  <1>6. \A y \in Thread : y # x => pc'[y] = pc[y] /\ hand'[y] = hand[y]
    BY DEF SendHeader, PerishSending, queue_vars, TypeOK
  <1>7. \A y \in Thread, l \in Link :
           y # x \/ l # m => /\ AtChunk(y, l)' <=> AtChunk(y, l)
                             /\ AtChunk(y, l) => hand'[y] = hand[y]
    <2>1. ASSUME NEW y \in Thread, NEW l \in Link, y # x
          PROVE  /\ AtChunk(y, l)' <=> AtChunk(y, l)
                 /\ AtChunk(y, l) => hand'[y] = hand[y]
      BY <1>6, <2>1 DEF AtChunk, Dest
    <2>2. ASSUME NEW l \in Link, l # m
          PROVE  ~AtChunk(x, l)' /\ ~AtChunk(x, l)
      <3>1. CASE pc'[x] = "chunk"
        <4>1. hand'[x] = hand[x]
          BY <3>1, <1>1 DEF SendHeader, PerishSending, queue_vars, TypeOK
        <4>. QED
          BY <1>0, <1>1, <2>2, <4>1 DEF AtChunk, Dest
      <3>2. CASE pc'[x] # "chunk"
        BY <1>1, <3>2 DEF AtChunk
      <3>. QED
        BY <3>1, <3>2
    <2>. QED
      BY <2>1, <2>2
  <1>8. ASSUME NEW l \in Link, l # m PROVE FramedAt(l)'
    BY <1>1, <1>4, <1>5, <1>7, <1>8, FramedKept DEF Framed, Link
  <1>9. FramedAt(m)'
    <2>1. FramedAt(m) /\ stream'[m] = Append(stream[m], Header(hand[x]))
      BY <1>2 DEF Framed, TypeOK
    <2>2. CASE owner[x] = Master
      <3>1. Elems(stream'[m]) = Elems(stream[m]) \cup {Header(hand[x])}
        BY <1>2, <1>3, <2>1, ElemsAppend DEF TypeOK
      <3>. QED
        BY <1>1, <1>2, <1>3, <2>1, <2>2, <3>1 DEF FramedAt
    <2>3. CASE owner[x] # Master
      <3>1. InTurns(m) /\ ClosedLast(m) /\ OneWriter(m)
        BY <1>2, <2>1, <2>3 DEF FramedAt
      <3>2. \A y \in Thread : ~AtChunk(y, m)
        BY <1>0, <1>1 DEF LockFree, AtChunk
      <3>3. Due(m) = NoTask
        BY <3>1, <3>2 DEF OneWriter
      <3>4. rpc[m] # "closed"
        <4>1. shut[owner[x]] = {}
          BY <1>1, ClusterAssumption DEF Busy
        <4>. QED
          BY <1>2, <3>1, <4>1 DEF ClosedLast
      <3>5. InTurns(m)' /\ Due(m)' = hand[x]
        <4>1. Header(hand[x]).task = hand[x]
          BY DEF Header
        <4>. QED
          BY <1>1, <1>2, <1>3, <2>1, <3>1, <3>3, <3>4, <4>1, InTurnsWrite
      <3>6. ClosedLast(m)'
        <4>1. Elems(stream'[m]) = Elems(stream[m]) \cup {Header(hand[x])}
          BY <1>2, <1>3, <2>1, ElemsAppend DEF TypeOK
        <4>2. Header(hand[x]).task # NoTask
          BY <1>2, ClusterAssumption DEF Header
        <4>. QED
          BY <1>1, <1>2, <1>4, <3>1, <4>1, <4>2 DEF ClosedLast, Link
      <3>7. CASE SendHeader(x)
        <4>1. pc'[x] = "chunk" /\ hand'[x] = hand[x]
          BY <2>3, <3>7 DEF SendHeader, TypeOK
        <4>2. AtChunk(x, m)'
          BY <1>0, <4>1 DEF AtChunk, Dest
        <4>3. \A y \in Thread : AtChunk(y, m)' => y = x
          BY <1>2, <1>7, <3>2
        <4>4. OneWriter(m)'
          BY <3>5, <4>1, <4>2, <4>3 DEF OneWriter
        <4>. QED
          BY <1>2, <2>3, <3>5, <3>6, <4>4 DEF FramedAt
      <3>8. CASE PerishSending(x)
        <4>1. Dead(owner[x])'
          BY <3>8, ClusterAssumption DEF PerishSending, Dead, TypeOK
        <4>. QED
          BY <1>2, <2>3, <3>5, <3>6, <4>1 DEF FramedAt
      <3>. QED
        BY <3>7, <3>8
    <2>. QED
      BY <2>2, <2>3
  <1>. QED
    BY <1>8, <1>9 DEF Framed

\* The thread that owes the chunk writes it.
LEMMA FramedChunk ==
    ASSUME TypeOK, Busy, Routed, Framed, [Next]_vars,
           NEW x \in Thread, SendChunk(x), ~Dead(owner[x])
    PROVE  Framed'
  <1>0. PICK m \in Link : m = <<owner[x], Dest(x)>>
    BY DestLink DEF SendChunk
  <1>1. /\ pc[x] = "chunk" /\ Write(owner[x], Dest(x), Chunk(hand[x]))
        /\ UNCHANGED <<rpc, rtask, shut>>
    BY DEF SendChunk, server_vars, client_vars
  <1>2. /\ m \in Link /\ m[1] = owner[x] /\ hand[x] \in Transfer
        /\ stream' = [stream EXCEPT ![m] = Append(@, Chunk(hand[x]))]
    BY <1>0, <1>1, DestLink DEF Write
  <1>3. Chunk(hand[x]) \in Records /\ Chunk(hand[x]).kind = "chunk"
    BY <1>2 DEF Chunk, Records
  <1>4. \A h \in Host : Dead(h) => Dead(h)'
    BY Lasting
  <1>5. \A l \in Link : l # m => stream'[l] = stream[l]
    BY <1>2 DEF TypeOK
  <1>6. /\ \A y \in Thread : y # x => pc'[y] = pc[y] /\ hand'[y] = hand[y]
        /\ pc'[x] = "ready"
    BY DEF SendChunk, TypeOK
  <1>7. \A y \in Thread, l \in Link :
           y # x => /\ AtChunk(y, l)' <=> AtChunk(y, l)
                    /\ AtChunk(y, l) => hand'[y] = hand[y]
    BY <1>6 DEF AtChunk, Dest
  <1>8. ASSUME NEW l \in Link, l # m PROVE FramedAt(l)'
    <2>1. ~AtChunk(x, l) /\ ~AtChunk(x, l)'
      BY <1>0, <1>6, <1>8 DEF AtChunk
    <2>. QED
      BY <1>1, <1>4, <1>5, <1>7, <1>8, <2>1, FramedKept DEF Framed, Link
  <1>9. FramedAt(m)'
    <2>1. FramedAt(m) /\ stream'[m] = Append(stream[m], Chunk(hand[x]))
      BY <1>2 DEF Framed, TypeOK
    <2>2. owner[x] # Master
      BY <1>1 DEF Busy
    <2>3. InTurns(m) /\ ClosedLast(m) /\ OneWriter(m)
      BY <1>2, <2>1, <2>2 DEF FramedAt
    <2>4. AtChunk(x, m)
      BY <1>0, <1>1 DEF AtChunk
    <2>5. Due(m) = hand[x] /\ Due(m) # NoTask
      BY <1>2, <2>3, <2>4, ClusterAssumption DEF OneWriter
    <2>6. rpc[m] # "closed"
      <3>1. shut[owner[x]] = {}
        BY <1>1, ClusterAssumption DEF Busy
      <3>. QED
        BY <1>2, <2>3, <3>1 DEF ClosedLast
    <2>7. InTurns(m)' /\ Due(m)' = NoTask
      BY <1>1, <1>2, <1>3, <2>1, <2>3, <2>5, <2>6, InTurnsWrite
    <2>8. ClosedLast(m)'
      <3>1. Elems(stream'[m]) = Elems(stream[m]) \cup {Chunk(hand[x])}
        BY <1>2, <1>3, <2>1, ElemsAppend DEF TypeOK
      <3>. QED
        BY <1>1, <1>2, <1>3, <1>4, <2>3, <3>1 DEF ClosedLast, Link
    <2>9. \A y \in Thread : ~AtChunk(y, m)'
      <3>1. ~AtChunk(x, m)'
        BY <1>6 DEF AtChunk
      <3>. QED
        BY <1>2, <1>7, <2>3, <2>4, <3>1 DEF OneWriter
    <2>10. OneWriter(m)'
      BY <2>7, <2>9 DEF OneWriter
    <2>. QED
      BY <1>2, <2>2, <2>7, <2>8, <2>10 DEF FramedAt
  <1>. QED
    BY <1>8, <1>9 DEF Framed

\* One connection is read, or shut down.
LEMMA FramedElsewhere ==
    ASSUME TypeOK, Framed, [Next]_vars, NEW l \in Link, UNCHANGED <<pc, hand>>,
           \A h \in Host : shut[h] \subseteq shut'[h],
           \A k \in Link : k # l => /\ stream'[k] = stream[k]
                                  /\ rpc'[k] = rpc[k] /\ rtask'[k] = rtask[k],
           FramedAt(l)'
    PROVE  Framed'
  <1>1. \A h \in Host : Dead(h) => Dead(h)'
    BY Lasting
  <1>2. ASSUME NEW k \in Link, k # l PROVE FramedAt(k)'
    <2>1. k[1] \in Host
      BY DEF Link
    <2>2. \A x \in Thread : /\ AtChunk(x, k)' <=> AtChunk(x, k)
                            /\ AtChunk(x, k) => hand'[x] = hand[x]
      BY DEF AtChunk, Dest
    <2>. QED
      BY <1>1, <1>2, <2>1, <2>2, FramedKept DEF Framed
  <1>. QED
    BY <1>2 DEF Framed

\* A thread at its chunk has a client that has not begun to close.
LEMMA NotShut ==
    ASSUME Busy, NEW l \in Link, NEW x \in Thread, AtChunk(x, l)
    PROVE  l[1] # Master /\ shut[l[1]] = {}
  <1>1. l[1] = owner[x] /\ pc[x] = "chunk" /\ l[1] \in Host
    BY DEF AtChunk, Link
  <1>. QED
    BY <1>1 DEF Busy

\* A receiver that waits for a chunk and finds the end lost its sender to death.
LEMMA TornDead ==
    ASSUME TypeOK, Busy, Framed, NEW l \in Link, l[1] # Master,
           rpc[l] = "chunk", stream[l] = <<>>, Dead(l[1]) \/ l[2] \in shut[l[1]]
    PROVE  Dead(l[1])
  <1>1. SUFFICES ASSUME ~Dead(l[1]) PROVE FALSE
    OBVIOUS
  <1>2. InTurns(l) /\ OneWriter(l)
    BY <1>1 DEF Framed, FramedAt
  <1>3. Due(l) # NoTask
    BY <1>2, ClusterAssumption DEF Due, InTurns
  <1>4. PICK x \in Thread : AtChunk(x, l)
    BY <1>2, <1>3 DEF OneWriter
  <1>. QED
    BY <1>1, <1>4, NotShut

LEMMA FramedShutdown ==
    ASSUME TypeOK, Busy, Framed, [Next]_vars,
           NEW g \in Host, NEW h \in Node, SendShutdown(g, h), ~Dead(g)
    PROVE  Framed'
  <1>0. PICK m \in Link : m = <<g, h>>
    BY DEF SendShutdown, AtShutdown, Others, Link
  <1>1. /\ client[g] = "closing" /\ h \notin shut[g]
        /\ shut' = [shut EXCEPT ![g] = @ \cup {h}]
        /\ stream' = [stream EXCEPT ![m] = Append(@, Shutdown)]
        /\ UNCHANGED <<rpc, rtask, pc, hand>>
    BY <1>0 DEF SendShutdown, AtShutdown, Write, queue_vars, server_vars
  <1>2. /\ Shutdown \in Records /\ Shutdown.kind = "header"
        /\ Shutdown.task = NoTask
    BY DEF Shutdown, Header, Records
  <1>3. /\ \A l \in Link : l # m => stream'[l] = stream[l]
        /\ stream'[m] = Append(stream[m], Shutdown)
        /\ h \in shut'[g] /\ \A i \in Host : shut[i] \subseteq shut'[i]
    BY <1>1 DEF TypeOK
  <1>4. Elems(stream'[m]) = Elems(stream[m]) \cup {Shutdown}
    BY <1>2, <1>3, ElemsAppend DEF TypeOK
  <1>5. FramedAt(m)'
    <2>1. FramedAt(m) /\ m[1] = g /\ m[2] = h
      BY <1>0 DEF Framed
    <2>2. CASE g = Master
      BY <1>1, <1>2, <1>4, <2>1, <2>2 DEF FramedAt
    <2>3. CASE g # Master
      <3>1. InTurns(m) /\ ClosedLast(m) /\ OneWriter(m)
        BY <2>1, <2>3 DEF FramedAt
      <3>2. \A x \in Thread : ~AtChunk(x, m)
        BY <1>0, <1>1 DEF AtChunk, Busy
      <3>3. Due(m) = NoTask /\ rpc[m] # "closed"
        BY <1>1, <2>1, <3>1, <3>2 DEF OneWriter, ClosedLast
      <3>4. InTurns(m)' /\ Due(m)' = NoTask
        BY <1>1, <1>2, <1>3, <3>1, <3>3, InTurnsWrite
      <3>5. ClosedLast(m)'
        BY <1>3, <2>1 DEF ClosedLast
      <3>6. \A x \in Thread : ~AtChunk(x, m)'
        BY <1>1, <3>2 DEF AtChunk, Dest
      <3>7. OneWriter(m)'
        BY <3>4, <3>6 DEF OneWriter
      <3>. QED
        BY <2>1, <2>3, <3>4, <3>5, <3>7 DEF FramedAt
    <2>. QED
      BY <2>2, <2>3
  <1>. QED
    BY <1>1, <1>3, <1>5, FramedElsewhere

LEMMA FramedRead ==
    ASSUME TypeOK, Busy, Framed, [Next]_vars, NEW g \in Host, NEW h \in Node,
           NEW l \in Link, l = <<g, h>>,
           RecvHeader(g, h) \/ RecvChunk(g, h)
    PROVE  FramedAt(l)'
  <1>1. /\ l[1] = g /\ l[2] = h /\ g # Master /\ UNCHANGED <<pc, hand, shut>>
        /\ InTurns(l) /\ ClosedLast(l) /\ (Dead(g) \/ OneWriter(l))
    BY DEF RecvHeader, RecvChunk, Framed, FramedAt, queue_vars, client_vars
  <1>2. Dead(g) => Dead(g)'
    BY Lasting
  <1>3. ASSUME Due(l)' = Due(l) PROVE Dead(g)' \/ OneWriter(l)'
    <2>1. \A x \in Thread : AtChunk(x, l)' <=> AtChunk(x, l)
      BY <1>1 DEF AtChunk, Dest
    <2>. QED
      BY <1>1, <1>2, <1>3, <2>1 DEF OneWriter
  <1>4. ASSUME stream[l] # <<>>
        PROVE  /\ Head(stream[l]) = stream[l][1]
               /\ Head(stream[l]) \in Elems(stream[l])
               /\ Elems(Tail(stream[l])) \subseteq Elems(stream[l])
               /\ Head(stream[l]) \in Records
    <2>1. stream[l] \in Seq(Records)
      BY DEF TypeOK
    <2>. QED
      BY <1>4, <2>1, ElemsTail
  <1>5. CASE RecvHeader(g, h)
    <2>1. PICK t \in ReadTask(g, h) : rtask' = [rtask EXCEPT ![<<g, h>>] = t]
      BY <1>5 DEF RecvHeader
    <2>2. /\ rpc[l] = "header" /\ stream[l] # <<>> /\ stream'[l] = Tail(stream[l])
          /\ rtask'[l] = t /\ rpc'[l] = IF t = NoTask THEN "closed" ELSE "chunk"
          /\ \/ t = Head(stream[l]).task
             \/ t = NoTask /\ <<g, Head(stream[l]).task>> \in cut
          /\ t \in Transfer \cup {NoTask}
      <3>1. /\ rpc[l] = "header" /\ stream[l] # <<>>
            /\ stream' = [stream EXCEPT ![l] = Tail(@)]
            /\ rtask' = [rtask EXCEPT ![l] = t]
            /\ rpc' = [rpc EXCEPT ![l] =
                          IF rtask'[l] = NoTask THEN "closed" ELSE "chunk"]
        BY <1>5, <2>1 DEF RecvHeader, Read
      <3>2. g # h
        BY DEF Link
      <3>3. t \in Transfer \cup {NoTask}
        BY <2>1, <3>1, <3>2, ReadTaskType
      <3>4. \/ t = Head(stream[l]).task
            \/ t = NoTask /\ <<g, Head(stream[l]).task>> \in cut
        BY <2>1 DEF ReadTask
      <3>. QED
        BY <3>1, <3>3, <3>4 DEF TypeOK
    <2>3. Head(stream[l]).kind = "header"
      BY <1>1, <1>4, <2>2 DEF InTurns
    <2>4. InTurns(l)' /\ (t # NoTask \/ Head(stream[l]) = Shutdown => Due(l)' = Due(l))
      BY <1>1, <2>2, InTurnsRead
    <2>5. Dead(g) \/ t = Head(stream[l]).task
      BY <1>4, <2>2 DEF Busy, Records
    <2>6. t = NoTask /\ ~Dead(g) => Head(stream[l]) = Shutdown /\ h \in shut[g]
      <3>1. SUFFICES ASSUME t = NoTask, ~Dead(g)
                     PROVE  Head(stream[l]) = Shutdown /\ h \in shut[g]
        OBVIOUS
      <3>2. Head(stream[l]).task = NoTask
        BY <2>5, <3>1
      <3>3. Head(stream[l]) = Shutdown
        BY <1>4, <2>2, <2>3, <3>2 DEF Shutdown, Header, Records
      <3>. QED
        BY <1>1, <1>4, <2>2, <2>3, <3>2, <3>3 DEF ClosedLast
    <2>7. ClosedLast(l)'
      BY <1>1, <1>2, <1>4, <2>2, <2>6 DEF ClosedLast
    <2>. QED
      BY <1>1, <1>2, <1>3, <2>4, <2>6, <2>7 DEF FramedAt
  <1>6. CASE RecvChunk(g, h) /\ stream[l] # <<>>
    <2>1. /\ rpc[l] = "chunk" /\ rpc'[l] = "header" /\ stream'[l] = Tail(stream[l])
      BY <1>6 DEF RecvChunk, Read, AtEnd, TypeOK
    <2>2. InTurns(l)' /\ Due(l)' = Due(l)
      BY <1>1, <1>6, <2>1, InTurnsRead
    <2>3. ClosedLast(l)'
      BY <1>1, <1>4, <1>6, <2>1 DEF ClosedLast
    <2>. QED
      BY <1>1, <1>3, <2>2, <2>3 DEF FramedAt
  <1>7. CASE RecvChunk(g, h) /\ stream[l] = <<>>
    <2>1. /\ rpc[l] = "chunk" /\ rpc'[l] = "header" /\ stream'[l] = <<>>
          /\ Dead(g) \/ h \in shut[g]
      BY <1>7 DEF RecvChunk, AtEnd, TypeOK
    <2>2. Dead(g)'
      BY <1>1, <1>2, <1>7, <2>1, TornDead
    <2>3. InTurns(l)' /\ ClosedLast(l)'
      <3>1. Elems(stream'[l]) = {} /\ \A i \in 1..(Len(stream'[l]) - 1) : FALSE
        BY <2>1 DEF Elems
      <3>. QED
        BY <2>1, <3>1 DEF InTurns, ClosedLast
    <2>. QED
      BY <1>1, <2>2, <2>3 DEF FramedAt
  <1>. QED
    BY <1>5, <1>6, <1>7

LEMMA FramedStep ==
    ASSUME TypeOK, Busy, Routed, Framed, [Next]_vars PROVE Framed'
  <1>1. CASE UNCHANGED vars
    BY <1>1, FramedIdle DEF vars, client_vars, queue_vars, server_vars
  <1>2. ASSUME NEW h \in Host, ~Dead(h), HostStep(h) \/ DeathStep(h) PROVE Framed'
    <2>. USE DEF client_vars, queue_vars, server_vars
    <2>1. ASSUME UNCHANGED <<stream, rpc, rtask, shut, pc, hand>> PROVE Framed'
      BY <2>1, FramedIdle
    <2>2. ASSUME Die(h) PROVE Framed'
      BY <2>1, <2>2 DEF Die
    <2>3. CASE Construct(h) \/ StartClient(h) \/ JoinClient(h) \/ JoinAccept(h)
               \/ TakeTask(h) \/ TakeStop(h) \/ JoinServer(h) \/ OpenGate(h)
               \/ FinishPlan \/ StartThreads(h) \/ JoinThreads(h)
      BY <2>1, <2>3 DEF Construct, StartClient, JoinClient, JoinAccept, TakeTask,
         TakeStop, JoinServer, OpenGate, FinishPlan, StartThreads, JoinThreads
    <2>4. ASSUME NEW t \in Transfer, AddTask(t) PROVE Framed'
      BY <2>1, <2>4 DEF AddTask
    <2>5. ASSUME NEW i \in Node, Connect(h, i) \/ ReadFlag(h, i) PROVE Framed'
      BY <2>1, <2>5 DEF Connect, ReadFlag
    <2>6. ASSUME NEW i \in Node, SendShutdown(h, i) PROVE Framed'
      BY <1>2, <2>6, FramedShutdown
    <2>7. ASSUME NEW x \in Thread, Get(x) \/ Leave(x) PROVE Framed'
      BY <2>7, FramedIdle DEF Get, Leave, TypeOK
    <2>8. ASSUME NEW x \in Thread, owner[x] = h,
                 SendHeader(x) \/ SendChunk(x) \/ PerishSending(x)
          PROVE  Framed'
      BY <1>2, <2>8, FramedHeader, FramedChunk
    <2>9. ASSUME NEW g \in Host, <<g, h>> \in Link, Accept(g, h) \/ PassGate(g, h)
          PROVE  Framed'
      BY <2>9, FramedIdle DEF Accept, PassGate, TypeOK
    <2>10. ASSUME NEW g \in Host, <<g, h>> \in Link,
                  RecvHeader(g, h) \/ RecvChunk(g, h)
           PROVE  Framed'
      <3>1. PICK l \in Link : l = <<g, h>>
        BY <2>10
      <3>2. FramedAt(l)'
        BY <2>10, <3>1, FramedRead DEF Link
      <3>3. /\ UNCHANGED <<pc, hand, shut>>
            /\ \A k \in Link : k # l => /\ stream'[k] = stream[k]
                                       /\ rpc'[k] = rpc[k] /\ rtask'[k] = rtask[k]
        BY <2>10, <3>1 DEF RecvHeader, RecvChunk, Read, TypeOK
      <3>. QED
        BY <3>2, <3>3, FramedElsewhere
    <2>11. ASSUME NEW g \in Host, NEW l \in Link, l = <<g, h>>, AtEnd(g, h),
                  rpc[l] = "header", rpc' = [rpc EXCEPT ![l] = "closed"],
                  UNCHANGED <<pc, hand, shut, stream, rtask>>
           PROVE  Framed'
      <3>1. /\ stream[l] = <<>> /\ rpc'[l] = "closed"
            /\ Dead(l[1]) \/ l[2] \in shut[l[1]]
            /\ l[1] = g /\ FramedAt(l)
        BY <2>11 DEF AtEnd, TypeOK, Framed
      <3>2. Dead(g) => Dead(g)'
        BY Lasting
      <3>3. Due(l)' = Due(l)
        BY <2>11, <3>1 DEF Due
      <3>4. \A x \in Thread : AtChunk(x, l)' <=> AtChunk(x, l)
        BY <2>11 DEF AtChunk, Dest
      <3>5. OneWriter(l) => OneWriter(l)'
        BY <2>11, <3>3, <3>4 DEF OneWriter
      <3>6. FramedAt(l)'
        BY <2>11, <3>1, <3>2, <3>5 DEF FramedAt, InTurns, ClosedLast
      <3>7. \A k \in Link : k # l => rpc'[k] = rpc[k]
        BY <2>11 DEF TypeOK
      <3>. QED
        BY <2>11, <3>6, <3>7, FramedElsewhere
    <2>12. ASSUME NEW g \in Host, <<g, h>> \in Link, RecvEnds(g, h) PROVE Framed'
      BY <2>11, <2>12 DEF RecvEnds
    <2>13. ASSUME h \in Node, QueueEnds(h) PROVE Framed'
      <3>1. Master \in Host /\ <<Master, h>> \in Link
        BY <2>13, ClusterAssumption DEF Link, Master, Host, Node
      <3>. QED
        BY <2>11, <2>13, <3>1 DEF QueueEnds
    <2>14. ASSUME h \in Node, QueueTask(h) PROVE Framed'
      <3>0. <<Master, h>> \in Link
        BY <2>14, ClusterAssumption DEF Link, Master, Host, Node
      <3>1. PICK l \in Link : l = <<Master, h>>
        BY <3>0
      <3>2. /\ stream[l] # <<>> /\ stream'[l] = Tail(stream[l])
            /\ \A k \in Link : k # l => stream'[k] = stream[k]
            /\ UNCHANGED <<rpc, rtask, pc, hand, shut>>
        BY <2>14, <3>1 DEF QueueTask, Read, TypeOK
      <3>3. Elems(stream'[l]) \subseteq Elems(stream[l])
        BY <3>2, ElemsTail DEF TypeOK
      <3>4. FramedAt(l)'
        BY <3>1, <3>2, <3>3 DEF Framed, FramedAt
      <3>. QED
        BY <3>2, <3>4, FramedElsewhere
    <2>. QED
      BY <1>2, StepCases, <2>2, <2>3, <2>4, <2>5, <2>6, <2>7, <2>8, <2>9,
         <2>10, <2>12, <2>13, <2>14
         DEF FlagFails, ShutdownFails, HeaderFails, SendFlagFails, Perish
  <1>. QED
    BY <1>1, <1>2 DEF Next

LEMMA FramedHolds == Spec => [](Busy /\ Routed /\ Framed)
  <1>1. Init => Busy /\ Routed /\ Framed
    <2>1. Elems(<<>>) = {}
      BY DEF Elems
    <2>2. Init => Busy
      BY DEF Init, Busy
    <2>3. Init => Routed
      BY <2>1 DEF Init, Routed, Node, Host
    <2>4. ASSUME Init PROVE Framed
      <3>1. ASSUME NEW l \in Link PROVE FramedAt(l)
        <4>1. stream[l] = <<>> /\ rpc[l] = "none" /\ l[1] \in Host
          BY <2>4 DEF Init, Link
        <4>2. Due(l) = NoTask
          BY <4>1 DEF Due
        <4>3. \A x \in Thread : ~AtChunk(x, l)
          BY <2>4 DEF Init, AtChunk
        <4>4. InTurns(l)
          BY <4>1 DEF InTurns
        <4>5. ClosedLast(l) /\ OneWriter(l)
          BY <2>1, <4>1, <4>2, <4>3 DEF ClosedLast, OneWriter
        <4>. QED
          BY <2>1, <4>1, <4>4, <4>5 DEF FramedAt
      <3>. QED
        BY <3>1 DEF Framed
    <2>. QED
      BY <2>2, <2>3, <2>4
  <1>. QED
    BY <1>1, TypeCorrect, BusyStep, RoutedStep, FramedStep, PTL DEF Spec

\* What a receiver finds is what it takes it for (Cluster, StreamsFramed).
THEOREM StreamsFramedHolds == Spec => []StreamsFramed
  <1>1. TypeOK /\ Framed => StreamsFramed
    <2>1. SUFFICES ASSUME TypeOK, Framed, NEW l \in Link, stream[l] # <<>>
                   PROVE  /\ rpc[l] = "header" => Head(stream[l]).kind = "header"
                          /\ rpc[l] = "chunk" => Head(stream[l]) = Chunk(rtask[l])
      BY DEF StreamsFramed
    <2>2. Head(stream[l]) = stream[l][1] /\ Head(stream[l]) \in Elems(stream[l])
      BY <2>1, ElemsTail DEF TypeOK
    <2>. QED
      BY <2>1, <2>2 DEF Framed, FramedAt, InTurns
  <1>. QED
    BY <1>1, TypeCorrect, FramedHolds, PTL

-----------------------------------------------------------------------------
(* Torn chunks *)

\* Nothing more will come on a connection whose sender has died.
Drained(l) == Dead(l[1]) /\ stream[l] = <<>> /\ rpc[l] \in {"header", "closed"}

Way(t) == <<source[t], target[t]>>
Torn(t) == "torn" \in Elems(stored[t])

TornLast ==
    /\ \A t \in Transfer : Torn(t) => Drained(Way(t))
    /\ \A t, u \in Transfer : Torn(t) /\ Torn(u) /\ Way(t) = Way(u) => t = u

LEMMA DrainedLasts ==
    ASSUME TypeOK, Busy, Routed, [Next]_vars, NEW l \in Link, Drained(l)
    PROVE  Drained(l)'
  <1>1. Dead(l[1])' /\ stream[l] = <<>> /\ rpc[l] \in {"header", "closed"}
    BY Lasting DEF Drained, Link
  <1>2. CASE UNCHANGED vars
    BY <1>1, <1>2 DEF Drained, vars, server_vars
  <1>3. ASSUME NEW h \in Host, ~Dead(h), HostStep(h) \/ DeathStep(h)
        PROVE  Drained(l)'
    <2>. USE DEF client_vars, queue_vars, server_vars
    <2>0. l[1] # h
      BY <1>3 DEF Drained
    <2>1. ASSUME UNCHANGED <<stream, rpc>> PROVE Drained(l)'
      BY <1>1, <2>1 DEF Drained
    <2>2. ASSUME Die(h) PROVE Drained(l)'
      BY <2>1, <2>2 DEF Die
    <2>3. CASE Construct(h) \/ StartClient(h) \/ JoinClient(h) \/ JoinAccept(h)
               \/ TakeTask(h) \/ TakeStop(h) \/ JoinServer(h) \/ OpenGate(h)
               \/ FinishPlan \/ StartThreads(h) \/ JoinThreads(h)
      BY <2>1, <2>3 DEF Construct, StartClient, JoinClient, JoinAccept, TakeTask,
         TakeStop, JoinServer, OpenGate, FinishPlan, StartThreads, JoinThreads
    <2>4. ASSUME NEW t \in Transfer, AddTask(t) PROVE Drained(l)'
      BY <2>1, <2>4 DEF AddTask
    <2>5. ASSUME NEW i \in Node, Connect(h, i) \/ ReadFlag(h, i) PROVE Drained(l)'
      BY <2>1, <2>5 DEF Connect, ReadFlag
    <2>6. ASSUME NEW i \in Node, SendShutdown(h, i) PROVE Drained(l)'
      BY <1>1, <2>0, <2>6 DEF SendShutdown, Write, Drained, TypeOK
    <2>7. ASSUME NEW x \in Thread, Get(x) \/ Leave(x) PROVE Drained(l)'
      BY <2>1, <2>7 DEF Get, Leave
    <2>8. ASSUME NEW x \in Thread, owner[x] = h,
                 SendHeader(x) \/ SendChunk(x) \/ PerishSending(x)
          PROVE  Drained(l)'
      <3>1. \E r : Write(owner[x], Dest(x), r)
        BY <2>8 DEF SendHeader, SendChunk, PerishSending, WriteHeader
      <3>2. stream'[l] = stream[l]
        BY <2>0, <2>8, <3>1 DEF Write, TypeOK
      <3>3. UNCHANGED rpc
        BY <2>8 DEF SendHeader, SendChunk, PerishSending
      <3>. QED
        BY <1>1, <3>2, <3>3 DEF Drained
    <2>9. ASSUME NEW g \in Host,
                 \/ Accept(g, h) \/ PassGate(g, h) \/ RecvHeader(g, h)
                 \/ RecvEnds(g, h) \/ RecvChunk(g, h)
          PROVE  Drained(l)'
      <3>1. stream'[l] = stream[l]
        BY <1>1, <2>9 DEF Accept, PassGate, RecvHeader, RecvEnds, RecvChunk, Read,
                          TypeOK
      <3>2. rpc'[l] \in {"header", "closed"}
        BY <1>1, <2>9 DEF Accept, PassGate, RecvHeader, RecvEnds, RecvChunk, TypeOK
      <3>. QED
        BY <1>1, <3>1, <3>2 DEF Drained
    <2>10. CASE QueueTask(h) \/ QueueEnds(h)
      BY <1>1, <2>10 DEF QueueTask, QueueEnds, Read, Drained, TypeOK
    <2>. QED
      BY <1>3, StepCases, <2>2, <2>3, <2>4, <2>5, <2>6, <2>7, <2>8, <2>9, <2>10
         DEF FlagFails, ShutdownFails, HeaderFails, SendFlagFails, Perish
  <1>. QED
    BY <1>2, <1>3 DEF Next

\* A chunk counts as torn from the step in which its receiver finds the end.
LEMMA TornNew ==
    ASSUME TypeOK, Busy, Routed, Framed, [Next]_vars,
           NEW t \in Transfer, ~Torn(t), Torn(t)'
    PROVE  /\ rpc[Way(t)] = "chunk" /\ Drained(Way(t))'
           /\ \A u \in Transfer : u # t => (Torn(u)' <=> Torn(u))
  <1>1. CASE UNCHANGED stored
    BY <1>1 DEF Torn, Elems
  <1>2. ASSUME NEW g \in Host, NEW h \in Node, <<g, h>> \in Link, RecvChunk(g, h)
        PROVE  /\ rpc[Way(t)] = "chunk" /\ Drained(Way(t))'
               /\ \A u \in Transfer : u # t => (Torn(u)' <=> Torn(u))
    <2>1. PICK l \in Link : l = <<g, h>>
      BY <1>2
    <2>2. /\ rpc[l] = "chunk" /\ rpc' = [rpc EXCEPT ![l] = "header"] /\ l[1] # Master
          /\ \E o \in {"whole", "torn"} :
                /\ stored' = [stored EXCEPT ![rtask[l]] = Append(@, o)]
                /\ o = "torn" => AtEnd(g, h) /\ UNCHANGED stream
      BY <1>2, <2>1 DEF RecvChunk
    <2>3. InTurns(l)
      BY <2>2 DEF Framed, FramedAt
    <2>4. rtask[l] \in Transfer /\ l = Way(rtask[l])
      BY <2>2, <2>3, ClusterAssumption DEF InTurns, Routed, OnWay, Way
    <2>5. PICK o \in {"whole", "torn"} :
             /\ stored' = [stored EXCEPT ![rtask[l]] = Append(@, o)]
             /\ o = "torn" => AtEnd(g, h) /\ UNCHANGED stream
      BY <2>2
    <2>6. \A u \in Transfer : u # rtask[l] => stored'[u] = stored[u]
      BY <2>5 DEF TypeOK
    <2>7. t = rtask[l]
      BY <2>6 DEF Torn, Elems
    <2>8. o = "torn"
      <3>1. Elems(stored'[t]) = Elems(stored[t]) \cup {o}
        <4>1. stored[t] \in Seq({"whole", "torn"})
          BY DEF TypeOK
        <4>2. stored'[t] = Append(stored[t], o)
          BY <2>5, <2>7 DEF TypeOK
        <4>. QED
          BY <4>1, <4>2, ElemsAppend
      <3>. QED
        BY <3>1 DEF Torn
    <2>9. Dead(g)
      <3>1. stream[l] = <<>> /\ (Dead(l[1]) \/ l[2] \in shut[l[1]]) /\ l[1] = g
        BY <2>1, <2>5, <2>8 DEF AtEnd
      <3>. QED
        BY <2>2, <3>1, TornDead
    <2>10. Dead(g)' /\ stream'[l] = <<>> /\ rpc'[l] = "header"
      BY <2>1, <2>2, <2>5, <2>8, <2>9, Lasting DEF AtEnd, TypeOK
    <2>11. l[1] = g
      BY <2>1
    <2>12. Drained(l)'
      BY <2>10, <2>11 DEF Drained
    <2>13. \A u \in Transfer : u # t => (Torn(u)' <=> Torn(u))
      BY <2>6, <2>7 DEF Torn, Elems
    <2>14. l = Way(t)
      BY <2>4, <2>7
    <2>. QED
      BY <2>2, <2>12, <2>13, <2>14 DEF Way
  <1>3. ASSUME NEW h \in Host, HostStep(h) \/ DeathStep(h)
        PROVE  \/ UNCHANGED stored
               \/ h \in Node /\ \E g \in Host : <<g, h>> \in Link /\ RecvChunk(g, h)
    BY <1>3, StepCases
       DEF Link, Construct, StartClient, JoinClient, JoinAccept, TakeTask, TakeStop,
           JoinServer, OpenGate, QueueTask, QueueEnds, FinishPlan, AddTask,
           StartThreads, JoinThreads, Connect, ReadFlag, FlagFails, SendShutdown,
           ShutdownFails, Get, Leave, SendHeader, HeaderFails, SendChunk,
           PerishSending, Accept, PassGate, SendFlagFails, RecvHeader, RecvEnds,
           Perish, Die
  <1>. QED
    BY <1>1, <1>2, <1>3 DEF Next, vars

LEMMA TornLastStep ==
    ASSUME TypeOK, Busy, Routed, Framed, TornLast, [Next]_vars PROVE TornLast'
  <1>1. \A t \in Transfer : Way(t) \in Link
    BY ClusterAssumption DEF Way, Link, Host, Node
  <1>2. ASSUME NEW t \in Transfer, Torn(t)' PROVE Drained(Way(t))'
    <2>1. CASE Torn(t)
      <3>1. PICK l \in Link : l = Way(t)
        BY <1>1
      <3>2. Drained(l)'
        BY <2>1, <3>1, DrainedLasts DEF TornLast
      <3>. QED
        BY <3>1, <3>2 DEF Way
    <2>2. CASE ~Torn(t)
      BY <1>2, <2>2, TornNew
    <2>. QED
      BY <2>1, <2>2
  <1>3. ASSUME NEW t \in Transfer, NEW u \in Transfer, Torn(t)', ~Torn(t),
               Torn(u)', Way(t) = Way(u)
        PROVE  t = u
    <2>1. SUFFICES ASSUME t # u PROVE FALSE
      OBVIOUS
    <2>2. rpc[Way(t)] = "chunk" /\ Torn(u)
      BY <1>3, <2>1, TornNew
    <2>. QED
      BY <1>3, <2>2 DEF TornLast, Drained
  <1>4. ASSUME NEW t \in Transfer, NEW u \in Transfer, Torn(t)', Torn(u)',
               Way(t) = Way(u)
        PROVE  t = u
    BY <1>3, <1>4 DEF TornLast
  <1>. QED
    BY <1>2, <1>4 DEF TornLast, Way

\* A chunk is torn by its sender's death only, and one on each connection (Cluster,
\* TornByDeathOnly).
THEOREM TornByDeathOnlyHolds == Spec => []TornByDeathOnly
  <1>1. Init => TornLast
    BY DEF Init, TornLast, Torn, Elems
  <1>2. TornLast => TornByDeathOnly
    <2>1. ASSUME NEW t \in Transfer, stored[t] = <<"torn">> PROVE Torn(t)
      BY <2>1 DEF Torn, Elems
    <2>. QED
      BY <2>1 DEF TornLast, TornByDeathOnly, Drained, Way
  <1>. QED
    BY <1>1, <1>2, TypeCorrect, FramedHolds, TornLastStep, PTL DEF Spec

-----------------------------------------------------------------------------
(* The trace of a transfer *)

\* What the queues, the threads and the connections hold, as sets of transfers;
\* held is what a thread still has to write the header of.
queued == [h \in Host |-> Elems(queue[h])]
inboxed == [h \in Node |-> Elems(inbox[h])]
headers == [l \in Link |-> {t \in Transfer : Header(t) \in Elems(stream[l])}]
Holding(h, t) == {x \in Thread : owner[x] = h /\ hand[x] = t}
hands == [h \in Host |-> {t \in Transfer : Holding(h, t) # {}}]
held == [h \in Host |->
    {t \in Transfer : /\ \E x \in Holding(h, t) : pc[x] = "header"
                      /\ <<h, t>> \notin cut}]

\* What is taken from a queue or read from a connection next, and the connection
\* that a thread writes to.
NextOf(h) == Head(queue[h])
NextTask(h) == Head(inbox[h])
NextRead(l) == Head(stream[l]).task
Line(x) == <<owner[x], Dest(x)>>

\* The places a transfer goes through, and those where it is.
Places == {"plan", "masterQueue", "masterHand", "order", "inbox",
           "queue", "hand", "link", "expected", "stored"}

where == [t \in Transfer |-> {p \in Places :
    CASE p = "plan" -> t \in plan
      [] p = "masterQueue" -> t \in queued[Master]
      [] p = "masterHand" -> t \in held[Master]
      [] p = "order" -> t \in headers[<<Master, source[t]>>]
      [] p = "inbox" -> t \in inboxed[source[t]]
      [] p = "queue" -> t \in queued[source[t]]
      [] p = "hand" -> t \in held[source[t]]
      [] p = "link" -> t \in headers[Way(t)]
      [] p = "expected" -> rtask[Way(t)] = t
      [] p = "stored" -> stored[t] # <<>>}]

\* A transfer is in one place at a time, and in none only if somebody who had
\* it has died.
OneTrace ==
    \A t \in Transfer :
        /\ \A p, q \in where[t] : p = q
        /\ where[t] # {} \/ Dead(Master) \/ Dead(source[t])

\* No entry of S twice in q.
Once(q, S) == \A i, j \in 1..Len(q) : q[i] = q[j] /\ q[i] \in S => i = j

\* Nor is it there twice.
NoDoubles ==
    /\ \A h \in Host : Once(queue[h], Transfer)
    /\ \A h \in Node : Once(inbox[h], Transfer)
    /\ \A l \in Link : Once(stream[l], {Header(t) : t \in Transfer})
    /\ \A t \in Transfer : Len(stored[t]) <= 1
    /\ \A x, y \in Thread :
           owner[x] = owner[y] /\ hand[x] = hand[y] /\ hand[x] # NoTask => x = y

\* Hands are empty unless a thread is about to write, the dead keep what they
\* wrote half of, and nobody keeps what he has sent.
Hands ==
    /\ \A x \in Thread : pc[x] \in {"ready", "left"} => hand[x] = NoTask
    /\ \A h \in Host, t \in Transfer \cup {NoTask} :
           <<h, t>> \in cut => t \in hands[h]
    /\ \A l \in Link, t \in Transfer :
           Chunk(t) \in Elems(stream[l]) => t \notin hands[l[1]]
    /\ \A l \in Link : rpc[l] # "chunk" => rtask[l] = NoTask

\* The last record of its sender: a shutdown record or a header cut in two.
Final(l, r, halves) ==
    r.kind = "header" /\ (r.task = NoTask \/ <<l[1], r.task>> \in halves)

\* Nothing comes after it.
Ends ==
    \A l \in Link :
        /\ ClosedLast(l)
        /\ rpc[l] = "closed" => stream[l] = <<>>
        /\ \A i \in 1..Len(stream[l]) :
               Final(l, stream[l][i], cut) => i = Len(stream[l])

\* The end of a client: nothing is left when its threads have.
ClientEnds ==
    /\ \A h \in Host : sealed[h] =>
           main[h] \in {"joining", "leaving", "over", "dead"}
    /\ main[Master] \in {"joining", "leaving", "over"} => plan = {}
    /\ \A x \in Thread : pc[x] = "left" =>
           sealed[owner[x]] /\ queue[owner[x]] = <<>>
    /\ \A h \in Host : client[h] = "closing" =>
           \A x \in Thread : owner[x] = h => pc[x] = "left"
    /\ \A h \in Host : main[h] \in {"leaving", "over"} =>
           client[h] = "closing" /\ shut[h] = Others(h)
    /\ \A l \in Link : main[l[2]] = "over" => rpc[l] = "closed"

\* The master has told node h all it had to.
Told(h) == h \in shut[Master] /\ stream[<<Master, h>>] = <<>>

\* The end of a node's main loop: nothing more comes from the master.
NodeEndsAt(h) ==
    /\ \A i \in 1..Len(inbox[h]) : inbox[h][i] = NoTask =>
           Dead(Master) \/ (Told(h) /\ i = Len(inbox[h]))
    /\ inboxSealed[h] => rpc[<<Master, h>>] = "closed"
    /\ main[h] \in {"joining", "leaving", "over"} =>
           Dead(Master) \/ (Told(h) /\ Elems(inbox[h]) \subseteq {NoTask})

NodeEnds == \A h \in Node : NodeEndsAt(h)

-----------------------------------------------------------------------------
(* Sequences *)

LEMMA OnceAppend ==
    ASSUME NEW R, NEW q \in Seq(R), NEW e \in R, NEW S, Once(q, S),
           e \in S => e \notin Elems(q)
    PROVE  Once(Append(q, e), S)
  <1>1. /\ Len(Append(q, e)) = Len(q) + 1 /\ Len(q) \in Nat
        /\ \A i \in 1..Len(q) : Append(q, e)[i] = q[i]
        /\ Append(q, e)[Len(q) + 1] = e
    OBVIOUS
  <1>2. \A i \in 1..Len(q) : q[i] \in Elems(q)
    BY DEF Elems
  <1>3. SUFFICES ASSUME NEW i \in 1..(Len(q) + 1), NEW j \in 1..(Len(q) + 1),
                        Append(q, e)[i] = Append(q, e)[j], Append(q, e)[i] \in S
                 PROVE  i = j
    BY <1>1 DEF Once
  <1>4. (i \in 1..Len(q) \/ i = Len(q) + 1) /\ (j \in 1..Len(q) \/ j = Len(q) + 1)
    BY <1>1
  <1>5. CASE i \in 1..Len(q) /\ j \in 1..Len(q)
    BY <1>1, <1>3, <1>5 DEF Once
  <1>6. CASE i \in 1..Len(q) /\ j = Len(q) + 1
    BY <1>1, <1>2, <1>3, <1>6
  <1>7. CASE i = Len(q) + 1 /\ j \in 1..Len(q)
    BY <1>1, <1>2, <1>3, <1>7
  <1>. QED
    BY <1>4, <1>5, <1>6, <1>7

LEMMA OnceTail ==
    ASSUME NEW R, NEW q \in Seq(R), q # <<>>, NEW S, Once(q, S)
    PROVE  /\ Once(Tail(q), S)
           /\ Elems(q) = Elems(Tail(q)) \cup {Head(q)}
           /\ Head(q) \in S => Head(q) \notin Elems(Tail(q))
  <1>1. /\ Len(q) \in Nat \ {0} /\ Head(q) = q[1] /\ Len(Tail(q)) = Len(q) - 1
        /\ \A i \in 1..(Len(q) - 1) : Tail(q)[i] = q[i + 1] /\ i + 1 \in 1..Len(q)
    OBVIOUS
  <1>2. Once(Tail(q), S)
    <2>1. SUFFICES ASSUME NEW i \in 1..(Len(q) - 1), NEW j \in 1..(Len(q) - 1),
                          Tail(q)[i] = Tail(q)[j], Tail(q)[i] \in S
                   PROVE  i = j
      BY <1>1 DEF Once
    <2>2. i + 1 = j + 1
      BY <1>1, <2>1 DEF Once
    <2>. QED
      BY <2>2
  <1>3. Elems(q) = Elems(Tail(q)) \cup {Head(q)}
    <2>1. 1..Len(q) = {1} \cup {i + 1 : i \in 1..(Len(q) - 1)}
      <3>1. ASSUME NEW i \in 1..Len(q), i # 1
            PROVE  i - 1 \in 1..(Len(q) - 1) /\ i = (i - 1) + 1
        BY <1>1, <3>1
      <3>2. 1 \in 1..Len(q)
        BY <1>1
      <3>3. \A i \in 1..(Len(q) - 1) : i + 1 \in 1..Len(q)
        BY <1>1
      <3>4. \A i \in 1..Len(q) : i \in {1} \cup {k + 1 : k \in 1..(Len(q) - 1)}
        BY <3>1
      <3>. QED
        BY <3>2, <3>3, <3>4
    <2>2. ASSUME NEW e PROVE e \in Elems(q) <=> e \in Elems(Tail(q)) \cup {Head(q)}
      BY <1>1, <2>1 DEF Elems
    <2>. QED
      BY <2>2
  <1>4. ASSUME Head(q) \in S, Head(q) \in Elems(Tail(q)) PROVE FALSE
    <2>1. PICK i \in 1..(Len(q) - 1) : Tail(q)[i] = Head(q)
      BY <1>1, <1>4 DEF Elems
    <2>2. q[1] = q[i + 1] /\ i + 1 # 1 /\ 1 \in 1..Len(q) /\ i + 1 \in 1..Len(q)
      BY <1>1, <2>1
    <2>. QED
      BY <1>1, <1>4, <2>2 DEF Once
  <1>. QED
    BY <1>2, <1>3, <1>4

\* A record that is written, or read, as a header.
LEMMA HeadersWrite ==
    ASSUME TypeOK, NEW l \in Link, NEW r \in Records,
           stream' = [stream EXCEPT ![l] = Append(@, r)]
    PROVE  \A k \in Link : headers'[k] =
               IF k = l THEN headers[k] \cup {t \in Transfer : Header(t) = r}
                        ELSE headers[k]
  <1>1. \A k \in Link : stream'[k] = IF k = l THEN Append(stream[l], r) ELSE stream[k]
    BY DEF TypeOK
  <1>2. Elems(Append(stream[l], r)) = Elems(stream[l]) \cup {r}
    BY ElemsAppend DEF TypeOK
  <1>. QED
    BY <1>1, <1>2 DEF headers

LEMMA HeadersRead ==
    ASSUME TypeOK, NoDoubles, NEW l \in Link, stream[l] # <<>>,
           stream' = [stream EXCEPT ![l] = Tail(@)]
    PROVE  /\ Head(stream[l]) \in Records
           /\ Elems(stream[l]) = Elems(stream'[l]) \cup {Head(stream[l])}
           /\ \A k \in Link : headers'[k] =
                 IF k = l
                 THEN headers[k] \ {t \in Transfer : Header(t) = Head(stream[l])}
                 ELSE headers[k]
           /\ \A t \in Transfer :
                 Header(t) = Head(stream[l]) => t \in headers[l]
  <1>1. \A k \in Link : stream'[k] = IF k = l THEN Tail(stream[l]) ELSE stream[k]
    BY DEF TypeOK
  <1>2. stream[l] \in Seq(Records)
    BY DEF TypeOK
  <1>3. Head(stream[l]) \in Records
    BY <1>2
  <1>4. Once(stream[l], {Header(t) : t \in Transfer})
    BY DEF NoDoubles
  <1>5. /\ Elems(stream[l]) = Elems(Tail(stream[l])) \cup {Head(stream[l])}
        /\ Head(stream[l]) \in {Header(t) : t \in Transfer}
              => Head(stream[l]) \notin Elems(Tail(stream[l]))
    BY <1>2, <1>4, OnceTail
  <1>6. \A t \in Transfer : Header(t) \in Elems(Tail(stream[l])) <=>
            Header(t) \in Elems(stream[l]) /\ Header(t) # Head(stream[l])
    BY <1>5
  <1>7. \A t \in Transfer : Header(t) = Head(stream[l]) => t \in headers[l]
    BY <1>5 DEF headers
  <1>. QED
    BY <1>1, <1>3, <1>5, <1>6, <1>7 DEF headers

LEMMA HeaderTask ==
    /\ \A t, u : Header(t) = Header(u) <=> t = u
    /\ \A t, u : Chunk(t) = Chunk(u) <=> t = u
    /\ \A t, u : Header(t) # Chunk(u)
    /\ \A t : Header(t).kind = "header" /\ Header(t).task = t
    /\ \A t : Chunk(t).kind = "chunk" /\ Chunk(t).task = t
  <1>1. \A t, u : Header(t) = Header(u) => t = u
    <2>1. \A t : Header(t).task = t
      BY DEF Header
    <2>. QED
      BY <2>1
  <1>2. \A t, u : Chunk(t) = Chunk(u) => t = u
    <2>1. \A t : Chunk(t).task = t
      BY DEF Chunk
    <2>. QED
      BY <2>1
  <1>3. \A t, u : Header(t) # Chunk(u)
    <2>1. \A t : Header(t).kind = "header" /\ Chunk(t).kind = "chunk"
      BY DEF Header, Chunk
    <2>. QED
      BY <2>1
  <1>. QED
    BY <1>1, <1>2, <1>3 DEF Header, Chunk

\* A record is a header or a chunk.
LEMMA RecordIs ==
    ASSUME NEW r \in Records
    PROVE  r = IF r.kind = "header" THEN Header(r.task) ELSE Chunk(r.task)
  BY DEF Records, Header, Chunk

-----------------------------------------------------------------------------
(* What the steps do to the places *)

LEMMA WhereIs ==
    ASSUME NEW t \in Transfer
    PROVE  /\ where[t] \subseteq Places
           /\ "plan" \in where[t] <=> t \in plan
           /\ "masterQueue" \in where[t] <=> t \in queued[Master]
           /\ "masterHand" \in where[t] <=> t \in held[Master]
           /\ "order" \in where[t] <=> t \in headers[<<Master, source[t]>>]
           /\ "inbox" \in where[t] <=> t \in inboxed[source[t]]
           /\ "queue" \in where[t] <=> t \in queued[source[t]]
           /\ "hand" \in where[t] <=> t \in held[source[t]]
           /\ "link" \in where[t] <=> t \in headers[Way(t)]
           /\ "expected" \in where[t] <=> rtask[Way(t)] = t
           /\ "stored" \in where[t] <=> stored[t] # <<>>
  BY DEF where, Places

LEMMA WhereNext ==
    ASSUME NEW t \in Transfer
    PROVE  /\ where'[t] \subseteq Places
           /\ "plan" \in where'[t] <=> t \in plan'
           /\ "masterQueue" \in where'[t] <=> t \in queued'[Master]
           /\ "masterHand" \in where'[t] <=> t \in held'[Master]
           /\ "order" \in where'[t] <=> t \in headers'[<<Master, source[t]>>]
           /\ "inbox" \in where'[t] <=> t \in inboxed'[source[t]]
           /\ "queue" \in where'[t] <=> t \in queued'[source[t]]
           /\ "hand" \in where'[t] <=> t \in held'[source[t]]
           /\ "link" \in where'[t] <=> t \in headers'[Way(t)]
           /\ "expected" \in where'[t] <=> rtask'[Way(t)] = t
           /\ "stored" \in where'[t] <=> stored'[t] # <<>>
  BY DEF where, Places, Way

\* The places of a transfer on its way.
LEMMA Hosts ==
    /\ Master \in Host /\ Master \notin Node /\ Node \subseteq Host
    /\ \A t \in Transfer :
          /\ source[t] \in Node /\ source[t] # Master /\ t # NoTask
          /\ <<Master, source[t]>> \in Link
          /\ Way(t) \in Link /\ Way(t)[1] = source[t] /\ Way(t) # <<Master, source[t]>>
  BY ClusterAssumption DEF Host, Node, Master, Link, Way

\* A step that leaves a transfer alone.
LEMMA WhereKept ==
    ASSUME NEW t \in Transfer,
           t \in plan' <=> t \in plan,
           \A h \in {Master, source[t]} :
               /\ t \in queued'[h] <=> t \in queued[h]
               /\ t \in held'[h] <=> t \in held[h],
           \A l \in {<<Master, source[t]>>, Way(t)} :
               t \in headers'[l] <=> t \in headers[l],
           t \in inboxed'[source[t]] <=> t \in inboxed[source[t]],
           rtask'[Way(t)] = t <=> rtask[Way(t)] = t,
           stored'[t] # <<>> <=> stored[t] # <<>>
    PROVE  where'[t] = where[t]
  <1>1. \A p \in Places : p \in where'[t] <=> p \in where[t]
    BY WhereIs, WhereNext DEF Places
  <1>2. where'[t] \subseteq Places /\ where[t] \subseteq Places
    BY WhereIs, WhereNext
  <1>. QED
    BY <1>1, <1>2

\* Transfer u, and no other, goes from place p to place q, unless it gets lost.
Passes(u, p, q) ==
    /\ u \in Transfer /\ where[u] = {p} /\ where'[u] \subseteq {q}
    /\ \A t \in Transfer : t # u => where'[t] = where[t]

\* A step that carries transfer u from place p to place q.
LEMMA Carried ==
    ASSUME OneTrace, TypeOK, [Next]_vars,
           NEW u \in Transfer, NEW p, NEW q,
           p \in where[u], p \notin where'[u], q \in where'[u],
           \A r \in where'[u] : r # q => r \in where[u],
           \A t \in Transfer : t # u => where'[t] = where[t]
    PROVE  OneTrace' /\ Passes(u, p, q) /\ where'[u] = {q}
  <1>1. \A h \in Host : Dead(h) => Dead(h)'
    BY Lasting
  <1>2. where'[u] = {q}
    <2>1. \A r \in where'[u] : r = q
      <3>1. ASSUME NEW r \in where'[u], r # q PROVE FALSE
        <4>1. r # p /\ r \in Places
          BY <3>1, WhereNext
        <4>2. r \in where[u]
          BY <3>1, <4>1
        <4>. QED
          BY <4>1, <4>2 DEF OneTrace
      <3>. QED
        BY <3>1
    <2>. QED
      BY <2>1
  <1>3. ASSUME NEW t \in Transfer
        PROVE  /\ \A r, s \in where'[t] : r = s
               /\ where'[t] # {} \/ Dead(Master)' \/ Dead(source[t])'
    <2>1. CASE t = u
      BY <1>2, <2>1
    <2>2. CASE t # u
      <3>1. where'[t] = where[t]
        BY <2>2
      <3>2. source[t] \in Host /\ Master \in Host
        BY Hosts
      <3>. QED
        BY <1>1, <3>1, <3>2 DEF OneTrace
    <2>. QED
      BY <2>1, <2>2
  <1>4. where[u] = {p}
    BY DEF OneTrace
  <1>. QED
    BY <1>2, <1>3, <1>4 DEF OneTrace, Passes

\* A step that may lose transfer u, the dead one's.
LEMMA Dropped ==
    ASSUME OneTrace, TypeOK, [Next]_vars, NEW u,
           u \in Transfer => /\ where'[u] \subseteq where[u]
                             /\ Dead(Master) \/ Dead(source[u]),
           \A t \in Transfer : t # u => where'[t] = where[t]
    PROVE  OneTrace'
  <1>1. \A h \in Host : Dead(h) => Dead(h)'
    BY Lasting
  <1>3. ASSUME NEW t \in Transfer
        PROVE  /\ \A r, s \in where'[t] : r = s
               /\ where'[t] # {} \/ Dead(Master)' \/ Dead(source[t])'
    <2>0. source[t] \in Host /\ Master \in Host
      BY Hosts
    <2>1. CASE t = u
      BY <1>1, <2>0, <2>1 DEF OneTrace
    <2>2. CASE t # u
      BY <1>1, <2>0, <2>2 DEF OneTrace
    <2>. QED
      BY <2>1, <2>2
  <1>. QED
    BY <1>3 DEF OneTrace

\* What is known of a state when a step is taken.
TraceInv == /\ TypeOK /\ Busy /\ Routed /\ Framed
            /\ OneTrace /\ NoDoubles /\ Hands /\ Ends

LEMMA Owners == \A x \in Thread : owner[x] \in Host
  BY ClusterAssumption

LEMMA GetEffect ==
    ASSUME TraceInv, NEW x \in Thread, Get(x), ~Dead(owner[x])
    PROVE  /\ NextOf(owner[x]) \in Transfer /\ NextOf(owner[x]) \in queued[owner[x]]
           /\ owner[x] # Master => source[NextOf(owner[x])] = owner[x]
           /\ \A h \in Host :
                 /\ queued'[h] =
                       IF h = owner[x] THEN queued[h] \ {NextOf(owner[x])}
                                       ELSE queued[h]
                 /\ held'[h] =
                       IF h = owner[x] THEN held[h] \cup {NextOf(owner[x])}
                                       ELSE held[h]
                 /\ hands'[h] =
                       IF h = owner[x] THEN hands[h] \cup {NextOf(owner[x])}
                                       ELSE hands[h]
           /\ UNCHANGED <<plan, inboxed, headers, rtask, stored, cut>>
  <1> USE DEF TraceInv
  <1> DEFINE g == owner[x]
             u == NextOf(g)
  <1>a. u = Head(queue[g])
    BY DEF NextOf
  <1> USE <1>a
  <1>0. g \in Host
    BY Owners
  <1>1. queue[g] \in Seq(Transfer) /\ queue[g] # <<>>
    BY <1>0 DEF TypeOK, Get
  <1>2. u \in Transfer /\ u # NoTask
    BY <1>1, ClusterAssumption
  <1>3. Once(queue[g], Transfer)
    BY <1>0 DEF NoDoubles
  <1>4. /\ Elems(queue[g]) = Elems(Tail(queue[g])) \cup {u}
        /\ u \notin Elems(Tail(queue[g]))
    BY <1>1, <1>2, <1>3, OnceTail
  <1>5. u \in queued[g]
    BY <1>0, <1>4 DEF queued
  <1>6. g # Master => source[u] = g
    <2>1. g # Master => g \in Node
      BY <1>0 DEF Host, Node, Master
    <2>. QED
      BY <1>4, <2>1 DEF Routed
  <1>7. \A h \in Host : queue'[h] = IF h = g THEN Tail(queue[g]) ELSE queue[h]
    BY <1>0 DEF Get, TypeOK
  <1>8. \A h \in Host : queued'[h] = IF h = g THEN queued[h] \ {u} ELSE queued[h]
    BY <1>4, <1>7 DEF queued
  <1>9. /\ hand[x] = NoTask
        /\ \A y \in Thread : hand'[y] = IF y = x THEN u ELSE hand[y]
        /\ \A y \in Thread : pc'[y] = IF y = x THEN "header" ELSE pc[y]
        /\ cut' = cut
    BY DEF Get, Hands, TypeOK
  <1>10. <<g, u>> \notin cut
    BY <1>0, <1>2 DEF Busy
  <1>11. ASSUME NEW h \in Host, NEW t \in Transfer
         PROVE  /\ t \in hands'[h] <=> t \in hands[h] \/ (h = g /\ t = u)
                /\ t \in held'[h] <=> t \in held[h] \/ (h = g /\ t = u)
    <2>1. \A y \in Thread : y \in Holding(h, t)' <=>
             y \in Holding(h, t) \/ (y = x /\ h = g /\ t = u)
      BY <1>9, ClusterAssumption DEF Holding
    <2>2. x \notin Holding(h, t)
      BY <1>9, ClusterAssumption DEF Holding
    <2>. QED
      BY <1>9, <1>10, <2>1, <2>2 DEF hands, held, Holding
  <1>12. \A h \in Host : hands[h] \subseteq Transfer /\ hands'[h] \subseteq Transfer
                         /\ held[h] \subseteq Transfer /\ held'[h] \subseteq Transfer
    BY DEF hands, held
  <1>13. \A h \in Host :
            /\ held'[h] = IF h = g THEN held[h] \cup {u} ELSE held[h]
            /\ hands'[h] = IF h = g THEN hands[h] \cup {u} ELSE hands[h]
    BY <1>2, <1>11, <1>12
  <1>14. UNCHANGED <<plan, inboxed, headers, rtask, stored, cut>>
    BY DEF Get, inboxed, headers, main_vars, client_vars, server_vars
  <1>. QED
    BY <1>2, <1>5, <1>6, <1>8, <1>13, <1>14

\* A thread has written its task, as a whole or in part, or its chunk.
LEMMA WrittenEffect ==
    ASSUME TraceInv, NEW x \in Thread, pc[x] \in {"header", "chunk"},
           \/ SendHeader(x) \/ SendChunk(x) \/ PerishSending(x)
    PROVE  /\ hand[x] \in Transfer /\ hand[x] \in hands[owner[x]]
           /\ pc[x] = "header" /\ ~Dead(owner[x]) => hand[x] \in held[owner[x]]
           /\ pc[x] = "chunk" => hand[x] \notin held[owner[x]]
           /\ \A h \in Host :
                 /\ held'[h] = IF h = owner[x] THEN held[h] \ {hand[x]} ELSE held[h]
                 /\ hands'[h] =
                       IF h = owner[x] /\ ~PerishSending(x)
                          /\ (owner[x] = Master \/ SendChunk(x))
                       THEN hands[h] \ {hand[x]} ELSE hands[h]
  <1> USE DEF TraceInv
  <1> DEFINE g == owner[x]
             u == hand[x]
             drop == ~PerishSending(x) /\ (owner[x] = Master \/ SendChunk(x))
  <1>0. g \in Host
    BY Owners
  <1>1. u \in Transfer /\ u # NoTask
    BY ClusterAssumption DEF Busy
  <1>2. x \in Holding(g, u)
    BY DEF Holding
  <1>3. ASSUME NEW h \in Host, NEW t \in Transfer
        PROVE  \A y \in Holding(h, t) : h = g /\ t = u => y = x
    BY <1>1, <1>3 DEF Holding, NoDoubles
  <1>4. /\ u \in hands[g]
        /\ pc[x] = "header" /\ ~Dead(g) => u \in held[g]
        /\ pc[x] = "chunk" => u \notin held[g]
    <2>1. ~Dead(g) => <<g, u>> \notin cut
      BY <1>0, <1>1 DEF Busy
    <2>. QED
      BY <1>0, <1>1, <1>2, <1>3, <2>1 DEF hands, held
  <1>5. \A h \in Host : hands[h] \subseteq Transfer /\ hands'[h] \subseteq Transfer
                        /\ held[h] \subseteq Transfer /\ held'[h] \subseteq Transfer
    BY DEF hands, held
  <1>6. CASE drop
    <2>1. /\ \A y \in Thread : hand'[y] = IF y = x THEN NoTask ELSE hand[y]
          /\ \A y \in Thread : pc'[y] = IF y = x THEN "ready" ELSE pc[y]
          /\ cut' = cut
      <3>1. CASE SendChunk(x)
        BY <3>1 DEF SendChunk, TypeOK
      <3>2. CASE SendHeader(x) /\ owner[x] = Master
        BY <3>2 DEF SendHeader, TypeOK
      <3>. QED
        BY <1>6, <3>1, <3>2
    <2>2. ASSUME NEW h \in Host, NEW t \in Transfer
          PROVE  /\ t \in hands'[h] <=> t \in hands[h] /\ ~(h = g /\ t = u)
                 /\ t \in held'[h] <=> t \in held[h] /\ ~(h = g /\ t = u)
      <3>1. \A y \in Thread : y \in Holding(h, t)' <=> y \in Holding(h, t) /\ y # x
        BY <2>1, ClusterAssumption DEF Holding
      <3>2. x \in Holding(h, t) => h = g /\ t = u
        BY DEF Holding
      <3>3. \A y \in Holding(h, t) : y \in Thread
        BY DEF Holding
      <3>4. \A y \in Holding(h, t)' : y \in Thread
        BY DEF Holding
      <3>. QED
        BY <1>3, <2>1, <3>1, <3>2, <3>3, <3>4 DEF hands, held
    <2>. QED
      BY <1>1, <1>4, <1>5, <1>6, <2>2
  <1>7. CASE ~drop
    <2>1. /\ hand' = hand
          /\ \/ /\ \A y \in Thread : pc'[y] = IF y = x THEN "chunk" ELSE pc[y]
                /\ cut' = cut
             \/ /\ pc' = pc
                /\ cut' = cut \cup {<<g, u>>}
      <3>1. CASE PerishSending(x)
        BY <3>1 DEF PerishSending, queue_vars
      <3>2. CASE SendHeader(x) /\ owner[x] # Master
        BY <3>2 DEF SendHeader, TypeOK
      <3>. QED
        BY <1>7, <3>1, <3>2
    <2>2. ASSUME NEW h \in Host, NEW t \in Transfer
          PROVE  /\ t \in hands'[h] <=> t \in hands[h]
                 /\ t \in held'[h] <=> t \in held[h] /\ ~(h = g /\ t = u)
      <3>1. \A y : y \in Holding(h, t)' <=> y \in Holding(h, t)
        BY <2>1 DEF Holding
      <3>2. x \in Holding(h, t) => h = g /\ t = u
        BY DEF Holding
      <3>3. \A y \in Holding(h, t) : y \in Thread
        BY DEF Holding
      <3>. QED
        BY <1>1, <1>2, <1>3, <2>1, <3>1, <3>2, <3>3 DEF hands, held
    <2>. QED
      BY <1>1, <1>4, <1>5, <1>7, <2>2
  <1>. QED
    BY <1>6, <1>7

LEMMA ViewsKept ==
    /\ UNCHANGED queue => UNCHANGED queued
    /\ UNCHANGED inbox => UNCHANGED inboxed
    /\ UNCHANGED stream => UNCHANGED headers
    /\ UNCHANGED hand => UNCHANGED hands
    /\ UNCHANGED <<hand, pc, cut>> => UNCHANGED held
  BY DEF queued, inboxed, headers, hands, held, Holding

LEMMA AddTaskEffect ==
    ASSUME TraceInv, NEW t \in Transfer, AddTask(t)
    PROVE  /\ t \in plan /\ plan' = plan \ {t}
           /\ \A h \in Host :
                 queued'[h] = IF h = Master THEN queued[h] \cup {t} ELSE queued[h]
           /\ UNCHANGED <<inboxed, headers, hands, held, rtask, stored, cut>>
  <1>1. \A h \in Host : queue'[h] = IF h = Master THEN Append(queue[h], t) ELSE queue[h]
    BY DEF AddTask, TraceInv, TypeOK
  <1>2. Elems(Append(queue[Master], t)) = Elems(queue[Master]) \cup {t}
    BY Hosts, ElemsAppend DEF TraceInv, TypeOK
  <1>3. \A h \in Host :
           queued'[h] = IF h = Master THEN queued[h] \cup {t} ELSE queued[h]
    BY <1>1, <1>2 DEF queued
  <1>. QED
    BY <1>3, ViewsKept DEF AddTask, server_vars

LEMMA TakeTaskEffect ==
    ASSUME TraceInv, NEW h \in Node, TakeTask(h)
    PROVE  /\ NextTask(h) \in Transfer /\ source[NextTask(h)] = h
           /\ NextTask(h) \in inboxed[h]
           /\ \A i \in Node :
                 inboxed'[i] = IF i = h THEN inboxed[i] \ {NextTask(h)} ELSE inboxed[i]
           /\ \A i \in Host :
                 queued'[i] = IF i = h THEN queued[i] \cup {NextTask(h)} ELSE queued[i]
           /\ UNCHANGED <<plan, headers, hands, held, rtask, stored, cut>>
  <1> USE DEF TraceInv
  <1> DEFINE u == NextTask(h)
  <1>a. u = Head(inbox[h])
    BY DEF NextTask
  <1> USE <1>a
  <1>1. inbox[h] \in Seq(Transfer \cup {NoTask}) /\ inbox[h] # <<>> /\ u # NoTask
    BY DEF TypeOK, TakeTask
  <1>2. u \in Transfer
    BY <1>1
  <1>3. Once(inbox[h], Transfer)
    BY DEF NoDoubles
  <1>4. /\ Elems(inbox[h]) = Elems(Tail(inbox[h])) \cup {u}
        /\ u \notin Elems(Tail(inbox[h]))
    BY <1>1, <1>2, <1>3, OnceTail
  <1>5. source[u] = h
    BY <1>1, <1>4 DEF Routed
  <1>6. /\ \A i \in Node : inbox'[i] = IF i = h THEN Tail(inbox[h]) ELSE inbox[i]
        /\ \A i \in Host : queue'[i] = IF i = h THEN Append(queue[h], u) ELSE queue[i]
    BY Hosts DEF TakeTask, TypeOK
  <1>7. Elems(Append(queue[h], u)) = Elems(queue[h]) \cup {u}
    BY <1>2, Hosts, ElemsAppend DEF TypeOK
  <1>8. \A i \in Node : inboxed'[i] = IF i = h THEN inboxed[i] \ {u} ELSE inboxed[i]
    BY <1>4, <1>6 DEF inboxed
  <1>9. \A i \in Host : queued'[i] = IF i = h THEN queued[i] \cup {u} ELSE queued[i]
    BY <1>6, <1>7 DEF queued
  <1>10. u \in inboxed[h]
    BY <1>4 DEF inboxed
  <1>. QED
    BY <1>2, <1>5, <1>8, <1>9, <1>10, ViewsKept
       DEF TakeTask, main_vars, client_vars

\* The next record of the master is a header of the node's own.
LEMMA QueueTaskEffect ==
    ASSUME TraceInv, NEW h \in Node, QueueTask(h)
    PROVE  /\ Head(stream[<<Master, h>>]) = Header(NextRead(<<Master, h>>))
           /\ NextRead(<<Master, h>>) \in Transfer \cup {NoTask}
           /\ NextRead(<<Master, h>>) \in Transfer =>
                 /\ source[NextRead(<<Master, h>>)] = h
                 /\ NextRead(<<Master, h>>) \in headers[<<Master, h>>]
           /\ \A l \in Link :
                 headers'[l] = IF l = <<Master, h>>
                               THEN headers[l] \ {NextRead(<<Master, h>>)}
                               ELSE headers[l]
           /\ \E t \in {NextRead(<<Master, h>>), NoTask} :
                 /\ t # NextRead(<<Master, h>>) =>
                       /\ <<Master, NextRead(<<Master, h>>)>> \in cut
                       /\ Dead(Master)
                 /\ inbox' = [inbox EXCEPT ![h] = Append(@, t)]
                 /\ \A i \in Node : inboxed'[i] =
                       IF i = h THEN inboxed[i] \cup {t} ELSE inboxed[i]
           /\ UNCHANGED <<plan, queued, hands, held, rtask, stored, cut>>
  <1> USE DEF TraceInv
  <1> DEFINE u == NextRead(<<Master, h>>)
  <1>a. u = Head(stream[<<Master, h>>]).task
    BY DEF NextRead
  <1> USE <1>a
  <1>0. PICK l \in Link : l = <<Master, h>>
    BY Hosts DEF Link
  <1>1. /\ stream[l] # <<>>
        /\ stream' = [stream EXCEPT ![l] = Tail(@)]
    BY <1>0 DEF QueueTask, Read
  <1>2. /\ Head(stream[l]) \in Records
        /\ Head(stream[l]) \in Elems(stream[l])
        /\ \A k \in Link : headers'[k] =
              IF k = l THEN headers[k] \ {t \in Transfer : Header(t) = Head(stream[l])}
              ELSE headers[k]
        /\ \A t \in Transfer : Header(t) = Head(stream[l]) => t \in headers[l]
    BY <1>1, HeadersRead
  <1>3. Head(stream[l]).kind = "header"
    BY <1>0, <1>2 DEF Framed, FramedAt
  <1>4. Head(stream[l]) = Header(u)
    BY <1>0, <1>2, <1>3, RecordIs
  <1>5. u \in Transfer \cup {NoTask}
    BY <1>0, <1>2 DEF Records
  <1>6. u \in Transfer => source[u] = h /\ u \in headers[l]
    <2>. SUFFICES ASSUME u \in Transfer PROVE source[u] = h /\ u \in headers[l]
      OBVIOUS
    <2>1. Header(u) \in Elems(stream[l]) /\ Header(u).task = u /\ u # NoTask
      BY <1>2, <1>4, HeaderTask, Hosts
    <2>2. OnWay(l, u)
      BY <2>1 DEF Routed
    <2>. QED
      BY <1>0, <1>2, <1>4, <2>2 DEF OnWay
  <1>7. \A k \in Link : headers'[k] = IF k = l THEN headers[k] \ {u} ELSE headers[k]
    <2>1. {t \in Transfer : Header(t) = Head(stream[l])} = {u} \cap Transfer
      BY <1>4, HeaderTask
    <2>2. \A k \in Link : headers[k] \subseteq Transfer
      BY DEF headers
    <2>. QED
      BY <1>2, <2>1, <2>2
  <1>8. PICK t \in ReadTask(Master, h) : inbox' = [inbox EXCEPT ![h] = Append(@, t)]
    BY DEF QueueTask
  <1>9. t \in {u, NoTask} /\ (t # u => <<Master, u>> \in cut)
    BY <1>0, <1>8 DEF ReadTask
  <1>10. t # u => Dead(Master)
    BY <1>5, <1>9, Hosts DEF Busy
  <1>11. \A i \in Node : inboxed'[i] = IF i = h THEN inboxed[i] \cup {t} ELSE inboxed[i]
    <2>1. Elems(Append(inbox[h], t)) = Elems(inbox[h]) \cup {t}
      <3>1. inbox[h] \in Seq(Transfer \cup {NoTask}) /\ t \in Transfer \cup {NoTask}
        BY <1>5, <1>9 DEF TypeOK
      <3>. QED
        BY <3>1, ElemsAppend
    <2>2. \A i \in Node : inbox'[i] = IF i = h THEN Append(inbox[h], t) ELSE inbox[i]
      BY <1>8 DEF TypeOK
    <2>. QED
      BY <2>1, <2>2 DEF inboxed
  <1>12. UNCHANGED <<plan, queued, hands, held, rtask, stored, cut>>
    BY ViewsKept DEF QueueTask, main_vars, client_vars, queue_vars
  <1>. QED
    BY <1>0, <1>4, <1>5, <1>6, <1>7, <1>8, <1>9, <1>10, <1>11, <1>12

LEMMA RecvHeaderEffect ==
    ASSUME TraceInv, NEW l \in Link, RecvHeader(l[1], l[2]), l[1] # Master
    PROVE  /\ Head(stream[l]) = Header(NextRead(l)) /\ rtask[l] = NoTask
           /\ NextRead(l) \in Transfer \cup {NoTask}
           /\ NextRead(l) \in Transfer =>
                 l = Way(NextRead(l)) /\ NextRead(l) \in headers[l]
           /\ \A k \in Link :
                 headers'[k] = IF k = l THEN headers[k] \ {NextRead(l)} ELSE headers[k]
           /\ \E t \in {NextRead(l), NoTask} :
                 /\ t # NextRead(l) => <<l[1], NextRead(l)>> \in cut /\ Dead(l[1])
                 /\ rpc' = [rpc EXCEPT ![l] = IF t = NoTask THEN "closed" ELSE "chunk"]
                 /\ \A k \in Link : rtask'[k] = IF k = l THEN t ELSE rtask[k]
           /\ UNCHANGED <<plan, queued, inboxed, hands, held, stored, cut>>
  <1> USE DEF TraceInv
  <1> DEFINE u == NextRead(l)
  <1>a. u = Head(stream[l]).task
    BY DEF NextRead
  <1> USE <1>a
  <1>0. l = <<l[1], l[2]>> /\ l[1] \in Host
    BY DEF Link
  <1>1. /\ stream[l] # <<>> /\ rpc[l] = "header"
        /\ stream' = [stream EXCEPT ![l] = Tail(@)]
    BY <1>0 DEF RecvHeader, Read
  <1>2. /\ Head(stream[l]) \in Records
        /\ Head(stream[l]) \in Elems(stream[l])
        /\ \A k \in Link : headers'[k] =
              IF k = l THEN headers[k] \ {t \in Transfer : Header(t) = Head(stream[l])}
              ELSE headers[k]
        /\ \A t \in Transfer : Header(t) = Head(stream[l]) => t \in headers[l]
    BY <1>1, HeadersRead
  <1>3. Head(stream[l]).kind = "header"
    <2>1. Head(stream[l]) = stream[l][1]
      BY <1>1 DEF TypeOK
    <2>. QED
      BY <1>1, <2>1 DEF Framed, FramedAt, InTurns
  <1>4. Head(stream[l]) = Header(u)
    BY <1>2, <1>3, RecordIs
  <1>5. u \in Transfer \cup {NoTask}
    BY <1>2 DEF Records
  <1>6. u \in Transfer => l = Way(u) /\ u \in headers[l]
    <2>1. u \in Transfer => Header(u).task # NoTask /\ Header(u) \in Elems(stream[l])
      BY <1>2, <1>4, HeaderTask, Hosts
    <2>2. u \in Transfer => OnWay(l, u)
      BY <2>1, HeaderTask DEF Routed
    <2>. QED
      BY <1>2, <1>4, <2>2 DEF OnWay, Way
  <1>7. \A k \in Link : headers'[k] = IF k = l THEN headers[k] \ {u} ELSE headers[k]
    <2>1. {t \in Transfer : Header(t) = Head(stream[l])} = {u} \cap Transfer
      BY <1>4, HeaderTask
    <2>2. \A k \in Link : headers[k] \subseteq Transfer
      BY DEF headers
    <2>. QED
      BY <1>2, <2>1, <2>2
  <1>8. PICK t \in ReadTask(l[1], l[2]) : rtask' = [rtask EXCEPT ![l] = t]
    BY <1>0 DEF RecvHeader
  <1>9. t \in {u, NoTask} /\ (t # u => <<l[1], u>> \in cut)
    BY <1>0, <1>8 DEF ReadTask
  <1>10. t # u => Dead(l[1])
    BY <1>0, <1>5, <1>9 DEF Busy
  <1>11. \A k \in Link : rtask'[k] = IF k = l THEN t ELSE rtask[k]
    BY <1>8 DEF TypeOK
  <1>12. rpc' = [rpc EXCEPT ![l] = IF t = NoTask THEN "closed" ELSE "chunk"]
    BY <1>0, <1>11 DEF RecvHeader
  <1>13. UNCHANGED <<plan, queued, inboxed, hands, held, stored, cut>>
    BY ViewsKept DEF RecvHeader, main_vars, client_vars, queue_vars
  <1>14. rtask[l] = NoTask
    BY <1>1 DEF Hands
  <1>. QED
    BY <1>4, <1>5, <1>6, <1>7, <1>9, <1>10, <1>11, <1>12, <1>13, <1>14

\* What a receiver finds after a header is the chunk, or the end after the
\* sender's death.
LEMMA RecvChunkEffect ==
    ASSUME TraceInv, NEW l \in Link, RecvChunk(l[1], l[2]), l[1] # Master
    PROVE  /\ rtask[l] \in Transfer /\ l = Way(rtask[l])
           /\ \A k \in Link : rtask'[k] = IF k = l THEN NoTask ELSE rtask[k]
           /\ \E o \in {"whole", "torn"} :
                 /\ stored' = [stored EXCEPT ![rtask[l]] = Append(@, o)]
                 /\ o = "whole" => Chunk(rtask[l]) \in Elems(stream[l])
                 /\ o = "torn" => Dead(l[1])
           /\ \A k \in Link : headers'[k] = headers[k]
           /\ UNCHANGED <<plan, queued, inboxed, hands, held, cut>>
  <1> USE DEF TraceInv
  <1> DEFINE u == rtask[l]
  <1>0. l = <<l[1], l[2]>> /\ l[1] \in Host
    BY DEF Link
  <1>1. rpc[l] = "chunk"
    BY <1>0 DEF RecvChunk
  <1>2. InTurns(l)
    BY DEF Framed, FramedAt
  <1>3. u \in Transfer /\ u # NoTask
    BY <1>1, <1>2, ClusterAssumption DEF InTurns
  <1>4. l = Way(u)
    BY <1>3 DEF Routed, OnWay, Way
  <1>5. \A k \in Link : rtask'[k] = IF k = l THEN NoTask ELSE rtask[k]
    BY <1>0 DEF RecvChunk, TypeOK
  <1>6. UNCHANGED <<plan, queued, inboxed, hands, held, cut>>
    BY ViewsKept DEF RecvChunk, main_vars, client_vars, queue_vars
  <1>7. PICK o \in {"whole", "torn"} :
           /\ stored' = [stored EXCEPT ![u] = Append(@, o)]
           /\ \/ /\ o = "whole" /\ stream[l] # <<>>
                 /\ stream' = [stream EXCEPT ![l] = Tail(@)]
              \/ /\ o = "torn" /\ stream' = stream
                 /\ stream[l] = <<>> /\ (Dead(l[1]) \/ l[2] \in shut[l[1]])
    <2>1. \/ /\ stream[l] # <<>>
             /\ stream' = [stream EXCEPT ![l] = Tail(@)]
             /\ stored' = [stored EXCEPT ![u] = Append(@, "whole")]
          \/ /\ stream[l] = <<>> /\ (Dead(l[1]) \/ l[2] \in shut[l[1]])
             /\ stored' = [stored EXCEPT ![u] = Append(@, "torn")]
             /\ stream' = stream
      BY <1>0 DEF RecvChunk, Read, AtEnd
    <2>. QED
      BY <2>1
  <1>8. CASE o = "whole"
    <2>1. stream[l] # <<>> /\ stream' = [stream EXCEPT ![l] = Tail(@)]
      BY <1>7, <1>8
    <2>2. /\ Head(stream[l]) = stream[l][1]
          /\ Head(stream[l]) \in Elems(stream[l])
      BY <2>1, ElemsTail DEF TypeOK
    <2>3. Head(stream[l]) = Chunk(u)
      BY <1>1, <1>2, <2>1, <2>2 DEF InTurns
    <2>4. \A k \in Link : headers'[k] = IF k = l
             THEN headers[k] \ {t \in Transfer : Header(t) = Head(stream[l])}
             ELSE headers[k]
      BY <2>1, HeadersRead
    <2>5. {t \in Transfer : Header(t) = Head(stream[l])} = {}
      BY <2>3, HeaderTask
    <2>6. \A k \in Link : headers'[k] = headers[k]
      BY <2>4, <2>5
    <2>. QED
      BY <1>3, <1>4, <1>5, <1>6, <1>7, <1>8, <2>2, <2>3, <2>6
  <1>9. CASE o = "torn"
    <2>1. stream' = stream /\ Dead(l[1])
      BY <1>1, <1>7, <1>9, TornDead
    <2>. QED
      BY <1>3, <1>4, <1>5, <1>6, <1>7, <1>9, <2>1, ViewsKept
  <1>. QED
    BY <1>7, <1>8, <1>9

\* What a thread writes, and where.
LEMMA WriteEffect ==
    ASSUME TraceInv, NEW x \in Thread, pc[x] \in {"header", "chunk"},
           SendHeader(x) \/ SendChunk(x) \/ PerishSending(x)
    PROVE  /\ Line(x) \in Link /\ OnWay(Line(x), hand[x])
           /\ pc[x] = IF SendChunk(x) THEN "chunk" ELSE "header"
           /\ stream' = [stream EXCEPT ![Line(x)] = Append(@,
                            IF SendChunk(x) THEN Chunk(hand[x]) ELSE Header(hand[x]))]
           /\ \A k \in Link : headers'[k] =
                 IF k = Line(x) /\ ~SendChunk(x) THEN headers[k] \cup {hand[x]}
                                           ELSE headers[k]
           /\ UNCHANGED <<plan, queued, inboxed, rtask, stored>>
  <1> USE DEF TraceInv
  <1>0. PICK l : l = <<owner[x], Dest(x)>>
    OBVIOUS
  <1>a. l = Line(x)
    BY <1>0 DEF Line
  <1> USE <1>0
  <1> DEFINE r == IF SendChunk(x) THEN Chunk(hand[x]) ELSE Header(hand[x])
  <1>1. l \in Link /\ OnWay(l, hand[x]) /\ hand[x] \in Transfer
    BY DestLink
  <1>2. pc[x] = IF SendChunk(x) THEN "chunk" ELSE "header"
    BY DEF SendHeader, SendChunk, PerishSending, AtHeader
  <1>3. stream' = [stream EXCEPT ![l] = Append(@, r)]
    BY <1>2 DEF SendHeader, SendChunk, PerishSending, WriteHeader, Write
  <1>4. r \in Records
    BY <1>1 DEF Records, Header, Chunk
  <1>5. {t \in Transfer : Header(t) = r} = IF SendChunk(x) THEN {} ELSE {hand[x]}
    BY <1>1, HeaderTask
  <1>6. \A k \in Link : headers'[k] =
           IF k = l THEN headers[k] \cup {t \in Transfer : Header(t) = r}
                    ELSE headers[k]
    <2> HIDE DEF r
    <2>. QED
      BY <1>1, <1>3, <1>4, HeadersWrite
  <1>7. UNCHANGED <<plan, queued, inboxed, rtask, stored>>
    BY ViewsKept DEF SendHeader, SendChunk, PerishSending, main_vars, queue_vars,
                     server_vars
  <1>. QED
    BY <1>a, <1>1, <1>2, <1>3, <1>5, <1>6, <1>7

\* The steps that move a transfer, and the shutdown records.
Moving ==
    \/ \E t \in Transfer : AddTask(t)
    \/ \E h \in Node : ~Dead(h) /\ (TakeTask(h) \/ QueueTask(h))
    \/ \E h \in Host, i \in Node : ~Dead(h) /\ SendShutdown(h, i)
    \/ \E x \in Thread :
          /\ ~Dead(owner[x])
          /\ Get(x) \/ SendHeader(x) \/ SendChunk(x) \/ PerishSending(x)
    \/ \E l \in Link :
          /\ ~Dead(l[2]) /\ l[1] # Master
          /\ RecvHeader(l[1], l[2]) \/ RecvChunk(l[1], l[2])

Resting ==
    /\ UNCHANGED <<plan, queue, inbox, stream, rtask, stored, hand, cut>>
    /\ UNCHANGED pc \/ \E x \in Thread : Leave(x)

LEMMA MovingCases ==
    ASSUME [Next]_vars
    PROVE  Moving \/ Resting
  <1>1. CASE UNCHANGED vars
    BY <1>1 DEF vars, main_vars, queue_vars, server_vars, Resting
  <1>2. ASSUME NEW h \in Host, ~Dead(h), HostStep(h) \/ DeathStep(h)
        PROVE  Moving \/ Resting
    <2>. USE DEF main_vars, client_vars, queue_vars, server_vars
    <2>1. ASSUME Die(h) PROVE Resting
      BY <2>1 DEF Die, Resting
    <2>2. CASE Construct(h) \/ StartClient(h) \/ JoinClient(h) \/ JoinAccept(h)
               \/ TakeStop(h) \/ JoinServer(h) \/ OpenGate(h) \/ QueueEnds(h)
               \/ FinishPlan \/ StartThreads(h) \/ JoinThreads(h)
      BY <2>2 DEF Construct, StartClient, JoinClient, JoinAccept, TakeStop,
                  JoinServer, OpenGate, QueueEnds, FinishPlan, StartThreads,
                  JoinThreads, Resting
    <2>3. ASSUME NEW t \in Transfer, AddTask(t) PROVE Moving
      BY <2>3 DEF Moving
    <2>4. ASSUME h \in Node, TakeTask(h) \/ QueueTask(h) PROVE Moving
      BY <1>2, <2>4 DEF Moving
    <2>5. ASSUME NEW i \in Node, Connect(h, i) \/ ReadFlag(h, i) PROVE Resting
      BY <2>5 DEF Connect, ReadFlag, Resting
    <2>6. ASSUME NEW i \in Node, SendShutdown(h, i) PROVE Moving
      BY <1>2, <2>6 DEF Moving
    <2>7. ASSUME NEW x \in Thread, owner[x] = h,
                 Get(x) \/ SendHeader(x) \/ SendChunk(x) \/ PerishSending(x)
          PROVE  Moving
      BY <1>2, <2>7 DEF Moving
    <2>8. ASSUME NEW x \in Thread, Leave(x) PROVE Resting
      BY <2>8 DEF Leave, Resting
    <2>9. ASSUME NEW g \in Host, <<g, h>> \in Link,
                 Accept(g, h) \/ PassGate(g, h) \/ RecvEnds(g, h)
          PROVE  Resting
      BY <2>9 DEF Accept, PassGate, RecvEnds, Resting
    <2>10. ASSUME NEW g \in Host, <<g, h>> \in Link,
                  RecvHeader(g, h) \/ RecvChunk(g, h)
           PROVE  Moving
      <3>1. PICK l \in Link : l = <<g, h>>
        BY <2>10
      <3>2. l[1] = g /\ l[2] = h /\ g # Master
        BY <2>10, <3>1 DEF RecvHeader, RecvChunk
      <3>. QED
        BY <1>2, <2>10, <3>2 DEF Moving
    <2>. QED
      BY <1>2, StepCases, <2>1, <2>2, <2>3, <2>4, <2>5, <2>6, <2>7, <2>8, <2>9, <2>10
         DEF FlagFails, ShutdownFails, HeaderFails, SendFlagFails, Perish
  <1>. QED
    BY <1>1, <1>2 DEF Next

\* A step that leaves the places as they are.
LEMMA TraceKept ==
    ASSUME OneTrace, TypeOK, [Next]_vars,
           UNCHANGED <<plan, rtask, stored>>,
           \A h \in Host : queued'[h] = queued[h] /\ held'[h] = held[h],
           \A h \in Node : inboxed'[h] = inboxed[h],
           \A l \in Link : headers'[l] = headers[l]
    PROVE  OneTrace' /\ \A t \in Transfer : where'[t] = where[t]
  <1>1. ASSUME NEW t \in Transfer PROVE where'[t] = where[t]
    BY WhereKept, Hosts
  <1>2. OneTrace'
    BY <1>1, Dropped, Hosts
  <1>. QED
    BY <1>1, <1>2

\* What the threads have in hand when one has left.
LEMMA LeaveEffect ==
    ASSUME TraceInv, NEW x \in Thread, Leave(x)
    PROVE  /\ \A h \in Host : held'[h] = held[h] /\ hands'[h] = hands[h]
           /\ hand[x] = NoTask
  <1>1. /\ \A y \in Thread : pc'[y] = IF y = x THEN "left" ELSE pc[y]
        /\ UNCHANGED <<hand, cut>> /\ pc[x] = "ready"
    BY DEF Leave, TraceInv, TypeOK
  <1>2. hand[x] = NoTask
    BY <1>1 DEF TraceInv, Hands
  <1>3. ASSUME NEW h \in Host, NEW t \in Transfer
        PROVE  Holding(h, t)' = Holding(h, t) /\ \A y \in Holding(h, t) : y # x
    BY <1>1, <1>2, Hosts DEF Holding
  <1>4. ASSUME NEW h \in Host, NEW t \in Transfer, NEW y \in Holding(h, t)
        PROVE  y \in Thread /\ y # x
    BY <1>3 DEF Holding
  <1>. QED
    BY <1>1, <1>2, <1>3, <1>4 DEF held, hands

LEMMA RestingKeeps ==
    ASSUME TraceInv, [Next]_vars, Resting
    PROVE  OneTrace' /\ \A t \in Transfer : where'[t] = where[t]
  <1>1. \A h \in Host : held'[h] = held[h]
    BY ViewsKept, LeaveEffect DEF Resting
  <1>. QED
    BY <1>1, ViewsKept, TraceKept DEF Resting, TraceInv

\* A step that leaves transfer t alone.
LEMMA Untouched ==
    ASSUME NEW t \in Transfer,
           t \in plan' <=> t \in plan,
           \A h \in Host : t \in queued'[h] <=> t \in queued[h],
           \A h \in Host : t \in held'[h] <=> t \in held[h],
           \A h \in Node : t \in inboxed'[h] <=> t \in inboxed[h],
           \A l \in Link : t \in headers'[l] <=> t \in headers[l],
           rtask'[Way(t)] = t <=> rtask[Way(t)] = t,
           stored'[t] = stored[t]
    PROVE  where'[t] = where[t]
  BY WhereKept, Hosts

\* A step that brings transfer u to no place but q, if anywhere.
LEMMA Unbrought ==
    ASSUME NEW u \in Transfer, NEW q,
           q # "plan" /\ u \in plan' => u \in plan,
           q # "masterQueue" /\ u \in queued'[Master] => u \in queued[Master],
           q # "masterHand" /\ u \in held'[Master] => u \in held[Master],
           q # "order" /\ u \in headers'[<<Master, source[u]>>]
               => u \in headers[<<Master, source[u]>>],
           q # "inbox" /\ u \in inboxed'[source[u]] => u \in inboxed[source[u]],
           q # "queue" /\ u \in queued'[source[u]] => u \in queued[source[u]],
           q # "hand" /\ u \in held'[source[u]] => u \in held[source[u]],
           q # "link" /\ u \in headers'[Way(u)] => u \in headers[Way(u)],
           q # "expected" /\ rtask'[Way(u)] = u => rtask[Way(u)] = u,
           q # "stored" /\ stored'[u] # <<>> => stored[u] # <<>>
    PROVE  \A r \in where'[u] : r # q => r \in where[u]
  <1>1. ASSUME NEW r \in Places, r # q, r \in where'[u] PROVE r \in where[u]
    BY <1>1, WhereIs, WhereNext DEF Places
  <1>. QED
    BY <1>1, WhereNext

LEMMA AddTaskTrace ==
    ASSUME TraceInv, [Next]_vars, NEW u \in Transfer, AddTask(u)
    PROVE  OneTrace' /\ Passes(u, "plan", "masterQueue")
  <1>1. /\ u \in plan /\ plan' = plan \ {u}
        /\ \A h \in Host :
              queued'[h] = IF h = Master THEN queued[h] \cup {u} ELSE queued[h]
        /\ UNCHANGED <<inboxed, headers, held, rtask, stored>>
    BY AddTaskEffect
  <1>2. \A t \in Transfer : t # u => where'[t] = where[t]
    BY <1>1, Untouched
  <1>3. "plan" \in where[u] /\ "plan" \notin where'[u]
    BY <1>1, WhereIs, WhereNext
  <1>4. "masterQueue" \in where'[u]
    <2>1. u \in queued'[Master]
      BY <1>1, Hosts
    <2>. QED
      BY <2>1, WhereNext
  <1>5. \A r \in where'[u] : r # "masterQueue" => r \in where[u]
    <2>1. queued'[source[u]] = queued[source[u]]
      BY <1>1, Hosts
    <2>. QED
      BY <1>1, <2>1, Unbrought
  <1>. QED
    BY <1>2, <1>3, <1>4, <1>5, Carried DEF TraceInv

LEMMA TakeTaskTrace ==
    ASSUME TraceInv, [Next]_vars, NEW h \in Node, TakeTask(h)
    PROVE  OneTrace' /\ Passes(NextTask(h), "inbox", "queue")
  <1> DEFINE u == NextTask(h)
  <1>1. u \in Transfer /\ source[u] = h /\ u \in inboxed[h]
    BY TakeTaskEffect
  <1>2. \A i \in Node : inboxed'[i] = IF i = h THEN inboxed[i] \ {u} ELSE inboxed[i]
    BY TakeTaskEffect
  <1>3. \A i \in Host : queued'[i] = IF i = h THEN queued[i] \cup {u} ELSE queued[i]
    BY TakeTaskEffect
  <1>4. UNCHANGED <<plan, headers, held, rtask, stored>>
    BY TakeTaskEffect
  <1>5. \A t \in Transfer : t # u => where'[t] = where[t]
    BY <1>2, <1>3, <1>4, Untouched
  <1>6. "inbox" \in where[u] /\ "inbox" \notin where'[u]
    BY <1>1, <1>2, WhereIs, WhereNext
  <1>7. "queue" \in where'[u]
    BY <1>1, <1>3, WhereNext, Hosts
  <1>8. \A r \in where'[u] : r # "queue" => r \in where[u]
    <2>1. queued'[Master] = queued[Master] /\ inboxed'[h] \subseteq inboxed[h]
      BY <1>2, <1>3, Hosts
    <2>. QED
      BY <1>1, <1>4, <2>1, Unbrought
  <1>. QED
    BY <1>1, <1>5, <1>6, <1>7, <1>8, Carried DEF TraceInv

LEMMA QueueTaskTrace ==
    ASSUME TraceInv, [Next]_vars, NEW h \in Node, QueueTask(h)
    PROVE  /\ OneTrace'
           /\ IF NextRead(<<Master, h>>) \in Transfer
              THEN Passes(NextRead(<<Master, h>>), "order", "inbox")
              ELSE \A t \in Transfer : where'[t] = where[t]
  <1> DEFINE u == NextRead(<<Master, h>>)
  <1>1. /\ u \in Transfer \cup {NoTask}
        /\ u \in Transfer => source[u] = h /\ u \in headers[<<Master, h>>]
    BY QueueTaskEffect
  <1>2. \A l \in Link : headers'[l] = IF l = <<Master, h>>
                                      THEN headers[l] \ {u} ELSE headers[l]
    BY QueueTaskEffect
  <1>3. UNCHANGED <<plan, queued, held, rtask, stored>>
    BY QueueTaskEffect
  <1>4. \E t \in {u, NoTask} :
           /\ t # u => Dead(Master)
           /\ \A i \in Node : inboxed'[i] =
                 IF i = h THEN inboxed[i] \cup {t} ELSE inboxed[i]
    <2>1. \E t \in {u, NoTask} :
             /\ t # u => <<Master, u>> \in cut /\ Dead(Master)
             /\ inbox' = [inbox EXCEPT ![h] = Append(@, t)]
             /\ \A i \in Node : inboxed'[i] =
                   IF i = h THEN inboxed[i] \cup {t} ELSE inboxed[i]
      BY QueueTaskEffect
    <2>. QED
      BY <2>1
  <1>5. PICK t \in {u, NoTask} :
           /\ t # u => Dead(Master)
           /\ \A i \in Node : inboxed'[i] =
                 IF i = h THEN inboxed[i] \cup {t} ELSE inboxed[i]
    BY <1>4
  <1>6. \A v \in Transfer : v # u => where'[v] = where[v]
    <2>1. ASSUME NEW v \in Transfer, v # u
          PROVE  \A i \in Node : v \in inboxed'[i] <=> v \in inboxed[i]
      BY <1>5, <2>1, Hosts
    <2>2. ASSUME NEW v \in Transfer, v # u
          PROVE  \A l \in Link : v \in headers'[l] <=> v \in headers[l]
      BY <1>2, <2>2
    <2>. QED
      BY <1>3, <2>1, <2>2, Untouched
  <1>7. ASSUME u \in Transfer
        PROVE  "order" \in where[u] /\ "order" \notin where'[u]
    <2>1. <<Master, source[u]>> \in Link
      BY <1>7, Hosts
    <2>2. /\ u \in headers[<<Master, source[u]>>]
          /\ u \notin headers'[<<Master, source[u]>>]
      BY <1>1, <1>2, <1>7, <2>1
    <2>. QED
      BY <1>7, <2>2, WhereIs, WhereNext
  <1>8. ASSUME u \in Transfer
        PROVE  \A r \in where'[u] : r # "inbox" => r \in where[u]
    <2>1. \A l \in Link : headers'[l] \subseteq headers[l]
      BY <1>2
    <2>2. /\ headers'[Way(u)] \subseteq headers[Way(u)]
          /\ headers'[<<Master, source[u]>>] \subseteq headers[<<Master, source[u]>>]
      BY <1>8, <2>1, Hosts
    <2>. QED
      BY <1>3, <1>8, <2>2, Unbrought
  <1>9. CASE u \in Transfer /\ t = u
    <2>1. "inbox" \in where'[u]
      BY <1>1, <1>5, <1>9, WhereNext
    <2>. QED
      BY <1>6, <1>7, <1>8, <1>9, <2>1, Carried DEF TraceInv
  <1>10. CASE u \in Transfer /\ t # u
    <2>1. u \in inboxed'[source[u]] => u \in inboxed[source[u]]
      BY <1>1, <1>5, <1>10
    <2>2. "inbox" \in where'[u] => "inbox" \in where[u]
      BY <1>10, <2>1, WhereIs, WhereNext
    <2>3. where'[u] \subseteq where[u]
      BY <1>8, <1>10, <2>2
    <2>4. OneTrace'
      BY <1>5, <1>6, <1>10, <2>3, Dropped DEF TraceInv
    <2>5. where[u] = {"order"} /\ where'[u] = {}
      BY <1>7, <1>10, <2>3 DEF TraceInv, OneTrace
    <2>. QED
      BY <1>6, <1>10, <2>4, <2>5 DEF Passes
  <1>11. CASE u \notin Transfer
    BY <1>6, <1>11, Dropped DEF TraceInv
  <1>. QED
    BY <1>9, <1>10, <1>11

LEMMA RecvHeaderTrace ==
    ASSUME TraceInv, [Next]_vars, NEW l \in Link, l[1] # Master,
           RecvHeader(l[1], l[2])
    PROVE  /\ OneTrace'
           /\ IF NextRead(l) \in Transfer THEN Passes(NextRead(l), "link", "expected")
              ELSE \A t \in Transfer : where'[t] = where[t]
  <1> DEFINE u == NextRead(l)
  <1>1. /\ u \in Transfer \cup {NoTask} /\ rtask[l] = NoTask
        /\ u \in Transfer => l = Way(u) /\ u \in headers[l]
    BY RecvHeaderEffect
  <1>2. \A k \in Link : headers'[k] = IF k = l THEN headers[k] \ {u} ELSE headers[k]
    BY RecvHeaderEffect
  <1>3. UNCHANGED <<plan, queued, inboxed, held, stored>>
    BY RecvHeaderEffect
  <1>4. \E t \in {u, NoTask} :
           /\ t # u => Dead(l[1])
           /\ \A k \in Link : rtask'[k] = IF k = l THEN t ELSE rtask[k]
    <2>1. \E t \in {u, NoTask} :
             /\ t # u => <<l[1], u>> \in cut /\ Dead(l[1])
             /\ rpc' = [rpc EXCEPT ![l] = IF t = NoTask THEN "closed" ELSE "chunk"]
             /\ \A k \in Link : rtask'[k] = IF k = l THEN t ELSE rtask[k]
      BY RecvHeaderEffect
    <2>. QED
      BY <2>1
  <1>5. PICK t \in {u, NoTask} :
           /\ t # u => Dead(l[1])
           /\ \A k \in Link : rtask'[k] = IF k = l THEN t ELSE rtask[k]
    BY <1>4
  <1>6. \A v \in Transfer : v # u => where'[v] = where[v]
    <2>1. \A v \in Transfer \ {u} : v # t
      BY Hosts
    <2>2. \A v \in Transfer \ {u} : rtask'[Way(v)] = v <=> rtask[Way(v)] = v
      BY <1>1, <1>5, <2>1, Hosts
    <2>. QED
      BY <1>2, <1>3, <2>2, Untouched
  <1>7. ASSUME u \in Transfer
        PROVE  "link" \in where[u] /\ "link" \notin where'[u]
    BY <1>1, <1>2, <1>7, WhereIs, WhereNext
  <1>8. ASSUME u \in Transfer
        PROVE  \A r \in where'[u] : r # "expected" => r \in where[u]
    <2>1. \A k \in Link : headers'[k] \subseteq headers[k]
      BY <1>2
    <2>2. /\ headers'[Way(u)] \subseteq headers[Way(u)]
          /\ headers'[<<Master, source[u]>>] \subseteq headers[<<Master, source[u]>>]
      BY <1>8, <2>1, Hosts
    <2>. QED
      BY <1>3, <1>8, <2>2, Unbrought
  <1>9. CASE u \in Transfer /\ t = u
    <2>1. "expected" \in where'[u]
      BY <1>1, <1>5, <1>9, WhereNext
    <2>. QED
      BY <1>6, <1>7, <1>8, <1>9, <2>1, Carried DEF TraceInv
  <1>10. CASE u \in Transfer /\ t # u
    <2>1. "expected" \notin where'[u]
      BY <1>1, <1>5, <1>10, WhereNext
    <2>2. where'[u] \subseteq where[u] /\ l[1] = source[u]
      BY <1>1, <1>8, <1>10, <2>1, Hosts
    <2>3. OneTrace'
      BY <1>5, <1>6, <1>10, <2>2, Dropped DEF TraceInv
    <2>4. where[u] = {"link"} /\ where'[u] = {}
      BY <1>7, <1>10, <2>2 DEF TraceInv, OneTrace
    <2>. QED
      BY <1>6, <1>10, <2>3, <2>4 DEF Passes
  <1>11. CASE u \notin Transfer
    BY <1>6, <1>11, Dropped DEF TraceInv
  <1>. QED
    BY <1>9, <1>10, <1>11

LEMMA RecvChunkTrace ==
    ASSUME TraceInv, [Next]_vars, NEW l \in Link, l[1] # Master,
           RecvChunk(l[1], l[2])
    PROVE  /\ OneTrace'
           /\ where[rtask[l]] = {"expected"} /\ where'[rtask[l]] = {"stored"}
           /\ \A t \in Transfer : t # rtask[l] => where'[t] = where[t]
  <1> DEFINE u == rtask[l]
  <1>1. u \in Transfer /\ l = Way(u)
    BY RecvChunkEffect
  <1>2. \A k \in Link : rtask'[k] = IF k = l THEN NoTask ELSE rtask[k]
    BY RecvChunkEffect
  <1>3. /\ \A k \in Link : headers'[k] = headers[k]
        /\ UNCHANGED <<plan, queued, inboxed, held>>
    BY RecvChunkEffect
  <1>4. \E o \in {"whole", "torn"} : stored' = [stored EXCEPT ![u] = Append(@, o)]
    BY RecvChunkEffect
  <1>5. /\ stored'[u] # <<>>
        /\ \A t \in Transfer : t # u => stored'[t] = stored[t]
    <2>1. PICK o \in {"whole", "torn"} : stored' = [stored EXCEPT ![u] = Append(@, o)]
      BY <1>4
    <2>2. stored \in [Transfer -> Seq({"whole", "torn"})]
      BY DEF TraceInv, TypeOK
    <2>3. /\ stored'[u] = Append(stored[u], o)
          /\ \A t \in Transfer : t # u => stored'[t] = stored[t]
      BY <1>1, <2>1, <2>2
    <2>4. stored[u] \in Seq({"whole", "torn"})
      BY <1>1, <2>2
    <2>5. Len(Append(stored[u], o)) = Len(stored[u]) + 1 /\ Len(stored[u]) \in Nat
      BY <2>4
    <2>6. Append(stored[u], o) # <<>>
      <3>1. Len(<<>>) = 0
        OBVIOUS
      <3>. QED
        BY <2>5, <3>1
    <2>. QED
      BY <2>3, <2>6
  <1>6. \A v \in Transfer : v # u => where'[v] = where[v]
    <2>1. \A v \in Transfer \ {u} : rtask'[Way(v)] = v <=> rtask[Way(v)] = v
      BY <1>2, Hosts
    <2>. QED
      BY <1>3, <1>5, <2>1, Untouched
  <1>7. "expected" \in where[u] /\ "expected" \notin where'[u]
    BY <1>1, <1>2, WhereIs, WhereNext, Hosts
  <1>8. "stored" \in where'[u]
    BY <1>1, <1>5, WhereNext
  <1>9. \A r \in where'[u] : r # "stored" => r \in where[u]
    <2>1. /\ headers'[Way(u)] = headers[Way(u)]
          /\ headers'[<<Master, source[u]>>] = headers[<<Master, source[u]>>]
          /\ rtask'[Way(u)] = u => rtask[Way(u)] = u
      BY <1>1, <1>3, Hosts
    <2>. QED
      BY <1>1, <1>3, <2>1, Unbrought
  <1>10. OneTrace'
    BY <1>1, <1>6, <1>7, <1>8, <1>9, Carried DEF TraceInv
  <1>11. where[u] = {"expected"} /\ where'[u] = {"stored"}
    BY <1>1, <1>7, <1>8, <1>10 DEF TraceInv, OneTrace
  <1>. QED
    BY <1>6, <1>10, <1>11

LEMMA GetTrace ==
    ASSUME TraceInv, [Next]_vars, NEW x \in Thread, Get(x), ~Dead(owner[x])
    PROVE  /\ OneTrace'
           /\ IF owner[x] = Master
              THEN Passes(NextOf(owner[x]), "masterQueue", "masterHand")
              ELSE Passes(NextOf(owner[x]), "queue", "hand")
  <1> DEFINE g == owner[x]
             u == NextOf(g)
  <1>1. /\ u \in Transfer /\ u \in queued[g] /\ g \in Host
        /\ g # Master => source[u] = g
    BY GetEffect, Owners
  <1>2. \A h \in Host : queued'[h] = IF h = g THEN queued[h] \ {u} ELSE queued[h]
    BY GetEffect
  <1>3. \A h \in Host : held'[h] = IF h = g THEN held[h] \cup {u} ELSE held[h]
    BY GetEffect
  <1>4. UNCHANGED <<plan, inboxed, headers, rtask, stored>>
    BY GetEffect
  <1>5. \A v \in Transfer : v # u => where'[v] = where[v]
    <2>1. ASSUME NEW v \in Transfer, v # u, NEW h \in Host
          PROVE  /\ v \in queued'[h] <=> v \in queued[h]
                 /\ v \in held'[h] <=> v \in held[h]
      BY <1>2, <1>3, <2>1
    <2>. QED
      BY <1>4, <2>1, Untouched
  <1>6. /\ queued'[Master] \subseteq queued[Master]
        /\ queued'[source[u]] \subseteq queued[source[u]]
    BY <1>1, <1>2, Hosts
  <1>7. CASE g = Master
    <2>1. "masterQueue" \in where[u] /\ "masterQueue" \notin where'[u]
      BY <1>1, <1>2, <1>7, WhereIs, WhereNext
    <2>2. "masterHand" \in where'[u] /\ held'[source[u]] = held[source[u]]
      <3>1. u \in held'[Master]
        BY <1>1, <1>3, <1>7
      <3>2. source[u] \in Host /\ source[u] # Master
        BY <1>1, Hosts
      <3>. QED
        BY <1>1, <1>3, <1>7, <3>1, <3>2, WhereNext
    <2>3. \A r \in where'[u] : r # "masterHand" => r \in where[u]
      BY <1>1, <1>4, <1>6, <2>2, Unbrought
    <2>. QED
      BY <1>1, <1>5, <1>7, <2>1, <2>2, <2>3, Carried DEF TraceInv
  <1>8. CASE g # Master
    <2>1. "queue" \in where[u] /\ "queue" \notin where'[u]
      BY <1>1, <1>2, <1>8, WhereIs, WhereNext
    <2>2. "hand" \in where'[u] /\ held'[Master] = held[Master]
      <3>1. u \in held'[source[u]]
        BY <1>1, <1>3, <1>8
      <3>2. Master \in Host
        BY Hosts
      <3>. QED
        BY <1>1, <1>3, <1>8, <3>1, <3>2, WhereNext
    <2>3. \A r \in where'[u] : r # "hand" => r \in where[u]
      BY <1>1, <1>4, <1>6, <2>2, Unbrought
    <2>. QED
      BY <1>1, <1>5, <1>8, <2>1, <2>2, <2>3, Carried DEF TraceInv
  <1>. QED
    BY <1>7, <1>8

\* A header goes where it is said, as a whole or in part.
LEMMA WriteTrace ==
    ASSUME TraceInv, [Next]_vars, NEW x \in Thread, ~Dead(owner[x]),
           SendHeader(x) \/ PerishSending(x)
    PROVE  /\ OneTrace'
           /\ hand[x] \in Transfer
           /\ \A t \in Transfer : t # hand[x] => where'[t] = where[t]
           /\ where[hand[x]] =
                 IF owner[x] = Master THEN {"masterHand"} ELSE {"hand"}
           /\ where'[hand[x]] = IF owner[x] = Master THEN {"order"} ELSE {"link"}
  <1> DEFINE g == owner[x]
             u == hand[x]
             l == Line(x)
  <1>2. pc[x] = "header" /\ ~SendChunk(x)
    BY DEF SendHeader, PerishSending, SendChunk, AtHeader
  <1>3. u \in Transfer /\ u \in held[g] /\ g \in Host
    BY <1>2, WrittenEffect, Owners
  <1>4. \A h \in Host : held'[h] = IF h = g THEN held[h] \ {u} ELSE held[h]
    BY <1>2, WrittenEffect
  <1>5. l \in Link /\ OnWay(l, u)
    BY <1>2, WriteEffect
  <1>6. \A k \in Link : headers'[k] = IF k = l THEN headers[k] \cup {u} ELSE headers[k]
    BY <1>2, WriteEffect
  <1>7. UNCHANGED <<plan, queued, inboxed, rtask, stored>>
    BY <1>2, WriteEffect
  <1>8. \A v \in Transfer : v # u => where'[v] = where[v]
    <2>1. ASSUME NEW v \in Transfer, v # u
          PROVE  /\ \A h \in Host : v \in held'[h] <=> v \in held[h]
                 /\ \A k \in Link : v \in headers'[k] <=> v \in headers[k]
      BY <1>4, <1>6, <2>1
    <2>. QED
      BY <1>7, <2>1, Untouched
  <1>9. /\ held'[Master] \subseteq held[Master]
        /\ held'[source[u]] \subseteq held[source[u]]
    BY <1>3, <1>4, Hosts
  <1>10. CASE g = Master
    <2>1. l = <<Master, source[u]>>
      BY <1>10 DEF Line, Dest
    <2>2. "masterHand" \in where[u] /\ "masterHand" \notin where'[u]
      BY <1>3, <1>4, <1>10, WhereIs, WhereNext
    <2>3. "order" \in where'[u] /\ headers'[Way(u)] = headers[Way(u)]
      <3>1. Way(u) \in Link /\ Way(u) # l
        BY <1>3, <2>1, Hosts
      <3>2. u \in headers'[<<Master, source[u]>>]
        BY <1>5, <1>6, <2>1
      <3>. QED
        BY <1>3, <1>6, <3>1, <3>2, WhereNext
    <2>4. \A r \in where'[u] : r # "order" => r \in where[u]
      BY <1>3, <1>7, <1>9, <2>3, Unbrought
    <2>5. OneTrace'
      BY <1>3, <1>8, <2>2, <2>3, <2>4, Carried DEF TraceInv
    <2>6. where[u] = {"masterHand"} /\ where'[u] = {"order"}
      BY <1>3, <2>2, <2>3, <2>5 DEF TraceInv, OneTrace
    <2>. QED
      BY <1>3, <1>8, <1>10, <2>5, <2>6
  <1>11. CASE g # Master
    <2>1. l = Way(u) /\ source[u] = g
      <3>1. l[1] = g
        BY DEF Line
      <3>. QED
        BY <1>5, <1>11, <3>1, <1>3, Hosts DEF OnWay, Way
    <2>2. "hand" \in where[u] /\ "hand" \notin where'[u]
      BY <1>3, <1>4, <2>1, WhereIs, WhereNext
    <2>3. /\ "link" \in where'[u]
          /\ headers'[<<Master, source[u]>>] = headers[<<Master, source[u]>>]
      <3>1. <<Master, source[u]>> \in Link /\ <<Master, source[u]>> # l
        BY <1>3, <2>1, Hosts
      <3>2. u \in headers'[Way(u)]
        BY <1>5, <1>6, <2>1
      <3>. QED
        BY <1>3, <1>6, <3>1, <3>2, WhereNext
    <2>4. \A r \in where'[u] : r # "link" => r \in where[u]
      BY <1>3, <1>7, <1>9, <2>3, Unbrought
    <2>5. OneTrace'
      BY <1>3, <1>8, <2>2, <2>3, <2>4, Carried DEF TraceInv
    <2>6. where[u] = {"hand"} /\ where'[u] = {"link"}
      BY <1>3, <2>2, <2>3, <2>5 DEF TraceInv, OneTrace
    <2>. QED
      BY <1>3, <1>8, <1>11, <2>5, <2>6
  <1>. QED
    BY <1>10, <1>11

LEMMA SendChunkTrace ==
    ASSUME TraceInv, [Next]_vars, NEW x \in Thread, SendChunk(x)
    PROVE  OneTrace' /\ \A t \in Transfer : where'[t] = where[t]
  <1>1. pc[x] = "chunk" /\ ~PerishSending(x)
    BY DEF SendChunk, PerishSending, AtHeader
  <1>2. \A h \in Host : held'[h] = held[h]
    <2>1. \A h \in Host :
             held'[h] = IF h = owner[x] THEN held[h] \ {hand[x]} ELSE held[h]
      BY <1>1, WrittenEffect
    <2>2. hand[x] \notin held[owner[x]]
      BY <1>1, WrittenEffect
    <2>. QED
      BY <2>1, <2>2
  <1>4. /\ \A k \in Link : headers'[k] = headers[k]
        /\ UNCHANGED <<plan, queued, inboxed, rtask, stored>>
    BY <1>1, WriteEffect
  <1>. QED
    BY <1>2, <1>4, TraceKept DEF TraceInv

LEMMA SendShutdownTrace ==
    ASSUME TraceInv, [Next]_vars, NEW g \in Host, NEW h \in Node, SendShutdown(g, h)
    PROVE  OneTrace' /\ \A t \in Transfer : where'[t] = where[t]
  <1>1. PICK l \in Link : l = <<g, h>>
    BY DEF SendShutdown, AtShutdown, Others, Link
  <1>2. Shutdown \in Records
    BY DEF Shutdown, Header, Records
  <1>3. stream' = [stream EXCEPT ![l] = Append(@, Shutdown)]
    BY <1>1 DEF SendShutdown, Write
  <1>4. {t \in Transfer : Header(t) = Shutdown} = {}
    <2>1. \A t \in Transfer : t # NoTask
      BY Hosts
    <2>. QED
      BY <2>1, HeaderTask DEF Shutdown
  <1>5. \A k \in Link : headers'[k] = headers[k]
    BY <1>2, <1>3, <1>4, HeadersWrite DEF TraceInv
  <1>6. UNCHANGED <<plan, queued, inboxed, held, rtask, stored>>
    BY ViewsKept DEF SendShutdown, main_vars, queue_vars, server_vars
  <1>. QED
    BY <1>5, <1>6, TraceKept DEF TraceInv

LEMMA OneTraceStep ==
    ASSUME TraceInv, [Next]_vars PROVE OneTrace'
  BY MovingCases, RestingKeeps, AddTaskTrace, TakeTaskTrace, QueueTaskTrace,
     SendShutdownTrace, GetTrace, WriteTrace, SendChunkTrace, RecvHeaderTrace,
     RecvChunkTrace
     DEF Moving

-----------------------------------------------------------------------------
(* Nothing twice *)

LEMMA OnePlace ==
    ASSUME OneTrace, NEW t \in Transfer, NEW p \in where[t], NEW q, q # p
    PROVE  q \notin where[t]
  BY DEF OneTrace

\* A thread at its chunk has announced it.
LEMMA ChunkAnnounced ==
    ASSUME TraceInv, NEW x \in Thread, pc[x] = "chunk", ~Dead(owner[x])
    PROVE  /\ hand[x] \in Transfer /\ Line(x) = Way(hand[x])
           /\ where[hand[x]] = {"link"} \/ where[hand[x]] = {"expected"}
  <1> USE DEF TraceInv
  <1>1. PICK l : l = Line(x)
    OBVIOUS
  <1>2. l \in Link /\ OnWay(l, hand[x]) /\ hand[x] \in Transfer
    BY <1>1, DestLink DEF Line
  <1>3. l[1] = owner[x] /\ l[1] # Master
    BY <1>1 DEF Line, Busy
  <1>4. l = Way(hand[x])
    BY <1>2, <1>3 DEF OnWay, Way
  <1>5. Due(l) = hand[x]
    <2>1. AtChunk(x, l)
      BY <1>1 DEF AtChunk, Line
    <2>. QED
      BY <1>2, <1>3, <2>1 DEF Framed, FramedAt, OneWriter
  <1>6. hand[x] # NoTask
    BY <1>2, Hosts
  <1>7. CASE stream[l] = <<>>
    <2>1. rtask[l] = hand[x]
      BY <1>5, <1>6, <1>7 DEF Due
    <2>2. "expected" \in where[hand[x]]
      BY <1>2, <1>4, <2>1, WhereIs
    <2>. QED
      BY <1>1, <1>2, <1>4, <2>2 DEF OneTrace
  <1>8. CASE stream[l] # <<>>
    <2>1. PICK r : r = stream[l][Len(stream[l])]
      OBVIOUS
    <2>2. r \in Records /\ r \in Elems(stream[l])
      <3>1. stream[l] \in Seq(Records) /\ Len(stream[l]) \in 1..Len(stream[l])
        BY <1>2, <1>8 DEF TypeOK
      <3>. QED
        BY <2>1, <3>1 DEF Elems
    <2>3. r.kind = "header" /\ r.task = hand[x]
      BY <1>5, <1>6, <1>8, <2>1 DEF Due
    <2>4. r = Header(hand[x])
      BY <2>2, <2>3, RecordIs
    <2>5. "link" \in where[hand[x]]
      BY <1>2, <1>4, <2>2, <2>4, WhereIs DEF headers
    <2>. QED
      BY <1>1, <1>2, <1>4, <2>5 DEF OneTrace
  <1>. QED
    BY <1>7, <1>8

\* Nobody has a transfer that waits in his queue.
LEMMA NotInHands ==
    ASSUME TraceInv, NEW x \in Thread, ~Dead(owner[x]), hand[x] \in Transfer
    PROVE  hand[x] \notin queued[owner[x]]
  <1> USE DEF TraceInv
  <1> DEFINE g == owner[x]
             t == hand[x]
  <1>1. SUFFICES ASSUME t \in queued[g] PROVE FALSE
    OBVIOUS
  <1>2. g \in Host /\ t # NoTask
    BY Owners, Hosts
  <1>3. pc[x] \in {"header", "chunk"}
    BY <1>2 DEF Hands, TypeOK
  <1>4. g # Master => source[t] = g
    BY <1>2 DEF Routed
  <1>5. IF g = Master THEN "masterQueue" \in where[t] ELSE "queue" \in where[t]
    BY <1>1, <1>4, WhereIs
  <1>6. CASE pc[x] = "header"
    <2>1. <<g, t>> \notin cut
      BY <1>2 DEF Busy
    <2>2. t \in held[g]
      BY <1>2, <1>6, <2>1 DEF held, Holding
    <2>3. IF g = Master THEN "masterHand" \in where[t] ELSE "hand" \in where[t]
      BY <1>4, <2>2, WhereIs
    <2>. QED
      BY <1>5, <2>3 DEF OneTrace
  <1>7. CASE pc[x] = "chunk"
    <2>1. g # Master
      BY <1>7 DEF Busy
    <2>2. "queue" \notin where[t]
      BY <1>7, ChunkAnnounced
    <2>. QED
      BY <1>5, <2>1, <2>2
  <1>. QED
    BY <1>3, <1>6, <1>7

LEMMA HandsOnce ==
    ASSUME TraceInv, Moving \/ Resting, NEW x \in Thread, NEW y \in Thread,
           owner[x] = owner[y], hand'[x] = hand'[y], hand'[x] # NoTask
    PROVE  x = y
  <1> USE DEF TraceInv
  <1>1. ASSUME \A z \in Thread : hand'[z] = hand[z] \/ hand'[z] = NoTask
        PROVE  x = y
    BY <1>1 DEF NoDoubles
  <1>2. CASE UNCHANGED hand
    BY <1>1, <1>2
  <1>3. ASSUME NEW z \in Thread, SendHeader(z) \/ SendChunk(z) \/ PerishSending(z)
        PROVE  \A v \in Thread : hand'[v] = hand[v] \/ hand'[v] = NoTask
    BY <1>3 DEF SendHeader, SendChunk, PerishSending, queue_vars, TypeOK
  <1>4. ASSUME NEW z \in Thread, Get(z), ~Dead(owner[z]) PROVE x = y
    <2> DEFINE u == NextOf(owner[z])
    <2>1. u \in Transfer /\ u \in queued[owner[z]]
      BY <1>4, GetEffect
    <2>2. \A v \in Thread : hand'[v] = IF v = z THEN u ELSE hand[v]
      BY <1>4 DEF Get, NextOf, TypeOK
    <2>3. \A v \in Thread : owner[v] = owner[z] => hand[v] # u
      <3>1. SUFFICES ASSUME NEW v \in Thread, owner[v] = owner[z], hand[v] = u
                     PROVE  FALSE
        OBVIOUS
      <3>2. hand[v] \in Transfer /\ hand[v] \in queued[owner[v]] /\ ~Dead(owner[v])
        BY <1>4, <2>1, <3>1
      <3>. QED
        BY <3>2, NotInHands
    <2>. QED
      BY <2>2, <2>3 DEF NoDoubles
  <1>5. ASSUME NEW t \in Transfer, AddTask(t) PROVE UNCHANGED hand
    BY <1>5 DEF AddTask
  <1>6. ASSUME NEW h \in Node, TakeTask(h) \/ QueueTask(h) PROVE UNCHANGED hand
    BY <1>6 DEF TakeTask, QueueTask, queue_vars
  <1>7. ASSUME NEW g \in Host, NEW h \in Node, SendShutdown(g, h) PROVE UNCHANGED hand
    BY <1>7 DEF SendShutdown, queue_vars
  <1>8. ASSUME NEW l \in Link, RecvHeader(l[1], l[2]) \/ RecvChunk(l[1], l[2])
        PROVE  UNCHANGED hand
    BY <1>8 DEF RecvHeader, RecvChunk, queue_vars
  <1>. QED
    BY <1>1, <1>2, <1>3, <1>4, <1>5, <1>6, <1>7, <1>8 DEF Moving, Resting

LEMMA QueuesOnce ==
    ASSUME TraceInv, Moving \/ Resting, NEW h \in Host
    PROVE  Once(queue'[h], Transfer)
  <1> USE DEF TraceInv
  <1>0. Once(queue[h], Transfer) /\ queue[h] \in Seq(Transfer)
    BY DEF NoDoubles, TypeOK
  <1>1. CASE queue'[h] = queue[h]
    BY <1>0, <1>1
  <1>2. ASSUME NEW t \in Transfer, AddTask(t) PROVE Once(queue'[h], Transfer)
    <2>1. queue'[h] = IF h = Master THEN Append(queue[h], t) ELSE queue[h]
      BY <1>2 DEF AddTask, TypeOK
    <2>2. "plan" \in where[t]
      BY <1>2, AddTaskEffect, WhereIs
    <2>3. t \notin queued[Master]
      <3>1. "masterQueue" \notin where[t]
        BY <2>2, OnePlace
      <3>. QED
        BY <3>1, WhereIs
    <2>4. h = Master => t \notin Elems(queue[h])
      BY <2>3 DEF queued
    <2>. QED
      BY <1>0, <2>1, <2>4, OnceAppend
  <1>3. ASSUME NEW i \in Node, TakeTask(i) PROVE Once(queue'[h], Transfer)
    <2> DEFINE u == NextTask(i)
    <2>1. queue'[h] = IF h = i THEN Append(queue[h], u) ELSE queue[h]
      BY <1>3 DEF TakeTask, NextTask, TypeOK
    <2>2. u \in Transfer /\ source[u] = i /\ u \in inboxed[i]
      BY <1>3, TakeTaskEffect
    <2>3. "inbox" \in where[u]
      BY <2>2, WhereIs
    <2>4. u \notin queued[i]
      <3>1. "queue" \notin where[u]
        BY <2>2, <2>3, OnePlace
      <3>. QED
        BY <2>2, <3>1, WhereIs
    <2>5. h = i => u \notin Elems(queue[h])
      BY <2>4 DEF queued
    <2>. QED
      BY <1>0, <2>1, <2>2, <2>5, OnceAppend
  <1>4. ASSUME NEW x \in Thread, Get(x) PROVE Once(queue'[h], Transfer)
    <2>1. queue'[h] = IF h = owner[x] THEN Tail(queue[h]) ELSE queue[h]
      BY <1>4, Owners DEF Get, TypeOK
    <2>2. h = owner[x] => queue[h] # <<>>
      BY <1>4 DEF Get
    <2>. QED
      BY <1>0, <2>1, <2>2, OnceTail
  <1>5. ASSUME NEW x \in Thread, SendHeader(x) \/ SendChunk(x) \/ PerishSending(x)
        PROVE  UNCHANGED queue
    BY <1>5 DEF SendHeader, SendChunk, PerishSending, queue_vars
  <1>6. ASSUME NEW i \in Node, QueueTask(i) PROVE UNCHANGED queue
    BY <1>6 DEF QueueTask, queue_vars
  <1>7. ASSUME NEW g \in Host, NEW i \in Node, SendShutdown(g, i) PROVE UNCHANGED queue
    BY <1>7 DEF SendShutdown, queue_vars
  <1>8. ASSUME NEW l \in Link, RecvHeader(l[1], l[2]) \/ RecvChunk(l[1], l[2])
        PROVE  UNCHANGED queue
    BY <1>8 DEF RecvHeader, RecvChunk, queue_vars
  <1>. QED
    BY <1>1, <1>2, <1>3, <1>4, <1>5, <1>6, <1>7, <1>8 DEF Moving, Resting

LEMMA InboxesOnce ==
    ASSUME TraceInv, Moving \/ Resting, NEW h \in Node
    PROVE  Once(inbox'[h], Transfer)
  <1> USE DEF TraceInv
  <1>0. Once(inbox[h], Transfer) /\ inbox[h] \in Seq(Transfer \cup {NoTask})
    BY DEF NoDoubles, TypeOK
  <1>1. CASE inbox'[h] = inbox[h]
    BY <1>0, <1>1
  <1>2. ASSUME NEW i \in Node, TakeTask(i) PROVE Once(inbox'[h], Transfer)
    <2>1. inbox'[h] = IF h = i THEN Tail(inbox[h]) ELSE inbox[h]
      BY <1>2 DEF TakeTask, TypeOK
    <2>2. h = i => inbox[h] # <<>>
      BY <1>2 DEF TakeTask
    <2>. QED
      BY <1>0, <2>1, <2>2, OnceTail
  <1>3. ASSUME NEW i \in Node, QueueTask(i) PROVE Once(inbox'[h], Transfer)
    <2> DEFINE u == NextRead(<<Master, i>>)
    <2>1. /\ u \in Transfer \cup {NoTask}
          /\ u \in Transfer => source[u] = i /\ u \in headers[<<Master, i>>]
      BY <1>3, QueueTaskEffect
    <2>2. PICK t \in {u, NoTask} : inbox' = [inbox EXCEPT ![i] = Append(@, t)]
      BY <1>3, QueueTaskEffect
    <2>3. t \in Transfer \cup {NoTask}
      BY <2>1
    <2>4. inbox'[h] = IF h = i THEN Append(inbox[h], t) ELSE inbox[h]
      BY <2>2 DEF TypeOK
    <2>5. t \in Transfer => t = u
      BY <2>2, Hosts
    <2>6. t \in Transfer => "order" \in where[t]
      BY <2>1, <2>5, WhereIs
    <2>7. t \in Transfer => t \notin inboxed[i]
      BY <2>1, <2>5, <2>6, WhereIs DEF OneTrace
    <2>8. h = i /\ t \in Transfer => t \notin Elems(inbox[h])
      BY <2>7 DEF inboxed
    <2>. QED
      BY <1>0, <2>3, <2>4, <2>8, OnceAppend
  <1>4. ASSUME NEW t \in Transfer, AddTask(t) PROVE UNCHANGED inbox
    BY <1>4 DEF AddTask, server_vars
  <1>5. ASSUME NEW x \in Thread,
               Get(x) \/ SendHeader(x) \/ SendChunk(x) \/ PerishSending(x)
        PROVE  UNCHANGED inbox
    BY <1>5 DEF Get, SendHeader, SendChunk, PerishSending, server_vars
  <1>6. ASSUME NEW g \in Host, NEW i \in Node, SendShutdown(g, i) PROVE UNCHANGED inbox
    BY <1>6 DEF SendShutdown, server_vars
  <1>7. ASSUME NEW l \in Link, RecvHeader(l[1], l[2]) \/ RecvChunk(l[1], l[2])
        PROVE  UNCHANGED inbox
    BY <1>7 DEF RecvHeader, RecvChunk
  <1>. QED
    BY <1>1, <1>2, <1>3, <1>4, <1>5, <1>6, <1>7 DEF Moving, Resting

\* What a record written or read does to a connection.
LEMMA StreamWritten ==
    ASSUME TypeOK, NEW l \in Link, NEW r \in Records,
           stream' = [stream EXCEPT ![l] = Append(@, r)]
    PROVE  \A k \in Link :
               stream'[k] = IF k = l THEN Append(stream[k], r) ELSE stream[k]
  BY DEF TypeOK

LEMMA StreamRead ==
    ASSUME TypeOK, NEW l \in Link, stream' = [stream EXCEPT ![l] = Tail(@)]
    PROVE  \A k \in Link : stream'[k] = IF k = l THEN Tail(stream[k]) ELSE stream[k]
  BY DEF TypeOK

LEMMA StreamsOnce ==
    ASSUME TraceInv, Moving \/ Resting, NEW k \in Link
    PROVE  Once(stream'[k], {Header(t) : t \in Transfer})
  <1> USE DEF TraceInv
  <1> DEFINE H == {Header(t) : t \in Transfer}
  <1>0. Once(stream[k], H) /\ stream[k] \in Seq(Records)
    BY DEF NoDoubles, TypeOK
  <1>1. CASE stream'[k] = stream[k]
    BY <1>0, <1>1
  <1>2. ASSUME NEW l \in Link, stream[l] # <<>>,
               stream' = [stream EXCEPT ![l] = Tail(@)]
        PROVE  Once(stream'[k], H)
    BY <1>0, <1>2, StreamRead, OnceTail
  <1>3. ASSUME NEW l \in Link, NEW r \in Records,
               stream' = [stream EXCEPT ![l] = Append(@, r)],
               \A t \in Transfer : r = Header(t) => t \notin headers[l]
        PROVE  Once(stream'[k], H)
    <2>1. k = l /\ r \in H => r \notin Elems(stream[k])
      BY <1>3 DEF headers
    <2>2. k = l => Once(Append(stream[k], r), H)
      <3> HIDE DEF H
      <3>. QED
        BY <1>0, <2>1, OnceAppend
    <2>. QED
      BY <1>0, <1>3, <2>2, StreamWritten
  <1>4. ASSUME NEW g \in Host, NEW i \in Node, SendShutdown(g, i)
        PROVE  Once(stream'[k], H)
    <2>1. PICK l \in Link : l = <<g, i>>
      BY <1>4 DEF SendShutdown, AtShutdown, Others, Link
    <2>2. stream' = [stream EXCEPT ![l] = Append(@, Shutdown)]
      BY <1>4, <2>1 DEF SendShutdown, Write
    <2>3. Shutdown \in Records
      BY DEF Shutdown, Header, Records
    <2>4. \A t \in Transfer : Shutdown # Header(t)
      BY HeaderTask, Hosts DEF Shutdown
    <2>. QED
      BY <1>3, <2>2, <2>3, <2>4
  <1>5. ASSUME NEW x \in Thread, ~Dead(owner[x]), SendHeader(x) \/ PerishSending(x)
        PROVE  Once(stream'[k], H)
    <2>1. pc[x] = "header" /\ ~SendChunk(x)
      BY <1>5 DEF SendHeader, PerishSending, SendChunk, AtHeader
    <2>2. /\ hand[x] \in Transfer /\ Line(x) \in Link
          /\ Header(hand[x]) \in Records
          /\ stream' = [stream EXCEPT ![Line(x)] = Append(@, Header(hand[x]))]
      BY <1>5, <2>1, WrittenEffect, WriteEffect DEF Records, Header
    <2>3. hand[x] \notin headers[Line(x)]
      <3>1. hand[x] \in held[owner[x]] /\ OnWay(Line(x), hand[x])
        BY <1>5, <2>1, WrittenEffect, WriteEffect
      <3>2. CASE owner[x] = Master
        <4>1. "masterHand" \in where[hand[x]]
          BY <2>2, <3>1, <3>2, WhereIs
        <4>2. "order" \notin where[hand[x]]
          BY <2>2, <4>1, OnePlace
        <4>3. Line(x) = <<Master, source[hand[x]]>>
          BY <3>2 DEF Line, Dest
        <4>. QED
          BY <2>2, <4>2, <4>3, WhereIs
      <3>3. CASE owner[x] # Master
        <4>1. Line(x) = Way(hand[x]) /\ owner[x] = source[hand[x]]
          BY <3>1, <3>3 DEF OnWay, Way, Line
        <4>2. "hand" \in where[hand[x]]
          BY <2>2, <3>1, <4>1, WhereIs
        <4>3. "link" \notin where[hand[x]]
          BY <2>2, <4>2, OnePlace
        <4>. QED
          BY <2>2, <4>1, <4>3, WhereIs
      <3>. QED
        BY <3>2, <3>3
    <2>4. \A t \in Transfer : Header(hand[x]) = Header(t) => t \notin headers[Line(x)]
      BY <2>3, HeaderTask
    <2>. QED
      BY <1>3, <2>2, <2>4
  <1>6. ASSUME NEW x \in Thread, SendChunk(x) PROVE Once(stream'[k], H)
    <2>1. pc[x] = "chunk"
      BY <1>6 DEF SendChunk
    <2>2. /\ hand[x] \in Transfer /\ Line(x) \in Link
          /\ Chunk(hand[x]) \in Records
          /\ stream' = [stream EXCEPT ![Line(x)] = Append(@, Chunk(hand[x]))]
      BY <1>6, <2>1, WrittenEffect, WriteEffect DEF Records, Chunk
    <2>3. \A t \in Transfer : Chunk(hand[x]) # Header(t)
      BY HeaderTask
    <2>. QED
      BY <1>3, <2>2, <2>3
  <1>7. ASSUME NEW i \in Node, QueueTask(i) PROVE Once(stream'[k], H)
    <2>1. PICK l \in Link : l = <<Master, i>>
      BY Hosts DEF Link
    <2>. QED
      BY <1>2, <1>7, <2>1 DEF QueueTask, Read
  <1>8. ASSUME NEW l \in Link, RecvHeader(l[1], l[2]) \/ RecvChunk(l[1], l[2])
        PROVE  Once(stream'[k], H)
    <2>1. l = <<l[1], l[2]>>
      BY DEF Link
    <2>2. \/ UNCHANGED stream
          \/ stream[l] # <<>> /\ stream' = [stream EXCEPT ![l] = Tail(@)]
      BY <1>8, <2>1 DEF RecvHeader, RecvChunk, Read
    <2>. QED
      BY <1>1, <1>2, <2>2
  <1>9. ASSUME NEW t \in Transfer, AddTask(t) PROVE UNCHANGED stream
    BY <1>9 DEF AddTask
  <1>10. ASSUME NEW i \in Node, TakeTask(i) PROVE UNCHANGED stream
    BY <1>10 DEF TakeTask
  <1>11. ASSUME NEW x \in Thread, Get(x) PROVE UNCHANGED stream
    BY <1>11 DEF Get
  <1>. QED
    BY <1>1, <1>4, <1>5, <1>6, <1>7, <1>8, <1>9, <1>10, <1>11 DEF Moving, Resting

LEMMA StoredOnce ==
    ASSUME TraceInv, Moving \/ Resting, [Next]_vars, NEW t \in Transfer
    PROVE  Len(stored'[t]) <= 1
  <1> USE DEF TraceInv
  <1>0. Len(stored[t]) <= 1 /\ stored[t] \in Seq({"whole", "torn"})
    BY DEF NoDoubles, TypeOK
  <1>1. CASE stored'[t] = stored[t]
    BY <1>0, <1>1
  <1>2. ASSUME NEW l \in Link, l[1] # Master, RecvChunk(l[1], l[2])
        PROVE  Len(stored'[t]) <= 1
    <2>1. PICK o \in {"whole", "torn"} :
             stored' = [stored EXCEPT ![rtask[l]] = Append(@, o)]
      BY <1>2, RecvChunkEffect
    <2>2. stored'[t] = IF t = rtask[l] THEN Append(stored[t], o) ELSE stored[t]
      BY <2>1 DEF TypeOK
    <2>3. ASSUME t = rtask[l] PROVE stored[t] = <<>>
      <3>1. "stored" \notin where[t]
        BY <1>2, <2>3, RecvChunkTrace
      <3>. QED
        BY <3>1, WhereIs
    <2>4. t = rtask[l] => Len(stored'[t]) = 1
      <3>1. Len(Append(stored[t], o)) = Len(stored[t]) + 1
        BY <1>0
      <3>2. stored[t] = <<>> => Len(stored[t]) = 0
        OBVIOUS
      <3>. QED
        BY <2>2, <2>3, <3>1, <3>2
    <2>. QED
      BY <1>0, <2>2, <2>4
  <1>3. ASSUME NEW x \in Thread,
               Get(x) \/ SendHeader(x) \/ SendChunk(x) \/ PerishSending(x)
        PROVE  UNCHANGED stored
    BY <1>3 DEF Get, SendHeader, SendChunk, PerishSending
  <1>4. ASSUME NEW i \in Node, TakeTask(i) \/ QueueTask(i) PROVE UNCHANGED stored
    BY <1>4 DEF TakeTask, QueueTask
  <1>5. ASSUME NEW g \in Host, NEW i \in Node, SendShutdown(g, i)
        PROVE  UNCHANGED stored
    BY <1>5 DEF SendShutdown
  <1>6. ASSUME NEW l \in Link, RecvHeader(l[1], l[2]) PROVE UNCHANGED stored
    BY <1>6 DEF RecvHeader
  <1>7. ASSUME NEW u \in Transfer, AddTask(u) PROVE UNCHANGED stored
    BY <1>7 DEF AddTask
  <1>. QED
    BY <1>1, <1>2, <1>3, <1>4, <1>5, <1>6, <1>7 DEF Moving, Resting

LEMMA NoDoublesStep ==
    ASSUME TraceInv, [Next]_vars PROVE NoDoubles'
  <1>1. Moving \/ Resting
    BY MovingCases
  <1>2. \A h \in Host : Once(queue'[h], Transfer)
    BY <1>1, QueuesOnce
  <1>3. \A h \in Node : Once(inbox'[h], Transfer)
    BY <1>1, InboxesOnce
  <1>4. \A k \in Link : Once(stream'[k], {Header(t) : t \in Transfer})
    BY <1>1, StreamsOnce
  <1>5. \A t \in Transfer : Len(stored'[t]) <= 1
    BY <1>1, StoredOnce
  <1>6. \A x, y \in Thread :
           owner[x] = owner[y] /\ hand'[x] = hand'[y] /\ hand'[x] # NoTask => x = y
    BY <1>1, HandsOnce
  <1>. QED
    BY <1>2, <1>3, <1>4, <1>5, <1>6 DEF NoDoubles

-----------------------------------------------------------------------------
(* What threads have in hand *)

\* A chunk on a connection is behind its header, or the receiver has read it.
LEMMA ChunkBehind ==
    ASSUME TraceInv, NEW l \in Link, NEW t \in Transfer,
           Chunk(t) \in Elems(stream[l])
    PROVE  /\ l[1] # Master /\ l = Way(t)
           /\ where[t] = {"link"} \/ where[t] = {"expected"}
  <1> USE DEF TraceInv
  <1>1. PICK i \in 1..Len(stream[l]) : stream[l][i] = Chunk(t)
    BY DEF Elems
  <1>2. stream[l] \in Seq(Records) /\ Len(stream[l]) \in Nat
    BY DEF TypeOK
  <1>3. l[1] # Master
    BY HeaderTask DEF Framed, FramedAt
  <1>4. InTurns(l)
    BY <1>3 DEF Framed, FramedAt
  <1>5. l = Way(t)
    <2>1. Chunk(t).task = t /\ t # NoTask
      BY HeaderTask, Hosts
    <2>2. OnWay(l, t)
      BY <2>1 DEF Routed
    <2>. QED
      BY <1>3, <2>2 DEF OnWay, Way
  <1>6. CASE i = 1
    <2>1. stream[l] # <<>> /\ stream[l][1].kind = "chunk"
      BY <1>1, <1>2, <1>6, HeaderTask
    <2>2. rpc[l] = "chunk"
      BY <1>4, <2>1 DEF InTurns, Ends, TypeOK
    <2>3. Chunk(rtask[l]) = Chunk(t)
      BY <1>1, <1>4, <1>6, <2>1, <2>2 DEF InTurns
    <2>4. rtask[Way(t)] = t
      BY <1>5, <2>3, HeaderTask
    <2>5. "expected" \in where[t]
      BY <2>4, WhereIs
    <2>. QED
      BY <1>3, <1>5, <2>5 DEF OneTrace
  <1>7. CASE i # 1
    <2>1. PICK j \in 1..(Len(stream[l]) - 1) : i = j + 1
      BY <1>2, <1>7
    <2>2. Follows(stream[l][j], stream[l][i])
      BY <1>4, <2>1 DEF InTurns
    <2>3. stream[l][i].kind # "header"
      BY <1>1, HeaderTask
    <2>4. /\ stream[l][j].kind = "header"
          /\ Chunk(t) = Chunk(stream[l][j].task)
      BY <1>1, <2>2, <2>3 DEF Follows
    <2>5. stream[l][j] \in Records /\ stream[l][j] \in Elems(stream[l])
      BY <1>2, <2>1 DEF Elems
    <2>6. stream[l][j] = Header(t)
      BY <2>4, <2>5, RecordIs, HeaderTask
    <2>7. "link" \in where[t]
      BY <1>5, <2>5, <2>6, WhereIs DEF headers
    <2>. QED
      BY <1>3, <1>5, <2>7 DEF OneTrace
  <1>. QED
    BY <1>6, <1>7

\* What a step does to the hands of a process.
LEMMA HandsChange ==
    ASSUME TraceInv, Moving \/ Resting
    PROVE  \/ hands' = hands
           \/ \E x \in Thread : /\ Get(x) /\ ~Dead(owner[x])
                                /\ NextOf(owner[x]) \in Transfer
                                /\ NextOf(owner[x]) \in queued[owner[x]]
                                /\ owner[x] # Master
                                      => source[NextOf(owner[x])] = owner[x]
                                /\ \A h \in Host : hands'[h] =
                                      IF h = owner[x]
                                      THEN hands[h] \cup {NextOf(owner[x])}
                                      ELSE hands[h]
           \/ \E x \in Thread : /\ ~Dead(owner[x])
                                /\ SendHeader(x) \/ SendChunk(x) \/ PerishSending(x)
                                /\ \A h \in Host : hands'[h] =
                                      IF h = owner[x] /\ ~PerishSending(x)
                                         /\ (owner[x] = Master \/ SendChunk(x))
                                      THEN hands[h] \ {hand[x]} ELSE hands[h]
  <1>1. CASE UNCHANGED hand
    BY <1>1, ViewsKept
  <1>2. ASSUME NEW x \in Thread, Get(x), ~Dead(owner[x])
        PROVE  /\ NextOf(owner[x]) \in Transfer
               /\ NextOf(owner[x]) \in queued[owner[x]]
               /\ owner[x] # Master => source[NextOf(owner[x])] = owner[x]
    BY <1>2, GetEffect
  <1>3. ASSUME NEW x \in Thread, Get(x), ~Dead(owner[x]), NEW h \in Host
        PROVE  hands'[h] = IF h = owner[x] THEN hands[h] \cup {NextOf(owner[x])}
                           ELSE hands[h]
    BY <1>3, GetEffect
  <1>4. ASSUME NEW x \in Thread, ~Dead(owner[x]),
               SendHeader(x) \/ SendChunk(x) \/ PerishSending(x), NEW h \in Host
        PROVE  hands'[h] =
                  IF h = owner[x] /\ ~PerishSending(x)
                     /\ (owner[x] = Master \/ SendChunk(x))
                  THEN hands[h] \ {hand[x]} ELSE hands[h]
    <2>1. pc[x] \in {"header", "chunk"}
      BY <1>4 DEF SendHeader, SendChunk, PerishSending, AtHeader
    <2>. QED
      BY <1>4, <2>1, WrittenEffect
  <1>5. ASSUME NEW t \in Transfer, AddTask(t) PROVE UNCHANGED hand
    BY <1>5 DEF AddTask
  <1>6. ASSUME NEW h \in Node, TakeTask(h) \/ QueueTask(h) PROVE UNCHANGED hand
    BY <1>6 DEF TakeTask, QueueTask, queue_vars
  <1>7. ASSUME NEW g \in Host, NEW h \in Node, SendShutdown(g, h) PROVE UNCHANGED hand
    BY <1>7 DEF SendShutdown, queue_vars
  <1>8. ASSUME NEW l \in Link, RecvHeader(l[1], l[2]) \/ RecvChunk(l[1], l[2])
        PROVE  UNCHANGED hand
    BY <1>8 DEF RecvHeader, RecvChunk, queue_vars
  <1>. QED
    BY <1>1, <1>2, <1>3, <1>4, <1>5, <1>6, <1>7, <1>8 DEF Moving, Resting

\* What the threads have when they are about to write nothing.
LEMMA IdleHands ==
    ASSUME TraceInv, Moving \/ Resting, NEW x \in Thread,
           pc'[x] \in {"ready", "left"}
    PROVE  hand'[x] = NoTask
  <1> USE DEF TraceInv
  <1>1. CASE UNCHANGED <<pc, hand>>
    BY <1>1 DEF Hands
  <1>2. ASSUME NEW y \in Thread, Get(y) \/ Leave(y) PROVE hand'[x] = NoTask
    BY <1>2 DEF Get, Leave, Hands, TypeOK
  <1>3. ASSUME NEW y \in Thread, SendHeader(y) PROVE hand'[x] = NoTask
    BY <1>3 DEF SendHeader, AtHeader, Hands, TypeOK
  <1>4. ASSUME NEW y \in Thread, SendChunk(y) PROVE hand'[x] = NoTask
    BY <1>4 DEF SendChunk, Hands, TypeOK
  <1>5. ASSUME NEW y \in Thread, PerishSending(y) PROVE UNCHANGED <<pc, hand>>
    BY <1>5 DEF PerishSending, queue_vars
  <1>6. ASSUME NEW t \in Transfer, AddTask(t) PROVE UNCHANGED <<pc, hand>>
    BY <1>6 DEF AddTask
  <1>7. ASSUME NEW h \in Node, TakeTask(h) \/ QueueTask(h) PROVE UNCHANGED <<pc, hand>>
    BY <1>7 DEF TakeTask, QueueTask, queue_vars
  <1>8. ASSUME NEW g \in Host, NEW h \in Node, SendShutdown(g, h)
        PROVE  UNCHANGED <<pc, hand>>
    BY <1>8 DEF SendShutdown, queue_vars
  <1>9. ASSUME NEW l \in Link, RecvHeader(l[1], l[2]) \/ RecvChunk(l[1], l[2])
        PROVE  UNCHANGED <<pc, hand>>
    BY <1>9 DEF RecvHeader, RecvChunk, queue_vars
  <1>10. CASE Resting
    BY <1>1, <1>2, <1>10 DEF Resting
  <1>. QED
    BY <1>1, <1>2, <1>3, <1>4, <1>5, <1>6, <1>7, <1>8, <1>9, <1>10 DEF Moving

\* What is cut was in hand.
LEMMA CutInHands ==
    ASSUME TraceInv, Moving \/ Resting,
           NEW h \in Host, NEW t \in Transfer \cup {NoTask}, <<h, t>> \in cut'
    PROVE  t \in hands'[h]
  <1> USE DEF TraceInv
  <1>1. ASSUME NEW x \in Thread, PerishSending(x)
        PROVE  /\ cut' = cut \cup {<<owner[x], hand[x]>>}
               /\ hand[x] \in hands[owner[x]]
    <2>1. pc[x] = "header"
      BY <1>1 DEF PerishSending, AtHeader
    <2>. QED
      BY <1>1, <2>1, WrittenEffect DEF PerishSending
  <1>2. ASSUME ~ \E x \in Thread : PerishSending(x) PROVE cut' = cut
    BY <1>2 DEF Moving, Resting, AddTask, TakeTask, QueueTask, SendShutdown, Get,
                SendHeader, SendChunk, RecvHeader, RecvChunk
  <1>3. CASE <<h, t>> \in cut
    <2>1. t \in hands[h] /\ Dead(h)
      BY <1>3 DEF Hands, Busy
    <2>2. hands[h] \subseteq hands'[h]
      BY <2>1, HandsChange
    <2>. QED
      BY <2>1, <2>2
  <1>4. CASE <<h, t>> \notin cut
    <2>1. PICK x \in Thread : PerishSending(x)
      BY <1>2, <1>4
    <2>2. h = owner[x] /\ t = hand[x] /\ t \in hands[h]
      BY <1>1, <1>4, <2>1
    <2>3. UNCHANGED hand
      BY <2>1 DEF PerishSending, queue_vars
    <2>. QED
      BY <2>2, <2>3, ViewsKept
  <1>. QED
    BY <1>3, <1>4

\* What a step writes and reads.
Writing(l, r) ==
    \/ \E g \in Host, h \in Node :
          SendShutdown(g, h) /\ ~Dead(g) /\ l = <<g, h>> /\ r = Shutdown
    \/ \E x \in Thread :
          /\ ~Dead(owner[x]) /\ l = Line(x) /\ hand[x] \in Transfer
          /\ \/ (SendHeader(x) \/ PerishSending(x)) /\ r = Header(hand[x])
             \/ SendChunk(x) /\ r = Chunk(hand[x])

LEMMA StreamChange ==
    ASSUME TraceInv, Moving \/ Resting
    PROVE  \/ UNCHANGED stream
           \/ \E l \in Link :
                 stream[l] # <<>> /\ stream' = [stream EXCEPT ![l] = Tail(@)]
           \/ \E l \in Link, r \in Records :
                 Writing(l, r) /\ stream' = [stream EXCEPT ![l] = Append(@, r)]
  <1> USE DEF TraceInv
  <1>1. ASSUME NEW g \in Host, NEW h \in Node, SendShutdown(g, h), ~Dead(g)
        PROVE  \E l \in Link, r \in Records :
                  Writing(l, r) /\ stream' = [stream EXCEPT ![l] = Append(@, r)]
    <2>1. PICK l \in Link : l = <<g, h>>
      BY <1>1 DEF SendShutdown, AtShutdown, Others, Link
    <2>2. stream' = [stream EXCEPT ![l] = Append(@, Shutdown)]
      BY <1>1, <2>1 DEF SendShutdown, Write
    <2>3. Shutdown \in Records
      BY DEF Shutdown, Header, Records
    <2>4. Writing(l, Shutdown)
      BY <1>1, <2>1 DEF Writing
    <2>. QED
      BY <2>2, <2>3, <2>4
  <1>2. ASSUME NEW x \in Thread, ~Dead(owner[x]),
               SendHeader(x) \/ SendChunk(x) \/ PerishSending(x)
        PROVE  \E l \in Link, r \in Records :
                  Writing(l, r) /\ stream' = [stream EXCEPT ![l] = Append(@, r)]
    <2> DEFINE r == IF SendChunk(x) THEN Chunk(hand[x]) ELSE Header(hand[x])
    <2>1. pc[x] \in {"header", "chunk"}
      BY <1>2 DEF SendHeader, SendChunk, PerishSending, AtHeader
    <2>2. hand[x] \in Transfer
      BY <1>2, <2>1, WrittenEffect
    <2>3. Line(x) \in Link /\ stream' = [stream EXCEPT ![Line(x)] = Append(@, r)]
      BY <1>2, <2>1, WriteEffect
    <2>4. r \in Records
      BY <2>2 DEF Records, Header, Chunk
    <2>5. Writing(Line(x), r)
      BY <1>2, <2>2 DEF Writing
    <2>. QED
      BY <2>3, <2>4, <2>5
  <1>3. ASSUME NEW i \in Node, QueueTask(i)
        PROVE  \E l \in Link :
                  stream[l] # <<>> /\ stream' = [stream EXCEPT ![l] = Tail(@)]
    <2>1. <<Master, i>> \in Link
      BY Hosts DEF Link
    <2>. QED
      BY <1>3, <2>1 DEF QueueTask, Read
  <1>4. ASSUME NEW l \in Link, RecvHeader(l[1], l[2]) \/ RecvChunk(l[1], l[2])
        PROVE  \/ UNCHANGED stream
               \/ stream[l] # <<>> /\ stream' = [stream EXCEPT ![l] = Tail(@)]
    <2>1. l = <<l[1], l[2]>>
      BY DEF Link
    <2>. QED
      BY <1>4, <2>1 DEF RecvHeader, RecvChunk, Read
  <1>5. ASSUME NEW t \in Transfer, AddTask(t) PROVE UNCHANGED stream
    BY <1>5 DEF AddTask
  <1>6. ASSUME NEW i \in Node, TakeTask(i) PROVE UNCHANGED stream
    BY <1>6 DEF TakeTask
  <1>7. ASSUME NEW x \in Thread, Get(x) PROVE UNCHANGED stream
    BY <1>7 DEF Get
  <1>. QED
    BY <1>1, <1>2, <1>3, <1>4, <1>5, <1>6, <1>7 DEF Moving, Resting

\* A chunk is on a connection once its thread has let go of it.
LEMMA ChunksLetGo ==
    ASSUME TraceInv, Moving \/ Resting, NEW l \in Link, NEW t \in Transfer,
           Chunk(t) \in Elems(stream'[l])
    PROVE  t \notin hands'[l[1]]
  <1> USE DEF TraceInv
  <1>0. l[1] \in Host
    BY DEF Link
  <1>1. CASE Chunk(t) \in Elems(stream[l])
    <2>1. t \notin hands[l[1]]
      BY <1>1 DEF Hands
    <2>2. /\ l[1] # Master /\ l[1] = source[t]
          /\ where[t] = {"link"} \/ where[t] = {"expected"}
      BY <1>1, ChunkBehind, Hosts
    <2>3. t \notin queued[source[t]]
      BY <2>2, WhereIs
    <2>. QED
      BY <1>0, <2>1, <2>2, <2>3, HandsChange
  <1>2. CASE Chunk(t) \notin Elems(stream[l])
    <2>1. PICK k \in Link, r \in Records :
             Writing(k, r) /\ stream' = [stream EXCEPT ![k] = Append(@, r)]
      <3>1. ~UNCHANGED stream
        BY <1>2
      <3>2. ASSUME NEW k \in Link, stream[k] # <<>>,
                   stream' = [stream EXCEPT ![k] = Tail(@)]
            PROVE  FALSE
        <4>1. Elems(Tail(stream[k])) \subseteq Elems(stream[k])
          BY <3>2, ElemsTail DEF TypeOK
        <4>. QED
          BY <1>2, <3>2, <4>1, StreamRead
      <3>. QED
        BY <3>1, <3>2, StreamChange
    <2>2. k = l /\ r = Chunk(t)
      <3>1. Elems(Append(stream[k], r)) = Elems(stream[k]) \cup {r}
        BY ElemsAppend DEF TypeOK
      <3>. QED
        BY <1>2, <2>1, <3>1, StreamWritten
    <2>3. PICK x \in Thread : SendChunk(x) /\ l = Line(x) /\ hand[x] = t
      BY <2>1, <2>2, HeaderTask DEF Writing, Shutdown
    <2>4. pc[x] = "chunk" /\ ~PerishSending(x) /\ l[1] = owner[x]
      BY <2>3 DEF SendChunk, PerishSending, AtHeader, Line
    <2>. QED
      BY <1>0, <2>3, <2>4, WrittenEffect
  <1>. QED
    BY <1>1, <1>2

\* A receiver keeps a task while it waits for its chunk.
LEMMA IdleReceivers ==
    ASSUME TraceInv, [Next]_vars, NEW l \in Link, rpc'[l] # "chunk"
    PROVE  rtask'[l] = NoTask
  <1> USE DEF TraceInv
  <1>0. rpc[l] # "chunk" => rtask[l] = NoTask
    BY DEF Hands
  <1>1. CASE UNCHANGED vars
    BY <1>0, <1>1 DEF vars, server_vars
  <1>2. ASSUME NEW h \in Host, ~Dead(h), HostStep(h) \/ DeathStep(h)
        PROVE  rtask'[l] = NoTask
    <2>. USE DEF server_vars
    <2>1. ASSUME UNCHANGED rtask, rpc[l] # "chunk" \/ rpc'[l] = rpc[l]
          PROVE  rtask'[l] = NoTask
      BY <1>0, <2>1
    <2>2. ASSUME Die(h) PROVE UNCHANGED <<rpc, rtask>>
      BY <2>2 DEF Die
    <2>3. CASE Construct(h) \/ StartClient(h) \/ JoinClient(h) \/ JoinAccept(h)
               \/ TakeTask(h) \/ TakeStop(h) \/ JoinServer(h) \/ OpenGate(h)
               \/ QueueTask(h) \/ FinishPlan \/ StartThreads(h) \/ JoinThreads(h)
      BY <2>1, <2>3 DEF Construct, StartClient, JoinClient, JoinAccept, TakeTask,
         TakeStop, JoinServer, OpenGate, QueueTask, FinishPlan, StartThreads,
         JoinThreads
    <2>4. ASSUME NEW t \in Transfer, AddTask(t) PROVE UNCHANGED <<rpc, rtask>>
      BY <2>4 DEF AddTask
    <2>5. ASSUME NEW i \in Node, Connect(h, i) \/ ReadFlag(h, i) \/ SendShutdown(h, i)
          PROVE  UNCHANGED <<rpc, rtask>>
      BY <2>5 DEF Connect, ReadFlag, SendShutdown
    <2>6. ASSUME NEW x \in Thread,
                 \/ Get(x) \/ Leave(x) \/ SendHeader(x) \/ SendChunk(x)
                 \/ PerishSending(x)
          PROVE  UNCHANGED <<rpc, rtask>>
      BY <2>6 DEF Get, Leave, SendHeader, SendChunk, PerishSending
    <2>7. CASE QueueEnds(h)
      BY <2>1, <2>7 DEF QueueEnds, TypeOK
    <2>8. ASSUME NEW g \in Host, <<g, h>> \in Link,
                 Accept(g, h) \/ PassGate(g, h) \/ RecvEnds(g, h)
          PROVE  rtask'[l] = NoTask
      BY <2>1, <2>8 DEF Accept, PassGate, RecvEnds, TypeOK
    <2>9. ASSUME NEW g \in Host, NEW k \in Link, k = <<g, h>>,
                 RecvHeader(g, h) \/ RecvChunk(g, h)
          PROVE  rtask'[l] = NoTask
      <3>1. CASE l = k
        BY <1>2, <2>9, <3>1 DEF RecvHeader, RecvChunk, TypeOK
      <3>2. CASE l # k
        BY <1>0, <2>9, <3>2 DEF RecvHeader, RecvChunk, TypeOK
      <3>. QED
        BY <3>1, <3>2
    <2>. QED
      BY <1>2, StepCases, <2>1, <2>2, <2>3, <2>4, <2>5, <2>6, <2>7, <2>8, <2>9
         DEF FlagFails, ShutdownFails, HeaderFails, SendFlagFails, Perish
  <1>. QED
    BY <1>1, <1>2 DEF Next

LEMMA HandsStep ==
    ASSUME TraceInv, [Next]_vars PROVE Hands'
  <1>1. Moving \/ Resting
    BY MovingCases
  <1>2. \A x \in Thread : pc'[x] \in {"ready", "left"} => hand'[x] = NoTask
    BY <1>1, IdleHands
  <1>3. \A h \in Host, t \in Transfer \cup {NoTask} :
           <<h, t>> \in cut' => t \in hands'[h]
    BY <1>1, CutInHands
  <1>4. \A l \in Link, t \in Transfer :
           Chunk(t) \in Elems(stream'[l]) => t \notin hands'[l[1]]
    BY <1>1, ChunksLetGo
  <1>5. \A l \in Link : rpc'[l] # "chunk" => rtask'[l] = NoTask
    BY IdleReceivers
  <1>. QED
    BY <1>2, <1>3, <1>4, <1>5 DEF Hands

-----------------------------------------------------------------------------
(* The ends of the connections *)

LEMMA ShutGrows ==
    ASSUME TypeOK, [Next]_vars
    PROVE  \A h \in Host : shut[h] \subseteq shut'[h]
  <1>1. CASE UNCHANGED shut
    BY <1>1
  <1>2. ASSUME NEW g \in Host, NEW h \in Node, SendShutdown(g, h)
        PROVE  \A i \in Host : shut[i] \subseteq shut'[i]
    BY <1>2 DEF SendShutdown, TypeOK
  <1>3. ASSUME NEW h \in Host, HostStep(h) \/ DeathStep(h)
        PROVE  UNCHANGED shut \/ \E i \in Node : SendShutdown(h, i)
    BY <1>3, StepCases
       DEF Construct, StartClient, JoinClient, JoinAccept, TakeTask, TakeStop,
           JoinServer, OpenGate, QueueTask, QueueEnds, FinishPlan, AddTask,
           StartThreads, JoinThreads, Connect, ReadFlag, FlagFails,
           ShutdownFails, Get, Leave, SendHeader, HeaderFails, SendChunk,
           PerishSending, Accept, PassGate, SendFlagFails, RecvHeader, RecvEnds,
           RecvChunk, Perish, Die, client_vars
  <1>. QED
    BY <1>1, <1>2, <1>3 DEF Next, vars, client_vars

\* Who writes is alive and has not closed the connection.
LEMMA WriterOpen ==
    ASSUME TraceInv, NEW l \in Link, NEW r, Writing(l, r)
    PROVE  ~Dead(l[1]) /\ l[2] \notin shut[l[1]]
  <1> USE DEF TraceInv
  <1>1. ASSUME NEW g \in Host, NEW h \in Node, SendShutdown(g, h), ~Dead(g),
               l = <<g, h>>
        PROVE  ~Dead(l[1]) /\ l[2] \notin shut[l[1]]
    BY <1>1 DEF SendShutdown, AtShutdown
  <1>2. ASSUME NEW x \in Thread, ~Dead(owner[x]), l = Line(x),
               SendHeader(x) \/ PerishSending(x) \/ SendChunk(x)
        PROVE  ~Dead(l[1]) /\ l[2] \notin shut[l[1]]
    <2>1. pc[x] \in {"header", "chunk"}
      BY <1>2 DEF SendHeader, SendChunk, PerishSending, AtHeader
    <2>2. client[owner[x]] = "sending"
      BY <2>1 DEF Busy
    <2>3. l[1] = owner[x]
      BY <1>2 DEF Line
    <2>4. shut[owner[x]] = {}
      BY <2>2, Owners DEF Busy
    <2>. QED
      BY <1>2, <2>3, <2>4
  <1>. QED
    BY <1>1, <1>2 DEF Writing

\* A server's thread closes a connection at its end or after a last record.
LEMMA Closes ==
    ASSUME TraceInv, [Next]_vars, NEW l \in Link,
           rpc[l] # "closed", rpc'[l] = "closed"
    PROVE  /\ Dead(l[1]) \/ l[2] \in shut[l[1]]
           /\ stream'[l] = <<>>
  <1> USE DEF TraceInv
  <1>1. ~UNCHANGED rpc
    BY DEF TypeOK
  <1>2. ASSUME NEW h \in Host, HostStep(h) \/ DeathStep(h)
        PROVE  \/ l[2] = h /\ AtEnd(l[1], h) /\ UNCHANGED stream
               \/ l[2] = h /\ l[1] # Master /\ RecvHeader(l[1], h)
    <2>1. CASE h \in Node /\ QueueEnds(h)
      <3>1. PICK k \in Link : k = <<Master, h>>
        BY <2>1, Hosts DEF Link
      <3>2. k = l
        BY <2>1, <3>1 DEF QueueEnds, TypeOK
      <3>. QED
        BY <2>1, <3>1, <3>2 DEF QueueEnds
    <2>2. ASSUME NEW g \in Host, NEW k \in Link, k = <<g, h>>,
                 \/ Accept(g, h) \/ PassGate(g, h) \/ RecvHeader(g, h)
                 \/ RecvEnds(g, h) \/ RecvChunk(g, h)
          PROVE  \/ l[2] = h /\ AtEnd(l[1], h) /\ UNCHANGED stream
                 \/ l[2] = h /\ l[1] # Master /\ RecvHeader(l[1], h)
      <3>1. k = l
        BY <2>2 DEF Accept, PassGate, RecvHeader, RecvEnds, RecvChunk, TypeOK
      <3>2. l[1] = g /\ l[2] = h
        BY <2>2, <3>1
      <3>3. ~Accept(g, h) /\ ~PassGate(g, h) /\ ~RecvChunk(g, h)
        BY <2>2, <3>1 DEF Accept, PassGate, RecvChunk, TypeOK
      <3>. QED
        BY <2>2, <3>2, <3>3 DEF RecvHeader, RecvEnds
    <2>. QED
      BY <1>1, <1>2, StepCases, <2>1, <2>2
         DEF Construct, StartClient, JoinClient, JoinAccept, TakeTask, TakeStop,
             JoinServer, OpenGate, QueueTask, FinishPlan, AddTask, StartThreads,
             JoinThreads, Connect, ReadFlag, FlagFails, SendShutdown,
             ShutdownFails, Get, Leave, SendHeader, HeaderFails, SendChunk,
             PerishSending, SendFlagFails, Perish, Die, server_vars
  <1>3. CASE AtEnd(l[1], l[2]) /\ UNCHANGED stream
    <2>1. l = <<l[1], l[2]>>
      BY DEF Link
    <2>. QED
      BY <1>3, <2>1 DEF AtEnd
  <1>4. CASE l[1] # Master /\ RecvHeader(l[1], l[2])
    <2> DEFINE u == NextRead(l)
    <2>1. Head(stream[l]) = Header(u) /\ u \in Transfer \cup {NoTask}
      BY <1>4, RecvHeaderEffect
    <2>2. PICK t \in {u, NoTask} :
             /\ t # u => <<l[1], u>> \in cut /\ Dead(l[1])
             /\ rpc' = [rpc EXCEPT ![l] = IF t = NoTask THEN "closed" ELSE "chunk"]
      BY <1>4, RecvHeaderEffect
    <2>3. t = NoTask
      BY <2>2 DEF TypeOK
    <2>4. Final(l, Header(u), cut)
      BY <2>2, <2>3, HeaderTask DEF Final
    <2>5. /\ stream[l] # <<>> /\ stream' = [stream EXCEPT ![l] = Tail(@)]
          /\ stream[l] \in Seq(Records)
      <3>1. l = <<l[1], l[2]>>
        BY DEF Link
      <3>. QED
        BY <1>4, <3>1 DEF RecvHeader, Read, TypeOK
    <2>6. stream[l][1] = Header(u) /\ 1 \in 1..Len(stream[l])
      BY <2>1, <2>5
    <2>7. Len(stream[l]) = 1
      BY <2>4, <2>6 DEF Ends
    <2>8. stream'[l] = <<>>
      <3>1. Tail(stream[l]) \in Seq(Records) /\ Len(Tail(stream[l])) = 0
        BY <2>5, <2>7
      <3>2. Tail(stream[l]) = <<>>
        BY <3>1, EmptySeq
      <3>. QED
        BY <2>5, <3>2, StreamRead
    <2>9. Dead(l[1]) \/ l[2] \in shut[l[1]]
      <3>1. CASE t # u
        BY <2>2, <3>1
      <3>2. CASE t = u
        <4>1. Header(NoTask) \in Elems(stream[l])
          BY <2>3, <2>6, <3>2 DEF Elems
        <4>. QED
          BY <4>1, HeaderTask DEF Ends, ClosedLast
      <3>. QED
        BY <3>1, <3>2
    <2>. QED
      BY <2>8, <2>9
  <1>. QED
    BY <1>1, <1>2, <1>3, <1>4 DEF Next, vars, server_vars

LEMMA ClosedStep ==
    ASSUME TraceInv, [Next]_vars, NEW l \in Link
    PROVE  ClosedLast(l)' /\ (rpc'[l] = "closed" => stream'[l] = <<>>)
  <1> USE DEF TraceInv
  <1>0. l[1] \in Host
    BY DEF Link
  <1>1. Moving \/ Resting
    BY MovingCases
  <1>2. (Dead(l[1]) => Dead(l[1])') /\ shut[l[1]] \subseteq shut'[l[1]]
    BY <1>0, Lasting, ShutGrows
  <1>3. rpc'[l] = "closed" => Dead(l[1])' \/ l[2] \in shut'[l[1]]
    BY <1>2, Closes DEF Ends, ClosedLast
  <1>4. ASSUME rpc[l] = "closed" PROVE stream'[l] = <<>>
    <2>1. stream[l] = <<>> /\ (Dead(l[1]) \/ l[2] \in shut[l[1]])
      BY <1>4 DEF Ends, ClosedLast
    <2>2. \A r : ~Writing(l, r)
      BY <2>1, WriterOpen
    <2>3. stream'[l] = stream[l]
      BY <1>1, <2>1, <2>2, StreamChange, StreamRead, StreamWritten
    <2>. QED
      BY <2>1, <2>3
  <1>5. ASSUME NEW r \in Elems(stream'[l]), r.kind = "header", r.task = NoTask
        PROVE  l[2] \in shut'[l[1]]
    <2>1. CASE r \in Elems(stream[l])
      BY <1>2, <1>5, <2>1 DEF Ends, ClosedLast
    <2>2. CASE r \notin Elems(stream[l])
      <3>1. ~UNCHANGED stream
        BY <1>5, <2>2
      <3>2. ASSUME NEW k \in Link, stream[k] # <<>>,
                   stream' = [stream EXCEPT ![k] = Tail(@)]
            PROVE  FALSE
        <4>1. Elems(Tail(stream[k])) \subseteq Elems(stream[k])
          BY <3>2, ElemsTail DEF TypeOK
        <4>. QED
          BY <1>5, <2>2, <3>2, <4>1, StreamRead
      <3>3. PICK k \in Link, s \in Records :
               Writing(k, s) /\ stream' = [stream EXCEPT ![k] = Append(@, s)]
        BY <1>1, <3>1, <3>2, StreamChange
      <3>4. k = l /\ r = s
        <4>1. Elems(Append(stream[k], s)) = Elems(stream[k]) \cup {s}
          BY ElemsAppend DEF TypeOK
        <4>. QED
          BY <1>5, <2>2, <3>3, <4>1, StreamWritten
      <3>5. PICK g \in Host, h \in Node : SendShutdown(g, h) /\ l = <<g, h>>
        <4>1. \A t \in Transfer : r # Header(t) /\ r # Chunk(t)
          <5>1. ASSUME NEW t \in Transfer PROVE r # Header(t)
            <6>1. Header(t).task = t /\ t # NoTask
              BY HeaderTask, Hosts
            <6>. QED
              BY <1>5, <6>1
          <5>2. ASSUME NEW t \in Transfer PROVE r # Chunk(t)
            <6>1. Chunk(t).kind = "chunk"
              BY HeaderTask
            <6>. QED
              BY <1>5, <6>1
          <5>. QED
            BY <5>1, <5>2
        <4>. QED
          BY <3>3, <3>4, <4>1 DEF Writing
      <3>. QED
        BY <3>5 DEF SendShutdown, TypeOK
    <2>. QED
      BY <2>1, <2>2
  <1>6. rpc'[l] = "closed" => stream'[l] = <<>>
    BY <1>4, Closes
  <1>. QED
    BY <1>3, <1>5, <1>6 DEF ClosedLast

\* A header is cut when it is written, and was on its connection in no other way.
LEMMA CutNow ==
    ASSUME TraceInv, Moving \/ Resting, NEW l \in Link, NEW r \in Elems(stream[l]),
           Final(l, r, cut')
    PROVE  Final(l, r, cut)
  <1> USE DEF TraceInv
  <1>1. SUFFICES ASSUME r.kind = "header", r.task # NoTask,
                        <<l[1], r.task>> \in cut', <<l[1], r.task>> \notin cut
                 PROVE  FALSE
    BY DEF Final
  <1>2. \E x \in Thread : PerishSending(x) /\ ~Dead(owner[x])
    BY <1>1 DEF Moving, Resting, AddTask, TakeTask, QueueTask, SendShutdown, Get,
                SendHeader, SendChunk, RecvHeader, RecvChunk
  <1>3. PICK x \in Thread : PerishSending(x) /\ ~Dead(owner[x])
    BY <1>2
  <1>4. pc[x] = "header" /\ ~SendChunk(x)
    BY <1>3 DEF PerishSending, SendChunk, AtHeader
  <1>5. /\ hand[x] \in Transfer /\ hand[x] \in held[owner[x]]
        /\ Line(x) \in Link /\ OnWay(Line(x), hand[x])
    BY <1>3, <1>4, WrittenEffect, WriteEffect
  <1>6. l[1] = owner[x] /\ r.task = hand[x]
    BY <1>1, <1>3 DEF PerishSending
  <1>7. r = Header(hand[x]) /\ OnWay(l, hand[x])
    <2>1. r \in Records
      BY DEF TypeOK, Elems
    <2>. QED
      BY <1>1, <1>6, <2>1, RecordIs DEF Routed
  <1>8. hand[x] \in headers[l]
    BY <1>5, <1>7 DEF headers
  <1>9. CASE owner[x] = Master
    <2>1. l = <<Master, source[hand[x]]>>
      BY <1>6, <1>7, <1>9 DEF OnWay, Link
    <2>2. "masterHand" \in where[hand[x]] /\ "order" \in where[hand[x]]
      BY <1>5, <1>8, <1>9, <2>1, WhereIs
    <2>. QED
      BY <1>5, <2>2 DEF OneTrace
  <1>10. CASE owner[x] # Master
    <2>1. l = Way(hand[x]) /\ owner[x] = source[hand[x]]
      <3>1. l = Way(hand[x])
        BY <1>6, <1>7, <1>10 DEF OnWay, Way
      <3>. QED
        BY <1>5, <1>6, <3>1, Hosts
    <2>2. "hand" \in where[hand[x]] /\ "link" \in where[hand[x]]
      BY <1>5, <1>8, <2>1, WhereIs
    <2>. QED
      BY <1>5, <2>2 DEF OneTrace
  <1>. QED
    BY <1>9, <1>10

\* Who writes has not written his last record.
LEMMA NoneFinal ==
    ASSUME TraceInv, NEW l \in Link, ~Dead(l[1]), l[2] \notin shut[l[1]],
           NEW r \in Elems(stream[l])
    PROVE  ~Final(l, r, cut)
  <1>1. l[1] \in Host /\ r \in Records
    <2>1. stream[l] \in Seq(Records)
      BY DEF TraceInv, TypeOK
    <2>. QED
      BY <2>1 DEF Elems, Link
  <1>2. r.task \in Transfer \cup {NoTask}
    BY <1>1 DEF Records
  <1>3. <<l[1], r.task>> \notin cut
    BY <1>1, <1>2 DEF TraceInv, Busy
  <1>4. ~(r.kind = "header" /\ r.task = NoTask)
    BY DEF TraceInv, Ends, ClosedLast
  <1>. QED
    BY <1>3, <1>4 DEF Final

LEMMA FinalLast ==
    ASSUME TraceInv, [Next]_vars, NEW l \in Link, NEW i \in 1..Len(stream'[l]),
           Final(l, stream'[l][i], cut')
    PROVE  i = Len(stream'[l])
  <1> USE DEF TraceInv
  <1>0. Moving \/ Resting
    BY MovingCases
  <1>1. stream[l] \in Seq(Records) /\ Len(stream[l]) \in Nat
    BY DEF TypeOK
  <1>2. ASSUME NEW j \in 1..Len(stream[l]), stream'[l][i] = stream[l][j]
        PROVE  Final(l, stream[l][j], cut) /\ j = Len(stream[l])
    <2>1. stream[l][j] \in Elems(stream[l])
      BY DEF Elems
    <2>2. Final(l, stream[l][j], cut)
      BY <1>0, <1>2, <2>1, CutNow
    <2>. QED
      BY <2>2 DEF Ends
  <1>3. CASE stream'[l] = stream[l]
    BY <1>2, <1>3
  <1>4. CASE stream[l] # <<>> /\ stream'[l] = Tail(stream[l])
    <2>1. /\ Len(stream'[l]) = Len(stream[l]) - 1
          /\ stream'[l][i] = stream[l][i + 1] /\ i + 1 \in 1..Len(stream[l])
      BY <1>1, <1>4
    <2>2. i + 1 = Len(stream[l])
      BY <1>2, <2>1
    <2>. QED
      BY <1>1, <2>1, <2>2
  <1>5. ASSUME NEW r \in Records, Writing(l, r), stream'[l] = Append(stream[l], r)
        PROVE  i = Len(stream'[l])
    <2>1. /\ Len(stream'[l]) = Len(stream[l]) + 1
          /\ i \in 1..Len(stream[l]) => stream'[l][i] = stream[l][i]
      BY <1>1, <1>5
    <2>2. i \notin 1..Len(stream[l])
      <3>1. SUFFICES ASSUME i \in 1..Len(stream[l]) PROVE FALSE
        OBVIOUS
      <3>2. Final(l, stream[l][i], cut)
        BY <1>2, <2>1, <3>1
      <3>3. stream[l][i] \in Elems(stream[l])
        BY <3>1 DEF Elems
      <3>4. ~Dead(l[1]) /\ l[2] \notin shut[l[1]]
        BY <1>5, WriterOpen
      <3>. QED
        BY <3>2, <3>3, <3>4, NoneFinal
    <2>. QED
      BY <1>1, <2>1, <2>2
  <1>6. ASSUME NEW k \in Link, stream[k] # <<>>,
               stream' = [stream EXCEPT ![k] = Tail(@)]
        PROVE  i = Len(stream'[l])
    BY <1>3, <1>4, <1>6, StreamRead
  <1>7. ASSUME NEW k \in Link, NEW r \in Records, Writing(k, r),
               stream' = [stream EXCEPT ![k] = Append(@, r)]
        PROVE  i = Len(stream'[l])
    <2>1. stream'[l] = IF l = k THEN Append(stream[l], r) ELSE stream[l]
      BY <1>0, <1>7, StreamWritten
    <2>2. CASE l = k
      BY <1>5, <1>7, <2>1, <2>2
    <2>3. CASE l # k
      BY <1>3, <2>1, <2>3
    <2>. QED
      BY <2>2, <2>3
  <1>. QED
    BY <1>0, <1>3, <1>6, <1>7, StreamChange

LEMMA EndsStep ==
    ASSUME TraceInv, [Next]_vars PROVE Ends'
  <1>1. ASSUME NEW l \in Link
        PROVE  ClosedLast(l)' /\ (rpc'[l] = "closed" => stream'[l] = <<>>)
    BY ClosedStep
  <1>2. ASSUME NEW l \in Link, NEW i \in 1..Len(stream'[l])
        PROVE  Final(l, stream'[l][i], cut') => i = Len(stream'[l])
    BY FinalLast
  <1>. QED
    BY <1>1, <1>2 DEF Ends, Final

-----------------------------------------------------------------------------
(* The ends of the processes *)

LEMMA ClosedStays ==
    ASSUME TypeOK, [Next]_vars, NEW l \in Link, rpc[l] = "closed"
    PROVE  rpc'[l] = "closed"
  <1>1. CASE UNCHANGED rpc
    BY <1>1
  <1>2. ASSUME NEW h \in Host, HostStep(h) \/ DeathStep(h)
        PROVE  rpc'[l] = "closed"
    <2>1. CASE UNCHANGED rpc
      BY <2>1
    <2>2. CASE h \in Node /\ QueueEnds(h)
      BY <2>2 DEF QueueEnds, TypeOK
    <2>3. ASSUME NEW g \in Host, <<g, h>> \in Link,
                 \/ Accept(g, h) \/ PassGate(g, h) \/ RecvHeader(g, h)
                 \/ RecvEnds(g, h) \/ RecvChunk(g, h)
          PROVE  rpc'[l] = "closed"
      BY <2>3 DEF Accept, PassGate, RecvHeader, RecvEnds, RecvChunk, TypeOK
    <2>. QED
      BY <1>2, StepCases, <2>1, <2>2, <2>3
         DEF Construct, StartClient, JoinClient, JoinAccept, TakeTask, TakeStop,
             JoinServer, OpenGate, QueueTask, FinishPlan, AddTask, StartThreads,
             JoinThreads, Connect, ReadFlag, FlagFails, SendShutdown,
             ShutdownFails, Get, Leave, SendHeader, HeaderFails, SendChunk,
             PerishSending, SendFlagFails, Perish, Die, server_vars
  <1>. QED
    BY <1>1, <1>2 DEF Next, vars, server_vars

\* The way a process ends.
Left == /\ \A x \in Thread : pc[x] = "left" =>
               sealed[owner[x]] /\ queue[owner[x]] = <<>>
        /\ \A h \in Host : client[h] = "closing" =>
               \A x \in Thread : owner[x] = h => pc[x] = "left"

LEMMA LeftStep ==
    ASSUME TypeOK, ClientEnds, [Next]_vars PROVE Left'
  <1>0. Left
    BY DEF ClientEnds, Left
  <1>1. ASSUME UNCHANGED <<sealed, queue, client, pc>> PROVE Left'
    BY <1>0, <1>1 DEF Left
  <1>2. ASSUME NEW h \in Host, HostStep(h) \/ DeathStep(h) PROVE Left'
    <2>. USE DEF main_vars, client_vars, queue_vars
    <2>1. ASSUME Die(h) PROVE Left'
      BY <1>1, <2>1 DEF Die
    <2>2. CASE Construct(h) \/ JoinClient(h) \/ JoinAccept(h) \/ JoinServer(h)
               \/ OpenGate(h) \/ QueueTask(h) \/ QueueEnds(h)
      BY <1>1, <2>2 DEF Construct, JoinClient, JoinAccept, JoinServer, OpenGate,
                        QueueTask, QueueEnds
    <2>3. CASE StartClient(h) \/ StartThreads(h)
      <3>1. /\ UNCHANGED <<sealed, queue, pc>>
            /\ \A i \in Host : client'[i] = "closing" => client[i] = "closing"
        BY <2>3 DEF StartClient, StartThreads, TypeOK
      <3>. QED
        BY <1>0, <3>1 DEF Left
    <2>4. CASE FinishPlan \/ TakeStop(h)
      <3>1. /\ UNCHANGED <<queue, pc, client>>
            /\ \A i \in Host : sealed[i] => sealed'[i]
        <4>1. CASE FinishPlan
          BY <4>1 DEF FinishPlan, TypeOK
        <4>2. CASE TakeStop(h)
          BY <4>2 DEF TakeStop, TypeOK
        <4>. QED
          BY <2>4, <4>1, <4>2
      <3>. QED
        BY <1>0, <3>1, Owners DEF Left
    <2>5. CASE JoinThreads(h)
      BY <1>0, <2>5 DEF JoinThreads, Left, TypeOK
    <2>6. ASSUME NEW t \in Transfer, AddTask(t) PROVE Left'
      <3>1. ~sealed[Master]
        BY <2>6, Hosts DEF AddTask, ClientEnds
      <3>2. \A x \in Thread : owner[x] # Master => queue'[owner[x]] = queue[owner[x]]
        BY <2>6, Owners DEF AddTask, TypeOK
      <3>3. UNCHANGED <<sealed, client, pc>>
        BY <2>6 DEF AddTask
      <3>. QED
        BY <1>0, <3>1, <3>2, <3>3 DEF Left
    <2>7. CASE TakeTask(h)
      <3>1. ~sealed[h]
        BY <2>7 DEF TakeTask, ClientEnds
      <3>2. \A x \in Thread : owner[x] # h => queue'[owner[x]] = queue[owner[x]]
        BY <2>7, Owners DEF TakeTask, TypeOK
      <3>3. UNCHANGED <<sealed, client, pc>>
        BY <2>7 DEF TakeTask
      <3>. QED
        BY <1>0, <3>1, <3>2, <3>3 DEF Left
    <2>8. ASSUME NEW i \in Node, Connect(h, i) \/ ReadFlag(h, i) \/ SendShutdown(h, i)
          PROVE  Left'
      BY <1>1, <2>8 DEF Connect, ReadFlag, SendShutdown
    <2>9. ASSUME NEW x \in Thread, Get(x) PROVE Left'
      <3>1. /\ \A y \in Thread : owner[y] = owner[x] => pc[y] # "left"
            /\ client[owner[x]] = "sending"
        BY <1>0, <2>9 DEF Get, Left
      <3>2. \A y \in Thread : owner[y] # owner[x] => queue'[owner[y]] = queue[owner[y]]
        BY <2>9, Owners DEF Get, TypeOK
      <3>3. /\ UNCHANGED <<sealed, client>>
            /\ \A y \in Thread : pc'[y] = IF y = x THEN "header" ELSE pc[y]
        BY <2>9 DEF Get, TypeOK
      <3>4. \A y \in Thread : pc'[y] = "left" =>
               pc[y] = "left" /\ owner[y] # owner[x]
        BY <3>1, <3>3
      <3>5. \A i \in Host : client'[i] = "closing" => i # owner[x]
        BY <3>1, <3>3
      <3>6. \A y \in Thread : pc'[y] = "left" =>
               sealed'[owner[y]] /\ queue'[owner[y]] = <<>>
        BY <1>0, <3>2, <3>3, <3>4 DEF Left
      <3>7. \A i \in Host : client'[i] = "closing" =>
               \A y \in Thread : owner[y] = i => pc'[y] = "left"
        BY <1>0, <3>3, <3>5 DEF Left
      <3>. QED
        BY <3>6, <3>7 DEF Left
    <2>10. ASSUME NEW x \in Thread, Leave(x) PROVE Left'
      BY <1>0, <2>10 DEF Leave, Left, TypeOK
    <2>11. ASSUME NEW x \in Thread, SendHeader(x) \/ SendChunk(x) PROVE Left'
      <3>1. /\ UNCHANGED <<sealed, queue, client>> /\ pc[x] # "left"
            /\ \A y \in Thread : y # x => pc'[y] = pc[y]
            /\ pc'[x] # "left"
        BY <2>11 DEF SendHeader, AtHeader, SendChunk, TypeOK
      <3>. QED
        BY <1>0, <3>1 DEF Left
    <2>12. ASSUME NEW x \in Thread, PerishSending(x) PROVE Left'
      BY <1>1, <2>12 DEF PerishSending
    <2>13. ASSUME NEW g \in Host,
                  \/ Accept(g, h) \/ PassGate(g, h) \/ RecvHeader(g, h)
                  \/ RecvEnds(g, h) \/ RecvChunk(g, h)
           PROVE  Left'
      BY <1>1, <2>13 DEF Accept, PassGate, RecvHeader, RecvEnds, RecvChunk
    <2>. QED
      BY <1>2, StepCases, <2>1, <2>2, <2>3, <2>4, <2>5, <2>6, <2>7, <2>8, <2>9,
         <2>10, <2>11, <2>12, <2>13
         DEF FlagFails, ShutdownFails, HeaderFails, SendFlagFails, Perish
  <1>. QED
    BY <1>1, <1>2 DEF Next, vars, client_vars, queue_vars

\* The rest of ClientEnds.
Done == /\ \A h \in Host : sealed[h] =>
               main[h] \in {"joining", "leaving", "over", "dead"}
        /\ main[Master] \in {"joining", "leaving", "over"} => plan = {}
        /\ \A h \in Host : main[h] \in {"leaving", "over"} =>
               client[h] = "closing" /\ shut[h] = Others(h)
        /\ \A l \in Link : main[l[2]] = "over" => rpc[l] = "closed"

LEMMA DoneStep ==
    ASSUME TypeOK, Busy, ClientEnds, [Next]_vars PROVE Done'
  <1>0. Done
    BY DEF ClientEnds, Done
  <1>a. \A l \in Link : rpc[l] = "closed" => rpc'[l] = "closed"
    BY ClosedStays
  <1>b. \A l \in Link : l[2] \in Node /\ l[2] \in Host /\ l[2] # Master
    BY DEF Link, Host, Node, Master
  <1>c. Master \in Host
    BY Hosts
  <1>1. ASSUME UNCHANGED <<main, plan, sealed, client, shut>> PROVE Done'
    BY <1>0, <1>a, <1>1 DEF Done, Others
  <1>2. ASSUME NEW h \in Host, ~Dead(h), HostStep(h) \/ DeathStep(h) PROVE Done'
    <2>. USE DEF main_vars, client_vars, queue_vars, Others
    <2>1. ASSUME UNCHANGED <<plan, sealed, client, shut>>,
                 main' = [main EXCEPT ![h] = "dead"]
          PROVE  Done'
      <3>1. \A i \in Host : main'[i] = IF i = h THEN "dead" ELSE main[i]
        BY <2>1 DEF TypeOK
      <3>2. \A l \in Link : main'[l[2]] = "over" => main[l[2]] = "over"
        BY <1>b, <3>1
      <3>. QED
        BY <1>0, <1>a, <1>c, <2>1, <3>1, <3>2 DEF Done
    <2>2. ASSUME Die(h) PROVE Done'
      BY <2>1, <2>2 DEF Die
    <2>3. CASE Construct(h) \/ JoinAccept(h)
      <3>1. /\ main[h] \in {"new", "accepting"}
            /\ \A i \in Host : \/ main'[i] = main[i]
                               \/ i = h /\ main'[i] \in {"connecting", "taking"}
            /\ UNCHANGED <<plan, sealed, client, shut>>
        BY <2>3 DEF Construct, JoinAccept, Goto, TypeOK
      <3>2. \A l \in Link : main'[l[2]] = "over" => main[l[2]] = "over"
        BY <1>b, <3>1
      <3>. QED
        BY <1>0, <1>a, <1>c, <3>1, <3>2 DEF Done
    <2>4. CASE StartClient(h)
      <3>1. /\ main[h] = "connecting"
            /\ \A i \in Host : main'[i] = main[i]
                  \/ (i = h /\ main'[i] \in {"planning", "accepting"})
            /\ UNCHANGED <<plan, sealed, shut>>
            /\ \A i \in Host : client'[i] = client[i] \/ i = h
        BY <2>4 DEF StartClient, Goto, TypeOK
      <3>2. \A l \in Link : main'[l[2]] = "over" => main[l[2]] = "over"
        BY <1>b, <3>1
      <3>. QED
        BY <1>0, <1>a, <1>c, <3>1, <3>2 DEF Done
    <2>5. CASE StartThreads(h) \/ JoinThreads(h)
      <3>1. /\ UNCHANGED <<main, plan, sealed, shut>>
            /\ \A i \in Host : client'[i] = client[i]
                               \/ (i = h /\ client[h] \in {"flags", "sending"})
        BY <2>5 DEF StartThreads, JoinThreads, TypeOK
      <3>. QED
        BY <1>0, <1>a, <3>1 DEF Done
    <2>6. CASE h = Master /\ FinishPlan
      <3>1. /\ plan = {} /\ UNCHANGED <<plan, client, shut>>
            /\ \A i \in Host : main'[i] = IF i = Master THEN "joining" ELSE main[i]
            /\ \A i \in Host : sealed'[i] = (i = Master \/ sealed[i])
        BY <2>6 DEF FinishPlan, Goto, TypeOK
      <3>2. \A l \in Link : main'[l[2]] = "over" => main[l[2]] = "over"
        BY <1>b, <3>1
      <3>. QED
        BY <1>0, <1>a, <1>c, <3>1, <3>2 DEF Done
    <2>7. CASE h \in Node /\ TakeStop(h)
      <3>1. /\ UNCHANGED <<plan, client, shut>>
            /\ \A i \in Host : main'[i] = IF i = h THEN "joining" ELSE main[i]
            /\ \A i \in Host : sealed'[i] = (i = h \/ sealed[i])
        BY <2>7 DEF TakeStop, Goto, TypeOK
      <3>2. \A l \in Link : main'[l[2]] = "over" => main[l[2]] = "over"
        BY <1>b, <3>1
      <3>3. h # Master
        BY <2>7, Hosts
      <3>. QED
        BY <1>0, <1>a, <1>c, <3>1, <3>2, <3>3 DEF Done
    <2>8. CASE JoinClient(h)
      <3>1. /\ client[h] = "closing" /\ shut[h] = Others(h) /\ main[h] = "joining"
            /\ UNCHANGED <<plan, sealed, client, shut>>
            /\ \A i \in Host : main'[i] = IF i # h THEN main[i]
                                 ELSE IF h = Master THEN "over" ELSE "leaving"
        BY <2>8 DEF JoinClient, Goto, TypeOK
      <3>2. \A l \in Link : main'[l[2]] = "over" => main[l[2]] = "over"
        BY <1>b, <3>1
      <3>. QED
        BY <1>0, <1>a, <1>c, <3>1, <3>2 DEF Done
    <2>9. CASE h \in Node /\ JoinServer(h)
      <3>1. /\ main[h] = "leaving" /\ \A l \in Link : l[2] = h => rpc[l] = "closed"
            /\ UNCHANGED <<plan, sealed, client, shut>>
            /\ \A i \in Host : main'[i] = IF i = h THEN "over" ELSE main[i]
        BY <2>9 DEF JoinServer, Goto, TypeOK
      <3>2. \A l \in Link : main'[l[2]] = "over" => main[l[2]] = "over" \/ l[2] = h
        BY <1>b, <3>1
      <3>3. h # Master
        BY <2>9, Hosts
      <3>. QED
        BY <1>0, <1>a, <1>c, <3>1, <3>2, <3>3 DEF Done
    <2>10. ASSUME NEW t \in Transfer, AddTask(t) PROVE Done'
      <3>1. main[Master] = "planning" /\ UNCHANGED <<main, sealed, client, shut>>
        BY <2>10 DEF AddTask
      <3>. QED
        BY <1>0, <1>a, <3>1 DEF Done
    <2>11. ASSUME NEW i \in Node, SendShutdown(h, i) PROVE Done'
      <3>1. /\ shut[h] # Others(h) /\ UNCHANGED <<main, plan, sealed, client>>
            /\ \A j \in Host : j # h => shut'[j] = shut[j]
        BY <2>11 DEF SendShutdown, AtShutdown, TypeOK
      <3>2. main[h] \notin {"leaving", "over"}
        BY <1>0, <3>1 DEF Done
      <3>. QED
        BY <1>0, <1>a, <3>1, <3>2 DEF Done
    <2>12. CASE TakeTask(h) \/ OpenGate(h) \/ QueueTask(h) \/ QueueEnds(h)
      BY <1>1, <2>12 DEF TakeTask, OpenGate, QueueTask, QueueEnds
    <2>13. ASSUME NEW i \in Node, Connect(h, i) \/ ReadFlag(h, i) PROVE Done'
      BY <1>1, <2>13 DEF Connect, ReadFlag
    <2>14. ASSUME NEW x \in Thread,
                  Get(x) \/ Leave(x) \/ SendHeader(x) \/ SendChunk(x)
           PROVE  Done'
      BY <1>1, <2>14 DEF Get, Leave, SendHeader, SendChunk
    <2>15. ASSUME NEW x \in Thread, owner[x] = h, PerishSending(x) PROVE Done'
      BY <2>1, <2>15 DEF PerishSending
    <2>16. ASSUME NEW g \in Host,
                  \/ Accept(g, h) \/ PassGate(g, h) \/ RecvHeader(g, h)
                  \/ RecvEnds(g, h) \/ RecvChunk(g, h)
           PROVE  Done'
      BY <1>1, <2>16 DEF Accept, PassGate, RecvHeader, RecvEnds, RecvChunk
    <2>. QED
      BY <1>2, StepCases, <2>2, <2>3, <2>4, <2>5, <2>6, <2>7, <2>8, <2>9,
         <2>10, <2>11, <2>12, <2>13, <2>14, <2>15, <2>16
         DEF FlagFails, ShutdownFails, HeaderFails, SendFlagFails, Perish
  <1>. QED
    BY <1>1, <1>2 DEF Next, vars, main_vars, client_vars, queue_vars

LEMMA ClientEndsStep ==
    ASSUME TypeOK, Busy, ClientEnds, [Next]_vars PROVE ClientEnds'
  BY LeftStep, DoneStep DEF ClientEnds, Left, Done

\* What the master has told a node lasts.
LEMMA ToldStays ==
    ASSUME TraceInv, [Next]_vars, NEW h \in Node, Told(h) PROVE Told(h)'
  <1> USE DEF TraceInv
  <1>1. PICK l \in Link : l = <<Master, h>>
    BY Hosts DEF Link
  <1>2. stream[l] = <<>> /\ h \in shut[Master] /\ l[1] = Master /\ l[2] = h
    BY <1>1 DEF Told
  <1>3. \A r : ~Writing(l, r)
    BY <1>2, WriterOpen
  <1>4. Moving \/ Resting
    BY MovingCases
  <1>5. stream'[l] = <<>>
    BY <1>2, <1>3, <1>4, StreamChange, StreamRead, StreamWritten
  <1>6. h \in shut'[Master]
    BY <1>2, ShutGrows, Hosts
  <1>. QED
    BY <1>1, <1>5, <1>6 DEF Told

LEMMA NodeEndsAtStep ==
    ASSUME TraceInv, ClientEnds, [Next]_vars, NEW h \in Node, NodeEndsAt(h)
    PROVE  NodeEndsAt(h)'
  <1> USE DEF TraceInv
  <1> DEFINE Ending == {"joining", "leaving", "over"}
  <1>1. PICK l \in Link : l = <<Master, h>>
    BY Hosts DEF Link
  <1>2. Told(h) => Told(h)'
    BY ToldStays
  <1>3. Dead(Master) => Dead(Master)'
    BY Lasting, Hosts
  <1>4. rpc[l] = "closed" => rpc'[l] = "closed"
    BY ClosedStays
  <1>5. /\ \A i \in 1..Len(inbox[h]) : inbox[h][i] = NoTask =>
               Dead(Master) \/ (Told(h) /\ i = Len(inbox[h]))
        /\ inboxSealed[h] => rpc[l] = "closed"
        /\ main[h] \in Ending =>
               Dead(Master) \/ (Told(h) /\ Elems(inbox[h]) \subseteq {NoTask})
    BY <1>1 DEF NodeEndsAt
  <1>6. inbox[h] \in Seq(Transfer \cup {NoTask}) /\ Len(inbox[h]) \in Nat
    BY DEF TypeOK
  <1>7. h \in Host /\ h # Master
    BY Hosts
  <1>8. ASSUME inbox'[h] = inbox[h], inboxSealed'[h] = inboxSealed[h],
               main'[h] \in Ending => main[h] \in Ending
        PROVE  NodeEndsAt(h)'
    <2>1. \A i \in 1..Len(inbox'[h]) : inbox'[h][i] = NoTask =>
             Dead(Master)' \/ (Told(h)' /\ i = Len(inbox'[h]))
      BY <1>2, <1>3, <1>5, <1>8
    <2>2. inboxSealed'[h] => rpc'[l] = "closed"
      BY <1>4, <1>5, <1>8
    <2>3. Elems(inbox'[h]) = Elems(inbox[h])
      BY <1>8 DEF Elems
    <2>4. main'[h] \in Ending =>
             Dead(Master)' \/ (Told(h)' /\ Elems(inbox'[h]) \subseteq {NoTask})
      BY <1>2, <1>3, <1>5, <1>8, <2>3
    <2>. QED
      BY <1>1, <2>1, <2>2, <2>4 DEF NodeEndsAt
  <1>9. ASSUME TakeTask(h) PROVE NodeEndsAt(h)'
    <2>1. /\ inbox[h] # <<>> /\ inbox'[h] = Tail(inbox[h])
          /\ inboxSealed' = inboxSealed /\ main'[h] = "taking"
      BY <1>7, <1>9 DEF TakeTask, TypeOK, main_vars
    <2>2. /\ Len(inbox'[h]) = Len(inbox[h]) - 1
          /\ \A i \in 1..Len(inbox'[h]) :
                 inbox'[h][i] = inbox[h][i + 1] /\ i + 1 \in 1..Len(inbox[h])
      BY <1>6, <2>1
    <2>3. \A i \in 1..Len(inbox'[h]) : inbox'[h][i] = NoTask =>
             Dead(Master)' \/ (Told(h)' /\ i = Len(inbox'[h]))
      <3>1. SUFFICES ASSUME NEW i \in 1..Len(inbox'[h]), inbox'[h][i] = NoTask
                     PROVE  Dead(Master)' \/ (Told(h)' /\ i = Len(inbox'[h]))
        OBVIOUS
      <3>2. Dead(Master) \/ (Told(h) /\ i + 1 = Len(inbox[h]))
        BY <1>5, <2>2, <3>1
      <3>. QED
        BY <1>2, <1>3, <1>6, <2>2, <3>1, <3>2
    <2>4. inboxSealed'[h] => rpc'[l] = "closed"
      BY <1>4, <1>5, <2>1
    <2>. QED
      BY <1>1, <2>1, <2>3, <2>4 DEF NodeEndsAt
  <1>10. ASSUME TakeStop(h) PROVE NodeEndsAt(h)'
    <2>1. /\ inbox' = inbox /\ inboxSealed' = inboxSealed
          /\ \/ inbox[h] # <<>> /\ Head(inbox[h]) = NoTask
             \/ inbox[h] = <<>> /\ inboxSealed[h]
      BY <1>10 DEF TakeStop, server_vars
    <2>2. Dead(Master) \/ (Told(h) /\ Elems(inbox[h]) \subseteq {NoTask})
      <3>1. CASE inbox[h] # <<>> /\ Head(inbox[h]) = NoTask
        <4>1. inbox[h][1] = NoTask /\ 1 \in 1..Len(inbox[h])
          BY <1>6, <3>1
        <4>2. Dead(Master) \/ (Told(h) /\ 1 = Len(inbox[h]))
          BY <1>5, <4>1
        <4>3. 1 = Len(inbox[h]) => Elems(inbox[h]) \subseteq {NoTask}
          BY <4>1 DEF Elems
        <4>. QED
          BY <4>2, <4>3
      <3>2. CASE inbox[h] = <<>> /\ inboxSealed[h]
        <4>1. rpc[l] = "closed" /\ l[1] = Master /\ l[2] = h
          BY <1>1, <1>5, <3>2
        <4>2. stream[l] = <<>> /\ (Dead(Master) \/ h \in shut[Master])
          BY <4>1 DEF Ends, ClosedLast
        <4>3. Elems(inbox[h]) \subseteq {NoTask}
          BY <3>2 DEF Elems
        <4>. QED
          BY <1>1, <4>2, <4>3 DEF Told
      <3>. QED
        BY <2>1, <3>1, <3>2
    <2>3. \A i \in 1..Len(inbox'[h]) : inbox'[h][i] = NoTask =>
             Dead(Master)' \/ (Told(h)' /\ i = Len(inbox'[h]))
      BY <1>2, <1>3, <1>5, <2>1
    <2>4. inboxSealed'[h] => rpc'[l] = "closed"
      BY <1>4, <1>5, <2>1
    <2>5. Dead(Master)' \/ (Told(h)' /\ Elems(inbox'[h]) \subseteq {NoTask})
      BY <1>2, <1>3, <2>1, <2>2
    <2>. QED
      BY <1>1, <2>3, <2>4, <2>5 DEF NodeEndsAt
  <1>11. ASSUME QueueTask(h) PROVE NodeEndsAt(h)'
    <2> DEFINE u == NextRead(l)
    <2>1. /\ Head(stream[l]) = Header(u) /\ u \in Transfer \cup {NoTask}
      BY <1>1, <1>11, QueueTaskEffect
    <2>2. PICK t \in {u, NoTask} :
             /\ t # u => Dead(Master)
             /\ inbox' = [inbox EXCEPT ![h] = Append(@, t)]
      BY <1>1, <1>11, QueueTaskEffect
    <2>3. /\ stream[l] # <<>> /\ stream' = [stream EXCEPT ![l] = Tail(@)]
          /\ stream[l] \in Seq(Records) /\ ~Told(h)
          /\ UNCHANGED <<main, inboxSealed>>
      BY <1>1, <1>11 DEF QueueTask, Read, TypeOK, Told, main_vars
    <2>4. /\ Len(inbox'[h]) = Len(inbox[h]) + 1
          /\ inbox'[h][Len(inbox[h]) + 1] = t
          /\ \A i \in 1..Len(inbox[h]) : inbox'[h][i] = inbox[h][i]
      BY <1>6, <2>2 DEF TypeOK
    <2>5. t = NoTask => Dead(Master) \/ Told(h)'
      <3>1. SUFFICES ASSUME u = NoTask PROVE Told(h)'
        BY <2>2
      <3>2. stream[l][1] = Header(NoTask) /\ 1 \in 1..Len(stream[l])
        BY <2>1, <2>3, <3>1
      <3>3. Len(stream[l]) = 1
        <4>1. Final(l, Header(NoTask), cut)
          BY HeaderTask DEF Final
        <4>2. Final(l, stream[l][1], cut)
          BY <3>2, <4>1
        <4>. QED
          BY <3>2, <4>2 DEF Ends
      <3>4. Header(NoTask) \in Elems(stream[l])
        BY <3>2 DEF Elems
      <3>5. h \in shut[Master]
        BY <1>1, <3>4, HeaderTask DEF Ends, ClosedLast
      <3>6. h \in shut'[Master]
        BY <3>5, ShutGrows, Hosts
      <3>7. stream'[l] = <<>>
        <4>1. Tail(stream[l]) \in Seq(Records) /\ Len(Tail(stream[l])) = 0
          BY <2>3, <3>3
        <4>2. Tail(stream[l]) = <<>>
          BY <4>1, EmptySeq
        <4>. QED
          BY <2>3, <4>2, StreamRead
      <3>. QED
        BY <1>1, <3>6, <3>7 DEF Told
    <2>6. ASSUME NEW i \in 1..Len(inbox'[h]), inbox'[h][i] = NoTask
          PROVE  Dead(Master)' \/ (Told(h)' /\ i = Len(inbox'[h]))
      <3>1. CASE i \in 1..Len(inbox[h])
        BY <1>3, <1>5, <2>3, <2>4, <2>6, <3>1
      <3>2. CASE i \notin 1..Len(inbox[h])
        <4>1. i = Len(inbox[h]) + 1
          BY <1>6, <2>4, <3>2
        <4>. QED
          BY <1>3, <2>4, <2>5, <2>6, <4>1
      <3>. QED
        BY <3>1, <3>2
    <2>7. inboxSealed'[h] => rpc'[l] = "closed"
      BY <1>4, <1>5, <2>3
    <2>8. main'[h] \in Ending => Dead(Master)'
      BY <1>3, <1>5, <2>3
    <2>. QED
      BY <1>1, <2>6, <2>7, <2>8 DEF NodeEndsAt
  <1>12. ASSUME QueueEnds(h) PROVE NodeEndsAt(h)'
    <2>1. UNCHANGED <<main, inbox>> /\ rpc'[l] = "closed"
      BY <1>1, <1>12 DEF QueueEnds, TypeOK, main_vars
    <2>. QED
      BY <1>1, <1>2, <1>3, <1>5, <2>1 DEF NodeEndsAt
  <1>13. CASE UNCHANGED vars
    BY <1>8, <1>13 DEF vars, main_vars, server_vars
  <1>14. ASSUME NEW g \in Host, ~Dead(g), HostStep(g) \/ DeathStep(g)
         PROVE  NodeEndsAt(h)'
    <2>. USE DEF main_vars, server_vars
    <2>1. ASSUME UNCHANGED <<main, inbox, inboxSealed>> PROVE NodeEndsAt(h)'
      BY <1>8, <2>1
    <2>2. ASSUME UNCHANGED <<inbox, inboxSealed>>, main' = [main EXCEPT ![g] = "dead"]
          PROVE  NodeEndsAt(h)'
      BY <1>7, <1>8, <2>2 DEF TypeOK
    <2>3. ASSUME Die(g) PROVE NodeEndsAt(h)'
      BY <2>2, <2>3 DEF Die
    <2>4. CASE \/ Construct(g) \/ StartClient(g) \/ JoinClient(g)
               \/ g = Master /\ FinishPlan
               \/ g \in Node /\ (JoinAccept(g) \/ JoinServer(g))
      <3>1. /\ UNCHANGED <<inbox, inboxSealed>>
            /\ main'[h] \in Ending => main[h] \in Ending
        BY <1>7, <2>4 DEF Construct, StartClient, JoinClient, FinishPlan,
           JoinAccept, JoinServer, Goto, TypeOK
      <3>. QED
        BY <1>8, <3>1
    <2>5. CASE g \in Node /\ TakeStop(g)
      <3>1. g # h => /\ UNCHANGED <<inbox, inboxSealed>>
                     /\ main'[h] = main[h]
        BY <1>7, <2>5 DEF TakeStop, Goto, TypeOK
      <3>. QED
        BY <1>8, <1>10, <2>5, <3>1
    <2>6. CASE g \in Node /\ (TakeTask(g) \/ QueueTask(g) \/ QueueEnds(g))
      <3>1. g # h => /\ inbox'[h] = inbox[h] /\ inboxSealed'[h] = inboxSealed[h]
                     /\ UNCHANGED main
        BY <2>6 DEF TakeTask, QueueTask, QueueEnds, TypeOK
      <3>. QED
        BY <1>8, <1>9, <1>11, <1>12, <2>6, <3>1
    <2>7. CASE OpenGate(g) \/ StartThreads(g) \/ JoinThreads(g)
      BY <2>1, <2>7 DEF OpenGate, StartThreads, JoinThreads
    <2>8. ASSUME NEW t \in Transfer, AddTask(t) PROVE NodeEndsAt(h)'
      BY <2>1, <2>8 DEF AddTask
    <2>9. ASSUME NEW i \in Node, Connect(g, i) \/ ReadFlag(g, i) \/ SendShutdown(g, i)
          PROVE  NodeEndsAt(h)'
      BY <2>1, <2>9 DEF Connect, ReadFlag, SendShutdown
    <2>10. ASSUME NEW x \in Thread,
                  Get(x) \/ Leave(x) \/ SendHeader(x) \/ SendChunk(x)
           PROVE  NodeEndsAt(h)'
      BY <2>1, <2>10 DEF Get, Leave, SendHeader, SendChunk
    <2>11. ASSUME NEW x \in Thread, owner[x] = g, PerishSending(x)
           PROVE  NodeEndsAt(h)'
      BY <2>2, <2>11 DEF PerishSending
    <2>12. ASSUME NEW i \in Host,
                  \/ Accept(i, g) \/ PassGate(i, g) \/ RecvHeader(i, g)
                  \/ RecvEnds(i, g) \/ RecvChunk(i, g)
           PROVE  NodeEndsAt(h)'
      BY <2>1, <2>12 DEF Accept, PassGate, RecvHeader, RecvEnds, RecvChunk
    <2>. QED
      BY <1>14, StepCases, <2>3, <2>4, <2>5, <2>6, <2>7, <2>8, <2>9, <2>10,
         <2>11, <2>12
         DEF FlagFails, ShutdownFails, HeaderFails, SendFlagFails, Perish
  <1>. QED
    BY <1>13, <1>14 DEF Next

LEMMA NodeEndsStep ==
    ASSUME TraceInv, ClientEnds, NodeEnds, [Next]_vars PROVE NodeEnds'
  BY NodeEndsAtStep DEF NodeEnds

\* What is known of every reachable state.
ClusterInv == TraceInv /\ ClientEnds /\ NodeEnds

LEMMA ClusterInvInit == Init => OneTrace /\ NoDoubles /\ Hands /\ Ends
                                /\ ClientEnds /\ NodeEnds
  <1>0. SUFFICES ASSUME Init PROVE OneTrace /\ NoDoubles /\ Hands /\ Ends
                                   /\ ClientEnds /\ NodeEnds
    OBVIOUS
  <1>1. Elems(<<>>) = {} /\ Len(<<>>) = 0
    BY DEF Elems
  <1>2. /\ \A h \in Host : queue[h] = <<>> /\ main[h] = "new" /\ ~sealed[h]
                            /\ client[h] = "new"
        /\ \A h \in Node : inbox[h] = <<>> /\ ~inboxSealed[h] /\ h \in Host
        /\ \A l \in Link : stream[l] = <<>> /\ rpc[l] = "none" /\ rtask[l] = NoTask
        /\ \A x \in Thread : pc[x] = "ready" /\ hand[x] = NoTask
        /\ \A t \in Transfer : stored[t] = <<>>
        /\ plan = Transfer /\ cut = {}
    BY <1>0, Hosts DEF Init
  <1>3. OneTrace
    <2>1. ASSUME NEW t \in Transfer PROVE where[t] = {"plan"}
      <3>1. queued[Master] = {} /\ queued[source[t]] = {} /\ inboxed[source[t]] = {}
        BY <1>1, <1>2, Hosts DEF queued, inboxed
      <3>2. headers[<<Master, source[t]>>] = {} /\ headers[Way(t)] = {}
        BY <1>1, <1>2, Hosts DEF headers
      <3>3. held[Master] = {} /\ held[source[t]] = {}
        BY <1>2, Hosts DEF held, Holding
      <3>4. rtask[Way(t)] # t /\ stored[t] = <<>> /\ t \in plan
        <4>1. Way(t) \in Link /\ t # NoTask
          BY Hosts
        <4>. QED
          BY <1>2, <4>1
      <3>. QED
        BY <3>1, <3>2, <3>3, <3>4, WhereIs DEF Places
    <2>. QED
      BY <2>1 DEF OneTrace
  <1>4. NoDoubles
    BY <1>1, <1>2 DEF NoDoubles, Once
  <1>5. Hands
    BY <1>1, <1>2 DEF Hands
  <1>6. Ends
    BY <1>1, <1>2 DEF Ends, ClosedLast
  <1>7. ClientEnds
    <2>1. \A l \in Link : main[l[2]] = "new"
      BY <1>2 DEF Link
    <2>. QED
      BY <1>2, <2>1, Hosts DEF ClientEnds
  <1>8. NodeEnds
    BY <1>1, <1>2 DEF NodeEnds, NodeEndsAt
  <1>. QED
    BY <1>3, <1>4, <1>5, <1>6, <1>7, <1>8

LEMMA ClusterInvHolds == Spec => []ClusterInv
  <1>1. TypeOK /\ Busy /\ Routed /\ Framed /\ OneTrace /\ NoDoubles /\ Hands /\ Ends
           /\ ClientEnds /\ NodeEnds /\ [Next]_vars
        => (OneTrace /\ NoDoubles /\ Hands /\ Ends /\ ClientEnds /\ NodeEnds)'
    BY OneTraceStep, NoDoublesStep, HandsStep, EndsStep, ClientEndsStep, NodeEndsStep
       DEF TraceInv
  <1>. QED
    BY <1>1, ClusterInvInit, TypeCorrect, FramedHolds, PTL
       DEF Spec, ClusterInv, TraceInv

-----------------------------------------------------------------------------
(* The fate of a transfer *)

Planning(t) == t \in plan \/ t \in queued[Master] \/ t \in hands[Master]
Ordering(t) == \/ t \in headers[<<Master, source[t]>>] \/ t \in inboxed[source[t]]
               \/ t \in queued[source[t]] \/ t \in hands[source[t]]

\* The fate in the terms of the trace.
FateOf(t) ==
    IF stored[t] # <<>>
    THEN IF stored[t] = <<"whole">> /\ <<Master, t>> \notin cut
         THEN "moved"
         ELSE IF Len(stored[t]) = 1 THEN "spoilt" ELSE "moved again"
    ELSE IF Planning(t) THEN "planned"
    ELSE IF Ordering(t) THEN "ordered" ELSE "sent"

LEMMA FateIs ==
    ASSUME NEW t \in Transfer PROVE fate[t] = FateOf(t)
  <1>1. \A h \in Host : InClient(h, t) <=> t \in queued[h] \/ t \in hands[h]
    BY DEF InClient, queued, hands, Holding
  <1>2. InClient(Master, t) <=> t \in queued[Master] \/ t \in hands[Master]
    BY <1>1, Hosts
  <1>3. InClient(source[t], t) <=> t \in queued[source[t]] \/ t \in hands[source[t]]
    BY <1>1, Hosts
  <1>4. /\ Header(t) \in Elems(stream[<<Master, source[t]>>])
              <=> t \in headers[<<Master, source[t]>>]
        /\ t \in Elems(inbox[source[t]]) <=> t \in inboxed[source[t]]
    BY Hosts DEF headers, inboxed
  <1>5. (t \in plan \/ InClient(Master, t)) <=> Planning(t)
    BY <1>2 DEF Planning
  <1>6. (\/ Header(t) \in Elems(stream[<<Master, source[t]>>])
         \/ t \in Elems(inbox[source[t]])
         \/ InClient(source[t], t)) <=> Ordering(t)
    BY <1>3, <1>4 DEF Ordering
  <1>7. CASE stored[t] # <<>>
    BY <1>7 DEF fate, FateOf
  <1>8. CASE stored[t] = <<>> /\ Planning(t)
    BY <1>5, <1>8 DEF fate, FateOf
  <1>9. CASE stored[t] = <<>> /\ ~Planning(t)
    BY <1>5, <1>6, <1>9 DEF fate, FateOf
  <1>. QED
    BY <1>7, <1>8, <1>9

LEMMA FateNext ==
    ASSUME NEW t \in Transfer PROVE fate'[t] = FateOf(t)'
  <1>1. \A h \in Host : InClient(h, t)' <=> t \in queued'[h] \/ t \in hands'[h]
    BY DEF InClient, queued, hands, Holding
  <1>2. InClient(Master, t)' <=> t \in queued'[Master] \/ t \in hands'[Master]
    BY <1>1, Hosts
  <1>3. InClient(source[t], t)' <=> t \in queued'[source[t]] \/ t \in hands'[source[t]]
    BY <1>1, Hosts
  <1>4. /\ Header(t) \in Elems(stream'[<<Master, source[t]>>])
              <=> t \in headers'[<<Master, source[t]>>]
        /\ t \in Elems(inbox'[source[t]]) <=> t \in inboxed'[source[t]]
    BY Hosts DEF headers, inboxed, Header
  <1>5. (t \in plan' \/ InClient(Master, t)') <=> Planning(t)'
    BY <1>2 DEF Planning
  <1>6. (\/ Header(t) \in Elems(stream'[<<Master, source[t]>>])
         \/ t \in Elems(inbox'[source[t]])
         \/ InClient(source[t], t)') <=> Ordering(t)'
    BY <1>3, <1>4 DEF Ordering
  <1>7. CASE stored'[t] # <<>>
    BY <1>7 DEF fate, FateOf
  <1>8. CASE stored'[t] = <<>> /\ Planning(t)'
    BY <1>5, <1>8 DEF fate, FateOf
  <1>9. CASE stored'[t] = <<>> /\ ~Planning(t)'
    BY <1>5, <1>6, <1>9 DEF fate, FateOf, Header
  <1>. QED
    BY <1>7, <1>8, <1>9

\* A step that leaves a transfer's fate alone.
LEMMA FateKept ==
    ASSUME NEW t \in Transfer, stored'[t] = stored[t],
           stored[t] = <<>> \/ (<<Master, t>> \in cut' <=> <<Master, t>> \in cut),
           Planning(t)' <=> Planning(t),
           Planning(t) \/ stored[t] # <<>> \/ (Ordering(t)' <=> Ordering(t))
    PROVE  fate'[t] = fate[t]
  BY FateIs, FateNext DEF FateOf

\* What a client has of a transfer.
LEMMA FateViews ==
    ASSUME NEW t \in Transfer, UNCHANGED <<stored, cut, plan>>,
           \A h \in Host : t \in queued'[h] \/ t \in hands'[h]
                           <=> t \in queued[h] \/ t \in hands[h],
           \A h \in Node : t \in inboxed'[h] <=> t \in inboxed[h],
           \A l \in Link : t \in headers'[l] <=> t \in headers[l]
    PROVE  fate'[t] = fate[t]
  <1>1. Planning(t)' <=> Planning(t)
    BY Hosts DEF Planning
  <1>2. Ordering(t)' <=> Ordering(t)
    BY Hosts DEF Ordering
  <1>. QED
    BY <1>1, <1>2, FateKept

\* What the steps of a transfer are in the terms of Transfers.
LEMMA EndedKept == UNCHANGED main => UNCHANGED ended
  BY DEF ended

LEMMA FatesKept ==
    ASSUME \A t \in Transfer : fate'[t] = fate[t] PROVE UNCHANGED fate
  <1>1. /\ fate = [t \in Transfer |-> fate[t]]
        /\ fate' = [t \in Transfer |-> fate'[t]]
    BY DEF fate
  <1>. QED
    BY <1>1

LEMMA FateAdvance ==
    ASSUME NEW u \in Transfer, NEW from, NEW to, UNCHANGED main,
           fate[u] = from, fate'[u] = to,
           \A t \in Transfer : t # u => fate'[t] = fate[t]
    PROVE  T!Advance(u, from, to)
  <1>1. /\ fate = [t \in Transfer |-> fate[t]]
        /\ fate' = [t \in Transfer |-> fate'[t]]
    BY DEF fate
  <1>2. fate' = [fate EXCEPT ![u] = to]
    BY <1>1
  <1>. QED
    BY <1>2, EndedKept DEF T!Advance

-----------------------------------------------------------------------------
(* What the steps do to the fates *)

LEMMA AddTaskFate ==
    ASSUME TraceInv, NEW u \in Transfer, AddTask(u), NEW t \in Transfer
    PROVE  fate'[t] = fate[t]
  <1>1. Planning(t)' <=> Planning(t)
    BY AddTaskEffect, Hosts DEF Planning
  <1>2. Ordering(t)' <=> Ordering(t)
    BY AddTaskEffect, Hosts DEF Ordering
  <1>. QED
    BY <1>1, <1>2, FateKept, AddTaskEffect

LEMMA TakeTaskFate ==
    ASSUME TraceInv, NEW h \in Node, TakeTask(h), NEW t \in Transfer
    PROVE  fate'[t] = fate[t]
  <1> DEFINE u == NextTask(h)
             s == source[t]
  <1>0. s \in Node /\ s \in Host /\ s # Master /\ h # Master /\ Master \in Host
    BY Hosts
  <1>1. /\ source[u] = h /\ u \in inboxed[h]
        /\ \A i \in Node : inboxed'[i] = IF i = h THEN inboxed[i] \ {u} ELSE inboxed[i]
        /\ \A i \in Host : queued'[i] = IF i = h THEN queued[i] \cup {u} ELSE queued[i]
        /\ UNCHANGED <<plan, headers, hands, stored, cut>>
    BY TakeTaskEffect
  <1>2. queued'[Master] = queued[Master]
    BY <1>0, <1>1
  <1>3. Planning(t)' <=> Planning(t)
    BY <1>1, <1>2 DEF Planning
  <1>4. Ordering(t)' <=> Ordering(t)
    <2>1. CASE t = u
      <3>1. t \in queued'[s] /\ t \in inboxed[s]
        BY <1>0, <1>1, <2>1
      <3>. QED
        BY <3>1 DEF Ordering
    <2>2. CASE t # u
      <3>1. /\ t \in queued'[s] <=> t \in queued[s]
            /\ t \in inboxed'[s] <=> t \in inboxed[s]
        BY <1>0, <1>1, <2>2
      <3>. QED
        BY <1>1, <3>1 DEF Ordering
    <2>. QED
      BY <2>1, <2>2
  <1>. QED
    BY <1>1, <1>3, <1>4, FateKept

LEMMA QueueTaskFate ==
    ASSUME TraceInv, NEW h \in Node, QueueTask(h), NEW t \in Transfer
    PROVE  fate'[t] = fate[t]
  <1> DEFINE l == <<Master, h>>
             u == NextRead(l)
  <1>1. Planning(t)' <=> Planning(t)
    BY QueueTaskEffect, Hosts DEF Planning
  <1>2. Planning(t) \/ (Ordering(t)' <=> Ordering(t))
    <2>b. \E e \in {u, NoTask} :
             /\ e # u => <<Master, u>> \in cut /\ Dead(Master)
             /\ inbox' = [inbox EXCEPT ![h] = Append(@, e)]
             /\ \A i \in Node : inboxed'[i] =
                   IF i = h THEN inboxed[i] \cup {e} ELSE inboxed[i]
      BY QueueTaskEffect
    <2>1. PICK e \in {u, NoTask} :
             /\ e # u => <<Master, u>> \in cut
             /\ \A i \in Node : inboxed'[i] =
                   IF i = h THEN inboxed[i] \cup {e} ELSE inboxed[i]
      BY <2>b
    <2>0. /\ source[t] \in Node /\ <<Master, source[t]>> \in Link
          /\ t # NoTask /\ Master \in Host
      BY Hosts
    <2>a. /\ u \in Transfer => source[u] = h /\ u \in headers[l]
          /\ \A k \in Link :
                headers'[k] = IF k = l THEN headers[k] \ {u} ELSE headers[k]
          /\ UNCHANGED <<queued, hands>>
      BY QueueTaskEffect
    <2>2. CASE t # u
      <3>1. /\ t \in inboxed'[source[t]] <=> t \in inboxed[source[t]]
            /\ t \in headers'[<<Master, source[t]>>]
                  <=> t \in headers[<<Master, source[t]>>]
        BY <2>0, <2>1, <2>2, <2>a
      <3>. QED
        BY <2>a, <3>1 DEF Ordering
    <2>3. CASE t = u /\ e = u
      <3>1. t \in inboxed'[source[t]] /\ t \in headers[<<Master, source[t]>>]
        BY <2>0, <2>1, <2>3, <2>a
      <3>. QED
        BY <3>1 DEF Ordering
    <2>4. CASE t = u /\ e # u
      <3>1. t \in hands[Master]
        BY <2>1, <2>4, Hosts DEF TraceInv, Hands
      <3>. QED
        BY <3>1 DEF Planning
    <2>. QED
      BY <2>1, <2>2, <2>3, <2>4
  <1>. QED
    BY <1>1, <1>2, FateKept, QueueTaskEffect

LEMMA GetFate ==
    ASSUME TraceInv, NEW x \in Thread, Get(x), ~Dead(owner[x]),
           NEW t \in Transfer
    PROVE  fate'[t] = fate[t]
  <1>1. \A h \in Host : t \in queued'[h] \/ t \in hands'[h]
                        <=> t \in queued[h] \/ t \in hands[h]
    <2> DEFINE u == NextOf(owner[x])
    <2>1. /\ u \in queued[owner[x]]
          /\ \A h \in Host :
                /\ queued'[h] = IF h = owner[x] THEN queued[h] \ {u} ELSE queued[h]
                /\ hands'[h] = IF h = owner[x] THEN hands[h] \cup {u} ELSE hands[h]
      BY GetEffect
    <2> HIDE DEF u
    <2>2. ASSUME NEW h \in Host
          PROVE  t \in queued'[h] \/ t \in hands'[h]
                 <=> t \in queued[h] \/ t \in hands[h]
      <3>1. CASE h = owner[x] /\ t = u
        BY <2>1, <3>1
      <3>2. CASE h = owner[x] /\ t # u
        BY <2>1, <3>2
      <3>3. CASE h # owner[x]
        BY <2>1, <3>3
      <3>. QED
        BY <3>1, <3>2, <3>3
    <2>. QED
      BY <2>2
  <1>. QED
    BY <1>1, FateViews, GetEffect

LEMMA RecvHeaderFate ==
    ASSUME TraceInv, NEW l \in Link, l[1] # Master, RecvHeader(l[1], l[2]),
           NEW t \in Transfer
    PROVE  fate'[t] = fate[t]
  <1>1. Planning(t)' <=> Planning(t)
    BY RecvHeaderEffect DEF Planning
  <1>2. l # <<Master, source[t]>>
    OBVIOUS
  <1>3. Ordering(t)' <=> Ordering(t)
    <2>1. /\ \A k \in Link :
                headers'[k] = IF k = l THEN headers[k] \ {NextRead(l)} ELSE headers[k]
          /\ UNCHANGED <<plan, queued, inboxed, hands, held, stored, cut>>
      BY RecvHeaderEffect
    <2>2. headers'[<<Master, source[t]>>] = headers[<<Master, source[t]>>]
      BY <1>2, <2>1, Hosts
    <2>. QED
      BY <2>1, <2>2 DEF Ordering
  <1>. QED
    BY <1>1, <1>3, FateKept, RecvHeaderEffect

LEMMA SendShutdownFate ==
    ASSUME TraceInv, NEW g \in Host, NEW h \in Node, SendShutdown(g, h),
           NEW t \in Transfer
    PROVE  fate'[t] = fate[t]
  <1>1. <<g, h>> \in Link
    BY DEF SendShutdown, AtShutdown, Link, Others
  <1>2. stream' = [stream EXCEPT ![<<g, h>>] = Append(@, Shutdown)]
    BY DEF SendShutdown, Write
  <1>3. Shutdown \in Records
    BY DEF Shutdown, Header, Records
  <1>4. \A l \in Link : t \in headers'[l] <=> t \in headers[l]
    <2>1. TypeOK /\ Shutdown = Header(NoTask) /\ t # NoTask
      BY Hosts DEF TraceInv, Shutdown
    <2>2. \A l \in Link : headers'[l] =
             IF l = <<g, h>>
             THEN headers[l] \cup {u \in Transfer : Header(u) = Shutdown}
             ELSE headers[l]
      BY <1>1, <1>2, <1>3, <2>1, HeadersWrite
    <2>3. Header(t) # Shutdown
      BY <2>1, HeaderTask
    <2>. QED
      BY <2>2, <2>3
  <1>5. UNCHANGED <<stored, cut, plan, queued, hands, inboxed>>
    BY ViewsKept DEF SendShutdown, main_vars, queue_vars, server_vars
  <1>. QED
    BY <1>4, <1>5, FateViews

LEMMA RestingFate ==
    ASSUME TraceInv, Resting, NEW t \in Transfer
    PROVE  fate'[t] = fate[t]
  <1>1. UNCHANGED <<stored, cut, plan, queued, hands, inboxed, headers>>
    BY ViewsKept DEF Resting
  <1>. QED
    BY <1>1, FateViews

-----------------------------------------------------------------------------
(* What the steps that write do to the fates *)

\* The other transfers.
LEMMA OthersFate ==
    ASSUME TraceInv, NEW x \in Thread, ~Dead(owner[x]),
           SendHeader(x) \/ SendChunk(x) \/ PerishSending(x),
           NEW t \in Transfer, t # hand[x]
    PROVE  fate'[t] = fate[t]
  <1>0. pc[x] \in {"header", "chunk"}
    BY DEF SendHeader, SendChunk, PerishSending, AtHeader
  <1>1. /\ UNCHANGED <<plan, queued, stored>>
        /\ \A k \in Link : t \in headers'[k] <=> t \in headers[k]
    <2>1. /\ UNCHANGED <<plan, queued, stored>>
          /\ \A k \in Link : headers'[k] =
                IF k = Line(x) /\ ~SendChunk(x) THEN headers[k] \cup {hand[x]}
                                                ELSE headers[k]
      BY <1>0, WriteEffect
    <2>. QED
      BY <2>1
  <1>2. \A h \in Host : t \in hands'[h] <=> t \in hands[h]
    <2>1. \A h \in Host : hands'[h] \in {hands[h], hands[h] \ {hand[x]}}
      BY <1>0, WrittenEffect
    <2>. QED
      BY <2>1
  <1>3. UNCHANGED inboxed /\ (<<Master, t>> \in cut' <=> <<Master, t>> \in cut)
    BY ViewsKept
       DEF SendHeader, SendChunk, PerishSending, server_vars
  <1>4. Planning(t)' <=> Planning(t)
    BY <1>1, <1>2, Hosts DEF Planning
  <1>5. Ordering(t)' <=> Ordering(t)
    BY <1>1, <1>2, <1>3, Hosts DEF Ordering
  <1>. QED
    BY <1>1, <1>3, <1>4, <1>5, FateKept

\* The master has written the header of a transfer.
LEMMA MasterFate ==
    ASSUME TraceInv, [Next]_vars, NEW x \in Thread, ~Dead(owner[x]),
           SendHeader(x), owner[x] = Master
    PROVE  T!Order(hand[x])
  <1>a. hand[x] \in Transfer
    BY WriteTrace
  <1>. SUFFICES ASSUME NEW u \in Transfer, u = hand[x] PROVE T!Order(u)
    BY <1>a
  <1> DEFINE s == source[u]
  <1>0. /\ u \in Transfer /\ where[u] = {"masterHand"}
        /\ where'[u] = {"order"}
    BY WriteTrace
  <1>1. pc[x] = "header"
    BY DEF SendHeader, AtHeader
  <1>2. /\ u \in hands[Master] /\ u \notin hands'[Master]
        /\ UNCHANGED <<plan, queued, stored>>
    <2>1. hands'[Master] = hands[Master] \ {u}
      <3>1. ~PerishSending(x)
        BY <1>1 DEF SendHeader, PerishSending, queue_vars, TraceInv, TypeOK
      <3>. QED
        BY <1>1, <3>1, WrittenEffect, Hosts
    <2>. QED
      BY <1>1, <2>1, WrittenEffect, WriteEffect
  <1>3. /\ stored[u] = <<>> /\ u \notin plan /\ u \notin queued[Master]
    BY <1>0, WhereIs
  <1>4. u \in headers'[<<Master, s>>]
    BY <1>0, WhereNext
  <1>5. Planning(u) /\ ~Planning(u)'
    BY <1>2, <1>3 DEF Planning
  <1>6. Ordering(u)'
    BY <1>4 DEF Ordering
  <1>7. fate[u] = "planned"
    BY <1>0, <1>3, <1>5, FateIs DEF FateOf
  <1>8. fate'[u] = "ordered"
    BY <1>0, <1>2, <1>3, <1>5, <1>6, FateNext DEF FateOf
  <1>9. \A t \in Transfer : t # u => fate'[t] = fate[t]
    BY OthersFate
  <1>10. UNCHANGED main
    BY DEF SendHeader, main_vars
  <1>11. T!Advance(u, "planned", "ordered")
    BY <1>0, <1>7, <1>8, <1>9, <1>10, FateAdvance
  <1>. QED
    BY <1>11 DEF T!Order

\* A node has, or a process has died with a header half written.
LEMMA HeaderFate ==
    ASSUME TraceInv, [Next]_vars, NEW x \in Thread, ~Dead(owner[x]),
           \/ SendHeader(x) /\ owner[x] # Master
           \/ PerishSending(x),
           NEW t \in Transfer
    PROVE  fate'[t] = fate[t]
  <1> DEFINE u == hand[x]
  <1>1. CASE t # u
    BY <1>1, OthersFate
  <1>2. CASE t = u
    <2>0. pc[x] = "header" /\ stored[u] = <<>>
      <3>1. /\ u \in Transfer
            /\ where[u] = {"masterHand"} \/ where[u] = {"hand"}
        BY WriteTrace
      <3>2. "stored" \notin where[u]
        BY <3>1
      <3>. QED
        BY <3>1, <3>2, WhereIs DEF SendHeader, PerishSending, AtHeader
    <2>1. ~SendChunk(x)
      BY <2>0 DEF SendChunk
    <2>2. \A h \in Host : hands'[h] = hands[h]
      <3>1. PerishSending(x) \/ owner[x] # Master
        OBVIOUS
      <3>. QED
        BY <2>0, <2>1, <3>1, WrittenEffect
    <2>3. /\ UNCHANGED <<plan, queued, stored>> /\ OnWay(Line(x), u)
          /\ \A k \in Link : k # Line(x) => headers'[k] = headers[k]
      BY <2>0, <2>1, WriteEffect
    <2>4. UNCHANGED inboxed
      BY ViewsKept DEF SendHeader, PerishSending, server_vars
    <2>5. Planning(t)' <=> Planning(t)
      BY <2>2, <2>3, Hosts DEF Planning
    <2>6. CASE owner[x] = Master
      <3>1. u \in hands[Master]
        BY <2>0, <2>6, WrittenEffect
      <3>. QED
        BY <1>2, <2>0, <2>3, <2>5, <3>1, FateKept DEF Planning
    <2>7. CASE owner[x] # Master
      <3>1. Line(x) # <<Master, source[t]>>
        BY <2>7 DEF Line
      <3>2. Ordering(t)' <=> Ordering(t)
        BY <2>2, <2>3, <2>4, <3>1, Hosts DEF Ordering
      <3>. QED
        BY <1>2, <2>0, <2>3, <2>5, <3>2, FateKept
    <2>. QED
      BY <2>6, <2>7
  <1>. QED
    BY <1>1, <1>2

\* A node has written a chunk: the transfer is sent, unless the master has died
\* with the header half written, and so keeps it in hand.
LEMMA ChunkFate ==
    ASSUME TraceInv, [Next]_vars, NEW x \in Thread, ~Dead(owner[x]), SendChunk(x)
    PROVE  \/ \A t \in Transfer : fate'[t] = fate[t]
           \/ T!Send(hand[x])
  <1>a. hand[x] \in Transfer /\ pc[x] = "chunk"
    BY ChunkAnnounced DEF SendChunk
  <1>. SUFFICES ASSUME NEW u \in Transfer, u = hand[x]
                PROVE  (\A t \in Transfer : fate'[t] = fate[t]) \/ T!Send(u)
    BY <1>a
  <1> DEFINE s == source[u]
  <1>0. /\ u \in Transfer /\ Line(x) = Way(u) /\ pc[x] = "chunk"
        /\ where[u] = {"link"} \/ where[u] = {"expected"}
    BY <1>a, ChunkAnnounced
  <1>1. stored[u] = <<>> /\ u \notin headers[<<Master, s>>] /\ u \notin inboxed[s]
        /\ u \notin queued[s]
    BY <1>0, WhereIs
  <1>2. s = owner[x] /\ owner[x] # Master
    BY <1>0, Hosts DEF Line, Way
  <1>3. ~PerishSending(x)
    BY <1>0 DEF PerishSending, AtHeader
  <1>4. /\ u \in hands[s] /\ u \notin hands'[s]
        /\ hands'[Master] = hands[Master]
    BY <1>0, <1>2, <1>3, WrittenEffect, Hosts
  <1>5. /\ UNCHANGED <<plan, queued, stored>>
        /\ \A k \in Link : headers'[k] = headers[k]
    BY <1>0, WriteEffect
  <1>6. UNCHANGED <<inboxed, main>>
    BY ViewsKept DEF SendChunk, server_vars, main_vars
  <1>7. \A t \in Transfer : t # u => fate'[t] = fate[t]
    BY OthersFate
  <1>8. Planning(u)' <=> Planning(u)
    BY <1>4, <1>5, Hosts DEF Planning
  <1>9. Ordering(u) /\ ~Ordering(u)'
    BY <1>0, <1>1, <1>4, <1>5, <1>6, Hosts DEF Ordering
  <1>10. CASE Planning(u)
    <2>1. fate'[u] = fate[u]
      BY <1>0, <1>1, <1>5, <1>8, <1>10, FateKept
    <2>. QED
      BY <1>7, <2>1
  <1>11. CASE ~Planning(u)
    <2>1. fate[u] = "ordered"
      BY <1>0, <1>1, <1>9, <1>11, FateIs DEF FateOf
    <2>2. fate'[u] = "sent"
      BY <1>0, <1>1, <1>5, <1>8, <1>9, <1>11, FateNext DEF FateOf
    <2>3. T!Advance(u, "ordered", "sent")
      BY <1>0, <1>6, <1>7, <2>1, <2>2, FateAdvance
    <2>. QED
      BY <2>3 DEF T!Send
  <1>. QED
    BY <1>10, <1>11

\* A transfer whose chunk is there as a whole, and whose header was, is in
\* nobody's hands before.
LEMMA SentFate ==
    ASSUME TraceInv, NEW u \in Transfer, where[u] = {"expected"},
           <<Master, u>> \notin cut, Chunk(u) \in Elems(stream[Way(u)])
    PROVE  fate[u] = "sent"
  <1>1. /\ stored[u] = <<>> /\ u \notin plan /\ u \notin queued[Master]
        /\ u \notin held[Master] /\ u \notin headers[<<Master, source[u]>>]
        /\ u \notin inboxed[source[u]] /\ u \notin queued[source[u]]
    BY WhereIs
  <1>2. u \notin hands[source[u]]
    BY Hosts DEF TraceInv, Hands
  <1>3. ASSUME u \in hands[Master] PROVE FALSE
    <2>1. PICK x \in Thread : owner[x] = Master /\ hand[x] = u
      BY <1>3, Hosts DEF hands, Holding
    <2>2. u # NoTask
      BY Hosts
    <2>3. pc[x] = "header"
      BY <2>1, <2>2 DEF TraceInv, TypeOK, Hands, Busy
    <2>4. u \in held[Master]
      BY <2>1, <2>3, Hosts DEF held, Holding
    <2>. QED
      BY <1>1, <2>4
  <1>4. ~Planning(u) /\ ~Ordering(u)
    BY <1>1, <1>2, <1>3 DEF Planning, Ordering
  <1>. QED
    BY <1>1, <1>4, FateIs DEF FateOf

LEMMA LenOne == ASSUME NEW e PROVE Append(<<>>, e) = <<e>> /\ Len(<<e>>) = 1
  OBVIOUS

LEMMA RecvChunkFate ==
    ASSUME TraceInv, [Next]_vars, NEW l \in Link, l[1] # Master,
           RecvChunk(l[1], l[2])
    PROVE  T!Move(rtask[l]) \/ T!Spoil(rtask[l])
  <1>a. rtask[l] \in Transfer
    BY RecvChunkEffect
  <1>. SUFFICES ASSUME NEW u \in Transfer, u = rtask[l]
                PROVE  T!Move(u) \/ T!Spoil(u)
    BY <1>a
  <1>1. /\ l = Way(u)
        /\ UNCHANGED <<plan, queued, inboxed, hands, cut>>
        /\ \A k \in Link : headers'[k] = headers[k]
    BY RecvChunkEffect
  <1>2. PICK o \in {"whole", "torn"} :
           /\ stored' = [stored EXCEPT ![u] = Append(@, o)]
           /\ o = "whole" => Chunk(u) \in Elems(stream[l])
           /\ o = "torn" => Dead(l[1])
    BY RecvChunkEffect
  <1>3. where[u] = {"expected"} /\ stored[u] = <<>>
    <2>1. where[u] = {"expected"}
      BY RecvChunkTrace
    <2>2. "stored" \notin where[u]
      BY <2>1
    <2>. QED
      BY <2>1, <2>2, WhereIs
  <1>4. stored'[u] = <<o>> /\ Len(stored'[u]) = 1 /\ stored'[u] # <<>>
    BY <1>2, <1>3, LenOne DEF TraceInv, TypeOK
  <1>5. ASSUME NEW t \in Transfer, t # u PROVE fate'[t] = fate[t]
    <2>1. stored'[t] = stored[t]
      BY <1>2, <1>5 DEF TraceInv, TypeOK
    <2>2. Planning(t)' <=> Planning(t)
      BY <1>1 DEF Planning
    <2>3. Ordering(t)' <=> Ordering(t)
      BY <1>1, Hosts DEF Ordering
    <2>. QED
      BY <1>1, <2>1, <2>2, <2>3, FateKept
  <1>6. UNCHANGED main
    BY DEF RecvChunk, main_vars
  <1>7. CASE o = "whole" /\ <<Master, u>> \notin cut
    <2>1. fate[u] = "sent"
      BY <1>1, <1>2, <1>3, <1>7, SentFate
    <2>2. fate'[u] = "moved"
      BY <1>1, <1>4, <1>7, FateNext DEF FateOf
    <2>3. T!Advance(u, "sent", "moved")
      BY <1>5, <1>6, <2>1, <2>2, FateAdvance
    <2>. QED
      BY <2>3 DEF T!Move
  <1>8. CASE ~(o = "whole" /\ <<Master, u>> \notin cut)
    <2>1. fate[u] \in {"planned", "ordered", "sent"}
      BY <1>3, FateIs DEF FateOf
    <2>2. fate'[u] = "spoilt"
      <3>1. stored'[u] # <<"whole">> \/ <<Master, u>> \in cut'
        BY <1>1, <1>2, <1>4, <1>8
      <3>. QED
        BY <1>4, <3>1, FateNext DEF FateOf
    <2>3. Dead(Master) \/ Dead(source[u])
      <3>1. CASE o = "torn"
        BY <1>1, <1>2, <3>1, Hosts
      <3>2. CASE <<Master, u>> \in cut
        BY <3>2, Hosts DEF TraceInv, Busy
      <3>. QED
        BY <1>8, <3>1, <3>2
    <2>4. T!DiedAmong({Master, source[u]})
      BY <2>3, Hosts DEF T!DiedAmong, ended, Dead
    <2>5. \E from \in {"planned", "ordered", "sent"} : T!Advance(u, from, "spoilt")
      BY <1>5, <1>6, <2>1, <2>2, FateAdvance
    <2>. QED
      BY <2>4, <2>5 DEF T!Spoil
  <1>. QED
    BY <1>7, <1>8

\* Every step leaves the fates alone or is one of Transfers'.
FateStepOf ==
    \/ \A t \in Transfer : fate'[t] = fate[t]
    \/ \E t \in Transfer : T!Order(t) \/ T!Send(t) \/ T!Move(t) \/ T!Spoil(t)

LEMMA FateStep ==
    ASSUME TraceInv, [Next]_vars PROVE FateStepOf
  <1>1. CASE Resting
    BY <1>1, RestingFate DEF FateStepOf
  <1>2. ASSUME NEW t \in Transfer, AddTask(t) PROVE FateStepOf
    BY <1>2, AddTaskFate DEF FateStepOf
  <1>3. ASSUME NEW h \in Node, TakeTask(h) \/ QueueTask(h) PROVE FateStepOf
    BY <1>3, TakeTaskFate, QueueTaskFate DEF FateStepOf
  <1>4. ASSUME NEW g \in Host, NEW h \in Node, SendShutdown(g, h) PROVE FateStepOf
    BY <1>4, SendShutdownFate DEF FateStepOf
  <1>5. ASSUME NEW x \in Thread, ~Dead(owner[x]),
               Get(x) \/ SendHeader(x) \/ SendChunk(x) \/ PerishSending(x)
        PROVE  FateStepOf
    <2>1. CASE Get(x)
      BY <1>5, <2>1, GetFate DEF FateStepOf
    <2>2. CASE SendHeader(x) /\ owner[x] = Master
      <3>1. hand[x] \in Transfer
        BY <1>5, <2>2, WriteTrace
      <3>. QED
        BY <1>5, <2>2, <3>1, MasterFate DEF FateStepOf
    <2>3. CASE (SendHeader(x) /\ owner[x] # Master) \/ PerishSending(x)
      BY <1>5, <2>3, HeaderFate DEF FateStepOf
    <2>4. CASE SendChunk(x)
      <3>1. hand[x] \in Transfer
        BY <1>5, <2>4, ChunkAnnounced DEF SendChunk
      <3>. QED
        BY <1>5, <2>4, <3>1, ChunkFate DEF FateStepOf
    <2>. QED
      BY <1>5, <2>1, <2>2, <2>3, <2>4
  <1>6. ASSUME NEW l \in Link, l[1] # Master,
               RecvHeader(l[1], l[2]) \/ RecvChunk(l[1], l[2])
        PROVE  FateStepOf
    <2>1. CASE RecvHeader(l[1], l[2])
      BY <1>6, <2>1, RecvHeaderFate DEF FateStepOf
    <2>2. CASE RecvChunk(l[1], l[2])
      <3>1. rtask[l] \in Transfer
        BY <1>6, <2>2, RecvChunkEffect
      <3>. QED
        BY <1>6, <2>2, <3>1, RecvChunkFate DEF FateStepOf
    <2>. QED
      BY <1>6, <2>1, <2>2
  <1>. QED
    BY <1>1, <1>2, <1>3, <1>4, <1>5, <1>6, MovingCases DEF Moving

-----------------------------------------------------------------------------
(* How processes end *)

\* A client that closes has nothing left.
LEMMA ClientDone ==
    ASSUME ClusterInv, NEW h \in Host, client[h] = "closing"
    PROVE  sealed[h] /\ queued[h] = {} /\ hands[h] = {}
  <1>1. \A x \in Thread : owner[x] = h => pc[x] = "left"
    BY DEF ClusterInv, ClientEnds
  <1>2. PICK x \in Thread : owner[x] = h
    BY ThreadAssumption
  <1>3. sealed[h] /\ queue[h] = <<>>
    BY <1>1, <1>2 DEF ClusterInv, ClientEnds
  <1>4. queued[h] = {}
    BY <1>3 DEF queued, Elems
  <1>5. \A y \in Thread : owner[y] = h => hand[y] = NoTask
    BY <1>1 DEF ClusterInv, TraceInv, Hands
  <1>6. hands[h] = {}
    BY <1>5, Hosts DEF hands, Holding
  <1>. QED
    BY <1>3, <1>4, <1>6

\* A master that closes has given every transfer away.
LEMMA MasterDone ==
    ASSUME ClusterInv, client[Master] = "closing", ~Dead(Master), NEW t \in Transfer
    PROVE  ~Planning(t)
  <1>1. sealed[Master] /\ queued[Master] = {} /\ hands[Master] = {}
    BY ClientDone, Hosts
  <1>2. plan = {}
    BY <1>1, Hosts DEF ClusterInv, ClientEnds, Dead
  <1>. QED
    BY <1>1, <1>2 DEF Planning

\* A node whose client closes has sent everything, if the master is alive.
LEMMA SourceDone ==
    ASSUME ClusterInv, NEW t \in Transfer, ~Dead(Master), ~Dead(source[t]),
           client[source[t]] = "closing"
    PROVE  ~Planning(t) /\ ~Ordering(t)
  <1> DEFINE s == source[t]
  <1>0. s \in Node /\ s \in Host /\ t # NoTask /\ <<Master, s>> \in Link
    BY Hosts
  <1>1. sealed[s] /\ queued[s] = {} /\ hands[s] = {}
    BY <1>0, ClientDone
  <1>2. main[s] \in {"joining", "leaving", "over"}
    BY <1>0, <1>1 DEF ClusterInv, ClientEnds, Dead
  <1>3. Told(s) /\ Elems(inbox[s]) \subseteq {NoTask}
    BY <1>0, <1>2 DEF ClusterInv, NodeEnds, NodeEndsAt
  <1>4. client[Master] = "closing"
    BY <1>3, Hosts DEF Told, ClusterInv, TraceInv, Busy
  <1>5. t \notin inboxed[s]
    BY <1>0, <1>3 DEF inboxed
  <1>6. t \notin headers[<<Master, s>>]
    BY <1>0, <1>3 DEF Told, headers, Elems
  <1>7. ~Ordering(t)
    BY <1>1, <1>5, <1>6 DEF Ordering
  <1>. QED
    BY <1>4, <1>7, MasterDone

\* A server that has closed a connection has what its sender had for it.
LEMMA TargetDone ==
    ASSUME ClusterInv, NEW t \in Transfer, ~Dead(Master), ~Dead(source[t]),
           rpc[Way(t)] = "closed"
    PROVE  fate[t] \in {"moved", "spoilt"}
  <1> DEFINE s == source[t]
  <1>0. /\ s \in Node /\ s \in Host /\ t # NoTask /\ Way(t) \in Link
        /\ Way(t)[1] = s
    BY Hosts
  <1>1. /\ Way(t)[2] \in shut[s] /\ stream[Way(t)] = <<>>
        /\ rtask[Way(t)] = NoTask
    BY <1>0 DEF ClusterInv, TraceInv, Ends, ClosedLast, Hands
  <1>2. client[s] = "closing"
    BY <1>0, <1>1 DEF ClusterInv, TraceInv, Busy
  <1>3. ~Planning(t) /\ ~Ordering(t)
    BY <1>2, SourceDone
  <1>4. \A h \in Host : held[h] \subseteq hands[h]
    BY DEF held, hands
  <1>5. t \notin headers[Way(t)]
    BY <1>0, <1>1 DEF headers, Elems
  <1>6. stored[t] # <<>>
    <2>1. PICK p \in where[t] : TRUE
      BY DEF ClusterInv, TraceInv, OneTrace
    <2>2. p \in Places
      BY <2>1, WhereIs
    <2>3. t \notin held[Master] /\ t \notin held[s]
      BY <1>0, <1>3, <1>4, Hosts DEF Planning, Ordering
    <2>. QED
      BY <1>0, <1>1, <1>3, <1>5, <2>1, <2>2, <2>3, WhereIs
         DEF Places, Planning, Ordering
  <1>7. Len(stored[t]) = 1
    <2>1. Len(stored[t]) <= 1 /\ stored[t] \in Seq({"whole", "torn"})
      BY DEF ClusterInv, TraceInv, NoDoubles, TypeOK
    <2>2. Len(stored[t]) \in Nat /\ Len(stored[t]) # 0
      BY <1>6, <2>1, EmptySeq
    <2>3. \A n \in Nat : n <= 1 /\ n # 0 => n = 1
      OBVIOUS
    <2>. QED
      BY <2>1, <2>2, <2>3
  <1>. QED
    BY <1>6, <1>7, FateIs DEF FateOf

\* Who is done takes no step any more.
LEMMA OverStays ==
    ASSUME ClusterInv, NEW h \in Host, main[h] = "over", HostStep(h) \/ DeathStep(h)
    PROVE  UNCHANGED main
  <1>1. /\ client[h] = "closing" /\ shut[h] = Others(h)
        /\ \A x \in Thread : owner[x] = h => pc[x] = "left"
        /\ \A l \in Link : l[2] = h => rpc[l] = "closed"
    BY DEF ClusterInv, ClientEnds
  <1>2. \A i \in Node : ~FlagFails(h, i) /\ ~ShutdownFails(h, i)
    BY <1>1 DEF FlagFails, ShutdownFails, AtShutdown
  <1>3. \A x \in Thread : owner[x] = h =>
           ~HeaderFails(x) /\ ~PerishSending(x)
    BY <1>1 DEF HeaderFails, PerishSending, AtHeader
  <1>4. \A g \in Host : <<g, h>> \in Link => ~SendFlagFails(g, h)
    BY <1>1 DEF SendFlagFails
  <1>. QED
    BY <1>2, <1>3, <1>4, StepCases
       DEF Construct, StartClient, JoinClient, JoinAccept, TakeTask, TakeStop,
           JoinServer, OpenGate, QueueTask, QueueEnds, FinishPlan, AddTask,
           StartThreads, JoinThreads, Connect, ReadFlag,
           SendShutdown, Get, Leave, SendHeader,
           SendChunk, Accept, PassGate,
           RecvHeader, RecvEnds, RecvChunk, Perish, Goto, main_vars

\* What a step of process h does to the main threads.
MainStepOf(h) ==
    /\ \A i \in Host : i # h => main'[i] = main[i]
    /\ main'[h] = "over" => \/ main[h] = "over"
                            \/ h = Master /\ JoinClient(h)
                            \/ h \in Node /\ JoinServer(h)

LEMMA MainStepIs ==
    ASSUME TypeOK, NEW h \in Host, HostStep(h) \/ DeathStep(h)
    PROVE  MainStepOf(h)
  <1>0. ASSUME NEW at, at # "over", main' = [main EXCEPT ![h] = at]
        PROVE  MainStepOf(h)
    BY <1>0 DEF MainStepOf, TypeOK
  <1>a. ASSUME UNCHANGED main PROVE MainStepOf(h)
    BY <1>a DEF MainStepOf
  <1>1. ASSUME Die(h) PROVE MainStepOf(h)
    <2>1. main' = [main EXCEPT ![h] = "dead"]
      BY <1>1 DEF Die
    <2>. QED
      BY <1>0, <2>1
  <1>2. CASE Construct(h)
    <2>1. main' = [main EXCEPT ![h] = "connecting"]
      BY <1>2 DEF Construct, Goto
    <2>. QED
      BY <1>0, <2>1
  <1>3. CASE StartClient(h)
    BY <1>3 DEF StartClient, Goto, MainStepOf, TypeOK
  <1>4. CASE JoinClient(h)
    BY <1>4 DEF JoinClient, Goto, MainStepOf, TypeOK
  <1>5. CASE JoinAccept(h)
    <2>1. main' = [main EXCEPT ![h] = "taking"]
      BY <1>5 DEF JoinAccept, Goto
    <2>. QED
      BY <1>0, <2>1
  <1>6. CASE TakeTask(h) \/ OpenGate(h) \/ QueueTask(h) \/ QueueEnds(h)
    BY <1>a, <1>6 DEF TakeTask, OpenGate, QueueTask, QueueEnds, main_vars
  <1>7. CASE TakeStop(h)
    <2>1. main' = [main EXCEPT ![h] = "joining"]
      BY <1>7 DEF TakeStop, Goto
    <2>. QED
      BY <1>0, <2>1
  <1>8. CASE h \in Node /\ JoinServer(h)
    BY <1>8 DEF JoinServer, Goto, MainStepOf, TypeOK
  <1>9. CASE h = Master /\ FinishPlan
    <2>1. main' = [main EXCEPT ![h] = "joining"]
      BY <1>9 DEF FinishPlan, Goto
    <2>. QED
      BY <1>0, <2>1
  <1>10. ASSUME NEW t \in Transfer, AddTask(t) PROVE MainStepOf(h)
    BY <1>a, <1>10 DEF AddTask
  <1>11. CASE StartThreads(h) \/ JoinThreads(h)
    BY <1>a, <1>11 DEF StartThreads, JoinThreads, main_vars
  <1>12. ASSUME NEW i \in Node,
                Connect(h, i) \/ ReadFlag(h, i) \/ SendShutdown(h, i)
         PROVE  MainStepOf(h)
    BY <1>a, <1>12 DEF Connect, ReadFlag, SendShutdown, main_vars
  <1>13. ASSUME NEW x \in Thread,
                Get(x) \/ Leave(x) \/ SendHeader(x) \/ SendChunk(x)
         PROVE  MainStepOf(h)
    BY <1>a, <1>13 DEF Get, Leave, SendHeader, SendChunk, main_vars
  <1>14. ASSUME NEW x \in Thread, owner[x] = h, PerishSending(x)
         PROVE  MainStepOf(h)
    <2>1. main' = [main EXCEPT ![h] = "dead"]
      BY <1>14 DEF PerishSending
    <2>. QED
      BY <1>0, <2>1
  <1>15. ASSUME NEW g \in Host,
                \/ Accept(g, h) \/ PassGate(g, h) \/ RecvHeader(g, h)
                \/ RecvEnds(g, h) \/ RecvChunk(g, h)
         PROVE  MainStepOf(h)
    BY <1>a, <1>15 DEF Accept, PassGate, RecvHeader, RecvEnds, RecvChunk, main_vars
  <1>. QED
    BY StepCases, <1>1, <1>2, <1>3, <1>4, <1>5, <1>6, <1>7, <1>8, <1>9, <1>10,
       <1>11, <1>12, <1>13, <1>14, <1>15
       DEF FlagFails, ShutdownFails, HeaderFails, SendFlagFails, Perish

LEMMA MainChange ==
    ASSUME ClusterInv, [Next]_vars
    PROVE  \/ UNCHANGED main
           \/ \E h \in Host : main[h] \notin {"over", "dead"} /\ MainStepOf(h)
  <1>1. CASE UNCHANGED vars
    BY <1>1 DEF vars, main_vars
  <1>2. ASSUME NEW h \in Host, ~Dead(h), HostStep(h) \/ DeathStep(h)
        PROVE  UNCHANGED main \/ (main[h] \notin {"over", "dead"} /\ MainStepOf(h))
    <2>1. CASE main[h] = "over"
      BY <1>2, <2>1, OverStays
    <2>2. CASE main[h] # "over"
      BY <1>2, <2>2, MainStepIs DEF Dead, ClusterInv, TraceInv
    <2>. QED
      BY <2>1, <2>2
  <1>. QED
    BY <1>1, <1>2 DEF Next

\* A process ends as its main thread does.
LEMMA EndedIs ==
    ASSUME NEW h \in Host
    PROVE  /\ ended[h] = IF main[h] = "over" THEN "properly"
                         ELSE IF main[h] = "dead" THEN "died" ELSE "no"
           /\ ended'[h] = IF main'[h] = "over" THEN "properly"
                          ELSE IF main'[h] = "dead" THEN "died" ELSE "no"
  BY DEF ended

\* The steps of the main threads: nothing ends, or one process, in one way.
LEMMA EndedChange ==
    ASSUME ClusterInv, [Next]_vars
    PROVE  \/ UNCHANGED ended
           \/ \E h \in Host :
                 /\ ended[h] = "no"
                 /\ \/ ended' = [ended EXCEPT ![h] = "died"]
                    \/ /\ ended' = [ended EXCEPT ![h] = "properly"]
                       /\ \/ h = Master /\ JoinClient(h)
                          \/ h \in Node /\ JoinServer(h)
  <1>1. CASE UNCHANGED main
    BY <1>1, EndedKept
  <1>2. ASSUME NEW h \in Host, main[h] \notin {"over", "dead"}, MainStepOf(h)
        PROVE  \/ UNCHANGED ended
               \/ /\ ended[h] = "no"
                  /\ \/ ended' = [ended EXCEPT ![h] = "died"]
                     \/ /\ ended' = [ended EXCEPT ![h] = "properly"]
                        /\ \/ h = Master /\ JoinClient(h)
                           \/ h \in Node /\ JoinServer(h)
    <2>1. ended[h] = "no"
      BY <1>2, EndedIs
    <2>3. \A i \in Host : i # h => ended'[i] = ended[i]
      BY <1>2, EndedIs DEF MainStepOf
    <2>4. /\ ended = [i \in Host |-> ended[i]]
          /\ ended' = [i \in Host |-> ended'[i]]
      BY DEF ended
    <2>5. CASE main'[h] = "over"
      <3>1. ended'[h] = "properly"
        BY <2>5, EndedIs
      <3>2. ended' = [ended EXCEPT ![h] = "properly"]
        BY <2>3, <2>4, <3>1
      <3>. QED
        BY <1>2, <2>1, <2>5, <3>2 DEF MainStepOf
    <2>6. CASE main'[h] = "dead"
      <3>1. ended'[h] = "died"
        BY <2>6, EndedIs
      <3>2. ended' = [ended EXCEPT ![h] = "died"]
        BY <2>3, <2>4, <3>1
      <3>. QED
        BY <2>1, <3>2
    <2>7. CASE main'[h] \notin {"over", "dead"}
      <3>1. ended'[h] = "no"
        BY <2>7, EndedIs
      <3>2. UNCHANGED ended
        BY <2>1, <2>3, <2>4, <3>1
      <3>. QED
        BY <3>2
    <2>. QED
      BY <2>5, <2>6, <2>7
  <1>. QED
    BY <1>1, <1>2, MainChange

LEMMA DiedIs ==
    /\ T!DiedAmong({Master}) <=> Dead(Master)
    /\ \A t \in Transfer :
          T!DiedAmong({Master, source[t]}) <=> Dead(Master) \/ Dead(source[t])
  BY EndedIs, Hosts DEF T!DiedAmong, Dead

\* The master has done its part of each transfer when it joins its client.
LEMMA MasterPart ==
    ASSUME ClusterInv, JoinClient(Master), NEW t \in Transfer
    PROVE  T!PartDone(Master, t)
  <1>1. client[Master] = "closing" /\ ~Dead(Master)
    BY DEF JoinClient, Goto, Dead
  <1>2. ~Planning(t)
    BY <1>1, MasterDone
  <1>3. fate[t] # "planned"
    BY <1>2, FateIs DEF FateOf
  <1>4. Master # source[t] /\ Master # target[t]
    BY ClusterAssumption DEF Master, Node
  <1>. QED
    BY <1>3, <1>4 DEF T!PartDone

\* So has a node that joins its server.
LEMMA NodePart ==
    ASSUME ClusterInv, NEW h \in Node, JoinServer(h), NEW t \in Transfer
    PROVE  T!PartDone(h, t)
  <1>1. /\ main[h] = "leaving" /\ ~Dead(h) /\ h \in Host /\ h # Master
        /\ \A l \in Link : l[2] = h => rpc[l] = "closed"
    BY Hosts DEF JoinServer, Goto, Dead
  <1>2. client[h] = "closing"
    BY <1>1 DEF ClusterInv, ClientEnds
  <1>3. ASSUME h = source[t]
        PROVE  fate[t] \notin {"planned", "ordered"} \/ T!DiedAmong({Master})
    <2>1. CASE Dead(Master)
      BY <2>1, DiedIs
    <2>2. CASE ~Dead(Master)
      <3>1. ~Planning(t) /\ ~Ordering(t)
        BY <1>1, <1>2, <1>3, <2>2, SourceDone
      <3>. QED
        BY <3>1, FateIs DEF FateOf
    <2>. QED
      BY <2>1, <2>2
  <1>4. ASSUME h = target[t]
        PROVE  fate[t] \in {"moved", "spoilt"} \/ T!DiedAmong({Master, source[t]})
    <2>1. CASE Dead(Master) \/ Dead(source[t])
      BY <2>1, DiedIs
    <2>2. CASE ~Dead(Master) /\ ~Dead(source[t])
      <3>1. Way(t) \in Link /\ Way(t)[2] = h
        BY <1>4, Hosts DEF Way
      <3>. QED
        BY <1>1, <2>2, <3>1, TargetDone
    <2>. QED
      BY <2>1, <2>2
  <1>. QED
    BY <1>1, <1>3, <1>4 DEF T!PartDone

-----------------------------------------------------------------------------
(* The cluster and what it promises *)

LEMMA TransfersInit == Init => T!Init
  <1>. SUFFICES ASSUME Init PROVE T!Init
    OBVIOUS
  <1>1. ASSUME NEW t \in Transfer PROVE fate[t] = "planned"
    <2>1. stored[t] = <<>> /\ Planning(t)
      BY DEF Init, Planning
    <2>. QED
      BY <2>1, FateIs DEF FateOf
  <1>2. ASSUME NEW h \in Host PROVE ended[h] = "no"
    BY EndedIs DEF Init
  <1>3. /\ fate = [t \in Transfer |-> fate[t]]
        /\ ended = [h \in Host |-> ended[h]]
    BY DEF fate, ended
  <1>4. fate = [t \in Transfer |-> "planned"]
    BY <1>1, <1>3
  <1>5. ended = [h \in Host |-> "no"]
    BY <1>2, <1>3
  <1>. QED
    BY <1>4, <1>5 DEF T!Init

LEMMA TransfersStep ==
    ASSUME ClusterInv, [Next]_vars
    PROVE  T!Next \/ UNCHANGED <<fate, ended>>
  <1>1. CASE \E t \in Transfer : T!Order(t) \/ T!Send(t) \/ T!Move(t) \/ T!Spoil(t)
    BY <1>1 DEF T!Next
  <1>2. CASE \A t \in Transfer : fate'[t] = fate[t]
    <2>0. UNCHANGED fate
      BY <1>2, FatesKept
    <2>1. CASE UNCHANGED ended
      BY <2>0, <2>1
    <2>2. ASSUME NEW h \in Host, ended[h] = "no",
                 ended' = [ended EXCEPT ![h] = "died"]
          PROVE  T!Next
      BY <2>0, <2>2 DEF T!Die, T!Next
    <2>3. ASSUME NEW h \in Host, ended[h] = "no",
                 ended' = [ended EXCEPT ![h] = "properly"],
                 \/ h = Master /\ JoinClient(h)
                 \/ h \in Node /\ JoinServer(h)
          PROVE  T!Next
      <3>1. \A t \in Transfer : T!PartDone(h, t)
        BY <2>3, MasterPart, NodePart
      <3>2. T!End(h)
        BY <2>0, <2>3, <3>1 DEF T!End
      <3>. QED
        BY <3>2 DEF T!Next
    <2>. QED
      BY <2>1, <2>2, <2>3, EndedChange
  <1>. QED
    BY <1>1, <1>2, FateStep DEF FateStepOf, ClusterInv

\* Every transfer of the scheme is moved once, from its source to its target, in
\* spite of threads, queues and deaths; and a process that ends of its own accord
\* has done its part of each, unless somebody upstream has died: Cluster
\* implements Transfers (Cluster, ImplementsTransfers).
THEOREM ImplementsTransfersHolds == Spec => ImplementsTransfers
  <1>1. Init => T!Init
    BY TransfersInit
  <1>2. ClusterInv /\ [Next]_vars => [T!Next]_<<fate, ended>>
    BY TransfersStep
  <1>. QED
    BY <1>1, <1>2, ClusterInvHolds, PTL DEF Spec, ImplementsTransfers, T!Spec
-----------------------------------------------------------------------------
(* Nobody is stuck *)

\* What the threads of process h wait for: the guards of MainStep, ClientStep
\* and ServerStep.  HostStep(h) is enabled where one of them holds.
MainReady(h) ==
    \/ main[h] \in {"new", "planning"}
    \/ /\ main[h] = "connecting"
       /\ \/ connected[h] = Others(h)
          \/ \E i \in Others(h) \ connected[h] : main[i] \notin {"new", "dead"}
    \/ main[h] = "accepting" /\ \A l \in Link : l[2] = h => rpc[l] # "none"
    \/ main[h] = "taking" /\ (inbox[h] # <<>> \/ inboxSealed[h])
    \/ main[h] = "joining" /\ client[h] = "closing" /\ shut[h] = Others(h)
    \/ main[h] = "leaving" /\ \A l \in Link : l[2] = h => rpc[l] = "closed"

ThreadReady(x) ==
    \/ /\ client[owner[x]] = "sending" /\ pc[x] = "ready"
       /\ queue[owner[x]] # <<>> \/ sealed[owner[x]]
    \/ AtHeader(x)
    \/ pc[x] = "chunk" /\ CanWrite(owner[x], Dest(x))

ClientReady(h) ==
    \/ /\ client[h] = "flags"
       /\ \/ flags[h] = Others(h)
          \/ \E i \in Others(h) \ flags[h] :
                rpc[<<h, i>>] \notin {"none", "gate"} \/ Dead(i)
    \/ client[h] = "sending" /\ \A x \in Thread : owner[x] = h => pc[x] = "left"
    \/ \E i \in Node : AtShutdown(h, i)
    \/ \E x \in Thread : owner[x] = h /\ ThreadReady(x)

ServerReady(h) ==
    \/ main[h] \in {"taking", "joining", "leaving"} /\ ~serving[h]
    \/ \E g \in Host \ {h} :
          \/ /\ main[h] \in {"connecting", "accepting"}
             /\ h \in connected[g] /\ rpc[<<g, h>>] = "none"
          \/ rpc[<<g, h>>] = "gate" /\ serving[h]
          \/ /\ rpc[<<g, h>>] \in {"header", "chunk"}
             /\ stream[<<g, h>>] # <<>> \/ AtEnd(g, h)

Ready(h) == ~Dead(h) /\ \/ MainReady(h) \/ ClientReady(h)
                        \/ h # Master /\ ServerReady(h)

\* No state is a deadlock: while somebody has not ended, some process that is
\* alive has a step to take, unless somebody died before all connections were
\* made.
NeverStuck ==
    \/ \A h \in Host : main[h] \in {"over", "dead"}
    \/ DiedConnecting
    \/ \E h \in Host : Ready(h)

\* How far a process has come tells what it has done before.
Started ==
    /\ \A h \in Host : main[h] \notin {"new", "connecting", "dead"} =>
           connected[h] = Others(h) /\ client[h] # "new"
    /\ main[Master] \notin {"accepting", "taking", "leaving"}
    /\ \A h \in Node : main[h] # "planning"
    /\ \A l \in Link : main[l[2]] \in {"taking", "joining", "leaving", "over"} =>
           rpc[l] # "none"
    /\ \A h \in Node : rpc[<<Master, h>>] = "closed" => inboxSealed[h]
    /\ \A h \in Host : main[h] \in {"joining", "leaving", "over"} => sealed[h]

\* A connection is accepted once, and the master's is closed by QueueEnds.
LEMMA AcceptedStays ==
    ASSUME TypeOK, [Next]_vars
    PROVE  /\ \A l \in Link : rpc[l] # "none" => rpc'[l] # "none"
           /\ \A h \in Node :
                 /\ rpc'[<<Master, h>>] = "closed" =>
                        rpc[<<Master, h>>] = "closed" \/ inboxSealed'[h]
                 /\ inboxSealed[h] => inboxSealed'[h]
  <1> DEFINE Kept == /\ \A l \in Link : rpc[l] # "none" => rpc'[l] # "none"
                     /\ \A h \in Node :
                           /\ rpc'[<<Master, h>>] = "closed" =>
                                  rpc[<<Master, h>>] = "closed" \/ inboxSealed'[h]
                           /\ inboxSealed[h] => inboxSealed'[h]
  <1>1. CASE UNCHANGED <<rpc, inboxSealed>>
    BY <1>1
  <1>2. ASSUME NEW h \in Host, HostStep(h) \/ DeathStep(h) PROVE Kept
    <2>1. CASE h \in Node /\ QueueEnds(h)
      <3>1. \A i \in Node : <<Master, i>> \in Link
        BY Hosts DEF Link
      <3>2. \A i \in Node : i # h => rpc'[<<Master, i>>] = rpc[<<Master, i>>]
        BY <2>1, <3>1 DEF QueueEnds, TypeOK
      <3>. QED
        BY <2>1, <3>2 DEF QueueEnds, TypeOK
    <2>2. ASSUME NEW g \in Host, <<g, h>> \in Link,
                 \/ Accept(g, h) \/ PassGate(g, h) \/ RecvHeader(g, h)
                 \/ RecvEnds(g, h) \/ RecvChunk(g, h)
          PROVE  Kept
      <3>1. /\ rpc' = [rpc EXCEPT ![<<g, h>>] = rpc'[<<g, h>>]]
            /\ rpc'[<<g, h>>] # "none" /\ UNCHANGED inboxSealed
            /\ g = Master => rpc'[<<g, h>>] # "closed"
        BY <2>2 DEF Accept, PassGate, RecvHeader, RecvEnds, RecvChunk, TypeOK
      <3>2. \A i \in Node : <<Master, i>> \in Link
        BY Hosts DEF Link
      <3>3. \A l \in Link : l # <<g, h>> => rpc'[l] = rpc[l]
        BY <3>1 DEF TypeOK
      <3>. QED
        BY <3>1, <3>2, <3>3
    <2>. QED
      BY <1>1, <1>2, StepCases, <2>1, <2>2
         DEF Construct, StartClient, JoinClient, JoinAccept, TakeTask, TakeStop,
             JoinServer, OpenGate, QueueTask, FinishPlan, AddTask, StartThreads,
             JoinThreads, Connect, ReadFlag, FlagFails, SendShutdown,
             ShutdownFails, Get, Leave, SendHeader, HeaderFails, SendChunk,
             PerishSending, SendFlagFails, Perish, Die, server_vars
  <1>. QED
    BY <1>1, <1>2 DEF Next, vars, server_vars

LEMMA StartedStep ==
    ASSUME TypeOK, Busy, Started, [Next]_vars PROVE Started'
  <1>0. /\ \A l \in Link : l[2] \in Host
        /\ \A h \in Node : <<Master, h>> \in Link
    BY Hosts DEF Link
  <1>1. /\ \A l \in Link : rpc[l] # "none" => rpc'[l] # "none"
        /\ \A h \in Node : rpc'[<<Master, h>>] = "closed" => inboxSealed'[h]
    BY AcceptedStays DEF Started
  <1>2. ASSUME UNCHANGED <<main, connected, client, sealed>> PROVE Started'
    BY <1>1, <1>2 DEF Started, Others
  <1>3. ASSUME NEW h \in Host, ~Dead(h), HostStep(h) \/ DeathStep(h) PROVE Started'
    <2>. USE DEF main_vars, client_vars, queue_vars
    <2>1. ASSUME main' = [main EXCEPT ![h] = "dead"],
                 UNCHANGED <<connected, client, sealed>>
          PROVE  Started'
      <3>1. \A i \in Host : main'[i] = IF i = h THEN "dead" ELSE main[i]
        BY <2>1 DEF TypeOK
      <3>. QED
        BY <1>0, <1>1, <2>1, <3>1, Hosts DEF Started, Others
    <2>2. ASSUME Die(h) PROVE Started'
      BY <2>1, <2>2 DEF Die
    <2>3. CASE Construct(h)
      <3>1. /\ \A i \in Host : main'[i] = IF i = h THEN "connecting" ELSE main[i]
            /\ UNCHANGED <<connected, client, sealed>>
        BY <2>3 DEF Construct, Goto, TypeOK
      <3>. QED
        BY <1>0, <1>1, <3>1, Hosts DEF Started, Others
    <2>4. ASSUME NEW i \in Node, Connect(h, i) PROVE Started'
      <3>1. /\ main[h] = "connecting" /\ UNCHANGED <<main, client, sealed>>
            /\ \A j \in Host : j # h => connected'[j] = connected[j]
        BY <2>4 DEF Connect, TypeOK
      <3>. QED
        BY <1>1, <3>1 DEF Started, Others
    <2>5. CASE StartClient(h)
      <3>1. /\ \A i \in Host : main'[i] = IF i # h THEN main[i]
                                  ELSE IF h = Master THEN "planning" ELSE "accepting"
            /\ \A i \in Host : client'[i] = IF i = h THEN "flags" ELSE client[i]
            /\ connected[h] = Others(h) /\ UNCHANGED <<connected, sealed>>
        BY <2>5 DEF StartClient, Goto, TypeOK
      <3>. QED
        BY <1>0, <1>1, <3>1, Hosts DEF Started, Others
    <2>6. CASE h \in Node /\ JoinAccept(h)
      <3>1. /\ \A l \in Link : l[2] = h => rpc[l] # "none"
            /\ main[h] = "accepting"
            /\ \A i \in Host : main'[i] = IF i = h THEN "taking" ELSE main[i]
            /\ UNCHANGED <<connected, client, sealed>>
        BY <2>6 DEF JoinAccept, Goto, TypeOK
      <3>. QED
        BY <1>0, <1>1, <2>6, <3>1, Hosts DEF Started, Others
    <2>7. CASE (h = Master /\ FinishPlan) \/ (h \in Node /\ TakeStop(h))
      <3>1. /\ main[h] \in {"planning", "taking"}
            /\ \A i \in Host : main'[i] = IF i = h THEN "joining" ELSE main[i]
            /\ \A i \in Host : sealed'[i] = (i = h \/ sealed[i])
            /\ UNCHANGED <<connected, client>>
        <4>1. CASE h = Master /\ FinishPlan
          BY <4>1 DEF FinishPlan, Goto, TypeOK
        <4>2. CASE h \in Node /\ TakeStop(h)
          BY <4>2 DEF TakeStop, Goto, TypeOK
        <4>. QED
          BY <2>7, <4>1, <4>2
      <3>2. h \in Node => main[h] = "taking"
        BY <3>1 DEF Started
      <3>3. \A l \in Link : main'[l[2]] \in {"taking", "joining", "leaving", "over"}
                              => main[l[2]] \in {"taking", "joining", "leaving", "over"}
        BY <1>0, <3>1, <3>2 DEF Link
      <3>4. /\ main'[Master] \notin {"accepting", "taking", "leaving"}
            /\ \A i \in Node : main'[i] # "planning"
            /\ \A l \in Link : main'[l[2]] \in {"taking", "joining", "leaving", "over"}
                              => rpc'[l] # "none"
        BY <1>1, <3>1, <3>3, Hosts DEF Started
      <3>5. \A i \in Host : main'[i] \notin {"new", "connecting", "dead"}
                           => main[i] \notin {"new", "connecting", "dead"}
        BY <3>1
      <3>. QED
        BY <1>1, <3>1, <3>4, <3>5 DEF Started, Others
    <2>8. CASE JoinClient(h) \/ (h \in Node /\ JoinServer(h))
      <3>1. /\ main[h] \in {"joining", "leaving"}
            /\ \A i \in Host : i # h => main'[i] = main[i]
            /\ main'[h] \in {"leaving", "over"}
            /\ h = Master => main'[h] = "over"
            /\ UNCHANGED <<connected, client, sealed>>
        <4>1. CASE JoinClient(h)
          BY <4>1 DEF JoinClient, Goto, TypeOK
        <4>2. CASE h \in Node /\ JoinServer(h)
          BY <4>2, Hosts DEF JoinServer, Goto, TypeOK
        <4>. QED
          BY <2>8, <4>1, <4>2
      <3>. QED
        BY <1>0, <1>1, <3>1, Hosts DEF Started, Others
    <2>9. CASE StartThreads(h) \/ JoinThreads(h)
      <3>1. /\ \A i \in Host : client'[i] # client[i] => client'[i] # "new"
            /\ UNCHANGED <<main, connected, sealed>>
        BY <2>9 DEF StartThreads, JoinThreads, TypeOK
      <3>. QED
        BY <1>1, <3>1 DEF Started, Others
    <2>10. CASE TakeTask(h) \/ OpenGate(h) \/ QueueTask(h) \/ QueueEnds(h)
      BY <1>2, <2>10 DEF TakeTask, OpenGate, QueueTask, QueueEnds
    <2>11. ASSUME NEW t \in Transfer, AddTask(t) PROVE Started'
      BY <1>2, <2>11 DEF AddTask
    <2>12. ASSUME NEW i \in Node, ReadFlag(h, i) \/ SendShutdown(h, i)
           PROVE  Started'
      BY <1>2, <2>12 DEF ReadFlag, SendShutdown
    <2>13. ASSUME NEW x \in Thread,
                  Get(x) \/ Leave(x) \/ SendHeader(x) \/ SendChunk(x)
           PROVE  Started'
      BY <1>2, <2>13 DEF Get, Leave, SendHeader, SendChunk
    <2>14. ASSUME NEW x \in Thread, owner[x] = h, PerishSending(x) PROVE Started'
      BY <2>1, <2>14 DEF PerishSending
    <2>15. ASSUME NEW g \in Host,
                  \/ Accept(g, h) \/ PassGate(g, h) \/ RecvHeader(g, h)
                  \/ RecvEnds(g, h) \/ RecvChunk(g, h)
           PROVE  Started'
      BY <1>2, <2>15 DEF Accept, PassGate, RecvHeader, RecvEnds, RecvChunk
    <2>. QED
      BY <1>3, StepCases, <2>2, <2>3, <2>4, <2>5, <2>6, <2>7, <2>8, <2>9,
         <2>10, <2>11, <2>12, <2>13, <2>14, <2>15
         DEF FlagFails, ShutdownFails, HeaderFails, SendFlagFails, Perish
  <1>. QED
    BY <1>2, <1>3 DEF Next, vars, main_vars, client_vars, queue_vars
\* Nobody deals with a connection to itself.
Reached == \A h \in Host : /\ connected[h] \subseteq Others(h)
                           /\ flags[h] \subseteq Others(h)
                           /\ shut[h] \subseteq Others(h)

LEMMA ReachedStep ==
    ASSUME TypeOK, Reached, [Next]_vars PROVE Reached'
  <1>1. CASE UNCHANGED <<connected, flags, shut>>
    BY <1>1 DEF Reached, Others
  <1>2. ASSUME NEW h \in Host, HostStep(h) \/ DeathStep(h) PROVE Reached'
    <2>1. ASSUME NEW i \in Node, Connect(h, i) PROVE Reached'
      BY <2>1 DEF Connect, Reached, TypeOK, Others
    <2>2. ASSUME NEW i \in Node, ReadFlag(h, i) PROVE Reached'
      BY <2>2 DEF ReadFlag, Reached, TypeOK, Others
    <2>3. ASSUME NEW i \in Node, SendShutdown(h, i) PROVE Reached'
      BY <2>3 DEF SendShutdown, AtShutdown, Reached, TypeOK, Others
    <2>. QED
      BY <1>1, <1>2, StepCases, <2>1, <2>2, <2>3
         DEF Construct, StartClient, JoinClient, JoinAccept, TakeTask, TakeStop,
             JoinServer, OpenGate, QueueTask, QueueEnds, FinishPlan, AddTask,
             StartThreads, JoinThreads, FlagFails, ShutdownFails, Get, Leave,
             SendHeader, HeaderFails, SendChunk, PerishSending, Accept, PassGate,
             SendFlagFails, RecvHeader, RecvEnds, RecvChunk, Perish, Die,
             client_vars
  <1>. QED
    BY <1>1, <1>2 DEF Next, vars, client_vars

LEMMA Least ==
    ASSUME NEW S, S \subseteq Nat, S # {} PROVE \E i \in S : \A j \in S : i <= j
  <1> DEFINE Less == {r \in Nat \X Nat : r[1] < r[2]}
  <1>1. IsWellFoundedOn(Less, Nat)
    BY NatLessThanWellFounded DEF OpToRel
  <1>2. PICK i \in S : \A j \in S : <<j, i>> \notin Less
    <2>. HIDE DEF Less
    <2>. QED
      BY <1>1, WFMin
  <1>3. ASSUME NEW j \in S PROVE i <= j
    <2>1. <<j, i>> \in Nat \X Nat /\ ~(<<j, i>>[1] < <<j, i>>[2])
      BY <1>2
    <2>. QED
      BY <2>1
  <1>. QED
    BY <1>3

\* Nobody has a step to take.
Still == ~DiedConnecting /\ \A h \in Host : ~Ready(h)

\* Then the connections are made and accepted, and the gates are open: who is
\* not new connects, since the servers it connects to are there.
LEMMA StillConnected ==
    ASSUME ClusterInv, Started, Reached, FlagsServed, Still
    PROVE  /\ \A h \in Host : connected[h] = Others(h)
           /\ \A h \in Host : ~Dead(h) =>
                 main[h] \notin {"new", "connecting", "accepting", "planning"}
           /\ \A l \in Link : ~Dead(l[2]) => rpc[l] \in {"header", "chunk", "closed"}
  <1>1. \A h \in Host : ~Dead(h) =>
           ~MainReady(h) /\ ~ClientReady(h) /\ (h # Master => ~ServerReady(h))
    BY DEF Still, Ready
  <1>2. \A h \in Host : ~Dead(h) => main[h] \notin {"new", "planning"}
    BY <1>1 DEF MainReady
  <1>3. ASSUME NEW h \in Host, main[h] = "connecting" PROVE FALSE
    <2>1. ~Dead(h)
      BY <1>3 DEF Dead
    <2>2. connected[h] # Others(h)
      BY <1>1, <1>3, <2>1 DEF MainReady
    <2>3. ASSUME NEW i \in Others(h) \ connected[h] PROVE FALSE
      <3>1. i \in Host /\ main[i] \in {"new", "dead"}
        BY <1>1, <1>3, <2>1, Hosts DEF MainReady, Others
      <3>2. ~Dead(i)
        BY <3>1 DEF Still, DiedConnecting
      <3>. QED
        BY <1>2, <3>1, <3>2 DEF Dead
    <2>4. Others(h) \subseteq connected[h]
      BY <2>3
    <2>5. connected[h] \subseteq Others(h)
      BY DEF Reached
    <2>. QED
      BY <2>2, <2>4, <2>5
  <1>4. ASSUME NEW h \in Host PROVE connected[h] = Others(h)
    <2>1. CASE Dead(h)
      BY <2>1 DEF Still, DiedConnecting
    <2>2. CASE ~Dead(h)
      BY <1>2, <1>3, <2>2 DEF Started, Dead
    <2>. QED
      BY <2>1, <2>2
  <1>5. ASSUME NEW l \in Link PROVE /\ l[1] \in Host /\ l[2] \in Node
                                    /\ l[1] # l[2] /\ l = <<l[1], l[2]>>
                                    /\ l[2] \in connected[l[1]]
    <2>1. /\ l[1] \in Host /\ l[2] \in Node /\ l[1] # l[2] /\ l = <<l[1], l[2]>>
      BY DEF Link
    <2>. QED
      BY <1>4, <2>1 DEF Others
  <1>6. ASSUME NEW l \in Link, ~Dead(l[2]), main[l[2]] \in {"connecting", "accepting"}
        PROVE  rpc[l] # "none"
    <2>1. ~ServerReady(l[2])
      BY <1>1, <1>5, <1>6, Hosts
    <2>. QED
      BY <1>5, <1>6, <2>1 DEF ServerReady
  <1>7. ASSUME NEW h \in Host, ~Dead(h) PROVE main[h] # "accepting"
    <2>1. \A l \in Link : l[2] = h /\ main[h] = "accepting" => rpc[l] # "none"
      BY <1>6, <1>7
    <2>. QED
      BY <1>1, <1>7, <2>1 DEF MainReady
  <1>8. \A h \in Host : ~Dead(h) =>
           main[h] \notin {"new", "connecting", "accepting", "planning"}
    BY <1>2, <1>3, <1>7
  <1>9. ASSUME NEW l \in Link, ~Dead(l[2])
        PROVE  rpc[l] \in {"header", "chunk", "closed"}
    <2> DEFINE h == l[2]
    <2>1. h \in Node /\ h \in Host /\ h # Master /\ ~ServerReady(h)
      BY <1>1, <1>5, <1>9, Hosts
    <2>2. main[h] \in {"taking", "joining", "leaving", "over"}
      BY <1>8, <1>9, <2>1 DEF ClusterInv, TraceInv, TypeOK, Dead
    <2>3. rpc[l] # "none"
      BY <2>2 DEF Started
    <2>4. serving[h]
      <3>1. CASE main[h] = "over"
        BY <3>1 DEF FlagsServed, ClusterInv, ClientEnds
      <3>2. CASE main[h] # "over"
        BY <2>1, <2>2, <3>2 DEF ServerReady
      <3>. QED
        BY <3>1, <3>2
    <2>5. rpc[l] # "gate"
      BY <1>5, <2>1, <2>4 DEF ServerReady
    <2>. QED
      BY <2>3, <2>5 DEF ClusterInv, TraceInv, TypeOK
  <1>. QED
    BY <1>4, <1>8, <1>9
\* Then everything written is read, nobody waits for room, and who has heard the
\* end of a connection has closed it.
LEMMA StillDrained ==
    ASSUME ClusterInv, Started, Reached, FlagsServed, Still
    PROVE  /\ \A l \in Link : CanWrite(l[1], l[2])
           /\ \A l \in Link : ~Dead(l[2]) =>
                 rpc[l] = "closed" \/ ~(Dead(l[1]) \/ l[2] \in shut[l[1]])
  <1>1. ASSUME NEW l \in Link, ~Dead(l[2])
        PROVE  /\ stream[l] = <<>>
               /\ rpc[l] = "closed" \/ ~AtEnd(l[1], l[2])
    <2>1. /\ l[2] \in Host /\ l[2] # Master /\ l = <<l[1], l[2]>>
          /\ l[1] \in Host \ {l[2]}
      BY Hosts DEF Link
    <2>2. rpc[l] \in {"header", "chunk", "closed"}
      BY <1>1, StillConnected
    <2>3. rpc[l] = "closed" => stream[l] = <<>>
      BY DEF ClusterInv, TraceInv, Ends
    <2>4. ~ServerReady(l[2])
      BY <1>1, <2>1 DEF Still, Ready
    <2>. QED
      BY <2>1, <2>2, <2>3, <2>4 DEF ServerReady
  <1>2. ASSUME NEW l \in Link PROVE CanWrite(l[1], l[2])
    <2>1. l = <<l[1], l[2]>>
      BY DEF Link
    <2>2. CASE Dead(l[2])
      BY <2>2 DEF CanWrite
    <2>3. CASE ~Dead(l[2])
      <3>1. Len(stream[l]) = 0
        BY <1>1, <2>3
      <3>. QED
        BY <2>1, <3>1, ClusterAssumption DEF CanWrite
    <2>. QED
      BY <2>2, <2>3
  <1>3. ASSUME NEW l \in Link, ~Dead(l[2]), rpc[l] # "closed"
        PROVE  ~(Dead(l[1]) \/ l[2] \in shut[l[1]])
    <2>1. l = <<l[1], l[2]>>
      BY DEF Link
    <2>. QED
      BY <1>1, <1>3, <2>1 DEF AtEnd
  <1>. QED
    BY <1>2, <1>3

\* Then a client waits for a seal, or has told everybody that it is done.
LEMMA StillClients ==
    ASSUME ClusterInv, Started, Reached, FlagsServed, Still,
           NEW h \in Host, ~Dead(h)
    PROVE  \/ client[h] = "sending" /\ ~sealed[h]
           \/ client[h] = "closing" /\ shut[h] = Others(h)
  <1> USE DEF ClusterInv, TraceInv
  <1>1. ~ClientReady(h)
    BY DEF Still, Ready
  <1>2. \A l \in Link : ~Dead(l[2]) => rpc[l] \in {"header", "chunk", "closed"}
    BY StillConnected
  <1>3. \A i \in Others(h) : i \in Node /\ i \in Host /\ i # h /\ <<h, i>> \in Link
    BY Hosts DEF Others, Link
  <1>4. client[h] # "new"
    BY StillConnected DEF Started, Dead
  <1>5. ASSUME client[h] = "flags" PROVE FALSE
    <2>1. ASSUME NEW i \in Others(h) \ flags[h] PROVE FALSE
      <3>1. <<h, i>> \in Link /\ <<h, i>>[2] = i
        BY <1>3
      <3>2. rpc[<<h, i>>] \notin {"none", "gate"} \/ Dead(i)
        BY <1>2, <3>1
      <3>. QED
        BY <1>1, <1>5, <3>2 DEF ClientReady
    <2>2. flags[h] = Others(h)
      BY <2>1 DEF Reached
    <2>. QED
      BY <1>1, <1>5, <2>2 DEF ClientReady
  <1>6. ASSUME client[h] = "sending" PROVE ~sealed[h]
    <2>1. \A x \in Thread : owner[x] = h => ~ThreadReady(x)
      BY <1>1 DEF ClientReady
    <2>2. ASSUME NEW x \in Thread, owner[x] = h PROVE pc[x] # "chunk"
      <3>1. ASSUME pc[x] = "chunk" PROVE CanWrite(owner[x], Dest(x))
        <4>1. <<owner[x], Dest(x)>> \in Link
          BY <3>1, DestLink
        <4>. QED
          BY <4>1, StillDrained
      <3>. QED
        BY <2>1, <2>2, <3>1 DEF ThreadReady
    <2>3. ASSUME NEW x \in Thread, owner[x] = h PROVE pc[x] # "header"
      <3>1. LockFree(x)
        BY <2>2, <2>3 DEF LockFree
      <3>2. ASSUME pc[x] = "header" PROVE CanWrite(owner[x], Dest(x))
        <4>1. <<owner[x], Dest(x)>> \in Link
          BY <3>2, DestLink
        <4>. QED
          BY <4>1, StillDrained
      <3>. QED
        BY <2>1, <2>3, <3>1, <3>2 DEF ThreadReady, AtHeader
    <2>4. PICK x \in Thread : owner[x] = h /\ pc[x] # "left"
      BY <1>1, <1>6 DEF ClientReady
    <2>5. pc[x] = "ready"
      BY <2>2, <2>3, <2>4 DEF TypeOK
    <2>. QED
      BY <1>6, <2>1, <2>4, <2>5 DEF ThreadReady
  <1>7. ASSUME client[h] = "closing" PROVE shut[h] = Others(h)
    <2>1. SUFFICES ASSUME Others(h) \ shut[h] # {} PROVE FALSE
      BY DEF Reached
    <2>2. Others(h) \ shut[h] \subseteq Nat
      BY ClusterAssumption DEF Others, Node
    <2>3. PICK i \in Others(h) \ shut[h] : \A j \in Others(h) \ shut[h] : i <= j
      <3> DEFINE S == Others(h) \ shut[h]
      <3>1. S \subseteq Nat /\ S # {}
        BY <2>1, <2>2
      <3>. HIDE DEF S
      <3>2. \E i \in S : \A j \in S : i <= j
        BY <3>1, Least
      <3>. QED
        BY <3>2 DEF S
    <2>4. i \in Node /\ CanWrite(h, i)
      <3>1. i \in Node /\ <<h, i>> \in Link
        BY <1>3
      <3>. QED
        BY <3>1, StillDrained
    <2>. QED
      BY <1>1, <1>7, <2>3, <2>4 DEF ClientReady, AtShutdown
  <1>. QED
    BY <1>4, <1>5, <1>6, <1>7 DEF TypeOK

\* Then the master is done; so every node has heard it, and is done with sending;
\* so every connection ends, and everybody.
LEMMA StillOver ==
    ASSUME ClusterInv, Started, Reached, FlagsServed, Still,
           NEW h \in Host, ~Dead(h)
    PROVE  main[h] = "over"
  <1> USE DEF ClusterInv, TraceInv
  <1>1. \A i \in Host : ~Dead(i) =>
           /\ ~MainReady(i)
           /\ main[i] \notin {"new", "connecting", "accepting", "planning", "dead"}
    BY StillConnected DEF Still, Ready, Dead
  <1>2. ASSUME NEW i \in Host, ~Dead(i), sealed[i]
        PROVE  client[i] = "closing" /\ shut[i] = Others(i) /\ main[i] # "joining"
    <2>1. client[i] = "closing" /\ shut[i] = Others(i)
      BY <1>2, StillClients
    <2>. QED
      BY <1>1, <1>2, <2>1 DEF MainReady
  <1>3. ASSUME ~Dead(Master)
        PROVE  main[Master] = "over" /\ shut[Master] = Others(Master)
    <2>1. main[Master] \in {"joining", "over"}
      BY <1>1, <1>3, Hosts DEF Started, TypeOK
    <2>2. sealed[Master]
      BY <2>1, Hosts DEF Started
    <2>. QED
      BY <1>2, <1>3, <2>1, <2>2, Hosts
  <1>4. ASSUME NEW i \in Node, ~Dead(i)
        PROVE  /\ main[i] \in {"leaving", "over"}
               /\ shut[i] = Others(i)
    <2>1. i \in Host /\ <<Master, i>> \in Link /\ i \in Others(Master)
      BY Hosts DEF Link, Others
    <2>2. Dead(Master) \/ i \in shut[Master]
      BY <1>3, <2>1
    <2>3. rpc[<<Master, i>>] = "closed"
      BY <1>4, <2>1, <2>2, StillDrained
    <2>4. inboxSealed[i]
      BY <2>3 DEF Started
    <2>5. main[i] \in {"joining", "leaving", "over"}
      BY <1>1, <1>4, <2>1, <2>4 DEF MainReady, TypeOK
    <2>6. sealed[i]
      BY <2>1, <2>5 DEF Started
    <2>. QED
      BY <1>2, <1>4, <2>1, <2>5, <2>6
  <1>5. CASE h = Master
    BY <1>3, <1>5
  <1>6. CASE h # Master
    <2>1. h \in Node
      BY <1>6 DEF Host, Node, Master
    <2>2. ASSUME NEW l \in Link, l[2] = h PROVE rpc[l] = "closed"
      <3>1. l[1] \in Host /\ h \in Others(l[1])
        BY <2>2 DEF Link, Others
      <3>2. CASE l[1] = Master
        BY <1>3, <2>2, <3>1, <3>2, StillDrained
      <3>3. CASE l[1] # Master
        <4>1. l[1] \in Node
          BY <3>1, <3>3 DEF Host, Node, Master
        <4>. QED
          BY <1>4, <2>2, <3>1, <4>1, StillDrained
      <3>. QED
        BY <3>2, <3>3
    <2>3. main[h] # "leaving"
      BY <1>1, <2>2 DEF MainReady
    <2>. QED
      BY <1>4, <2>1, <2>3
  <1>. QED
    BY <1>5, <1>6

\* No state is a deadlock: while somebody has not ended, a process that is alive
\* has a step to take, unless somebody died before all connections were made:
\* no order of the start-up steps, no full connection, no lock and no death keeps
\* all of them waiting (TCPNode::start, TCPClient and TCPServer).
THEOREM NeverStuckHolds == Spec => []NeverStuck
  <1>1. Init => Started /\ Reached /\ FlagsServed
    <2>1. SUFFICES ASSUME Init PROVE Started /\ Reached /\ FlagsServed
      OBVIOUS
    <2>2. Started
      <3>1. \A h \in Node : rpc[<<Master, h>>] = "none"
        BY <2>1, Hosts DEF Init, Link
      <3>2. \A l \in Link : main[l[2]] = "new"
        BY <2>1, Hosts DEF Init, Link
      <3>. QED
        BY <2>1, <3>1, <3>2, Hosts DEF Init, Started
    <2>3. Reached
      BY <2>1 DEF Init, Reached
    <2>4. FlagsServed
      BY <2>1 DEF Init, FlagsServed, Others
    <2>. QED
      BY <2>2, <2>3, <2>4
  <1>2. ClusterInv /\ [Next]_vars /\ Started /\ Reached /\ FlagsServed
           => (Started /\ Reached /\ FlagsServed)'
    BY StartedStep, ReachedStep, FlagsServedStep DEF ClusterInv, TraceInv
  <1>3. ClusterInv /\ Started /\ Reached /\ FlagsServed => NeverStuck
    BY StillOver DEF NeverStuck, Still, Dead
  <1>. QED
    BY <1>1, <1>2, <1>3, ClusterInvHolds, PTL DEF Spec

-----------------------------------------------------------------------------
(* Every step counts *)

\* How far main and the thread in start_client are, and a connection's thread,
MainNo(h) == CASE main[h] = "new" -> 1 [] main[h] = "connecting" -> 2
               [] main[h] \in {"planning", "accepting"} -> 3
               [] main[h] = "taking" -> 4 [] main[h] = "joining" -> 5
               [] main[h] = "leaving" -> 6 [] main[h] = "over" -> 7 [] OTHER -> 8
ClientNo(h) == CASE client[h] = "new" -> 1 [] client[h] = "flags" -> 2
                 [] client[h] = "sending" -> 3 [] OTHER -> 4
ServerNo(l) == CASE rpc[l] = "none" -> 1 [] rpc[l] = "gate" -> 2
                 [] rpc[l] \in {"header", "chunk"} -> 3 [] OTHER -> 4

\* and a transfer on its way.
PlaceNo(p) == CASE p = "plan" -> 1 [] p = "masterQueue" -> 2 [] p = "masterHand" -> 3
                [] p = "order" -> 4 [] p = "inbox" -> 5 [] p = "queue" -> 6
                [] p = "hand" -> 7 [] p = "link" -> 8 [] p = "expected" -> 9
                [] OTHER -> 10

\* What is still ahead of the processes: the transfers have places to come to,
\* and chunks to be written; the nodes have not been told of the end.
Journeys == {x \in Transfer \X Places : \E p \in where[x[1]] : PlaceNo(p) < PlaceNo(x[2])}
Unsent == {t \in Transfer : \/ t \in hands[source[t]]
                            \/ \E p \in where[t] : PlaceNo(p) < PlaceNo("hand")}
Untold == {h \in Node : \/ h \notin shut[Master]
                        \/ Shutdown \in Elems(stream[<<Master, h>>])}

Ahead ==
    [main |-> {x \in Host \X (1..7) : MainNo(x[1]) <= x[2]},
     client |-> {x \in Host \X (1..3) : ClientNo(x[1]) <= x[2]},
     server |-> {x \in Link \X (1..3) : ServerNo(x[1]) <= x[2]},
     connect |-> {l \in Link : l[2] \notin connected[l[1]]},
     flag |-> {l \in Link : l[2] \notin flags[l[1]]},
     shut |-> {l \in Link : l[2] \notin shut[l[1]]},
     open |-> {h \in Node : ~serving[h]},
     leave |-> {x \in Thread : pc[x] # "left"},
     travel |-> Journeys,
     send |-> Unsent,
     tell |-> Untold]

Advance == /\ \A k \in DOMAIN Ahead : Ahead'[k] \subseteq Ahead[k]
           /\ Ahead' # Ahead

\* Nothing is taken back,
MainOn == \A h \in Host : MainNo(h) <= MainNo(h)'
ClientOn == \A h \in Host : ClientNo(h) <= ClientNo(h)'
ServerOn == \A l \in Link : ServerNo(l) <= ServerNo(l)'
LinksOn == \A h \in Host : /\ connected[h] \subseteq connected'[h]
                           /\ flags[h] \subseteq flags'[h]
                           /\ shut[h] \subseteq shut'[h]
GatesOn == \A h \in Node : serving[h] => serving'[h]
LeaveOn == \A x \in Thread : pc[x] = "left" => pc'[x] = "left"
TravelOn == \A t \in Transfer : \A q \in where'[t] :
               \E p \in where[t] : PlaceNo(p) <= PlaceNo(q)
ProcessOn == MainOn /\ ClientOn /\ ServerOn /\ LinksOn /\ GatesOn /\ LeaveOn
Onward == ProcessOn /\ TravelOn /\ Unsent' \subseteq Unsent /\ Untold' \subseteq Untold

\* and something is done.
Does ==
    \/ \E h \in Host : MainNo(h) < MainNo(h)' \/ ClientNo(h) < ClientNo(h)'
    \/ \E l \in Link :
          \/ ServerNo(l) < ServerNo(l)'
          \/ l[2] \in connected'[l[1]] \ connected[l[1]]
          \/ l[2] \in flags'[l[1]] \ flags[l[1]]
          \/ l[2] \in shut'[l[1]] \ shut[l[1]]
    \/ \E h \in Node : ~serving[h] /\ serving'[h]
    \/ \E x \in Thread : pc[x] # "left" /\ pc'[x] = "left"
    \/ \E u \in Transfer, p, q \in Places : Passes(u, p, q) /\ PlaceNo(p) < PlaceNo(q)
    \/ Unsent \ Unsent' # {}
    \/ Untold \ Untold' # {}

LEMMA Ranks ==
    /\ \A h \in Host : MainNo(h) \in 1..8 /\ MainNo(h)' \in 1..8
    /\ \A h \in Host : ClientNo(h) \in 1..4 /\ ClientNo(h)' \in 1..4
    /\ \A l \in Link : ServerNo(l) \in 1..4 /\ ServerNo(l)' \in 1..4
    /\ \A p : PlaceNo(p) \in 1..10
  BY DEF MainNo, ClientNo, ServerNo, PlaceNo

LEMMA AheadFields ==
    DOMAIN Ahead = {"main", "client", "server", "connect", "flag", "shut", "open",
                    "leave", "travel", "send", "tell"}
  BY DEF Ahead

LEMMA AheadShrinks ==
    ASSUME Onward PROVE \A k \in DOMAIN Ahead : Ahead'[k] \subseteq Ahead[k]
  <1>0. \A l \in Link : l[1] \in Host
    BY DEF Link
  <1>1. Ahead'["main"] \subseteq Ahead["main"] /\ Ahead'["client"] \subseteq Ahead["client"]
    <2>1. \A h \in Host, n \in 1..7 : MainNo(h)' <= n => MainNo(h) <= n
      BY Ranks DEF Onward, ProcessOn, MainOn, ClientOn, ServerOn
    <2>2. \A h \in Host, n \in 1..3 : ClientNo(h)' <= n => ClientNo(h) <= n
      BY Ranks DEF Onward, ProcessOn, MainOn, ClientOn, ServerOn
    <2>3. /\ \A x \in Host \X (1..7) : MainNo(x[1])' <= x[2] => MainNo(x[1]) <= x[2]
          /\ \A x \in Host \X (1..3) : ClientNo(x[1])' <= x[2] => ClientNo(x[1]) <= x[2]
      BY <2>1, <2>2
    <2>. QED
      BY <2>3 DEF Ahead
  <1>2. Ahead'["server"] \subseteq Ahead["server"]
    <2>1. \A l \in Link, n \in 1..3 : ServerNo(l)' <= n => ServerNo(l) <= n
      BY Ranks DEF Onward, ProcessOn, MainOn, ClientOn, ServerOn
    <2>2. \A x \in Link \X (1..3) : ServerNo(x[1])' <= x[2] => ServerNo(x[1]) <= x[2]
      BY <2>1
    <2>. QED
      BY <2>2 DEF Ahead
  <1>3. /\ Ahead'["connect"] \subseteq Ahead["connect"]
        /\ Ahead'["flag"] \subseteq Ahead["flag"]
        /\ Ahead'["shut"] \subseteq Ahead["shut"]
    BY <1>0 DEF Ahead, Onward, ProcessOn, LinksOn
  <1>4. Ahead'["open"] \subseteq Ahead["open"] /\ Ahead'["leave"] \subseteq Ahead["leave"]
    BY DEF Ahead, Onward, ProcessOn, GatesOn, LeaveOn
  <1>5. Ahead'["travel"] \subseteq Ahead["travel"]
    <2>1. ASSUME NEW t \in Transfer, NEW q \in where'[t], NEW n \in Int, PlaceNo(q) < n
          PROVE  \E p \in where[t] : PlaceNo(p) < n
      <3>1. PICK p \in where[t] : PlaceNo(p) <= PlaceNo(q)
        BY DEF Onward, TravelOn
      <3>. QED
        BY <2>1, <3>1, Ranks
    <2>2. \A x \in Transfer \X Places : PlaceNo(x[2]) \in Int
      BY Ranks
    <2>3. Journeys' \subseteq Journeys
      BY <2>1, <2>2 DEF Journeys, PlaceNo
    <2>. QED
      BY <2>3 DEF Ahead
  <1>6. Ahead'["send"] \subseteq Ahead["send"] /\ Ahead'["tell"] \subseteq Ahead["tell"]
    BY DEF Ahead, Onward
  <1>. QED
    BY <1>1, <1>2, <1>3, <1>4, <1>5, <1>6, AheadFields

LEMMA AheadDiffers ==
    ASSUME Does PROVE Ahead' # Ahead
  <1>0. ASSUME NEW k \in DOMAIN Ahead, NEW e, e \in Ahead[k], e \notin Ahead'[k]
        PROVE  Ahead' # Ahead
    BY <1>0
  <1>1. ASSUME NEW h \in Host, MainNo(h) < MainNo(h)' PROVE Ahead' # Ahead
    <2>1. MainNo(h) \in 1..7 /\ ~(MainNo(h)' <= MainNo(h))
      BY <1>1, Ranks
    <2>2. <<h, MainNo(h)>> \in Ahead["main"] /\ <<h, MainNo(h)>> \notin Ahead'["main"]
      BY <2>1 DEF Ahead
    <2>. QED
      BY <1>0, <2>2, AheadFields
  <1>2. ASSUME NEW h \in Host, ClientNo(h) < ClientNo(h)' PROVE Ahead' # Ahead
    <2>1. ClientNo(h) \in 1..3 /\ ~(ClientNo(h)' <= ClientNo(h))
      BY <1>2, Ranks
    <2>2. <<h, ClientNo(h)>> \in Ahead["client"] /\ <<h, ClientNo(h)>> \notin Ahead'["client"]
      BY <2>1 DEF Ahead
    <2>. QED
      BY <1>0, <2>2, AheadFields
  <1>3. ASSUME NEW l \in Link, ServerNo(l) < ServerNo(l)' PROVE Ahead' # Ahead
    <2>1. ServerNo(l) \in 1..3 /\ ~(ServerNo(l)' <= ServerNo(l))
      BY <1>3, Ranks
    <2>2. <<l, ServerNo(l)>> \in Ahead["server"] /\ <<l, ServerNo(l)>> \notin Ahead'["server"]
      BY <2>1 DEF Ahead
    <2>. QED
      BY <1>0, <2>2, AheadFields
  <1>4. ASSUME NEW l \in Link, l[2] \in connected'[l[1]] \ connected[l[1]]
        PROVE  Ahead' # Ahead
    <2>1. l \in Ahead["connect"] /\ l \notin Ahead'["connect"]
      BY <1>4 DEF Ahead
    <2>. QED
      BY <1>0, <2>1, AheadFields
  <1>5. ASSUME NEW l \in Link, l[2] \in flags'[l[1]] \ flags[l[1]] PROVE Ahead' # Ahead
    <2>1. l \in Ahead["flag"] /\ l \notin Ahead'["flag"]
      BY <1>5 DEF Ahead
    <2>. QED
      BY <1>0, <2>1, AheadFields
  <1>6. ASSUME NEW l \in Link, l[2] \in shut'[l[1]] \ shut[l[1]] PROVE Ahead' # Ahead
    <2>1. l \in Ahead["shut"] /\ l \notin Ahead'["shut"]
      BY <1>6 DEF Ahead
    <2>. QED
      BY <1>0, <2>1, AheadFields
  <1>7. ASSUME NEW h \in Node, ~serving[h], serving'[h] PROVE Ahead' # Ahead
    <2>1. h \in Ahead["open"] /\ h \notin Ahead'["open"]
      BY <1>7 DEF Ahead
    <2>. QED
      BY <1>0, <2>1, AheadFields
  <1>8. ASSUME NEW x \in Thread, pc[x] # "left", pc'[x] = "left" PROVE Ahead' # Ahead
    <2>1. x \in Ahead["leave"] /\ x \notin Ahead'["leave"]
      BY <1>8 DEF Ahead
    <2>. QED
      BY <1>0, <2>1, AheadFields
  <1>9. ASSUME NEW u \in Transfer, NEW p \in Places, NEW q \in Places,
               Passes(u, p, q), PlaceNo(p) < PlaceNo(q)
        PROVE  Ahead' # Ahead
    <2>1. <<u, q>> \in Journeys
      BY <1>9 DEF Passes, Journeys
    <2>2. <<u, q>> \notin Journeys'
      <3>1. \A r \in where'[u] : ~(PlaceNo(r) < PlaceNo(q))
        BY <1>9, Ranks DEF Passes
      <3>. QED
        BY <3>1 DEF Journeys, PlaceNo
    <2>3. <<u, q>> \in Ahead["travel"] /\ <<u, q>> \notin Ahead'["travel"]
      BY <2>1, <2>2 DEF Ahead
    <2>. QED
      BY <1>0, <2>3, AheadFields
  <1>10. ASSUME Unsent \ Unsent' # {} PROVE Ahead' # Ahead
    BY <1>0, <1>10, AheadFields DEF Ahead
  <1>11. ASSUME Untold \ Untold' # {} PROVE Ahead' # Ahead
    BY <1>0, <1>11, AheadFields DEF Ahead
  <1>. QED
    BY <1>1, <1>2, <1>3, <1>4, <1>5, <1>6, <1>7, <1>8, <1>9, <1>10, <1>11 DEF Does

\* What a step leaves alone is not taken back by it.
LEMMA Rests ==
    /\ UNCHANGED main => MainOn
    /\ UNCHANGED client => ClientOn
    /\ UNCHANGED rpc => ServerOn
    /\ UNCHANGED <<connected, flags, shut>> => LinksOn
    /\ UNCHANGED serving => GatesOn
    /\ UNCHANGED pc => LeaveOn
  <1>1. UNCHANGED main => \A h \in Host : MainNo(h)' = MainNo(h)
    BY DEF MainNo
  <1>2. UNCHANGED client => \A h \in Host : ClientNo(h)' = ClientNo(h)
    BY DEF ClientNo
  <1>3. UNCHANGED rpc => \A l \in Link : ServerNo(l)' = ServerNo(l)
    BY DEF ServerNo
  <1>4. /\ \A h \in Host : MainNo(h) <= MainNo(h) /\ ClientNo(h) <= ClientNo(h)
        /\ \A l \in Link : ServerNo(l) <= ServerNo(l)
    BY Ranks
  <1>5. /\ UNCHANGED main => MainOn
        /\ UNCHANGED client => ClientOn
        /\ UNCHANGED rpc => ServerOn
    BY <1>1, <1>2, <1>3, <1>4 DEF MainOn, ClientOn, ServerOn
  <1>6. /\ UNCHANGED <<connected, flags, shut>> => LinksOn
        /\ UNCHANGED serving => GatesOn
        /\ UNCHANGED pc => LeaveOn
    BY DEF LinksOn, GatesOn, LeaveOn
  <1>. QED
    BY <1>5, <1>6

\* The main thread of a process goes on, or the process dies.
LEMMA MainMoves ==
    ASSUME TypeOK, NEW h \in Host, ~Dead(h), NEW at, main' = [main EXCEPT ![h] = at],
           \/ at = "dead"
           \/ <<main[h], at>> \in {<<"new", "connecting">>, <<"connecting", "planning">>,
                 <<"connecting", "accepting">>, <<"accepting", "taking">>,
                 <<"planning", "joining">>, <<"taking", "joining">>,
                 <<"joining", "leaving">>, <<"joining", "over">>, <<"leaving", "over">>}
    PROVE  MainOn /\ Does
  <1>1. \A i \in Host : main'[i] = IF i = h THEN at ELSE main[i]
    BY DEF TypeOK
  <1>2. \A i \in Host \ {h} : MainNo(i)' = MainNo(i)
    BY <1>1 DEF MainNo
  <1>3. MainNo(h) < MainNo(h)'
    BY <1>1 DEF MainNo, Dead, TypeOK
  <1>4. \A i \in Host : MainNo(i) <= MainNo(i)'
    BY <1>2, <1>3, Ranks
  <1>. QED
    BY <1>3, <1>4 DEF MainOn, Does

LEMMA ClientMoves ==
    ASSUME TypeOK, NEW h \in Host, NEW at, client' = [client EXCEPT ![h] = at],
           <<client[h], at>> \in {<<"new", "flags">>, <<"flags", "sending">>,
                                  <<"sending", "closing">>}
    PROVE  ClientOn /\ Does
  <1>1. \A i \in Host : client'[i] = IF i = h THEN at ELSE client[i]
    BY DEF TypeOK
  <1>2. \A i \in Host \ {h} : ClientNo(i)' = ClientNo(i)
    BY <1>1 DEF ClientNo
  <1>3. ClientNo(h) < ClientNo(h)'
    BY <1>1 DEF ClientNo
  <1>4. \A i \in Host : ClientNo(i) <= ClientNo(i)'
    BY <1>2, <1>3, Ranks
  <1>. QED
    BY <1>3, <1>4 DEF ClientOn, Does

LEMMA ServerMoves ==
    ASSUME TypeOK, NEW l \in Link, NEW at, rpc' = [rpc EXCEPT ![l] = at],
           <<rpc[l], at>> \in {<<"none", "gate">>, <<"gate", "header">>,
               <<"header", "chunk">>, <<"chunk", "header">>, <<"header", "closed">>}
    PROVE  /\ ServerOn
           /\ <<rpc[l], at>> \notin {<<"header", "chunk">>, <<"chunk", "header">>} => Does
  <1>1. \A i \in Link : rpc'[i] = IF i = l THEN at ELSE rpc[i]
    BY DEF TypeOK
  <1>2. \A i \in Link \ {l} : ServerNo(i)' = ServerNo(i)
    BY <1>1 DEF ServerNo
  <1>3. /\ ServerNo(l) <= ServerNo(l)'
        /\ <<rpc[l], at>> \notin {<<"header", "chunk">>, <<"chunk", "header">>}
              => ServerNo(l) < ServerNo(l)'
    BY <1>1 DEF ServerNo
  <1>4. \A i \in Link : ServerNo(i) <= ServerNo(i)'
    BY <1>2, <1>3, Ranks
  <1>. QED
    BY <1>3, <1>4 DEF ServerOn, Does

\* The transfers go on,
LEMMA Passing ==
    ASSUME NEW u \in Transfer, NEW p \in Places, NEW q \in Places, Passes(u, p, q),
           PlaceNo(p) < PlaceNo(q)
    PROVE  TravelOn /\ Does
  <1>1. ASSUME NEW t \in Transfer, NEW r \in where'[t]
        PROVE  \E o \in where[t] : PlaceNo(o) <= PlaceNo(r)
    <2>1. CASE t = u
      <3>1. r = q /\ p \in where[t] /\ PlaceNo(p) <= PlaceNo(q)
        BY <1>1, <2>1, Ranks DEF Passes
      <3>. QED
        BY <3>1
    <2>2. CASE t # u
      <3>1. r \in where[t] /\ PlaceNo(r) <= PlaceNo(r)
        BY <1>1, <2>2, Ranks DEF Passes
      <3>. QED
        BY <3>1
    <2>. QED
      BY <2>1, <2>2
  <1>. QED
    BY <1>1 DEF TravelOn, Does

LEMMA Staying ==
    ASSUME \A t \in Transfer : where'[t] = where[t] PROVE TravelOn
  <1>1. \A p : PlaceNo(p) <= PlaceNo(p)
    BY Ranks
  <1>. QED
    BY <1>1 DEF TravelOn

LEMMA Along ==
    ASSUME NEW u, \/ Passes(u, "plan", "masterQueue") \/ Passes(u, "masterQueue", "masterHand")
                  \/ Passes(u, "masterHand", "order") \/ Passes(u, "order", "inbox")
                  \/ Passes(u, "inbox", "queue") \/ Passes(u, "queue", "hand")
                  \/ Passes(u, "hand", "link") \/ Passes(u, "link", "expected")
                  \/ Passes(u, "expected", "stored")
    PROVE  TravelOn /\ Does
  <1>1. PICK p \in Places, q \in Places : Passes(u, p, q) /\ PlaceNo(p) < PlaceNo(q)
    BY DEF Places, PlaceNo
  <1>2. u \in Transfer
    BY <1>1 DEF Passes
  <1>. QED
    BY <1>1, <1>2, Passing

LEMMA MovesOn ==
    ASSUME TraceInv, [Next]_vars
    PROVE  /\ \A t \in Transfer : AddTask(t) => TravelOn /\ Does
           /\ \A h \in Node : TakeTask(h) => TravelOn /\ Does
           /\ \A h \in Node : QueueTask(h) =>
                 TravelOn /\ (NextRead(<<Master, h>>) \in Transfer => Does)
           /\ \A h \in Host, i \in Node : SendShutdown(h, i) => TravelOn
           /\ \A x \in Thread :
                 ~Dead(owner[x]) /\ (Get(x) \/ SendHeader(x) \/ PerishSending(x))
                    => TravelOn /\ Does
           /\ \A x \in Thread : SendChunk(x) => TravelOn
           /\ \A l \in Link : l[1] # Master /\ RecvHeader(l[1], l[2])
                    => TravelOn /\ (NextRead(l) \in Transfer => Does)
           /\ \A l \in Link : l[1] # Master /\ RecvChunk(l[1], l[2]) => TravelOn /\ Does
  <1>1. ASSUME NEW t \in Transfer, AddTask(t) PROVE TravelOn /\ Does
    BY <1>1, AddTaskTrace, Along
  <1>2. ASSUME NEW h \in Node, TakeTask(h) PROVE TravelOn /\ Does
    BY <1>2, TakeTaskTrace, Along
  <1>3. ASSUME NEW h \in Node, QueueTask(h)
        PROVE  TravelOn /\ (NextRead(<<Master, h>>) \in Transfer => Does)
    BY <1>3, QueueTaskTrace, Along, Staying
  <1>4. ASSUME NEW h \in Host, NEW i \in Node, SendShutdown(h, i) PROVE TravelOn
    BY <1>4, SendShutdownTrace, Staying
  <1>5. ASSUME NEW x \in Thread, ~Dead(owner[x]), Get(x) PROVE TravelOn /\ Does
    BY <1>5, GetTrace, Along
  <1>6. ASSUME NEW x \in Thread, ~Dead(owner[x]), SendHeader(x) \/ PerishSending(x)
        PROVE  TravelOn /\ Does
    <2>1. \/ Passes(hand[x], "masterHand", "order") \/ Passes(hand[x], "hand", "link")
      BY <1>6, WriteTrace DEF Passes
    <2>. QED
      BY <2>1, Along
  <1>7. ASSUME NEW x \in Thread, SendChunk(x) PROVE TravelOn
    BY <1>7, SendChunkTrace, Staying
  <1>8. ASSUME NEW l \in Link, l[1] # Master, RecvHeader(l[1], l[2])
        PROVE  TravelOn /\ (NextRead(l) \in Transfer => Does)
    BY <1>8, RecvHeaderTrace, Along, Staying
  <1>9. ASSUME NEW l \in Link, l[1] # Master, RecvChunk(l[1], l[2])
        PROVE  TravelOn /\ Does
    <2>1. Passes(rtask[l], "expected", "stored")
      BY <1>9, RecvChunkTrace, RecvChunkEffect DEF Passes
    <2>. QED
      BY <2>1, Along
  <1>. QED
    BY <1>1, <1>2, <1>3, <1>4, <1>5, <1>6, <1>7, <1>8, <1>9

LEMMA TravelStep ==
    ASSUME TraceInv, [Next]_vars PROVE TravelOn
  BY MovingCases, RestingKeeps, Staying, MovesOn DEF Moving

\* a chunk is sent once,
LEMMA UnsentStep ==
    ASSUME TraceInv, [Next]_vars PROVE Unsent' \subseteq Unsent
  <1> SUFFICES ASSUME NEW t \in Transfer, t \in Unsent' PROVE t \in Unsent
    BY DEF Unsent
  <1>0. source[t] \in Host
    BY Hosts
  <1>1. CASE \E q \in where'[t] : PlaceNo(q) < PlaceNo("hand")
    <2>1. PICK q \in where'[t] : PlaceNo(q) < PlaceNo("hand")
      BY <1>1
    <2>2. PICK p \in where[t] : PlaceNo(p) <= PlaceNo(q)
      BY TravelStep DEF TravelOn
    <2>3. PlaceNo(p) < PlaceNo("hand")
      BY <2>1, <2>2, Ranks
    <2>. QED
      BY <2>3 DEF Unsent
  <1>2. CASE t \in hands'[source[t]]
    <2>1. CASE t \in hands[source[t]]
      BY <2>1 DEF Unsent
    <2>2. CASE t \notin hands[source[t]]
      <3>1. PICK x \in Thread : /\ NextOf(owner[x]) \in queued[owner[x]]
                                /\ t = NextOf(owner[x]) /\ owner[x] = source[t]
        BY <1>0, <1>2, <2>2, MovingCases, HandsChange
      <3>2. t \in queued[source[t]]
        BY <3>1
      <3>3. "queue" \in where[t]
        BY <3>2, WhereIs
      <3>4. PlaceNo("queue") < PlaceNo("hand")
        BY DEF PlaceNo
      <3>. QED
        BY <3>3, <3>4 DEF Unsent
    <2>. QED
      BY <2>1, <2>2
  <1>3. \/ \E q \in where'[t] : PlaceNo(q) < PlaceNo("hand")
        \/ t \in hands'[source[t]]
    BY DEF Unsent, PlaceNo
  <1>. QED
    BY <1>1, <1>2, <1>3

LEMMA SendChunkDoes ==
    ASSUME TraceInv, [Next]_vars, NEW x \in Thread, ~Dead(owner[x]), SendChunk(x)
    PROVE  Does
  <1> DEFINE t == hand[x]
  <1>1. pc[x] = "chunk"
    BY DEF SendChunk
  <1>2. /\ t \in Transfer /\ Line(x) = Way(t)
        /\ where[t] = {"link"} \/ where[t] = {"expected"}
    BY <1>1, ChunkAnnounced
  <1>3. owner[x] = source[t] /\ source[t] \in Host
    BY <1>2, Hosts DEF Line, Way
  <1>4. t \in Unsent
    BY <1>2, <1>3 DEF Unsent, hands, Holding
  <1>5. where'[t] = where[t]
    BY <1>2, SendChunkTrace
  <1>6. t \notin hands'[source[t]]
    <2>1. ~PerishSending(x)
      BY <1>1 DEF PerishSending, AtHeader
    <2>2. hands'[source[t]] = hands[source[t]] \ {t}
      BY <1>1, <1>3, <2>1, WrittenEffect
    <2>. QED
      BY <2>2
  <1>7. \A p \in where'[t] : ~(PlaceNo(p) < PlaceNo("hand"))
    BY <1>2, <1>5 DEF PlaceNo
  <1>8. t \notin Unsent'
    BY <1>6, <1>7 DEF Unsent, PlaceNo
  <1>. QED
    BY <1>4, <1>8 DEF Does

\* and the end is told once.
LEMMA UntoldStep ==
    ASSUME TraceInv, [Next]_vars PROVE Untold' \subseteq Untold
  <1> USE DEF TraceInv
  <1> SUFFICES ASSUME NEW h \in Node, h \in Untold', h \in shut[Master] PROVE h \in Untold
    BY DEF Untold
  <1>1. PICK l \in Link : l = <<Master, h>>
    BY Hosts DEF Link
  <1>2. h \in shut'[Master]
    BY ShutGrows, Hosts
  <1>3. Shutdown \in Elems(stream'[l])
    BY <1>1, <1>2 DEF Untold, Shutdown, Header
  <1>4. stream[l] \in Seq(Records)
    BY DEF TypeOK
  <1>5. CASE UNCHANGED stream
    BY <1>1, <1>3, <1>5 DEF Untold
  <1>6. ASSUME NEW k \in Link, stream[k] # <<>>,
               stream' = [stream EXCEPT ![k] = Tail(@)]
        PROVE  h \in Untold
    <2>1. stream'[l] = IF l = k THEN Tail(stream[l]) ELSE stream[l]
      BY <1>6 DEF TypeOK
    <2>2. Shutdown \in Elems(stream[l])
      BY <1>3, <1>4, <1>6, <2>1, ElemsTail
    <2>. QED
      BY <1>1, <2>2 DEF Untold
  <1>7. ASSUME NEW k \in Link, NEW r \in Records, Writing(k, r),
               stream' = [stream EXCEPT ![k] = Append(@, r)]
        PROVE  h \in Untold
    <2>1. stream'[l] = IF l = k THEN Append(stream[l], r) ELSE stream[l]
      BY <1>7 DEF TypeOK
    <2>2. l = k /\ r = Shutdown => FALSE
      <3>1. SUFFICES ASSUME l = k, r = Shutdown PROVE FALSE
        OBVIOUS
      <3>2. \A t \in Transfer : Header(t) # Shutdown /\ Chunk(t) # Shutdown
        BY HeaderTask, Hosts DEF Shutdown
      <3>3. SendShutdown(Master, h)
        BY <1>1, <1>7, <3>1, <3>2 DEF Writing
      <3>. QED
        BY <3>3 DEF SendShutdown, AtShutdown
    <2>3. Shutdown \in Elems(stream[l])
      BY <1>3, <1>4, <2>1, <2>2, ElemsAppend
    <2>. QED
      BY <1>1, <2>3 DEF Untold
  <1>. QED
    BY <1>5, <1>6, <1>7, MovingCases, StreamChange

LEMMA QueueTaskDoes ==
    ASSUME TraceInv, [Next]_vars, NEW h \in Node, QueueTask(h) PROVE Does
  <1> USE DEF TraceInv
  <1> DEFINE u == NextRead(<<Master, h>>)
  <1>1. CASE u \in Transfer
    BY <1>1, MovesOn
  <1>2. CASE u \notin Transfer
    <2>1. PICK l \in Link : l = <<Master, h>>
      BY Hosts DEF Link
    <2>2. Head(stream[l]) = Shutdown
      BY <1>2, <2>1, QueueTaskEffect DEF Shutdown
    <2>3. stream[l] \in Seq(Records) /\ stream[l] # <<>> /\ stream'[l] = Tail(stream[l])
      BY <2>1 DEF QueueTask, Read, TypeOK
    <2>4. Shutdown \in Elems(stream[l]) /\ stream[l][1] = Shutdown /\ 1 \in 1..Len(stream[l])
      BY <2>2, <2>3, ElemsTail
    <2>5. Shutdown.kind = "header" /\ Shutdown.task = NoTask
      BY DEF Shutdown, Header
    <2>6. Len(stream[l]) = 1 /\ h \in shut[Master]
      BY <2>1, <2>4, <2>5 DEF Ends, ClosedLast, Final
    <2>7. Elems(stream'[l]) = {}
      <3>1. Len(stream'[l]) = 0
        BY <2>3, <2>6
      <3>. QED
        BY <3>1 DEF Elems
    <2>8. h \in shut'[Master]
      BY <2>6, ShutGrows, Hosts
    <2>9. h \in Untold /\ h \notin Untold'
      BY <2>1, <2>4, <2>7, <2>8 DEF Untold, Elems
    <2>. QED
      BY <2>9 DEF Does
  <1>. QED
    BY <1>1, <1>2

\* Every step of a process that is alive does something.
LEMMA StepDoes ==
    ASSUME TraceInv, [Next]_vars, NEW h \in Host, ~Dead(h), HostStep(h) \/ DeathStep(h)
    PROVE  ProcessOn /\ Does
  <1> USE DEF TraceInv, main_vars, client_vars, queue_vars, server_vars
  <1>0. \A g \in Host, i \in Node : i \in Others(g) => <<g, i>> \in Link
    BY DEF Link, Others
  <1>1. ASSUME main' = [main EXCEPT ![h] = "dead"],
               UNCHANGED <<client, rpc, connected, flags, shut, serving, pc>>
        PROVE  ProcessOn /\ Does
    BY <1>1, MainMoves, Rests DEF ProcessOn
  <1>2. ASSUME Die(h) PROVE ProcessOn /\ Does
    BY <1>1, <1>2 DEF Die
  <1>3. ASSUME NEW x \in Thread, owner[x] = h, PerishSending(x) PROVE ProcessOn /\ Does
    BY <1>1, <1>3 DEF PerishSending
  <1>4. ASSUME NEW at, main' = [main EXCEPT ![h] = at],
               UNCHANGED <<client, rpc, connected, flags, shut, serving, pc>>,
               <<main[h], at>> \in {<<"new", "connecting">>, <<"accepting", "taking">>,
                 <<"planning", "joining">>, <<"taking", "joining">>,
                 <<"joining", "leaving">>, <<"joining", "over">>, <<"leaving", "over">>}
        PROVE  ProcessOn /\ Does
    BY <1>4, MainMoves, Rests DEF ProcessOn
  <1>5. CASE Construct(h)
    BY <1>4, <1>5 DEF Construct, Goto
  <1>6. CASE h \in Node /\ (JoinAccept(h) \/ TakeStop(h) \/ JoinServer(h))
    BY <1>4, <1>6 DEF JoinAccept, TakeStop, JoinServer, Goto
  <1>7. CASE h = Master /\ FinishPlan
    BY <1>4, <1>7 DEF FinishPlan, Goto
  <1>8. CASE JoinClient(h)
    BY <1>4, <1>8 DEF JoinClient, Goto
  <1>9. CASE StartClient(h)
    <2>1. client[h] = "new" /\ client' = [client EXCEPT ![h] = "flags"]
      BY <1>9 DEF StartClient, Goto, Busy
    <2>2. \E at \in {"planning", "accepting"} :
             main[h] = "connecting" /\ main' = [main EXCEPT ![h] = at]
      BY <1>9 DEF StartClient, Goto
    <2>3. MainOn /\ Does
      BY <2>2, MainMoves
    <2>4. ClientOn
      BY <2>1, ClientMoves
    <2>5. ServerOn /\ LinksOn /\ GatesOn /\ LeaveOn
      BY <1>9, Rests DEF StartClient
    <2>. QED
      BY <2>3, <2>4, <2>5 DEF ProcessOn
  <1>10. CASE StartThreads(h) \/ JoinThreads(h)
    <2>1. \E at : /\ client' = [client EXCEPT ![h] = at]
                  /\ <<client[h], at>> \in {<<"flags", "sending">>, <<"sending", "closing">>}
      BY <1>10 DEF StartThreads, JoinThreads
    <2>2. ClientOn /\ Does
      BY <2>1, ClientMoves
    <2>3. MainOn /\ ServerOn /\ LinksOn /\ GatesOn /\ LeaveOn
      BY <1>10, Rests DEF StartThreads, JoinThreads
    <2>. QED
      BY <2>2, <2>3 DEF ProcessOn
  <1>11. ASSUME NEW i \in Node, Connect(h, i) PROVE ProcessOn /\ Does
    <2>1. /\ \A g \in Host : connected'[g] =
                IF g = h THEN connected[g] \cup {i} ELSE connected[g]
          /\ i \in Others(h) \ connected[h] /\ UNCHANGED <<flags, shut>>
      BY <1>11 DEF Connect, TypeOK
    <2>2. LinksOn
      BY <2>1 DEF LinksOn
    <2>3. PICK l \in Link : l = <<h, i>>
      BY <1>0, <2>1
    <2>4. Does
      BY <2>1, <2>3 DEF Does
    <2>5. MainOn /\ ClientOn /\ ServerOn /\ GatesOn /\ LeaveOn
      BY <1>11, Rests DEF Connect
    <2>. QED
      BY <2>2, <2>4, <2>5 DEF ProcessOn
  <1>12. ASSUME NEW i \in Node, ReadFlag(h, i) PROVE ProcessOn /\ Does
    <2>1. /\ \A g \in Host : flags'[g] = IF g = h THEN flags[g] \cup {i} ELSE flags[g]
          /\ i \in Others(h) \ flags[h] /\ UNCHANGED <<connected, shut>>
      BY <1>12 DEF ReadFlag, TypeOK
    <2>2. LinksOn
      BY <2>1 DEF LinksOn
    <2>3. PICK l \in Link : l = <<h, i>>
      BY <1>0, <2>1
    <2>4. Does
      BY <2>1, <2>3 DEF Does
    <2>5. MainOn /\ ClientOn /\ ServerOn /\ GatesOn /\ LeaveOn
      BY <1>12, Rests DEF ReadFlag
    <2>. QED
      BY <2>2, <2>4, <2>5 DEF ProcessOn
  <1>13. ASSUME NEW i \in Node, SendShutdown(h, i) PROVE ProcessOn /\ Does
    <2>1. /\ \A g \in Host : shut'[g] = IF g = h THEN shut[g] \cup {i} ELSE shut[g]
          /\ i \in Others(h) \ shut[h] /\ UNCHANGED <<connected, flags>>
      BY <1>13 DEF SendShutdown, AtShutdown, TypeOK
    <2>2. LinksOn
      BY <2>1 DEF LinksOn
    <2>3. PICK l \in Link : l = <<h, i>>
      BY <1>0, <2>1
    <2>4. Does
      BY <2>1, <2>3 DEF Does
    <2>5. MainOn /\ ClientOn /\ ServerOn /\ GatesOn /\ LeaveOn
      BY <1>13, Rests DEF SendShutdown
    <2>. QED
      BY <2>2, <2>4, <2>5 DEF ProcessOn
  <1>14. CASE h \in Node /\ OpenGate(h)
    <2>1. ~serving[h] /\ \A i \in Node : serving'[i] = (i = h \/ serving[i])
      BY <1>14 DEF OpenGate, TypeOK
    <2>2. GatesOn /\ Does
      BY <1>14, <2>1 DEF GatesOn, Does
    <2>3. MainOn /\ ClientOn /\ ServerOn /\ LinksOn /\ LeaveOn
      BY <1>14, Rests DEF OpenGate
    <2>. QED
      BY <2>2, <2>3 DEF ProcessOn
  <1>15. ASSUME UNCHANGED <<main, client, rpc, connected, flags, shut, serving, pc>>
         PROVE  ProcessOn
    BY <1>15, Rests DEF ProcessOn
  <1>16. CASE h \in Node /\ (TakeTask(h) \/ QueueTask(h))
    <2>1. Does
      BY <1>16, MovesOn, QueueTaskDoes
    <2>2. UNCHANGED <<main, client, rpc, connected, flags, shut, serving, pc>>
      BY <1>16 DEF TakeTask, QueueTask
    <2>. QED
      BY <1>15, <2>1, <2>2
  <1>17. ASSUME NEW t \in Transfer, AddTask(t) PROVE ProcessOn /\ Does
    <2>1. UNCHANGED <<main, client, rpc, connected, flags, shut, serving, pc>>
      BY <1>17 DEF AddTask
    <2>. QED
      BY <1>15, <1>17, <2>1, MovesOn
  <1>18. ASSUME NEW x \in Thread, owner[x] = h,
                Get(x) \/ SendHeader(x) \/ SendChunk(x) \/ Leave(x)
         PROVE  ProcessOn /\ Does
    <2>1. \A y \in Thread : pc[y] = "left" => pc'[y] = "left"
      BY <1>18 DEF Get, SendHeader, AtHeader, SendChunk, Leave, TypeOK
    <2>2. MainOn /\ ClientOn /\ ServerOn /\ LinksOn /\ GatesOn
      BY <1>18, Rests DEF Get, SendHeader, SendChunk, Leave
    <2>3. ASSUME Leave(x) PROVE Does
      <3>1. pc[x] # "left" /\ pc'[x] = "left"
        BY <2>3 DEF Leave, TypeOK
      <3>. QED
        BY <3>1 DEF Does
    <2>4. Does
      BY <1>18, <2>3, MovesOn, SendChunkDoes
    <2>. QED
      BY <2>1, <2>2, <2>4 DEF ProcessOn, LeaveOn
  <1>19. ASSUME NEW l \in Link, NEW at, rpc' = [rpc EXCEPT ![l] = at],
                UNCHANGED <<main, client, connected, flags, shut, serving, pc>>,
                <<rpc[l], at>> \in {<<"none", "gate">>, <<"gate", "header">>,
                   <<"header", "chunk">>, <<"chunk", "header">>, <<"header", "closed">>}
         PROVE  /\ ProcessOn
                /\ <<rpc[l], at>> \notin {<<"header", "chunk">>, <<"chunk", "header">>}
                      => Does
    BY <1>19, ServerMoves, Rests DEF ProcessOn
  <1>20. ASSUME NEW g \in Host, <<g, h>> \in Link,
                Accept(g, h) \/ PassGate(g, h) \/ RecvEnds(g, h)
         PROVE  ProcessOn /\ Does
    BY <1>19, <1>20 DEF Accept, PassGate, RecvEnds
  <1>21. CASE h \in Node /\ QueueEnds(h)
    <2>1. <<Master, h>> \in Link
      BY <1>21, Hosts DEF Link
    <2>. QED
      BY <1>19, <1>21, <2>1 DEF QueueEnds
  <1>22. ASSUME NEW l \in Link, l[1] # Master, RecvHeader(l[1], l[2])
         PROVE  ProcessOn /\ Does
    <2>0. l = <<l[1], l[2]>>
      BY DEF Link
    <2>1. /\ rpc[l] = "header"
          /\ UNCHANGED <<main, client, connected, flags, shut, serving, pc>>
      BY <1>22, <2>0 DEF RecvHeader
    <2>2. NextRead(l) \in Transfer \cup {NoTask}
      BY <1>22, RecvHeaderEffect
    <2>3. \E t \in {NextRead(l), NoTask} :
             /\ t # NextRead(l) => <<l[1], NextRead(l)>> \in cut /\ Dead(l[1])
             /\ rpc' = [rpc EXCEPT ![l] = IF t = NoTask THEN "closed" ELSE "chunk"]
             /\ \A k \in Link : rtask'[k] = IF k = l THEN t ELSE rtask[k]
      BY <1>22, RecvHeaderEffect
    <2>4. PICK t \in {NextRead(l), NoTask} :
             rpc' = [rpc EXCEPT ![l] = IF t = NoTask THEN "closed" ELSE "chunk"]
      BY <2>3
    <2>5. CASE t = NoTask
      <3>1. rpc' = [rpc EXCEPT ![l] = "closed"]
        BY <2>4, <2>5
      <3>2. /\ rpc[l] = "header"
            /\ <<"header", "closed">> \notin {<<"header", "chunk">>, <<"chunk", "header">>}
        BY <2>1
      <3>3. rpc' = [rpc EXCEPT ![l] = "closed"] => ProcessOn /\ Does
        BY <1>19, <2>1, <3>2
      <3>. QED
        BY <3>1, <3>3
    <2>6. CASE t # NoTask
      <3>1. NextRead(l) \in Transfer
        BY <2>2, <2>6
      <3>2. Does
        BY <1>22, <3>1, MovesOn
      <3>3. ProcessOn
        BY <1>19, <2>1, <2>4, <2>6
      <3>. QED
        BY <3>2, <3>3
    <2>. QED
      BY <2>5, <2>6
  <1>23. ASSUME NEW l \in Link, l[1] # Master, RecvChunk(l[1], l[2])
         PROVE  ProcessOn /\ Does
    <2>0. l = <<l[1], l[2]>>
      BY DEF Link
    <2>1. /\ rpc[l] = "chunk" /\ rpc' = [rpc EXCEPT ![l] = "header"]
          /\ UNCHANGED <<main, client, connected, flags, shut, serving, pc>>
      BY <1>23, <2>0 DEF RecvChunk
    <2>2. ProcessOn
      BY <1>19, <2>1
    <2>. QED
      BY <1>23, <2>2, MovesOn
  <1>24. ASSUME NEW g \in Host, <<g, h>> \in Link, RecvHeader(g, h) \/ RecvChunk(g, h)
         PROVE  ProcessOn /\ Does
    <2>1. PICK l \in Link : l = <<g, h>>
      BY <1>24
    <2>2. l[1] = g /\ l[2] = h /\ g # Master
      BY <1>24, <2>1 DEF RecvHeader, RecvChunk
    <2>. QED
      BY <1>22, <1>23, <1>24, <2>2
  <1>. QED
    BY StepCases, <1>2, <1>3, <1>5, <1>6, <1>7, <1>8, <1>9, <1>10, <1>11, <1>12, <1>13,
       <1>14, <1>16, <1>17, <1>18, <1>20, <1>21, <1>24
       DEF FlagFails, ShutdownFails, HeaderFails, SendFlagFails, Perish

\* What is ahead of the processes only ever shrinks, and every step of every
\* process takes something from it: this is why no step can be taken for ever.
\* With finitely many transfers and threads the run of the prototype is finite
\* whatever the order of its steps and whoever dies; with NeverStuckHolds, it
\* stops only where every process has ended, or where somebody died before all
\* connections were made.
THEOREM EveryStepCounts == Spec => [][Advance]_vars
  <1>1. TraceInv /\ Next => Advance
    <2> SUFFICES ASSUME TraceInv, Next PROVE Advance
      OBVIOUS
    <2>1. ProcessOn /\ Does
      BY StepDoes DEF Next
    <2>2. Onward
      BY <2>1, TravelStep, UnsentStep, UntoldStep DEF Onward
    <2>. QED
      BY <2>1, <2>2, AheadShrinks, AheadDiffers DEF Advance
  <1>2. ClusterInv /\ [Next]_vars => [Advance]_vars
    BY <1>1 DEF ClusterInv
  <1>. QED
    BY <1>2, ClusterInvHolds, PTL DEF Spec

\* Finitely much is ahead of finitely many threads and transfers.
THEOREM AheadIsFinite ==
    ASSUME IsFiniteSet(Thread), IsFiniteSet(Transfer)
    PROVE  \A k \in DOMAIN Ahead : IsFiniteSet(Ahead[k])
  <1>1. IsFiniteSet(Host) /\ IsFiniteSet(Node)
    BY FS_Interval, ClusterAssumption DEF Host, Node
  <1>a. IsFiniteSet(1..7) /\ IsFiniteSet(1..3)
    <2>1. ASSUME NEW n \in Int PROVE IsFiniteSet(1..n)
      BY FS_Interval
    <2>2. 3 \in Int /\ 7 \in Int
      OBVIOUS
    <2>. QED
      BY <2>1, <2>2, Zenon
  <1>2. IsFiniteSet(Host \X (1..7)) /\ IsFiniteSet(Host \X (1..3))
    BY <1>1, <1>a, FS_Product
  <1>3. IsFiniteSet(Link)
    <2>1. Link \subseteq Host \X Node
      BY DEF Link
    <2>. QED
      BY <1>1, <2>1, FS_Product, FS_Subset
  <1>4. IsFiniteSet(Link \X (1..3))
    BY <1>3, <1>a, FS_Product
  <1>5. IsFiniteSet(Transfer \X Places)
    <2>1. IsFiniteSet(Places)
      <3>1. \A S, e : IsFiniteSet(S) => IsFiniteSet(S \cup {e})
        BY FS_AddElement
      <3>2. Places = (((((((((({} \cup {"plan"}) \cup {"masterQueue"}) \cup {"masterHand"})
                         \cup {"order"}) \cup {"inbox"}) \cup {"queue"}) \cup {"hand"})
                         \cup {"link"}) \cup {"expected"}) \cup {"stored"})
        BY DEF Places
      <3>. QED
        BY <3>1, <3>2, FS_EmptySet
    <2>. QED
      BY <2>1, FS_Product
  <1>6. /\ Ahead["main"] \in SUBSET (Host \X (1..7))
        /\ Ahead["client"] \in SUBSET (Host \X (1..3))
        /\ Ahead["server"] \in SUBSET (Link \X (1..3))
    BY DEF Ahead
  <1>7. /\ Ahead["connect"] \in SUBSET Link /\ Ahead["flag"] \in SUBSET Link
        /\ Ahead["shut"] \in SUBSET Link
    BY DEF Ahead
  <1>8. Ahead["open"] \in SUBSET Node /\ Ahead["leave"] \in SUBSET Thread
    BY DEF Ahead
  <1>9. /\ Ahead["travel"] \in SUBSET (Transfer \X Places)
        /\ Ahead["send"] \in SUBSET Transfer /\ Ahead["tell"] \in SUBSET Node
    BY DEF Ahead, Journeys, Unsent, Untold
  <1>10. ASSUME NEW S, IsFiniteSet(S) PROVE \A R \in SUBSET S : IsFiniteSet(R)
    BY <1>10, FS_Subset
  <1>11. /\ IsFiniteSet(Ahead["main"]) /\ IsFiniteSet(Ahead["client"])
         /\ IsFiniteSet(Ahead["server"])
    BY <1>2, <1>4, <1>6, <1>10
  <1>12. /\ IsFiniteSet(Ahead["connect"]) /\ IsFiniteSet(Ahead["flag"])
         /\ IsFiniteSet(Ahead["shut"])
    BY <1>3, <1>7, <1>10
  <1>13. /\ IsFiniteSet(Ahead["open"]) /\ IsFiniteSet(Ahead["leave"])
         /\ IsFiniteSet(Ahead["travel"]) /\ IsFiniteSet(Ahead["send"])
         /\ IsFiniteSet(Ahead["tell"])
    BY <1>1, <1>5, <1>8, <1>9, <1>10
  <1>. QED
    BY <1>11, <1>12, <1>13, AheadFields
=============================================================================
