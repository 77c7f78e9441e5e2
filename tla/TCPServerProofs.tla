-------------------------- MODULE TCPServerProofs --------------------------
(***************************************************************************)
(* Theorems about TCPServer, for any number of peers, workers, buffers and *)
(* tasks, and any set of connections that may break.                       *)
(***************************************************************************)
EXTENDS TCPServer, FiniteSetTheorems, TLAPS

\* Where a task is, who holds it and whether it has a buffer agree.  This is
\* what makes TypeOK inductive: the code follows mem_ptr without a test.
Receiving ==
    \A r \in Peer : rpc[r] \in {"block", "chunk", "hand"} =>
        /\ rtask[r] \in Task
        /\ Sender[rtask[r]] = r
        /\ stage[rtask[r]] = "received"
        /\ rpc[r] = "block" => mem_ptr[rtask[r]] = NoBlock
        /\ rpc[r] \in Buffered => mem_ptr[rtask[r]] \in Block
        /\ rpc[r] = "hand" => chunk[mem_ptr[rtask[r]]] \in Data

\* A task that left its receiver is in one place of the node.
InOnePlace ==
    /\ \A i \in 1..Len(cqueue) :
          /\ stage[cqueue[i]] = "cqueue"
          /\ \A j \in 1..Len(cqueue) : cqueue[i] = cqueue[j] => i = j
    /\ \A c \in CWorker : cpc[c] \in Computing =>
          /\ ctask[c] \in Task
          /\ stage[ctask[c]] = "coding"
          /\ \A d \in CWorker :
                cpc[d] \in Computing /\ ctask[c] = ctask[d] => c = d
    /\ \A i \in 1..Len(wqueue) :
          /\ stage[wqueue[i]] = "wqueue"
          /\ \A j \in 1..Len(wqueue) : wqueue[i] = wqueue[j] => i = j
    /\ \A w \in WWorker : wpc[w] \in Writing =>
          /\ wtask[w] \in Task
          /\ stage[wtask[w]] = "writing"
          /\ \A v \in WWorker :
                wpc[v] \in Writing /\ wtask[w] = wtask[v] => w = v

HasBuffer ==
    \A t \in Task :
        /\ stage[t] \in {"cqueue", "coding", "wqueue", "writing"} =>
              mem_ptr[t] \in Block /\ chunk[mem_ptr[t]] \in Data
        /\ stage[t] \in {"sent", "written"} => mem_ptr[t] = NoBlock

\* The workers run only after start_serving has started them.
WorkersWait ==
    phase = "starting" => /\ \A c \in CWorker : cpc[c] = "new"
                          /\ \A w \in WWorker : wpc[w] = "new"

Located == Receiving /\ InOnePlace /\ HasBuffer /\ WorkersWait

\* Encoding a buffer in place leaves a description of a chunk.
LEMMA EncodedIsData ==
    ASSUME NEW d \in Data PROVE [d EXCEPT !.coded = TRUE] \in Data
  BY DEF Data

\* What a push does to a queue.
LEMMA PushFacts ==
    ASSUME NEW S, NEW q \in Seq(S), NEW e \in S
    PROVE  /\ Append(q, e) \in Seq(S)
           /\ Len(Append(q, e)) = Len(q) + 1
           /\ \A i \in 1..Len(q) : Append(q, e)[i] = q[i]
           /\ Append(q, e)[Len(q) + 1] = e
  OBVIOUS

\* Type correctness, with the placement of the tasks it depends on.
THEOREM TypeCorrect == Spec => [](TypeOK /\ Located)
<1> USE ServerAssumption, NoDataAssumption
    DEF ServerAssumption, NoDataAssumption, main_vars, recv_vars, pool_vars,
        comp_vars, write_vars, Block, NoBlock, Buffered, Computing, Writing,
        Header, Headers
<1>1. Init => TypeOK /\ Located
  <2> SUFFICES ASSUME Init PROVE TypeOK /\ Located
    OBVIOUS
  <2> USE DEF Init
  <2>1. <<>> \in Seq(Task)
    OBVIOUS
  <2>2. [b \in Block |-> b] \in Seq(Block)
    OBVIOUS
  <2>3. TypeOK
    BY <2>1, <2>2 DEF TypeOK
  <2>4. Located
    BY DEF Located, Receiving, InOnePlace, HasBuffer, WorkersWait
  <2> QED BY <2>3, <2>4
<1>2. TypeOK /\ Located /\ [Next]_vars => TypeOK' /\ Located'
  <2> SUFFICES ASSUME TypeOK, Located, [Next]_vars
               PROVE  TypeOK' /\ Located'
    OBVIOUS
  <2> USE DEF TypeOK, Located, Receiving, InOnePlace, HasBuffer, WorkersWait,
             Data
  <2>1. CASE StartServing
    BY <2>1 DEF StartServing
  <2>2. CASE JoinReceivers
    BY <2>2 DEF JoinReceivers
  <2>3. CASE JoinCompute
    BY <2>3 DEF JoinCompute
  <2>4. CASE JoinWriters
    BY <2>4 DEF JoinWriters
  <2>5. CASE MasterServed
    BY <2>5 DEF MasterServed
  <2>6. CASE MasterClosed
    BY <2>6 DEF MasterClosed
  <2>7. ASSUME NEW r \in Peer, PassGate(r) PROVE TypeOK' /\ Located'
    BY <2>7 DEF PassGate
  <2>8. ASSUME NEW r \in Peer, RecvHeader(r) PROVE TypeOK' /\ Located'
    BY <2>8 DEF RecvHeader
  <2>9. ASSUME NEW r \in Peer, RecvShutdown(r) PROVE TypeOK' /\ Located'
    BY <2>9 DEF RecvShutdown
  <2>10. ASSUME NEW r \in Peer, RecvEOF(r) PROVE TypeOK' /\ Located'
    BY <2>10 DEF RecvEOF
  <2>26. ASSUME NEW r \in Peer, RecvCut(r) PROVE TypeOK' /\ Located'
    BY <2>26 DEF RecvCut
  <2>11. ASSUME NEW r \in Peer, GetBlock(r) PROVE TypeOK' /\ Located'
    BY <2>11 DEF GetBlock
  <2>12. ASSUME NEW r \in Peer, RecvChunk(r) PROVE TypeOK' /\ Located'
    BY <2>12 DEF RecvChunk, FillBuffer
  <2>13. ASSUME NEW r \in Peer, RecvShort(r) PROVE TypeOK' /\ Located'
    BY <2>13 DEF RecvShort, FillBuffer
  <2>14. ASSUME NEW r \in Peer, HandOver(r) PROVE TypeOK' /\ Located'
    <3>1. \A q \in Peer : rpc'[q] \in {"block", "chunk", "hand"} =>
             q # r /\ rtask[q] # rtask[r]
      BY <2>14 DEF HandOver
    <3>2. Receiving'
      BY <2>14, <3>1 DEF HandOver
    <3>3. /\ rtask[r] \in Task /\ stage[rtask[r]] = "received"
          /\ mem_ptr[rtask[r]] \in Block
          /\ chunk[mem_ptr[rtask[r]]] \in Data
      BY <2>14 DEF HandOver
    <3>6. WorkersWait'
      BY <2>14 DEF HandOver
    <3>4. CASE rtask[r] \in ToCode
      <4>1. /\ cqueue' = Append(cqueue, rtask[r])
            /\ stage' = [stage EXCEPT ![rtask[r]] = "cqueue"]
            /\ rpc' = [rpc EXCEPT ![r] = "header"]
            /\ UNCHANGED <<main_vars, rtask, link, info, pool_vars, cseal, cpc,
                           ctask, wqueue, wseal, wpc, wtask, store>>
        BY <2>14, <3>4 DEF HandOver
      <4>2. /\ cqueue' \in Seq(Task) /\ Len(cqueue') = Len(cqueue) + 1
            /\ \A i \in 1..Len(cqueue) : cqueue'[i] = cqueue[i]
            /\ cqueue'[Len(cqueue) + 1] = rtask[r]
        BY <3>3, <4>1, PushFacts
      <4>3. TypeOK'
        BY <4>1, <4>2
      <4>4. HasBuffer'
        BY <3>3, <4>1
      <4>5. InOnePlace'
        BY <3>3, <4>1, <4>2
      <4> QED BY <3>2, <3>6, <4>3, <4>4, <4>5
    <3>5. CASE rtask[r] \notin ToCode
      <4>1. /\ wqueue' = Append(wqueue, rtask[r])
            /\ stage' = [stage EXCEPT ![rtask[r]] = "wqueue"]
            /\ rpc' = [rpc EXCEPT ![r] = "header"]
            /\ UNCHANGED <<main_vars, rtask, link, info, pool_vars, cseal, cpc,
                           ctask, cqueue, wseal, wpc, wtask, store>>
        BY <2>14, <3>5 DEF HandOver
      <4>2. /\ wqueue' \in Seq(Task) /\ Len(wqueue') = Len(wqueue) + 1
            /\ \A i \in 1..Len(wqueue) : wqueue'[i] = wqueue[i]
            /\ wqueue'[Len(wqueue) + 1] = rtask[r]
        BY <3>3, <4>1, PushFacts
      <4>3. TypeOK'
        BY <4>1, <4>2
      <4>4. HasBuffer'
        BY <3>3, <4>1
      <4>5. InOnePlace'
        BY <3>3, <4>1, <4>2
      <4> QED BY <3>2, <3>6, <4>3, <4>4, <4>5
    <3> QED BY <3>4, <3>5
  <2>15. ASSUME NEW r \in Peer, PeerBreaks(r) PROVE TypeOK' /\ Located'
    BY <2>15 DEF PeerBreaks
  <2>16. ASSUME NEW c \in CWorker, ComputeTake(c) PROVE TypeOK' /\ Located'
    BY <2>16 DEF ComputeTake
  <2>17. ASSUME NEW c \in CWorker, Encode(c) PROVE TypeOK' /\ Located'
    <3>1. mem_ptr[ctask[c]] \in Block /\ chunk[mem_ptr[ctask[c]]] \in Data
      BY <2>17 DEF Encode
    <3>2. PICK d \in Data : chunk' = [chunk EXCEPT ![mem_ptr[ctask[c]]] = d]
      BY <2>17, <3>1, EncodedIsData DEF Encode
    <3>3. chunk' \in [Block -> Data \cup {NoData}]
      BY <3>1, <3>2
    <3>4. TypeOK'
      BY <2>17, <3>3 DEF Encode
    <3>5. \A x \in Block : chunk[x] \in Data => chunk'[x] \in Data
      BY <3>1, <3>2
    <3>6. UNCHANGED <<rpc, rtask, stage, mem_ptr>>
      BY <2>17 DEF Encode
    <3>7. InOnePlace'
      BY <2>17 DEF Encode
    <3>8. Receiving'
      BY <3>5, <3>6
    <3>9. HasBuffer'
      BY <3>5, <3>6
    <3>10. WorkersWait'
      BY <2>17 DEF Encode
    <3> QED BY <3>4, <3>7, <3>8, <3>9, <3>10
  <2>18. ASSUME NEW c \in CWorker, Forward(c) PROVE TypeOK' /\ Located'
    BY <2>18 DEF Forward
  <2>19. ASSUME NEW c \in CWorker, ComputeDrained(c) PROVE TypeOK' /\ Located'
    BY <2>19 DEF ComputeDrained
  <2>20. ASSUME NEW c \in CWorker, SealWriters(c) PROVE TypeOK' /\ Located'
    BY <2>20 DEF SealWriters
  <2>21. ASSUME NEW w \in WWorker, WriteTake(w) PROVE TypeOK' /\ Located'
    BY <2>21 DEF WriteTake
  <2>22. ASSUME NEW w \in WWorker, WriteFile(w) PROVE TypeOK' /\ Located'
    BY <2>22 DEF WriteFile
  <2>23. ASSUME NEW w \in WWorker, ReleaseBlock(w) PROVE TypeOK' /\ Located'
    BY <2>23 DEF ReleaseBlock
  <2>24. ASSUME NEW w \in WWorker, WriteDrained(w) PROVE TypeOK' /\ Located'
    BY <2>24 DEF WriteDrained
  <2>25. CASE UNCHANGED vars
    BY <2>25 DEF vars
  <2> QED
    BY <2>1, <2>2, <2>3, <2>4, <2>5, <2>6, <2>7, <2>8, <2>9, <2>10,
       <2>11, <2>12, <2>13, <2>14, <2>15, <2>16, <2>17, <2>18, <2>19,
       <2>20, <2>21, <2>22, <2>23, <2>24, <2>25, <2>26
    DEF Next, MainStep, MasterStep, RecvStep, ComputeStep, WriteStep
<1> QED BY <1>1, <1>2, PTL DEF Spec
-----------------------------------------------------------------------------

\* Every buffer is in the free queue or attached to a task, once.
EveryBufferOwned ==
    /\ \A i \in 1..Len(free_queue) : \A j \in 1..Len(free_queue) :
          free_queue[i] = free_queue[j] => i = j
    /\ \A t \in Task : \A u \in Task :
          mem_ptr[t] = mem_ptr[u] /\ mem_ptr[t] # NoBlock => t = u
    /\ \A t \in Task : \A i \in 1..Len(free_queue) :
          mem_ptr[t] # free_queue[i]
    /\ \A b \in Block : \/ \E i \in 1..Len(free_queue) : free_queue[i] = b
                        \/ \E t \in Task : mem_ptr[t] = b

LEMMA BuffersOwned == Spec => []EveryBufferOwned
<1> USE ServerAssumption, NoDataAssumption
    DEF ServerAssumption, NoDataAssumption, main_vars, recv_vars, pool_vars,
        comp_vars, write_vars, Block, NoBlock, Buffered, Computing, Writing
<1>1. Init => EveryBufferOwned
  BY DEF Init, EveryBufferOwned
<1>2. TypeOK /\ Located /\ EveryBufferOwned /\ [Next]_vars
         => EveryBufferOwned'
  <2> SUFFICES ASSUME TypeOK, Located, EveryBufferOwned, [Next]_vars
               PROVE  EveryBufferOwned'
    OBVIOUS
  <2> USE DEF TypeOK, Located, Receiving, InOnePlace, EveryBufferOwned
  <2>1. ASSUME NEW r \in Peer, GetBlock(r) PROVE EveryBufferOwned'
    <3>1. /\ rtask[r] \in Task /\ mem_ptr[rtask[r]] = NoBlock
          /\ free_queue # <<>>
          /\ free_queue' = Tail(free_queue)
          /\ mem_ptr' = [mem_ptr EXCEPT ![rtask[r]] = Head(free_queue)]
      BY <2>1 DEF GetBlock
    <3>2. /\ Len(free_queue) \in Nat \ {0}
          /\ Len(free_queue') = Len(free_queue) - 1
          /\ \A i \in 1..Len(free_queue') : free_queue'[i] = free_queue[i + 1]
          /\ mem_ptr'[rtask[r]] = free_queue[1] /\ free_queue[1] \in Block
          /\ \A t \in Task \ {rtask[r]} : mem_ptr'[t] = mem_ptr[t]
      BY <3>1
    <3>3. ASSUME NEW b \in Block
          PROVE  \/ \E i \in 1..Len(free_queue') : free_queue'[i] = b
                 \/ \E t \in Task : mem_ptr'[t] = b
      <4>1. CASE \E t \in Task : mem_ptr[t] = b
        BY <4>1, <3>1, <3>2
      <4>2. CASE free_queue[1] = b
        BY <4>2, <3>1, <3>2
      <4>3. ASSUME NEW i \in 2..Len(free_queue), free_queue[i] = b
            PROVE  \E j \in 1..Len(free_queue') : free_queue'[j] = b
        <5>1. i - 1 \in 1..Len(free_queue')
          BY <4>3, <3>2
        <5>2. free_queue'[i - 1] = free_queue[i - 1 + 1] /\ i - 1 + 1 = i
          BY <4>3, <3>2, <5>1
        <5> QED BY <4>3, <5>1, <5>2
      <4>4. \/ \E i \in 2..Len(free_queue) : free_queue[i] = b
            \/ free_queue[1] = b
            \/ \E t \in Task : mem_ptr[t] = b
        <5>1. \A i \in 1..Len(free_queue) : i = 1 \/ i \in 2..Len(free_queue)
          BY <3>2
        <5> QED BY <3>3, <5>1
      <4> QED BY <4>1, <4>2, <4>3, <4>4
    <3>4. /\ \A t \in Task : \A i \in 1..Len(free_queue') :
                mem_ptr'[t] # free_queue'[i]
          /\ \A t \in Task : \A u \in Task :
                mem_ptr'[t] = mem_ptr'[u] /\ mem_ptr'[t] # NoBlock => t = u
          /\ \A i \in 1..Len(free_queue') : \A j \in 1..Len(free_queue') :
                free_queue'[i] = free_queue'[j] => i = j
      BY <3>1, <3>2
    <3> QED BY <3>3, <3>4
  <2>2. ASSUME NEW w \in WWorker, ReleaseBlock(w) PROVE EveryBufferOwned'
    <3> DEFINE n == Len(free_queue)
    <3>1. /\ wtask[w] \in Task /\ mem_ptr[wtask[w]] \in Block
          /\ free_queue' = Append(free_queue, mem_ptr[wtask[w]])
          /\ mem_ptr' = [mem_ptr EXCEPT ![wtask[w]] = NoBlock]
      BY <2>2 DEF ReleaseBlock, HasBuffer
    <3>2. /\ n \in Nat /\ Len(free_queue') = n + 1
          /\ \A i \in 1..n : free_queue'[i] = free_queue[i]
          /\ free_queue'[n + 1] = mem_ptr[wtask[w]]
          /\ mem_ptr'[wtask[w]] = NoBlock
          /\ \A t \in Task \ {wtask[w]} : mem_ptr'[t] = mem_ptr[t]
          /\ \A i \in 1..(n + 1) : i \in 1..n \/ i = n + 1
          /\ \A i \in 1..n : i \in 1..(n + 1) /\ free_queue[i] \in Block
          /\ n + 1 \in 1..(n + 1)
      BY <3>1, PushFacts
    <3> HIDE DEF n
    <3>3. ASSUME NEW b \in Block
          PROVE  \/ \E i \in 1..Len(free_queue') : free_queue'[i] = b
                 \/ \E t \in Task : mem_ptr'[t] = b
      <4>1. CASE \E i \in 1..n : free_queue[i] = b
        BY <4>1, <3>2
      <4>2. ASSUME NEW t \in Task, mem_ptr[t] = b
            PROVE  \/ \E i \in 1..(n + 1) : free_queue'[i] = b
                   \/ mem_ptr'[t] = b
        <5>1. CASE t = wtask[w]
          BY <4>2, <3>2, <5>1
        <5>2. CASE t # wtask[w]
          BY <4>2, <3>2, <5>2
        <5> QED BY <5>1, <5>2
      <4>3. \/ \E i \in 1..n : free_queue[i] = b
            \/ \E t \in Task : mem_ptr[t] = b
        BY <3>3 DEF n
      <4> QED BY <3>2, <4>1, <4>2, <4>3
    <3>4. \A t \in Task : \A i \in 1..Len(free_queue') :
             mem_ptr'[t] # free_queue'[i]
      BY <3>1, <3>2 DEF n
    <3>5. \A t \in Task : \A u \in Task :
             mem_ptr'[t] = mem_ptr'[u] /\ mem_ptr'[t] # NoBlock => t = u
      BY <3>2
    <3>6. \A i \in 1..Len(free_queue') : \A j \in 1..Len(free_queue') :
             free_queue'[i] = free_queue'[j] => i = j
      BY <3>1, <3>2 DEF n
    <3> QED BY <3>3, <3>4, <3>5, <3>6
  <2>3. CASE UNCHANGED <<free_queue, mem_ptr>>
    BY <2>3
  <2>4. ASSUME NEW r \in Peer, RecvStep(r) \/ PeerBreaks(r)
        PROVE  GetBlock(r) \/ UNCHANGED <<free_queue, mem_ptr>>
    BY <2>4 DEF RecvStep, PassGate, RecvHeader, RecvShutdown, RecvCut, RecvEOF,
                RecvChunk, RecvShort, HandOver, PeerBreaks
  <2>5. ASSUME NEW c \in CWorker, ComputeStep(c)
        PROVE  UNCHANGED <<free_queue, mem_ptr>>
    BY <2>5 DEF ComputeStep, ComputeTake, Encode, Forward, ComputeDrained,
                SealWriters
  <2>6. ASSUME NEW w \in WWorker, WriteStep(w)
        PROVE  ReleaseBlock(w) \/ UNCHANGED <<free_queue, mem_ptr>>
    BY <2>6 DEF WriteStep, WriteTake, WriteFile, WriteDrained
  <2>7. CASE MainStep
    BY <2>3, <2>7 DEF MainStep, StartServing, JoinReceivers, JoinCompute,
                      JoinWriters
  <2>8. CASE MasterStep
    BY <2>3, <2>8 DEF MasterStep, MasterServed, MasterClosed
  <2>9. CASE UNCHANGED vars
    BY <2>3, <2>9 DEF vars
  <2> QED
    BY <2>1, <2>2, <2>3, <2>4, <2>5, <2>6, <2>7, <2>8, <2>9 DEF Next
<1> QED BY <1>1, <1>2, TypeCorrect, PTL DEF Spec

\* No task goes missing: one that was received is held by a thread or a queue
\* until it is written.
HeldReceived(t) == \E r \in Peer : rpc[r] \in {"block", "chunk", "hand"} /\ rtask[r] = t
HeldToCode(t) == \E i \in 1..Len(cqueue) : cqueue[i] = t
HeldCoding(t) == \E c \in CWorker : cpc[c] \in Computing /\ ctask[c] = t
HeldToWrite(t) == \E i \in 1..Len(wqueue) : wqueue[i] = t
HeldWriting(t) == \E w \in WWorker : wpc[w] \in Writing /\ wtask[w] = t

EveryTaskHeld ==
    \A t \in Task :
        /\ stage[t] = "received" => HeldReceived(t)
        /\ stage[t] = "cqueue" => HeldToCode(t)
        /\ stage[t] = "coding" => HeldCoding(t)
        /\ stage[t] = "wqueue" => HeldToWrite(t)
        /\ stage[t] = "writing" => HeldWriting(t)

LEMMA TasksHeld == Spec => []EveryTaskHeld
<1> USE ServerAssumption
    DEF ServerAssumption, main_vars, recv_vars, pool_vars, comp_vars,
        write_vars, Buffered, Computing, Writing
<1>1. Init => EveryTaskHeld
  BY DEF Init, EveryTaskHeld
<1>2. TypeOK /\ Located /\ EveryTaskHeld /\ [Next]_vars => EveryTaskHeld'
  <2> SUFFICES ASSUME TypeOK, Located, EveryTaskHeld, [Next]_vars,
                      NEW t \in Task
               PROVE  /\ stage'[t] = "received" => HeldReceived(t)'
                      /\ stage'[t] = "cqueue" => HeldToCode(t)'
                      /\ stage'[t] = "coding" => HeldCoding(t)'
                      /\ stage'[t] = "wqueue" => HeldToWrite(t)'
                      /\ stage'[t] = "writing" => HeldWriting(t)'
    BY DEF EveryTaskHeld
  <2> USE DEF TypeOK, Located, Receiving, InOnePlace, EveryTaskHeld
  <2>1. ASSUME stage'[t] = "received" PROVE HeldReceived(t)'
    <3> USE <2>1 DEF HeldReceived
    <3>1. CASE MainStep
      BY <3>1 DEF MainStep, StartServing, JoinReceivers, JoinCompute,
                  JoinWriters
    <3>2. CASE MasterStep
      BY <3>2 DEF MasterStep, MasterServed, MasterClosed
    <3>3. ASSUME NEW r \in Peer, RecvHeader(r) \/ RecvCut(r) PROVE HeldReceived(t)'
      <4>1. CASE rtask'[r] = t
        BY <3>3, <4>1 DEF RecvHeader, RecvCut
      <4>2. CASE rtask'[r] # t
        <5>1. stage[t] = "received"
          BY <3>3, <4>2 DEF RecvHeader, RecvCut
        <5>2. PICK q \in Peer : /\ rpc[q] \in {"block", "chunk", "hand"}
                                /\ rtask[q] = t
          BY <5>1
        <5> QED BY <3>3, <5>2 DEF RecvHeader, RecvCut
      <4> QED BY <4>1, <4>2
    <3>4. ASSUME NEW r \in Peer, HandOver(r) PROVE HeldReceived(t)'
      <4>1. stage[t] = "received" /\ t # rtask[r]
        BY <3>4 DEF HandOver
      <4>2. PICK q \in Peer : /\ rpc[q] \in {"block", "chunk", "hand"}
                              /\ rtask[q] = t
        BY <4>1
      <4> QED BY <3>4, <4>1, <4>2 DEF HandOver
    <3>5. ASSUME NEW r \in Peer,
         PassGate(r) \/ RecvShutdown(r) \/ RecvEOF(r) \/ GetBlock(r) \/
         RecvChunk(r) \/ RecvShort(r) \/ PeerBreaks(r)
         PROVE  HeldReceived(t)'
      <4>1. stage[t] = "received"
        BY <3>5 DEF PassGate, RecvShutdown, RecvEOF, GetBlock, RecvChunk, RecvShort, PeerBreaks, FillBuffer
      <4>2. PICK q \in Peer : /\ rpc[q] \in {"block", "chunk", "hand"}
                              /\ rtask[q] = t
        BY <4>1
      <4>3. rtask' = rtask /\ \A p \in Peer : p # r => rpc'[p] = rpc[p]
        BY <3>5 DEF PassGate, RecvShutdown, RecvEOF, GetBlock, RecvChunk, RecvShort, PeerBreaks, FillBuffer
      <4>4. rpc[r] \in {"block", "chunk", "hand"} => rpc'[r] \in {"block", "chunk", "hand"}
        BY <3>5 DEF PassGate, RecvShutdown, RecvEOF, GetBlock, RecvChunk, RecvShort, PeerBreaks, FillBuffer
      <4>5. rpc'[q] \in {"block", "chunk", "hand"} /\ rtask'[q] = t
        BY <4>2, <4>3, <4>4
      <4> QED BY <4>5
    <3>6. ASSUME NEW c \in CWorker,
         ComputeTake(c) \/ Encode(c) \/ Forward(c) \/ ComputeDrained(c) \/
         SealWriters(c)
         PROVE  HeldReceived(t)'
      BY <3>6 DEF ComputeTake, Encode, Forward, ComputeDrained, SealWriters
    <3>7. ASSUME NEW w \in WWorker,
         WriteTake(w) \/ WriteFile(w) \/ ReleaseBlock(w) \/ WriteDrained(w)
         PROVE  HeldReceived(t)'
      BY <3>7 DEF WriteTake, WriteFile, ReleaseBlock, WriteDrained
    <3>8. CASE UNCHANGED vars
      BY <3>8 DEF vars
    <3> QED
      BY <3>1, <3>2, <3>3, <3>4, <3>5, <3>6, <3>7, <3>8
      DEF Next, MainStep, MasterStep, RecvStep, ComputeStep, WriteStep
  <2>2. ASSUME stage'[t] = "cqueue" PROVE HeldToCode(t)'
    <3> USE <2>2 DEF HeldToCode
    <3>1. CASE stage[t] = "cqueue" /\ UNCHANGED cqueue
      BY <3>1
    <3>2. ASSUME NEW e \in Task, cqueue' = Append(cqueue, e),
                 stage[t] = "cqueue" \/ t = e
          PROVE  HeldToCode(t)'
      <4>1. CASE t = e
        BY <3>2, <4>1, PushFacts
      <4>2. CASE stage[t] = "cqueue"
        <5>1. PICK i \in 1..Len(cqueue) : cqueue[i] = t
          BY <4>2
        <5>2. i \in 1..Len(cqueue') /\ cqueue'[i] = t
          BY <3>2, <5>1, PushFacts
        <5> QED BY <5>2
      <4> QED BY <3>2, <4>1, <4>2
    <3>3. ASSUME cqueue # <<>>, cqueue' = Tail(cqueue),
                 stage[t] = "cqueue", t # Head(cqueue)
          PROVE  HeldToCode(t)'
      <4>1. PICK i \in 1..Len(cqueue) : cqueue[i] = t
        BY <3>3
      <4>2. i - 1 \in 1..Len(cqueue') /\ cqueue'[i - 1] = t
        BY <3>3, <4>1
      <4> QED BY <4>2
    <3>4. CASE MainStep
      BY <3>1, <3>4 DEF MainStep, StartServing, JoinReceivers, JoinCompute,
                        JoinWriters
    <3>5. CASE MasterStep
      BY <3>1, <3>5 DEF MasterStep, MasterServed, MasterClosed
    <3>6. ASSUME NEW r \in Peer, RecvStep(r) \/ PeerBreaks(r)
          PROVE  HeldToCode(t)'
      <4>1. CASE HandOver(r)
        BY <3>1, <3>2, <4>1 DEF HandOver
      <4>2. CASE ~HandOver(r)
        <5>1. CASE RecvHeader(r) \/ RecvCut(r)
          <6>1. stage[t] = "cqueue" /\ UNCHANGED cqueue
            BY <5>1 DEF RecvHeader, RecvCut
          <6> QED BY <3>1, <6>1
        <5>2. UNCHANGED <<stage, cqueue>> \/ RecvHeader(r) \/ RecvCut(r)
          BY <3>6, <4>2
          DEF RecvStep, PassGate, RecvShutdown, RecvEOF, GetBlock, RecvChunk,
              RecvShort, PeerBreaks
        <5> QED BY <3>1, <5>1, <5>2
      <4> QED BY <4>1, <4>2
    <3>7. ASSUME NEW c \in CWorker, ComputeStep(c) PROVE HeldToCode(t)'
      BY <3>1, <3>2, <3>3, <3>7
      DEF ComputeStep, ComputeTake, Encode, Forward, ComputeDrained,
          SealWriters
    <3>8. ASSUME NEW w \in WWorker, WriteStep(w) PROVE HeldToCode(t)'
      BY <3>1, <3>3, <3>8
      DEF WriteStep, WriteTake, WriteFile, ReleaseBlock, WriteDrained
    <3>9. CASE UNCHANGED vars
      BY <3>1, <3>9 DEF vars
    <3> QED
      BY <3>4, <3>5, <3>6, <3>7, <3>8, <3>9 DEF Next
  <2>3. ASSUME stage'[t] = "coding" PROVE HeldCoding(t)'
    <3> USE <2>3 DEF HeldCoding
    <3>1. CASE MainStep
      <4>1. /\ stage[t] = "coding" /\ UNCHANGED ctask
            /\ \A c \in CWorker : cpc[c] \in Computing => cpc'[c] = cpc[c]
        BY <3>1 DEF MainStep, StartServing, JoinReceivers, JoinCompute,
                    JoinWriters, WorkersWait
      <4> QED BY <4>1
    <3>2. CASE MasterStep
      BY <3>2 DEF MasterStep, MasterServed, MasterClosed
    <3>3. ASSUME NEW r \in Peer,
         PassGate(r) \/ RecvHeader(r) \/ RecvShutdown(r) \/ RecvCut(r) \/
         RecvEOF(r) \/ GetBlock(r) \/ RecvChunk(r) \/ RecvShort(r) \/ HandOver(r) \/
         PeerBreaks(r)
         PROVE  HeldCoding(t)'
      BY <3>3 DEF PassGate, RecvHeader, RecvShutdown, RecvCut, RecvEOF, GetBlock, RecvChunk, RecvShort, HandOver, PeerBreaks, FillBuffer
    <3>4. ASSUME NEW c \in CWorker, ComputeTake(c) PROVE HeldCoding(t)'
      BY <3>4 DEF ComputeTake
    <3>5. ASSUME NEW c \in CWorker, Forward(c) PROVE HeldCoding(t)'
      BY <3>5 DEF Forward
    <3>6. ASSUME NEW c \in CWorker,
         Encode(c) \/ ComputeDrained(c) \/ SealWriters(c)
         PROVE  HeldCoding(t)'
      BY <3>6 DEF Encode, ComputeDrained, SealWriters
    <3>7. ASSUME NEW w \in WWorker,
         WriteTake(w) \/ WriteFile(w) \/ ReleaseBlock(w) \/ WriteDrained(w)
         PROVE  HeldCoding(t)'
      BY <3>7 DEF WriteTake, WriteFile, ReleaseBlock, WriteDrained
    <3>8. CASE UNCHANGED vars
      BY <3>8 DEF vars
    <3> QED
      BY <3>1, <3>2, <3>3, <3>4, <3>5, <3>6, <3>7, <3>8
      DEF Next, MainStep, MasterStep, RecvStep, ComputeStep, WriteStep
  <2>4. ASSUME stage'[t] = "wqueue" PROVE HeldToWrite(t)'
    <3> USE <2>4 DEF HeldToWrite
    <3>1. CASE stage[t] = "wqueue" /\ UNCHANGED wqueue
      BY <3>1
    <3>2. ASSUME NEW e \in Task, wqueue' = Append(wqueue, e),
                 stage[t] = "wqueue" \/ t = e
          PROVE  HeldToWrite(t)'
      <4>1. CASE t = e
        BY <3>2, <4>1, PushFacts
      <4>2. CASE stage[t] = "wqueue"
        <5>1. PICK i \in 1..Len(wqueue) : wqueue[i] = t
          BY <4>2
        <5>2. i \in 1..Len(wqueue') /\ wqueue'[i] = t
          BY <3>2, <5>1, PushFacts
        <5> QED BY <5>2
      <4> QED BY <3>2, <4>1, <4>2
    <3>3. ASSUME wqueue # <<>>, wqueue' = Tail(wqueue),
                 stage[t] = "wqueue", t # Head(wqueue)
          PROVE  HeldToWrite(t)'
      <4>1. PICK i \in 1..Len(wqueue) : wqueue[i] = t
        BY <3>3
      <4>2. i - 1 \in 1..Len(wqueue') /\ wqueue'[i - 1] = t
        BY <3>3, <4>1
      <4> QED BY <4>2
    <3>4. CASE MainStep
      BY <3>1, <3>4 DEF MainStep, StartServing, JoinReceivers, JoinCompute,
                        JoinWriters
    <3>5. CASE MasterStep
      BY <3>1, <3>5 DEF MasterStep, MasterServed, MasterClosed
    <3>6. ASSUME NEW r \in Peer, RecvStep(r) \/ PeerBreaks(r)
          PROVE  HeldToWrite(t)'
      <4>1. CASE HandOver(r)
        BY <3>1, <3>2, <4>1 DEF HandOver
      <4>2. CASE ~HandOver(r)
        <5>1. CASE RecvHeader(r) \/ RecvCut(r)
          <6>1. stage[t] = "wqueue" /\ UNCHANGED wqueue
            BY <5>1 DEF RecvHeader, RecvCut
          <6> QED BY <3>1, <6>1
        <5>2. UNCHANGED <<stage, wqueue>> \/ RecvHeader(r) \/ RecvCut(r)
          BY <3>6, <4>2
          DEF RecvStep, PassGate, RecvShutdown, RecvEOF, GetBlock, RecvChunk,
              RecvShort, PeerBreaks
        <5> QED BY <3>1, <5>1, <5>2
      <4> QED BY <4>1, <4>2
    <3>7. ASSUME NEW c \in CWorker, ComputeStep(c) PROVE HeldToWrite(t)'
      BY <3>1, <3>2, <3>3, <3>7
      DEF ComputeStep, ComputeTake, Encode, Forward, ComputeDrained,
          SealWriters
    <3>8. ASSUME NEW w \in WWorker, WriteStep(w) PROVE HeldToWrite(t)'
      BY <3>1, <3>3, <3>8
      DEF WriteStep, WriteTake, WriteFile, ReleaseBlock, WriteDrained
    <3>9. CASE UNCHANGED vars
      BY <3>1, <3>9 DEF vars
    <3> QED
      BY <3>4, <3>5, <3>6, <3>7, <3>8, <3>9 DEF Next
  <2>5. ASSUME stage'[t] = "writing" PROVE HeldWriting(t)'
    <3> USE <2>5 DEF HeldWriting
    <3>1. CASE MainStep
      <4>1. /\ stage[t] = "writing" /\ UNCHANGED wtask
            /\ \A w \in WWorker : wpc[w] \in Writing => wpc'[w] = wpc[w]
        BY <3>1 DEF MainStep, StartServing, JoinReceivers, JoinCompute,
                    JoinWriters, WorkersWait
      <4> QED BY <4>1
    <3>2. CASE MasterStep
      BY <3>2 DEF MasterStep, MasterServed, MasterClosed
    <3>3. ASSUME NEW r \in Peer,
         PassGate(r) \/ RecvHeader(r) \/ RecvShutdown(r) \/ RecvCut(r) \/
         RecvEOF(r) \/ GetBlock(r) \/ RecvChunk(r) \/ RecvShort(r) \/ HandOver(r) \/
         PeerBreaks(r)
         PROVE  HeldWriting(t)'
      BY <3>3 DEF PassGate, RecvHeader, RecvShutdown, RecvCut, RecvEOF, GetBlock, RecvChunk, RecvShort, HandOver, PeerBreaks, FillBuffer
    <3>4. ASSUME NEW c \in CWorker,
         ComputeTake(c) \/ Encode(c) \/ Forward(c) \/ ComputeDrained(c) \/
         SealWriters(c)
         PROVE  HeldWriting(t)'
      BY <3>4 DEF ComputeTake, Encode, Forward, ComputeDrained, SealWriters
    <3>5. ASSUME NEW w \in WWorker, WriteTake(w) PROVE HeldWriting(t)'
      BY <3>5 DEF WriteTake
    <3>6. ASSUME NEW w \in WWorker, ReleaseBlock(w) PROVE HeldWriting(t)'
      BY <3>6 DEF ReleaseBlock
    <3>7. ASSUME NEW w \in WWorker,
         WriteFile(w) \/ WriteDrained(w)
         PROVE  HeldWriting(t)'
      <4>1. /\ stage[t] = "writing" /\ UNCHANGED wtask
            /\ \A v \in WWorker : wpc[v] \in Writing => wpc'[v] \in Writing
        BY <3>7 DEF WriteFile, WriteDrained
      <4> QED BY <4>1
    <3>8. CASE UNCHANGED vars
      BY <3>8 DEF vars
    <3> QED
      BY <3>1, <3>2, <3>3, <3>4, <3>5, <3>6, <3>7, <3>8
      DEF Next, MainStep, MasterStep, RecvStep, ComputeStep, WriteStep
  <2> QED BY <2>1, <2>2, <2>3, <2>4, <2>5
<1> QED BY <1>1, <1>2, TypeCorrect, PTL DEF Spec
-----------------------------------------------------------------------------

\* A record cut short takes the place of one that its peer would have sent.
LEMMA CutFacts ==
    ASSUME TypeOK, NEW r \in Peer, RecvCut(r)
    PROVE  \E t \in Task : /\ Sender[t] = r /\ stage[t] = "sent"
                           /\ stage' = [stage EXCEPT ![t] = "received"]
                           /\ rtask' = [rtask EXCEPT ![r] = t]
                           /\ \A u \in Task : u # t => info'[u] = info[u]
  BY DEF TypeOK, RecvCut

\* A thread with a buffer in hand: its task is the only one with that buffer,
\* and no other thread has the task.
LEMMA InHandFacts ==
    ASSUME TypeOK, Located, EveryBufferOwned
    PROVE  \A x \in InHand :
              /\ x[3] \in Task /\ mem_ptr[x[3]] \in Block
              /\ \A y \in InHand : x[3] = y[3] => x = y
<1> USE DEF TypeOK, Located, Receiving, InOnePlace, HasBuffer, Buffered,
            Computing, Writing
<1>1. \A r \in Peer : rpc[r] \in Buffered =>
         /\ rtask[r] \in Task /\ mem_ptr[rtask[r]] \in Block
         /\ stage[rtask[r]] = "received"
  OBVIOUS
<1>2. \A c \in CWorker : cpc[c] \in Computing =>
         /\ ctask[c] \in Task /\ mem_ptr[ctask[c]] \in Block
         /\ stage[ctask[c]] = "coding"
  OBVIOUS
<1>3. \A w \in WWorker : wpc[w] \in Writing =>
         /\ wtask[w] \in Task /\ mem_ptr[wtask[w]] \in Block
         /\ stage[wtask[w]] = "writing"
  OBVIOUS
<1>4. ASSUME NEW x \in InHand
      PROVE  /\ x[3] \in Task /\ mem_ptr[x[3]] \in Block
             /\ \/ \E r \in Peer : /\ x = <<"receiver", r, rtask[r]>>
                                   /\ rpc[r] \in Buffered
                                   /\ stage[x[3]] = "received"
                \/ \E c \in CWorker : /\ x = <<"computer", c, ctask[c]>>
                                      /\ cpc[c] \in Computing
                                      /\ stage[x[3]] = "coding"
                \/ \E w \in WWorker : /\ x = <<"writer", w, wtask[w]>>
                                      /\ wpc[w] \in Writing
                                      /\ stage[x[3]] = "writing"
  BY <1>1, <1>2, <1>3, <1>4 DEF InHand
<1>5. ASSUME NEW x \in InHand, NEW y \in InHand, x[3] = y[3] PROVE x = y
  <2>1. CASE stage[x[3]] = "received"
    <3>1. PICK r \in Peer : /\ x = <<"receiver", r, rtask[r]>>
                          /\ rpc[r] \in Buffered
      BY <1>4, <1>5, <2>1
    <3>2. PICK r1 \in Peer : /\ y = <<"receiver", r1, rtask[r1]>>
                           /\ rpc[r1] \in Buffered
      BY <1>4, <1>5, <2>1
    <3>3. rtask[r] = rtask[r1]
      BY <1>5, <3>1, <3>2
    <3>4. r = r1
      BY <3>1, <3>2, <3>3
    <3> QED BY <3>1, <3>2, <3>4
  <2>2. CASE stage[x[3]] = "coding"
    <3>1. PICK c \in CWorker : /\ x = <<"computer", c, ctask[c]>>
                          /\ cpc[c] \in Computing
      BY <1>4, <1>5, <2>2
    <3>2. PICK c1 \in CWorker : /\ y = <<"computer", c1, ctask[c1]>>
                           /\ cpc[c1] \in Computing
      BY <1>4, <1>5, <2>2
    <3>3. ctask[c] = ctask[c1]
      BY <1>5, <3>1, <3>2
    <3>4. c = c1
      BY <3>1, <3>2, <3>3
    <3> QED BY <3>1, <3>2, <3>4
  <2>3. CASE stage[x[3]] = "writing"
    <3>1. PICK w \in WWorker : /\ x = <<"writer", w, wtask[w]>>
                          /\ wpc[w] \in Writing
      BY <1>4, <1>5, <2>3
    <3>2. PICK w1 \in WWorker : /\ y = <<"writer", w1, wtask[w1]>>
                           /\ wpc[w1] \in Writing
      BY <1>4, <1>5, <2>3
    <3>3. wtask[w] = wtask[w1]
      BY <1>5, <3>1, <3>2
    <3>4. w = w1
      BY <3>1, <3>2, <3>3
    <3> QED BY <3>1, <3>2, <3>4
  <2> QED BY <1>4, <1>5, <2>1, <2>2, <2>3
<1> QED BY <1>4, <1>5

\* Two threads of the server never have the same buffer in hand, and none has
\* a buffer the pool could give away (memory_pool.cc, mem_ptr's copies).
THEOREM NoSharedBufferHolds == Spec => []NoSharedBuffer
<1>1. TypeOK /\ Located /\ EveryBufferOwned => NoSharedBuffer
  <2> SUFFICES ASSUME TypeOK, Located, EveryBufferOwned, NEW x \in InHand
               PROVE  /\ mem_ptr[x[3]] \in Block \ Elems(free_queue)
                      /\ \A y \in InHand : mem_ptr[x[3]] = mem_ptr[y[3]] => x = y
    BY DEF NoSharedBuffer
  <2>1. x[3] \in Task /\ mem_ptr[x[3]] \in Block
    BY InHandFacts
  <2>2. mem_ptr[x[3]] \notin Elems(free_queue)
    BY <2>1 DEF EveryBufferOwned, Elems
  <2>3. ASSUME NEW y \in InHand, mem_ptr[x[3]] = mem_ptr[y[3]] PROVE x = y
    <3>1. y[3] \in Task /\ mem_ptr[x[3]] # NoBlock
      BY <2>1, InHandFacts, ServerAssumption
      DEF Block, NoBlock, ServerAssumption
    <3>2. x[3] = y[3]
      BY <2>1, <2>3, <3>1 DEF EveryBufferOwned
    <3> QED BY <3>2, InHandFacts
  <2> QED BY <2>1, <2>2, <2>3
<1> QED BY <1>1, TypeCorrect, BuffersOwned, PTL

\* No buffer is lost: one that is not free belongs to a task that is queued or
\* in a thread's hands.
THEOREM NoBufferLostHolds == Spec => []NoBufferLost
<1>1. TypeOK /\ Located /\ EveryBufferOwned /\ EveryTaskHeld => NoBufferLost
  <2> SUFFICES ASSUME TypeOK, Located, EveryBufferOwned, EveryTaskHeld,
                      NEW b \in Block \ Elems(free_queue)
               PROVE  \E t \in Elems(cqueue) \cup Elems(wqueue)
                                 \cup {x[3] : x \in InHand} :
                         mem_ptr[t] = b
    BY DEF NoBufferLost
  <2>1. PICK t \in Task : mem_ptr[t] = b
    BY DEF EveryBufferOwned, Elems
  <2>2. mem_ptr[t] # NoBlock
    BY <2>1, ServerAssumption DEF Block, NoBlock, ServerAssumption
  <2>3. stage[t] \in {"received", "cqueue", "coding", "wqueue", "writing"}
    BY <2>2 DEF TypeOK, Located, HasBuffer
  <2>4. CASE stage[t] = "received"
    <3>1. PICK r \in Peer : rpc[r] \in Buffered /\ rtask[r] = t
      BY <2>2, <2>4
      DEF EveryTaskHeld, HeldReceived, Located, Receiving, Buffered
    <3>2. <<"receiver", r, t>> \in InHand
      BY <3>1 DEF InHand
    <3> QED BY <2>1, <3>2
  <2>5. CASE stage[t] = "coding"
    <3>1. PICK c \in CWorker : cpc[c] \in Computing /\ ctask[c] = t
      BY <2>5 DEF EveryTaskHeld, HeldCoding
    <3>2. <<"computer", c, t>> \in InHand
      BY <3>1 DEF InHand
    <3> QED BY <2>1, <3>2
  <2>6. CASE stage[t] = "writing"
    <3>1. PICK w \in WWorker : wpc[w] \in Writing /\ wtask[w] = t
      BY <2>6 DEF EveryTaskHeld, HeldWriting
    <3>2. <<"writer", w, t>> \in InHand
      BY <3>1 DEF InHand
    <3> QED BY <2>1, <3>2
  <2>7. CASE stage[t] \in {"cqueue", "wqueue"}
    BY <2>1, <2>7 DEF EveryTaskHeld, HeldToCode, HeldToWrite, Elems
  <2> QED BY <2>3, <2>4, <2>5, <2>6, <2>7
<1> QED BY <1>1, TypeCorrect, BuffersOwned, TasksHeld, PTL
-----------------------------------------------------------------------------

\* The order of the joins and of the seals in start_serving and the workers.
SealOrder ==
    /\ cseal => \A r \in Peer : rpc[r] = "closed"
    /\ phase \in {"computing", "writing", "finished"} => cseal
    /\ phase \in {"writing", "finished"} => \A c \in CWorker : cpc[c] = "exited"
    /\ phase = "finished" => \A w \in WWorker : wpc[w] = "exited"
    /\ \A c \in CWorker :
          cpc[c] \in {"drained", "exited"} => cseal /\ cqueue = <<>>
    /\ wseal => \E c \in CWorker : cpc[c] = "exited"
    /\ \A w \in WWorker : wpc[w] = "exited" => wseal
    /\ \A i \in 1..Len(cqueue) : cqueue[i] \in ToCode
    /\ \A c \in CWorker :
          ctask[c] # NoTask => ctask[c] \in ToCode /\ stage[ctask[c]] # "sent"

LEMMA SealsInOrder == Spec => []SealOrder
<1> USE ServerAssumption
    DEF ServerAssumption, main_vars, recv_vars, pool_vars, comp_vars, write_vars
<1>1. Init => SealOrder
  BY DEF Init, SealOrder
<1>2. TypeOK /\ Located /\ SealOrder /\ [Next]_vars => SealOrder'
  <2> SUFFICES ASSUME TypeOK, Located, SealOrder, [Next]_vars
               PROVE  SealOrder'
    OBVIOUS
  <2> USE DEF TypeOK, Located, WorkersWait, SealOrder
  <2>0. UNCHANGED info => UNCHANGED ToCode
    BY DEF ToCode
  <2>1. CASE StartServing
    BY <2>0, <2>1 DEF StartServing
  <2>2. CASE JoinReceivers
    BY <2>0, <2>2 DEF JoinReceivers
  <2>3. CASE JoinCompute
    BY <2>0, <2>3 DEF JoinCompute
  <2>4. CASE JoinWriters
    BY <2>0, <2>4 DEF JoinWriters
  <2>5. CASE MasterServed
    BY <2>0, <2>5 DEF MasterServed
  <2>6. CASE MasterClosed
    BY <2>0, <2>6 DEF MasterClosed
  <2>7. ASSUME NEW r \in Peer, PassGate(r) PROVE SealOrder'
    BY <2>0, <2>7 DEF PassGate
  <2>8. ASSUME NEW r \in Peer, RecvHeader(r) PROVE SealOrder'
    BY <2>0, <2>8 DEF RecvHeader
  <2>9. ASSUME NEW r \in Peer, RecvShutdown(r) PROVE SealOrder'
    BY <2>0, <2>9 DEF RecvShutdown
  <2>10. ASSUME NEW r \in Peer, RecvEOF(r) PROVE SealOrder'
    BY <2>0, <2>10 DEF RecvEOF
  <2>26. ASSUME NEW r \in Peer, RecvCut(r) PROVE SealOrder'
    <3>1. PICK t \in Task : /\ stage[t] = "sent"
                            /\ stage' = [stage EXCEPT ![t] = "received"]
                            /\ \A u \in Task : u # t => info'[u] = info[u]
      BY <2>26, CutFacts
    <3>2. \A u \in Task : stage[u] # "sent" /\ u \in ToCode => u \in ToCode'
      BY <3>1 DEF ToCode
    <3>3. /\ rpc[r] = "header" /\ \A q \in Peer : rpc[q] = "closed" => rpc'[q] = "closed"
          /\ UNCHANGED <<phase, cqueue, cseal, cpc, ctask, wseal, wpc>>
      BY <2>26 DEF RecvCut
    <3>4. \A i \in 1..Len(cqueue) : cqueue[i] \in ToCode'
      <4>1. ASSUME NEW i \in 1..Len(cqueue) PROVE cqueue[i] \in ToCode'
        <5>1. cqueue[i] \in Task /\ cqueue[i] \in ToCode /\ stage[cqueue[i]] = "cqueue"
          BY <4>1 DEF InOnePlace
        <5> QED BY <3>2, <5>1
      <4> QED BY <4>1
    <3>5. \A c \in CWorker : ctask[c] # NoTask =>
             ctask[c] \in ToCode' /\ stage'[ctask[c]] # "sent"
      BY <3>1, <3>2
    <3> QED BY <3>3, <3>4, <3>5
  <2>11. ASSUME NEW r \in Peer, GetBlock(r) PROVE SealOrder'
    BY <2>0, <2>11 DEF GetBlock
  <2>12. ASSUME NEW r \in Peer, RecvChunk(r) PROVE SealOrder'
    BY <2>0, <2>12 DEF RecvChunk, FillBuffer
  <2>13. ASSUME NEW r \in Peer, RecvShort(r) PROVE SealOrder'
    BY <2>0, <2>13 DEF RecvShort, FillBuffer
  <2>14. ASSUME NEW r \in Peer, HandOver(r) PROVE SealOrder'
    <3>1. /\ ~cseal /\ rtask[r] \in Task
          /\ UNCHANGED <<phase, cseal, cpc, ctask, wseal, wpc>> /\ UNCHANGED ToCode
          /\ \A c \in CWorker : ctask[c] # NoTask => stage'[ctask[c]] # "sent"
      <4>1. /\ ~cseal /\ rtask[r] \in Task
            /\ UNCHANGED <<phase, info, cseal, cpc, ctask, wseal, wpc>>
            /\ \/ stage' = [stage EXCEPT ![rtask[r]] = "cqueue"]
               \/ stage' = [stage EXCEPT ![rtask[r]] = "wqueue"]
        BY <2>14 DEF HandOver, Receiving
      <4>2. \A c \in CWorker : ctask[c] # NoTask => stage'[ctask[c]] # "sent"
        BY <4>1
      <4> QED BY <2>0, <4>1, <4>2
    <3>2. CASE rtask[r] \in ToCode
      <4>1. cqueue' = Append(cqueue, rtask[r])
        BY <2>14, <3>2 DEF HandOver
      <4>2. \A i \in 1..Len(cqueue') : cqueue'[i] \in ToCode
        BY <3>1, <3>2, <4>1, PushFacts
      <4> QED BY <3>1, <4>2
    <3>3. CASE rtask[r] \notin ToCode
      <4>1. UNCHANGED cqueue
        BY <2>14, <3>3 DEF HandOver
      <4> QED BY <3>1, <4>1
    <3> QED BY <3>2, <3>3
  <2>15. ASSUME NEW r \in Peer, PeerBreaks(r) PROVE SealOrder'
    BY <2>0, <2>15 DEF PeerBreaks
  <2>16. ASSUME NEW c \in CWorker, ComputeTake(c) PROVE SealOrder'
    BY <2>0, <2>16 DEF ComputeTake
  <2>17. ASSUME NEW c \in CWorker, Encode(c) PROVE SealOrder'
    BY <2>0, <2>17 DEF Encode
  <2>18. ASSUME NEW c \in CWorker, Forward(c) PROVE SealOrder'
    BY <2>0, <2>18 DEF Forward
  <2>19. ASSUME NEW c \in CWorker, ComputeDrained(c) PROVE SealOrder'
    BY <2>0, <2>19 DEF ComputeDrained
  <2>20. ASSUME NEW c \in CWorker, SealWriters(c) PROVE SealOrder'
    BY <2>0, <2>20 DEF SealWriters
  <2>21. ASSUME NEW w \in WWorker, WriteTake(w) PROVE SealOrder'
    BY <2>0, <2>21 DEF WriteTake
  <2>22. ASSUME NEW w \in WWorker, WriteFile(w) PROVE SealOrder'
    BY <2>0, <2>22 DEF WriteFile
  <2>23. ASSUME NEW w \in WWorker, ReleaseBlock(w) PROVE SealOrder'
    BY <2>0, <2>23 DEF ReleaseBlock
  <2>24. ASSUME NEW w \in WWorker, WriteDrained(w) PROVE SealOrder'
    BY <2>0, <2>24 DEF WriteDrained
  <2>25. CASE UNCHANGED vars
    BY <2>0, <2>25 DEF vars
  <2> QED
    BY <2>1, <2>2, <2>3, <2>4, <2>5, <2>6, <2>7, <2>8, <2>9, <2>10,
       <2>11, <2>12, <2>13, <2>14, <2>15, <2>16, <2>17, <2>18, <2>19,
       <2>20, <2>21, <2>22, <2>23, <2>24, <2>25, <2>26
    DEF Next, MainStep, MasterStep, RecvStep, ComputeStep, WriteStep
<1> QED BY <1>1, <1>2, TypeCorrect, PTL DEF Spec

\* Once a writer has left, what is still queued for the writers is what compute
\* workers other than the one that sealed first forwarded last.
LateForwards ==
    (\E w \in WWorker : wpc[w] = "exited") =>
        \E c0 \in CWorker :
            /\ cpc[c0] = "exited"
            /\ \A i \in 1..Len(wqueue) :
                  \E c \in CWorker \ {c0} : wqueue[i] = ctask[c]

LEMMA LateForwardsHolds == Spec => []LateForwards
<1> USE ServerAssumption
    DEF ServerAssumption, main_vars, recv_vars, pool_vars, comp_vars, write_vars
<1>1. Init => LateForwards
  BY DEF Init, LateForwards
<1>2. TypeOK /\ Located /\ SealOrder /\ LateForwards /\ [Next]_vars
         => LateForwards'
  <2> SUFFICES ASSUME TypeOK, Located, SealOrder, LateForwards, [Next]_vars,
                      \E w \in WWorker : wpc'[w] = "exited"
               PROVE  \E c0 \in CWorker :
                         /\ cpc'[c0] = "exited"
                         /\ \A i \in 1..Len(wqueue') :
                               \E c \in CWorker \ {c0} : wqueue'[i] = ctask'[c]
    BY DEF LateForwards
  <2> DEFINE Goal == \E c0 \in CWorker :
                         /\ cpc'[c0] = "exited"
                         /\ \A i \in 1..Len(wqueue') :
                               \E c \in CWorker \ {c0} : wqueue'[i] = ctask'[c]
  <2> USE DEF TypeOK
  <2>1. ASSUME NEW w \in WWorker, WriteDrained(w) PROVE Goal
    <3>1. wqueue' = <<>> /\ UNCHANGED cpc /\ \E c \in CWorker : cpc[c] = "exited"
      BY <2>1 DEF WriteDrained, SealOrder
    <3> QED BY <3>1
  <2>2. CASE \E w \in WWorker : wpc[w] = "exited"
    <3>1. PICK c0 \in CWorker :
             /\ cpc[c0] = "exited"
             /\ \A i \in 1..Len(wqueue) :
                   \E c \in CWorker \ {c0} : wqueue[i] = ctask[c]
      BY <2>2 DEF LateForwards
    <3>2. cqueue = <<>> /\ \A r \in Peer : rpc[r] = "closed"
      BY <3>1 DEF SealOrder
    <3>3. CASE UNCHANGED <<cpc, ctask, wqueue>>
      <4>1. \A i \in 1..Len(wqueue') : \E c \in CWorker \ {c0} : wqueue'[i] = ctask'[c]
        BY <3>1, <3>3
      <4> QED BY <3>1, <3>3, <4>1
    <3>4. ASSUME NEW c \in CWorker, Forward(c) PROVE Goal
      <4>1. /\ c # c0 /\ ctask[c] \in Task
            /\ cpc'[c0] = "exited" /\ UNCHANGED ctask
            /\ wqueue' = Append(wqueue, ctask[c])
        BY <3>1, <3>4 DEF Forward, Located, InOnePlace, Computing
      <4>2. \A i \in 1..Len(wqueue') :
               wqueue'[i] = ctask[c] \/ (i \in 1..Len(wqueue)
                                         /\ wqueue'[i] = wqueue[i])
        BY <4>1, PushFacts
      <4>3. \A i \in 1..Len(wqueue') :
               \E d \in CWorker \ {c0} : wqueue'[i] = ctask'[d]
        BY <3>1, <4>1, <4>2
      <4> QED BY <4>1, <4>3
    <3>5. ASSUME NEW c \in CWorker, ComputeStep(c), ~Forward(c) PROVE Goal
      <4>1. UNCHANGED <<ctask, wqueue>> /\ cpc'[c0] = "exited"
        BY <3>1, <3>2, <3>5
        DEF ComputeStep, ComputeTake, Encode, ComputeDrained, SealWriters
      <4> QED BY <3>1, <4>1
    <3>6. ASSUME NEW w \in WWorker, WriteTake(w) PROVE Goal
      <4>1. /\ UNCHANGED <<cpc, ctask>>
            /\ wqueue # <<>> /\ wqueue' = Tail(wqueue)
        BY <3>6 DEF WriteTake
      <4>2. \A i \in 1..Len(wqueue') :
               i + 1 \in 1..Len(wqueue) /\ wqueue'[i] = wqueue[i + 1]
        BY <4>1
      <4> QED BY <3>1, <4>1, <4>2
    <3>7. ASSUME NEW w \in WWorker, WriteStep(w), ~WriteTake(w) PROVE Goal
      BY <3>3, <3>7 DEF WriteStep, WriteFile, ReleaseBlock, WriteDrained
    <3>8. ASSUME NEW r \in Peer, RecvStep(r) \/ PeerBreaks(r) PROVE Goal
      BY <3>2, <3>3, <3>8
      DEF RecvStep, PassGate, RecvHeader, RecvShutdown, RecvCut, RecvEOF, GetBlock,
          RecvChunk, RecvShort, HandOver, PeerBreaks
    <3>9. CASE MainStep
      <4>1. ~StartServing
        BY <3>1 DEF StartServing, Located, WorkersWait
      <4> QED
        BY <3>3, <3>9, <4>1
        DEF MainStep, JoinReceivers, JoinCompute, JoinWriters
    <3>10. CASE MasterStep
      BY <3>3, <3>10 DEF MasterStep, MasterServed, MasterClosed
    <3>11. CASE UNCHANGED vars
      BY <3>3, <3>11 DEF vars
    <3> QED
      BY <3>4, <3>5, <3>6, <3>7, <3>8, <3>9, <3>10, <3>11 DEF Next
  <2>3. ASSUME \A w \in WWorker : wpc[w] # "exited"
        PROVE  \E w \in WWorker : WriteDrained(w)
    <3>1. ASSUME NEW w \in WWorker, WriteStep(w), ~WriteDrained(w)
          PROVE  FALSE
      BY <2>3, <3>1 DEF WriteStep, WriteTake, WriteFile, ReleaseBlock
    <3>2. CASE MainStep
      BY <2>3, <3>2 DEF MainStep, StartServing, JoinReceivers, JoinCompute,
                        JoinWriters
    <3>3. CASE MasterStep
      BY <2>3, <3>3 DEF MasterStep, MasterServed, MasterClosed
    <3>4. ASSUME NEW r \in Peer, RecvStep(r) \/ PeerBreaks(r) PROVE FALSE
      BY <2>3, <3>4
      DEF RecvStep, PassGate, RecvHeader, RecvShutdown, RecvCut, RecvEOF, GetBlock,
          RecvChunk, RecvShort, HandOver, PeerBreaks
    <3>5. ASSUME NEW c \in CWorker, ComputeStep(c) PROVE FALSE
      BY <2>3, <3>5 DEF ComputeStep, ComputeTake, Encode, Forward,
                        ComputeDrained, SealWriters
    <3>6. CASE UNCHANGED vars
      BY <2>3, <3>6 DEF vars
    <3> QED
      BY <3>1, <3>2, <3>3, <3>4, <3>5, <3>6 DEF Next
  <2> QED BY <2>1, <2>2, <2>3
<1> QED BY <1>1, <1>2, TypeCorrect, SealsInOrder, PTL DEF Spec

\* What the invariants say of the tasks left when start_serving returns.
LEMMA StrandedFacts ==
    TypeOK /\ Located /\ EveryTaskHeld /\ SealOrder /\ LateForwards
       => (phase = "finished" =>
              /\ IsFiniteSet(Stranded)
              /\ Stranded \subseteq ToCode
              /\ Cardinality(Stranded) < Cardinality(CWorker))
<1> SUFFICES ASSUME TypeOK, Located, EveryTaskHeld, SealOrder, LateForwards,
                    phase = "finished"
             PROVE  /\ IsFiniteSet(Stranded)
                    /\ Stranded \subseteq ToCode
                    /\ Cardinality(Stranded) < Cardinality(CWorker)
  OBVIOUS
<1> USE ServerAssumption DEF ServerAssumption, TypeOK
<1>1. /\ \A r \in Peer : rpc[r] = "closed"
      /\ \A c \in CWorker : cpc[c] = "exited"
      /\ \A w \in WWorker : wpc[w] = "exited"
      /\ cqueue = <<>>
  BY DEF SealOrder
<1>2. ASSUME NEW t \in Stranded
      PROVE  \E i \in 1..Len(wqueue) : wqueue[i] = t
  <2>1. t \in Task /\ stage[t] \notin {"sent", "written"}
    BY <1>2 DEF Stranded
  <2>2. stage[t] \in {"received", "cqueue", "coding", "wqueue", "writing"}
    BY <2>1
  <2>3. stage[t] = "wqueue"
    BY <1>1, <2>1, <2>2
    DEF EveryTaskHeld, HeldReceived, HeldToCode, HeldCoding, HeldWriting,
        Computing, Writing
  <2> QED BY <2>1, <2>3 DEF EveryTaskHeld, HeldToWrite
<1>3. PICK c0 \in CWorker :
         \A i \in 1..Len(wqueue) :
            \E c \in CWorker \ {c0} : wqueue[i] = ctask[c]
  BY <1>1 DEF LateForwards
<1> DEFINE Late == {c \in CWorker \ {c0} : ctask[c] \in Stranded}
           last == [c \in Late |-> ctask[c]]
<1>4. \A t \in Stranded : \E c \in Late : ctask[c] = t
  BY <1>2, <1>3
<1>5. last \in Surjection(Late, Stranded)
  BY <1>4 DEF Surjection
<1>6. /\ IsFiniteSet(CWorker \ {c0})
      /\ Cardinality(CWorker \ {c0}) = Cardinality(CWorker) - 1
      /\ Cardinality(CWorker) \in Nat
  BY FS_RemoveElement, FS_CardinalityType
<1>7. IsFiniteSet(Late) /\ Cardinality(Late) <= Cardinality(CWorker \ {c0})
  BY <1>6, FS_Subset
<1>8. Cardinality(Stranded) <= Cardinality(Late)
  BY <1>5, <1>7, FS_Surjection
<1>9. /\ IsFiniteSet(Stranded)
      /\ Cardinality(Stranded) \in Nat /\ Cardinality(Late) \in Nat
  BY <1>5, <1>7, FS_Surjection, FS_CardinalityType
<1>10. Cardinality(Stranded) < Cardinality(CWorker)
  BY <1>6, <1>7, <1>8, <1>9
<1>11. Stranded \subseteq ToCode
  <2>1. \A t \in Stranded : t \in Task /\ \E c \in CWorker : ctask[c] = t
    BY <1>4 DEF Stranded
  <2>2. NoTask \notin Task
    OBVIOUS
  <2> QED BY <2>1, <2>2 DEF SealOrder
<1> QED BY <1>9, <1>10, <1>11

\* When start_serving returns, the chunks received and not written number less
\* than the compute workers, and the records of all of them asked for encoding;
\* with a single compute worker there is none (compute_worker.cc:36,
\* tcp_server.cc:141-143).
THEOREM StrandedBoundHolds == Spec => []StrandedBound
<1>1. TypeOK /\ Located /\ EveryTaskHeld /\ SealOrder /\ LateForwards
         => StrandedBound
  BY StrandedFacts DEF StrandedBound
<1> QED
  BY <1>1, TypeCorrect, TasksHeld, SealsInOrder, LateForwardsHolds, PTL

\* With one compute worker, as a server has by default (tcp_server.hh), every
\* chunk received is in its file when start_serving returns.
THEOREM OneCoderWritesAll ==
    ASSUME Cardinality(CWorker) = 1 PROVE Spec => []AllWritten
<1>1. TypeOK /\ Located /\ EveryTaskHeld /\ SealOrder /\ LateForwards
         => AllWritten
  <2> SUFFICES ASSUME IsFiniteSet(Stranded),
                      Cardinality(Stranded) < Cardinality(CWorker)
               PROVE  Stranded = {}
    BY StrandedFacts DEF AllWritten
  <2>1. Cardinality(Stranded) = 0
    BY FS_CardinalityType
  <2> QED BY <2>1, FS_EmptySet
<1> QED
  BY <1>1, TypeCorrect, TasksHeld, SealsInOrder, LateForwardsHolds, PTL

-----------------------------------------------------------------------------

\* The tasks whose chunk is in their buffer and not yet released.
Filled == {t \in Task :
              \/ stage[t] \in {"cqueue", "coding", "wqueue", "writing"}
              \/ \E r \in Peer : rpc[r] = "hand" /\ rtask[r] = t}

\* A filled buffer holds its own task's chunk, encoded if the record asks for it,
\* and a file holds the chunk of a record that names it.
RightChunk ==
    /\ \A t \in Filled : chunk[mem_ptr[t]].task = t
    /\ \A r \in Peer :
          rpc[r] = "hand" => chunk[mem_ptr[rtask[r]]].coded = FALSE
    /\ \A t \in Task : stage[t] \in {"cqueue", "coding"} => t \in ToCode
    /\ \A c \in CWorker :
          cpc[c] = "forward" => chunk[mem_ptr[ctask[c]]].coded = TRUE
    /\ \A t \in Task :
          stage[t] \in {"wqueue", "writing"} =>
             chunk[mem_ptr[t]].coded = (t \in ToCode)
    /\ \A t \in Task :
          store[t] # NoData =>
             /\ info[store[t].task].store_fn = t
             /\ store[t].coded = (store[t].task \in ToCode)
             /\ stage[store[t].task] \in {"writing", "written"}

LEMMA ChunksRight == Spec => []RightChunk
<1> USE ServerAssumption, NoDataAssumption
    DEF ServerAssumption, NoDataAssumption, main_vars, recv_vars, pool_vars,
        comp_vars, write_vars, Computing, Writing, Buffered, Block, NoBlock
<1>1. Init => RightChunk
  BY DEF Init, RightChunk, Filled
<1>2. TypeOK /\ Located /\ EveryBufferOwned /\ RightChunk /\ [Next]_vars
         => RightChunk'
  <2> SUFFICES ASSUME TypeOK, Located, EveryBufferOwned, RightChunk, [Next]_vars
               PROVE  RightChunk'
    OBVIOUS
  <2> USE DEF TypeOK, Located, Receiving, InOnePlace, HasBuffer,
              EveryBufferOwned, RightChunk, Filled
  <2>0. UNCHANGED info => UNCHANGED ToCode
    BY DEF ToCode
  <2>27. \A t \in Task : store[t] # NoData => store[t].task \in Task
    BY DEF Data
  <2>1. CASE StartServing
    BY <2>0, <2>27, <2>1 DEF StartServing
  <2>2. CASE JoinReceivers
    BY <2>0, <2>27, <2>2 DEF JoinReceivers
  <2>3. CASE JoinCompute
    BY <2>0, <2>27, <2>3 DEF JoinCompute
  <2>4. CASE JoinWriters
    BY <2>0, <2>27, <2>4 DEF JoinWriters
  <2>5. CASE MasterServed
    BY <2>0, <2>27, <2>5 DEF MasterServed
  <2>6. CASE MasterClosed
    BY <2>0, <2>27, <2>6 DEF MasterClosed
  <2>7. ASSUME NEW r \in Peer, PassGate(r) PROVE RightChunk'
    BY <2>0, <2>27, <2>7 DEF PassGate
  <2>8. ASSUME NEW r \in Peer, RecvHeader(r) PROVE RightChunk'
    BY <2>0, <2>27, <2>8 DEF RecvHeader
  <2>9. ASSUME NEW r \in Peer, RecvShutdown(r) PROVE RightChunk'
    BY <2>0, <2>27, <2>9 DEF RecvShutdown
  <2>10. ASSUME NEW r \in Peer, RecvEOF(r) PROVE RightChunk'
    BY <2>0, <2>27, <2>10 DEF RecvEOF
  <2>28. ASSUME NEW r \in Peer, RecvCut(r) PROVE RightChunk'
    <3>1. PICK t \in Task : /\ stage[t] = "sent"
                            /\ stage' = [stage EXCEPT ![t] = "received"]
                            /\ rtask' = [rtask EXCEPT ![r] = t]
                            /\ \A u \in Task : u # t => info'[u] = info[u]
      BY <2>28, CutFacts
    <3>2. /\ rpc' = [rpc EXCEPT ![r] = "block"]
          /\ UNCHANGED <<chunk, mem_ptr, cpc, ctask, store>>
      BY <2>28 DEF RecvCut
    <3>3. \A u \in Task : u # t => /\ stage'[u] = stage[u]
                                   /\ (u \in ToCode') = (u \in ToCode)
      BY <3>1 DEF ToCode
    <3>4. \A u \in Filled' : u \in Filled
      BY <3>1, <3>2
    <3>5. \A q \in Peer : rpc'[q] = "hand" => rpc[q] = "hand" /\ rtask'[q] = rtask[q]
      BY <3>1, <3>2
    <3>6. \A u \in Task : stage'[u] # "received" => u # t
      BY <3>1
    <3>7. \A u \in Task : stage'[u] \in {"cqueue", "coding"} => u \in ToCode'
      BY <3>3, <3>6
    <3>8. ASSUME NEW u \in Task, stage'[u] \in {"wqueue", "writing"}
          PROVE  chunk'[mem_ptr'[u]].coded = (u \in ToCode')
      <4>1. u # t
        BY <3>6, <3>8
      <4>2. stage[u] \in {"wqueue", "writing"} /\ (u \in ToCode') = (u \in ToCode)
        BY <3>3, <3>8, <4>1
      <4> QED BY <3>2, <4>2
    <3>9. ASSUME NEW f \in Task, store'[f] # NoData
          PROVE  /\ info'[store'[f].task].store_fn = f
                 /\ store'[f].coded = (store'[f].task \in ToCode')
                 /\ stage'[store'[f].task] \in {"writing", "written"}
      <4>0. store'[f] = store[f] /\ store[f] # NoData
        BY <3>2, <3>9
      <4>2. /\ info[store[f].task].store_fn = f
            /\ store[f].coded = (store[f].task \in ToCode)
            /\ stage[store[f].task] \in {"writing", "written"}
        BY ONLY <4>0, RightChunk, f \in Task DEF RightChunk
      <4>1. store[f].task \in Task /\ store[f].task # t
        <5>1. store[f].task \in Task
          BY ONLY <2>27, <4>0, f \in Task
        <5>2. stage[store[f].task] # stage[t]
          BY ONLY <3>1, <4>2
        <5> QED BY ONLY <5>1, <5>2
      <4>3. /\ info'[store[f].task] = info[store[f].task]
            /\ (store[f].task \in ToCode') = (store[f].task \in ToCode)
            /\ stage'[store[f].task] = stage[store[f].task]
        BY <3>1, <3>3, <4>1
      <4> QED BY <3>2, <4>2, <4>3
    <3> QED BY <3>2, <3>4, <3>5, <3>7, <3>8, <3>9
  <2>11. ASSUME NEW r \in Peer, GetBlock(r) PROVE RightChunk'
    BY <2>0, <2>27, <2>11 DEF GetBlock
  <2>26. ASSUME NEW r \in Peer, NEW whole \in BOOLEAN, FillBuffer(r, whole),
                rpc[r] = "chunk", rpc' = [rpc EXCEPT ![r] = "hand"],
                UNCHANGED <<rtask, info, mem_ptr, cpc, ctask, stage, store>>
         PROVE  RightChunk'
    <3>1. /\ rtask[r] \in Task /\ stage[rtask[r]] = "received"
          /\ mem_ptr[rtask[r]] \in Block
      BY <2>26
    <3>2. /\ chunk'[mem_ptr[rtask[r]]].task = rtask[r]
          /\ chunk'[mem_ptr[rtask[r]]].coded = FALSE
          /\ \A t \in Task : t # rtask[r] =>
                chunk'[mem_ptr[t]] = chunk[mem_ptr[t]]
      BY <2>26, <3>1 DEF FillBuffer
    <3>3. \A t \in Task : t \in Filled' <=> t \in Filled \/ t = rtask[r]
      BY <2>26, <3>1
    <3>4. \A t \in Filled' : chunk'[mem_ptr'[t]].task = t
      BY <2>26, <3>2, <3>3
    <3>5. \A q \in Peer :
             rpc'[q] = "hand" => chunk'[mem_ptr'[rtask'[q]]].coded = FALSE
      BY <2>26, <3>1, <3>2
    <3>6. \A t \in Task : stage[t] # "received" => t # rtask[r]
      BY <3>1
    <3>7. \A c \in CWorker :
             cpc'[c] = "forward" => chunk'[mem_ptr'[ctask'[c]]].coded = TRUE
      <4>1. ASSUME NEW c \in CWorker, cpc'[c] = "forward"
            PROVE  chunk'[mem_ptr'[ctask'[c]]].coded = TRUE
        <5>1. ctask[c] \in Task /\ ctask[c] # rtask[r]
          BY <2>26, <3>6, <4>1
        <5>2. chunk'[mem_ptr'[ctask'[c]]] = chunk[mem_ptr[ctask[c]]]
          BY <2>26, <3>2, <5>1
        <5>3. chunk[mem_ptr[ctask[c]]].coded = TRUE
          BY <2>26, <4>1
        <5> QED BY <5>2, <5>3
      <4> QED BY <4>1
    <3>8. \A t \in Task : stage'[t] \in {"wqueue", "writing"} =>
             chunk'[mem_ptr'[t]].coded = (t \in ToCode')
      <4>1. ASSUME NEW t \in Task, stage'[t] \in {"wqueue", "writing"}
            PROVE  chunk'[mem_ptr'[t]] = chunk[mem_ptr[t]] /\ stage'[t] = stage[t]
        BY <2>26, <3>2, <3>6, <4>1
      <4> QED BY <2>0, <2>26, <4>1
    <3> QED BY <2>0, <2>26, <3>4, <3>5, <3>7, <3>8
  <2>12. ASSUME NEW r \in Peer, RecvChunk(r) PROVE RightChunk'
    BY <2>12, <2>26 DEF RecvChunk
  <2>13. ASSUME NEW r \in Peer, RecvShort(r) PROVE RightChunk'
    BY <2>13, <2>26 DEF RecvShort
  <2>14. ASSUME NEW r \in Peer, HandOver(r) PROVE RightChunk'
    <3>1. /\ rtask[r] \in Task /\ stage[rtask[r]] = "received"
          /\ rtask[r] \in Filled
          /\ chunk[mem_ptr[rtask[r]]].coded = FALSE
          /\ UNCHANGED <<rtask, info, mem_ptr, chunk, cpc, ctask, store>>
          /\ \A q \in Peer : rpc'[q] = "hand" => rpc[q] = "hand"
      BY <2>0, <2>27, <2>14 DEF HandOver
    <3>2. /\ \A t \in Task : t # rtask[r] => stage'[t] = stage[t]
          /\ stage'[rtask[r]] = (IF rtask[r] \in ToCode THEN "cqueue"
                                                       ELSE "wqueue")
      BY <2>14, <3>1 DEF HandOver
    <3>3. \A t \in Filled' : t \in Filled
      BY <3>1, <3>2
    <3>4. \A t \in Task : stage'[t] \in {"wqueue", "writing"} =>
             chunk[mem_ptr[t]].coded = (t \in ToCode)
      <4>1. ASSUME NEW t \in Task, stage'[t] \in {"wqueue", "writing"}
            PROVE  chunk[mem_ptr[t]].coded = (t \in ToCode)
        <5>1. CASE t = rtask[r]
          <6>1. (t \in ToCode) = FALSE
            BY <3>2, <4>1, <5>1
          <6>2. chunk[mem_ptr[t]].coded = FALSE
            BY <3>1, <5>1
          <6> QED BY <6>1, <6>2, Zenon
        <5>2. CASE t # rtask[r]
          BY <3>2, <4>1, <5>2
        <5> QED BY <5>1, <5>2
      <4> QED BY <4>1
    <3>5. \A t \in Task : stage'[t] \in {"cqueue", "coding"} => t \in ToCode
      BY <3>1, <3>2
    <3>9. \A f \in Task : store[f] # NoData =>
             store[f].task # rtask[r] /\ stage'[store[f].task] = stage[store[f].task]
      BY <2>27, <3>1, <3>2
    <3> QED BY <2>0, <2>27, <3>1, <3>3, <3>4, <3>5, <3>9
  <2>15. ASSUME NEW r \in Peer, PeerBreaks(r) PROVE RightChunk'
    BY <2>0, <2>27, <2>15 DEF PeerBreaks
  <2>16. ASSUME NEW c \in CWorker, ComputeTake(c) PROVE RightChunk'
    BY <2>0, <2>27, <2>16 DEF ComputeTake
  <2>17. ASSUME NEW c \in CWorker, Encode(c) PROVE RightChunk'
    <3>1. /\ ctask[c] \in Task /\ stage[ctask[c]] = "coding"
          /\ mem_ptr[ctask[c]] \in Block
          /\ chunk[mem_ptr[ctask[c]]] \in Data
          /\ chunk' = [chunk EXCEPT ![mem_ptr[ctask[c]]].coded = TRUE]
          /\ cpc' = [cpc EXCEPT ![c] = "forward"]
          /\ UNCHANGED <<rpc, rtask, info, mem_ptr, ctask, store, stage>>
      BY <2>0, <2>27, <2>17 DEF Encode
    <3>2. /\ chunk'[mem_ptr[ctask[c]]].task = ctask[c]
          /\ chunk'[mem_ptr[ctask[c]]].coded = TRUE
      <4>1. chunk'[mem_ptr[ctask[c]]]
               = [chunk[mem_ptr[ctask[c]]] EXCEPT !.coded = TRUE]
        BY <3>1
      <4>2. chunk[mem_ptr[ctask[c]]].task = ctask[c]
        BY <3>1
      <4> QED BY <3>1, <4>1, <4>2 DEF Data
    <3>3. \A t \in Task : t # ctask[c] => chunk'[mem_ptr[t]] = chunk[mem_ptr[t]]
      BY <3>1
    <3>4. \A t \in Filled' : chunk'[mem_ptr'[t]].task = t
      BY <3>1, <3>2, <3>3
    <3>5. \A q \in Peer :
             rpc'[q] = "hand" => chunk'[mem_ptr'[rtask'[q]]].coded = FALSE
      <4>1. \A q \in Peer : rpc'[q] = "hand" =>
               /\ rtask'[q] \in Task /\ rtask'[q] # ctask[c]
               /\ chunk[mem_ptr[rtask'[q]]].coded = FALSE
        BY <3>1
      <4> QED BY <3>1, <3>3, <4>1
    <3>6. \A d \in CWorker :
             cpc'[d] = "forward" => chunk'[mem_ptr'[ctask'[d]]].coded = TRUE
      <4>1. \A d \in CWorker : d # c /\ cpc'[d] = "forward" =>
                 cpc[d] = "forward" /\ ctask[d] \in Task /\ ctask[d] # ctask[c]
        BY <2>17, <3>1 DEF Encode
      <4> QED BY <3>1, <3>2, <3>3, <4>1
    <3>7. \A t \in Task : stage'[t] \in {"wqueue", "writing"} =>
             chunk'[mem_ptr'[t]].coded = (t \in ToCode')
      <4>1. ASSUME NEW t \in Task, stage'[t] \in {"wqueue", "writing"}
            PROVE  /\ chunk'[mem_ptr'[t]].coded = (t \in ToCode)
                   /\ stage'[t] = stage[t]
        <5>1. stage'[t] = stage[t] /\ mem_ptr'[t] = mem_ptr[t]
          BY <3>1
        <5>2. t # ctask[c]
          BY <3>1, <4>1, <5>1
        <5>3. chunk[mem_ptr[t]].coded = (t \in ToCode)
          BY <4>1, <5>1
        <5> QED BY <3>3, <5>1, <5>2, <5>3
      <4>2. UNCHANGED ToCode
        BY <2>0, <3>1
      <4> QED BY <4>1, <4>2
    <3>8. /\ \A t \in Task : stage'[t] \in {"cqueue", "coding"} => t \in ToCode'
          /\ \A f \in Task : store'[f] # NoData =>
                /\ info'[store'[f].task].store_fn = f
                /\ store'[f].coded = (store'[f].task \in ToCode')
                /\ stage'[store'[f].task] \in {"writing", "written"}
      BY <2>0, <3>1
    <3> HIDE DEF Filled
    <3> QED BY <3>4, <3>5, <3>6, <3>7, <3>8
  <2>18. ASSUME NEW c \in CWorker, Forward(c) PROVE RightChunk'
    <3>1. /\ ctask[c] \in Task /\ ctask[c] \in ToCode
          /\ stage[ctask[c]] = "coding"
          /\ chunk[mem_ptr[ctask[c]]].coded = TRUE
          /\ stage' = [stage EXCEPT ![ctask[c]] = "wqueue"]
          /\ cpc' = [cpc EXCEPT ![c] = "ready"]
          /\ UNCHANGED <<rpc, rtask, info, mem_ptr, chunk, ctask, store>>
      BY <2>0, <2>27, <2>18 DEF Forward
    <3>2. \A t \in Filled' : t \in Filled
      BY <3>1
    <3>3. \A t \in Task : stage'[t] \in {"wqueue", "writing"} =>
             chunk[mem_ptr[t]].coded = (t \in ToCode)
      <4>1. ASSUME NEW t \in Task, stage'[t] \in {"wqueue", "writing"}
            PROVE  chunk[mem_ptr[t]].coded = (t \in ToCode)
        <5>1. CASE t = ctask[c]
          BY <3>1, <5>1
        <5>2. CASE t # ctask[c]
          BY <3>1, <4>1, <5>2
        <5> QED BY <5>1, <5>2
      <4> QED BY <4>1
    <3>4. \A t \in Task : stage'[t] \in {"cqueue", "coding"} => t \in ToCode
      BY <3>1
    <3>9. \A f \in Task : store[f] # NoData =>
             store[f].task # ctask[c] /\ stage'[store[f].task] = stage[store[f].task]
      BY <2>27, <3>1
    <3> QED BY <2>0, <2>27, <3>1, <3>2, <3>3, <3>4, <3>9
  <2>19. ASSUME NEW c \in CWorker, ComputeDrained(c) PROVE RightChunk'
    BY <2>0, <2>27, <2>19 DEF ComputeDrained
  <2>20. ASSUME NEW c \in CWorker, SealWriters(c) PROVE RightChunk'
    BY <2>0, <2>27, <2>20 DEF SealWriters
  <2>21. ASSUME NEW w \in WWorker, WriteTake(w) PROVE RightChunk'
    BY <2>0, <2>27, <2>21 DEF WriteTake
  <2>22. ASSUME NEW w \in WWorker, WriteFile(w) PROVE RightChunk'
    <3> DEFINE u == wtask[w]
               d == chunk[mem_ptr[u]]
    <3>1. /\ u \in Task /\ stage[u] = "writing" /\ d \in Data
          /\ store' = [t \in Task |-> IF t = info[u].store_fn THEN d ELSE store[t]]
          /\ UNCHANGED <<rpc, rtask, info, mem_ptr, chunk, cpc, ctask, stage>>
      BY <2>22 DEF WriteFile
    <3>2. d.task = u /\ d.coded = (u \in ToCode)
      BY <3>1
    <3>3. ASSUME NEW f \in Task, store'[f] # NoData
          PROVE  /\ info[store'[f].task].store_fn = f
                 /\ store'[f].coded = (store'[f].task \in ToCode)
                 /\ stage[store'[f].task] \in {"writing", "written"}
      <4>1. CASE f = info[u].store_fn
        <5>1. store'[f] = d
          BY <3>1, <4>1
        <5> QED BY <3>1, <3>2, <4>1, <5>1
      <4>2. CASE f # info[u].store_fn
        <5>1. store'[f] = store[f]
          BY <3>1, <4>2
        <5> QED BY <3>3, <5>1
      <4> QED BY <4>1, <4>2
    <3> HIDE DEF u, d
    <3> QED BY <2>0, <3>1, <3>3
  <2>23. ASSUME NEW w \in WWorker, ReleaseBlock(w) PROVE RightChunk'
    BY <2>0, <2>27, <2>23 DEF ReleaseBlock
  <2>24. ASSUME NEW w \in WWorker, WriteDrained(w) PROVE RightChunk'
    BY <2>0, <2>27, <2>24 DEF WriteDrained
  <2>25. CASE UNCHANGED vars
    BY <2>0, <2>27, <2>25 DEF vars
  <2> QED
    BY <2>1, <2>2, <2>3, <2>4, <2>5, <2>6, <2>7, <2>8, <2>9, <2>10,
       <2>11, <2>12, <2>13, <2>14, <2>15, <2>16, <2>17, <2>18, <2>19,
       <2>20, <2>21, <2>22, <2>23, <2>24, <2>25, <2>28
    DEF Next, MainStep, MasterStep, RecvStep, ComputeStep, WriteStep
<1> QED BY <1>1, <1>2, TypeCorrect, BuffersOwned, PTL DEF Spec
\* A record cut short, and a chunk cut short, in its buffer or in a file.
Cut(t) == info[t] # Header(t)
TornIn(t, f) == store[f] # NoData /\ store[f].task = t /\ store[f].whole = FALSE
Torn(t) ==
    \/ t \in Filled /\ chunk[mem_ptr[t]].whole = FALSE
    \/ \E f \in Task : TornIn(t, f)
Spoilt(t) == Cut(t) \/ Torn(t)

\* A connection spoils one task at most, and has ended then: a record that was
\* cut short is that of the last chunk, of which nothing can follow.
OneSpoilt ==
    /\ \A t \in Task : Spoilt(t) =>
          /\ link[Sender[t]] = "ended"
          /\ \A u \in Task : Sender[u] = Sender[t] /\ Spoilt(u) => u = t
    /\ \A r \in Peer : rpc[r] \in {"block", "chunk"} /\ link[r] = "ended" =>
          \A t \in Task : Sender[t] = r /\ Spoilt(t) => t = rtask[r]
    /\ \A t \in Filled : chunk[mem_ptr[t]].whole = TRUE => ~Cut(t)
    /\ \A f \in Task :
          store[f] # NoData /\ store[f].whole = TRUE => ~Cut(store[f].task)
    /\ \A t \in Task : Cut(t) => stage[t] # "sent"

LEMMA OneSpoiltHolds == Spec => []OneSpoilt
<1> USE ServerAssumption, NoDataAssumption
    DEF ServerAssumption, NoDataAssumption, main_vars, recv_vars, pool_vars,
        comp_vars, write_vars, Computing, Writing, Buffered, Block, NoBlock
<1>1. Init => OneSpoilt
  BY DEF Init, OneSpoilt, Spoilt, Cut, Torn, TornIn, Filled
<1>2. TypeOK /\ Located /\ EveryBufferOwned /\ RightChunk /\ OneSpoilt /\ [Next]_vars
         => OneSpoilt'
  <2> SUFFICES ASSUME TypeOK, Located, EveryBufferOwned, RightChunk, OneSpoilt,
                      [Next]_vars
               PROVE  OneSpoilt'
    OBVIOUS
  <2> DEFINE Keeps ==
        /\ \A t \in Task : Torn(t)' => Torn(t)
        /\ UNCHANGED info
        /\ \A r \in Peer :
              /\ link[r] = "ended" => link'[r] = "ended"
              /\ rpc'[r] \in {"block", "chunk"} /\ link'[r] = "ended" =>
                    /\ rpc[r] \in {"block", "chunk"} /\ link[r] = "ended"
                    /\ rtask'[r] = rtask[r]
        /\ \A t \in Filled' : t \in Filled /\ chunk'[mem_ptr'[t]].whole = chunk[mem_ptr[t]].whole
        /\ \A f \in Task : store'[f] # NoData =>
              \/ store'[f] = store[f]
              \/ \E t \in Filled : store'[f] = chunk[mem_ptr[t]]
        /\ \A t \in Task : stage'[t] = "sent" => stage[t] = "sent"
  <2>1. ASSUME Keeps PROVE OneSpoilt'
    <3>1. \A t \in Task : Cut(t)' <=> Cut(t)
      BY <2>1 DEF Cut
    <3>2. \A t \in Task : Spoilt(t)' => Spoilt(t)
      BY <2>1, <3>1 DEF Spoilt
    <3>3. \A f \in Task : store'[f] # NoData /\ store'[f].whole = TRUE
                               => ~Cut(store[f].task)'
      <4>1. ASSUME NEW f \in Task, store'[f] # NoData, store'[f].whole = TRUE
            PROVE  ~Cut(store'[f].task)
        BY <2>1, <4>1 DEF OneSpoilt, RightChunk
      <4> QED BY <2>1, <4>1 DEF Cut
    <3>4. \A t \in Filled' : chunk'[mem_ptr'[t]].whole = TRUE => ~Cut(t)'
      BY <2>1, <3>1 DEF OneSpoilt, Filled
    <3> HIDE DEF Spoilt, Cut, Filled
    <3> QED BY <2>1, <3>1, <3>2, <3>3, <3>4 DEF OneSpoilt
  <2>2. ASSUME NEW r \in Peer, NEW whole \in BOOLEAN, FillBuffer(r, whole),
               rpc[r] = "chunk", rpc' = [rpc EXCEPT ![r] = "hand"],
               \A q \in Peer : q # r => link'[q] = link[q],
               IF whole THEN link[r] # "ended" /\ link'[r] = link[r]
                        ELSE link'[r] = "ended",
               UNCHANGED <<rtask, info, mem_ptr, store, stage>>
        PROVE  OneSpoilt'
    <3>1. /\ rtask[r] \in Task /\ Sender[rtask[r]] = r
          /\ stage[rtask[r]] = "received" /\ mem_ptr[rtask[r]] \in Block
      BY <2>2 DEF TypeOK, Located, Receiving
    <3>2. /\ chunk'[mem_ptr[rtask[r]]].whole = whole
          /\ \A t \in Task : t # rtask[r] => chunk'[mem_ptr[t]] = chunk[mem_ptr[t]]
      BY <2>2, <3>1 DEF FillBuffer, TypeOK, EveryBufferOwned
    <3>3. \A t \in Task : t \in Filled' <=> t \in Filled \/ t = rtask[r]
      BY <2>2, <3>1 DEF Filled, TypeOK
    <3>4. \A t \in Task : Cut(t)' <=> Cut(t)
      BY <2>2 DEF Cut
    <3>5. \A t \in Task : Spoilt(t)' => Spoilt(t) \/ (t = rtask[r] /\ ~whole)
      <4>1. \A t \in Task : Torn(t)' => Torn(t) \/ (t = rtask[r] /\ ~whole)
        BY <2>2, <3>2, <3>3 DEF Torn, TornIn
      <4> QED BY <3>4, <4>1 DEF Spoilt
    <3>6. \A t \in Task : Sender[t] = r /\ Spoilt(t) => t = rtask[r] /\ ~whole
      <4>1. \A t \in Task : Sender[t] = r /\ Spoilt(t) => link[r] = "ended"
        BY DEF OneSpoilt
      <4> QED BY <2>2, <4>1 DEF OneSpoilt
    <3>7. /\ \A q \in Peer : link[q] = "ended" => link'[q] = "ended"
          /\ ~whole => link'[r] = "ended"
      BY <2>2
    <3>8. \A t \in Task : Sender[t] \in Peer
      OBVIOUS
    <3>9. \A t \in Task : Spoilt(t)' =>
             /\ link'[Sender[t]] = "ended"
             /\ \A u \in Task : Sender[u] = Sender[t] /\ Spoilt(u)' => u = t
      <4> HIDE DEF Spoilt
      <4> QED BY <3>1, <3>5, <3>6, <3>7, <3>8 DEF OneSpoilt
    <3>10. ASSUME NEW q \in Peer, rpc'[q] \in {"block", "chunk"}, link'[q] = "ended",
                  NEW t \in Task, Sender[t] = q, Spoilt(t)'
           PROVE  t = rtask'[q]
      <4>1. q # r /\ rpc[q] = rpc'[q] /\ link[q] = "ended"
        BY <2>2, <3>10 DEF TypeOK
      <4>2. Spoilt(t)
        BY <3>1, <3>5, <3>10, <4>1
      <4> QED BY <2>2, <3>10, <4>1, <4>2 DEF OneSpoilt
    <3>11. \A t \in Filled' : chunk'[mem_ptr'[t]].whole = TRUE => ~Cut(t)'
      <4>1. ASSUME NEW t \in Task, t \in Filled', chunk'[mem_ptr[t]].whole = TRUE
            PROVE  ~Cut(t)
        <5>1. CASE t = rtask[r]
          BY <3>1, <3>2, <3>6, <4>1, <5>1 DEF Spoilt
        <5>2. CASE t # rtask[r]
          BY <3>2, <3>3, <4>1, <5>2 DEF OneSpoilt
        <5> QED BY <5>1, <5>2
      <4> QED BY <2>2, <3>4, <4>1 DEF Filled
    <3>12. /\ \A f \in Task :
                 store'[f] # NoData /\ store'[f].whole = TRUE => ~Cut(store[f].task)'
           /\ \A t \in Task : Cut(t)' => stage'[t] # "sent"
      BY <2>2 DEF OneSpoilt, Cut
    <3> QED BY <3>9, <3>10, <3>11, <3>12 DEF OneSpoilt
  <2>3. ASSUME NEW r \in Peer, RecvChunk(r) PROVE OneSpoilt'
    BY <2>2, <2>3 DEF RecvChunk
  <2>4. ASSUME NEW r \in Peer, RecvShort(r) PROVE OneSpoilt'
    BY <2>2, <2>4 DEF RecvShort, TypeOK
  <2>5. ASSUME NEW r \in Peer, RecvCut(r) PROVE OneSpoilt'
    <3>1. PICK t \in Task : /\ Sender[t] = r /\ stage[t] = "sent"
                            /\ stage' = [stage EXCEPT ![t] = "received"]
                            /\ rtask' = [rtask EXCEPT ![r] = t]
                            /\ \A u \in Task : u # t => info'[u] = info[u]
      BY <2>5, CutFacts
    <3>2. /\ link[r] = "down" /\ link' = [link EXCEPT ![r] = "ended"]
          /\ rpc' = [rpc EXCEPT ![r] = "block"]
          /\ UNCHANGED <<mem_ptr, chunk, store>>
      BY <2>5 DEF RecvCut
    <3>3. \A u \in Filled' : u \in Filled /\ u # t
      BY <3>1, <3>2 DEF Filled, TypeOK, Located, Receiving
    <3>4. \A u \in Task : u # t => (Cut(u)' <=> Cut(u))
      BY <3>1 DEF Cut
    <3>5. \A u \in Task : Torn(u)' => Torn(u)
      BY <3>2, <3>3 DEF Torn, TornIn
    <3>6. \A u \in Task : Spoilt(u)' => Spoilt(u) \/ u = t
      BY <3>4, <3>5 DEF Spoilt
    <3>7. \A u \in Task : Spoilt(u) => Sender[u] # r /\ link[Sender[u]] = "ended"
      BY <3>2 DEF OneSpoilt
    <3>8. /\ link'[r] = "ended"
          /\ \A q \in Peer : q # r => link'[q] = link[q] /\ rpc'[q] = rpc[q]
                                     /\ rtask'[q] = rtask[q]
          /\ rtask'[r] = t
          /\ \A u \in Task : Sender[u] \in Peer
      BY <3>1, <3>2 DEF TypeOK
    <3>9. /\ \A u \in Task : Spoilt(u)' =>
                /\ link'[Sender[u]] = "ended"
                /\ \A v \in Task : Sender[v] = Sender[u] /\ Spoilt(v)' => v = u
          /\ \A q \in Peer : rpc'[q] \in {"block", "chunk"} /\ link'[q] = "ended" =>
                \A u \in Task : Sender[u] = q /\ Spoilt(u)' => u = rtask'[q]
      <4> HIDE DEF Spoilt
      <4> QED BY <3>1, <3>6, <3>7, <3>8 DEF OneSpoilt
    <3>10. \A u \in Filled' : chunk'[mem_ptr'[u]].whole = TRUE => ~Cut(u)'
      BY <3>2, <3>3, <3>4 DEF OneSpoilt, Filled
    <3>11. \A f \in Task :
              store'[f] # NoData /\ store'[f].whole = TRUE => ~Cut(store[f].task)'
      <4>1. ASSUME NEW f \in Task, store[f] # NoData
            PROVE  store[f].task \in Task /\ store[f].task # t
        BY <3>1, <4>1 DEF RightChunk, TypeOK, Data
      <4>2. ASSUME NEW f \in Task, store[f] # NoData, store[f].whole = TRUE
            PROVE  info'[store[f].task] = Header(store[f].task)
        BY <3>1, <4>1, <4>2 DEF OneSpoilt, Cut
      <4> QED BY <3>2, <4>2 DEF Cut
    <3>12. \A u \in Task : Cut(u)' => stage'[u] # "sent"
      BY <3>1, <3>4 DEF OneSpoilt, TypeOK
    <3> QED BY <3>9, <3>10, <3>11, <3>12 DEF OneSpoilt
  <2> USE DEF TypeOK, Located, Receiving, InOnePlace, HasBuffer,
              EveryBufferOwned, Filled, Torn, TornIn
  <2>6. ASSUME StartServing PROVE Keeps
    BY <2>6 DEF StartServing
  <2>7. ASSUME JoinReceivers PROVE Keeps
    BY <2>7 DEF JoinReceivers
  <2>8. ASSUME JoinCompute PROVE Keeps
    BY <2>8 DEF JoinCompute
  <2>9. ASSUME JoinWriters PROVE Keeps
    BY <2>9 DEF JoinWriters
  <2>10. ASSUME MasterServed PROVE Keeps
    BY <2>10 DEF MasterServed
  <2>11. ASSUME MasterClosed PROVE Keeps
    BY <2>11 DEF MasterClosed
  <2>12. ASSUME NEW r \in Peer, PassGate(r) PROVE Keeps
    BY <2>12 DEF PassGate
  <2>13. ASSUME NEW r \in Peer, RecvHeader(r) PROVE Keeps
    BY <2>13 DEF RecvHeader
  <2>14. ASSUME NEW r \in Peer, RecvShutdown(r) PROVE Keeps
    BY <2>14 DEF RecvShutdown
  <2>15. ASSUME NEW r \in Peer, RecvEOF(r) PROVE Keeps
    BY <2>15 DEF RecvEOF
  <2>16. ASSUME NEW r \in Peer, GetBlock(r) PROVE Keeps
    BY <2>16 DEF GetBlock
  <2>17. ASSUME NEW r \in Peer, HandOver(r) PROVE Keeps
    BY <2>17 DEF HandOver
  <2>18. ASSUME NEW r \in Peer, PeerBreaks(r) PROVE Keeps
    BY <2>18 DEF PeerBreaks
  <2>19. ASSUME NEW c \in CWorker, ComputeTake(c) PROVE Keeps
    BY <2>19 DEF ComputeTake
  <2>20. ASSUME NEW c \in CWorker, Encode(c) PROVE Keeps
    BY <2>20 DEF Encode
  <2>21. ASSUME NEW c \in CWorker, Forward(c) PROVE Keeps
    BY <2>21 DEF Forward
  <2>22. ASSUME NEW c \in CWorker, ComputeDrained(c) PROVE Keeps
    BY <2>22 DEF ComputeDrained
  <2>23. ASSUME NEW c \in CWorker, SealWriters(c) PROVE Keeps
    BY <2>23 DEF SealWriters
  <2>24. ASSUME NEW w \in WWorker, WriteTake(w) PROVE Keeps
    BY <2>24 DEF WriteTake
  <2>25. ASSUME NEW w \in WWorker, WriteFile(w) PROVE Keeps
    <3> DEFINE u == wtask[w]
               d == chunk[mem_ptr[u]]
    <3>1. /\ u \in Filled /\ stage[u] = "writing" /\ d \in Data
          /\ store' = [t \in Task |-> IF t = info[u].store_fn THEN d ELSE store[t]]
          /\ UNCHANGED <<rpc, rtask, info, link, mem_ptr, chunk, stage>>
      BY <2>25 DEF WriteFile
    <3>2. d.task = u
      BY <3>1 DEF RightChunk
    <3>3. \A f \in Task : store'[f] = store[f] \/ store'[f] = d
      BY <3>1
    <3>4. \A t \in Task : t \in Filled' <=> t \in Filled
      BY <3>1
    <3>5. ASSUME NEW t \in Task, NEW f \in Task, TornIn(t, f)' PROVE Torn(t)
      <4>1. CASE store'[f] = store[f]
        BY <3>5, <4>1
      <4>2. CASE store'[f] = d
        BY <3>1, <3>2, <3>5, <4>2
      <4> QED BY <3>3, <4>1, <4>2
    <3>6. \A t \in Task : Torn(t)' => Torn(t)
      <4>1. \A t \in Task : t \in Filled' /\ chunk'[mem_ptr'[t]].whole = FALSE => Torn(t)
        BY <3>1, <3>4
      <4> HIDE DEF TornIn, Filled
      <4> QED BY <3>5, <4>1
    <3> HIDE DEF Torn
    <3> QED BY <3>1, <3>3, <3>4, <3>6
  <2>26. ASSUME NEW w \in WWorker, ReleaseBlock(w) PROVE Keeps
    BY <2>26 DEF ReleaseBlock
  <2>27. ASSUME NEW w \in WWorker, WriteDrained(w) PROVE Keeps
    BY <2>27 DEF WriteDrained
  <2>28. ASSUME UNCHANGED vars PROVE Keeps
    BY <2>28 DEF vars
  <2> QED
    BY <2>1, <2>2, <2>3, <2>4, <2>5, <2>6, <2>7, <2>8, <2>9, <2>10, <2>11,
       <2>12, <2>13, <2>14, <2>15, <2>16, <2>17, <2>18, <2>19, <2>20, <2>21, <2>22,
       <2>23, <2>24, <2>25, <2>26, <2>27, <2>28
    DEF Next, MainStep, MasterStep, RecvStep, ComputeStep, WriteStep
<1> QED BY <1>1, <1>2, TypeCorrect, BuffersOwned, ChunksRight, PTL DEF Spec

\* A file that is not as it should be holds a chunk that a break cut short, or
\* that came with a record a break cut short, and a connection leaves one such
\* file at most (tcp_server.cc:52-74, write_worker.cc:22-34).
THEOREM StoredFaithfullyHolds == Spec => []StoredFaithfully
<1>1. TypeOK /\ RightChunk /\ OneSpoilt => StoredFaithfully
  <2> SUFFICES ASSUME TypeOK, RightChunk, OneSpoilt, NEW t \in Damaged
               PROVE  /\ ~store[t].whole
                      /\ link[Sender[store[t].task]] = "ended"
                      /\ \A u \in Damaged :
                            Sender[store[u].task] = Sender[store[t].task] => u = t
    BY DEF StoredFaithfully
  <2>1. ASSUME NEW f \in Damaged
        PROVE  /\ f \in Task /\ store[f] # NoData /\ store[f] \in Data
               /\ store[f].task \in Task
               /\ info[store[f].task].store_fn = f
               /\ store[f].coded = (store[f].task \in ToCode)
    BY <2>1 DEF Damaged, TypeOK, RightChunk, Data
  <2>2. ASSUME NEW f \in Damaged PROVE store[f].whole = FALSE
    <3>1. SUFFICES ASSUME store[f].whole = TRUE PROVE FALSE
      BY <2>1 DEF Data
    <3>2. info[store[f].task] = Header(store[f].task)
      BY <2>1, <3>1 DEF OneSpoilt, Cut
    <3>3. store[f].task = f
      BY <2>1, <3>2 DEF Header
    <3>4. store[f].coded = (f \in Coded)
      <4>1. f \in ToCode <=> f \in Coded
        BY <2>1, <3>2, <3>3 DEF ToCode, Header
      <4> QED BY <2>1, <3>3, <4>1
    <3>5. store[f] = Intact(f)
      BY <2>1, <3>1, <3>3, <3>4 DEF Intact, Data
    <3> QED BY <2>1, <3>5 DEF Damaged
  <2>3. ASSUME NEW f \in Damaged PROVE Spoilt(store[f].task)
    BY <2>1, <2>2, <2>3 DEF Spoilt, Torn, TornIn
  <2>4. ~store[t].whole /\ link[Sender[store[t].task]] = "ended"
    BY <2>1, <2>2, <2>3 DEF OneSpoilt
  <2>5. ASSUME NEW u \in Damaged, Sender[store[u].task] = Sender[store[t].task]
        PROVE  u = t
    <3>1. store[u].task = store[t].task
      BY <2>1, <2>3, <2>5 DEF OneSpoilt
    <3> QED BY <2>1, <3>1
  <2> QED BY <2>4, <2>5
<1> QED BY <1>1, TypeCorrect, ChunksRight, OneSpoiltHolds, PTL
-----------------------------------------------------------------------------
(* Nobody is stuck *)

\* What the threads of the node wait for: the guards of MainStep, MasterStep,
\* RecvStep, ComputeStep and WriteStep.  A receiver at a header always finds one,
\* the shutdown record or the end of the connection; no break is counted on.
MainReady ==
    \/ phase = "starting"
    \/ phase = "receiving" /\ master = "closed" /\ \A r \in Peer : rpc[r] = "closed"
    \/ phase = "computing" /\ \A c \in CWorker : cpc[c] = "exited"
    \/ phase = "writing" /\ \A w \in WWorker : wpc[w] = "exited"

MasterReady == (master = "gate" /\ serving_flag) \/ master = "open"

RecvReady(r) ==
    \/ rpc[r] = "gate" /\ serving_flag
    \/ rpc[r] \in {"header", "chunk", "hand"}
    \/ rpc[r] = "block" /\ free_queue # <<>>

ComputeReady(c) ==
    \/ cpc[c] \in {"encode", "forward", "drained"}
    \/ cpc[c] = "ready" /\ (cqueue # <<>> \/ cseal)

WriteReady(w) ==
    \/ wpc[w] \in {"write", "release"}
    \/ wpc[w] = "ready" /\ (wqueue # <<>> \/ wseal)

\* No state but the last is a deadlock, however few buffers there are.
NeverStuck ==
    \/ phase = "finished"
    \/ MainReady \/ MasterReady
    \/ \E r \in Peer : RecvReady(r)
    \/ \E c \in CWorker : ComputeReady(c)
    \/ \E w \in WWorker : WriteReady(w)

\* What start_serving has done by each of its phases.
Started ==
    /\ phase # "starting" => /\ serving_flag
                             /\ \A c \in CWorker : cpc[c] # "new"
                             /\ \A w \in WWorker : wpc[w] # "new"
    /\ cseal => phase \notin {"starting", "receiving"}
    /\ \A c \in CWorker : cpc[c] = "exited" => wseal

LEMMA StartedHolds == Spec => []Started
<1> USE DEF main_vars, recv_vars, pool_vars, comp_vars, write_vars
<1>1. Init => Started
  BY DEF Init, Started
<1>2. TypeOK /\ Started /\ [Next]_vars => Started'
  <2> SUFFICES ASSUME TypeOK, Started, [Next]_vars PROVE Started'
    OBVIOUS
  <2> USE DEF TypeOK, Started
  <2>1. CASE StartServing
    BY <2>1 DEF StartServing
  <2>2. CASE JoinReceivers \/ JoinCompute \/ JoinWriters
    BY <2>2 DEF JoinReceivers, JoinCompute, JoinWriters
  <2>3. CASE MasterStep
    BY <2>3 DEF MasterStep, MasterServed, MasterClosed
  <2>4. ASSUME NEW r \in Peer, RecvStep(r) \/ PeerBreaks(r) PROVE Started'
    <3>1. UNCHANGED <<phase, serving_flag, cpc, wpc, cseal, wseal>>
      BY <2>4 DEF RecvStep, PassGate, RecvHeader, RecvShutdown, RecvCut, RecvEOF, GetBlock,
                  RecvChunk, RecvShort, HandOver, PeerBreaks
    <3> QED BY <3>1
  <2>5. ASSUME NEW c \in CWorker, ComputeStep(c) PROVE Started'
    <3>1. /\ UNCHANGED <<phase, serving_flag, wpc, cseal>>
          /\ cpc' = [cpc EXCEPT ![c] = cpc'[c]] /\ cpc'[c] # "new"
          /\ wseal' = wseal \/ wseal' = TRUE
          /\ cpc'[c] = "exited" => wseal'
      BY <2>5 DEF ComputeStep, ComputeTake, Encode, Forward, ComputeDrained,
                  SealWriters
    <3> QED BY <3>1
  <2>6. ASSUME NEW w \in WWorker, WriteStep(w) PROVE Started'
    <3>1. /\ UNCHANGED <<phase, serving_flag, cpc, cseal, wseal>>
          /\ wpc' = [wpc EXCEPT ![w] = wpc'[w]] /\ wpc'[w] # "new"
      BY <2>6 DEF WriteStep, WriteTake, WriteFile, ReleaseBlock, WriteDrained
    <3> QED BY <3>1
  <2>7. CASE UNCHANGED vars
    BY <2>7 DEF vars
  <2> QED BY <2>1, <2>2, <2>3, <2>4, <2>5, <2>6, <2>7 DEF Next, MainStep
<1> QED BY <1>1, <1>2, TypeCorrect, PTL DEF Spec

\* A receiver that waits in get_block waits for a buffer that a queued task has
\* or a thread that does not wait: the pools are not sealed before the receivers
\* are done, so that the workers serve the queues until then.
LEMMA BlockComes ==
    ASSUME TypeOK, Located, NoBufferLost, SealOrder, Started, phase # "starting",
           NEW r \in Peer, rpc[r] = "block", free_queue = <<>>
    PROVE  \/ \E p \in Peer : RecvReady(p)
           \/ \E c \in CWorker : ComputeReady(c)
           \/ \E w \in WWorker : WriteReady(w)
<1>1. ~cseal /\ ~wseal
  BY DEF SealOrder
<1>2. /\ \A c \in CWorker : cpc[c] \in {"ready", "encode", "forward"}
      /\ \A w \in WWorker : wpc[w] \in {"ready", "write", "release"}
  BY <1>1 DEF SealOrder, Started, TypeOK
<1>3. 1 \in Block \ Elems(free_queue)
  BY ServerAssumption DEF Block, Elems
<1>4. PICK t \in Elems(cqueue) \cup Elems(wqueue) \cup {x[3] : x \in InHand} :
         mem_ptr[t] = 1
  BY <1>3 DEF NoBufferLost
<1>5. CASE t \in Elems(cqueue)
  <2>1. cqueue # <<>>
    BY <1>5 DEF Elems
  <2>2. PICK c \in CWorker : TRUE
    BY ServerAssumption
  <2>3. ComputeReady(c)
    BY <1>2, <2>1 DEF ComputeReady
  <2> QED BY <2>3
<1>6. CASE t \in Elems(wqueue)
  <2>1. wqueue # <<>>
    BY <1>6 DEF Elems
  <2>2. PICK w \in WWorker : TRUE
    BY ServerAssumption
  <2>3. WriteReady(w)
    BY <1>2, <2>1 DEF WriteReady
  <2> QED BY <2>3
<1>7. CASE t \in {x[3] : x \in InHand}
  <2>1. \/ \E p \in Peer : rpc[p] \in Buffered
        \/ \E c \in CWorker : cpc[c] \in Computing
        \/ \E w \in WWorker : wpc[w] \in Writing
    BY <1>7 DEF InHand
  <2> QED
    BY <2>1 DEF RecvReady, ComputeReady, WriteReady, Buffered, Computing, Writing
<1> QED BY <1>4, <1>5, <1>6, <1>7

\* As long as start_serving has not returned, some thread of the node has a step
\* to take, whatever the sizes of the pools: get_block, get_task and the joins
\* never wait for each other.
THEOREM NeverStuckHolds == Spec => []NeverStuck
<1>1. TypeOK /\ Located /\ NoBufferLost /\ SealOrder /\ Started => NeverStuck
  <2> SUFFICES ASSUME TypeOK, Located, NoBufferLost, SealOrder, Started,
                      phase # "finished", ~MainReady, ~MasterReady,
                      \A r \in Peer : ~RecvReady(r),
                      \A c \in CWorker : ~ComputeReady(c),
                      \A w \in WWorker : ~WriteReady(w)
               PROVE  FALSE
    BY DEF NeverStuck
  <2>1. phase # "starting" /\ serving_flag
    BY DEF MainReady, Started
  <2>2. master = "closed"
    BY <2>1 DEF MasterReady, TypeOK
  <2>3. \A r \in Peer : rpc[r] = "closed"
    <3>1. \A r \in Peer : rpc[r] \in {"block", "closed"}
      BY <2>1 DEF RecvReady, TypeOK
    <3>2. \A r \in Peer : rpc[r] = "block" => free_queue = <<>>
      BY DEF RecvReady
    <3> QED BY <2>1, <3>1, <3>2, BlockComes
  <2>4. phase \in {"computing", "writing"}
    BY <2>1, <2>2, <2>3 DEF MainReady, TypeOK
  <2>5. cseal
    BY <2>4 DEF SealOrder
  <2>6. \A c \in CWorker : cpc[c] = "exited"
    BY <2>1, <2>5 DEF ComputeReady, Started, TypeOK
  <2>7. phase = "writing"
    BY <2>4, <2>6 DEF MainReady
  <2>8. PICK w \in WWorker : wpc[w] # "exited"
    BY <2>7 DEF MainReady
  <2>9. wpc[w] = "ready" /\ ~wseal
    BY <2>1, <2>8 DEF WriteReady, Started, TypeOK
  <2>10. PICK c \in CWorker : TRUE
    BY ServerAssumption
  <2> QED BY <2>6, <2>9, <2>10 DEF Started
<1> QED BY <1>1, TypeCorrect, NoBufferLostHolds, SealsInOrder, StartedHolds, PTL
-----------------------------------------------------------------------------
(* Every step counts *)

\* What is still ahead of start_serving and of the master's connection,
PhaseNo == CASE phase = "starting" -> 1 [] phase = "receiving" -> 2
             [] phase = "computing" -> 3 [] phase = "writing" -> 4
             [] OTHER -> 5
MasterNo == CASE master = "gate" -> 1 [] master = "open" -> 2 [] OTHER -> 3

\* of a task that has not come further than to the stages in S,
In(S) == {t \in Task : stage[t] \in S}
NoBuffer == {t \in In({"sent", "received"}) : mem_ptr[t] = NoBlock}
Filling == {t \in Task : \E r \in Peer : rpc[r] = "chunk" /\ rtask[r] = t}
Encoding == {t \in Task : \E c \in CWorker : cpc[c] = "encode" /\ ctask[c] = t}
Storing == {t \in Task : \E w \in WWorker : wpc[w] = "write" /\ wtask[w] = t}

\* and of the threads and the connections: who has yet to do what.
Ahead ==
    [phases |-> PhaseNo..4,
     master |-> MasterNo..2,
     gate |-> {r \in Peer : rpc[r] = "gate"},
     header |-> In({"sent"}),
     block |-> NoBuffer,
     chunk |-> NoBuffer \cup Filling,
     hand |-> In({"sent", "received"}),
     code |-> In({"sent", "received", "cqueue"}),
     encode |-> In({"sent", "received", "cqueue"}) \cup Encoding,
     forward |-> In({"sent", "received", "cqueue", "coding"}),
     take |-> In({"sent", "received", "cqueue", "coding", "wqueue"}),
     write |-> In({"sent", "received", "cqueue", "coding", "wqueue"}) \cup Storing,
     release |-> {t \in Task : stage[t] # "written"},
     close |-> {r \in Peer : rpc[r] # "closed"},
     break |-> {r \in Peer : link[r] = "up"},
     end |-> {r \in Peer : link[r] # "ended"},
     drain |-> {c \in CWorker : cpc[c] \notin {"drained", "exited"}},
     seal |-> {c \in CWorker : cpc[c] # "exited"},
     leave |-> {w \in WWorker : wpc[w] # "exited"}]

Advance == /\ \A k \in DOMAIN Ahead : Ahead'[k] \subseteq Ahead[k]
           /\ Ahead' # Ahead

\* Nothing is taken back.
Moves == {<<"sent", "received">>, <<"received", "cqueue">>, <<"received", "wqueue">>,
          <<"cqueue", "coding">>, <<"coding", "wqueue">>, <<"wqueue", "writing">>,
          <<"writing", "written">>}

MainOn == PhaseNo' >= PhaseNo /\ MasterNo' >= MasterNo
StageOn == \A t \in Task : stage'[t] = stage[t] \/ <<stage[t], stage'[t]>> \in Moves
BufferOn == NoBuffer' \subseteq NoBuffer /\ Filling' \subseteq Filling \cup NoBuffer
RecvOn == \A r \in Peer : /\ rpc'[r] = "gate" => rpc[r] = "gate"
                          /\ rpc[r] = "closed" => rpc'[r] = "closed"
                          /\ link'[r] = "up" => link[r] = "up"
                          /\ link[r] = "ended" => link'[r] = "ended"
CodeOn ==
    /\ Encoding' \subseteq Encoding \cup In({"cqueue"})
    /\ \A c \in CWorker :
          /\ cpc[c] \in {"drained", "exited"} => cpc'[c] \in {"drained", "exited"}
          /\ cpc[c] = "exited" => cpc'[c] = "exited"
WriteOn ==
    /\ Storing' \subseteq Storing \cup In({"wqueue"})
    /\ \A w \in WWorker : wpc[w] = "exited" => wpc'[w] = "exited"
Onward == MainOn /\ StageOn /\ BufferOn /\ RecvOn /\ CodeOn /\ WriteOn

\* What a step leaves alone is not taken back by it.
LEMMA Rests ==
    /\ UNCHANGED main_vars => MainOn
    /\ UNCHANGED stage => StageOn
    /\ UNCHANGED <<stage, mem_ptr, rpc, rtask>> => BufferOn
    /\ UNCHANGED <<rpc, link>> => RecvOn
    /\ UNCHANGED <<cpc, ctask>> => CodeOn
    /\ UNCHANGED <<wpc, wtask>> => WriteOn
<1>1. UNCHANGED main_vars => MainOn
  BY DEF main_vars, MainOn, PhaseNo, MasterNo
<1>2. UNCHANGED stage => StageOn
  BY DEF StageOn
<1>3. UNCHANGED <<stage, mem_ptr, rpc, rtask>> => BufferOn
  BY DEF BufferOn, NoBuffer, Filling, In
<1>4. UNCHANGED <<rpc, link>> => RecvOn
  BY DEF RecvOn
<1>5. UNCHANGED <<cpc, ctask>> => CodeOn
  BY DEF CodeOn, Encoding
<1>6. UNCHANGED <<wpc, wtask>> => WriteOn
  BY DEF WriteOn, Storing
<1> QED BY <1>1, <1>2, <1>3, <1>4, <1>5, <1>6

LEMMA AheadShrinks ==
    ASSUME Onward PROVE \A k \in DOMAIN Ahead : Ahead'[k] \subseteq Ahead[k]
<1>1. PhaseNo \in 1..5 /\ PhaseNo' \in 1..5 /\ MasterNo \in 1..3 /\ MasterNo' \in 1..3
  BY DEF PhaseNo, MasterNo
<1>2. PhaseNo'..4 \subseteq PhaseNo..4 /\ MasterNo'..2 \subseteq MasterNo..2
  BY <1>1 DEF Onward, MainOn
<1>3. /\ \A t \in Task : stage[t] = "written" => stage'[t] = "written"
      /\ In({"sent"})' \subseteq In({"sent"})
      /\ In({"sent", "received"})' \subseteq In({"sent", "received"})
      /\ In({"sent", "received", "cqueue"})' \subseteq In({"sent", "received", "cqueue"})
      /\ In({"sent", "received", "cqueue", "coding"})'
            \subseteq In({"sent", "received", "cqueue", "coding"})
      /\ In({"sent", "received", "cqueue", "coding", "wqueue"})'
            \subseteq In({"sent", "received", "cqueue", "coding", "wqueue"})
  BY DEF Onward, StageOn, Moves, In
<1>4. /\ In({"cqueue"}) \subseteq In({"sent", "received", "cqueue"})
      /\ In({"wqueue"}) \subseteq In({"sent", "received", "cqueue", "coding", "wqueue"})
  BY DEF In
<1>5. /\ NoBuffer' \cup Filling' \subseteq NoBuffer \cup Filling
      /\ In({"sent", "received", "cqueue"})' \cup Encoding'
            \subseteq In({"sent", "received", "cqueue"}) \cup Encoding
      /\ In({"sent", "received", "cqueue", "coding", "wqueue"})' \cup Storing'
            \subseteq In({"sent", "received", "cqueue", "coding", "wqueue"}) \cup Storing
  BY <1>3, <1>4 DEF Onward, BufferOn, CodeOn, WriteOn
<1>6. /\ {t \in Task : stage'[t] # "written"} \subseteq {t \in Task : stage[t] # "written"}
      /\ {r \in Peer : rpc'[r] = "gate"} \subseteq {r \in Peer : rpc[r] = "gate"}
      /\ {r \in Peer : rpc'[r] # "closed"} \subseteq {r \in Peer : rpc[r] # "closed"}
      /\ {r \in Peer : link'[r] = "up"} \subseteq {r \in Peer : link[r] = "up"}
      /\ {r \in Peer : link'[r] # "ended"} \subseteq {r \in Peer : link[r] # "ended"}
      /\ {c \in CWorker : cpc'[c] \notin {"drained", "exited"}}
            \subseteq {c \in CWorker : cpc[c] \notin {"drained", "exited"}}
      /\ {c \in CWorker : cpc'[c] # "exited"} \subseteq {c \in CWorker : cpc[c] # "exited"}
      /\ {w \in WWorker : wpc'[w] # "exited"} \subseteq {w \in WWorker : wpc[w] # "exited"}
  BY <1>3 DEF Onward, RecvOn, CodeOn, WriteOn
<1>7. NoBuffer' \subseteq NoBuffer
  BY DEF Onward, BufferOn
<1>8. DOMAIN Ahead = {"phases", "master", "gate", "header", "block", "chunk", "hand",
          "code", "encode", "forward", "take", "write", "release", "close", "break",
          "end", "drain", "seal", "leave"}
  BY DEF Ahead
<1>9. /\ Ahead'["phases"] \subseteq Ahead["phases"]
      /\ Ahead'["master"] \subseteq Ahead["master"]
  BY <1>2 DEF Ahead
<1>10. /\ Ahead'["header"] \subseteq Ahead["header"]
      /\ Ahead'["hand"] \subseteq Ahead["hand"]
      /\ Ahead'["code"] \subseteq Ahead["code"]
      /\ Ahead'["forward"] \subseteq Ahead["forward"]
      /\ Ahead'["take"] \subseteq Ahead["take"]
  BY <1>3 DEF Ahead
<1>11. /\ Ahead'["chunk"] \subseteq Ahead["chunk"]
      /\ Ahead'["encode"] \subseteq Ahead["encode"]
      /\ Ahead'["write"] \subseteq Ahead["write"]
  BY <1>5 DEF Ahead
<1>12. /\ Ahead'["gate"] \subseteq Ahead["gate"]
      /\ Ahead'["release"] \subseteq Ahead["release"]
      /\ Ahead'["close"] \subseteq Ahead["close"]
      /\ Ahead'["break"] \subseteq Ahead["break"]
      /\ Ahead'["end"] \subseteq Ahead["end"]
      /\ Ahead'["drain"] \subseteq Ahead["drain"]
      /\ Ahead'["seal"] \subseteq Ahead["seal"]
      /\ Ahead'["leave"] \subseteq Ahead["leave"]
  BY <1>6 DEF Ahead
<1>13. Ahead'["block"] \subseteq Ahead["block"]
  BY <1>7 DEF Ahead
<1> QED BY <1>8, <1>9, <1>10, <1>11, <1>12, <1>13

LEMMA AheadDiffers ==
    ASSUME NEW k \in DOMAIN Ahead, NEW e, e \in Ahead[k], e \notin Ahead'[k]
    PROVE  Ahead' # Ahead
  OBVIOUS

\* One lemma for each thread: every step of it is onward, and removes
\* something from what is ahead.
LEMMA MainAdvances ==
    ASSUME TypeOK, Located, MainStep PROVE Onward /\ Ahead' # Ahead
<1> USE DEF recv_vars, pool_vars, comp_vars, write_vars, Located, WorkersWait
<1>1. MainOn /\ PhaseNo' = PhaseNo + 1 /\ PhaseNo \in 1..4
  BY DEF MainStep, StartServing, JoinReceivers, JoinCompute, JoinWriters, MainOn,
         PhaseNo, MasterNo
<1>2. StageOn /\ BufferOn /\ RecvOn
  <2>1. UNCHANGED <<stage, mem_ptr, rpc, rtask, link>>
    BY DEF MainStep, StartServing, JoinReceivers, JoinCompute, JoinWriters
  <2> QED BY <2>1, Rests
<1>3. CodeOn /\ WriteOn
  <2>1. CASE StartServing
    BY <2>1 DEF StartServing, CodeOn, WriteOn, Encoding, Storing
  <2>2. CASE ~StartServing
    <3>1. UNCHANGED <<cpc, ctask, wpc, wtask>>
      BY <2>2 DEF MainStep, JoinReceivers, JoinCompute, JoinWriters
    <3> QED BY <3>1, Rests
  <2> QED BY <2>1, <2>2
<1>4. "phases" \in DOMAIN Ahead /\ PhaseNo \in Ahead["phases"] /\ PhaseNo \notin Ahead'["phases"]
  BY <1>1 DEF Ahead
<1> QED BY <1>1, <1>2, <1>3, <1>4, AheadDiffers DEF Onward

LEMMA MasterAdvances ==
    ASSUME TypeOK, MasterStep PROVE Onward /\ Ahead' # Ahead
<1>1. MainOn /\ MasterNo' = MasterNo + 1 /\ MasterNo \in 1..2
  BY DEF MasterStep, MasterServed, MasterClosed, MainOn, PhaseNo, MasterNo
<1>2. StageOn /\ BufferOn /\ RecvOn /\ CodeOn /\ WriteOn
  <2>1. UNCHANGED <<stage, mem_ptr, rpc, rtask, link, cpc, ctask, wpc, wtask>>
    BY DEF MasterStep, MasterServed, MasterClosed, recv_vars, pool_vars, comp_vars,
           write_vars
  <2> QED BY <2>1, Rests
<1>3. "master" \in DOMAIN Ahead /\ MasterNo \in Ahead["master"] /\ MasterNo \notin Ahead'["master"]
  BY <1>1 DEF Ahead
<1> QED BY <1>1, <1>2, <1>3, AheadDiffers DEF Onward

LEMMA ReceiverAdvances ==
    ASSUME TypeOK, Located, NEW r \in Peer, RecvStep(r) \/ PeerBreaks(r)
    PROVE  Onward /\ Ahead' # Ahead
<1> USE DEF main_vars, recv_vars, pool_vars, comp_vars, write_vars
<1>1. CASE PassGate(r)
  <2>1. MainOn /\ StageOn /\ CodeOn /\ WriteOn
    BY <1>1, Rests DEF PassGate
  <2>2. BufferOn /\ RecvOn
    BY <1>1 DEF PassGate, BufferOn, RecvOn, NoBuffer, Filling, In, TypeOK
  <2>3. "gate" \in DOMAIN Ahead /\ r \in Ahead["gate"] /\ r \notin Ahead'["gate"]
    BY <1>1 DEF PassGate, Ahead, TypeOK
  <2> QED BY <2>1, <2>2, <2>3, AheadDiffers DEF Onward
<1>2. CASE RecvShutdown(r)
  <2>1. MainOn /\ StageOn /\ CodeOn /\ WriteOn
    BY <1>2, Rests DEF RecvShutdown
  <2>2. BufferOn /\ RecvOn
    BY <1>2 DEF RecvShutdown, BufferOn, RecvOn, NoBuffer, Filling, In, TypeOK
  <2>3. "close" \in DOMAIN Ahead /\ r \in Ahead["close"] /\ r \notin Ahead'["close"]
    BY <1>2 DEF RecvShutdown, Ahead, TypeOK
  <2> QED BY <2>1, <2>2, <2>3, AheadDiffers DEF Onward
<1>3. CASE RecvEOF(r)
  <2>1. MainOn /\ StageOn /\ CodeOn /\ WriteOn
    BY <1>3, Rests DEF RecvEOF
  <2>2. BufferOn /\ RecvOn
    BY <1>3 DEF RecvEOF, BufferOn, RecvOn, NoBuffer, Filling, In, TypeOK
  <2>3. "close" \in DOMAIN Ahead /\ r \in Ahead["close"] /\ r \notin Ahead'["close"]
    BY <1>3 DEF RecvEOF, Ahead, TypeOK
  <2> QED BY <2>1, <2>2, <2>3, AheadDiffers DEF Onward
<1>4. CASE PeerBreaks(r)
  <2>1. MainOn /\ StageOn /\ BufferOn /\ CodeOn /\ WriteOn
    BY <1>4, Rests DEF PeerBreaks
  <2>2. RecvOn
    BY <1>4 DEF PeerBreaks, RecvOn, TypeOK
  <2>3. "break" \in DOMAIN Ahead /\ r \in Ahead["break"] /\ r \notin Ahead'["break"]
    BY <1>4 DEF PeerBreaks, Ahead, TypeOK
  <2> QED BY <2>1, <2>2, <2>3, AheadDiffers DEF Onward
<1>5. CASE RecvHeader(r)
  <2>1. MainOn /\ CodeOn /\ WriteOn
    BY <1>5, Rests DEF RecvHeader
  <2>2. StageOn
    BY <1>5 DEF RecvHeader, StageOn, Moves, TypeOK
  <2>3. BufferOn /\ RecvOn
    BY <1>5 DEF RecvHeader, BufferOn, RecvOn, NoBuffer, Filling, In, TypeOK
  <2>4. PICK t \in Task : stage[t] = "sent" /\ stage'[t] = "received"
    BY <1>5 DEF RecvHeader, TypeOK
  <2>5. "header" \in DOMAIN Ahead /\ t \in Ahead["header"] /\ t \notin Ahead'["header"]
    BY <1>5, <2>4 DEF Ahead, In
  <2> QED BY <2>1, <2>2, <2>3, <2>4, <2>5, AheadDiffers DEF Onward
<1>10. CASE RecvCut(r)
  <2>1. MainOn /\ CodeOn /\ WriteOn
    BY <1>10, Rests DEF RecvCut
  <2>2. StageOn
    BY <1>10 DEF RecvCut, StageOn, Moves, TypeOK
  <2>3. BufferOn /\ RecvOn
    BY <1>10 DEF RecvCut, BufferOn, RecvOn, NoBuffer, Filling, In, TypeOK
  <2>4. PICK t \in Task : stage[t] = "sent" /\ stage'[t] = "received"
    BY <1>10 DEF RecvCut, TypeOK
  <2>5. "header" \in DOMAIN Ahead /\ t \in Ahead["header"] /\ t \notin Ahead'["header"]
    BY <1>10, <2>4 DEF Ahead, In
  <2> QED BY <2>1, <2>2, <2>3, <2>4, <2>5, AheadDiffers DEF Onward
<1>6. CASE GetBlock(r)
  <2>1. MainOn /\ StageOn /\ CodeOn /\ WriteOn
    BY <1>6, Rests DEF GetBlock
  <2>2. /\ rtask[r] \in NoBuffer /\ Head(free_queue) \in Block
        /\ mem_ptr' = [mem_ptr EXCEPT ![rtask[r]] = Head(free_queue)]
    BY <1>6 DEF GetBlock, Located, Receiving, NoBuffer, In, TypeOK
  <2>3. Head(free_queue) # NoBlock
    BY <1>6, <2>2, ServerAssumption DEF ServerAssumption, Block, NoBlock
  <2>4. BufferOn /\ RecvOn
    BY <1>6, <2>2, <2>3 DEF GetBlock, BufferOn, RecvOn, NoBuffer, Filling, In, TypeOK
  <2>5. "block" \in DOMAIN Ahead /\ rtask[r] \in Ahead["block"] /\ rtask[r] \notin Ahead'["block"]
    BY <1>6, <2>2, <2>3 DEF Ahead, NoBuffer, In, TypeOK
  <2> QED BY <2>1, <2>2, <2>3, <2>4, <2>5, AheadDiffers DEF Onward
<1>7. CASE RecvChunk(r)
  <2>1. MainOn /\ StageOn /\ CodeOn /\ WriteOn
    BY <1>7, Rests DEF RecvChunk
  <2>2. BufferOn /\ RecvOn
    BY <1>7 DEF RecvChunk, BufferOn, RecvOn, NoBuffer, Filling, In, TypeOK
  <2>3. rtask[r] \in Filling
    BY <1>7 DEF RecvChunk, Filling, Located, Receiving
  <2>4. rtask[r] \notin Filling'
    BY <1>7 DEF RecvChunk, Filling, Located, Receiving, TypeOK
  <2>5. rtask[r] \notin NoBuffer'
    BY <1>7, ServerAssumption DEF RecvChunk, NoBuffer, Located, Receiving, Buffered, Block, NoBlock, ServerAssumption
  <2>6. "chunk" \in DOMAIN Ahead /\ rtask[r] \in Ahead["chunk"] /\ rtask[r] \notin Ahead'["chunk"]
    BY <1>7, <2>3, <2>4, <2>5 DEF Ahead
  <2> QED BY <2>1, <2>2, <2>3, <2>4, <2>5, <2>6, AheadDiffers DEF Onward
<1>8. CASE RecvShort(r)
  <2>1. MainOn /\ StageOn /\ CodeOn /\ WriteOn
    BY <1>8, Rests DEF RecvShort
  <2>2. BufferOn /\ RecvOn
    BY <1>8 DEF RecvShort, BufferOn, RecvOn, NoBuffer, Filling, In, TypeOK
  <2>3. rtask[r] \in Filling
    BY <1>8 DEF RecvShort, Filling, Located, Receiving
  <2>4. rtask[r] \notin Filling'
    BY <1>8 DEF RecvShort, Filling, Located, Receiving, TypeOK
  <2>5. rtask[r] \notin NoBuffer'
    BY <1>8, ServerAssumption DEF RecvShort, NoBuffer, Located, Receiving, Buffered, Block, NoBlock, ServerAssumption
  <2>6. "chunk" \in DOMAIN Ahead /\ rtask[r] \in Ahead["chunk"] /\ rtask[r] \notin Ahead'["chunk"]
    BY <1>8, <2>3, <2>4, <2>5 DEF Ahead
  <2> QED BY <2>1, <2>2, <2>3, <2>4, <2>5, <2>6, AheadDiffers DEF Onward
<1>9. CASE HandOver(r)
  <2>1. MainOn /\ CodeOn /\ WriteOn
    BY <1>9, Rests DEF HandOver
  <2>2. /\ rtask[r] \in Task /\ stage[rtask[r]] = "received"
        /\ \/ stage' = [stage EXCEPT ![rtask[r]] = "cqueue"]
           \/ stage' = [stage EXCEPT ![rtask[r]] = "wqueue"]
    BY <1>9 DEF HandOver, Located, Receiving
  <2>3. StageOn
    BY <1>9, <2>2 DEF StageOn, Moves, TypeOK
  <2>4. BufferOn /\ RecvOn
    BY <1>9, <2>2 DEF HandOver, BufferOn, RecvOn, NoBuffer, Filling, In, TypeOK
  <2>5. "hand" \in DOMAIN Ahead /\ rtask[r] \in Ahead["hand"] /\ rtask[r] \notin Ahead'["hand"]
    BY <1>9, <2>2 DEF Ahead, In, TypeOK
  <2> QED BY <2>1, <2>2, <2>3, <2>4, <2>5, AheadDiffers DEF Onward
<1> QED BY <1>1, <1>2, <1>3, <1>4, <1>5, <1>6, <1>7, <1>8, <1>9, <1>10 DEF RecvStep

LEMMA ComputerAdvances ==
    ASSUME TypeOK, Located, NEW c \in CWorker, ComputeStep(c)
    PROVE  Onward /\ Ahead' # Ahead
<1> USE DEF main_vars, recv_vars, pool_vars, comp_vars, write_vars
<1>1. CASE ComputeTake(c)
  <2>1. MainOn /\ RecvOn /\ WriteOn
    BY <1>1, Rests DEF ComputeTake
  <2>2. Head(cqueue) \in Task /\ stage[Head(cqueue)] = "cqueue"
    BY <1>1 DEF ComputeTake, Located, InOnePlace, TypeOK
  <2>3. StageOn /\ BufferOn
    BY <1>1, <2>2 DEF ComputeTake, StageOn, Moves, BufferOn, NoBuffer, Filling, In, TypeOK
  <2>4. CodeOn
    BY <1>1, <2>2 DEF ComputeTake, CodeOn, Encoding, In, TypeOK
  <2>5. "code" \in DOMAIN Ahead /\ Head(cqueue) \in Ahead["code"] /\ Head(cqueue) \notin Ahead'["code"]
    BY <1>1, <2>2 DEF ComputeTake, Ahead, In, TypeOK
  <2> QED BY <2>1, <2>2, <2>3, <2>4, <2>5, AheadDiffers DEF Onward
<1>2. CASE Encode(c)
  <2>1. MainOn /\ StageOn /\ BufferOn /\ RecvOn /\ WriteOn
    BY <1>2, Rests DEF Encode
  <2>2. CodeOn
    BY <1>2 DEF Encode, CodeOn, Encoding, In, TypeOK
  <2>3. ctask[c] \in Encoding /\ stage'[ctask[c]] = "coding"
    BY <1>2 DEF Encode, Encoding, Located, InOnePlace, Computing
  <2>4. ctask[c] \notin Encoding'
    BY <1>2 DEF Encode, Encoding, Located, InOnePlace, Computing, TypeOK
  <2>5. "encode" \in DOMAIN Ahead /\ ctask[c] \in Ahead["encode"] /\ ctask[c] \notin Ahead'["encode"]
    BY <1>2, <2>3, <2>4 DEF Ahead, In
  <2> QED BY <2>1, <2>2, <2>3, <2>4, <2>5, AheadDiffers DEF Onward
<1>3. CASE Forward(c)
  <2>1. MainOn /\ RecvOn /\ WriteOn
    BY <1>3, Rests DEF Forward
  <2>2. ctask[c] \in Task /\ stage[ctask[c]] = "coding"
    BY <1>3 DEF Forward, Located, InOnePlace, Computing
  <2>3. StageOn /\ BufferOn
    BY <1>3, <2>2 DEF Forward, StageOn, Moves, BufferOn, NoBuffer, Filling, In, TypeOK
  <2>4. CodeOn
    BY <1>3 DEF Forward, CodeOn, Encoding, In, TypeOK
  <2>5. "forward" \in DOMAIN Ahead /\ ctask[c] \in Ahead["forward"] /\ ctask[c] \notin Ahead'["forward"]
    BY <1>3, <2>2 DEF Forward, Ahead, In, TypeOK
  <2> QED BY <2>1, <2>2, <2>3, <2>4, <2>5, AheadDiffers DEF Onward
<1>4. CASE ComputeDrained(c)
  <2>1. MainOn /\ StageOn /\ BufferOn /\ RecvOn /\ WriteOn
    BY <1>4, Rests DEF ComputeDrained
  <2>2. CodeOn
    BY <1>4 DEF ComputeDrained, CodeOn, Encoding, In, TypeOK
  <2>3. "drain" \in DOMAIN Ahead /\ c \in Ahead["drain"] /\ c \notin Ahead'["drain"]
    BY <1>4 DEF ComputeDrained, Ahead, TypeOK
  <2> QED BY <2>1, <2>2, <2>3, AheadDiffers DEF Onward
<1>5. CASE SealWriters(c)
  <2>1. MainOn /\ StageOn /\ BufferOn /\ RecvOn /\ WriteOn
    BY <1>5, Rests DEF SealWriters
  <2>2. CodeOn
    BY <1>5 DEF SealWriters, CodeOn, Encoding, In, TypeOK
  <2>3. "seal" \in DOMAIN Ahead /\ c \in Ahead["seal"] /\ c \notin Ahead'["seal"]
    BY <1>5 DEF SealWriters, Ahead, TypeOK
  <2> QED BY <2>1, <2>2, <2>3, AheadDiffers DEF Onward
<1> QED BY <1>1, <1>2, <1>3, <1>4, <1>5 DEF ComputeStep

LEMMA WriterAdvances ==
    ASSUME TypeOK, Located, NEW w \in WWorker, WriteStep(w)
    PROVE  Onward /\ Ahead' # Ahead
<1> USE DEF main_vars, recv_vars, pool_vars, comp_vars, write_vars
<1>1. CASE WriteTake(w)
  <2>1. MainOn /\ RecvOn /\ CodeOn
    BY <1>1, Rests DEF WriteTake
  <2>2. Head(wqueue) \in Task /\ stage[Head(wqueue)] = "wqueue"
    BY <1>1 DEF WriteTake, Located, InOnePlace, TypeOK
  <2>3. StageOn /\ BufferOn
    BY <1>1, <2>2 DEF WriteTake, StageOn, Moves, BufferOn, NoBuffer, Filling, In, TypeOK
  <2>4. WriteOn
    BY <1>1, <2>2 DEF WriteTake, WriteOn, Storing, In, TypeOK
  <2>5. "take" \in DOMAIN Ahead /\ Head(wqueue) \in Ahead["take"] /\ Head(wqueue) \notin Ahead'["take"]
    BY <1>1, <2>2 DEF WriteTake, Ahead, In, TypeOK
  <2> QED BY <2>1, <2>2, <2>3, <2>4, <2>5, AheadDiffers DEF Onward
<1>2. CASE WriteFile(w)
  <2>1. MainOn /\ StageOn /\ BufferOn /\ RecvOn /\ CodeOn
    BY <1>2, Rests DEF WriteFile
  <2>2. WriteOn
    BY <1>2 DEF WriteFile, WriteOn, Storing, In, TypeOK
  <2>3. wtask[w] \in Storing /\ stage'[wtask[w]] = "writing"
    BY <1>2 DEF WriteFile, Storing, Located, InOnePlace, Writing
  <2>4. wtask[w] \notin Storing'
    BY <1>2 DEF WriteFile, Storing, Located, InOnePlace, Writing, TypeOK
  <2>5. "write" \in DOMAIN Ahead /\ wtask[w] \in Ahead["write"] /\ wtask[w] \notin Ahead'["write"]
    BY <1>2, <2>3, <2>4 DEF Ahead, In
  <2> QED BY <2>1, <2>2, <2>3, <2>4, <2>5, AheadDiffers DEF Onward
<1>3. CASE ReleaseBlock(w)
  <2>1. MainOn /\ RecvOn /\ CodeOn
    BY <1>3, Rests DEF ReleaseBlock
  <2>2. wtask[w] \in Task /\ stage[wtask[w]] = "writing"
    BY <1>3 DEF ReleaseBlock, Located, InOnePlace, Writing
  <2>3. StageOn /\ BufferOn
    BY <1>3, <2>2 DEF ReleaseBlock, StageOn, Moves, BufferOn, NoBuffer, Filling, In, TypeOK
  <2>4. WriteOn
    BY <1>3, <2>2 DEF ReleaseBlock, WriteOn, Storing, In, TypeOK
  <2>5. "release" \in DOMAIN Ahead /\ wtask[w] \in Ahead["release"] /\ wtask[w] \notin Ahead'["release"]
    BY <1>3, <2>2 DEF ReleaseBlock, Ahead, TypeOK
  <2> QED BY <2>1, <2>2, <2>3, <2>4, <2>5, AheadDiffers DEF Onward
<1>4. CASE WriteDrained(w)
  <2>1. MainOn /\ StageOn /\ BufferOn /\ RecvOn /\ CodeOn
    BY <1>4, Rests DEF WriteDrained
  <2>2. WriteOn
    BY <1>4 DEF WriteDrained, WriteOn, Storing, In, TypeOK
  <2>3. "leave" \in DOMAIN Ahead /\ w \in Ahead["leave"] /\ w \notin Ahead'["leave"]
    BY <1>4 DEF WriteDrained, Ahead, TypeOK
  <2> QED BY <2>1, <2>2, <2>3, AheadDiffers DEF Onward
<1> QED BY <1>1, <1>2, <1>3, <1>4 DEF WriteStep

\* What is ahead of the node only ever shrinks, and every step of every thread,
\* and every break of a connection, takes something from it: a task that has
\* been read, coded, stored or released is never handled again.  With finitely
\* many peers, tasks and workers start_serving cannot run for ever, whatever the
\* order of the steps; with NeverStuckHolds, it can only stop where it returns.
THEOREM EveryStepCounts == Spec => [][Advance]_vars
<1>1. TypeOK /\ Located /\ Next => Advance
  <2> SUFFICES ASSUME TypeOK, Located, Next PROVE Advance
    OBVIOUS
  <2>1. Onward /\ Ahead' # Ahead
    BY MainAdvances, MasterAdvances, ReceiverAdvances, ComputerAdvances, WriterAdvances
       DEF Next
  <2> QED BY <2>1, AheadShrinks DEF Advance
<1>2. TypeOK /\ Located /\ [Next]_vars => [Advance]_vars
  BY <1>1
<1> QED BY <1>2, TypeCorrect, PTL DEF Spec

\* Finitely much is ahead of a node with finitely many peers, tasks and workers,
\* so that the theorem above bounds the steps of a run.
THEOREM AheadIsFinite ==
    ASSUME IsFiniteSet(Peer), IsFiniteSet(Task), IsFiniteSet(WWorker)
    PROVE  \A k \in DOMAIN Ahead : IsFiniteSet(Ahead[k])
<1>1. IsFiniteSet(CWorker)
  BY ServerAssumption DEF ServerAssumption
<1>2. PhaseNo \in Int /\ MasterNo \in Int
  BY DEF PhaseNo, MasterNo
<1>3. IsFiniteSet(PhaseNo..4) /\ IsFiniteSet(MasterNo..2)
  BY <1>2, FS_Interval
<1>4. /\ Ahead["gate"] \in SUBSET Peer
      /\ Ahead["close"] \in SUBSET Peer
      /\ Ahead["break"] \in SUBSET Peer
      /\ Ahead["end"] \in SUBSET Peer
  BY DEF Ahead
<1>5. /\ Ahead["drain"] \in SUBSET CWorker
      /\ Ahead["seal"] \in SUBSET CWorker
      /\ Ahead["leave"] \in SUBSET WWorker
  BY DEF Ahead
<1>6. /\ NoBuffer \in SUBSET Task /\ Filling \in SUBSET Task
      /\ Encoding \in SUBSET Task /\ Storing \in SUBSET Task
      /\ \A S : In(S) \in SUBSET Task
  BY DEF NoBuffer, Filling, Encoding, Storing, In
<1>7. /\ Ahead["header"] \in SUBSET Task
      /\ Ahead["block"] \in SUBSET Task
      /\ Ahead["chunk"] \in SUBSET Task
      /\ Ahead["hand"] \in SUBSET Task
      /\ Ahead["code"] \in SUBSET Task
      /\ Ahead["encode"] \in SUBSET Task
  BY <1>6 DEF Ahead
<1>8. /\ Ahead["forward"] \in SUBSET Task
      /\ Ahead["take"] \in SUBSET Task
      /\ Ahead["write"] \in SUBSET Task
      /\ Ahead["release"] \in SUBSET Task
  BY <1>6 DEF Ahead
<1>9. DOMAIN Ahead = {"phases", "master", "gate", "header", "block", "chunk", "hand",
          "code", "encode", "forward", "take", "write", "release", "close", "break",
          "end", "drain", "seal", "leave"}
  BY DEF Ahead
<1>10. Ahead["phases"] = PhaseNo..4 /\ Ahead["master"] = MasterNo..2
  BY DEF Ahead
<1>11. /\ \A S \in SUBSET Peer : IsFiniteSet(S)
       /\ \A S \in SUBSET Task : IsFiniteSet(S)
       /\ \A S \in SUBSET CWorker : IsFiniteSet(S)
       /\ \A S \in SUBSET WWorker : IsFiniteSet(S)
  BY <1>1, FS_Subset
<1>12. ASSUME NEW k \in {"gate", "close", "break", "end", "drain", "seal", "leave"}
       PROVE  IsFiniteSet(Ahead[k])
  BY <1>4, <1>5, <1>11
<1>13. ASSUME NEW k \in {"header", "block", "chunk", "hand", "code", "encode", "forward",
                         "take", "write", "release"}
       PROVE  IsFiniteSet(Ahead[k])
  BY <1>7, <1>8, <1>11
<1> QED BY <1>3, <1>9, <1>10, <1>12, <1>13
=============================================================================
