-------------------------- MODULE ThreadPoolProofs --------------------------
(***************************************************************************)
(* Theorems about ThreadPool, for any number of producers, closers,        *)
(* workers and tasks, and any number of spurious wake-ups.                 *)
(***************************************************************************)
EXTENDS ThreadPool, FiniteSetTheorems, SequenceTheorems, TLAPS

\* Type correctness: every step keeps every variable in its range, and the
\* argument slot of a producer inside its critical section holds a task.
THEOREM TypeCorrect == Spec => []TypeOK
<1> USE ThreadsAssumption DEF ThreadsAssumption
<1>1. Init => TypeOK
  <2> SUFFICES ASSUME Init PROVE TypeOK
    OBVIOUS
  <2> USE DEF Init, Thread
  <2>1. pc \in [Thread -> {"idle", "push", "notify", "seal", "notifyall",
                          "done", "unborn", "ready", "check", "waiting",
                          "work", "exited"}]
    OBVIOUS
  <2>2. /\ \A x \in Producer \cup Closer : pc[x] = "idle"
        /\ \A w \in Worker : pc[w] = "unborn"
    OBVIOUS
  <2>3. msg \in [Producer -> Task \cup {NoTask}]
    OBVIOUS
  <2>4. <<>> \in Seq(Task)
    OBVIOUS
  <2> QED
    BY <2>1, <2>2, <2>3, <2>4 DEF TypeOK
<1>2. TypeOK /\ [Next]_vars => TypeOK'
  <2> SUFFICES ASSUME TypeOK, [Next]_vars PROVE TypeOK'
    OBVIOUS
  <2> USE DEF TypeOK, Thread
  <2>1. ASSUME NEW p \in Producer, AddLock(p) PROVE TypeOK'
    BY <2>1 DEF AddLock
  <2>2. ASSUME NEW p \in Producer, AddPush(p) PROVE TypeOK'
    BY <2>2 DEF AddPush
  <2>3. ASSUME NEW p \in Producer, AddNotify(p) PROVE TypeOK'
    BY <2>3 DEF AddNotify, Waiting
  <2>4. ASSUME NEW w \in Worker, GetLock(w) PROVE TypeOK'
    BY <2>4 DEF GetLock
  <2>5. ASSUME NEW w \in Worker, GetWait(w) PROVE TypeOK'
    BY <2>5 DEF GetWait
  <2>6. ASSUME NEW w \in Worker, SpuriousWakeup(w) PROVE TypeOK'
    BY <2>6 DEF SpuriousWakeup
  <2>7. ASSUME NEW w \in Worker, GetTake(w) PROVE TypeOK'
    BY <2>7 DEF GetTake
  <2>8. ASSUME NEW w \in Worker, GetEmpty(w) PROVE TypeOK'
    BY <2>8 DEF GetEmpty
  <2>9. ASSUME NEW w \in Worker, Work(w) PROVE TypeOK'
    BY <2>9 DEF Work
  <2>10. ASSUME NEW c \in Closer, SealLock(c) PROVE TypeOK'
    BY <2>10 DEF SealLock
  <2>11. ASSUME NEW c \in Closer, SealSet(c) PROVE TypeOK'
    BY <2>11 DEF SealSet
  <2>12. ASSUME NEW c \in Closer, SealNotifyAll(c) PROVE TypeOK'
    BY <2>12 DEF SealNotifyAll, Waiting
  <2>13. ASSUME NEW w \in Worker, StartThread(w) PROVE TypeOK'
    BY <2>13 DEF StartThread
  <2>14. CASE AllStarted
    BY <2>14 DEF AllStarted
  <2>15. CASE JoinAll
    BY <2>15 DEF JoinAll
  <2>16. CASE UNCHANGED vars
    BY <2>16 DEF vars
  <2> QED
    BY <2>1, <2>2, <2>3, <2>4, <2>5, <2>6, <2>7, <2>8, <2>9, <2>10, <2>11,
       <2>12, <2>13, <2>14, <2>15, <2>16
    DEF Next, AddFinish, WorkerStep, SealFinish, MainStep
<1> QED BY <1>1, <1>2, PTL DEF Spec

-----------------------------------------------------------------------------

\* thread_pool.hh:27,34,62: the thread inside a critical section of the pool
\* is the one that holds queue_mtx.
MutualExclusion ==
    \A x \in Thread : pc[x] \in {"push", "check", "seal"} => queue_mtx = x

\* The critical sections of add_task, get_task and set_finished exclude each
\* other (thread_pool.hh:27, 34, 62).
THEOREM MutualExclusionHolds == Spec => []MutualExclusion
<1> USE ThreadsAssumption DEF ThreadsAssumption
<1>1. Init => MutualExclusion
  BY DEF Init, MutualExclusion, Thread
<1>2. TypeOK /\ MutualExclusion /\ [Next]_vars => MutualExclusion'
  <2> SUFFICES ASSUME TypeOK, MutualExclusion, [Next]_vars
               PROVE  MutualExclusion'
    OBVIOUS
  <2> USE DEF TypeOK, MutualExclusion, Thread
  <2>1. ASSUME NEW p \in Producer, AddLock(p) PROVE MutualExclusion'
    BY <2>1 DEF AddLock
  <2>2. ASSUME NEW p \in Producer, AddPush(p) PROVE MutualExclusion'
    BY <2>2 DEF AddPush
  <2>3. ASSUME NEW p \in Producer, AddNotify(p) PROVE MutualExclusion'
    BY <2>3 DEF AddNotify, Waiting
  <2>4. ASSUME NEW w \in Worker, WorkerStep(w) \/ SpuriousWakeup(w)
        PROVE  MutualExclusion'
    BY <2>4 DEF WorkerStep, GetLock, GetWait, GetTake, GetEmpty, Work,
                SpuriousWakeup
  <2>5. ASSUME NEW c \in Closer, SealLock(c) \/ SealSet(c)
        PROVE  MutualExclusion'
    BY <2>5 DEF SealLock, SealSet
  <2>6. ASSUME NEW c \in Closer, SealNotifyAll(c) PROVE MutualExclusion'
    BY <2>6 DEF SealNotifyAll, Waiting
  <2>7. CASE MainStep
    BY <2>7 DEF MainStep, StartThread, AllStarted, JoinAll
  <2>8. CASE UNCHANGED vars
    BY <2>8 DEF vars
  <2> QED
    BY <2>1, <2>2, <2>3, <2>4, <2>5, <2>6, <2>7, <2>8
    DEF Next, AddFinish, SealFinish
<1> QED BY <1>1, <1>2, TypeCorrect, PTL DEF Spec

-----------------------------------------------------------------------------

\* Pushing at the back of the queue appends to the concatenation.
LEMMA PushAppends ==
    ASSUME NEW S, NEW s \in Seq(S), NEW q \in Seq(S), NEW e \in S
    PROVE  s \o Append(q, e) = Append(s \o q, e)
  BY SMT

\* Moving the head of the queue to the end of the history changes nothing.
LEMMA HeadMoves ==
    ASSUME NEW S, NEW s \in Seq(S), NEW q \in Seq(S), q # <<>>
    PROVE  Append(s, Head(q)) \o Tail(q) = s \o q
  BY SMT

\* add_task and get_task together hand every pushed task out once, in the order
\* of the pushes (thread_pool.hh:28 and 39-40).
THEOREM HandedOutInOrderHolds == Spec => []HandedOutInOrder
<1>1. Init => HandedOutInOrder
  BY DEF Init, HandedOutInOrder
<1>2. TypeOK /\ HandedOutInOrder /\ [Next]_vars => HandedOutInOrder'
  <2> SUFFICES ASSUME TypeOK, HandedOutInOrder, [Next]_vars
               PROVE  HandedOutInOrder'
    OBVIOUS
  <2>1. ASSUME NEW p \in Producer, AddPush(p) PROVE HandedOutInOrder'
    <3>1. msg[p] \in Task /\ task_queue \in Seq(Task) /\ taken \in Seq(Task)
      BY <2>1 DEF TypeOK, AddPush
    <3>2. taken \o Append(task_queue, msg[p])
            = Append(taken \o task_queue, msg[p])
      BY <3>1, PushAppends
    <3> QED
      BY <3>2, <2>1 DEF AddPush, HandedOutInOrder
  <2>2. ASSUME NEW w \in Worker, GetTake(w) PROVE HandedOutInOrder'
    <3>1. task_queue \in Seq(Task) /\ taken \in Seq(Task) /\ task_queue # <<>>
      BY <2>2 DEF TypeOK, GetTake
    <3>2. Append(taken, Head(task_queue)) \o Tail(task_queue)
            = taken \o task_queue
      BY <3>1, HeadMoves
    <3> QED
      BY <3>2, <2>2 DEF GetTake, HandedOutInOrder
  <2>3. CASE UNCHANGED <<added, taken, task_queue>>
    BY <2>3 DEF HandedOutInOrder
  <2> QED
    BY <2>1, <2>2, <2>3
    DEF Next, AddFinish, SealFinish, MainStep, WorkerStep, AddLock, AddNotify,
        GetLock, GetWait, GetEmpty, Work, SpuriousWakeup, SealLock, SealSet,
        SealNotifyAll, StartThread, AllStarted, JoinAll, vars
<1> QED BY <1>1, <1>2, TypeCorrect, PTL DEF Spec

\* A worker that exits leaves an empty, sealed pool behind, in which every task
\* pushed so far has been handed out (thread_pool.hh:35-44).
THEOREM NothingLeftAtExitHolds == Spec => NothingLeftAtExit
<1>1. TypeOK /\ HandedOutInOrder /\ [Next]_vars
        => [(\E w \in Worker : pc[w] # "exited" /\ pc'[w] = "exited")
               => added = taken /\ seal_flag]_vars
  <2> SUFFICES ASSUME TypeOK, HandedOutInOrder, Next,
                      NEW w \in Worker, pc[w] # "exited", pc'[w] = "exited"
               PROVE  added = taken /\ seal_flag
    OBVIOUS
  <2>1. GetEmpty(w)
    <3> USE ThreadsAssumption DEF ThreadsAssumption, TypeOK, Thread
    <3>1. ASSUME NEW p \in Producer, AddLock(p) \/ AddFinish(p) PROVE FALSE
      BY <3>1 DEF AddLock, AddFinish, AddPush, AddNotify, Waiting
    <3>2. ASSUME NEW c \in Closer, SealLock(c) \/ SealFinish(c) PROVE FALSE
      BY <3>2 DEF SealLock, SealFinish, SealSet, SealNotifyAll, Waiting
    <3>3. CASE MainStep
      BY <3>3 DEF MainStep, StartThread, AllStarted, JoinAll
    <3>4. ASSUME NEW v \in Worker, WorkerStep(v) \/ SpuriousWakeup(v)
          PROVE  GetEmpty(w)
      BY <3>4 DEF WorkerStep, SpuriousWakeup, GetLock, GetWait, GetTake,
                  GetEmpty, Work
    <3> QED
      BY <3>1, <3>2, <3>3, <3>4 DEF Next
  <2> QED
    BY <2>1, ConcatEmptySeq DEF GetEmpty, HandedOutInOrder, TypeOK
<1> QED
  BY <1>1, TypeCorrect, HandedOutInOrderHolds, PTL DEF Spec, NothingLeftAtExit

-----------------------------------------------------------------------------

\* After the seal a worker sleeps only while a closer still owes notify_all
\* (thread_pool.hh:35, 63-65).
THEOREM SealWakesEveryoneHolds == Spec => []SealWakesEveryone
<1> USE ThreadsAssumption DEF ThreadsAssumption, Thread
<1>1. Init => SealWakesEveryone
  BY DEF Init, SealWakesEveryone
<1>2. TypeOK /\ SealWakesEveryone /\ [Next]_vars => SealWakesEveryone'
  <2> SUFFICES ASSUME TypeOK, SealWakesEveryone, [Next]_vars
               PROVE  SealWakesEveryone'
    OBVIOUS
  <2> USE DEF TypeOK, SealWakesEveryone, Waiting
  <2>1. ASSUME NEW p \in Producer, AddLock(p) \/ AddPush(p)
        PROVE  SealWakesEveryone'
    BY <2>1 DEF AddLock, AddPush
  <2>2. ASSUME NEW p \in Producer, AddNotify(p) PROVE SealWakesEveryone'
    BY <2>2 DEF AddNotify
  <2>3. ASSUME NEW w \in Worker, WorkerStep(w) \/ SpuriousWakeup(w)
        PROVE  SealWakesEveryone'
    BY <2>3 DEF WorkerStep, SpuriousWakeup, GetLock, GetWait, GetTake,
                GetEmpty, Work
  <2>4. ASSUME NEW c \in Closer, SealLock(c) PROVE SealWakesEveryone'
    BY <2>4 DEF SealLock
  <2>5. ASSUME NEW c \in Closer, SealSet(c) PROVE SealWakesEveryone'
    BY <2>5 DEF SealSet
  <2>6. ASSUME NEW c \in Closer, SealNotifyAll(c) PROVE SealWakesEveryone'
    BY <2>6 DEF SealNotifyAll
  <2>7. CASE MainStep
    BY <2>7 DEF MainStep, StartThread, AllStarted, JoinAll
  <2>8. CASE UNCHANGED vars
    BY <2>8 DEF vars
  <2> QED
    BY <2>1, <2>2, <2>3, <2>4, <2>5, <2>6, <2>7, <2>8
    DEF Next, AddFinish, SealFinish
<1> QED BY <1>1, <1>2, TypeCorrect, PTL DEF Spec

-----------------------------------------------------------------------------

\* The sets counted by WakeupsCoverBacklog are finite.
LEMMA CountsAreNatural ==
    /\ IsFiniteSet(Notifying) /\ Cardinality(Notifying) \in Nat
    /\ IsFiniteSet(Awake) /\ Cardinality(Awake) \in Nat
<1>1. Notifying \in SUBSET Producer /\ Awake \in SUBSET Worker
  BY DEF Notifying, Awake
<1>2. IsFiniteSet(Producer) /\ IsFiniteSet(Worker)
  BY ThreadsAssumption DEF ThreadsAssumption
<1> QED
  BY <1>1, <1>2, FS_Subset, FS_CardinalityType

\* While a worker sleeps, every queued task has a notification on its way or a
\* worker that will come for it: no wake-up of add_task is lost
\* (thread_pool.hh:27-30 against 34-37).
THEOREM WakeupsCoverBacklogHolds == Spec => []WakeupsCoverBacklog
<1> USE ThreadsAssumption DEF ThreadsAssumption, Thread
<1>1. Init => WakeupsCoverBacklog
  BY DEF Init, WakeupsCoverBacklog, Waiting
<1>2. TypeOK /\ WakeupsCoverBacklog /\ [Next]_vars => WakeupsCoverBacklog'
  <2> SUFFICES ASSUME TypeOK, WakeupsCoverBacklog, [Next]_vars
               PROVE  WakeupsCoverBacklog'
    OBVIOUS
  <2> USE DEF TypeOK
  <2>n. /\ IsFiniteSet(Notifying) /\ Cardinality(Notifying) \in Nat
        /\ IsFiniteSet(Awake) /\ Cardinality(Awake) \in Nat
        /\ Cardinality(Notifying') \in Nat /\ Cardinality(Awake') \in Nat
        /\ Len(task_queue) \in Nat
    <3>1. /\ IsFiniteSet(Notifying') /\ IsFiniteSet(Awake')
      <4>1. Notifying' \in SUBSET Producer /\ Awake' \in SUBSET Worker
        BY DEF Notifying, Awake
      <4> QED BY <4>1, FS_Subset
    <3> QED
      BY <3>1, CountsAreNatural, FS_CardinalityType, LenProperties
  \* What the producers and workers do to the counted sets.
  <2>1. ASSUME NEW p \in Producer, AddPush(p) PROVE WakeupsCoverBacklog'
    <3>1. /\ Notifying' = Notifying \cup {p} /\ p \notin Notifying
          /\ Awake' = Awake /\ Waiting' = Waiting
      BY <2>1 DEF AddPush, Notifying, Awake, Waiting
    <3>2. Cardinality(Notifying') = Cardinality(Notifying) + 1
      BY <3>1, <2>n, FS_AddElement
    <3>3. Len(task_queue') = Len(task_queue) + 1
      BY <2>1, AppendProperties DEF AddPush
    <3> QED
      BY <3>1, <3>2, <3>3, <2>n DEF WakeupsCoverBacklog
  <2>2. ASSUME NEW p \in Producer, AddNotify(p) PROVE WakeupsCoverBacklog'
    <3>1. Notifying' = Notifying \ {p} /\ p \in Notifying
      BY <2>2 DEF AddNotify, Notifying, Waiting
    <3>2. Cardinality(Notifying') = Cardinality(Notifying) - 1
      BY <3>1, <2>n, FS_RemoveElement
    <3>3. task_queue' = task_queue
      BY <2>2 DEF AddNotify
    <3>4. CASE Waiting = {}
      <4>1. Waiting' = {}
        BY <3>4, <2>2 DEF AddNotify, Waiting
      <4> QED
        BY <4>1 DEF WakeupsCoverBacklog
    <3>5. CASE Waiting # {}
      <4>1. PICK w \in Waiting : pc' = [pc EXCEPT ![p] = "idle", ![w] = "ready"]
        BY <3>5, <2>2 DEF AddNotify
      <4>2. Awake' = Awake \cup {w} /\ w \notin Awake
        BY <4>1, <2>2 DEF Awake, Waiting
      <4>3. Cardinality(Awake') = Cardinality(Awake) + 1
        BY <4>2, <2>n, FS_AddElement
      <4> QED
        BY <4>3, <3>2, <3>3, <3>5, <2>n DEF WakeupsCoverBacklog
    <3> QED
      BY <3>4, <3>5
  <2>3. ASSUME NEW w \in Worker, GetWait(w) PROVE WakeupsCoverBacklog'
    <3>1. Len(task_queue') = 0
      BY <2>3 DEF GetWait
    <3> QED
      BY <3>1, <2>n DEF WakeupsCoverBacklog
  <2>4. ASSUME NEW w \in Worker, GetEmpty(w) PROVE WakeupsCoverBacklog'
    <3>1. Len(task_queue') = 0
      BY <2>4 DEF GetEmpty
    <3> QED
      BY <3>1, <2>n DEF WakeupsCoverBacklog
  <2>5. ASSUME NEW w \in Worker, GetTake(w) PROVE WakeupsCoverBacklog'
    <3>1. Notifying' = Notifying /\ Awake' = Awake /\ Waiting' = Waiting
      BY <2>5 DEF GetTake, Notifying, Awake, Waiting
    <3>2. Len(task_queue') = Len(task_queue) - 1
      BY <2>5, HeadTailProperties DEF GetTake
    <3> QED
      BY <3>1, <3>2, <2>n DEF WakeupsCoverBacklog
  <2>6. ASSUME NEW w \in Worker,
               SpuriousWakeup(w) \/ StartThread(w)
        PROVE  WakeupsCoverBacklog'
    <3>1. /\ Notifying' = Notifying /\ task_queue' = task_queue
          /\ Waiting' \subseteq Waiting
          /\ Awake' = Awake \cup {w} /\ w \notin Awake
      BY <2>6 DEF SpuriousWakeup, StartThread, Notifying, Awake, Waiting
    <3>2. Cardinality(Awake') = Cardinality(Awake) + 1
      BY <3>1, <2>n, FS_AddElement
    <3> QED
      BY <3>1, <3>2, <2>n DEF WakeupsCoverBacklog
  <2>7. ASSUME NEW c \in Closer, SealNotifyAll(c) PROVE WakeupsCoverBacklog'
    <3>1. Waiting' = {}
      BY <2>7 DEF SealNotifyAll, Waiting
    <3> QED
      BY <3>1 DEF WakeupsCoverBacklog
  <2>8. CASE UNCHANGED <<task_queue, Notifying, Awake, Waiting>>
    BY <2>8 DEF WakeupsCoverBacklog
  <2>9. ASSUME NEW p \in Producer, AddLock(p)
        PROVE  UNCHANGED <<task_queue, Notifying, Awake, Waiting>>
    BY <2>9 DEF AddLock, Notifying, Awake, Waiting
  <2>10. ASSUME NEW w \in Worker, GetLock(w) \/ Work(w)
         PROVE  UNCHANGED <<task_queue, Notifying, Awake, Waiting>>
    BY <2>10 DEF GetLock, Work, Notifying, Awake, Waiting
  <2>11. ASSUME NEW c \in Closer, SealLock(c) \/ SealSet(c)
         PROVE  UNCHANGED <<task_queue, Notifying, Awake, Waiting>>
    BY <2>11 DEF SealLock, SealSet, Notifying, Awake, Waiting
  <2>12. CASE AllStarted \/ JoinAll \/ UNCHANGED vars
    <3>1. UNCHANGED <<task_queue, Notifying, Awake, Waiting>>
      BY <2>12 DEF AllStarted, JoinAll, vars, Notifying, Awake, Waiting
    <3> QED BY <3>1, <2>8
  <2> QED
    BY <2>1, <2>2, <2>3, <2>4, <2>5, <2>6, <2>7, <2>8, <2>9, <2>10, <2>11,
       <2>12
    DEF Next, AddFinish, WorkerStep, SealFinish, MainStep
<1> QED BY <1>1, <1>2, TypeCorrect, PTL DEF Spec

-----------------------------------------------------------------------------

\* The pool, with its mutex, its condition variable and its notifications, does
\* nothing a sealable FIFO would not do: add_task is Add at the push, get_task
\* is Take or Leave at the body of its critical section, set_finished is Seal.
THEOREM PoolImplementsTaskQueue == Spec => ImplementsTaskQueue
<1> USE ThreadsAssumption DEF ThreadsAssumption, Thread
<1>1. Init => Abstract!Init
  BY DEF Init, Abstract!Init
<1>2. TypeOK /\ [Next]_vars => [Abstract!Next]_(Abstract!vars)
  <2> SUFFICES ASSUME TypeOK, [Next]_vars
               PROVE  Abstract!Next \/ UNCHANGED Abstract!vars
    OBVIOUS
  <2> DEFINE exited == {w \in Worker : pc[w] = "exited"}
  <2> USE DEF TypeOK
  <2>1. ASSUME NEW p \in Producer, AddPush(p) PROVE Abstract!Add
    <3>1. exited' = exited
      BY <2>1 DEF AddPush
    <3> QED
      BY <2>1, <3>1 DEF AddPush, Abstract!Add
  <2>2. ASSUME NEW w \in Worker, GetTake(w) PROVE Abstract!Take
    <3>1. exited' = exited /\ w \notin exited
      BY <2>2 DEF GetTake
    <3> QED
      BY <2>2, <3>1 DEF GetTake, Abstract!Take
  <2>3. ASSUME NEW w \in Worker, GetEmpty(w) PROVE Abstract!Leave(w)
    <3>1. exited' = exited \cup {w} /\ w \notin exited
      BY <2>3 DEF GetEmpty
    <3> QED
      BY <2>3, <3>1 DEF GetEmpty, Abstract!Leave
  <2>4. ASSUME NEW c \in Closer, SealSet(c) PROVE Abstract!Seal
    <3>1. exited' = exited
      BY <2>4 DEF SealSet
    <3> QED
      BY <2>4, <3>1 DEF SealSet, Abstract!Seal
  <2>5. ASSUME NEW p \in Producer, AddLock(p) \/ AddNotify(p)
        PROVE  UNCHANGED Abstract!vars
    <3>1. exited' = exited
      BY <2>5 DEF AddLock, AddNotify, Waiting
    <3> QED
      BY <2>5, <3>1 DEF AddLock, AddNotify, Abstract!vars
  <2>6. ASSUME NEW w \in Worker,
               GetLock(w) \/ GetWait(w) \/ Work(w) \/ SpuriousWakeup(w)
                 \/ StartThread(w)
        PROVE  UNCHANGED Abstract!vars
    <3>1. exited' = exited
      BY <2>6 DEF GetLock, GetWait, Work, SpuriousWakeup, StartThread
    <3> QED
      BY <2>6, <3>1
      DEF GetLock, GetWait, Work, SpuriousWakeup, StartThread, Abstract!vars
  <2>7. ASSUME NEW c \in Closer, SealLock(c) \/ SealNotifyAll(c)
        PROVE  UNCHANGED Abstract!vars
    <3>1. exited' = exited
      BY <2>7 DEF SealLock, SealNotifyAll, Waiting
    <3> QED
      BY <2>7, <3>1 DEF SealLock, SealNotifyAll, Abstract!vars
  <2>8. CASE AllStarted \/ JoinAll \/ UNCHANGED vars
    BY <2>8 DEF AllStarted, JoinAll, vars, Abstract!vars
  <2> QED
    BY <2>1, <2>2, <2>3, <2>4, <2>5, <2>6, <2>7, <2>8
    DEF Next, AddFinish, WorkerStep, SealFinish, MainStep, Abstract!Next
<1> QED BY <1>1, <1>2, TypeCorrect, PTL
        DEF Spec, ImplementsTaskQueue, Abstract!Spec
-----------------------------------------------------------------------------

\* Whoever holds queue_mtx is inside a critical section, and will release it.
Held == queue_mtx # NoThread => pc[queue_mtx] \in {"push", "check", "seal"}

\* No worker is started after start_threads.
StartedOnce == main # "start" => \A w \in Worker : pc[w] # "unborn"

LEMMA HeldHolds == Spec => [](Held /\ StartedOnce)
<1> USE ThreadsAssumption DEF ThreadsAssumption, Thread
<1>1. Init => Held /\ StartedOnce
  BY DEF Init, Held, StartedOnce
<1>2. TypeOK /\ MutualExclusion /\ Held /\ StartedOnce /\ [Next]_vars
         => Held' /\ StartedOnce'
  <2> SUFFICES ASSUME TypeOK, MutualExclusion, Held, StartedOnce, [Next]_vars
               PROVE  Held' /\ StartedOnce'
    OBVIOUS
  <2> USE DEF TypeOK, MutualExclusion, Held, StartedOnce
  <2>1. ASSUME NEW p \in Producer, AddLock(p) \/ AddPush(p)
        PROVE  Held' /\ StartedOnce'
    BY <2>1 DEF AddLock, AddPush
  <2>2. ASSUME NEW p \in Producer, AddNotify(p) PROVE Held' /\ StartedOnce'
    BY <2>2 DEF AddNotify, Waiting
  <2>3. ASSUME NEW w \in Worker, WorkerStep(w) \/ SpuriousWakeup(w)
        PROVE  Held' /\ StartedOnce'
    BY <2>3 DEF WorkerStep, GetLock, GetWait, GetTake, GetEmpty, Work,
                SpuriousWakeup
  <2>4. ASSUME NEW c \in Closer, SealLock(c) \/ SealSet(c)
        PROVE  Held' /\ StartedOnce'
    BY <2>4 DEF SealLock, SealSet
  <2>5. ASSUME NEW c \in Closer, SealNotifyAll(c) PROVE Held' /\ StartedOnce'
    BY <2>5 DEF SealNotifyAll, Waiting
  <2>6. CASE MainStep
    BY <2>6 DEF MainStep, StartThread, AllStarted, JoinAll
  <2>7. CASE UNCHANGED vars
    BY <2>7 DEF vars
  <2> QED
    BY <2>1, <2>2, <2>3, <2>4, <2>5, <2>6, <2>7 DEF Next, AddFinish, SealFinish
<1> QED BY <1>1, <1>2, TypeCorrect, MutualExclusionHolds, PTL DEF Spec

\* What the threads inside the pool wait for: the guards of AddFinish,
\* SealFinish, WorkerStep and MainStep.  No spurious wake-up is counted on, and
\* nobody new has to call.
Ready ==
    \/ \E p \in Producer : pc[p] \in {"push", "notify"}
    \/ \E c \in Closer : pc[c] \in {"seal", "notifyall"}
    \/ \E w \in Worker : \/ pc[w] = "ready" /\ queue_mtx = NoThread
                         \/ pc[w] \in {"check", "work"}
    \/ main = "start"
    \/ main = "join" /\ \A w \in Worker : pc[w] = "exited"

\* A pool that has been sealed or has a task in it does not come to a stop
\* before wait_for_finish returns.
NeverStuck == seal_flag \/ task_queue # <<>> => main = "joined" \/ Ready

\* However the mutex, the notifications and the sleeps of the threads go, they
\* do not all wait for each other (thread_pool.hh:25-66): what wakes a worker
\* is still on its way, or another worker will look at the queue.
THEOREM NeverStuckHolds == Spec => []NeverStuck
<1> USE ThreadsAssumption DEF ThreadsAssumption, Thread
<1>1. TypeOK /\ Held /\ StartedOnce /\ SealWakesEveryone /\ WakeupsCoverBacklog
         => NeverStuck
  <2> SUFFICES ASSUME TypeOK, Held, StartedOnce, SealWakesEveryone,
                      WakeupsCoverBacklog, seal_flag \/ task_queue # <<>>,
                      main # "joined", ~Ready
               PROVE  FALSE
    BY DEF NeverStuck
  <2>1. main = "join" /\ \A w \in Worker : pc[w] # "unborn"
    BY DEF TypeOK, Ready, StartedOnce
  <2>2. PICK w \in Worker : pc[w] # "exited"
    BY <2>1 DEF Ready
  <2>3. queue_mtx = NoThread
    BY DEF TypeOK, Held, Ready
  <2>4. pc[w] = "waiting" /\ Waiting # {}
    BY <2>1, <2>2, <2>3 DEF TypeOK, Ready, Waiting
  <2>5. Notifying = {} /\ Awake = {}
    BY <2>3 DEF Ready, Notifying, Awake
  <2>6. ~seal_flag
    BY <2>4 DEF SealWakesEveryone, Ready
  <2>7. Len(task_queue) <= 0
    BY <2>4, <2>5, FS_EmptySet DEF WakeupsCoverBacklog
  <2>8. Len(task_queue) # 0
    BY <2>6, EmptySeq DEF TypeOK
  <2> QED BY <2>7, <2>8, LenProperties DEF TypeOK
<1> QED BY <1>1, TypeCorrect, HeldHolds, SealWakesEveryoneHolds,
           WakeupsCoverBacklogHolds, PTL
=============================================================================
