----------------------------- MODULE ThreadPool -----------------------------
(***************************************************************************)
(* include/thread_pool.hh: the queue every thread group of a node is built *)
(* on (TCPClient, TCPServer, ComputeWorker, WriteWorker all inherit it).   *)
(*                                                                         *)
(* The mutex and the condition variable are explicit.  A critical section  *)
(* is two steps, taking queue_mtx and the body that ends by releasing it;  *)
(* the notification that follows the unlock is a third one, so every       *)
(* thread may run in between.                                              *)
(*                                                                         *)
(* The client is the most general one: any producer may call add_task and  *)
(* any closer set_finished at any time, as in the program, where several   *)
(* receivers and workers feed one queue and several workers seal it.       *)
(***************************************************************************)
EXTENDS Naturals, Sequences, FiniteSets

CONSTANTS Producer,     \* threads that call add_task
          Closer,       \* threads that call set_finished, once each
          Worker,       \* the pool's own threads, running run()
          Task,         \* the messages, each added at most once
          NoThread,     \* owner of a free mutex
          NoTask,       \* contents of a producer's argument slot between calls
          MaxSpurious   \* bound: spurious wake-ups of condition_variable::wait

ASSUME ThreadsAssumption ==
    /\ IsFiniteSet(Producer) /\ IsFiniteSet(Worker)
    /\ Producer \cap Closer = {}
    /\ Producer \cap Worker = {}
    /\ Closer \cap Worker = {}
    /\ NoThread \notin Producer \cup Closer \cup Worker
    /\ NoTask \notin Task
    /\ MaxSpurious \in Nat

VARIABLES
    queue_mtx,      \* the thread that holds the mutex, or NoThread
    task_queue,
    seal_flag,
    pc,             \* where each producer, closer and worker is
    msg,            \* the argument of each producer's add_task in progress
    main,           \* the owner of the pool: start_threads, wait_for_finish
    spurious,       \* spurious wake-ups so far
    unsent,         \* tasks no producer has begun to add
    added, taken    \* history: tasks pushed, and tasks handed to run()

vars == <<queue_mtx, task_queue, seal_flag, pc, msg, main, spurious,
          unsent, added, taken>>

Thread == Producer \cup Closer \cup Worker

\* The threads blocked in queue_cv.wait.
Waiting == {w \in Worker : pc[w] = "waiting"}

\* Workers that will look at the queue again without being notified.
Awake == {w \in Worker : pc[w] \in {"ready", "check", "work"}}

\* Producers that have pushed and still owe queue_cv.notify_one().
Notifying == {p \in Producer : pc[p] = "notify"}

Init ==
    /\ queue_mtx = NoThread
    /\ task_queue = <<>>
    /\ seal_flag = FALSE
    /\ pc = [x \in Thread |-> IF x \in Worker THEN "unborn" ELSE "idle"]
    /\ msg = [p \in Producer |-> NoTask]
    /\ main = "start"
    /\ spurious = 0
    /\ unsent = Task
    /\ added = <<>>
    /\ taken = <<>>

-----------------------------------------------------------------------------
(* add_task *)

AddLock(p) ==
    /\ pc[p] = "idle"
    /\ queue_mtx = NoThread
    /\ \E t \in unsent :
          /\ msg' = [msg EXCEPT ![p] = t]
          /\ unsent' = unsent \ {t}
    /\ queue_mtx' = p
    /\ pc' = [pc EXCEPT ![p] = "push"]
    /\ UNCHANGED <<task_queue, seal_flag, main, spurious, added, taken>>

AddPush(p) ==
    /\ pc[p] = "push"
    /\ task_queue' = Append(task_queue, msg[p])
    /\ added' = Append(added, msg[p])
    /\ msg' = [msg EXCEPT ![p] = NoTask]
    /\ queue_mtx' = NoThread
    /\ pc' = [pc EXCEPT ![p] = "notify"]
    /\ UNCHANGED <<seal_flag, main, spurious, unsent, taken>>

\* Fault: no notification.
AddForgetNotify(p) ==
    /\ pc[p] = "notify"
    /\ pc' = [pc EXCEPT ![p] = "idle"]
    /\ UNCHANGED <<queue_mtx, task_queue, seal_flag, msg, main, spurious,
                   unsent, added, taken>>

\* notify_one wakes one blocked worker, and is lost if there is none.
AddNotify(p) ==
    /\ pc[p] = "notify"
    /\ \/ /\ Waiting = {}
          /\ pc' = [pc EXCEPT ![p] = "idle"]
       \/ \E w \in Waiting :
             pc' = [pc EXCEPT ![p] = "idle", ![w] = "ready"]
    /\ UNCHANGED <<queue_mtx, task_queue, seal_flag, msg, main, spurious,
                   unsent, added, taken>>

-----------------------------------------------------------------------------
(* get_task, called in a loop by run() *)

GetLock(w) ==
    /\ pc[w] = "ready"
    /\ queue_mtx = NoThread
    /\ queue_mtx' = w
    /\ pc' = [pc EXCEPT ![w] = "check"]
    /\ UNCHANGED <<task_queue, seal_flag, msg, main, spurious, unsent, added,
                   taken>>

\* Fault: the wait's predicate forgets the seal.
GetWaitSealed(w) ==
    /\ pc[w] = "check"
    /\ task_queue = <<>>
    /\ queue_mtx' = NoThread
    /\ pc' = [pc EXCEPT ![w] = "waiting"]
    /\ UNCHANGED <<task_queue, seal_flag, msg, main, spurious, unsent, added,
                   taken>>

\* The wait releases the mutex and blocks in one step.
GetWait(w) ==
    /\ pc[w] = "check"
    /\ ~seal_flag
    /\ task_queue = <<>>
    /\ queue_mtx' = NoThread
    /\ pc' = [pc EXCEPT ![w] = "waiting"]
    /\ UNCHANGED <<task_queue, seal_flag, msg, main, spurious, unsent, added,
                   taken>>

\* A woken worker takes the mutex again (GetLock) and tests its predicate.
SpuriousWakeup(w) ==
    /\ pc[w] = "waiting"
    /\ spurious < MaxSpurious
    /\ spurious' = spurious + 1
    /\ pc' = [pc EXCEPT ![w] = "ready"]
    /\ UNCHANGED <<queue_mtx, task_queue, seal_flag, msg, main, unsent, added,
                   taken>>

\* Fault: the newest task is taken.
GetTakeLast(w) ==
    /\ pc[w] = "check"
    /\ task_queue # <<>>
    /\ taken' = Append(taken, task_queue[Len(task_queue)])
    /\ task_queue' = SubSeq(task_queue, 1, Len(task_queue) - 1)
    /\ queue_mtx' = NoThread
    /\ pc' = [pc EXCEPT ![w] = "work"]
    /\ UNCHANGED <<seal_flag, msg, main, spurious, unsent, added>>

GetTake(w) ==
    /\ pc[w] = "check"
    /\ task_queue # <<>>
    /\ taken' = Append(taken, Head(task_queue))
    /\ task_queue' = Tail(task_queue)
    /\ queue_mtx' = NoThread
    /\ pc' = [pc EXCEPT ![w] = "work"]
    /\ UNCHANGED <<seal_flag, msg, main, spurious, unsent, added>>

\* Fault: a sealed queue is left with tasks in it.
GetLeaveTasks(w) ==
    /\ pc[w] = "check"
    /\ seal_flag
    /\ queue_mtx' = NoThread
    /\ pc' = [pc EXCEPT ![w] = "exited"]
    /\ UNCHANGED <<task_queue, seal_flag, msg, main, spurious, unsent, added,
                   taken>>

\* Sealed and empty: get_task returns Msg() and run() leaves its loop.
GetEmpty(w) ==
    /\ pc[w] = "check"
    /\ seal_flag
    /\ task_queue = <<>>
    /\ queue_mtx' = NoThread
    /\ pc' = [pc EXCEPT ![w] = "exited"]
    /\ UNCHANGED <<task_queue, seal_flag, msg, main, spurious, unsent, added,
                   taken>>

\* The body of run()'s loop, whatever the pool's owner made it.
Work(w) ==
    /\ pc[w] = "work"
    /\ pc' = [pc EXCEPT ![w] = "ready"]
    /\ UNCHANGED <<queue_mtx, task_queue, seal_flag, msg, main, spurious,
                   unsent, added, taken>>

-----------------------------------------------------------------------------
(* set_finished *)

SealLock(c) ==
    /\ pc[c] = "idle"
    /\ queue_mtx = NoThread
    /\ queue_mtx' = c
    /\ pc' = [pc EXCEPT ![c] = "seal"]
    /\ UNCHANGED <<task_queue, seal_flag, msg, main, spurious, unsent, added,
                   taken>>

SealSet(c) ==
    /\ pc[c] = "seal"
    /\ seal_flag' = TRUE
    /\ queue_mtx' = NoThread
    /\ pc' = [pc EXCEPT ![c] = "notifyall"]
    /\ UNCHANGED <<task_queue, msg, main, spurious, unsent, added, taken>>

\* Fault: notify_one instead of notify_all.
SealNotifyOne(c) ==
    /\ pc[c] = "notifyall"
    /\ \/ /\ Waiting = {}
          /\ pc' = [pc EXCEPT ![c] = "done"]
       \/ \E w \in Waiting :
             pc' = [pc EXCEPT ![c] = "done", ![w] = "ready"]
    /\ UNCHANGED <<queue_mtx, task_queue, seal_flag, msg, main, spurious,
                   unsent, added, taken>>

SealNotifyAll(c) ==
    /\ pc[c] = "notifyall"
    /\ pc' = [x \in Thread |-> IF x = c THEN "done"
                               ELSE IF x \in Waiting THEN "ready"
                               ELSE pc[x]]
    /\ UNCHANGED <<queue_mtx, task_queue, seal_flag, msg, main, spurious,
                   unsent, added, taken>>

-----------------------------------------------------------------------------
(* start_threads and wait_for_finish *)

StartThread(w) ==
    /\ main = "start"
    /\ pc[w] = "unborn"
    /\ pc' = [pc EXCEPT ![w] = "ready"]
    /\ UNCHANGED <<queue_mtx, task_queue, seal_flag, msg, main, spurious,
                   unsent, added, taken>>

AllStarted ==
    /\ main = "start"
    /\ \A w \in Worker : pc[w] # "unborn"
    /\ main' = "join"
    /\ UNCHANGED <<queue_mtx, task_queue, seal_flag, pc, msg, spurious,
                   unsent, added, taken>>

JoinAll ==
    /\ main = "join"
    /\ \A w \in Worker : pc[w] = "exited"
    /\ main' = "joined"
    /\ UNCHANGED <<queue_mtx, task_queue, seal_flag, pc, msg, spurious,
                   unsent, added, taken>>

-----------------------------------------------------------------------------

AddFinish(p) == AddPush(p) \/ AddNotify(p)
SealFinish(c) == SealSet(c) \/ SealNotifyAll(c)
WorkerStep(w) ==
    GetLock(w) \/ GetWait(w) \/ GetTake(w) \/ GetEmpty(w) \/ Work(w)
MainStep == AllStarted \/ JoinAll \/ \E w \in Worker : StartThread(w)

Next ==
    \/ \E p \in Producer : AddLock(p) \/ AddFinish(p)
    \/ \E c \in Closer : SealLock(c) \/ SealFinish(c)
    \/ \E w \in Worker : WorkerStep(w) \/ SpuriousWakeup(w)
    \/ MainStep

Spec == Init /\ [][Next]_vars

\* Every thread keeps running once it is inside a call of the pool, and so
\* do the workers and the owner.  Nobody is obliged to add a task or to seal.
FairSpec ==
    /\ Spec
    /\ \A p \in Producer : WF_vars(AddFinish(p))
    /\ \A c \in Closer : WF_vars(SealFinish(c))
    /\ \A w \in Worker : WF_vars(WorkerStep(w))
    /\ WF_vars(MainStep)

-----------------------------------------------------------------------------
(* Properties *)

\* The program counters a thread of each kind can have.
TypeOK ==
    /\ queue_mtx \in Thread \cup {NoThread}
    /\ task_queue \in Seq(Task)
    /\ seal_flag \in BOOLEAN
    /\ pc \in [Thread -> {"idle", "push", "notify", "seal", "notifyall", "done",
                          "unborn", "ready", "check", "waiting", "work",
                          "exited"}]
    /\ \A p \in Producer : pc[p] \in {"idle", "push", "notify"}
    /\ \A c \in Closer : pc[c] \in {"idle", "seal", "notifyall", "done"}
    /\ \A w \in Worker :
          pc[w] \in {"unborn", "ready", "check", "waiting", "work", "exited"}
    /\ msg \in [Producer -> Task \cup {NoTask}]
    /\ \A p \in Producer : pc[p] = "push" => msg[p] \in Task
    /\ main \in {"start", "join", "joined"}
    /\ spurious \in Nat
    /\ unsent \subseteq Task
    /\ added \in Seq(Task)
    /\ taken \in Seq(Task)

\* Every task pushed is either still queued or was handed out, once, and tasks
\* are handed out in the order of the pushes, whatever the interleaving.
HandedOutInOrder == added = taken \o task_queue

\* No wake-up is lost: while some worker sleeps, every queued task is covered
\* by a notification on its way or by a worker that will come back by itself,
\* so no task waits beside a worker that could have run it.
WakeupsCoverBacklog ==
    Waiting # {} =>
        Len(task_queue) <= Cardinality(Notifying) + Cardinality(Awake)

\* Once the pool is sealed, a worker can be asleep only until the closer that
\* is between its unlock and notify_all reaches notify_all.
SealWakesEveryone ==
    seal_flag /\ Waiting # {} => \E c \in Closer : pc[c] = "notifyall"

\* wait_for_finish returns only when every task pushed before the last worker
\* saw the seal has been handed out: what is left in the queue was added later.
\* Stated on steps: the last exit of a worker leaves nothing behind.
NothingLeftAtExit ==
    [][(\E w \in Worker : pc[w] # "exited" /\ pc'[w] = "exited")
          => added = taken /\ seal_flag]_vars

\* A task that is in the queue while the pool is not sealed is handed out in
\* the end: sealing never discards it.
QueuedBeforeSealIsTaken ==
    \A t \in Task :
        (~seal_flag /\ \E i \in DOMAIN added : added[i] = t)
            ~> (\E i \in DOMAIN taken : taken[i] = t)

\* After set_finished all workers stop and wait_for_finish returns.
SealedPoolFinishes == seal_flag ~> main = "joined"

\* The pool implements the sealable FIFO.
Abstract == INSTANCE TaskQueue WITH
                queue <- task_queue,
                sealed <- seal_flag,
                left <- {w \in Worker : pc[w] = "exited"}

ImplementsTaskQueue == Abstract!Spec
=============================================================================
