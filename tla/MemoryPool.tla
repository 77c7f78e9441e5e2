----------------------------- MODULE MemoryPool -----------------------------
(***************************************************************************)
(* src/memory_pool.cc: the buffers the receivers fill and the writers give *)
(* back, behind a mutex and a condition variable.  A buffer given out      *)
(* travels with its task from a receiver to a writer, so any releaser may  *)
(* give back any buffer that is out.                                       *)
(***************************************************************************)
EXTENDS Naturals, Sequences, FiniteSets

CONSTANTS Getter,     \* threads that call get_block
          Releaser,   \* threads that call release_block
          PoolSize,   \* block_num
          NoThread    \* owner of a free mutex

ASSUME PoolAssumption ==
    /\ IsFiniteSet(Getter) /\ IsFiniteSet(Releaser)
    /\ Getter \cap Releaser = {}
    /\ NoThread \notin Getter \cup Releaser
    /\ PoolSize \in Nat \ {0}

Block == 1..PoolSize
NoBlock == 0
Thread == Getter \cup Releaser

VARIABLES
    queue_mtx, free_queue,
    pc,         \* where each thread is
    ptr,        \* argument of each releaser's release_block in progress
    out         \* buffers given out, no release_block of which is in progress

vars == <<queue_mtx, free_queue, pc, ptr, out>>

Waiting == {g \in Getter : pc[g] = "waiting"}

\* Getters that will look at the free queue again without being notified.
Awake == {g \in Getter : pc[g] \in {"woken", "check"}}

\* Releasers that have pushed and still owe queue_cv.notify_one().
Notifying == {r \in Releaser : pc[r] = "notify"}

Init ==
    /\ queue_mtx = NoThread
    /\ free_queue = [x \in Block |-> x]
    /\ pc = [x \in Thread |-> "idle"]
    /\ ptr = [r \in Releaser |-> NoBlock]
    /\ out = {}

-----------------------------------------------------------------------------
(* get_block *)

GetLock(g) ==
    /\ pc[g] \in {"idle", "woken"}
    /\ queue_mtx = NoThread
    /\ queue_mtx' = g
    /\ pc' = [pc EXCEPT ![g] = "check"]
    /\ UNCHANGED <<free_queue, ptr, out>>

\* The wait releases the mutex and blocks in one step.
GetWait(g) ==
    /\ pc[g] = "check"
    /\ free_queue = <<>>
    /\ queue_mtx' = NoThread
    /\ pc' = [pc EXCEPT ![g] = "waiting"]
    /\ UNCHANGED <<free_queue, ptr, out>>

SpuriousWakeup(g) ==
    /\ pc[g] = "waiting"
    /\ pc' = [pc EXCEPT ![g] = "woken"]
    /\ UNCHANGED <<queue_mtx, free_queue, ptr, out>>

\* Fault: the buffer given out stays in the free queue.
GetKeep(g) ==
    /\ pc[g] = "check"
    /\ free_queue # <<>>
    /\ out' = out \cup {Head(free_queue)}
    /\ queue_mtx' = NoThread
    /\ pc' = [pc EXCEPT ![g] = "idle"]
    /\ UNCHANGED <<free_queue, ptr>>

GetPop(g) ==
    /\ pc[g] = "check"
    /\ free_queue # <<>>
    /\ out' = out \cup {Head(free_queue)}
    /\ free_queue' = Tail(free_queue)
    /\ queue_mtx' = NoThread
    /\ pc' = [pc EXCEPT ![g] = "idle"]
    /\ UNCHANGED ptr

-----------------------------------------------------------------------------
(* release_block, whose look-up in ptr_map always succeeds for these buffers *)

ReleaseLock(r) ==
    /\ pc[r] = "idle"
    /\ queue_mtx = NoThread
    /\ \E x \in out :
          /\ ptr' = [ptr EXCEPT ![r] = x]
          /\ out' = out \ {x}
    /\ queue_mtx' = r
    /\ pc' = [pc EXCEPT ![r] = "push"]
    /\ UNCHANGED free_queue

ReleasePush(r) ==
    /\ pc[r] = "push"
    /\ free_queue' = Append(free_queue, ptr[r])
    /\ ptr' = [ptr EXCEPT ![r] = NoBlock]
    /\ queue_mtx' = NoThread
    /\ pc' = [pc EXCEPT ![r] = "notify"]
    /\ UNCHANGED out

\* Fault: no notification.
ReleaseForgetNotify(r) ==
    /\ pc[r] = "notify"
    /\ pc' = [pc EXCEPT ![r] = "idle"]
    /\ UNCHANGED <<queue_mtx, free_queue, ptr, out>>

\* notify_one, after the unlock, wakes one blocked getter if there is any.
ReleaseNotify(r) ==
    /\ pc[r] = "notify"
    /\ \/ /\ Waiting = {}
          /\ pc' = [pc EXCEPT ![r] = "idle"]
       \/ \E g \in Waiting :
             pc' = [pc EXCEPT ![r] = "idle", ![g] = "woken"]
    /\ UNCHANGED <<queue_mtx, free_queue, ptr, out>>

-----------------------------------------------------------------------------

Getting(g) == GetLock(g) \/ GetWait(g) \/ GetPop(g)
Releasing(r) == ReleasePush(r) \/ ReleaseNotify(r)

Next ==
    \/ \E g \in Getter : Getting(g) \/ SpuriousWakeup(g)
    \/ \E r \in Releaser : ReleaseLock(r) \/ Releasing(r)

Spec == Init /\ [][Next]_vars

\* A thread inside a call keeps running, but nobody is obliged to call, and no
\* sleeping thread to wake up by itself.  The mutex need not be fair.
FairSpec ==
    /\ Spec
    /\ \A g \in Getter : WF_vars(pc[g] = "woken" /\ GetLock(g))
    /\ \A g \in Getter : WF_vars(GetWait(g) \/ GetPop(g))
    /\ \A r \in Releaser : WF_vars(Releasing(r))

-----------------------------------------------------------------------------
(* Properties *)

Releases == {ptr[r] : r \in {r \in Releaser : pc[r] = "push"}}

TypeOK ==
    /\ queue_mtx \in Thread \cup {NoThread}
    /\ free_queue \in Seq(Block)
    /\ pc \in [Thread -> {"idle", "check", "waiting", "woken", "push", "notify"}]
    /\ \A g \in Getter : pc[g] \in {"idle", "check", "waiting", "woken"}
    /\ \A r \in Releaser : pc[r] \in {"idle", "push", "notify"}
    /\ ptr \in [Releaser -> Block \cup {NoBlock}]
    /\ \A r \in Releaser : pc[r] = "push" => ptr[r] \in Block
    /\ out \subseteq Block

\* Whatever the interleaving of the calls, a buffer is free, given out or on
\* its way back, in exactly one way: none is given to two callers or lost.
EachBufferOnce ==
    /\ \A x, y \in DOMAIN free_queue : free_queue[x] = free_queue[y] => x = y
    /\ \A x \in DOMAIN free_queue : free_queue[x] \notin out \cup Releases
    /\ \A r, s \in Releaser :
          pc[r] = "push" /\ pc[s] = "push" /\ ptr[r] = ptr[s] => r = s
    /\ out \cap Releases = {}
    /\ \A x \in Block : \/ \E y \in DOMAIN free_queue : free_queue[y] = x
                        \/ x \in out \cup Releases

\* No wake-up is lost: while a getter sleeps, every free buffer is covered by a
\* notification on its way or by a getter that is about to look at the queue.
WakeupsCoverFreeBuffers ==
    Waiting # {} =>
        Len(free_queue) <= Cardinality(Notifying) + Cardinality(Awake)

\* A receiver does not sleep for good beside a free buffer.
FreeBufferIsUsed ==
    (free_queue # <<>> /\ Waiting # {})
        ~> (free_queue = <<>> \/ Waiting = {})

\* The pool implements the atomic one TCPServer is written with.
Abstract == INSTANCE BufferPool WITH free <- free_queue,
                                     given <- out \cup Releases

ImplementsBufferPool == Abstract!Spec
=============================================================================
