-------------------------- MODULE MemoryPoolProofs --------------------------
(***************************************************************************)
(* Theorems about MemoryPool, for any number of getters, releasers and     *)
(* buffers.                                                                *)
(***************************************************************************)
EXTENDS MemoryPool, FiniteSetTheorems, SequenceTheorems, TLAPS

\* Type correctness, and the mutual exclusion a push and a pop rely on.
THEOREM TypeCorrect == Spec => []TypeOK
<1> USE PoolAssumption DEF PoolAssumption, Thread, Block, NoBlock
<1>1. Init => TypeOK
  <2> SUFFICES ASSUME Init PROVE TypeOK
    OBVIOUS
  <2>1. free_queue \in Seq(Block)
    BY DEF Init
  <2> QED BY <2>1 DEF Init, TypeOK
<1>2. TypeOK /\ [Next]_vars => TypeOK'
  <2> SUFFICES ASSUME TypeOK, [Next]_vars PROVE TypeOK'
    OBVIOUS
  <2> USE DEF TypeOK
  <2>1. ASSUME NEW g \in Getter, GetLock(g) PROVE TypeOK'
    BY <2>1 DEF GetLock
  <2>2. ASSUME NEW g \in Getter, GetWait(g) PROVE TypeOK'
    BY <2>2 DEF GetWait
  <2>3. ASSUME NEW g \in Getter, SpuriousWakeup(g) PROVE TypeOK'
    BY <2>3 DEF SpuriousWakeup
  <2>4. ASSUME NEW g \in Getter, GetPop(g) PROVE TypeOK'
    <3>1. /\ Head(free_queue) \in Block /\ Tail(free_queue) \in Seq(Block)
      BY <2>4 DEF GetPop
    <3> QED BY <2>4, <3>1 DEF GetPop
  <2>5. ASSUME NEW r \in Releaser, ReleaseLock(r) PROVE TypeOK'
    BY <2>5 DEF ReleaseLock
  <2>6. ASSUME NEW r \in Releaser, ReleasePush(r) PROVE TypeOK'
    BY <2>6 DEF ReleasePush
  <2>7. ASSUME NEW r \in Releaser, ReleaseNotify(r) PROVE TypeOK'
    BY <2>7 DEF ReleaseNotify, Waiting
  <2>8. CASE UNCHANGED vars
    BY <2>8 DEF vars
  <2> QED
    BY <2>1, <2>2, <2>3, <2>4, <2>5, <2>6, <2>7, <2>8
    DEF Next, Getting, Releasing
<1> QED BY <1>1, <1>2, PTL DEF Spec

-----------------------------------------------------------------------------

\* Every buffer is free, given out or on its way back, exactly once
\* (memory_pool.cc:18-38).
THEOREM EachBufferOnceHolds == Spec => []EachBufferOnce
<1> USE PoolAssumption DEF PoolAssumption, Thread, Block, NoBlock
<1>1. Init => EachBufferOnce
  BY DEF Init, EachBufferOnce, Releases
<1>2. TypeOK /\ EachBufferOnce /\ [Next]_vars => EachBufferOnce'
  <2> SUFFICES ASSUME TypeOK, EachBufferOnce, [Next]_vars
               PROVE  EachBufferOnce'
    OBVIOUS
  <2> USE DEF TypeOK, EachBufferOnce
  <2>1. CASE UNCHANGED <<free_queue, out, ptr>>
             /\ \A r \in Releaser : pc'[r] = "push" <=> pc[r] = "push"
    <3>1. Releases' = Releases
      BY <2>1 DEF Releases
    <3> QED BY <2>1, <3>1
  <2>2. ASSUME NEW g \in Getter, GetPop(g) PROVE EachBufferOnce'
    <3>1. /\ free_queue # <<>> /\ free_queue' = Tail(free_queue)
          /\ out' = out \cup {free_queue[1]} /\ UNCHANGED ptr
          /\ \A r \in Releaser : pc'[r] = pc[r]
      BY <2>2 DEF GetPop
    <3>2. Releases' = Releases
      BY <3>1 DEF Releases
    <3>3. /\ Len(free_queue) \in Nat \ {0}
          /\ DOMAIN free_queue = 1..Len(free_queue)
          /\ DOMAIN free_queue' = 1..(Len(free_queue) - 1)
          /\ \A x \in DOMAIN free_queue' :
                x + 1 \in DOMAIN free_queue /\ free_queue'[x] = free_queue[x + 1]
          /\ \A x \in DOMAIN free_queue :
                x = 1 \/ (x - 1 \in DOMAIN free_queue'
                          /\ free_queue'[x - 1] = free_queue[x])
      BY <3>1
    <3>4. /\ 1 \in DOMAIN free_queue
          /\ \A x \in DOMAIN free_queue' : x + 1 # 1
          /\ \A x, y \in DOMAIN free_queue' : x + 1 = y + 1 => x = y
      BY <3>3
    <3>5. \A x, y \in DOMAIN free_queue' : free_queue'[x] = free_queue'[y] => x = y
      BY <3>3, <3>4
    <3>6. \A x \in DOMAIN free_queue' : free_queue'[x] \notin out' \cup Releases
      BY <3>1, <3>3, <3>4
    <3>7. \A x \in Block : \/ \E y \in DOMAIN free_queue' : free_queue'[y] = x
                           \/ x \in out' \cup Releases
      <4>1. ASSUME NEW x \in Block, NEW y \in DOMAIN free_queue,
                   free_queue[y] = x
            PROVE  \/ \E z \in DOMAIN free_queue' : free_queue'[z] = x
                   \/ x \in out'
        BY <3>1, <3>3, <4>1
      <4>2. out \subseteq out'
        BY <3>1
      <4> QED BY <4>1, <4>2
    <3>8. out' \cap Releases = {}
      BY <3>1, <3>4
    <3> QED BY <3>1, <3>2, <3>5, <3>6, <3>7, <3>8
  <2>3. ASSUME NEW r \in Releaser, ReleaseLock(r) PROVE EachBufferOnce'
    <3>1. PICK x \in out : /\ ptr' = [ptr EXCEPT ![r] = x]
                           /\ out' = out \ {x}
      BY <2>3 DEF ReleaseLock
    <3>2. pc[r] # "push" /\ pc' = [pc EXCEPT ![r] = "push"] /\ UNCHANGED free_queue
      BY <2>3 DEF ReleaseLock
    <3>3. Releases' = Releases \cup {x}
      BY <3>1, <3>2 DEF Releases
    <3>4. x \notin Releases
      OBVIOUS
    <3>5. \A s \in Releaser : pc[s] = "push" => ptr[s] \in Releases
      BY DEF Releases
    <3>6. \A s, t \in Releaser :
             pc'[s] = "push" /\ pc'[t] = "push" /\ ptr'[s] = ptr'[t] => s = t
      BY <3>1, <3>2, <3>4, <3>5
    <3> QED BY <3>1, <3>2, <3>3, <3>4, <3>6
  <2>4. ASSUME NEW r \in Releaser, ReleasePush(r) PROVE EachBufferOnce'
    <3>1. /\ pc[r] = "push" /\ pc' = [pc EXCEPT ![r] = "notify"]
          /\ ptr' = [ptr EXCEPT ![r] = NoBlock] /\ UNCHANGED out
          /\ free_queue' = Append(free_queue, ptr[r]) /\ ptr[r] \in Block
      BY <2>4 DEF ReleasePush
    <3>2. Releases' = Releases \ {ptr[r]} /\ ptr[r] \in Releases
      BY <3>1 DEF Releases
    <3>3. /\ Len(free_queue) \in Nat
          /\ DOMAIN free_queue = 1..Len(free_queue)
          /\ DOMAIN free_queue' = 1..(Len(free_queue) + 1)
          /\ free_queue'[Len(free_queue) + 1] = ptr[r]
          /\ \A x \in DOMAIN free_queue :
                x \in DOMAIN free_queue' /\ free_queue'[x] = free_queue[x]
          /\ \A x \in DOMAIN free_queue' :
                x = Len(free_queue) + 1 \/ x \in DOMAIN free_queue
          /\ Len(free_queue) + 1 \in DOMAIN free_queue'
      BY <3>1
    <3>4. \A x, y \in DOMAIN free_queue' : free_queue'[x] = free_queue'[y] => x = y
      BY <3>2, <3>3
    <3>5. \A x \in DOMAIN free_queue' : free_queue'[x] \notin out' \cup Releases'
      BY <3>1, <3>2, <3>3
    <3>6. \A x \in Block : \/ \E y \in DOMAIN free_queue' : free_queue'[y] = x
                           \/ x \in out' \cup Releases'
      BY <3>1, <3>2, <3>3
    <3>7. \A s, t \in Releaser :
             pc'[s] = "push" /\ pc'[t] = "push" /\ ptr'[s] = ptr'[t] => s = t
      BY <3>1
    <3> QED BY <3>1, <3>2, <3>4, <3>5, <3>6, <3>7
  <2>5. ASSUME NEW r \in Releaser, ReleaseNotify(r) PROVE EachBufferOnce'
    BY <2>1, <2>5 DEF ReleaseNotify, Waiting
  <2>6. ASSUME NEW g \in Getter, GetLock(g) \/ GetWait(g) \/ SpuriousWakeup(g)
        PROVE  EachBufferOnce'
    BY <2>1, <2>6 DEF GetLock, GetWait, SpuriousWakeup
  <2>7. CASE UNCHANGED vars
    BY <2>1, <2>7 DEF vars
  <2> QED
    BY <2>2, <2>3, <2>4, <2>5, <2>6, <2>7 DEF Next, Getting, Releasing
<1> QED BY <1>1, <1>2, TypeCorrect, PTL DEF Spec

-----------------------------------------------------------------------------

LEMMA CountsAreNatural ==
    ASSUME NEW S, IsFiniteSet(S), NEW T \in SUBSET S
    PROVE  IsFiniteSet(T) /\ Cardinality(T) \in Nat
  BY FS_Subset, FS_CardinalityType

\* While a getter sleeps, every free buffer has a notification on its way or a
\* getter that will come for it (memory_pool.cc:20-22 against 34-37).
THEOREM WakeupsCoverFreeBuffersHolds == Spec => []WakeupsCoverFreeBuffers
<1> USE PoolAssumption DEF PoolAssumption, Thread
<1>1. Init => WakeupsCoverFreeBuffers
  BY DEF Init, WakeupsCoverFreeBuffers, Waiting
<1>2. TypeOK /\ WakeupsCoverFreeBuffers /\ [Next]_vars
         => WakeupsCoverFreeBuffers'
  <2> SUFFICES ASSUME TypeOK, WakeupsCoverFreeBuffers, [Next]_vars
               PROVE  WakeupsCoverFreeBuffers'
    OBVIOUS
  <2> USE DEF TypeOK
  <2>n. /\ IsFiniteSet(Notifying) /\ Cardinality(Notifying) \in Nat
        /\ IsFiniteSet(Awake) /\ Cardinality(Awake) \in Nat
        /\ Cardinality(Notifying') \in Nat /\ Cardinality(Awake') \in Nat
        /\ Len(free_queue) \in Nat
    <3>1. /\ Notifying \in SUBSET Releaser /\ Notifying' \in SUBSET Releaser
          /\ Awake \in SUBSET Getter /\ Awake' \in SUBSET Getter
      BY DEF Notifying, Awake
    <3> QED BY <3>1, CountsAreNatural
  <2>1. ASSUME NEW g \in Getter, GetLock(g) \/ SpuriousWakeup(g)
        PROVE  WakeupsCoverFreeBuffers'
    <3>1. /\ Notifying' = Notifying /\ UNCHANGED free_queue
          /\ Awake' = Awake \cup {g} /\ Waiting' \subseteq Waiting
      BY <2>1 DEF GetLock, SpuriousWakeup, Notifying, Awake, Waiting
    <3>2. Cardinality(Awake') >= Cardinality(Awake)
      <4>1. CASE g \in Awake
        <5>1. Awake' = Awake
          BY <3>1, <4>1
        <5> QED BY <5>1, <2>n
      <4>2. CASE g \notin Awake
        <5>1. Cardinality(Awake') = Cardinality(Awake) + 1
          BY <3>1, <4>2, <2>n, FS_AddElement
        <5> QED BY <5>1, <2>n
      <4> QED BY <4>1, <4>2
    <3> QED BY <3>1, <3>2, <2>n DEF WakeupsCoverFreeBuffers
  <2>2. ASSUME NEW g \in Getter, GetWait(g) PROVE WakeupsCoverFreeBuffers'
    <3>1. Len(free_queue') = 0
      BY <2>2 DEF GetWait
    <3> QED BY <3>1, <2>n DEF WakeupsCoverFreeBuffers
  <2>3. ASSUME NEW g \in Getter, GetPop(g) PROVE WakeupsCoverFreeBuffers'
    <3>1. /\ Notifying' = Notifying /\ Waiting' = Waiting
          /\ Awake' = Awake \ {g} /\ g \in Awake
      BY <2>3 DEF GetPop, Notifying, Awake, Waiting
    <3>2. Cardinality(Awake') = Cardinality(Awake) - 1
      BY <3>1, <2>n, FS_RemoveElement
    <3>3. Len(free_queue') = Len(free_queue) - 1
      BY <2>3, HeadTailProperties DEF GetPop
    <3> QED BY <3>1, <3>2, <3>3, <2>n DEF WakeupsCoverFreeBuffers
  <2>4. ASSUME NEW r \in Releaser, ReleaseLock(r)
        PROVE  WakeupsCoverFreeBuffers'
    <3>1. /\ Notifying' = Notifying /\ Awake' = Awake /\ Waiting' = Waiting
          /\ UNCHANGED free_queue
      BY <2>4 DEF ReleaseLock, Notifying, Awake, Waiting
    <3> QED BY <3>1 DEF WakeupsCoverFreeBuffers
  <2>5. ASSUME NEW r \in Releaser, ReleasePush(r)
        PROVE  WakeupsCoverFreeBuffers'
    <3>1. /\ Notifying' = Notifying \cup {r} /\ r \notin Notifying
          /\ Awake' = Awake /\ Waiting' = Waiting
      BY <2>5 DEF ReleasePush, Notifying, Awake, Waiting
    <3>2. Cardinality(Notifying') = Cardinality(Notifying) + 1
      BY <3>1, <2>n, FS_AddElement
    <3>3. Len(free_queue') = Len(free_queue) + 1
      BY <2>5, AppendProperties DEF ReleasePush
    <3> QED BY <3>1, <3>2, <3>3, <2>n DEF WakeupsCoverFreeBuffers
  <2>6. ASSUME NEW r \in Releaser, ReleaseNotify(r)
        PROVE  WakeupsCoverFreeBuffers'
    <3>1. /\ Notifying' = Notifying \ {r} /\ r \in Notifying
          /\ UNCHANGED free_queue
      BY <2>6 DEF ReleaseNotify, Notifying, Waiting
    <3>2. Cardinality(Notifying') = Cardinality(Notifying) - 1
      BY <3>1, <2>n, FS_RemoveElement
    <3>3. CASE Waiting = {}
      <4>1. Waiting' = {}
        BY <3>3, <2>6 DEF ReleaseNotify, Waiting
      <4> QED BY <4>1 DEF WakeupsCoverFreeBuffers
    <3>4. CASE Waiting # {}
      <4>1. PICK g \in Waiting : pc' = [pc EXCEPT ![r] = "idle", ![g] = "woken"]
        BY <3>4, <2>6 DEF ReleaseNotify
      <4>2. Awake' = Awake \cup {g} /\ g \notin Awake
        BY <4>1, <2>6 DEF Awake, Waiting
      <4>3. Cardinality(Awake') = Cardinality(Awake) + 1
        BY <4>2, <2>n, FS_AddElement
      <4> QED BY <4>3, <3>1, <3>2, <3>4, <2>n DEF WakeupsCoverFreeBuffers
    <3> QED BY <3>3, <3>4
  <2>7. CASE UNCHANGED vars
    BY <2>7 DEF vars, WakeupsCoverFreeBuffers, Waiting, Notifying, Awake
  <2> QED
    BY <2>1, <2>2, <2>3, <2>4, <2>5, <2>6, <2>7 DEF Next, Getting, Releasing
<1> QED BY <1>1, <1>2, TypeCorrect, PTL DEF Spec

-----------------------------------------------------------------------------

\* The pool implements the atomic buffer pool TCPServer is written with: a pop
\* is its Get, a push its Release, and the other steps are stutters.
THEOREM PoolImplementsBufferPool == Spec => ImplementsBufferPool
<1> USE PoolAssumption DEF PoolAssumption, Thread, Block, NoBlock
<1>1. Init => Abstract!Init
  BY DEF Init, Abstract!Init, Releases
<1>2. TypeOK /\ EachBufferOnce /\ [Next]_vars => [Abstract!Next]_Abstract!vars
  <2> SUFFICES ASSUME TypeOK, EachBufferOnce, [Next]_vars
               PROVE  [Abstract!Next]_Abstract!vars
    OBVIOUS
  <2> USE DEF TypeOK, Abstract!vars
  <2>1. CASE UNCHANGED <<free_queue, out, ptr>>
             /\ \A r \in Releaser : pc'[r] = "push" <=> pc[r] = "push"
    <3>1. Releases' = Releases
      BY <2>1 DEF Releases
    <3> QED BY <2>1, <3>1
  <2>2. ASSUME NEW g \in Getter, GetPop(g) PROVE Abstract!Get
    <3>1. /\ Releases' = Releases
          /\ out' = out \cup {Head(free_queue)}
      BY <2>2 DEF GetPop, Releases
    <3> QED BY <2>2, <3>1 DEF GetPop, Abstract!Get
  <2>3. ASSUME NEW r \in Releaser, ReleaseLock(r)
        PROVE  UNCHANGED Abstract!vars
    <3>1. PICK x \in out : /\ ptr' = [ptr EXCEPT ![r] = x]
                           /\ out' = out \ {x}
      BY <2>3 DEF ReleaseLock
    <3>2. Releases' = Releases \cup {x} /\ UNCHANGED free_queue
      BY <2>3, <3>1 DEF ReleaseLock, Releases
    <3> QED BY <3>1, <3>2
  <2>4. ASSUME NEW r \in Releaser, ReleasePush(r) PROVE Abstract!Next
    <3>1. /\ ptr[r] \in Releases
          /\ Releases' = Releases \ {ptr[r]} /\ UNCHANGED out
          /\ free_queue' = Append(free_queue, ptr[r])
      <4>1. /\ pc[r] = "push" /\ pc' = [pc EXCEPT ![r] = "notify"]
            /\ ptr' = [ptr EXCEPT ![r] = NoBlock] /\ UNCHANGED out
            /\ free_queue' = Append(free_queue, ptr[r]) /\ ptr[r] \in Block
        BY <2>4 DEF ReleasePush
      <4>2. \A s \in Releaser \ {r} :
               /\ pc'[s] = pc[s] /\ ptr'[s] = ptr[s]
               /\ pc[s] = "push" => ptr[s] # ptr[r]
        BY <4>1 DEF EachBufferOnce
      <4>3. pc'[r] # "push"
        BY <4>1
      <4>4. ptr[r] \in Releases
        BY <4>1 DEF Releases
      <4>5. ASSUME NEW x \in Releases' PROVE x \in Releases \ {ptr[r]}
        <5>1. PICK s \in Releaser : pc'[s] = "push" /\ x = ptr'[s]
          BY <4>5 DEF Releases
        <5> QED BY <4>2, <4>3, <5>1 DEF Releases
      <4>6. ASSUME NEW x \in Releases \ {ptr[r]} PROVE x \in Releases'
        <5>1. PICK s \in Releaser \ {r} : pc[s] = "push" /\ x = ptr[s]
          BY <4>6 DEF Releases
        <5> QED BY <4>2, <5>1 DEF Releases
      <4> QED BY <4>1, <4>4, <4>5, <4>6
    <3>2. ptr[r] \notin out
      BY <3>1 DEF EachBufferOnce
    <3>3. Abstract!Release(ptr[r])
      BY <3>1, <3>2 DEF Abstract!Release
    <3> QED BY <3>1, <3>3 DEF Abstract!Next
  <2>5. ASSUME NEW r \in Releaser, ReleaseNotify(r)
        PROVE  [Abstract!Next]_Abstract!vars
    BY <2>1, <2>5 DEF ReleaseNotify, Waiting
  <2>6. ASSUME NEW g \in Getter, GetLock(g) \/ GetWait(g) \/ SpuriousWakeup(g)
        PROVE  [Abstract!Next]_Abstract!vars
    BY <2>1, <2>6 DEF GetLock, GetWait, SpuriousWakeup
  <2>7. CASE UNCHANGED vars
    BY <2>1, <2>7 DEF vars
  <2> QED
    BY <2>2, <2>3, <2>4, <2>5, <2>6, <2>7
    DEF Next, Getting, Releasing, Abstract!Next
<1> QED
  BY <1>1, <1>2, TypeCorrect, EachBufferOnceHolds, PTL
  DEF Spec, ImplementsBufferPool, Abstract!Spec
-----------------------------------------------------------------------------

\* Whoever holds queue_mtx is inside a critical section, and will release it.
Held ==
    /\ \A x \in Thread : pc[x] \in {"check", "push"} => queue_mtx = x
    /\ queue_mtx # NoThread => pc[queue_mtx] \in {"check", "push"}

LEMMA HeldHolds == Spec => []Held
<1> USE PoolAssumption DEF PoolAssumption, Thread
<1>1. Init => Held
  BY DEF Init, Held
<1>2. TypeOK /\ Held /\ [Next]_vars => Held'
  <2> SUFFICES ASSUME TypeOK, Held, [Next]_vars PROVE Held'
    OBVIOUS
  <2> USE DEF TypeOK, Held
  <2>1. ASSUME NEW g \in Getter, Getting(g) \/ SpuriousWakeup(g) PROVE Held'
    BY <2>1 DEF Getting, GetLock, GetWait, GetPop, SpuriousWakeup
  <2>2. ASSUME NEW r \in Releaser, ReleaseLock(r) \/ ReleasePush(r) PROVE Held'
    BY <2>2 DEF ReleaseLock, ReleasePush
  <2>3. ASSUME NEW r \in Releaser, ReleaseNotify(r) PROVE Held'
    BY <2>3 DEF ReleaseNotify, Waiting
  <2>4. CASE UNCHANGED vars
    BY <2>4 DEF vars
  <2> QED BY <2>1, <2>2, <2>3, <2>4 DEF Next, Releasing
<1> QED BY <1>1, <1>2, TypeCorrect, PTL DEF Spec

\* What the threads inside a call wait for: the guards of GetLock after a wait,
\* GetWait, GetPop and Releasing.
Ready ==
    \/ \E g \in Getter : \/ pc[g] = "woken" /\ queue_mtx = NoThread
                         \/ pc[g] = "check"
    \/ \E r \in Releaser : pc[r] \in {"push", "notify"}

\* Everybody who is inside a call sleeps only when every buffer is given out.
NeverStuck == (\E x \in Thread : pc[x] # "idle") => Ready \/ out = Block

\* The calls of get_block and release_block do not wait for each other: those
\* in get_block can only be stopped by callers that keep every buffer
\* (memory_pool.cc:18-38).
THEOREM NeverStuckHolds == Spec => []NeverStuck
<1> USE PoolAssumption DEF PoolAssumption, Thread
<1>1. TypeOK /\ Held /\ EachBufferOnce /\ WakeupsCoverFreeBuffers => NeverStuck
  <2> SUFFICES ASSUME TypeOK, Held, EachBufferOnce, WakeupsCoverFreeBuffers,
                      NEW x \in Thread, pc[x] # "idle", ~Ready
               PROVE  out = Block
    BY DEF NeverStuck
  <2>1. queue_mtx = NoThread
    BY DEF TypeOK, Held, Ready
  <2>2. Waiting # {} /\ Notifying = {} /\ Awake = {} /\ Releases = {}
    BY <2>1 DEF TypeOK, Ready, Waiting, Notifying, Awake, Releases
  <2>3. Len(free_queue) <= 0
    BY <2>2, FS_EmptySet DEF WakeupsCoverFreeBuffers
  <2>4. DOMAIN free_queue = {}
    BY <2>3 DEF TypeOK
  <2> QED BY <2>2, <2>4 DEF EachBufferOnce, TypeOK
<1> QED BY <1>1, TypeCorrect, HeldHolds, EachBufferOnceHolds,
           WakeupsCoverFreeBuffersHolds, PTL
=============================================================================
