----------------------------- MODULE BufferPool -----------------------------
(***************************************************************************)
(* What a MemoryPool promises: a fixed set of buffers, each either free or *)
(* given out to one caller; the one that has been free longest is given    *)
(* out next.  TCPServer uses the pool in this form, one step a call.       *)
(***************************************************************************)
EXTENDS Naturals, Sequences

CONSTANT PoolSize

VARIABLES free,     \* the free buffers, in the order they will be given out
          given     \* the buffers given out

vars == <<free, given>>

Init ==
    /\ free = [x \in 1..PoolSize |-> x]
    /\ given = {}

Get ==
    /\ free # <<>>
    /\ given' = given \cup {Head(free)}
    /\ free' = Tail(free)

Release(x) ==
    /\ x \in given
    /\ given' = given \ {x}
    /\ free' = Append(free, x)

Next == Get \/ \E x \in given : Release(x)

Spec == Init /\ [][Next]_vars
=============================================================================
