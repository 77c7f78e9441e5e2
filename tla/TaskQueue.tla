----------------------------- MODULE TaskQueue -----------------------------
(***************************************************************************)
(* What a ThreadPool promises the code around it, with its mutex and its   *)
(* condition variable left out: a FIFO of tasks that can be sealed.  A     *)
(* task put in is handed to exactly one worker, in order, and a worker is  *)
(* sent home only when the queue is sealed and nothing is left in it.      *)
(***************************************************************************)
EXTENDS Sequences

CONSTANTS Task,     \* the messages (MigrationInfo values) that can be queued
          Worker    \* the threads that call get_task in a loop

VARIABLES queue,    \* tasks added and not handed out yet
          sealed,   \* set_finished has been called
          taken,    \* tasks handed out, in the order of the hand-outs
          left      \* workers that were given the empty task and stopped

vars == <<queue, sealed, taken, left>>

Init ==
    /\ queue = <<>>
    /\ sealed = FALSE
    /\ taken = <<>>
    /\ left = {}

Add ==
    /\ \E t \in Task : queue' = Append(queue, t)
    /\ UNCHANGED <<sealed, taken, left>>

Take ==
    /\ queue # <<>>
    /\ left # Worker
    /\ taken' = Append(taken, Head(queue))
    /\ queue' = Tail(queue)
    /\ UNCHANGED <<sealed, left>>

Seal ==
    /\ sealed' = TRUE
    /\ UNCHANGED <<queue, taken, left>>

Leave(w) ==
    /\ sealed
    /\ queue = <<>>
    /\ w \notin left
    /\ left' = left \cup {w}
    /\ UNCHANGED <<queue, sealed, taken>>

Next == Add \/ Take \/ Seal \/ \E w \in Worker : Leave(w)

Spec == Init /\ [][Next]_vars
=============================================================================
