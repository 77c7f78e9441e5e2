----------------------------- MODULE Transfers -----------------------------
(***************************************************************************)
(* What a run of the cluster promises for the scheme: every transfer is    *)
(* ordered by the master once and then moved once, by its source and to    *)
(* its target; and a process that ends of its own accord has done its part *)
(* of every transfer, unless another process that the transfer depends on  *)
(* has died.                                                               *)
(***************************************************************************)
CONSTANTS Host,      \* the processes: the master and the data nodes
          Master,
          Transfer,  \* the transfers of the scheme
          source, target

VARIABLES fate,      \* how far each transfer has come
          ended      \* how each process has ended, if it has

DiedAmong(hosts) == \E h \in hosts : ended[h] = "died"

Init ==
    /\ fate = [t \in Transfer |-> "planned"]
    /\ ended = [h \in Host |-> "no"]

Advance(t, from, to) ==
    /\ fate[t] = from
    /\ fate' = [fate EXCEPT ![t] = to]
    /\ UNCHANGED ended

Order(t) == Advance(t, "planned", "ordered")
Send(t) == Advance(t, "ordered", "sent")
Move(t) == Advance(t, "sent", "moved")

\* What arrives at the target is not what the scheme says.
Spoil(t) ==
    /\ DiedAmong({Master, source[t]})
    /\ \E from \in {"planned", "ordered", "sent"} : Advance(t, from, "spoilt")

Die(h) ==
    /\ ended[h] = "no"
    /\ ended' = [ended EXCEPT ![h] = "died"]
    /\ UNCHANGED fate

\* A process ends properly when its part of every transfer is done, or when
\* somebody upstream of it has died.
PartDone(h, t) ==
    /\ h = Master => fate[t] # "planned"
    /\ h = source[t] =>
           fate[t] \notin {"planned", "ordered"} \/ DiedAmong({Master})
    /\ h = target[t] =>
           fate[t] \in {"moved", "spoilt"} \/ DiedAmong({Master, source[t]})

End(h) ==
    /\ ended[h] = "no"
    /\ \A t \in Transfer : PartDone(h, t)
    /\ ended' = [ended EXCEPT ![h] = "properly"]
    /\ UNCHANGED fate

Next ==
    \/ \E t \in Transfer : Order(t) \/ Send(t) \/ Move(t) \/ Spoil(t)
    \/ \E h \in Host : Die(h) \/ End(h)

Spec == Init /\ [][Next]_<<fate, ended>>
=============================================================================
