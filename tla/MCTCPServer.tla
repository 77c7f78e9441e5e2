---------------------------- MODULE MCTCPServer ----------------------------
(***************************************************************************)
(* Instances of TCPServer: two peers; the first sends chunk d1, which is   *)
(* stored as it comes, and parity chunk c1; the second sends c2 and, where *)
(* there are four tasks, c3.  The workers of a pool are interchangeable    *)
(* in the run without liveness.                                            *)
(***************************************************************************)
EXTENDS TCPServer, TLC

CONSTANTS p1, p2, d1, c1, c2, c3

MCSender == [t \in Task |-> IF t \in {d1, c1} THEN p1 ELSE p2]
MCCoded == Task \cap {c1, c2, c3}
AnyWorker == Permutations(CWorker) \cup Permutations(WWorker)
=============================================================================
