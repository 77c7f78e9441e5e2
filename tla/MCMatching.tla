----------------------------- MODULE MCMatching -----------------------------
(***************************************************************************)
(* Instances of Matching.  MixedParity: the data chunks anywhere, the parity *)
(* chunks on a few chosen nodes, so that stripes with aligned, half        *)
(* aligned and misaligned parities all occur among a few stripes.          *)
(* FewPairs: the parities aligned, so that pairs differ by their data: the *)
(* fewest kinds of stripes with which make_optimization exchanges the      *)
(* partners of two pairs both straight and crosswise.                      *)
(***************************************************************************)
EXTENDS Matching

MixedParity == {p \in Placement : p.parity \in {<<4, 5>>, <<4, 3>>, <<5, 3>>}}
FewPairs ==
    {p \in Placement : /\ p.parity = <<6, 7>>
                       /\ p.data \in {<<1, 2>>, <<1, 3>>, <<2, 4>>, <<3, 5>>}}
=============================================================================
