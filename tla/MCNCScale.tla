----------------------------- MODULE MCNCScale -----------------------------
(* Instances of NCScale: some codes, and one or two batches. *)
EXTENDS NCScale

MCBatches == {<<1, 1, 1>>, <<1, 1, 2>>, <<2, 1, 1>>, <<1, 2, 2>>, <<2, 2, 1>>,
              <<1, 3, 1>>, <<3, 2, 1>>}
=============================================================================
