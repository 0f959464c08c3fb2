----------------------------- MODULE MCRingSPSC -----------------------------
(* Model-checking instance of RingSPSC: a ring of 2 entries whose counters *)
(* wrap at 8, so that 10 items take the counters through a wrap-around.    *)
EXTENDS RingSPSC

MCRingSize == 2
MCCounterWidth == 3
MCMaxItems == 10
MCRings ==
  { [producer |-> "Tx", consumer |-> "Rx", batches |-> {1}],
    [producer |-> "Fill", consumer |-> "Complete", batches |-> {1, 2}] }
=============================================================================
