----------------------------- MODULE MCReceiver -----------------------------
(* Model-checking instance of Receiver: two frames, counters wrapping at 8. *)
EXTENDS Receiver

MCRingSize == 2
MCCounterWidth == 3
=============================================================================
