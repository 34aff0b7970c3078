----------------------------- MODULE MCTxQueue -----------------------------
(***************************************************************************)
(* TxQueue on a small instance: a clock that turns every few milliseconds, *)
(* two slots, and three kinds of frame that differ in urgency and jitter.  *)
(***************************************************************************)
EXTENDS TxQueue

MCFrames == {[prio |-> TXP_ACK, fwd |-> FALSE, delay |-> 0],
             [prio |-> TXP_FWD, fwd |-> TRUE, delay |-> 2],
             [prio |-> TXP_DATA, fwd |-> FALSE, delay |-> 0]}
=============================================================================
