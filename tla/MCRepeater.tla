----------------------------- MODULE MCRepeater -----------------------------
(***************************************************************************)
(* Repeater with more frames on the air than the ring has entries, and     *)
(* more to forward within a minute than the limit allows.                  *)
(***************************************************************************)
EXTENDS Repeater, TLC

Symmetry == Permutations(Keys \ (Own \cup Local))
=============================================================================
