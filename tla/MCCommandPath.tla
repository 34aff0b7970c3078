--------------------------- MODULE MCCommandPath ---------------------------
(***************************************************************************)
(* CommandPath on a small instance.                                        *)
(***************************************************************************)
EXTENDS CommandPath, TLC
=============================================================================
