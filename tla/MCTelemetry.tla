---------------------------- MODULE MCTelemetry ----------------------------
(***************************************************************************)
(* Telemetry in ticks that keep the order of the intervals of config.h: a  *)
(* report every two ticks, give or take one, the first one or two ticks    *)
(* after power comes; a check every tick; a timeout of three, which is not *)
(* shorter than a stretched interval but than two; and a turn of the clock *)
(* of five, longer than the timeout and the check after it.                *)
(***************************************************************************)
EXTENDS Telemetry
=============================================================================
