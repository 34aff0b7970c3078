--------------------------- MODULE MCMqttSession ---------------------------
(***************************************************************************)
(* MqttSession with one node, which can lose or gain its sensor, and one   *)
(* repeater.  The queue holds the burst of one of them and BASE's own, but *)
(* not the bursts of both.                                                 *)
(***************************************************************************)
EXTENDS MqttSession

MCProfiles == {[relays |-> 1, sensors |-> 1],
               [relays |-> 1, sensors |-> 0]}
=============================================================================
