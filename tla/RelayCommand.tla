---------------------------- MODULE RelayCommand ----------------------------
(***************************************************************************)
(* What the command path promises to whoever switches a relay from Home    *)
(* Assistant, without radio, retries, sequence numbers or reboots.         *)
(*                                                                         *)
(* Requests are numbered in the order BASE takes them.  A request is       *)
(* "waiting" until its fate is decided; it is decided once.  "ok" is only  *)
(* ever said of a request that some relay has executed and that no later   *)
(* request for the same relay has replaced.                                *)
(***************************************************************************)
EXTENDS Naturals

CONSTANTS Nodes, RelayIds, Values, MaxIssued, NoCommand

VARIABLES request,    \* request[k]: what the k-th request asks for
          phase,      \* phase[k] \in Phases
          executed    \* the requests a node has carried out at least once

vars == <<request, phase, executed>>

Numbers  == 1 .. MaxIssued
Requests == [node : Nodes, relay : RelayIds, value : Values]
Phases   == {"none", "waiting", "ok", "failed", "replaced"}

SameTarget(a, b) == a.node = b.node /\ a.relay = b.relay

Init ==
    /\ request = [k \in Numbers |-> NoCommand]
    /\ phase = [k \in Numbers |-> "none"]
    /\ executed = {}

\* The next number in line.
IsNext(k) == phase[k] = "none" /\ \A j \in 1 .. (k - 1) : phase[j] # "none"

\* A request is taken; whatever waits for the same relay is replaced by it.
Issue(k, r) ==
    /\ IsNext(k)
    /\ request' = [request EXCEPT ![k] = r]
    /\ phase' = [j \in Numbers |->
                    CASE j = k -> "waiting"
                      [] j # k /\ phase[j] = "waiting" /\ SameTarget(request[j], r)
                               -> "replaced"
                      [] OTHER -> phase[j]]
    /\ UNCHANGED executed

\* A request is turned down at once and nothing is sent.
Refuse(k, r) ==
    /\ IsNext(k)
    /\ request' = [request EXCEPT ![k] = r]
    /\ phase' = [phase EXCEPT ![k] = "failed"]
    /\ UNCHANGED executed

\* A node carries a request out.  It may do so late: a request that was
\* replaced or given up can still be under way.
Execute(k) ==
    /\ phase[k] \notin {"none"}
    /\ executed' = executed \cup {k}
    /\ UNCHANGED <<request, phase>>

Confirm(k) ==
    /\ phase[k] = "waiting"
    /\ k \in executed
    /\ phase' = [phase EXCEPT ![k] = "ok"]
    /\ UNCHANGED <<request, executed>>

\* BASE stops waiting; it may give up several requests at once (a reboot).
GiveUp(K) ==
    /\ \A k \in K : phase[k] = "waiting"
    /\ phase' = [k \in Numbers |-> IF k \in K THEN "failed" ELSE phase[k]]
    /\ UNCHANGED <<request, executed>>

Next ==
    \/ \E k \in Numbers, r \in Requests : Issue(k, r) \/ Refuse(k, r)
    \/ \E k \in Numbers : Execute(k) \/ Confirm(k)
    \/ \E K \in (SUBSET Numbers) \ {{}} : GiveUp(K)

Spec == Init /\ [][Next]_vars
=============================================================================
