------------------------------ MODULE AckMatch ------------------------------
(***************************************************************************)
(* ack_match.cpp: the pure logic that ties acknowledgements to the pending *)
(* commands of the BASE.                                                   *)
(*                                                                         *)
(* A pending command is a record                                           *)
(*     [node_id, relay_index, value, seq, retries_left, n]                 *)
(* and an inactive slot is NoCommand.  The cmd byte is left out: the only  *)
(* caller, mqttCallback, always passes 1.  The field n is the number of    *)
(* the request the entry serves; the matching logic never reads it.        *)
(***************************************************************************)
EXTENDS Naturals, FiniteSetsExt

CONSTANTS MAX_PENDING_COMMANDS,   \* pending slots (8 in the firmware)
          NoCommand               \* an inactive slot

ASSUME AckMatchAssumption == MAX_PENDING_COMMANDS \in Nat \ {0}

PendingSlots == 1 .. MAX_PENDING_COMMANDS

----------------------------------------------------------------------------
\* Mutant of AckMatches: the match of firmware v1, which had no seq byte.
AckMatchesAnySeq(pc, ack) ==
    pc # NoCommand /\ pc.relay_index = ack.relay_index

\* Mutant of AckMatches: the number alone, as if it were used only once.
AckMatchesAnyRelay(pc, ack) == pc # NoCommand /\ pc.seq = ack.seq

\* ackEvaluate.  The caller has already compared the frame's source with
\* pc.node_id.  A v1.1 node echoes the sequence number; for a legacy node the
\* reported state stands in for it.
AckMatches(pc, ack) ==
    /\ pc # NoCommand
    /\ pc.relay_index = ack.relay_index
    /\ IF ack.has_seq THEN pc.seq = ack.seq
                      ELSE ack.result = 0 \/ ack.state = pc.value

AckVerdict(pc, ack) ==
    CASE ack.result = 0                           -> "failed:nak"
      [] ack.result # 0 /\ ack.state = pc.value   -> "ok"
      [] ack.result # 0 /\ ack.state # pc.value   -> "failed:state_mismatch"

----------------------------------------------------------------------------
\* Mutant of SameRelay: any command for the node is preempted.
SameRelayAnyIndex(pending, node, relay) ==
    {i \in PendingSlots : pending[i] # NoCommand /\ pending[i].node_id = node}

SameRelay(pending, node, relay) ==
    {i \in PendingSlots : /\ pending[i] # NoCommand
                          /\ pending[i].node_id = node
                          /\ pending[i].relay_index = relay}

FreePending(pending) == {i \in PendingSlots : pending[i] = NoCommand}

HasPendingSlot(pending, node, relay) ==
    SameRelay(pending, node, relay) # {} \/ FreePending(pending) # {}

\* ackPickSlot: the active entry of the same relay if there is one
\* (preemption), else the first free slot.

\* Mutant of AckPickSlot: a free slot before the entry to preempt.
AckPickSlotFreeFirst(pending, node, relay) ==
    IF FreePending(pending) # {}
    THEN Min(FreePending(pending))
    ELSE Min(SameRelay(pending, node, relay))

AckPickSlot(pending, node, relay) ==
    IF SameRelay(pending, node, relay) # {}
    THEN Min(SameRelay(pending, node, relay))
    ELSE Min(FreePending(pending))
=============================================================================
