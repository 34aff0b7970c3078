------------------------- MODULE CommandPathProofs -------------------------
(***************************************************************************)
(* The safety properties of CommandPath, for any number of nodes, relays,  *)
(* slots, retries, commands and faults.                                    *)
(***************************************************************************)
EXTENDS CommandPath, TxSlotsProofs, SequenceTheorems

USE DEF Devices, Numbers

LEMMA QueuesType == Ranked(TxItems) /\ Queues(TxItems) = [Slots -> TxItems \cup {NoItem}]
BY DEF Ranked, TxItems, Queues

LEMMA EmptyIsQueue == EmptyQueue \in Queues(TxItems) /\ UsedSlots(EmptyQueue) = {}
BY DEF EmptyQueue, Queues, UsedSlots

LEMMA FreshIdType == ASSUME NEW d PROVE FreshId(d) \in PacketIds
<1>1. PacketIds # {}
  BY CommandPathAssumption DEF PacketIds
<1>2. \E id \in PacketIds : PacketIds \ UsedIds(d) # {} => id \notin UsedIds(d)
  BY <1>1
<1> QED
  BY <1>2 DEF FreshId

LEMMA PacketEnds ==
    ASSUME NEW pkt \in Packets
    PROVE  Source(pkt) \in Devices /\ Receiver(pkt) \in Devices /\ pkt.id \in PacketIds
BY DEF Packets, CmdPackets, AckPackets, DataPackets, Source, Receiver

----------------------------------------------------------------------------
(* Type correctness                                                        *)

LEMMA InitType == Init => TypeOK
<1> SUFFICES ASSUME Init PROVE TypeOK
  OBVIOUS
<1>1. txq \in [Devices -> [Slots -> TxItems \cup {NoItem}]]
  BY EmptyIsQueue, QueuesType DEF Init
<1>2. inbox \in [Devices -> Seq(Packets)]
  BY DEF Init
<1>3. /\ 0 \in 0 .. SEQ_MAX /\ 0 \in 0 .. MaxIssued /\ 0 \in 0 .. MaxReports
      /\ 0 \in 0 .. MaxOverheard /\ 0 \in 0 .. MaxNodeReboots
      /\ 0 \in 0 .. MaxBaseReboots /\ 0 \in 0 .. MaxNvsFailures
  BY CommandPathAssumption
<1> QED
  BY <1>1, <1>2, <1>3 DEF Init, TypeOK, Outcomes

LEMMA SendType ==
    ASSUME TypeOK, NEW d \in Devices, NEW prio \in TxPrio, NEW pkt \in Packets,
           Send(d, prio, pkt)
    PROVE  txq' \in [Devices -> [Slots -> TxItems \cup {NoItem}]]
<1>1. [prio |-> prio, pkt |-> pkt] \in TxItems
  BY DEF TxItems
<1>2. Enqueued(txq[d], [prio |-> prio, pkt |-> pkt]) \in [Slots -> TxItems \cup {NoItem}]
  BY <1>1, EnqueuedIsQueue, QueuesType DEF TypeOK
<1> QED
  BY <1>2 DEF Send, TypeOK

LEMMA NextFrameType ==
    ASSUME TypeOK, NEW d \in Devices, HasFrame(d)
    PROVE  NextFrame(d) \in Packets /\ Tail(inbox[d]) \in Seq(Packets)
<1>1. inbox[d] \in Seq(Packets) /\ inbox[d] # <<>>
  BY DEF TypeOK, HasFrame
<1> QED
  BY <1>1, HeadTailProperties DEF NextFrame

LEMMA TakeType ==
    ASSUME TypeOK, NEW d \in Devices, HasFrame(d), Take(d)
    PROVE  /\ inbox' \in [Devices -> Seq(Packets)]
           /\ seen' \in [Devices -> SUBSET (Devices \X PacketIds)]
           /\ relayed' \subseteq Packets
<1>1. FrameKey(NextFrame(d)) \in Devices \X PacketIds
  BY NextFrameType, PacketEnds DEF FrameKey
<1>2. inbox' \in [Devices -> Seq(Packets)]
  BY NextFrameType DEF Take, TypeOK
<1>3. seen' \in [Devices -> SUBSET (Devices \X PacketIds)]
  BY <1>1 DEF Take, TypeOK
<1> QED
  BY <1>2, <1>3 DEF Take, TypeOK

\* A frame of each kind has the fields of its kind.
LEMMA FrameFields ==
    ASSUME NEW pkt \in Packets
    PROVE  /\ pkt.type = "CMD" => pkt \in CmdPackets
           /\ pkt.type = "ACK" => pkt \in AckPackets
           /\ pkt.type = "DATA" => pkt \in DataPackets
BY DEF Packets, CmdPackets, AckPackets, DataPackets

LEMMA CmdPacketType ==
    ASSUME NEW pc \in Commands, NEW id \in PacketIds
    PROVE  CmdPacket(pc, id) \in Packets
BY DEF Commands, CmdPacket, Packets, CmdPackets

LEMMA SendCommandType ==
    ASSUME TypeOK, NEW pc \in Commands, SendCommand(pc)
    PROVE  txq' \in [Devices -> [Slots -> TxItems \cup {NoItem}]]
<1>1. CmdPacket(pc, FreshId(Base)) \in Packets
  BY CmdPacketType, FreshIdType
<1>2. TXP_CMD \in TxPrio
  BY DEF TxPrio
<1> QED
  BY <1>1, <1>2, SendType DEF SendCommand

LEMMA AskedType ==
    ASSUME TypeOK, NEW r \in Requests, NEW result \in [Numbers -> Outcomes], Asked(r, result)
    PROVE  /\ issued' \in 0 .. MaxIssued
           /\ request' \in [Numbers -> Requests \cup {NoCommand}]
           /\ outcome' \in [Numbers -> Outcomes]
           /\ issued + 1 \in Numbers
<1>1. issued \in Nat /\ MaxIssued \in Nat /\ issued < MaxIssued /\ issued' = issued + 1
  BY CommandPathAssumption DEF TypeOK, Asked
<1>2. issued + 1 \in 1 .. MaxIssued /\ issued' \in 0 .. MaxIssued
  BY <1>1
<1> QED
  BY <1>2 DEF TypeOK, Asked

LEMMA AcceptCommandType ==
    ASSUME TypeOK, NEW r \in Requests, AcceptCommand(r)
    PROVE  TypeOK'
<1> DEFINE i  == AckPickSlot(pending, r.node, r.relay)
           pc == NewCommand(r, NextSeq, issued + 1)
       result == [k \in Numbers |->
                    CASE k = issued + 1 -> "pending"
                      [] k # issued + 1 /\ pending[i] # NoCommand /\ pending[i].n = k
                                        -> "preempted"
                      [] OTHER -> outcome[k]]
<1>0. result \in [Numbers -> Outcomes]
  BY DEF TypeOK, Outcomes
<1>1. /\ issued + 1 \in Numbers
      /\ issued' \in 0 .. MaxIssued
      /\ request' \in [Numbers -> Requests \cup {NoCommand}]
      /\ outcome' \in [Numbers -> Outcomes]
  <2>1. Asked(r, result)
    BY DEF AcceptCommand
  <2> QED
    BY <1>0, <2>1, AskedType
<1>2. NextSeq \in Seqs /\ NextSeq \in 0 .. SEQ_MAX
  BY CommandPathAssumption DEF TypeOK, NextSeq, Seqs
<1>3. pc \in Commands
  BY <1>1, <1>2, CommandPathAssumption DEF NewCommand, Commands, Requests
<1>4. pending' \in [PendingSlots -> Commands \cup {NoCommand}]
  BY <1>3 DEF AcceptCommand, TypeOK
<1>5. txq' \in [Devices -> [Slots -> TxItems \cup {NoItem}]]
  BY <1>3, SendCommandType DEF AcceptCommand
<1> QED
  BY <1>1, <1>2, <1>4, <1>5
     DEF AcceptCommand, TypeOK, nodeVars, budgetVars

LEMMA RejectCommandType ==
    ASSUME TypeOK, NEW r \in Requests, RejectCommand(r)
    PROVE  TypeOK'
<1>1. /\ issued' \in 0 .. MaxIssued
      /\ request' \in [Numbers -> Requests \cup {NoCommand}]
      /\ outcome' \in [Numbers -> Outcomes]
  <2>1. /\ [outcome EXCEPT ![issued + 1] = "failed:bad_relay"] \in [Numbers -> Outcomes]
        /\ [outcome EXCEPT ![issued + 1] = "failed:no_slot"] \in [Numbers -> Outcomes]
    BY DEF TypeOK, Outcomes
  <2> QED
    BY <2>1, AskedType DEF RejectCommand
<1> QED
  BY <1>1 DEF RejectCommand, TypeOK, baseVars, linkVars, nodeVars, budgetVars

LEMMA AckTimeoutType ==
    ASSUME TypeOK, NEW i \in PendingSlots, AckTimeout(i)
    PROVE  TypeOK'
<1>1. pending[i] \in Commands
  BY DEF AckTimeout, TypeOK
<1>2. CASE MayRetry(pending[i])
  <2>1. Retried(pending[i]) \in Commands
    BY <1>1, <1>2 DEF MayRetry, Retried, Commands
  <2>2. /\ pending' = [pending EXCEPT ![i] = Retried(@)]
        /\ SendCommand(pending[i])
        /\ UNCHANGED outcome
    BY <1>2 DEF AckTimeout
  <2>3. pending' \in [PendingSlots -> Commands \cup {NoCommand}]
    BY <2>1, <2>2 DEF TypeOK
  <2>4. txq' \in [Devices -> [Slots -> TxItems \cup {NoItem}]]
    BY <1>1, <2>2, SendCommandType
  <2> QED
    BY <2>2, <2>3, <2>4 DEF AckTimeout, TypeOK, nodeVars, budgetVars
<1>3. CASE ~MayRetry(pending[i])
  BY <1>3 DEF AckTimeout, TypeOK, Closed, Outcomes, nodeVars, budgetVars
<1> QED
  BY <1>2, <1>3

LEMMA HandleAckType == ASSUME TypeOK, HandleAck PROVE TypeOK'
<1> DEFINE ack == NextFrame(Base)
           i   == Min(Matching(ack))
<1>1. ack \in AckPackets
  BY NextFrameType, FrameFields DEF HandleAck, Fresh
<1>2. AckVerdict(pending[i], ack) \in Outcomes
  BY DEF AckVerdict, Outcomes
<1>3. /\ pending' \in [PendingSlots -> Commands \cup {NoCommand}]
      /\ outcome' \in [Numbers -> Outcomes]
  BY <1>2 DEF HandleAck, TypeOK, Closed
<1>4. everSeen' \in [Nodes -> BOOLEAN]
  BY DEF HandleAck, TypeOK
<1> QED
  BY <1>3, <1>4, TakeType DEF HandleAck, Fresh, TypeOK, nodeVars, budgetVars

LEMMA HandleDataType == ASSUME TypeOK, HandleData PROVE TypeOK'
<1> DEFINE data == NextFrame(Base)
<1>1. data \in DataPackets
  BY NextFrameType, FrameFields DEF HandleData, Fresh
<1>2. everSeen' \in [Nodes -> BOOLEAN] /\ numRelays' \in [Nodes -> {0, NODE_NUM_RELAYS}]
  BY <1>1 DEF HandleData, TypeOK, DataPackets
<1> QED
  BY <1>2, TakeType DEF HandleData, Fresh, TypeOK, nodeVars, userVars, budgetVars

LEMMA BaseRebootType == ASSUME TypeOK, BaseReboot PROVE TypeOK'
<1>1. txq' \in [Devices -> [Slots -> TxItems \cup {NoItem}]]
  BY EmptyIsQueue, QueuesType DEF BaseReboot, TypeOK
<1>2. inbox' \in [Devices -> Seq(Packets)]
  BY DEF BaseReboot, TypeOK
<1>3. 0 \in 0 .. SEQ_MAX /\ baseReboots' \in 0 .. MaxBaseReboots
  BY CommandPathAssumption DEF BaseReboot, TypeOK
<1>4. outcome' \in [Numbers -> Outcomes]
  BY DEF BaseReboot, TypeOK, Outcomes
<1> QED
  BY <1>1, <1>2, <1>3, <1>4 DEF BaseReboot, TypeOK, nodeVars

LEMMA AckPacketType ==
    ASSUME NEW n \in Nodes, NEW cmd \in CmdPackets, NEW result \in {0, 1}, NEW state \in {0, 1}
    PROVE  [type |-> "ACK", node |-> n, id |-> FreshId(n),
            relay_index |-> cmd.relay_index, result |-> result, state |-> state,
            has_seq |-> TRUE, seq |-> cmd.seq, n |-> cmd.n] \in Packets
BY FreshIdType DEF Packets, CmdPackets, AckPackets

LEMMA SendAckType ==
    ASSUME TypeOK, NEW n \in Nodes, NEW cmd \in CmdPackets,
           NEW result \in {0, 1}, NEW state \in {0, 1}, SendAck(n, cmd, result, state)
    PROVE  txq' \in [Devices -> [Slots -> TxItems \cup {NoItem}]]
<1>1. TXP_ACK \in TxPrio
  BY DEF TxPrio
<1> QED
  BY <1>1, AckPacketType, SendType DEF SendAck

LEMMA RefuseCommandType ==
    ASSUME TypeOK, NEW n \in Nodes, RefuseCommand(n)
    PROVE  TypeOK'
<1>1. NextFrame(n) \in CmdPackets
  BY NextFrameType, FrameFields DEF RefuseCommand, Fresh
<1>2. txq' \in [Devices -> [Slots -> TxItems \cup {NoItem}]]
  BY <1>1, SendAckType DEF RefuseCommand
<1> QED
  BY <1>2, TakeType
     DEF RefuseCommand, Fresh, TypeOK, baseVars, nodeVars, userVars, budgetVars

\* A command a node carries out names one of its relays.
LEMMA ValidCommand ==
    ASSUME TypeOK, NEW n \in Nodes, Fresh(n, "CMD"), ValidRelay(NextFrame(n))
    PROVE  /\ NextFrame(n) \in CmdPackets
           /\ NextFrame(n).relay_index \in OwnRelays
           /\ NextFrame(n).value \in {0, 1}
           /\ NextFrame(n).n \in Numbers
<1>1. NextFrame(n) \in CmdPackets
  BY NextFrameType, FrameFields DEF Fresh
<1>2. NextFrame(n).relay_index \in OwnRelays
  BY <1>1, CommandPathAssumption DEF CmdPackets, ValidRelay, OwnRelays, RelayIds
<1> QED
  BY <1>1, <1>2, CommandPathAssumption DEF CmdPackets

LEMMA RelaySetType ==
    ASSUME TypeOK, NEW n \in Nodes, NEW cmd \in CmdPackets, NEW saved \in BOOLEAN,
           cmd.relay_index \in OwnRelays, cmd.value \in {0, 1}, cmd.n \in Numbers,
           RelaySet(n, cmd, saved)
    PROVE  /\ relay' \in [Nodes -> [OwnRelays -> {0, 1}]]
           /\ relay'[n][cmd.relay_index] = cmd.value
           /\ nvs' \in [Nodes -> [OwnRelays -> {0, 1}]]
           /\ executed' \subseteq Numbers
           /\ lastExec' \in [Nodes -> [OwnRelays -> 0 .. MaxIssued]]
<1>1. /\ relay' \in [Nodes -> [OwnRelays -> {0, 1}]]
      /\ relay'[n][cmd.relay_index] = cmd.value
  BY DEF RelaySet, TypeOK
<1>2. nvs' \in [Nodes -> [OwnRelays -> {0, 1}]]
  BY <1>1 DEF RelaySet, TypeOK
<1>3. cmd.n \in 0 .. MaxIssued
  BY CommandPathAssumption
<1> QED
  BY <1>1, <1>2, <1>3 DEF RelaySet, TypeOK

LEMMA ExecuteCommandType ==
    ASSUME TypeOK, NEW n \in Nodes, NEW saved \in BOOLEAN, ExecuteCommand(n, saved)
    PROVE  TypeOK'
<1> DEFINE cmd == NextFrame(n)
<1>1. /\ cmd \in CmdPackets /\ cmd.relay_index \in OwnRelays
      /\ cmd.value \in {0, 1} /\ cmd.n \in Numbers
  BY ValidCommand DEF ExecuteCommand
<1>2. RelaySet(n, cmd, saved) /\ SendAck(n, cmd, 1, relay'[n][cmd.relay_index])
  BY DEF ExecuteCommand
<1>3. /\ relay' \in [Nodes -> [OwnRelays -> {0, 1}]]
      /\ relay'[n][cmd.relay_index] = cmd.value
      /\ nvs' \in [Nodes -> [OwnRelays -> {0, 1}]]
      /\ executed' \subseteq Numbers
      /\ lastExec' \in [Nodes -> [OwnRelays -> 0 .. MaxIssued]]
  BY <1>1, <1>2, RelaySetType
<1>4. txq' \in [Devices -> [Slots -> TxItems \cup {NoItem}]]
  BY <1>1, <1>2, <1>3, SendAckType
<1>5. nvsFailures' \in 0 .. MaxNvsFailures
  BY CommandPathAssumption DEF ExecuteCommand, TypeOK
<1> HIDE DEF cmd
<1> QED
  BY <1>3, <1>4, <1>5, TakeType DEF ExecuteCommand, Fresh, TypeOK, baseVars, userVars

LEMMA SendReportType ==
    ASSUME TypeOK, NEW n \in Nodes, SendReport(n)
    PROVE  TypeOK'
<1>1. [type |-> "DATA", node |-> n, id |-> FreshId(n), num_relays |-> NODE_NUM_RELAYS]
        \in Packets
  BY FreshIdType DEF Packets, DataPackets
<1>2. TXP_DATA \in TxPrio
  BY DEF TxPrio
<1>3. txq' \in [Devices -> [Slots -> TxItems \cup {NoItem}]]
  BY <1>1, <1>2, SendType DEF SendReport
<1>4. reports' \in 0 .. MaxReports
  BY CommandPathAssumption DEF SendReport, TypeOK
<1> QED
  BY <1>3, <1>4 DEF SendReport, TypeOK, baseVars, nodeVars, userVars

LEMMA RestartType ==
    ASSUME TypeOK, NEW n \in Nodes, Restart(n),
           executed' \subseteq Numbers, UNCHANGED lastExec
    PROVE  TypeOK'
<1>1. txq' \in [Devices -> [Slots -> TxItems \cup {NoItem}]]
  BY EmptyIsQueue, QueuesType DEF Restart, TypeOK
<1>2. relay' \in [Nodes -> [OwnRelays -> {0, 1}]]
  BY DEF Restart, Restored, TypeOK
<1>3. inbox' \in [Devices -> Seq(Packets)]
  BY DEF Restart, TypeOK
<1>4. nodeReboots' \in 0 .. MaxNodeReboots
  BY CommandPathAssumption DEF Restart, TypeOK
<1> QED
  BY <1>1, <1>2, <1>3, <1>4 DEF Restart, TypeOK, baseVars, userVars

LEMMA NodeRebootType ==
    ASSUME TypeOK, NEW n \in Nodes, NodeReboot(n)
    PROVE  TypeOK'
BY RestartType DEF NodeReboot, TypeOK

LEMMA CrashInRelaySetType ==
    ASSUME TypeOK, NEW n \in Nodes, CrashInRelaySet(n)
    PROVE  TypeOK'
<1>1. executed' \subseteq Numbers
  BY ValidCommand DEF CrashInRelaySet, TypeOK
<1> QED
  BY <1>1, RestartType DEF CrashInRelaySet

LEMMA DropDuplicateType ==
    ASSUME TypeOK, NEW d \in Devices, DropDuplicate(d)
    PROVE  TypeOK'
BY TakeType DEF DropDuplicate, TypeOK, baseVars, nodeVars, userVars, budgetVars

\* The frame txPoll transmits.
LEMMA TransmitFrame ==
    ASSUME TypeOK, NEW d \in Devices, UsedSlots(txq[d]) # {}
    PROVE  LET i == Pick(txq[d], UsedSlots(txq[d]))
           IN  i \in UsedSlots(txq[d]) /\ txq[d][i].pkt \in Packets
<1> DEFINE i == Pick(txq[d], UsedSlots(txq[d]))
<1>1. i \in UsedSlots(txq[d])
  BY PickIsReady, QueuesType DEF TypeOK
<1> HIDE DEF i
<1>2. txq[d][i] \in TxItems
  BY <1>1 DEF TypeOK, UsedSlots
<1> QED
  BY <1>1, <1>2 DEF TxItems, i

LEMMA DeliverType ==
    ASSUME TypeOK, NEW pkt \in Packets, NEW heard \in BOOLEAN,
           inbox' = IF heard THEN [inbox EXCEPT ![Receiver(pkt)] = Append(@, pkt)] ELSE inbox
    PROVE  inbox' \in [Devices -> Seq(Packets)]
<1>1. Receiver(pkt) \in Devices
  BY PacketEnds
<1>2. Append(inbox[Receiver(pkt)], pkt) \in Seq(Packets)
  BY <1>1, AppendProperties DEF TypeOK
<1> QED
  BY <1>2 DEF TypeOK

LEMMA TransmitType ==
    ASSUME TypeOK, NEW d \in Devices, NEW direct \in BOOLEAN, NEW overheard \in BOOLEAN,
           Transmit(d, direct, overheard)
    PROVE  TypeOK'
<1> DEFINE i   == Pick(txq[d], UsedSlots(txq[d]))
           pkt == txq[d][i].pkt
<1>1. i \in Slots /\ pkt \in Packets
  BY TransmitFrame DEF Transmit, UsedSlots
<1>2. /\ txq' = [txq EXCEPT ![d] = Removed(@, i)]
      /\ inbox' = IF direct THEN [inbox EXCEPT ![Receiver(pkt)] = Append(@, pkt)] ELSE inbox
      /\ relayed' = IF overheard THEN relayed \cup {pkt} ELSE relayed
  BY DEF Transmit
<1>3. txq' \in [Devices -> [Slots -> TxItems \cup {NoItem}]]
  BY <1>1, <1>2, RemovedItems, QueuesType DEF TypeOK
<1>4. inbox' \in [Devices -> Seq(Packets)]
  BY <1>1, <1>2, DeliverType
<1>5. relayed' \subseteq Packets
  BY <1>1, <1>2 DEF TypeOK
<1>6. overheards' \in 0 .. MaxOverheard
  BY CommandPathAssumption DEF Transmit, TypeOK
<1> HIDE DEF i, pkt
<1> QED
  BY <1>3, <1>4, <1>5, <1>6 DEF Transmit, TypeOK, baseVars, nodeVars, userVars

LEMMA RepeatType ==
    ASSUME TypeOK, NEW pkt \in relayed, NEW heard \in BOOLEAN, Repeat(pkt, heard)
    PROVE  TypeOK'
<1>1. pkt \in Packets
  BY DEF TypeOK
<1>2. inbox' \in [Devices -> Seq(Packets)]
  BY <1>1, DeliverType DEF Repeat
<1> QED
  BY <1>2 DEF Repeat, TypeOK, baseVars, nodeVars, userVars, budgetVars

LEMMA NextType == TypeOK /\ [Next]_vars => TypeOK'
<1> SUFFICES ASSUME TypeOK, [Next]_vars PROVE TypeOK'
  OBVIOUS
<1>1. ASSUME NEW r \in Requests, AcceptCommand(r) \/ RejectCommand(r) PROVE TypeOK'
  BY <1>1, AcceptCommandType, RejectCommandType
<1>2. ASSUME NEW i \in PendingSlots, AckTimeout(i) PROVE TypeOK'
  BY <1>2, AckTimeoutType
<1>3. CASE HandleAck \/ HandleData \/ BaseReboot
  BY <1>3, HandleAckType, HandleDataType, BaseRebootType
<1>4. ASSUME NEW n \in Nodes,
             \/ RefuseCommand(n)
             \/ \E saved \in BOOLEAN : ExecuteCommand(n, saved)
             \/ SendReport(n) \/ NodeReboot(n) \/ CrashInRelaySet(n)
      PROVE  TypeOK'
  BY <1>4, RefuseCommandType, ExecuteCommandType, SendReportType, NodeRebootType,
     CrashInRelaySetType
<1>5. ASSUME NEW d \in Devices,
             \/ DropDuplicate(d)
             \/ \E direct, overheard \in BOOLEAN : Transmit(d, direct, overheard)
      PROVE  TypeOK'
  BY <1>5, DropDuplicateType, TransmitType
<1>6. ASSUME NEW pkt \in relayed, NEW heard \in BOOLEAN, Repeat(pkt, heard)
      PROVE  TypeOK'
  BY <1>6, RepeatType
<1>7. CASE UNCHANGED vars
  BY <1>7 DEF TypeOK, vars, baseVars, linkVars, nodeVars, userVars, budgetVars
<1> QED
  BY <1>1, <1>2, <1>3, <1>4, <1>5, <1>6, <1>7 DEF Next

\* Every variable keeps to its range, whatever the constants: no retry counter
\* of pendingCmds[] runs below zero, no sequence number leaves 1 .. SEQ_MAX.
THEOREM TypeCorrect == Spec => []TypeOK
<1> QED
  BY InitType, NextType, PTL DEF Spec

----------------------------------------------------------------------------
(* One entry per relay                                                     *)

LEMMA AcceptOneSlot ==
    ASSUME TypeOK, OneSlotPerRelay, NEW r \in Requests, AcceptCommand(r)
    PROVE  OneSlotPerRelay'
<1> DEFINE i  == AckPickSlot(pending, r.node, r.relay)
           pc == NewCommand(r, NextSeq, issued + 1)
<1>1. pending' = [pending EXCEPT ![i] = pc]
  BY DEF AcceptCommand
<1>2. pc.node_id = r.node /\ pc.relay_index = r.relay
  BY DEF NewCommand
<1>3. SameRelay(pending, r.node, r.relay) # {} => i \in SameRelay(pending, r.node, r.relay)
  <2>1. SameRelay(pending, r.node, r.relay) \in SUBSET Nat
    BY AckMatchAssumption DEF SameRelay, PendingSlots
  <2> QED
    BY <2>1, MinInSet DEF AckPickSlot
<1> HIDE DEF i, pc
<1>4. ASSUME NEW j \in PendingSlots, j # i, pending[j] # NoCommand,
             pending[j].node_id = r.node
      PROVE  pending[j].relay_index # r.relay
  BY <1>3, <1>4 DEF SameRelay, OneSlotPerRelay
<1> QED
  BY <1>1, <1>2, <1>4 DEF OneSlotPerRelay, TypeOK

LEMMA AckTimeoutOneSlot ==
    ASSUME TypeOK, OneSlotPerRelay, NEW i \in PendingSlots, AckTimeout(i)
    PROVE  OneSlotPerRelay'
<1>1. pending[i] \in Commands /\ pending[i] # NoCommand
  BY DEF AckTimeout, TypeOK
<1>2. /\ Retried(pending[i]).node_id = pending[i].node_id
      /\ Retried(pending[i]).relay_index = pending[i].relay_index
  BY <1>1 DEF Retried, Commands
<1>3. \/ pending' = [pending EXCEPT ![i] = Retried(@)]
      \/ pending' = [pending EXCEPT ![i] = NoCommand]
  BY DEF AckTimeout, Closed
<1>4. \A j \in PendingSlots :
          \/ pending'[j] = NoCommand
          \/ /\ pending[j] # NoCommand
             /\ pending'[j].node_id = pending[j].node_id
             /\ pending'[j].relay_index = pending[j].relay_index
  <2>1. CASE pending' = [pending EXCEPT ![i] = Retried(@)]
    BY <1>1, <1>2, <2>1 DEF TypeOK
  <2>2. CASE pending' = [pending EXCEPT ![i] = NoCommand]
    BY <2>2 DEF TypeOK
  <2> QED
    BY <1>3, <2>1, <2>2
<1> QED
  BY <1>4 DEF OneSlotPerRelay

LEMMA NextOneSlot == TypeOK /\ OneSlotPerRelay /\ [Next]_vars => OneSlotPerRelay'
<1> SUFFICES ASSUME TypeOK, OneSlotPerRelay, [Next]_vars PROVE OneSlotPerRelay'
  OBVIOUS
<1>1. ASSUME NEW r \in Requests, AcceptCommand(r) PROVE OneSlotPerRelay'
  BY <1>1, AcceptOneSlot
<1>2. ASSUME NEW i \in PendingSlots, AckTimeout(i) PROVE OneSlotPerRelay'
  BY <1>2, AckTimeoutOneSlot
<1>3. CASE HandleAck
  <2> DEFINE i == Min(Matching(NextFrame(Base)))
  <2>1. pending' = [pending EXCEPT ![i] = NoCommand] \/ UNCHANGED pending
    BY <1>3 DEF HandleAck, Closed
  <2> HIDE DEF i
  <2>2. \A j \in PendingSlots : pending'[j] = NoCommand \/ pending'[j] = pending[j]
    BY <2>1 DEF TypeOK
  <2> QED
    BY <2>2 DEF OneSlotPerRelay
<1>4. CASE BaseReboot
  BY <1>4 DEF BaseReboot, OneSlotPerRelay
<1>5. CASE UNCHANGED pending
  BY <1>5 DEF OneSlotPerRelay
<1>6. \/ \E r \in Requests : AcceptCommand(r)
      \/ \E i \in PendingSlots : AckTimeout(i)
      \/ HandleAck \/ BaseReboot \/ UNCHANGED pending
  BY DEF Next, RejectCommand, HandleData, RefuseCommand, ExecuteCommand, SendReport,
         NodeReboot, CrashInRelaySet, Restart, DropDuplicate, Transmit, Repeat, vars, baseVars
<1> QED
  BY <1>1, <1>2, <1>3, <1>4, <1>5, <1>6

\* BASE never waits for two commands on one relay: preemption, retries, late
\* acknowledgements and reboots in any order and any number.
THEOREM OnePendingPerRelay == Spec => []OneSlotPerRelay
<1>1. Init => OneSlotPerRelay
  BY DEF Init, OneSlotPerRelay
<1> QED
  BY <1>1, NextOneSlot, TypeCorrect, PTL DEF Spec

----------------------------------------------------------------------------
(* The frames on their way                                                 *)

Queued(p)   == \E d \in Devices : \E i \in UsedSlots(txq[d]) : txq[d][i].pkt = p
Received(p) == \E d \in Devices : \E j \in 1 .. Len(inbox[d]) : inbox[d][j] = p
OnTheWay(p) == Queued(p) \/ Received(p) \/ p \in relayed

\* A handler that sends one frame adds at most that one.
LEMMA SendQueued ==
    ASSUME TypeOK, NEW d \in Devices, NEW prio \in TxPrio, NEW pkt \in Packets,
           Send(d, prio, pkt), NEW p, Queued(p)'
    PROVE  Queued(p) \/ p = pkt
<1> DEFINE item == [prio |-> prio, pkt |-> pkt]
<1>1. item \in TxItems /\ item.pkt = pkt
  BY DEF TxItems
<1>2. PICK e \in Devices : \E i \in UsedSlots(txq'[e]) : txq'[e][i].pkt = p
  BY DEF Queued
<1>3. PICK i \in UsedSlots(txq'[e]) : txq'[e][i].pkt = p
  BY <1>2
<1>4. txq'[e] = IF e = d THEN Enqueued(txq[d], item) ELSE txq[e]
  BY DEF Send, TypeOK
<1>5. txq[d] \in Queues(TxItems)
  BY QueuesType DEF TypeOK
<1> HIDE DEF item
<1>6. CASE e = d
  <2>1. i \in UsedSlots(Enqueued(txq[d], item)) /\ Enqueued(txq[d], item)[i].pkt = p
    BY <1>3, <1>4, <1>6
  <2>2. \/ Enqueued(txq[d], item)[i] = item
        \/ i \in UsedSlots(txq[d]) /\ Enqueued(txq[d], item)[i] = txq[d][i]
    BY <1>1, <1>5, <2>1, EnqueuedItems
  <2> QED
    BY <1>1, <2>1, <2>2 DEF Queued
<1>7. CASE e # d
  BY <1>3, <1>4, <1>7 DEF Queued
<1> QED
  BY <1>6, <1>7

\* The next frame was on its way, and taking it adds none.
LEMMA TakeReceived ==
    ASSUME TypeOK, NEW d \in Devices, HasFrame(d), Take(d)
    PROVE  /\ Received(NextFrame(d))
           /\ \A p : Received(p)' => Received(p)
           /\ relayed' = relayed
<1>1. inbox[d] \in Seq(Packets) /\ inbox[d] # <<>>
  BY DEF TypeOK, HasFrame
<1>2. /\ Len(inbox[d]) \in Nat \ {0}
      /\ NextFrame(d) = inbox[d][1]
      /\ Len(Tail(inbox[d])) = Len(inbox[d]) - 1
      /\ \A j \in 1 .. Len(inbox[d]) - 1 : Tail(inbox[d])[j] = inbox[d][j + 1]
  BY <1>1, HeadTailProperties DEF NextFrame
<1>3. Received(NextFrame(d))
  BY <1>2 DEF Received
<1>4. ASSUME NEW p, Received(p)' PROVE Received(p)
  <2>1. PICK e \in Devices : \E j \in 1 .. Len(inbox'[e]) : inbox'[e][j] = p
    BY <1>4 DEF Received
  <2>2. PICK j \in 1 .. Len(inbox'[e]) : inbox'[e][j] = p
    BY <2>1
  <2>3. inbox'[e] = IF e = d THEN Tail(inbox[d]) ELSE inbox[e]
    BY DEF Take, TypeOK
  <2>4. CASE e = d
    <3>1. j + 1 \in 1 .. Len(inbox[d]) /\ inbox[d][j + 1] = p
      BY <1>2, <2>2, <2>3, <2>4
    <3> QED
      BY <3>1 DEF Received
  <2>5. CASE e # d
    BY <2>2, <2>3, <2>5 DEF Received
  <2> QED
    BY <2>4, <2>5
<1> QED
  BY <1>3, <1>4 DEF Take

\* A delivered frame was on its way already.
LEMMA DeliverReceived ==
    ASSUME TypeOK, NEW pkt \in Packets, NEW heard \in BOOLEAN,
           inbox' = IF heard THEN [inbox EXCEPT ![Receiver(pkt)] = Append(@, pkt)] ELSE inbox,
           NEW p, Received(p)'
    PROVE  Received(p) \/ p = pkt
<1>1. CASE ~heard
  BY <1>1 DEF Received
<1>2. CASE heard
  <2> DEFINE d == Receiver(pkt)
  <2>1. d \in Devices /\ inbox[d] \in Seq(Packets)
    BY PacketEnds DEF TypeOK
  <2>2. PICK e \in Devices : \E j \in 1 .. Len(inbox'[e]) : inbox'[e][j] = p
    BY DEF Received
  <2>3. PICK j \in 1 .. Len(inbox'[e]) : inbox'[e][j] = p
    BY <2>2
  <2>4. inbox'[e] = IF e = d THEN Append(inbox[d], pkt) ELSE inbox[e]
    BY <1>2 DEF TypeOK
  <2> HIDE DEF d
  <2>5. CASE e = d
    <3>1. /\ Len(Append(inbox[d], pkt)) = Len(inbox[d]) + 1
          /\ Append(inbox[d], pkt)[Len(inbox[d]) + 1] = pkt
          /\ \A k \in 1 .. Len(inbox[d]) : Append(inbox[d], pkt)[k] = inbox[d][k]
          /\ Len(inbox[d]) \in Nat
      BY <2>1, AppendProperties
    <3> QED
      BY <2>1, <2>3, <2>4, <2>5, <3>1 DEF Received
  <2>6. CASE e # d
    BY <2>3, <2>4, <2>6 DEF Received
  <2> QED
    BY <2>5, <2>6
<1> QED
  BY <1>1, <1>2

LEMMA TransmitOnTheWay ==
    ASSUME TypeOK, NEW d \in Devices, NEW direct \in BOOLEAN, NEW overheard \in BOOLEAN,
           Transmit(d, direct, overheard), NEW p, OnTheWay(p)'
    PROVE  OnTheWay(p)
<1> DEFINE i   == Pick(txq[d], UsedSlots(txq[d]))
           pkt == txq[d][i].pkt
<1>1. i \in UsedSlots(txq[d]) /\ i \in Slots /\ pkt \in Packets
  BY TransmitFrame DEF Transmit, UsedSlots
<1>2. /\ txq' = [txq EXCEPT ![d] = Removed(@, i)]
      /\ inbox' = IF direct THEN [inbox EXCEPT ![Receiver(pkt)] = Append(@, pkt)] ELSE inbox
      /\ relayed' = IF overheard THEN relayed \cup {pkt} ELSE relayed
  BY DEF Transmit
<1>3. Queued(pkt)
  BY <1>1 DEF Queued
<1> HIDE DEF i, pkt
<1>4. ASSUME Queued(p)' PROVE Queued(p)
  <2>1. PICK e \in Devices : \E j \in UsedSlots(txq'[e]) : txq'[e][j].pkt = p
    BY <1>4 DEF Queued
  <2>2. PICK j \in UsedSlots(txq'[e]) : txq'[e][j].pkt = p
    BY <2>1
  <2>3. txq'[e] = IF e = d THEN Removed(txq[d], i) ELSE txq[e]
    BY <1>2 DEF TypeOK
  <2>4. txq[d] \in Queues(TxItems)
    BY QueuesType DEF TypeOK
  <2> QED
    BY <1>1, <2>2, <2>3, <2>4, RemovedItems DEF Queued
<1>5. ASSUME Received(p)' PROVE Received(p) \/ p = pkt
  BY <1>1, <1>2, <1>5, DeliverReceived
<1> QED
  BY <1>2, <1>3, <1>4, <1>5 DEF OnTheWay

LEMMA RepeatOnTheWay ==
    ASSUME TypeOK, NEW pkt \in relayed, NEW heard \in BOOLEAN, Repeat(pkt, heard),
           NEW p, OnTheWay(p)'
    PROVE  OnTheWay(p)
<1>1. pkt \in Packets
  BY DEF TypeOK
<1>2. Queued(p)' => Queued(p)
  BY DEF Repeat, Queued
<1>3. Received(p)' => Received(p) \/ p = pkt
  BY <1>1, DeliverReceived DEF Repeat
<1> QED
  BY <1>2, <1>3 DEF Repeat, OnTheWay

\* A device that restarts forgets what it has queued and received.
LEMMA RestartOnTheWay ==
    ASSUME TypeOK, NEW d \in Devices,
           txq' = [txq EXCEPT ![d] = EmptyQueue], inbox' = [inbox EXCEPT ![d] = <<>>],
           relayed' = relayed, NEW p, OnTheWay(p)'
    PROVE  OnTheWay(p)
<1>1. Queued(p)' => Queued(p)
  <2>1. \A e \in Devices : txq'[e] = IF e = d THEN EmptyQueue ELSE txq[e]
    BY DEF TypeOK
  <2> QED
    BY <2>1, EmptyIsQueue DEF Queued
<1>2. Received(p)' => Received(p)
  <2>1. \A e \in Devices : inbox'[e] = IF e = d THEN <<>> ELSE inbox[e]
    BY DEF TypeOK
  <2>2. 1 .. Len(<<>>) = {}
    BY EmptySeq
  <2> QED
    BY <2>1, <2>2 DEF Received
<1> QED
  BY <1>1, <1>2 DEF OnTheWay

----------------------------------------------------------------------------
(* What entries and frames say is what was asked                           *)

Asks(c) == /\ c.n \in 1 .. issued
           /\ request[c.n].relay = c.relay_index
           /\ request[c.n].value = c.value

Truthful(p) ==
    /\ p.type = "CMD" => Asks(p)
    /\ p.type = "ACK" =>
          /\ p.n \in 1 .. issued
          /\ p.result = 0 => p.relay_index >= NODE_NUM_RELAYS
          /\ p.result = 1 => p.state = request[p.n].value /\ p.n \in executed

EntriesTruthful == \A i \in PendingSlots : pending[i] # NoCommand => Asks(pending[i])
FramesTruthful  == \A p \in Packets : OnTheWay(p) => Truthful(p)

TruthInv == EntriesTruthful /\ FramesTruthful /\ NakIsTrue

\* What is on record stays on record.
LEMMA TruthKept ==
    ASSUME TypeOK, \/ UNCHANGED <<issued, request>>
                   \/ \E r \in Requests : \E result : Asked(r, result),
           executed \subseteq executed'
    PROVE  /\ \A c : Asks(c) => Asks(c)'
           /\ \A p \in Packets : Truthful(p) => Truthful(p)'
           /\ \A k \in 1 .. issued : k \in 1 .. issued' /\ request'[k] = request[k]
<1>1. \A k \in 1 .. issued : k \in 1 .. issued' /\ request'[k] = request[k]
  <2>1. CASE UNCHANGED <<issued, request>>
    BY <2>1
  <2>2. CASE \E r \in Requests : \E result : Asked(r, result)
    <3>0. PICK r \in Requests : \E result : Asked(r, result)
      BY <2>2
    <3>1. PICK result : Asked(r, result)
      BY <3>0
    <3>2. issued' = issued + 1 /\ request' = [request EXCEPT ![issued + 1] = r]
      BY <3>1 DEF Asked
    <3>3. issued \in Nat /\ \A k \in 1 .. issued : k \in Numbers
      BY CommandPathAssumption DEF TypeOK
    <3> QED
      BY <3>2, <3>3 DEF TypeOK
  <2> QED
    BY <2>1, <2>2
<1>2. \A c : Asks(c) => Asks(c)'
  BY <1>1 DEF Asks
<1>3. ASSUME NEW p \in Packets, Truthful(p) PROVE Truthful(p)'
  BY <1>1, <1>2, <1>3 DEF Truthful
<1> QED
  BY <1>1, <1>2, <1>3

\* A step that sends nothing, asks nothing and changes no entry.
LEMMA QuietTruth ==
    ASSUME TypeOK, TruthInv, UNCHANGED <<pending, issued, request, outcome>>,
           executed \subseteq executed', \A p : OnTheWay(p)' => OnTheWay(p)
    PROVE  TruthInv'
<1>1. EntriesTruthful'
  BY TruthKept DEF TruthInv, EntriesTruthful
<1>2. FramesTruthful'
  BY TruthKept DEF TruthInv, FramesTruthful
<1>3. NakIsTrue'
  BY DEF TruthInv, NakIsTrue
<1> QED
  BY <1>1, <1>2, <1>3 DEF TruthInv

\* The frame BASE sends for an entry says what the entry says.
LEMMA CmdPacketAsks ==
    ASSUME NEW pc \in Commands, NEW id \in PacketIds
    PROVE  LET cmd == CmdPacket(pc, id)
           IN  /\ cmd \in Packets /\ cmd.type = "CMD" /\ cmd.node = pc.node_id
               /\ cmd.n = pc.n /\ cmd.seq = pc.seq
               /\ cmd.relay_index = pc.relay_index /\ cmd.value = pc.value
BY CmdPacketType DEF CmdPacket

LEMMA SendCommandOnTheWay ==
    ASSUME TypeOK, NEW pc \in Commands, SendCommand(pc), UNCHANGED <<inbox, relayed>>,
           NEW p, OnTheWay(p)'
    PROVE  OnTheWay(p) \/ p = CmdPacket(pc, FreshId(Base))
<1>1. CmdPacket(pc, FreshId(Base)) \in Packets
  BY CmdPacketType, FreshIdType
<1>2. TXP_CMD \in TxPrio
  BY DEF TxPrio
<1>3. Queued(p)' => Queued(p) \/ p = CmdPacket(pc, FreshId(Base))
  BY <1>1, <1>2, SendQueued DEF SendCommand
<1>4. Received(p)' => Received(p)
  BY DEF Received
<1> QED
  BY <1>3, <1>4 DEF OnTheWay

\* When there is room, ackPickSlot returns a slot of the array.
LEMMA PickSlotIsSlot ==
    ASSUME NEW node, NEW relayIndex, HasPendingSlot(pending, node, relayIndex)
    PROVE  AckPickSlot(pending, node, relayIndex) \in PendingSlots
<1>1. /\ SameRelay(pending, node, relayIndex) \in SUBSET Nat
      /\ SameRelay(pending, node, relayIndex) \subseteq PendingSlots
      /\ FreePending(pending) \in SUBSET Nat
      /\ FreePending(pending) \subseteq PendingSlots
  BY AckMatchAssumption DEF SameRelay, FreePending, PendingSlots
<1>2. CASE SameRelay(pending, node, relayIndex) # {}
  BY <1>1, <1>2, MinInSet DEF AckPickSlot
<1>3. CASE SameRelay(pending, node, relayIndex) = {}
  <2>1. FreePending(pending) # {}
    BY <1>3 DEF HasPendingSlot
  <2> QED
    BY <1>1, <1>3, <2>1, MinInSet DEF AckPickSlot
<1> QED
  BY <1>2, <1>3

\* What sendCommandWithAck does to the entries, the frames and the record.
LEMMA AcceptFacts ==
    ASSUME TypeOK, NEW r \in Requests, AcceptCommand(r)
    PROVE  \E pc \in Commands, cmd \in Packets, i \in PendingSlots :
               /\ pc.n = issued + 1 /\ pc.seq = NextSeq
               /\ pc.relay_index = r.relay /\ pc.value = r.value
               /\ pending' = [pending EXCEPT ![i] = pc]
               /\ cmd.type = "CMD" /\ cmd.n = pc.n /\ cmd.seq = pc.seq
               /\ cmd.relay_index = pc.relay_index /\ cmd.value = pc.value
               /\ cmd.node = r.node
               /\ \A p : OnTheWay(p)' => OnTheWay(p) \/ p = cmd
               /\ issued + 1 \in Numbers /\ issued' = issued + 1
               /\ request' = [request EXCEPT ![issued + 1] = r]
               /\ \E result : Asked(r, result)
               /\ outcome' \in [Numbers -> Outcomes]
               /\ outcome'[issued + 1] = "pending"
               /\ \A k \in Numbers : outcome'[k] \in {"pending", "preempted", outcome[k]}
<1> DEFINE i  == AckPickSlot(pending, r.node, r.relay)
           pc == NewCommand(r, NextSeq, issued + 1)
           result == [k \in Numbers |->
                    CASE k = issued + 1 -> "pending"
                      [] k # issued + 1 /\ pending[i] # NoCommand /\ pending[i].n = k
                                        -> "preempted"
                      [] OTHER -> outcome[k]]
<1>1. /\ pending' = [pending EXCEPT ![i] = pc]
      /\ SendCommand(pc)
      /\ Asked(r, result)
      /\ i \in PendingSlots
  BY PickSlotIsSlot DEF AcceptCommand
<1>2. result \in [Numbers -> Outcomes]
  BY DEF TypeOK, Outcomes
<1>3. issued + 1 \in Numbers
  BY <1>1, <1>2, AskedType
<1>4. NextSeq \in Seqs
  BY CommandPathAssumption DEF TypeOK, NextSeq, Seqs
<1>5. pc \in Commands
  BY <1>3, <1>4, CommandPathAssumption DEF NewCommand, Commands, Requests
<1>6. /\ pc.n = issued + 1 /\ pc.seq = NextSeq
      /\ pc.relay_index = r.relay /\ pc.value = r.value /\ pc.node_id = r.node
  BY DEF NewCommand
<1>7. outcome' = result /\ result[issued + 1] = "pending"
  BY <1>1, <1>3 DEF Asked
<1>8. \A k \in Numbers : result[k] \in {"pending", "preempted", outcome[k]}
  OBVIOUS
<1>9. issued' = issued + 1 /\ request' = [request EXCEPT ![issued + 1] = r]
  BY <1>1 DEF Asked
<1> HIDE DEF i, pc, result
<1>10. \E res : Asked(r, res)
  BY <1>1
<1> DEFINE cmd == CmdPacket(pc, FreshId(Base))
<1>11. /\ cmd \in Packets /\ cmd.type = "CMD" /\ cmd.n = pc.n /\ cmd.seq = pc.seq
       /\ cmd.relay_index = pc.relay_index /\ cmd.value = pc.value
       /\ cmd.node = r.node
  BY <1>5, <1>6, CmdPacketAsks, FreshIdType
<1>12. UNCHANGED <<inbox, relayed>>
  BY DEF AcceptCommand
<1>13. \A p : OnTheWay(p)' => OnTheWay(p) \/ p = cmd
  BY <1>1, <1>5, <1>12, SendCommandOnTheWay
<1> HIDE DEF cmd
<1> QED
  BY <1>1, <1>2, <1>3, <1>5, <1>6, <1>7, <1>8, <1>9, <1>10, <1>11, <1>13

LEMMA AcceptTruth ==
    ASSUME TypeOK, TruthInv, NEW r \in Requests, AcceptCommand(r)
    PROVE  TruthInv'
<1>1. PICK pc \in Commands, cmd \in Packets, i \in PendingSlots :
          /\ pc.n = issued + 1
          /\ pc.relay_index = r.relay /\ pc.value = r.value
          /\ pending' = [pending EXCEPT ![i] = pc]
          /\ cmd.type = "CMD" /\ cmd.n = pc.n
          /\ cmd.relay_index = pc.relay_index /\ cmd.value = pc.value
          /\ \A p : OnTheWay(p)' => OnTheWay(p) \/ p = cmd
          /\ issued + 1 \in Numbers /\ issued' = issued + 1
          /\ request' = [request EXCEPT ![issued + 1] = r]
          /\ \E result : Asked(r, result)
          /\ outcome'[issued + 1] = "pending"
          /\ \A k \in Numbers : outcome'[k] \in {"pending", "preempted", outcome[k]}
  BY AcceptFacts
<1>2. UNCHANGED executed
  BY DEF AcceptCommand, nodeVars
<1>5. request'[issued + 1] = r /\ issued + 1 \in 1 .. issued'
  BY <1>1, CommandPathAssumption DEF TypeOK
<1>6. /\ \A c : Asks(c) => Asks(c)'
      /\ \A p \in Packets : Truthful(p) => Truthful(p)'
      /\ \A k \in 1 .. issued : request'[k] = request[k]
  BY <1>1, <1>2, TruthKept
<1>7. Asks(pc)' /\ Asks(cmd)'
  BY <1>1, <1>5 DEF Asks
<1>8. EntriesTruthful'
  BY <1>1, <1>6, <1>7 DEF TruthInv, EntriesTruthful, TypeOK
<1>9. FramesTruthful'
  <2>1. Truthful(cmd)'
    BY <1>1, <1>7 DEF Truthful
  <2> QED
    BY <1>1, <1>6, <2>1 DEF TruthInv, FramesTruthful
<1>10. NakIsTrue'
  <2> SUFFICES ASSUME NEW k \in Numbers, outcome'[k] = "failed:nak"
               PROVE  request'[k].relay >= NODE_NUM_RELAYS
    BY DEF NakIsTrue
  <2>1. k # issued + 1 /\ outcome[k] = "failed:nak"
    BY <1>1
  <2>2. request'[k] = request[k]
    BY <1>1, <2>1 DEF TypeOK
  <2> QED
    BY <2>1, <2>2 DEF TruthInv, NakIsTrue
<1> QED
  BY <1>8, <1>9, <1>10 DEF TruthInv

LEMMA RejectTruth ==
    ASSUME TypeOK, TruthInv, NEW r \in Requests, RejectCommand(r)
    PROVE  TruthInv'
<1>1. /\ UNCHANGED <<pending, txq, inbox, relayed, executed>>
      /\ issued' = issued + 1
      /\ \E result : Asked(r, result)
      /\ \/ outcome' = [outcome EXCEPT ![issued + 1] = "failed:bad_relay"]
         \/ outcome' = [outcome EXCEPT ![issued + 1] = "failed:no_slot"]
  BY DEF RejectCommand, Asked, baseVars, linkVars, nodeVars
<1>2. /\ \A c : Asks(c) => Asks(c)'
      /\ \A p \in Packets : Truthful(p) => Truthful(p)'
      /\ \A k \in 1 .. issued : request'[k] = request[k]
  BY <1>1, TruthKept
<1>3. EntriesTruthful'
  BY <1>1, <1>2 DEF TruthInv, EntriesTruthful
<1>4. FramesTruthful'
  BY <1>1, <1>2 DEF TruthInv, FramesTruthful, OnTheWay, Queued, Received
<1>5. NakIsTrue'
  <2> SUFFICES ASSUME NEW k \in Numbers, outcome'[k] = "failed:nak"
               PROVE  request'[k].relay >= NODE_NUM_RELAYS
    BY DEF NakIsTrue
  <2>1. k # issued + 1 /\ outcome[k] = "failed:nak"
    BY <1>1 DEF TypeOK
  <2>2. request'[k] = request[k]
    BY <1>1, <2>1 DEF TypeOK, Asked
  <2> QED
    BY <2>1, <2>2 DEF TruthInv, NakIsTrue
<1> QED
  BY <1>3, <1>4, <1>5 DEF TruthInv

\* A retry sends the entry once more; giving up closes it.
LEMMA AckTimeoutFacts ==
    ASSUME TypeOK, NEW i \in PendingSlots, AckTimeout(i)
    PROVE  /\ pending[i] # NoCommand
           /\ \/ /\ UNCHANGED outcome
                 /\ \E pc \in Commands, cmd \in Packets :
                      /\ pc.n = pending[i].n /\ pc.seq = pending[i].seq
                      /\ pc.relay_index = pending[i].relay_index
                      /\ pc.value = pending[i].value
                      /\ pending' = [pending EXCEPT ![i] = pc]
                      /\ cmd.type = "CMD" /\ cmd.n = pc.n /\ cmd.seq = pc.seq
                      /\ cmd.relay_index = pc.relay_index /\ cmd.value = pc.value
                      /\ cmd.node = pending[i].node_id
                      /\ \A p : OnTheWay(p)' => OnTheWay(p) \/ p = cmd
              \/ /\ outcome' = [outcome EXCEPT ![pending[i].n] = "failed:no_ack"]
                 /\ pending' = [pending EXCEPT ![i] = NoCommand]
                 /\ \A p : OnTheWay(p)' => OnTheWay(p)
<1>1. pending[i] \in Commands /\ pending[i] # NoCommand
  BY DEF AckTimeout, TypeOK
<1>2. UNCHANGED <<inbox, relayed>>
  BY DEF AckTimeout
<1>3. CASE MayRetry(pending[i])
  <2> DEFINE pc  == Retried(pending[i])
             cmd == CmdPacket(pending[i], FreshId(Base))
  <2>1. /\ pending' = [pending EXCEPT ![i] = pc]
        /\ SendCommand(pending[i])
        /\ UNCHANGED outcome
    BY <1>3 DEF AckTimeout
  <2>2. /\ pc \in Commands
        /\ pc.n = pending[i].n /\ pc.seq = pending[i].seq
        /\ pc.relay_index = pending[i].relay_index /\ pc.value = pending[i].value
    BY <1>1, <1>3 DEF MayRetry, Retried, Commands
  <2>3. /\ cmd \in Packets /\ cmd.type = "CMD"
        /\ cmd.n = pending[i].n /\ cmd.seq = pending[i].seq
        /\ cmd.relay_index = pending[i].relay_index /\ cmd.value = pending[i].value
        /\ cmd.node = pending[i].node_id
    BY <1>1, CmdPacketAsks, FreshIdType
  <2>4. \A p : OnTheWay(p)' => OnTheWay(p) \/ p = cmd
    BY <1>1, <1>2, <2>1, SendCommandOnTheWay
  <2> HIDE DEF pc, cmd
  <2> QED
    BY <1>1, <2>1, <2>2, <2>3, <2>4
<1>4. CASE ~MayRetry(pending[i])
  <2>1. /\ outcome' = [outcome EXCEPT ![pending[i].n] = "failed:no_ack"]
        /\ pending' = [pending EXCEPT ![i] = NoCommand]
        /\ UNCHANGED txq
    BY <1>4 DEF AckTimeout, Closed
  <2> QED
    BY <1>1, <1>2, <2>1 DEF OnTheWay, Queued, Received
<1> QED
  BY <1>3, <1>4

LEMMA AckTimeoutTruth ==
    ASSUME TypeOK, TruthInv, NEW i \in PendingSlots, AckTimeout(i)
    PROVE  TruthInv'
<1>1. pending[i] # NoCommand /\ Asks(pending[i])
  BY AckTimeoutFacts DEF TruthInv, EntriesTruthful
<1>2. UNCHANGED <<issued, request, executed>>
  BY DEF AckTimeout, nodeVars
<1>3. /\ \A c : Asks(c) => Asks(c)'
      /\ \A p \in Packets : Truthful(p) => Truthful(p)'
  BY <1>2, TruthKept
<1>4. ASSUME UNCHANGED outcome, NEW pc \in Commands, NEW cmd \in Packets,
             pc.n = pending[i].n, pc.relay_index = pending[i].relay_index,
             pc.value = pending[i].value,
             pending' = [pending EXCEPT ![i] = pc],
             cmd.type = "CMD", cmd.n = pc.n,
             cmd.relay_index = pc.relay_index, cmd.value = pc.value,
             \A p : OnTheWay(p)' => OnTheWay(p) \/ p = cmd
      PROVE  TruthInv'
  <2>1. Asks(pc)' /\ Asks(cmd)'
    BY <1>1, <1>2, <1>4 DEF Asks
  <2>2. EntriesTruthful'
    BY <1>3, <1>4, <2>1 DEF TruthInv, EntriesTruthful, TypeOK
  <2>3. FramesTruthful'
    BY <1>3, <1>4, <2>1 DEF TruthInv, FramesTruthful, Truthful
  <2>4. NakIsTrue'
    BY <1>2, <1>4 DEF TruthInv, NakIsTrue
  <2> QED
    BY <2>2, <2>3, <2>4 DEF TruthInv
<1>5. ASSUME outcome' = [outcome EXCEPT ![pending[i].n] = "failed:no_ack"],
             pending' = [pending EXCEPT ![i] = NoCommand],
             \A p : OnTheWay(p)' => OnTheWay(p)
      PROVE  TruthInv'
  <2>1. EntriesTruthful'
    BY <1>3, <1>5 DEF TruthInv, EntriesTruthful, TypeOK
  <2>2. FramesTruthful'
    BY <1>3, <1>5 DEF TruthInv, FramesTruthful
  <2>3. \A k \in Numbers : outcome'[k] \in {"failed:no_ack", outcome[k]}
    BY <1>5 DEF TypeOK
  <2>4. NakIsTrue'
    BY <1>2, <2>3 DEF TruthInv, NakIsTrue
  <2> QED
    BY <2>1, <2>2, <2>4 DEF TruthInv
<1> QED
  BY <1>4, <1>5, AckTimeoutFacts

\* An ACK that BASE handles was on its way.
LEMMA HandledAck ==
    ASSUME TypeOK, HandleAck
    PROVE  /\ NextFrame(Base) \in AckPackets
           /\ NextFrame(Base) \in Packets
           /\ OnTheWay(NextFrame(Base))
           /\ \A p : OnTheWay(p)' => OnTheWay(p)
<1>1. HasFrame(Base) /\ Take(Base) /\ UNCHANGED txq /\ NextFrame(Base).type = "ACK"
  BY DEF HandleAck, Fresh
<1>2. NextFrame(Base) \in Packets /\ NextFrame(Base) \in AckPackets
  BY <1>1, NextFrameType, FrameFields
<1>3. /\ Received(NextFrame(Base))
      /\ \A p : Received(p)' => Received(p)
      /\ relayed' = relayed
  BY <1>1, TakeReceived
<1> QED
  BY <1>1, <1>2, <1>3 DEF OnTheWay, Queued

\* The entry an ACK closes is one that it matches.
LEMMA ClosedEntry ==
    ASSUME TypeOK, NEW ack, Matching(ack) # {}
    PROVE  /\ Min(Matching(ack)) \in PendingSlots
           /\ pending[Min(Matching(ack))] # NoCommand
           /\ pending[Min(Matching(ack))] \in Commands
           /\ AckMatches(pending[Min(Matching(ack))], ack)
<1>1. Matching(ack) \in SUBSET Nat
  BY AckMatchAssumption DEF Matching, PendingSlots
<1>2. Min(Matching(ack)) \in Matching(ack)
  BY <1>1, MinInSet
<1> QED
  BY <1>2 DEF Matching, TypeOK

LEMMA HandleAckTruth ==
    ASSUME TypeOK, TruthInv, HandleAck
    PROVE  TruthInv'
<1> DEFINE ack == NextFrame(Base)
           i   == Min(Matching(ack))
<1>1. UNCHANGED <<issued, request, executed>>
  BY DEF HandleAck, nodeVars
<1>2. /\ \A c : Asks(c) => Asks(c)'
      /\ \A p \in Packets : Truthful(p) => Truthful(p)'
  BY <1>1, TruthKept
<1>3. FramesTruthful'
  BY <1>2, HandledAck DEF TruthInv, FramesTruthful
<1>4. /\ ack \in AckPackets /\ Truthful(ack)
  BY HandledAck DEF TruthInv, FramesTruthful
<1>5. CASE Matching(ack) # {}
  <2>1. /\ pending' = [pending EXCEPT ![i] = NoCommand]
        /\ outcome' = [outcome EXCEPT ![pending[i].n] = AckVerdict(pending[i], ack)]
    BY <1>5 DEF HandleAck, Closed
  <2>2. /\ pending[i] # NoCommand /\ pending[i] \in Commands /\ i \in PendingSlots
        /\ AckMatches(pending[i], ack)
    BY <1>5, ClosedEntry
  <2> HIDE DEF i, ack
  <2>3. EntriesTruthful'
    BY <1>2, <2>1 DEF TruthInv, EntriesTruthful, TypeOK
  <2>4. Asks(pending[i]) /\ pending[i].relay_index = ack.relay_index
    BY <2>2 DEF TruthInv, EntriesTruthful, AckMatches
  <2>5. NakIsTrue'
    <3> SUFFICES ASSUME NEW k \in Numbers, outcome'[k] = "failed:nak"
                 PROVE  request[k].relay >= NODE_NUM_RELAYS
      BY <1>1 DEF NakIsTrue
    <3>2. CASE k # pending[i].n
      <4>1. outcome[k] = "failed:nak"
        BY <2>1, <3>2 DEF TypeOK
      <4> QED
        BY <4>1 DEF TruthInv, NakIsTrue
    <3>3. CASE k = pending[i].n
      <4>1. AckVerdict(pending[i], ack) = "failed:nak"
        BY <2>1, <3>3 DEF TypeOK
      <4>2. ack.result = 0
        BY <1>4, <4>1 DEF AckVerdict, AckPackets
      <4>3. ack.relay_index >= NODE_NUM_RELAYS
        BY <1>4, <4>2 DEF Truthful, AckPackets
      <4> QED
        BY <2>4, <3>3, <4>3 DEF Asks
    <3> QED
      BY <3>2, <3>3
  <2> QED
    BY <1>3, <2>3, <2>5 DEF TruthInv
<1>6. CASE Matching(ack) = {}
  <2>1. UNCHANGED <<pending, outcome>>
    BY <1>6 DEF HandleAck
  <2> QED
    BY <1>1, <2>1, HandledAck, QuietTruth
<1> QED
  BY <1>5, <1>6

\* A command a node takes was on its way, and the answer is the only new frame.
LEMMA TakeAndSendAck ==
    ASSUME TypeOK, NEW n \in Nodes, Fresh(n, "CMD"), Take(n),
           NEW result \in {0, 1}, NEW state \in {0, 1},
           SendAck(n, NextFrame(n), result, state)
    PROVE  /\ NextFrame(n) \in CmdPackets /\ NextFrame(n) \in Packets
           /\ OnTheWay(NextFrame(n))
           /\ \E ack \in Packets :
                 /\ ack.type = "ACK" /\ ack.n = NextFrame(n).n /\ ack.seq = NextFrame(n).seq
                 /\ ack.relay_index = NextFrame(n).relay_index
                 /\ ack.result = result /\ ack.state = state /\ ack.node = n
                 /\ \A p : OnTheWay(p)' => OnTheWay(p) \/ p = ack
<1> DEFINE ack == [type |-> "ACK", node |-> n, id |-> FreshId(n),
                   relay_index |-> NextFrame(n).relay_index, result |-> result,
                   state |-> state, has_seq |-> TRUE, seq |-> NextFrame(n).seq,
                   n |-> NextFrame(n).n]
<1>1. HasFrame(n) /\ NextFrame(n) \in Packets /\ NextFrame(n) \in CmdPackets
  BY NextFrameType, FrameFields DEF Fresh
<1>2. /\ Received(NextFrame(n))
      /\ \A p : Received(p)' => Received(p)
      /\ relayed' = relayed
  BY <1>1, TakeReceived
<1>3. ack \in Packets /\ Send(n, TXP_ACK, ack)
  BY <1>1, AckPacketType DEF SendAck
<1>4. /\ ack.type = "ACK" /\ ack.n = NextFrame(n).n /\ ack.seq = NextFrame(n).seq
      /\ ack.relay_index = NextFrame(n).relay_index
      /\ ack.result = result /\ ack.state = state /\ ack.node = n
  OBVIOUS
<1>5. TXP_ACK \in TxPrio
  BY DEF TxPrio
<1> HIDE DEF ack
<1>6. \A p : Queued(p)' => Queued(p) \/ p = ack
  BY <1>3, <1>5, SendQueued
<1>7. \A p : OnTheWay(p)' => OnTheWay(p) \/ p = ack
  BY <1>2, <1>6 DEF OnTheWay
<1> QED
  BY <1>1, <1>2, <1>3, <1>4, <1>7 DEF OnTheWay

\* A truthful answer to a truthful command.
LEMMA AnswerTruth ==
    ASSUME TypeOK, TruthInv, UNCHANGED <<pending, issued, request, outcome>>,
           executed \subseteq executed',
           NEW ack \in Packets, Truthful(ack)',
           \A p : OnTheWay(p)' => OnTheWay(p) \/ p = ack
    PROVE  TruthInv'
<1>1. EntriesTruthful'
  BY TruthKept DEF TruthInv, EntriesTruthful
<1>2. FramesTruthful'
  BY TruthKept DEF TruthInv, FramesTruthful
<1>3. NakIsTrue'
  BY DEF TruthInv, NakIsTrue
<1> QED
  BY <1>1, <1>2, <1>3 DEF TruthInv

LEMMA RefuseTruth ==
    ASSUME TypeOK, TruthInv, NEW n \in Nodes, RefuseCommand(n)
    PROVE  TruthInv'
<1>1. /\ Fresh(n, "CMD") /\ ~ValidRelay(NextFrame(n))
      /\ Take(n) /\ SendAck(n, NextFrame(n), 0, 0)
      /\ UNCHANGED <<pending, issued, request, outcome, executed>>
  BY DEF RefuseCommand, baseVars, nodeVars, userVars
<1>2. PICK ack \in Packets :
          /\ ack.type = "ACK" /\ ack.n = NextFrame(n).n
          /\ ack.relay_index = NextFrame(n).relay_index
          /\ ack.result = 0 /\ ack.state = 0
          /\ \A p : OnTheWay(p)' => OnTheWay(p) \/ p = ack
  BY <1>1, TakeAndSendAck
<1>3. /\ NextFrame(n) \in CmdPackets
      /\ Asks(NextFrame(n))
  BY <1>1, TakeAndSendAck DEF TruthInv, FramesTruthful, Truthful, CmdPackets
<1>4. ack.relay_index >= NODE_NUM_RELAYS
  BY <1>1, <1>2, <1>3, CommandPathAssumption DEF ValidRelay, CmdPackets, RelayIds
<1>5. Truthful(ack)'
  BY <1>1, <1>2, <1>3, <1>4 DEF Truthful, Asks
<1> QED
  BY <1>1, <1>2, <1>5, AnswerTruth

LEMMA ExecuteTruth ==
    ASSUME TypeOK, TruthInv, NEW n \in Nodes, NEW saved \in BOOLEAN, ExecuteCommand(n, saved)
    PROVE  TruthInv'
<1> DEFINE cmd == NextFrame(n)
<1>1. /\ Fresh(n, "CMD") /\ ValidRelay(cmd) /\ Take(n)
      /\ RelaySet(n, cmd, saved) /\ SendAck(n, cmd, 1, relay'[n][cmd.relay_index])
      /\ UNCHANGED <<pending, issued, request, outcome>>
  BY DEF ExecuteCommand, baseVars, userVars
<1>2. /\ cmd \in CmdPackets /\ cmd.relay_index \in OwnRelays
      /\ cmd.value \in {0, 1} /\ cmd.n \in Numbers
  BY <1>1, ValidCommand
<1>3. relay'[n][cmd.relay_index] = cmd.value
  BY <1>1, <1>2, RelaySetType
<1>4. executed' = executed \cup {cmd.n}
  BY <1>1 DEF RelaySet
<1>5. PICK ack \in Packets :
          /\ ack.type = "ACK" /\ ack.n = cmd.n
          /\ ack.result = 1 /\ ack.state = cmd.value
          /\ \A p : OnTheWay(p)' => OnTheWay(p) \/ p = ack
  BY <1>1, <1>2, <1>3, TakeAndSendAck
<1>6. Asks(cmd)
  BY <1>1, <1>2, <1>3, TakeAndSendAck DEF TruthInv, FramesTruthful, Truthful, CmdPackets
<1> HIDE DEF cmd
<1>7. Truthful(ack)'
  BY <1>1, <1>4, <1>5, <1>6 DEF Truthful, Asks
<1> QED
  BY <1>1, <1>4, <1>5, <1>7, AnswerTruth

LEMMA ReportFacts ==
    ASSUME TypeOK, NEW n \in Nodes, SendReport(n)
    PROVE  \E data \in Packets :
               /\ data.type = "DATA"
               /\ \A p : OnTheWay(p)' => OnTheWay(p) \/ p = data
<1> DEFINE data == [type |-> "DATA", node |-> n, id |-> FreshId(n),
                    num_relays |-> NODE_NUM_RELAYS]
<1>1. data \in Packets /\ data.type = "DATA" /\ Send(n, TXP_DATA, data)
  BY FreshIdType DEF Packets, DataPackets, SendReport
<1>2. TXP_DATA \in TxPrio /\ UNCHANGED <<inbox, relayed>>
  BY DEF TxPrio, SendReport
<1> HIDE DEF data
<1>3. \A p : Queued(p)' => Queued(p) \/ p = data
  BY <1>1, <1>2, SendQueued
<1>4. \A p : OnTheWay(p)' => OnTheWay(p) \/ p = data
  BY <1>2, <1>3 DEF OnTheWay, Received
<1> QED
  BY <1>1, <1>4

LEMMA ReportTruth ==
    ASSUME TypeOK, TruthInv, NEW n \in Nodes, SendReport(n)
    PROVE  TruthInv'
<1>1. PICK data \in Packets :
          /\ data.type = "DATA"
          /\ \A p : OnTheWay(p)' => OnTheWay(p) \/ p = data
  BY ReportFacts
<1>2. Truthful(data)'
  BY <1>1 DEF Truthful
<1>3. UNCHANGED <<pending, issued, request, outcome, executed>>
  BY DEF SendReport, baseVars, nodeVars, userVars
<1> QED
  BY <1>1, <1>2, <1>3, AnswerTruth

\* The steps that send nothing.
LEMMA QuietSteps ==
    ASSUME TypeOK,
           \/ HandleData
           \/ \E n \in Nodes : NodeReboot(n) \/ CrashInRelaySet(n)
           \/ \E d \in Devices : \/ DropDuplicate(d)
                                 \/ \E direct, overheard \in BOOLEAN : Transmit(d, direct, overheard)
           \/ \E pkt \in relayed, heard \in BOOLEAN : Repeat(pkt, heard)
           \/ UNCHANGED vars
    PROVE  /\ UNCHANGED <<pending, seqCounter, issued, request, outcome>>
           /\ executed \subseteq executed'
           /\ \A p : OnTheWay(p)' => OnTheWay(p)
<1>1. CASE HandleData
  <2>1. HasFrame(Base) /\ Take(Base)
    BY <1>1 DEF HandleData, Fresh
  <2> QED
    BY <1>1, <2>1, TakeReceived DEF HandleData, OnTheWay, Queued, nodeVars, userVars
<1>2. ASSUME NEW n \in Nodes, NodeReboot(n) \/ CrashInRelaySet(n)
      PROVE  /\ UNCHANGED <<pending, seqCounter, issued, request, outcome>>
             /\ executed \subseteq executed'
             /\ \A p : OnTheWay(p)' => OnTheWay(p)
  <2>1. /\ txq' = [txq EXCEPT ![n] = EmptyQueue] /\ inbox' = [inbox EXCEPT ![n] = <<>>]
        /\ relayed' = relayed
        /\ UNCHANGED <<pending, seqCounter, issued, request, outcome>>
        /\ executed \subseteq executed'
    BY <1>2 DEF NodeReboot, CrashInRelaySet, Restart, baseVars, userVars
  <2> QED
    BY <2>1, RestartOnTheWay
<1>3. ASSUME NEW d \in Devices, DropDuplicate(d)
      PROVE  /\ UNCHANGED <<pending, seqCounter, issued, request, outcome>>
             /\ executed \subseteq executed'
             /\ \A p : OnTheWay(p)' => OnTheWay(p)
  <2>1. HasFrame(d) /\ Take(d)
    BY <1>3 DEF DropDuplicate
  <2> QED
    BY <1>3, <2>1, TakeReceived
       DEF DropDuplicate, OnTheWay, Queued, baseVars, nodeVars, userVars
<1>4. ASSUME NEW d \in Devices, NEW direct \in BOOLEAN, NEW overheard \in BOOLEAN,
             Transmit(d, direct, overheard)
      PROVE  /\ UNCHANGED <<pending, seqCounter, issued, request, outcome>>
             /\ executed \subseteq executed'
             /\ \A p : OnTheWay(p)' => OnTheWay(p)
  <2>1. UNCHANGED <<pending, seqCounter, issued, request, outcome, executed>>
    BY <1>4 DEF Transmit, baseVars, nodeVars, userVars
  <2> QED
    BY <1>4, <2>1, TransmitOnTheWay
<1>5. ASSUME NEW pkt \in relayed, NEW heard \in BOOLEAN, Repeat(pkt, heard)
      PROVE  /\ UNCHANGED <<pending, seqCounter, issued, request, outcome>>
             /\ executed \subseteq executed'
             /\ \A p : OnTheWay(p)' => OnTheWay(p)
  <2>1. UNCHANGED <<pending, seqCounter, issued, request, outcome, executed>>
    BY <1>5 DEF Repeat, baseVars, nodeVars, userVars
  <2> QED
    BY <1>5, <2>1, RepeatOnTheWay
<1>6. CASE UNCHANGED vars
  BY <1>6 DEF vars, baseVars, linkVars, nodeVars, userVars, OnTheWay, Queued, Received
<1> QED
  BY <1>1, <1>2, <1>3, <1>4, <1>5, <1>6

LEMMA BaseRebootTruth ==
    ASSUME TypeOK, TruthInv, BaseReboot
    PROVE  TruthInv'
<1>1. UNCHANGED <<issued, request, executed, relayed>>
  BY DEF BaseReboot, nodeVars
<1>2. \A p : OnTheWay(p)' => OnTheWay(p)
  BY RestartOnTheWay DEF BaseReboot
<1>3. FramesTruthful'
  BY <1>1, <1>2, TruthKept DEF TruthInv, FramesTruthful
<1>4. EntriesTruthful'
  BY DEF BaseReboot, EntriesTruthful
<1>5. \A k \in Numbers : outcome'[k] \in {"lost", outcome[k]}
  BY DEF BaseReboot
<1>6. NakIsTrue'
  BY <1>1, <1>5 DEF TruthInv, NakIsTrue
<1> QED
  BY <1>3, <1>4, <1>6 DEF TruthInv

LEMMA NextTruth == TypeOK /\ TruthInv /\ [Next]_vars => TruthInv'
<1> SUFFICES ASSUME TypeOK, TruthInv, [Next]_vars PROVE TruthInv'
  OBVIOUS
<1>1. ASSUME NEW r \in Requests, AcceptCommand(r) \/ RejectCommand(r) PROVE TruthInv'
  BY <1>1, AcceptTruth, RejectTruth
<1>2. ASSUME NEW i \in PendingSlots, AckTimeout(i) PROVE TruthInv'
  BY <1>2, AckTimeoutTruth
<1>3. CASE HandleAck \/ BaseReboot
  BY <1>3, HandleAckTruth, BaseRebootTruth
<1>4. ASSUME NEW n \in Nodes,
             \/ RefuseCommand(n) \/ SendReport(n)
             \/ \E saved \in BOOLEAN : ExecuteCommand(n, saved)
      PROVE  TruthInv'
  BY <1>4, RefuseTruth, ExecuteTruth, ReportTruth
<1>5. ASSUME \/ HandleData
             \/ \E n \in Nodes : NodeReboot(n) \/ CrashInRelaySet(n)
             \/ \E d \in Devices : \/ DropDuplicate(d)
                                   \/ \E direct, overheard \in BOOLEAN : Transmit(d, direct, overheard)
             \/ \E pkt \in relayed, heard \in BOOLEAN : Repeat(pkt, heard)
             \/ UNCHANGED vars
      PROVE  TruthInv'
  BY <1>5, QuietSteps, QuietTruth
<1> QED
  BY <1>1, <1>2, <1>3, <1>4, <1>5 DEF Next

LEMMA InitNothingOnTheWay == Init => \A p : ~OnTheWay(p)
<1> SUFFICES ASSUME Init, NEW p PROVE ~OnTheWay(p)
  OBVIOUS
<1>1. ~Queued(p)
  BY EmptyIsQueue DEF Init, Queued
<1>2. ~Received(p)
  <2>1. \A d \in Devices : 1 .. Len(inbox[d]) = {}
    BY EmptySeq DEF Init
  <2> QED
    BY <2>1 DEF Received
<1> QED
  BY <1>1, <1>2 DEF Init, OnTheWay

LEMMA TruthHolds == Spec => [](TypeOK /\ TruthInv)
<1>1. Init => TruthInv
  BY InitNothingOnTheWay
     DEF Init, TruthInv, EntriesTruthful, FramesTruthful, NakIsTrue
<1> QED
  BY <1>1, NextTruth, TypeCorrect, PTL DEF Spec

\* "failed:nak" is said only of relays the node does not have, however many
\* commands, reboots, retries and lost or late frames there are.
THEOREM NakTruthful == Spec => []NakIsTrue
<1>1. TypeOK /\ TruthInv => NakIsTrue
  BY DEF TruthInv
<1> QED
  BY <1>1, TruthHolds, PTL

----------------------------------------------------------------------------
(* As long as no sequence number is in use twice, "ok" can be relied on.   *)
(* Two things can bring that about: SEQ_MAX newer commands while a frame   *)
(* or an entry is still alive, and a restart of BASE while a command or an *)
(* ACK is under way.  OkIsOfSomeExecution says what holds without them.    *)

Tagged(p) == p.type # "DATA"

\* No entry and no frame outlives SEQ_MAX newer commands.
NoneStale ==
    /\ \A i \in PendingSlots : pending[i] # NoCommand => issued < pending[i].n + SEQ_MAX
    /\ \A p \in Packets : OnTheWay(p) /\ Tagged(p) => issued < p.n + SEQ_MAX

\* No command and no ACK survives a restart of BASE.
CleanRestart == BaseReboot => \A p \in Packets : OnTheWay(p)' => ~Tagged(p)

\* How many numbers a counter at c has given out since s.
Behind(s, c) == IF s <= c THEN c - s ELSE c + SEQ_MAX - s

\* Request n can have got the number s when the counter is at c after k requests:
\* every number is given out for a request of its own.
Dated(s, n, c, k) == n <= k /\ Behind(s, c) <= k - n

Timely(x) == Dated(x.seq, x.n, seqCounter, issued)

SeqInv ==
    /\ \A i \in PendingSlots : pending[i] # NoCommand => Timely(pending[i])
    /\ \A p \in Packets : OnTheWay(p) /\ Tagged(p) => Timely(p)
    /\ \A i, j \in PendingSlots :
          /\ pending[i] # NoCommand /\ pending[j] # NoCommand
          /\ pending[i].seq = pending[j].seq
          => pending[i].n = pending[j].n
    /\ \A p \in Packets, i \in PendingSlots :
          /\ OnTheWay(p) /\ Tagged(p) /\ pending[i] # NoCommand
          /\ p.seq = pending[i].seq
          => p.n = pending[i].n

LEMMA TaggedFields ==
    ASSUME NEW p \in Packets, Tagged(p)
    PROVE  p.seq \in Seqs /\ p.n \in Numbers
<1>1. p \in CmdPackets \/ p \in AckPackets
  BY DEF Packets, DataPackets, Tagged
<1> QED
  BY <1>1 DEF CmdPackets, AckPackets

LEMMA EntryFields ==
    ASSUME TypeOK, NEW i \in PendingSlots, pending[i] # NoCommand
    PROVE  pending[i].seq \in Seqs /\ pending[i].n \in Numbers
BY DEF TypeOK, Commands

\* The next number is new to whatever will not be stale, and leaves it dated.
LEMMA NextSeqIsNew ==
    ASSUME TypeOK, NEW s \in Seqs, NEW n \in Numbers,
           Dated(s, n, seqCounter, issued), issued + 1 < n + SEQ_MAX
    PROVE  s # NextSeq /\ Dated(s, n, NextSeq, issued + 1)
<1>1. /\ seqCounter \in 0 .. SEQ_MAX /\ SEQ_MAX \in Nat \ {0}
      /\ issued \in Nat /\ s \in 1 .. SEQ_MAX /\ n \in Nat
  BY CommandPathAssumption DEF TypeOK, Seqs, Numbers
<1>2. CASE seqCounter >= SEQ_MAX
  BY <1>1, <1>2 DEF Dated, Behind, NextSeq
<1>3. CASE seqCounter < SEQ_MAX
  <2>1. NextSeq = seqCounter + 1
    BY <1>1, <1>3 DEF NextSeq
  <2> QED
    BY <1>1, <2>1 DEF Dated, Behind
<1> QED
  BY <1>1, <1>2, <1>3

\* A step that adds at most one frame, with the number of one on its way.
LEMMA AnswerSeq ==
    ASSUME TypeOK, SeqInv, UNCHANGED <<pending, seqCounter, issued>>,
           NEW new \in Packets, NEW old \in Packets, OnTheWay(old),
           Tagged(new) => Tagged(old) /\ new.seq = old.seq /\ new.n = old.n,
           \A p : OnTheWay(p)' => OnTheWay(p) \/ p = new
    PROVE  SeqInv'
<1>1. ASSUME NEW p \in Packets, OnTheWay(p)', Tagged(p)
      PROVE  /\ Timely(p)
             /\ \A i \in PendingSlots :
                   pending[i] # NoCommand /\ p.seq = pending[i].seq => p.n = pending[i].n
  <2>1. CASE OnTheWay(p)
    BY <1>1, <2>1 DEF SeqInv
  <2>2. CASE p = new
    BY <1>1, <2>2 DEF SeqInv, Timely
  <2> QED
    BY <1>1, <2>1, <2>2
<1> QED
  BY <1>1 DEF SeqInv, Timely

LEMMA QuietSeq ==
    ASSUME TypeOK, SeqInv, UNCHANGED <<pending, seqCounter, issued>>,
           \A p \in Packets : OnTheWay(p)' /\ Tagged(p) => OnTheWay(p)
    PROVE  SeqInv'
BY DEF SeqInv, Timely

LEMMA AcceptSeq ==
    ASSUME TypeOK, SeqInv, NoneStale', NEW r \in Requests, AcceptCommand(r)
    PROVE  SeqInv'
<1>1. PICK pc \in Commands, cmd \in Packets, i \in PendingSlots :
          /\ pc.n = issued + 1 /\ pc.seq = NextSeq
          /\ pending' = [pending EXCEPT ![i] = pc]
          /\ cmd.n = pc.n /\ cmd.seq = pc.seq
          /\ \A p : OnTheWay(p)' => OnTheWay(p) \/ p = cmd
          /\ issued' = issued + 1
  BY AcceptFacts
<1>2. seqCounter' = NextSeq
  BY DEF AcceptCommand
<1>3. \A j \in PendingSlots : pending'[j] = pc \/ pending'[j] = pending[j]
  BY <1>1 DEF TypeOK
<1>4. issued \in Nat /\ NextSeq \in Nat
  BY CommandPathAssumption DEF TypeOK, NextSeq
<1>5. Dated(pc.seq, pc.n, seqCounter', issued')
  BY <1>1, <1>2, <1>4 DEF Dated, Behind
<1>6. ASSUME NEW j \in PendingSlots, pending'[j] # NoCommand, pending'[j] # pc
      PROVE  /\ pending[j] # NoCommand /\ pending'[j] = pending[j]
             /\ pending[j].seq # pc.seq
             /\ Dated(pending[j].seq, pending[j].n, seqCounter', issued')
  <2>1. pending[j] # NoCommand /\ pending'[j] = pending[j]
    BY <1>3, <1>6
  <2>2. issued + 1 < pending[j].n + SEQ_MAX
    BY <1>1, <1>6, <2>1 DEF NoneStale
  <2>3. Dated(pending[j].seq, pending[j].n, seqCounter, issued)
    BY <2>1 DEF SeqInv, Timely
  <2>4. pending[j].seq \in Seqs /\ pending[j].n \in Numbers
    BY <2>1, EntryFields
  <2>5. /\ pending[j].seq # NextSeq
        /\ Dated(pending[j].seq, pending[j].n, NextSeq, issued + 1)
    BY <2>2, <2>3, <2>4, NextSeqIsNew
  <2> QED
    BY <1>1, <1>2, <2>1, <2>5
<1>7. ASSUME NEW p \in Packets, OnTheWay(p)', Tagged(p)
      PROVE  /\ Dated(p.seq, p.n, seqCounter', issued')
             /\ (p.seq = pc.seq /\ p.n = pc.n) \/ (OnTheWay(p) /\ p.seq # pc.seq)
  <2>1. CASE p = cmd
    BY <1>1, <1>5, <2>1
  <2>2. CASE p # cmd
    <3>1. OnTheWay(p)
      BY <1>1, <1>7, <2>2
    <3>2. issued + 1 < p.n + SEQ_MAX
      BY <1>1, <1>7 DEF NoneStale
    <3>3. Dated(p.seq, p.n, seqCounter, issued)
      BY <1>7, <3>1 DEF SeqInv, Timely
    <3>4. p.seq # NextSeq /\ Dated(p.seq, p.n, NextSeq, issued + 1)
      BY <1>7, <3>2, <3>3, TaggedFields, NextSeqIsNew
    <3> QED
      BY <1>1, <1>2, <3>1, <3>4
  <2> QED
    BY <2>1, <2>2
<1>8. \A j \in PendingSlots :
          pending'[j] # NoCommand => Dated(pending'[j].seq, pending'[j].n, seqCounter', issued')
  BY <1>5, <1>6
<1>9. ASSUME NEW j \in PendingSlots, NEW k \in PendingSlots,
             pending'[j] # NoCommand, pending'[k] # NoCommand,
             pending'[j].seq = pending'[k].seq
      PROVE  pending'[j].n = pending'[k].n
  BY <1>6, <1>9 DEF SeqInv
<1>10. ASSUME NEW p \in Packets, NEW j \in PendingSlots,
              OnTheWay(p)', Tagged(p), pending'[j] # NoCommand, p.seq = pending'[j].seq
       PROVE  p.n = pending'[j].n
  BY <1>6, <1>7, <1>10 DEF SeqInv
<1> QED
  BY <1>7, <1>8, <1>9, <1>10 DEF SeqInv, Timely, Tagged

LEMMA RejectSeq ==
    ASSUME TypeOK, SeqInv, NEW r \in Requests, RejectCommand(r)
    PROVE  SeqInv'
<1>1. UNCHANGED <<pending, seqCounter, txq, inbox, relayed>> /\ issued' = issued + 1
  BY DEF RejectCommand, Asked, baseVars, linkVars
<1>2. issued \in Nat /\ seqCounter \in Nat /\ SEQ_MAX \in Nat
  BY CommandPathAssumption DEF TypeOK
<1>3. ASSUME NEW s \in Seqs, NEW n \in Numbers, Dated(s, n, seqCounter, issued)
      PROVE  Dated(s, n, seqCounter', issued')
  BY <1>1, <1>2, <1>3 DEF Dated, Behind, Seqs, Numbers
<1>4. \A i \in PendingSlots :
          pending[i] # NoCommand => Dated(pending[i].seq, pending[i].n, seqCounter', issued')
  BY <1>3, EntryFields DEF SeqInv, Timely
<1>5. \A p \in Packets : OnTheWay(p) /\ Tagged(p) => Dated(p.seq, p.n, seqCounter', issued')
  BY <1>3, TaggedFields DEF SeqInv, Timely
<1> QED
  BY <1>1, <1>4, <1>5 DEF SeqInv, Timely, OnTheWay, Queued, Received

\* Closing an entry, with nothing new on its way.
LEMMA CloseSeq ==
    ASSUME TypeOK, SeqInv, NEW i, pending' = [pending EXCEPT ![i] = NoCommand],
           UNCHANGED <<seqCounter, issued>>, \A p : OnTheWay(p)' => OnTheWay(p)
    PROVE  SeqInv'
<1>1. \A j \in PendingSlots : pending'[j] # NoCommand => pending'[j] = pending[j]
  BY DEF TypeOK
<1> QED
  BY <1>1 DEF SeqInv, Timely

LEMMA AckTimeoutSeq ==
    ASSUME TypeOK, SeqInv, NEW i \in PendingSlots, AckTimeout(i)
    PROVE  SeqInv'
<1>1. UNCHANGED <<seqCounter, issued>> /\ pending[i] # NoCommand
  BY AckTimeoutFacts DEF AckTimeout
<1>2. ASSUME NEW pc \in Commands, NEW cmd \in Packets,
             pc.n = pending[i].n, pc.seq = pending[i].seq,
             pending' = [pending EXCEPT ![i] = pc],
             cmd.n = pc.n, cmd.seq = pc.seq,
             \A p : OnTheWay(p)' => OnTheWay(p) \/ p = cmd
      PROVE  SeqInv'
  <2>1. \A j \in PendingSlots :
            pending'[j] # NoCommand => /\ pending[j] # NoCommand
                                       /\ pending'[j].seq = pending[j].seq
                                       /\ pending'[j].n = pending[j].n
    BY <1>1, <1>2 DEF TypeOK
  <2>2. ASSUME NEW p \in Packets, OnTheWay(p)', Tagged(p)
        PROVE  /\ Timely(p)
               /\ \A j \in PendingSlots :
                     pending[j] # NoCommand /\ p.seq = pending[j].seq => p.n = pending[j].n
    <3>1. CASE OnTheWay(p)
      BY <2>2, <3>1 DEF SeqInv
    <3>2. CASE p = cmd
      BY <1>1, <1>2, <3>2 DEF SeqInv, Timely
    <3> QED
      BY <1>2, <2>2, <3>1, <3>2
  <2> QED
    BY <1>1, <2>1, <2>2 DEF SeqInv, Timely
<1>3. ASSUME pending' = [pending EXCEPT ![i] = NoCommand], \A p : OnTheWay(p)' => OnTheWay(p)
      PROVE  SeqInv'
  BY <1>1, <1>3, CloseSeq
<1> QED
  BY <1>2, <1>3, AckTimeoutFacts

LEMMA HandleAckSeq ==
    ASSUME TypeOK, SeqInv, HandleAck
    PROVE  SeqInv'
<1> DEFINE i == Min(Matching(NextFrame(Base)))
<1>1. UNCHANGED <<seqCounter, issued>>
  BY DEF HandleAck
<1>2. \/ pending' = [pending EXCEPT ![i] = NoCommand]
      \/ UNCHANGED pending
  BY DEF HandleAck, Closed
<1>3. \A p : OnTheWay(p)' => OnTheWay(p)
  BY HandledAck
<1> HIDE DEF i
<1> QED
  BY <1>1, <1>2, <1>3, CloseSeq, QuietSeq

LEMMA NodeAnswerSeq ==
    ASSUME TypeOK, SeqInv, NEW n \in Nodes,
           \/ RefuseCommand(n)
           \/ \E saved \in BOOLEAN : ExecuteCommand(n, saved)
    PROVE  SeqInv'
<1>1. UNCHANGED <<pending, seqCounter, issued>>
  BY DEF RefuseCommand, ExecuteCommand, baseVars, userVars
<1>2. \E result, state \in {0, 1} :
          Fresh(n, "CMD") /\ Take(n) /\ SendAck(n, NextFrame(n), result, state)
  <2>1. CASE RefuseCommand(n)
    BY <2>1 DEF RefuseCommand
  <2>2. ASSUME NEW saved \in BOOLEAN, ExecuteCommand(n, saved)
        PROVE  \E result, state \in {0, 1} :
                   Fresh(n, "CMD") /\ Take(n) /\ SendAck(n, NextFrame(n), result, state)
    <3> DEFINE cmd == NextFrame(n)
    <3>1. /\ Fresh(n, "CMD") /\ ValidRelay(cmd) /\ Take(n)
          /\ RelaySet(n, cmd, saved) /\ SendAck(n, cmd, 1, relay'[n][cmd.relay_index])
      BY <2>2 DEF ExecuteCommand
    <3>2. relay'[n][cmd.relay_index] = cmd.value /\ cmd.value \in {0, 1}
      BY <3>1, ValidCommand, RelaySetType
    <3> HIDE DEF cmd
    <3> QED
      BY <3>1, <3>2 DEF cmd
  <2> QED
    BY <2>1, <2>2
<1>3. PICK result \in {0, 1}, state \in {0, 1} :
          Fresh(n, "CMD") /\ Take(n) /\ SendAck(n, NextFrame(n), result, state)
  BY <1>2
<1>4. /\ NextFrame(n) \in CmdPackets /\ NextFrame(n) \in Packets
      /\ OnTheWay(NextFrame(n))
      /\ \E ack \in Packets :
            /\ ack.n = NextFrame(n).n /\ ack.seq = NextFrame(n).seq
            /\ \A p : OnTheWay(p)' => OnTheWay(p) \/ p = ack
  BY <1>3, TakeAndSendAck
<1>5. PICK old \in Packets : old = NextFrame(n)
  BY <1>4
<1>6. Tagged(old)
  BY <1>4, <1>5 DEF CmdPackets, Tagged
<1> QED
  BY <1>1, <1>4, <1>5, <1>6, AnswerSeq

LEMMA NextSeqInv ==
    ASSUME TypeOK, SeqInv, NoneStale', [Next]_vars, [CleanRestart]_vars
    PROVE  SeqInv'
<1>1. ASSUME NEW r \in Requests, AcceptCommand(r) \/ RejectCommand(r) PROVE SeqInv'
  BY <1>1, AcceptSeq, RejectSeq
<1>2. ASSUME NEW i \in PendingSlots, AckTimeout(i) PROVE SeqInv'
  BY <1>2, AckTimeoutSeq
<1>3. CASE HandleAck
  BY <1>3, HandleAckSeq
<1>4. CASE BaseReboot
  <2>1. pending' = [i \in PendingSlots |-> NoCommand]
    BY <1>4 DEF BaseReboot
  <2>2. CleanRestart
    BY <1>4 DEF BaseReboot, TypeOK, vars, budgetVars
  <2>3. \A p \in Packets : OnTheWay(p)' => ~Tagged(p)
    BY <1>4, <2>2 DEF CleanRestart
  <2> QED
    BY <2>1, <2>3 DEF SeqInv
<1>5. ASSUME NEW n \in Nodes,
             RefuseCommand(n) \/ \E saved \in BOOLEAN : ExecuteCommand(n, saved)
      PROVE  SeqInv'
  BY <1>5, NodeAnswerSeq
<1>6. ASSUME NEW n \in Nodes, SendReport(n) PROVE SeqInv'
  <2>1. UNCHANGED <<pending, seqCounter, issued>>
    BY <1>6 DEF SendReport, baseVars, userVars
  <2>2. \A p \in Packets : OnTheWay(p)' /\ Tagged(p) => OnTheWay(p)
    BY <1>6, ReportFacts DEF Tagged
  <2> QED
    BY <2>1, <2>2, QuietSeq
<1>7. ASSUME \/ HandleData
             \/ \E n \in Nodes : NodeReboot(n) \/ CrashInRelaySet(n)
             \/ \E d \in Devices : \/ DropDuplicate(d)
                                   \/ \E direct, overheard \in BOOLEAN : Transmit(d, direct, overheard)
             \/ \E pkt \in relayed, heard \in BOOLEAN : Repeat(pkt, heard)
             \/ UNCHANGED vars
      PROVE  SeqInv'
  BY <1>7, QuietSteps, QuietSeq
<1> QED
  BY <1>1, <1>2, <1>3, <1>4, <1>5, <1>6, <1>7 DEF Next

\* The verdict on an entry that an ACK closes.
LEMMA VerdictTrue ==
    ASSUME TypeOK, TruthInv, SeqInv, HandleAck, Matching(NextFrame(Base)) # {}
    PROVE  LET ack == NextFrame(Base)
               i   == Min(Matching(ack))
           IN  /\ AckVerdict(pending[i], ack) = "ok" => pending[i].n \in executed
               /\ AckVerdict(pending[i], ack) # "failed:state_mismatch"
<1> DEFINE ack == NextFrame(Base)
           i   == Min(Matching(ack))
<1>1. ack \in AckPackets /\ ack \in Packets /\ OnTheWay(ack) /\ Truthful(ack)
  BY HandledAck DEF TruthInv, FramesTruthful
<1>2. /\ i \in PendingSlots /\ pending[i] # NoCommand
      /\ AckMatches(pending[i], ack) /\ Asks(pending[i])
  BY ClosedEntry DEF TruthInv, EntriesTruthful
<1> HIDE DEF i, ack
<1>3. ack.type = "ACK" /\ ack.has_seq = TRUE /\ ack.result \in {0, 1}
  BY <1>1 DEF AckPackets
<1>4. pending[i].seq = ack.seq
  BY <1>2, <1>3 DEF AckMatches
<1>5. pending[i].n = ack.n
  BY <1>1, <1>2, <1>3, <1>4 DEF SeqInv, Tagged
<1>6. CASE ack.result = 0
  <2>1. AckVerdict(pending[i], ack) = "failed:nak"
    BY <1>6 DEF AckVerdict
  <2> QED
    BY <2>1 DEF i, ack
<1>7. CASE ack.result = 1
  <2>1. ack.n \in executed /\ ack.state = pending[i].value
    BY <1>1, <1>2, <1>3, <1>5, <1>7 DEF Truthful, Asks
  <2>2. AckVerdict(pending[i], ack) = "ok"
    BY <1>7, <2>1 DEF AckVerdict
  <2> QED
    BY <1>5, <2>1, <2>2 DEF i, ack
<1> QED
  BY <1>3, <1>6, <1>7

Answers == OkMeansExecuted /\ NoFalseMismatch

LEMMA NextAnswers ==
    ASSUME TypeOK, TruthInv, SeqInv, Answers, [Next]_vars
    PROVE  Answers'
<1>1. ASSUME executed \subseteq executed',
             \A k \in Numbers :
                 outcome'[k] \in {outcome[k], "pending", "preempted", "lost", "failed:no_ack",
                                  "failed:no_slot", "failed:bad_relay"}
      PROVE  Answers'
  BY <1>1 DEF Answers, OkMeansExecuted, NoFalseMismatch
<1>2. ASSUME NEW r \in Requests, AcceptCommand(r) PROVE Answers'
  <2>1. executed' = executed
    BY <1>2 DEF AcceptCommand, nodeVars
  <2> QED
    BY <1>1, <1>2, <2>1, AcceptFacts
<1>3. ASSUME NEW r \in Requests, RejectCommand(r) PROVE Answers'
  <2>1. /\ executed' = executed
        /\ \/ outcome' = [outcome EXCEPT ![issued + 1] = "failed:bad_relay"]
           \/ outcome' = [outcome EXCEPT ![issued + 1] = "failed:no_slot"]
    BY <1>3 DEF RejectCommand, Asked, nodeVars
  <2> QED
    BY <1>1, <2>1 DEF TypeOK
<1>4. ASSUME NEW i \in PendingSlots, AckTimeout(i) PROVE Answers'
  <2>1. /\ executed' = executed
        /\ \/ outcome' = outcome
           \/ outcome' = [outcome EXCEPT ![pending[i].n] = "failed:no_ack"]
    BY <1>4 DEF AckTimeout, nodeVars
  <2> QED
    BY <1>1, <2>1 DEF TypeOK
<1>5. CASE HandleAck
  <2> DEFINE ack == NextFrame(Base)
             i   == Min(Matching(ack))
  <2>1. executed' = executed
    BY <1>5 DEF HandleAck, nodeVars
  <2>2. CASE Matching(ack) = {}
    <3>1. outcome' = outcome
      BY <1>5, <2>2 DEF HandleAck
    <3> QED
      BY <1>1, <2>1, <3>1
  <2>3. CASE Matching(ack) # {}
    <3>1. outcome' = [outcome EXCEPT ![pending[i].n] = AckVerdict(pending[i], ack)]
      BY <1>5, <2>3 DEF HandleAck
    <3>2. /\ AckVerdict(pending[i], ack) = "ok" => pending[i].n \in executed
          /\ AckVerdict(pending[i], ack) # "failed:state_mismatch"
      BY <1>5, <2>3, VerdictTrue
    <3> HIDE DEF i, ack
    <3> QED
      BY <2>1, <3>1, <3>2 DEF Answers, OkMeansExecuted, NoFalseMismatch, TypeOK
  <2> QED
    BY <2>2, <2>3
<1>6. CASE BaseReboot
  <2>1. executed' = executed /\ \A k \in Numbers : outcome'[k] \in {"lost", outcome[k]}
    BY <1>6 DEF BaseReboot, nodeVars
  <2> QED
    BY <1>1, <2>1
<1>7. ASSUME NEW n \in Nodes,
             \/ RefuseCommand(n) \/ SendReport(n)
             \/ \E saved \in BOOLEAN : ExecuteCommand(n, saved)
      PROVE  Answers'
  <2>1. outcome' = outcome /\ executed \subseteq executed'
    BY <1>7 DEF RefuseCommand, SendReport, ExecuteCommand, RelaySet, nodeVars, userVars
  <2> QED
    BY <1>1, <2>1
<1>8. ASSUME \/ HandleData
             \/ \E n \in Nodes : NodeReboot(n) \/ CrashInRelaySet(n)
             \/ \E d \in Devices : \/ DropDuplicate(d)
                                   \/ \E direct, overheard \in BOOLEAN : Transmit(d, direct, overheard)
             \/ \E pkt \in relayed, heard \in BOOLEAN : Repeat(pkt, heard)
             \/ UNCHANGED vars
      PROVE  Answers'
  BY <1>1, <1>8, QuietSteps
<1> QED
  BY <1>2, <1>3, <1>4, <1>5, <1>6, <1>7, <1>8 DEF Next

\* The numbers hold out in every behaviour that meets the two conditions.
LEMMA SeqHolds == Spec /\ []NoneStale /\ [][CleanRestart]_vars => []SeqInv
<1>1. Init => SeqInv
  BY InitNothingOnTheWay DEF Init, SeqInv
<1>2. TypeOK /\ SeqInv /\ NoneStale' /\ [Next]_vars /\ [CleanRestart]_vars => SeqInv'
  BY NextSeqInv
<1> QED
  BY <1>1, <1>2, TypeCorrect, PTL DEF Spec

LEMMA AnswersHold == Spec /\ []NoneStale /\ [][CleanRestart]_vars => []Answers
<1>1. Init => Answers
  BY DEF Init, Answers, OkMeansExecuted, NoFalseMismatch
<1>2. TypeOK /\ TruthInv /\ SeqInv /\ Answers /\ [Next]_vars => Answers'
  BY NextAnswers
<1> QED
  BY <1>1, <1>2, SeqHolds, TruthHolds, PTL DEF Spec

\* An "ok" is never owed to the late ACK of an older command: as long as no
\* frame outlives SEQ_MAX newer commands or a restart of BASE, the command
\* itself was executed, through losses, duplicates, repeaters and node crashes.
THEOREM OkTrusted ==
    Spec /\ []NoneStale /\ [][CleanRestart]_vars => []OkMeansExecuted
<1>1. Answers => OkMeansExecuted
  BY DEF Answers
<1> QED
  BY <1>1, AnswersHold, PTL

\* Under the same conditions no command is answered "failed:state_mismatch".
THEOREM MismatchNeverSaid ==
    Spec /\ []NoneStale /\ [][CleanRestart]_vars => []NoFalseMismatch
<1>1. Answers => NoFalseMismatch
  BY DEF Answers
<1> QED
  BY <1>1, AnswersHold, PTL

\* The two conditions are met where BASE does not restart and takes no more
\* commands than there are numbers, as in the run command_faults.
THEOREM SmallRunsConform ==
    ASSUME MaxIssued <= SEQ_MAX, MaxBaseReboots = 0
    PROVE  Spec => []NoneStale /\ [][CleanRestart]_vars
<1>1. TypeOK => NoneStale
  <2> SUFFICES ASSUME TypeOK PROVE NoneStale
    OBVIOUS
  <2>1. \A n \in Numbers : issued < n + SEQ_MAX
    BY CommandPathAssumption DEF TypeOK
  <2> QED
    BY <2>1, EntryFields, TaggedFields DEF NoneStale
<1>2. TypeOK => CleanRestart
  BY DEF TypeOK, BaseReboot, CleanRestart
<1> QED
  BY <1>1, <1>2, TypeCorrect, PTL

----------------------------------------------------------------------------
(* What a node has carried out survives                                    *)

ExecutionInv ==
    /\ relay = nvs
    /\ \A n \in Nodes, r \in OwnRelays :
          lastExec[n][r] # 0 => /\ lastExec[n][r] \in 1 .. issued
                                /\ relay[n][r] = request[lastExec[n][r]].value

LEMMA ExecutionKept ==
    ASSUME TypeOK, ExecutionInv, UNCHANGED <<relay, nvs, lastExec>>,
           \/ UNCHANGED <<issued, request>>
           \/ \E r \in Requests : \E result : Asked(r, result),
           executed \subseteq executed'
    PROVE  ExecutionInv'
BY TruthKept DEF ExecutionInv

LEMMA ExecuteKept ==
    ASSUME MaxNvsFailures = 0, TypeOK, TruthInv, ExecutionInv,
           NEW n \in Nodes, NEW saved \in BOOLEAN, ExecuteCommand(n, saved)
    PROVE  ExecutionInv'
<1> DEFINE cmd == NextFrame(n)
<1>1. /\ Fresh(n, "CMD") /\ ValidRelay(cmd) /\ Take(n)
      /\ RelaySet(n, cmd, saved) /\ SendAck(n, cmd, 1, relay'[n][cmd.relay_index])
      /\ UNCHANGED <<issued, request>>
  BY DEF ExecuteCommand, userVars
<1>2. saved
  BY DEF ExecuteCommand, TypeOK
<1>3. /\ cmd \in CmdPackets /\ cmd.relay_index \in OwnRelays
      /\ cmd.value \in {0, 1} /\ cmd.n \in Numbers
  BY <1>1, ValidCommand
<1>4. relay'[n][cmd.relay_index] = cmd.value
  BY <1>1, <1>3, RelaySetType
<1>5. Asks(cmd)
  BY <1>1, <1>3, <1>4, TakeAndSendAck DEF TruthInv, FramesTruthful, Truthful, CmdPackets
<1> HIDE DEF cmd
<1>6. /\ relay' = [relay EXCEPT ![n][cmd.relay_index] = cmd.value]
      /\ nvs' = IF relay'[n] # relay[n] THEN [nvs EXCEPT ![n] = relay'[n]] ELSE nvs
      /\ lastExec' = [lastExec EXCEPT ![n][cmd.relay_index] = cmd.n]
  BY <1>1, <1>2 DEF RelaySet
<1>7. \A m \in Nodes : relay'[m] = nvs'[m]
  BY <1>6 DEF ExecutionInv, TypeOK
<1>8. relay' = nvs'
  BY <1>6, <1>7 DEF TypeOK
<1>9. ASSUME NEW m \in Nodes, NEW r \in OwnRelays, lastExec'[m][r] # 0
      PROVE  /\ lastExec'[m][r] \in 1 .. issued
             /\ relay'[m][r] = request[lastExec'[m][r]].value
  <2>1. CASE m = n /\ r = cmd.relay_index
    BY <1>3, <1>5, <1>6, <2>1 DEF Asks, TypeOK
  <2>2. CASE ~(m = n /\ r = cmd.relay_index)
    <3>1. relay'[m][r] = relay[m][r] /\ lastExec'[m][r] = lastExec[m][r]
      BY <1>3, <1>6, <2>2 DEF TypeOK
    <3> QED
      BY <1>9, <3>1 DEF ExecutionInv
  <2> QED
    BY <2>1, <2>2
<1> QED
  BY <1>1, <1>8, <1>9 DEF ExecutionInv

LEMMA RestartKept ==
    ASSUME TypeOK, ExecutionInv, NEW n \in Nodes, Restart(n), UNCHANGED lastExec
    PROVE  ExecutionInv'
<1>1. relay' = [relay EXCEPT ![n] = nvs[n]] /\ UNCHANGED <<nvs, issued, request>>
  BY DEF Restart, Restored, userVars
<1>2. relay' = relay
  BY <1>1 DEF ExecutionInv, TypeOK
<1> QED
  BY <1>1, <1>2 DEF ExecutionInv

LEMMA NextExecution ==
    ASSUME MaxNvsFailures = 0, TypeOK, TruthInv, ExecutionInv, [Next]_vars
    PROVE  ExecutionInv'
<1>1. ASSUME NEW n \in Nodes, NEW saved \in BOOLEAN, ExecuteCommand(n, saved)
      PROVE  ExecutionInv'
  BY <1>1, ExecuteKept
<1>2. ASSUME NEW n \in Nodes, NodeReboot(n) \/ CrashInRelaySet(n) PROVE ExecutionInv'
  BY <1>2, RestartKept DEF NodeReboot, CrashInRelaySet
<1>3. ASSUME NEW r \in Requests, AcceptCommand(r) \/ RejectCommand(r) PROVE ExecutionInv'
  <2>1. UNCHANGED <<relay, nvs, lastExec, executed>>
    BY <1>3 DEF AcceptCommand, RejectCommand, nodeVars
  <2>2. \E q \in Requests : \E result : Asked(q, result)
    BY <1>3, AcceptFacts DEF RejectCommand
  <2> QED
    BY <2>1, <2>2, ExecutionKept
<1>4. ASSUME \/ \E i \in PendingSlots : AckTimeout(i)
             \/ HandleAck \/ HandleData \/ BaseReboot
             \/ \E n \in Nodes : RefuseCommand(n) \/ SendReport(n)
             \/ \E d \in Devices : \/ DropDuplicate(d)
                                   \/ \E direct, overheard \in BOOLEAN : Transmit(d, direct, overheard)
             \/ \E pkt \in relayed, heard \in BOOLEAN : Repeat(pkt, heard)
             \/ UNCHANGED vars
      PROVE  ExecutionInv'
  <2>1. UNCHANGED <<relay, nvs, lastExec, executed, issued, request>>
    BY <1>4 DEF AckTimeout, HandleAck, HandleData, BaseReboot, RefuseCommand, SendReport,
       DropDuplicate, Transmit, Repeat, vars, nodeVars, userVars
  <2> QED
    BY <2>1, ExecutionKept
<1> QED
  BY <1>1, <1>2, <1>3, <1>4 DEF Next

\* As long as no write to flash fails, pin and flash hold the value of the last
\* completed execution after every crash, even one in the middle of relaySet.
THEOREM ExecutionSurvives ==
    ASSUME MaxNvsFailures = 0
    PROVE  Spec => []ExecutionOutlivesCrashes
<1>1. Init => ExecutionInv
  BY DEF Init, ExecutionInv
<1>2. TypeOK /\ TruthInv /\ ExecutionInv /\ [Next]_vars => ExecutionInv'
  BY NextExecution
<1>3. ExecutionInv => ExecutionOutlivesCrashes
  BY DEF ExecutionInv, ExecutionOutlivesCrashes
<1> QED
  BY <1>1, <1>2, <1>3, TruthHolds, PTL DEF Spec
=============================================================================
