---------------------------- MODULE CommandPath ----------------------------
(***************************************************************************)
(* The path of a relay command: MQTT -> BASE -> radio (perhaps through a   *)
(* repeater) -> node -> relay and flash -> ACK -> BASE -> cmd_status.      *)
(*                                                                         *)
(* Composed from the transmit slots (TxSlots), the acknowledgement         *)
(* matching (AckMatch) and the handlers of lora_base.cpp, lora_node.cpp,   *)
(* sensor_manager.cpp and persistence.cpp.  Each device is one loop, so a  *)
(* handler is one step; the devices and the radio interleave freely.       *)
(*                                                                         *)
(* Time is left out: an acknowledgement timer may expire whenever its      *)
(* entry is active, whatever was sent before.  That covers every           *)
(* ACK_TIMEOUT_MS, queueing delay, air time and repeater jitter.  Duplicate *)
(* entries are never old enough to expire here.                            *)
(***************************************************************************)
EXTENDS Integers, Sequences, TxSlots, AckMatch

CONSTANTS
    Nodes, Base,
    Values,            \* what commands ask for: off (0), on (1)
    MAX_RELAYS,        \* relays a command topic can name (MAX_RELAYS_PER_NODE)
    NODE_NUM_RELAYS,   \* relays a node really has
    ACK_MAX_RETRIES,
    SEQ_MAX,           \* the largest sequence number (255 in the firmware)
    MaxPacketId,       \* the largest packet_id (65535 in the firmware)
    \* Bounds of the model, and budgets of the faults
    MaxIssued, MaxReports,
    MaxOverheard,      \* frames a repeater takes up; 0 where there is none
    MaxNodeReboots, MaxBaseReboots, MaxNvsFailures

ASSUME CommandPathAssumption ==
    /\ Base \notin Nodes
    /\ Values \subseteq {0, 1}
    /\ MAX_RELAYS \in Nat \ {0}
    /\ NODE_NUM_RELAYS \in 1 .. MAX_RELAYS
    /\ ACK_MAX_RETRIES \in Nat
    /\ SEQ_MAX \in Nat \ {0}
    /\ MaxPacketId \in Nat
    /\ MaxIssued \in Nat
    /\ MaxReports \in Nat
    /\ MaxOverheard \in Nat
    /\ MaxNodeReboots \in Nat
    /\ MaxBaseReboots \in Nat
    /\ MaxNvsFailures \in Nat

VARIABLES
    \* BASE, volatile
    pending,      \* pendingCmds[]
    seqCounter,   \* the static counter of sendCommandWithAck
    everSeen,     \* nodeInfo[].ever_seen
    numRelays,    \* nodeInfo[].num_relays
    \* every device, volatile
    txq,          \* the transmit queue
    inbox,        \* whole frames waiting in the UART, oldest first
    seen,         \* (source, packet_id) pairs in the dedup cache that can still match
    \* the nodes
    relay,        \* relay pins and relayShadow, which always agree
    nvs,          \* the relay mask in flash
    \* the repeater
    relayed,      \* frames it has overheard and not yet repeated
    \* what has been asked and what became of it
    issued, request, outcome, executed, lastExec,
    \* budgets used
    reports, overheards, nodeReboots, baseReboots, nvsFailures

baseVars   == <<pending, seqCounter, everSeen, numRelays>>
linkVars   == <<txq, inbox, seen, relayed>>
nodeVars   == <<relay, nvs, executed, lastExec>>
userVars   == <<issued, request, outcome>>
budgetVars == <<reports, overheards, nodeReboots, baseReboots, nvsFailures>>

vars == <<baseVars, linkVars, nodeVars, userVars, budgetVars>>

----------------------------------------------------------------------------
Devices   == Nodes \cup {Base}
RelayIds  == 0 .. MAX_RELAYS - 1
OwnRelays == 0 .. NODE_NUM_RELAYS - 1
Numbers   == 1 .. MaxIssued
Seqs      == 1 .. SEQ_MAX
PacketIds == 0 .. MaxPacketId

Requests == [node : Nodes, relay : RelayIds, value : Values]

Commands == [node_id : Nodes, relay_index : RelayIds, value : Values,
             seq : Seqs, retries_left : Nat, n : Numbers]

\* An inactive slot is told from every active one.
ASSUME NoCommandAssumption == NoCommand \notin Commands

\* The frames on the air.  n is the number of the request a frame serves: it
\* travels with the frame for the properties only, no handler reads it.
CmdPackets == [type : {"CMD"}, node : Nodes, id : PacketIds, relay_index : RelayIds,
               value : Values, seq : Seqs, n : Numbers]
AckPackets == [type : {"ACK"}, node : Nodes, id : PacketIds, relay_index : RelayIds,
               result : {0, 1}, state : {0, 1}, has_seq : {TRUE},
               seq : Seqs, n : Numbers]
DataPackets == [type : {"DATA"}, node : Nodes, id : PacketIds, num_relays : {NODE_NUM_RELAYS}]
Packets == CmdPackets \cup AckPackets \cup DataPackets

TxItems == [prio : TxPrio, pkt : Packets]

Outcomes == {"none", "pending", "ok", "failed:nak", "failed:state_mismatch",
             "failed:no_ack", "failed:no_slot", "failed:bad_relay",
             "preempted", "lost"}

Source(pkt)   == IF pkt.type = "CMD" THEN Base ELSE pkt.node
Receiver(pkt) == IF pkt.type = "CMD" THEN pkt.node ELSE Base

Init ==
    /\ pending = [i \in PendingSlots |-> NoCommand]
    /\ seqCounter = 0
    /\ everSeen = [n \in Nodes |-> FALSE]
    /\ numRelays = [n \in Nodes |-> 0]
    /\ txq = [d \in Devices |-> EmptyQueue]
    /\ inbox = [d \in Devices |-> <<>>]
    /\ seen = [d \in Devices |-> {}]
    /\ relayed = {}
    /\ relay = [n \in Nodes |-> [r \in OwnRelays |-> 0]]
    /\ nvs = relay
    /\ issued = 0
    /\ request = [k \in Numbers |-> NoCommand]
    /\ outcome = [k \in Numbers |-> "none"]
    /\ executed = {}
    /\ lastExec = [n \in Nodes |-> [r \in OwnRelays |-> 0]]
    /\ reports = 0
    /\ overheards = 0
    /\ nodeReboots = 0
    /\ baseReboots = 0
    /\ nvsFailures = 0

----------------------------------------------------------------------------
(* Transmitting and hearing                                                *)

FrameKey(pkt) == <<Source(pkt), pkt.id>>

\* The frames under way: received and not yet handled, or with the repeater.
UnderWay == relayed \cup UNION {Range(inbox[d]) : d \in Devices}

\* loraNextPacketId, for a counter that starts at random and is far from a full
\* turn: an id that no frame under way and no dedup entry has from this source.
UsedIds(d) == {txq[d][i].pkt.id : i \in UsedSlots(txq[d])}
              \cup {pkt.id : pkt \in {p \in UnderWay : Source(p) = d}}
              \cup {key[2] : key \in {k \in UNION {seen[e] : e \in Devices} : k[1] = d}}

FreshId(d) ==
    CHOOSE id \in PacketIds : PacketIds \ UsedIds(d) # {} => id \notin UsedIds(d)

\* txEnqueue for a frame of the device's own.  A refused frame is dropped and
\* the caller is not told.
Send(d, prio, pkt) ==
    txq' = [txq EXCEPT ![d] = Enqueued(@, [prio |-> prio, pkt |-> pkt])]

\* txPoll puts the next frame on the air.  Its addressee hears it or not; the
\* repeater, if there is one, overhears it or not.
Transmit(d, direct, overheard) ==
    /\ UsedSlots(txq[d]) # {}
    /\ overheard => overheards < MaxOverheard
    /\ LET i   == Pick(txq[d], UsedSlots(txq[d]))
           pkt == txq[d][i].pkt
       IN  /\ txq' = [txq EXCEPT ![d] = Removed(@, i)]
           /\ inbox' = IF direct THEN [inbox EXCEPT ![Receiver(pkt)] = Append(@, pkt)]
                                 ELSE inbox
           /\ relayed' = IF overheard THEN relayed \cup {pkt} ELSE relayed
    /\ overheards' = IF overheard THEN overheards + 1 ELSE overheards
    /\ UNCHANGED <<seen, baseVars, nodeVars, userVars,
                   reports, nodeReboots, baseReboots, nvsFailures>>

\* The repeater sends an overheard frame on, byte for byte, after any delay
\* and in any order, or drops it (rate limit, full queue, nobody hears it).
Repeat(pkt, heard) ==
    /\ pkt \in relayed
    /\ relayed' = relayed \ {pkt}
    /\ inbox' = IF heard THEN [inbox EXCEPT ![Receiver(pkt)] = Append(@, pkt)]
                         ELSE inbox
    /\ UNCHANGED <<txq, seen, baseVars, nodeVars, userVars, budgetVars>>

\* loraLoop takes the oldest frame out of the UART ...
HasFrame(d)  == inbox[d] # <<>>
NextFrame(d) == Head(inbox[d])
IsDuplicate(d) == FrameKey(NextFrame(d)) \in seen[d]

\* ... and hands it to the role's handler unless it was seen before.  An entry
\* of the cache is kept here while another copy of its frame is under way; any
\* other expires without ever matching.
Take(d) ==
    /\ inbox' = [inbox EXCEPT ![d] = Tail(@)]
    /\ UNCHANGED relayed
    /\ seen' = [seen EXCEPT ![d] = {key \in @ \cup {FrameKey(NextFrame(d))} :
                                       \E pkt \in UnderWay' : FrameKey(pkt) = key}]

DropDuplicate(d) ==
    /\ HasFrame(d)
    /\ IsDuplicate(d)
    /\ Take(d)
    /\ UNCHANGED <<txq, baseVars, nodeVars, userVars, budgetVars>>

Fresh(d, type) == HasFrame(d) /\ ~IsDuplicate(d) /\ NextFrame(d).type = type

----------------------------------------------------------------------------
(* BASE                                                                    *)

\* Mutant of NextSeq: every command gets the same number.
NextSeqStuck == 1

\* The sequence numbers 1 .. SEQ_MAX in turn, skipping 0.
NextSeq == IF seqCounter >= SEQ_MAX THEN 1 ELSE seqCounter + 1

\* sendCommand: the frame of a pending entry, under a new packet_id each time.
CmdPacket(pc, id) ==
    [type |-> "CMD", node |-> pc.node_id, id |-> id,
     relay_index |-> pc.relay_index, value |-> pc.value, seq |-> pc.seq, n |-> pc.n]

SendCommand(pc) == Send(Base, TXP_CMD, CmdPacket(pc, FreshId(Base)))

\* The entry sendCommandWithAck fills in: a node never seen gets one retry.
NewCommand(r, seq, k) ==
    [node_id |-> r.node, relay_index |-> r.relay, value |-> r.value, seq |-> seq,
     retries_left |-> IF everSeen[r.node] THEN ACK_MAX_RETRIES ELSE 1, n |-> k]

OutsideProfile(r) == everSeen[r.node] /\ r.relay >= numRelays[r.node]

Asked(r, result) ==
    /\ issued < MaxIssued
    /\ issued' = issued + 1
    /\ request' = [request EXCEPT ![issued + 1] = r]
    /\ outcome' = result

\* mqttCallback with a well-formed command, then sendCommandWithAck.  The
\* entry of an older command for the same relay is overwritten.
AcceptCommand(r) ==
    /\ ~OutsideProfile(r)
    /\ HasPendingSlot(pending, r.node, r.relay)
    /\ LET i  == AckPickSlot(pending, r.node, r.relay)
           pc == NewCommand(r, NextSeq, issued + 1)
       IN  /\ pending' = [pending EXCEPT ![i] = pc]
           /\ SendCommand(pc)
           /\ Asked(r, [k \in Numbers |->
                  CASE k = issued + 1 -> "pending"
                    [] k # issued + 1 /\ pending[i] # NoCommand /\ pending[i].n = k
                                      -> "preempted"
                    [] OTHER -> outcome[k]])
    /\ seqCounter' = NextSeq
    /\ UNCHANGED <<everSeen, numRelays, inbox, seen, relayed, nodeVars, budgetVars>>

\* The two ways a well-formed command is turned down with nothing sent.
RejectCommand(r) ==
    /\ \/ /\ OutsideProfile(r)
          /\ Asked(r, [outcome EXCEPT ![issued + 1] = "failed:bad_relay"])
       \/ /\ ~OutsideProfile(r)
          /\ ~HasPendingSlot(pending, r.node, r.relay)
          /\ Asked(r, [outcome EXCEPT ![issued + 1] = "failed:no_slot"])
    /\ UNCHANGED <<baseVars, linkVars, nodeVars, budgetVars>>

\* Mutant of MayRetry: one try too many.
MayRetryOffByOne(pc) == pc.retries_left >= 0

MayRetry(pc) == pc.retries_left > 0

\* Mutant of Retried: the retry is not counted.
RetriedUncounted(pc) == pc

Retried(pc) == [pc EXCEPT !.retries_left = @ - 1]

\* Mutant of Closed: the entry stays active after its final answer.
ClosedNot(i) == pending

Closed(i) == [pending EXCEPT ![i] = NoCommand]

\* loraProcessPendingAcks, for one entry whose timer has expired.
AckTimeout(i) ==
    /\ pending[i] # NoCommand
    /\ \/ /\ MayRetry(pending[i])
          /\ pending' = [pending EXCEPT ![i] = Retried(@)]
          /\ SendCommand(pending[i])
          /\ UNCHANGED outcome
       \/ /\ ~MayRetry(pending[i])
          /\ pending' = Closed(i)
          /\ outcome' = [outcome EXCEPT ![pending[i].n] = "failed:no_ack"]
          /\ UNCHANGED txq
    /\ UNCHANGED <<seqCounter, everSeen, numRelays, inbox, seen, relayed,
                   issued, request, nodeVars, budgetVars>>

\* The entries an acknowledgement closes; preemption leaves at most one.
Matching(ack) ==
    {i \in PendingSlots : /\ pending[i] # NoCommand
                          /\ pending[i].node_id = ack.node
                          /\ AckMatches(pending[i], ack)}

\* handleAck.  Only cmd_status is followed here, not the other topics.
HandleAck ==
    /\ Fresh(Base, "ACK")
    /\ Take(Base)
    /\ LET ack == NextFrame(Base)
           i   == Min(Matching(ack))
       IN  /\ everSeen' = [everSeen EXCEPT ![ack.node] = TRUE]
           /\ \/ /\ Matching(ack) # {}
                 /\ pending' = Closed(i)
                 /\ outcome' = [outcome EXCEPT ![pending[i].n] = AckVerdict(pending[i], ack)]
              \/ /\ Matching(ack) = {}
                 /\ UNCHANGED <<pending, outcome>>
    /\ UNCHANGED <<seqCounter, numRelays, txq, issued, request, nodeVars, budgetVars>>

\* handleData, as far as commands depend on it: the node's profile.
HandleData ==
    /\ Fresh(Base, "DATA")
    /\ Take(Base)
    /\ LET data == NextFrame(Base)
       IN  /\ everSeen' = [everSeen EXCEPT ![data.node] = TRUE]
           /\ numRelays' = [numRelays EXCEPT ![data.node] = data.num_relays]
    /\ UNCHANGED <<pending, seqCounter, txq, nodeVars, userVars, budgetVars>>

\* A restart of BASE: everything it held is gone, the sequence numbers start
\* over.  packet_id restarts at a random value, here one that is not in use.
\* Nothing is published about the commands it was waiting for: in Home
\* Assistant they stay "pending", "lost" only says so here.
BaseReboot ==
    /\ baseReboots < MaxBaseReboots
    /\ baseReboots' = baseReboots + 1
    /\ pending' = [i \in PendingSlots |-> NoCommand]
    /\ seqCounter' = 0
    /\ everSeen' = [n \in Nodes |-> FALSE]
    /\ numRelays' = [n \in Nodes |-> 0]
    /\ txq' = [txq EXCEPT ![Base] = EmptyQueue]
    /\ inbox' = [inbox EXCEPT ![Base] = <<>>]
    /\ seen' = [seen EXCEPT ![Base] = {}]
    /\ outcome' = [k \in Numbers |-> IF outcome[k] = "pending" THEN "lost" ELSE outcome[k]]
    /\ UNCHANGED <<relayed, issued, request, nodeVars,
                   reports, overheards, nodeReboots, nvsFailures>>

----------------------------------------------------------------------------
(* A node                                                                  *)

SendAck(n, cmd, result, state) ==
    Send(n, TXP_ACK, [type |-> "ACK", node |-> n, id |-> FreshId(n),
                      relay_index |-> cmd.relay_index, result |-> result,
                      state |-> state, has_seq |-> TRUE, seq |-> cmd.seq, n |-> cmd.n])

\* Mutant of ValidRelay: the last relay is taken for invalid.
ValidRelayOffByOne(cmd) == cmd.relay_index < NODE_NUM_RELAYS - 1

ValidRelay(cmd) == cmd.relay_index < NODE_NUM_RELAYS

\* loraNodeHandlePacket, a relay the node does not have: NAK.
RefuseCommand(n) ==
    /\ Fresh(n, "CMD")
    /\ ~ValidRelay(NextFrame(n))
    /\ Take(n)
    /\ SendAck(n, NextFrame(n), 0, 0)
    /\ UNCHANGED <<baseVars, nodeVars, userVars, budgetVars>>

\* relaySet: the pin and the shadow change; the whole mask goes to flash, but
\* only when a bit changed.  A failed write (saved = FALSE) is only logged.
RelaySet(n, cmd, saved) ==
    /\ relay' = [relay EXCEPT ![n][cmd.relay_index] = cmd.value]
    /\ nvs' = IF relay'[n] # relay[n] /\ saved THEN [nvs EXCEPT ![n] = relay'[n]] ELSE nvs
    /\ executed' = executed \cup {cmd.n}
    /\ lastExec' = [lastExec EXCEPT ![n][cmd.relay_index] = cmd.n]

\* loraNodeHandlePacket, a valid relay command: switch, save, acknowledge the
\* resulting state.
ExecuteCommand(n, saved) ==
    /\ Fresh(n, "CMD")
    /\ ValidRelay(NextFrame(n))
    /\ Take(n)
    /\ LET cmd == NextFrame(n)
       IN  /\ RelaySet(n, cmd, saved)
           /\ SendAck(n, cmd, 1, relay'[n][cmd.relay_index])
    /\ \/ saved /\ UNCHANGED nvsFailures
       \/ /\ ~saved
          /\ relay'[n] # relay[n]
          /\ nvsFailures < MaxNvsFailures
          /\ nvsFailures' = nvsFailures + 1
    /\ UNCHANGED <<baseVars, userVars, reports, overheards, nodeReboots, baseReboots>>

\* collectAndSendReport, periodic or after a command.
SendReport(n) ==
    /\ reports < MaxReports
    /\ reports' = reports + 1
    /\ Send(n, TXP_DATA, [type |-> "DATA", node |-> n, id |-> FreshId(n),
                          num_relays |-> NODE_NUM_RELAYS])
    /\ UNCHANGED <<inbox, seen, relayed, baseVars, nodeVars, userVars,
                   overheards, nodeReboots, baseReboots, nvsFailures>>

\* Mutant of Restored: the relays come up off, as on the very first boot.
RestoredOff(n) == [r \in OwnRelays |-> 0]

\* nvsLoadRelayStates, as relaysInit uses it.
Restored(n) == nvs[n]

\* What a restarting node loses, and relaysInit restoring the relays.
Restart(n) ==
    /\ nodeReboots < MaxNodeReboots
    /\ nodeReboots' = nodeReboots + 1
    /\ relay' = [relay EXCEPT ![n] = Restored(n)]
    /\ txq' = [txq EXCEPT ![n] = EmptyQueue]
    /\ inbox' = [inbox EXCEPT ![n] = <<>>]
    /\ seen' = [seen EXCEPT ![n] = {}]
    /\ UNCHANGED <<nvs, relayed, baseVars, userVars,
                   reports, overheards, baseReboots, nvsFailures>>

NodeReboot(n) == Restart(n) /\ UNCHANGED <<executed, lastExec>>

\* Power fails inside relaySet, after the pin has switched and before the mask
\* is in flash.  (A failure after the write is NodeReboot after
\* ExecuteCommand: the ACK is lost with the queue.)
CrashInRelaySet(n) ==
    /\ Fresh(n, "CMD")
    /\ LET cmd == NextFrame(n)
       IN  /\ ValidRelay(cmd)
           /\ executed' = executed \cup {cmd.n}
    /\ Restart(n)
    /\ UNCHANGED lastExec

----------------------------------------------------------------------------
Next ==
    \/ \E r \in Requests : AcceptCommand(r) \/ RejectCommand(r)
    \/ \E i \in PendingSlots : AckTimeout(i)
    \/ HandleAck \/ HandleData \/ BaseReboot
    \/ \E n \in Nodes : \/ RefuseCommand(n)
                        \/ \E saved \in BOOLEAN : ExecuteCommand(n, saved)
                        \/ SendReport(n) \/ NodeReboot(n) \/ CrashInRelaySet(n)
    \/ \E d \in Devices : \/ DropDuplicate(d)
                          \/ \E direct, overheard \in BOOLEAN : Transmit(d, direct, overheard)
    \/ \E pkt \in relayed, heard \in BOOLEAN : Repeat(pkt, heard)

Spec == Init /\ [][Next]_vars

\* The loop of BASE runs loraProcessPendingAcks for ever and time passes, so an
\* active entry's timer expires sooner or later, ACK or no ACK.
FairSpec == Spec /\ \A i \in PendingSlots : WF_vars(AckTimeout(i))

----------------------------------------------------------------------------
(* Properties                                                              *)

\* Every variable keeps to its range: in particular no retry counter of
\* pendingCmds[] runs below zero and no sequence number leaves 1 .. SEQ_MAX.
TypeOK ==
    /\ pending \in [PendingSlots -> Commands \cup {NoCommand}]
    /\ seqCounter \in 0 .. SEQ_MAX
    /\ everSeen \in [Nodes -> BOOLEAN]
    /\ numRelays \in [Nodes -> {0, NODE_NUM_RELAYS}]
    /\ txq \in [Devices -> [Slots -> TxItems \cup {NoItem}]]
    /\ inbox \in [Devices -> Seq(Packets)]
    /\ seen \in [Devices -> SUBSET (Devices \X PacketIds)]
    /\ relayed \subseteq Packets
    /\ relay \in [Nodes -> [OwnRelays -> {0, 1}]]
    /\ nvs \in [Nodes -> [OwnRelays -> {0, 1}]]
    /\ issued \in 0 .. MaxIssued
    /\ request \in [Numbers -> Requests \cup {NoCommand}]
    /\ outcome \in [Numbers -> Outcomes]
    /\ executed \subseteq Numbers
    /\ lastExec \in [Nodes -> [OwnRelays -> 0 .. MaxIssued]]
    /\ reports \in 0 .. MaxReports
    /\ overheards \in 0 .. MaxOverheard
    /\ nodeReboots \in 0 .. MaxNodeReboots
    /\ baseReboots \in 0 .. MaxBaseReboots
    /\ nvsFailures \in 0 .. MaxNvsFailures

\* BASE never waits for two commands on one relay, whatever order commands,
\* retries, acknowledgements and reboots come in (the preemption rule of
\* ackPickSlot, on which the early exit of handleAck's loop relies).
OneSlotPerRelay ==
    \A i, j \in PendingSlots :
        /\ i # j
        /\ pending[i] # NoCommand
        /\ pending[j] # NoCommand
        /\ pending[i].node_id = pending[j].node_id
        => pending[i].relay_index # pending[j].relay_index

\* "ok" is published for a command only if a node really carried out that very
\* command, not an older one for the same relay whose ACK came late.
OkMeansExecuted ==
    \A k \in Numbers : outcome[k] = "ok" => k \in executed

\* A restart of BASE starts the sequence numbers over, so the ACK of a command
\* from before it may close a newer one.  Even then "ok" is only said of what a
\* node has really carried out: the same value for the same relay.
OkIsOfSomeExecution ==
    \A k \in Numbers : outcome[k] = "ok" => \E j \in executed : request[j] = request[k]

\* No command is ever answered "failed:state_mismatch": a node reports the state
\* it has just set, under the number of the command it set it for, so an ACK
\* that matches an entry by its number agrees with it, however late it comes.
NoFalseMismatch ==
    \A k \in Numbers : outcome[k] # "failed:state_mismatch"

\* "failed:nak" is said only of relays the node does not have.
NakIsTrue ==
    \A k \in Numbers : outcome[k] = "failed:nak" => request[k].relay >= NODE_NUM_RELAYS

\* What a node has carried out outlives every crash and restart until it
\* carries out something else: the pin and the flash both hold the value of the
\* last completed execution, even when power fails inside a later one.
ExecutionOutlivesCrashes ==
    \A n \in Nodes, r \in OwnRelays :
        LET k == lastExec[n][r]
        IN  k # 0 => /\ relay[n][r] = request[k].value
                     /\ nvs[n][r] = request[k].value

\* What BASE says at last of a command it has accepted, and what it says at
\* once of one it turns down.
FinalAnswers == {"ok", "failed:nak", "failed:state_mismatch", "failed:no_ack"}
Refusals     == {"failed:no_slot", "failed:bad_relay"}

\* A newer command for the same relay has been accepted.
Replaced(k) ==
    \E j \in k + 1 .. issued :
        /\ request[j].node = request[k].node
        /\ request[j].relay = request[k].relay
        /\ outcome[j] \notin Refusals

\* No command drops out of pendingCmds[] unanswered: one that is undecided has
\* its slot, whatever is accepted or turned down around it, and is given up
\* without an answer only for a newer command for its own relay, or by a
\* restart of BASE.
SlotsKept ==
    \A k \in Numbers :
        /\ outcome[k] = "pending" =>
               \E i \in PendingSlots : pending[i] # NoCommand /\ pending[i].n = k
        /\ outcome[k] = "preempted" => Replaced(k)
        /\ outcome[k] = "lost" => baseReboots > 0

\* Every accepted command is answered "ok" or "failed:...", even if no frame
\* ever arrives: the retries run out and loraProcessPendingAcks gives up.
\* Excepted are a command that a newer one for its relay replaces and one that
\* BASE forgets in a restart; nothing is ever published about these.
EveryCommandAnswered ==
    \A k \in Numbers, b \in 0 .. MaxBaseReboots :
        outcome[k] = "pending" /\ baseReboots = b
            ~> outcome[k] \in FinalAnswers \/ Replaced(k) \/ baseReboots > b

\* The command path keeps the promise of RelayCommand: a request is decided
\* once, and "ok" is said only of an executed request that no later one for the
\* same relay has replaced.
Phase == [k \in Numbers |->
             CASE outcome[k] = "none"      -> "none"
               [] outcome[k] = "pending"   -> "waiting"
               [] outcome[k] = "ok"        -> "ok"
               [] outcome[k] = "preempted" -> "replaced"
               [] OTHER                    -> "failed"]

Promise == INSTANCE RelayCommand WITH phase <- Phase

ImplementsRelayCommand == Promise!Spec

\* lora_base.cpp:117 and README.md:119: the last command for a relay wins.
\* When it has been confirmed, no older one may switch the relay again.
LastCommandWins ==
    \A n \in Nodes, r \in OwnRelays, k \in Numbers :
        /\ outcome[k] = "ok"
        /\ request[k].node = n
        /\ request[k].relay = r
        /\ \A j \in k + 1 .. issued : ~Promise!SameTarget(request[j], request[k])
        => relay[n][r] = request[k].value
=============================================================================
