------------------------- MODULE RelayCommandProofs -------------------------
(***************************************************************************)
(* The command path implements RelayCommand: every step of BASE, a node or *)
(* the radio is a step of the promise or changes nothing it speaks of.     *)
(***************************************************************************)
EXTENDS CommandPathProofs

USE DEF Devices, Numbers

----------------------------------------------------------------------------
(* The table of pending commands and the record of the fates agree         *)

\* The entry c says what was asked under its number, and that is undecided.
Recorded(c) ==
    /\ c.n \in 1 .. issued
    /\ outcome[c.n] = "pending"
    /\ request[c.n].node = c.node_id
    /\ request[c.n].relay = c.relay_index

FateInv ==
    /\ \A k \in Numbers : outcome[k] = "none" <=> k > issued
    /\ \A i \in PendingSlots : pending[i] # NoCommand => Recorded(pending[i])
    /\ \A k \in Numbers : outcome[k] = "pending" =>
          \E i \in PendingSlots : pending[i] # NoCommand /\ pending[i].n = k

\* No two entries wait for the same command.
LEMMA EntriesDiffer ==
    ASSUME TypeOK, OneSlotPerRelay, FateInv,
           NEW i \in PendingSlots, NEW j \in PendingSlots,
           pending[i] # NoCommand, pending[j] # NoCommand, pending[i].n = pending[j].n
    PROVE  i = j
BY DEF FateInv, Recorded, OneSlotPerRelay

\* The entry AcceptCommand overwrites is the one the new request replaces.
LEMMA OverwrittenIsReplaced ==
    ASSUME TypeOK, OneSlotPerRelay, FateInv, NEW r \in Requests,
           HasPendingSlot(pending, r.node, r.relay), NEW k \in Numbers
    PROVE  LET i == AckPickSlot(pending, r.node, r.relay)
           IN  pending[i] # NoCommand /\ pending[i].n = k
               <=> outcome[k] = "pending" /\ Promise!SameTarget(request[k], r)
<1> DEFINE i == AckPickSlot(pending, r.node, r.relay)
<1>1. i \in PendingSlots
  BY PickSlotIsSlot
<1>2. SameRelay(pending, r.node, r.relay) # {} => i \in SameRelay(pending, r.node, r.relay)
  <2>1. SameRelay(pending, r.node, r.relay) \in SUBSET Nat
    BY AckMatchAssumption DEF SameRelay, PendingSlots
  <2> QED
    BY <2>1, MinInSet DEF AckPickSlot
<1>3. SameRelay(pending, r.node, r.relay) = {} => pending[i] = NoCommand
  <2> SUFFICES ASSUME SameRelay(pending, r.node, r.relay) = {} PROVE pending[i] = NoCommand
    OBVIOUS
  <2>1. FreePending(pending) # {} /\ FreePending(pending) \in SUBSET Nat
    BY AckMatchAssumption DEF HasPendingSlot, FreePending, PendingSlots
  <2>2. i \in FreePending(pending)
    BY <2>1, MinInSet DEF AckPickSlot
  <2> QED
    BY <2>2 DEF FreePending
<1> HIDE DEF i
<1>4. ASSUME pending[i] # NoCommand, pending[i].n = k
      PROVE  outcome[k] = "pending" /\ Promise!SameTarget(request[k], r)
  <2>1. i \in SameRelay(pending, r.node, r.relay)
    BY <1>2, <1>3, <1>4
  <2> QED
    BY <1>1, <1>4, <2>1 DEF SameRelay, FateInv, Recorded, Promise!SameTarget
<1>5. ASSUME outcome[k] = "pending", Promise!SameTarget(request[k], r)
      PROVE  pending[i] # NoCommand /\ pending[i].n = k
  <2>1. PICK j \in PendingSlots : pending[j] # NoCommand /\ pending[j].n = k
    BY <1>5 DEF FateInv
  <2>2. j \in SameRelay(pending, r.node, r.relay)
    BY <1>5, <2>1 DEF FateInv, Recorded, SameRelay, Promise!SameTarget
  <2>3. i = j
    BY <1>1, <1>2, <2>1, <2>2 DEF SameRelay, OneSlotPerRelay
  <2> QED
    BY <2>1, <2>3
<1> QED
  BY <1>4, <1>5 DEF i

\* What AcceptCommand does to the table and the record.
LEMMA AcceptedRecord ==
    ASSUME TypeOK, NEW r \in Requests, AcceptCommand(r)
    PROVE  LET i == AckPickSlot(pending, r.node, r.relay)
           IN  /\ i \in PendingSlots
               /\ \E pc \in Commands :
                     /\ pending' = [pending EXCEPT ![i] = pc]
                     /\ pc.n = issued + 1 /\ pc.node_id = r.node /\ pc.relay_index = r.relay
               /\ issued + 1 \in Numbers /\ issued' = issued + 1
               /\ request' = [request EXCEPT ![issued + 1] = r]
               /\ outcome' = [k \in Numbers |->
                     CASE k = issued + 1 -> "pending"
                       [] k # issued + 1 /\ pending[i] # NoCommand /\ pending[i].n = k
                                         -> "preempted"
                       [] OTHER -> outcome[k]]
<1> DEFINE i == AckPickSlot(pending, r.node, r.relay)
           pc == NewCommand(r, NextSeq, issued + 1)
<1>1. i \in PendingSlots
  BY PickSlotIsSlot DEF AcceptCommand
<1>2. issued + 1 \in Numbers
  BY AcceptFacts
<1>3. NextSeq \in Seqs
  BY CommandPathAssumption DEF TypeOK, NextSeq, Seqs
<1>4. /\ pc \in Commands
      /\ pc.n = issued + 1 /\ pc.node_id = r.node /\ pc.relay_index = r.relay
  BY <1>2, <1>3, CommandPathAssumption DEF NewCommand, Commands, Requests
<1> QED
  BY <1>1, <1>2, <1>4 DEF AcceptCommand, Asked

LEMMA AcceptFate ==
    ASSUME TypeOK, OneSlotPerRelay, FateInv, NEW r \in Requests, AcceptCommand(r)
    PROVE  FateInv'
<1> DEFINE i == AckPickSlot(pending, r.node, r.relay)
<1>1. i \in PendingSlots
  BY AcceptedRecord
<1>2. PICK pc \in Commands :
          /\ pending' = [pending EXCEPT ![i] = pc]
          /\ pc.n = issued + 1 /\ pc.node_id = r.node /\ pc.relay_index = r.relay
  BY AcceptedRecord
<1>3. /\ issued + 1 \in Numbers /\ issued' = issued + 1 /\ issued \in Nat
      /\ request' = [request EXCEPT ![issued + 1] = r]
  <2>1. issued \in Nat
    BY CommandPathAssumption DEF TypeOK
  <2> QED
    BY <2>1, AcceptedRecord
<1>4. outcome' = [k \in Numbers |->
          CASE k = issued + 1 -> "pending"
            [] k # issued + 1 /\ pending[i] # NoCommand /\ pending[i].n = k -> "preempted"
            [] OTHER -> outcome[k]]
  BY AcceptedRecord
<1> HIDE DEF i
<1>5. pending'[i] = pc /\ \A j \in PendingSlots : j # i => pending'[j] = pending[j]
  BY <1>1, <1>2 DEF TypeOK
<1>6. ASSUME NEW k \in Numbers PROVE outcome'[k] = "none" <=> k > issued'
  <2>1. k \in Nat /\ (outcome[k] = "none" <=> k > issued)
    BY CommandPathAssumption DEF FateInv
  <2>2. CASE k = issued + 1
    BY <1>3, <1>4, <2>1, <2>2
  <2>3. CASE k # issued + 1 /\ pending[i] # NoCommand /\ pending[i].n = k
    <3>1. k \in 1 .. issued
      BY <1>1, <2>3 DEF FateInv, Recorded
    <3>2. outcome'[k] = "preempted"
      BY <1>4, <2>3
    <3> QED
      BY <1>3, <3>1, <3>2
  <2>4. CASE k # issued + 1 /\ ~(pending[i] # NoCommand /\ pending[i].n = k)
    <3>1. outcome'[k] = outcome[k]
      BY <1>4, <2>4
    <3> QED
      BY <1>3, <2>1, <2>4, <3>1
  <2> QED
    BY <2>2, <2>3, <2>4
<1>7. ASSUME NEW j \in PendingSlots, pending'[j] # NoCommand
      PROVE  /\ pending'[j].n \in 1 .. issued'
             /\ outcome'[pending'[j].n] = "pending"
             /\ request'[pending'[j].n].node = pending'[j].node_id
             /\ request'[pending'[j].n].relay = pending'[j].relay_index
  <2>1. CASE j = i
    BY <1>2, <1>3, <1>4, <1>5, <2>1 DEF TypeOK
  <2>2. CASE j # i
    <3>1. pending'[j] = pending[j] /\ pending[j] # NoCommand
      BY <1>5, <1>7, <2>2
    <3>2. pending[j].n \in 1 .. issued /\ pending[j].n \in Numbers /\ pending[j].n # issued + 1
      BY <1>3, <3>1, EntryFields DEF FateInv, Recorded
    <3>3. ~(pending[i] # NoCommand /\ pending[i].n = pending[j].n)
      BY <1>1, <2>2, <3>1, EntriesDiffer
    <3>4. outcome'[pending[j].n] = outcome[pending[j].n]
      BY <1>4, <3>2, <3>3
    <3>5. request'[pending[j].n] = request[pending[j].n]
      BY <1>3, <3>2 DEF TypeOK
    <3> QED
      BY <1>3, <3>1, <3>2, <3>4, <3>5 DEF FateInv, Recorded
  <2> QED
    BY <2>1, <2>2
<1>8. ASSUME NEW k \in Numbers, outcome'[k] = "pending"
      PROVE  \E j \in PendingSlots : pending'[j] # NoCommand /\ pending'[j].n = k
  <2>1. CASE k = issued + 1
    BY <1>1, <1>2, <1>5, <2>1, NoCommandAssumption
  <2>2. CASE k # issued + 1
    <3>1. outcome[k] = "pending" /\ ~(pending[i] # NoCommand /\ pending[i].n = k)
      BY <1>4, <1>8, <2>2
    <3>2. PICK j \in PendingSlots : pending[j] # NoCommand /\ pending[j].n = k
      BY <3>1 DEF FateInv
    <3> QED
      BY <1>5, <3>1, <3>2
  <2> QED
    BY <2>1, <2>2
<1> QED
  BY <1>6, <1>7, <1>8 DEF FateInv, Recorded

LEMMA RejectFate ==
    ASSUME TypeOK, FateInv, NEW r \in Requests, RejectCommand(r)
    PROVE  FateInv'
<1>1. /\ UNCHANGED pending
      /\ issued < MaxIssued /\ issued' = issued + 1
      /\ request' = [request EXCEPT ![issued + 1] = r]
      /\ \/ outcome' = [outcome EXCEPT ![issued + 1] = "failed:bad_relay"]
         \/ outcome' = [outcome EXCEPT ![issued + 1] = "failed:no_slot"]
  BY DEF RejectCommand, Asked, baseVars
<1>2. issued \in Nat /\ issued + 1 \in Numbers
  BY <1>1, CommandPathAssumption DEF TypeOK
<1>3. /\ outcome'[issued + 1] \notin {"none", "pending"}
      /\ \A k \in Numbers : k # issued + 1 => outcome'[k] = outcome[k] /\ request'[k] = request[k]
  BY <1>1, <1>2 DEF TypeOK
<1>4. ASSUME NEW k \in Numbers PROVE outcome'[k] = "none" <=> k > issued'
  <2>1. k \in Nat /\ (outcome[k] = "none" <=> k > issued)
    BY CommandPathAssumption DEF FateInv
  <2> QED
    BY <1>1, <1>2, <1>3, <2>1
<1>5. ASSUME NEW i \in PendingSlots, pending[i] # NoCommand
      PROVE  /\ pending[i].n \in 1 .. issued'
             /\ outcome'[pending[i].n] = "pending"
             /\ request'[pending[i].n].node = pending[i].node_id
             /\ request'[pending[i].n].relay = pending[i].relay_index
  <2>1. /\ pending[i].n \in 1 .. issued /\ pending[i].n \in Numbers
        /\ outcome[pending[i].n] = "pending"
        /\ request[pending[i].n].node = pending[i].node_id
        /\ request[pending[i].n].relay = pending[i].relay_index
    BY <1>5, EntryFields DEF FateInv, Recorded
  <2>2. pending[i].n # issued + 1 /\ pending[i].n \in 1 .. issued'
    BY <1>1, <1>2, <2>1
  <2> QED
    BY <1>3, <2>1, <2>2
<1>6. ASSUME NEW k \in Numbers, outcome'[k] = "pending" PROVE outcome[k] = "pending"
  BY <1>3, <1>6
<1> QED
  BY <1>1, <1>4, <1>5, <1>6 DEF FateInv, Recorded

\* Closing an entry with a final answer.
LEMMA CloseFate ==
    ASSUME TypeOK, OneSlotPerRelay, FateInv, NEW i \in PendingSlots, pending[i] # NoCommand,
           NEW verdict \in Outcomes \ {"none", "pending"},
           pending' = [pending EXCEPT ![i] = NoCommand],
           outcome' = [outcome EXCEPT ![pending[i].n] = verdict],
           UNCHANGED <<issued, request>>
    PROVE  FateInv'
<1>1. /\ pending[i].n \in Numbers /\ pending[i].n \in 1 .. issued
      /\ outcome[pending[i].n] = "pending"
  BY EntryFields DEF FateInv, Recorded
<1>2. /\ outcome'[pending[i].n] = verdict
      /\ \A k \in Numbers : k # pending[i].n => outcome'[k] = outcome[k]
  BY <1>1 DEF TypeOK
<1>3. /\ pending'[i] = NoCommand
      /\ \A j \in PendingSlots : j # i => pending'[j] = pending[j]
  BY DEF TypeOK
<1>4. ASSUME NEW k \in Numbers PROVE outcome'[k] = "none" <=> k > issued'
  BY <1>1, <1>2 DEF FateInv
<1>5. ASSUME NEW j \in PendingSlots, pending'[j] # NoCommand
      PROVE  /\ pending'[j].n \in 1 .. issued'
             /\ outcome'[pending'[j].n] = "pending"
             /\ request'[pending'[j].n].node = pending'[j].node_id
             /\ request'[pending'[j].n].relay = pending'[j].relay_index
  <2>1. j # i /\ pending'[j] = pending[j] /\ pending[j] # NoCommand
    BY <1>3, <1>5
  <2>2. pending[j].n # pending[i].n
    BY <2>1, EntriesDiffer
  <2> QED
    BY <1>2, <2>1, <2>2, EntryFields DEF FateInv, Recorded
<1>6. ASSUME NEW k \in Numbers, outcome'[k] = "pending"
      PROVE  \E j \in PendingSlots : pending'[j] # NoCommand /\ pending'[j].n = k
  <2>1. k # pending[i].n /\ outcome[k] = "pending"
    BY <1>2, <1>6
  <2>2. PICK j \in PendingSlots : pending[j] # NoCommand /\ pending[j].n = k
    BY <2>1 DEF FateInv
  <2> QED
    BY <1>3, <2>1, <2>2
<1> QED
  BY <1>4, <1>5, <1>6 DEF FateInv, Recorded

LEMMA QuietFate ==
    ASSUME FateInv, UNCHANGED <<pending, issued, request, outcome>>
    PROVE  FateInv'
BY DEF FateInv, Recorded

\* What a timer that runs out does: a retry leaves the record alone, giving up
\* closes the entry.
LEMMA AckTimeoutRecord ==
    ASSUME TypeOK, NEW i \in PendingSlots, AckTimeout(i)
    PROVE  /\ pending[i] # NoCommand /\ pending[i].n \in Numbers
           /\ UNCHANGED <<issued, request, executed>>
           /\ \/ /\ UNCHANGED outcome
                 /\ \E pc \in Commands :
                       /\ pending' = [pending EXCEPT ![i] = pc]
                       /\ pc.n = pending[i].n /\ pc.node_id = pending[i].node_id
                       /\ pc.relay_index = pending[i].relay_index
              \/ /\ pending' = [pending EXCEPT ![i] = NoCommand]
                 /\ outcome' = [outcome EXCEPT ![pending[i].n] = "failed:no_ack"]
<1>1. /\ pending[i] # NoCommand /\ UNCHANGED <<issued, request, executed>>
  BY DEF AckTimeout, nodeVars
<1>2. pending[i] \in Commands /\ pending[i].n \in Numbers
  BY <1>1 DEF TypeOK, Commands
<1>3. CASE MayRetry(pending[i])
  <2>1. pending' = [pending EXCEPT ![i] = Retried(@)] /\ UNCHANGED outcome
    BY <1>3 DEF AckTimeout
  <2>2. /\ Retried(pending[i]) \in Commands
        /\ Retried(pending[i]).n = pending[i].n
        /\ Retried(pending[i]).node_id = pending[i].node_id
        /\ Retried(pending[i]).relay_index = pending[i].relay_index
    BY <1>2, <1>3 DEF MayRetry, Retried, Commands
  <2> QED
    BY <1>1, <1>2, <2>1, <2>2
<1>4. CASE ~MayRetry(pending[i])
  BY <1>1, <1>2, <1>4 DEF AckTimeout, Closed
<1> QED
  BY <1>3, <1>4

LEMMA AckTimeoutFate ==
    ASSUME TypeOK, OneSlotPerRelay, FateInv, NEW i \in PendingSlots, AckTimeout(i)
    PROVE  FateInv'
<1>1. pending[i] # NoCommand /\ UNCHANGED <<issued, request>>
  BY AckTimeoutRecord
<1>2. ASSUME NEW pc \in Commands, UNCHANGED outcome, pending' = [pending EXCEPT ![i] = pc],
             pc.n = pending[i].n, pc.node_id = pending[i].node_id,
             pc.relay_index = pending[i].relay_index
      PROVE  FateInv'
  <2>1. \A j \in PendingSlots :
            /\ pending'[j] # NoCommand <=> pending[j] # NoCommand
            /\ pending[j] # NoCommand =>
                  /\ pending'[j].n = pending[j].n
                  /\ pending'[j].node_id = pending[j].node_id
                  /\ pending'[j].relay_index = pending[j].relay_index
    BY <1>1, <1>2, NoCommandAssumption DEF TypeOK
  <2> QED
    BY <1>1, <1>2, <2>1 DEF FateInv, Recorded
<1>3. CASE /\ pending' = [pending EXCEPT ![i] = NoCommand]
           /\ outcome' = [outcome EXCEPT ![pending[i].n] = "failed:no_ack"]
  BY <1>1, <1>3, CloseFate DEF Outcomes
<1> QED
  BY <1>2, <1>3, AckTimeoutRecord

LEMMA HandleAckFate ==
    ASSUME TypeOK, OneSlotPerRelay, FateInv, HandleAck
    PROVE  FateInv'
<1> DEFINE ack == NextFrame(Base)
           i   == Min(Matching(ack))
<1>1. UNCHANGED <<issued, request>>
  BY DEF HandleAck
<1>2. CASE Matching(ack) = {}
  <2>1. UNCHANGED <<pending, outcome>>
    BY <1>2 DEF HandleAck
  <2> QED
    BY <1>1, <2>1, QuietFate
<1>3. CASE Matching(ack) # {}
  <2>1. /\ pending' = [pending EXCEPT ![i] = NoCommand]
        /\ outcome' = [outcome EXCEPT ![pending[i].n] = AckVerdict(pending[i], ack)]
    BY <1>3 DEF HandleAck, Closed
  <2>2. i \in PendingSlots /\ pending[i] # NoCommand
    BY <1>3, ClosedEntry
  <2>3. AckVerdict(pending[i], ack) \in Outcomes \ {"none", "pending"}
    BY DEF AckVerdict, Outcomes
  <2> HIDE DEF i, ack
  <2> QED
    BY <1>1, <2>1, <2>2, <2>3, CloseFate
<1> QED
  BY <1>2, <1>3

LEMMA BaseRebootFate ==
    ASSUME TypeOK, FateInv, BaseReboot
    PROVE  FateInv'
<1>1. /\ UNCHANGED <<issued, request>>
      /\ \A i \in PendingSlots : pending'[i] = NoCommand
      /\ \A k \in Numbers : outcome'[k] = IF outcome[k] = "pending" THEN "lost" ELSE outcome[k]
  BY DEF BaseReboot
<1> QED
  BY <1>1 DEF FateInv, Recorded

\* The steps that leave the commands BASE knows of alone.
LEMMA NodeSteps ==
    ASSUME TypeOK,
           \/ HandleData
           \/ \E n \in Nodes : \/ RefuseCommand(n) \/ SendReport(n)
                               \/ \E saved \in BOOLEAN : ExecuteCommand(n, saved)
                               \/ NodeReboot(n) \/ CrashInRelaySet(n)
           \/ \E d \in Devices : \/ DropDuplicate(d)
                                 \/ \E direct, overheard \in BOOLEAN : Transmit(d, direct, overheard)
           \/ \E pkt \in relayed, heard \in BOOLEAN : Repeat(pkt, heard)
           \/ UNCHANGED vars
    PROVE  UNCHANGED <<pending, issued, request, outcome>>
BY DEF HandleData, RefuseCommand, SendReport, ExecuteCommand, NodeReboot, CrashInRelaySet,
       Restart, DropDuplicate, Transmit, Repeat, vars, baseVars, userVars

LEMMA NextFate ==
    ASSUME TypeOK, OneSlotPerRelay, FateInv, [Next]_vars
    PROVE  FateInv'
<1>1. ASSUME NEW r \in Requests, AcceptCommand(r) \/ RejectCommand(r) PROVE FateInv'
  BY <1>1, AcceptFate, RejectFate
<1>2. ASSUME NEW i \in PendingSlots, AckTimeout(i) PROVE FateInv'
  BY <1>2, AckTimeoutFate
<1>3. CASE HandleAck \/ BaseReboot
  BY <1>3, HandleAckFate, BaseRebootFate
<1> QED
  BY <1>1, <1>2, <1>3, NodeSteps, QuietFate DEF Next

LEMMA FateHolds == Spec => []FateInv
<1>1. Init => FateInv
  BY CommandPathAssumption DEF Init, FateInv
<1> QED
  BY <1>1, NextFate, TypeCorrect, OnePendingPerRelay, PTL DEF Spec

----------------------------------------------------------------------------
(* No command drops out of the table unanswered                            *)

\* A command is given up without an answer only for a newer one, or by a
\* restart of BASE.
AbandonInv ==
    \A k \in Numbers :
        /\ outcome[k] = "preempted" => Replaced(k)
        /\ outcome[k] = "lost" => baseReboots > 0

\* What replaces a command is never turned down afterwards: steps that give
\* nothing up keep to AbandonInv.
LEMMA NothingAbandoned ==
    ASSUME TypeOK, AbandonInv,
           issued' \in {issued, issued + 1}, baseReboots' = baseReboots,
           \A j \in 1 .. issued :
               /\ request'[j] = request[j]
               /\ outcome'[j] \in Refusals => outcome[j] \in Refusals,
           \A k \in Numbers : outcome'[k] \in {"preempted", "lost"} => outcome'[k] = outcome[k]
    PROVE  AbandonInv'
<1>1. issued \in Nat
  BY CommandPathAssumption DEF TypeOK
<1>2. ASSUME NEW k \in Numbers, outcome'[k] = "preempted" PROVE Replaced(k)'
  <2>1. PICK j \in k + 1 .. issued :
            /\ request[j].node = request[k].node
            /\ request[j].relay = request[k].relay
            /\ outcome[j] \notin Refusals
    BY <1>2 DEF AbandonInv, Replaced
  <2>2. j \in 1 .. issued /\ k \in 1 .. issued /\ j \in k + 1 .. issued'
    BY <1>1, <2>1, CommandPathAssumption
  <2>3. /\ request'[j] = request[j] /\ request'[k] = request[k]
        /\ outcome'[j] \notin Refusals
    BY <2>1, <2>2
  <2> QED
    BY <2>1, <2>2, <2>3 DEF Replaced
<1>3. ASSUME NEW k \in Numbers, outcome'[k] = "lost" PROVE baseReboots' > 0
  BY <1>3 DEF AbandonInv
<1> QED
  BY <1>2, <1>3 DEF AbandonInv

LEMMA AcceptAbandons ==
    ASSUME TypeOK, OneSlotPerRelay, FateInv, AbandonInv,
           NEW r \in Requests, AcceptCommand(r)
    PROVE  AbandonInv'
<1> DEFINE i == AckPickSlot(pending, r.node, r.relay)
<1>0. issued \in Nat
  BY CommandPathAssumption DEF TypeOK
<1>1. /\ issued + 1 \in Numbers /\ issued' = issued + 1
      /\ request' = [request EXCEPT ![issued + 1] = r]
      /\ outcome' = [k \in Numbers |->
            CASE k = issued + 1 -> "pending"
              [] k # issued + 1 /\ pending[i] # NoCommand /\ pending[i].n = k -> "preempted"
              [] OTHER -> outcome[k]]
  BY AcceptedRecord
<1>2. \A k \in Numbers : pending[i] # NoCommand /\ pending[i].n = k
                         => outcome[k] = "pending" /\ Promise!SameTarget(request[k], r)
  BY OverwrittenIsReplaced DEF AcceptCommand
<1> HIDE DEF i
<1>3. /\ outcome'[issued + 1] = "pending" /\ request'[issued + 1] = r
      /\ \A j \in 1 .. issued : j \in Numbers /\ request'[j] = request[j]
      /\ \A j \in Numbers : outcome'[j] \in {"pending", "preempted", outcome[j]}
  <2>1. request'[issued + 1] = r
    BY <1>1 DEF TypeOK
  <2>2. ASSUME NEW j \in 1 .. issued PROVE j \in Numbers /\ request'[j] = request[j]
    <3>1. j \in Nat /\ 1 <= j /\ j <= issued /\ issued <= MaxIssued /\ MaxIssued \in Nat
      BY <1>0, CommandPathAssumption DEF TypeOK
    <3>2. j \in Numbers /\ j # issued + 1
      BY <1>0, <3>1
    <3> QED
      BY <1>1, <3>2 DEF TypeOK
  <2>3. outcome'[issued + 1] = "pending"
    BY <1>1
  <2>4. ASSUME NEW j \in Numbers PROVE outcome'[j] \in {"pending", "preempted", outcome[j]}
    <3>1. CASE j = issued + 1
      BY <2>3, <3>1
    <3>2. CASE j # issued + 1
      BY <1>1, <3>2
    <3> QED
      BY <3>1, <3>2
  <2> QED
    BY <2>1, <2>2, <2>3, <2>4
<1>4. ASSUME NEW k \in Numbers, outcome'[k] = "preempted" PROVE Replaced(k)'
  <2>1. CASE pending[i] # NoCommand /\ pending[i].n = k
    <3>1. outcome[k] = "pending" /\ Promise!SameTarget(request[k], r)
      BY <1>2, <2>1
    <3>2. k \in 1 .. issued
      BY <1>0, <3>1, CommandPathAssumption DEF FateInv
    <3>3. /\ issued + 1 \in k + 1 .. issued'
          /\ request'[issued + 1].node = request'[k].node
          /\ request'[issued + 1].relay = request'[k].relay
      BY <1>0, <1>1, <1>3, <3>1, <3>2 DEF Promise!SameTarget
    <3> QED
      BY <1>3, <3>3 DEF Replaced, Refusals
  <2>2. CASE ~(pending[i] # NoCommand /\ pending[i].n = k)
    <3>1. outcome[k] = "preempted"
      BY <1>1, <1>4, <2>2
    <3>2. PICK j \in k + 1 .. issued :
              /\ request[j].node = request[k].node
              /\ request[j].relay = request[k].relay
              /\ outcome[j] \notin Refusals
      BY <3>1 DEF AbandonInv, Replaced
    <3>3. j \in 1 .. issued /\ k \in 1 .. issued /\ j \in k + 1 .. issued'
      BY <1>0, <1>1, <3>2, CommandPathAssumption
    <3>4. outcome'[j] \notin Refusals
      BY <1>3, <3>2, <3>3 DEF Refusals
    <3> QED
      BY <1>3, <3>2, <3>3, <3>4 DEF Replaced
  <2> QED
    BY <2>1, <2>2
<1>5. ASSUME NEW k \in Numbers, outcome'[k] = "lost" PROVE baseReboots' > 0
  <2>1. outcome[k] = "lost" /\ baseReboots' = baseReboots
    BY <1>3, <1>5 DEF AcceptCommand, budgetVars
  <2> QED
    BY <2>1 DEF AbandonInv
<1> QED
  BY <1>4, <1>5 DEF AbandonInv

LEMMA RejectAbandons ==
    ASSUME TypeOK, AbandonInv, NEW r \in Requests, RejectCommand(r)
    PROVE  AbandonInv'
<1>1. /\ issued < MaxIssued /\ issued' = issued + 1 /\ baseReboots' = baseReboots
      /\ request' = [request EXCEPT ![issued + 1] = r]
      /\ \/ outcome' = [outcome EXCEPT ![issued + 1] = "failed:bad_relay"]
         \/ outcome' = [outcome EXCEPT ![issued + 1] = "failed:no_slot"]
  BY DEF RejectCommand, Asked, budgetVars
<1>2. issued \in Nat /\ issued + 1 \in Numbers
  BY <1>1, CommandPathAssumption DEF TypeOK
<1>3. /\ outcome'[issued + 1] \notin {"preempted", "lost"}
      /\ \A k \in Numbers : k # issued + 1 => outcome'[k] = outcome[k] /\ request'[k] = request[k]
  BY <1>1, <1>2 DEF TypeOK
<1>4. \A j \in 1 .. issued : j \in Numbers /\ j # issued + 1
  BY <1>1, <1>2, CommandPathAssumption
<1> QED
  BY <1>1, <1>3, <1>4, NothingAbandoned

\* A final answer gives nothing up.
LEMMA AnswerAbandons ==
    ASSUME TypeOK, AbandonInv, NEW k \in Numbers, NEW verdict \in FinalAnswers,
           outcome' = [outcome EXCEPT ![k] = verdict],
           UNCHANGED <<issued, request, baseReboots>>
    PROVE  AbandonInv'
<1>1. /\ outcome'[k] \notin Refusals /\ outcome'[k] \notin {"preempted", "lost"}
      /\ \A j \in Numbers : j # k => outcome'[j] = outcome[j]
  BY DEF TypeOK, FinalAnswers, Refusals
<1>2. \A j \in 1 .. issued : j \in Numbers
  BY CommandPathAssumption DEF TypeOK
<1> QED
  BY <1>1, <1>2, NothingAbandoned

LEMMA BaseRebootAbandons ==
    ASSUME TypeOK, AbandonInv, BaseReboot
    PROVE  AbandonInv'
<1>1. /\ UNCHANGED <<issued, request>> /\ baseReboots' = baseReboots + 1
      /\ \A k \in Numbers : outcome'[k] = IF outcome[k] = "pending" THEN "lost" ELSE outcome[k]
  BY DEF BaseReboot
<1>2. baseReboots' > 0
  BY <1>1, CommandPathAssumption DEF TypeOK
<1>3. ASSUME NEW k \in Numbers, outcome'[k] = "preempted" PROVE Replaced(k)'
  <2>1. outcome[k] = "preempted"
    BY <1>1, <1>3
  <2>2. PICK j \in k + 1 .. issued :
            /\ request[j].node = request[k].node
            /\ request[j].relay = request[k].relay
            /\ outcome[j] \notin Refusals
    BY <2>1 DEF AbandonInv, Replaced
  <2>3. j \in Numbers
    BY <2>2, CommandPathAssumption DEF TypeOK
  <2>4. outcome'[j] \notin Refusals
    BY <1>1, <2>2, <2>3 DEF Refusals
  <2> QED
    BY <1>1, <2>2, <2>4 DEF Replaced
<1> QED
  BY <1>2, <1>3 DEF AbandonInv

LEMMA QuietAbandons ==
    ASSUME AbandonInv, UNCHANGED <<issued, request, outcome, baseReboots>>
    PROVE  AbandonInv'
BY DEF AbandonInv, Replaced

LEMMA NextAbandons ==
    ASSUME TypeOK, OneSlotPerRelay, FateInv, AbandonInv, [Next]_vars
    PROVE  AbandonInv'
<1>1. ASSUME NEW r \in Requests, AcceptCommand(r) \/ RejectCommand(r) PROVE AbandonInv'
  BY <1>1, AcceptAbandons, RejectAbandons
<1>2. ASSUME NEW i \in PendingSlots, AckTimeout(i) PROVE AbandonInv'
  <2>1. /\ pending[i].n \in Numbers /\ UNCHANGED <<issued, request, baseReboots>>
        /\ \/ UNCHANGED outcome
           \/ outcome' = [outcome EXCEPT ![pending[i].n] = "failed:no_ack"]
    BY <1>2, AckTimeoutRecord DEF AckTimeout, budgetVars
  <2> QED
    BY <2>1, AnswerAbandons, QuietAbandons DEF FinalAnswers
<1>3. CASE HandleAck
  <2> DEFINE ack == NextFrame(Base)
             i   == Min(Matching(ack))
  <2>1. UNCHANGED <<issued, request, baseReboots>>
    BY <1>3 DEF HandleAck, budgetVars
  <2>2. CASE Matching(ack) = {}
    <3>1. UNCHANGED outcome
      BY <1>3, <2>2 DEF HandleAck
    <3> QED
      BY <2>1, <3>1, QuietAbandons
  <2>3. CASE Matching(ack) # {}
    <3>1. outcome' = [outcome EXCEPT ![pending[i].n] = AckVerdict(pending[i], ack)]
      BY <1>3, <2>3 DEF HandleAck
    <3>2. i \in PendingSlots /\ pending[i] # NoCommand
      BY <1>3, <2>3, ClosedEntry
    <3>3. AckVerdict(pending[i], ack) \in FinalAnswers
      BY DEF AckVerdict, FinalAnswers
    <3> HIDE DEF i, ack
    <3>4. pending[i].n \in Numbers
      BY <3>2, EntryFields
    <3> QED
      BY <2>1, <3>1, <3>3, <3>4, AnswerAbandons
  <2> QED
    BY <2>2, <2>3
<1>4. CASE BaseReboot
  BY <1>4, BaseRebootAbandons
<1>5. ASSUME \/ HandleData
             \/ \E n \in Nodes : \/ RefuseCommand(n) \/ SendReport(n)
                                 \/ \E saved \in BOOLEAN : ExecuteCommand(n, saved)
                                 \/ NodeReboot(n) \/ CrashInRelaySet(n)
             \/ \E d \in Devices : \/ DropDuplicate(d)
                                   \/ \E direct, overheard \in BOOLEAN : Transmit(d, direct, overheard)
             \/ \E pkt \in relayed, heard \in BOOLEAN : Repeat(pkt, heard)
             \/ UNCHANGED vars
      PROVE  AbandonInv'
  <2>1. UNCHANGED <<issued, request, outcome>>
    BY <1>5, NodeSteps
  <2>2. UNCHANGED baseReboots
    BY <1>5
       DEF HandleData, RefuseCommand, SendReport, ExecuteCommand, NodeReboot, CrashInRelaySet,
           Restart, DropDuplicate, Transmit, Repeat, vars, budgetVars
  <2> QED
    BY <2>1, <2>2, QuietAbandons
<1> QED
  BY <1>1, <1>2, <1>3, <1>4, <1>5 DEF Next

\* For any number of slots, relays, commands and faults: no command loses its
\* slot to one for another relay, nor to one that is turned down; only a newer
\* command for its own relay or a restart of BASE ends it without an answer.
THEOREM NoneDropped == Spec => []SlotsKept
<1>1. Init => AbandonInv
  BY DEF Init, AbandonInv
<1>2. TypeOK /\ OneSlotPerRelay /\ FateInv /\ AbandonInv /\ [Next]_vars => AbandonInv'
  BY NextAbandons
<1>3. FateInv /\ AbandonInv => SlotsKept
  BY DEF FateInv, AbandonInv, SlotsKept
<1> QED
  BY <1>1, <1>2, <1>3, FateHolds, TypeCorrect, OnePendingPerRelay, PTL DEF Spec

----------------------------------------------------------------------------
(* "ok" is never made up, whatever restarts of BASE do to the numbers      *)

\* A frame waits only where it is addressed to.
HomeInv ==
    \A d \in Devices : \A j \in 1 .. Len(inbox[d]) : Receiver(inbox[d][j]) = d

LEMMA TakeHome ==
    ASSUME TypeOK, HomeInv, NEW d \in Devices, HasFrame(d), Take(d)
    PROVE  HomeInv' /\ Receiver(NextFrame(d)) = d
<1>1. inbox[d] \in Seq(Packets) /\ inbox[d] # <<>>
  BY DEF TypeOK, HasFrame
<1>2. /\ Len(inbox[d]) \in Nat \ {0}
      /\ NextFrame(d) = inbox[d][1]
      /\ Len(Tail(inbox[d])) = Len(inbox[d]) - 1
      /\ \A j \in 1 .. Len(inbox[d]) - 1 : Tail(inbox[d])[j] = inbox[d][j + 1]
  BY <1>1, HeadTailProperties DEF NextFrame
<1>3. \A e \in Devices : inbox'[e] = IF e = d THEN Tail(inbox[d]) ELSE inbox[e]
  BY DEF Take, TypeOK
<1>4. \A j \in 1 .. Len(inbox[d]) - 1 : Receiver(inbox[d][j + 1]) = d
  BY <1>2 DEF HomeInv
<1>5. Receiver(NextFrame(d)) = d
  BY <1>2 DEF HomeInv
<1>6. ASSUME NEW e \in Devices, NEW j \in 1 .. Len(inbox'[e])
      PROVE  Receiver(inbox'[e][j]) = e
  <2>1. CASE e # d
    BY <1>3, <2>1 DEF HomeInv
  <2>2. CASE e = d
    <3>1. j \in 1 .. Len(inbox[d]) - 1
      BY <1>2, <1>3, <2>2
    <3>2. inbox'[e][j] = inbox[d][j + 1]
      BY <1>2, <1>3, <2>2, <3>1
    <3> QED
      BY <1>4, <2>2, <3>1, <3>2
  <2> QED
    BY <2>1, <2>2
<1> QED
  BY <1>5, <1>6 DEF HomeInv, Receiver

LEMMA DeliverHome ==
    ASSUME TypeOK, HomeInv, NEW pkt \in Packets, NEW heard \in BOOLEAN,
           inbox' = IF heard THEN [inbox EXCEPT ![Receiver(pkt)] = Append(@, pkt)] ELSE inbox
    PROVE  HomeInv'
<1>1. CASE ~heard
  BY <1>1 DEF HomeInv, Receiver
<1>2. CASE heard
  <2> DEFINE d == Receiver(pkt)
  <2>1. d \in Devices /\ inbox[d] \in Seq(Packets)
    BY PacketEnds DEF TypeOK
  <2>2. \A e \in Devices : inbox'[e] = IF e = d THEN Append(inbox[d], pkt) ELSE inbox[e]
    BY <1>2 DEF TypeOK
  <2>3. Receiver(pkt) = d
    OBVIOUS
  <2> HIDE DEF d
  <2>4. /\ Len(Append(inbox[d], pkt)) = Len(inbox[d]) + 1
        /\ Append(inbox[d], pkt)[Len(inbox[d]) + 1] = pkt
        /\ \A k \in 1 .. Len(inbox[d]) : Append(inbox[d], pkt)[k] = inbox[d][k]
        /\ Len(inbox[d]) \in Nat
    BY <2>1, AppendProperties
  <2>5. ASSUME NEW e \in Devices, NEW j \in 1 .. Len(inbox'[e])
        PROVE  Receiver(inbox'[e][j]) = e
    <3>1. CASE e # d
      BY <2>2, <3>1 DEF HomeInv
    <3>2. CASE e = d /\ j \in 1 .. Len(inbox[d])
      BY <2>1, <2>2, <2>4, <3>2 DEF HomeInv
    <3>3. CASE e = d /\ j = Len(inbox[d]) + 1
      BY <2>2, <2>3, <2>4, <3>3
    <3> QED
      BY <2>2, <2>4, <3>1, <3>2, <3>3
  <2> QED
    BY <2>5 DEF HomeInv, Receiver
<1> QED
  BY <1>1, <1>2

LEMMA RestartHome ==
    ASSUME TypeOK, HomeInv, NEW d \in Devices, inbox' = [inbox EXCEPT ![d] = <<>>]
    PROVE  HomeInv'
<1>1. \A e \in Devices : inbox'[e] = IF e = d THEN <<>> ELSE inbox[e]
  BY DEF TypeOK
<1>2. 1 .. Len(<<>>) = {}
  BY EmptySeq
<1> QED
  BY <1>1, <1>2 DEF HomeInv, Receiver

LEMMA NextHome ==
    ASSUME TypeOK, HomeInv, [Next]_vars
    PROVE  HomeInv'
<1>1. ASSUME UNCHANGED inbox PROVE HomeInv'
  BY <1>1 DEF HomeInv, Receiver
<1>2. ASSUME NEW r \in Requests, AcceptCommand(r) \/ RejectCommand(r) PROVE HomeInv'
  BY <1>1, <1>2 DEF AcceptCommand, RejectCommand, linkVars
<1>3. ASSUME NEW i \in PendingSlots, AckTimeout(i) PROVE HomeInv'
  BY <1>1, <1>3 DEF AckTimeout
<1>4. CASE HandleAck \/ HandleData
  BY <1>4, TakeHome DEF HandleAck, HandleData, Fresh
<1>5. CASE BaseReboot
  BY <1>5, RestartHome DEF BaseReboot
<1>6. ASSUME NEW n \in Nodes,
             RefuseCommand(n) \/ \E saved \in BOOLEAN : ExecuteCommand(n, saved)
      PROVE  HomeInv'
  BY <1>6, TakeHome DEF RefuseCommand, ExecuteCommand, Fresh
<1>7. ASSUME NEW n \in Nodes, SendReport(n) PROVE HomeInv'
  BY <1>1, <1>7 DEF SendReport
<1>8. ASSUME NEW n \in Nodes, NodeReboot(n) \/ CrashInRelaySet(n) PROVE HomeInv'
  BY <1>8, RestartHome DEF NodeReboot, CrashInRelaySet, Restart
<1>9. ASSUME NEW d \in Devices, DropDuplicate(d) PROVE HomeInv'
  BY <1>9, TakeHome DEF DropDuplicate
<1>10. ASSUME NEW d \in Devices, NEW direct \in BOOLEAN, NEW overheard \in BOOLEAN,
              Transmit(d, direct, overheard)
       PROVE  HomeInv'
  <2> DEFINE pkt == txq[d][Pick(txq[d], UsedSlots(txq[d]))].pkt
  <2>1. pkt \in Packets
    BY <1>10, TransmitFrame DEF Transmit
  <2>2. inbox' = IF direct THEN [inbox EXCEPT ![Receiver(pkt)] = Append(@, pkt)] ELSE inbox
    BY <1>10 DEF Transmit
  <2> QED
    BY <2>1, <2>2, DeliverHome
<1>11. ASSUME NEW pkt \in relayed, NEW heard \in BOOLEAN, Repeat(pkt, heard) PROVE HomeInv'
  BY <1>11, DeliverHome DEF Repeat, TypeOK
<1>12. CASE UNCHANGED vars
  BY <1>1, <1>12 DEF vars, linkVars
<1> QED
  BY <1>2, <1>3, <1>4, <1>5, <1>6, <1>7, <1>8, <1>9, <1>10, <1>11, <1>12 DEF Next

\* A command or an acknowledgement is from or for the station and the relay that
\* were asked under its number.
Placed(p) ==
    p.type # "DATA" =>
        /\ p.n \in 1 .. issued
        /\ request[p.n].node = p.node
        /\ request[p.n].relay = p.relay_index

FramesPlaced == \A p \in Packets : OnTheWay(p) => Placed(p)

PlacedInv ==
    /\ FramesPlaced
    /\ executed \subseteq 1 .. issued
    /\ \A k \in 1 .. issued : request[k] \in Requests
    /\ OkIsOfSomeExecution

\* What has been asked keeps its place.
LEMMA PlacedKept ==
    ASSUME TypeOK, FramesPlaced,
           \/ UNCHANGED <<issued, request>>
           \/ \E r \in Requests : \E result : Asked(r, result),
           executed \subseteq executed'
    PROVE  /\ \A p \in Packets : OnTheWay(p) => Placed(p)'
           /\ \A k \in 1 .. issued : k \in 1 .. issued' /\ request'[k] = request[k]
<1>1. \A k \in 1 .. issued : k \in 1 .. issued' /\ request'[k] = request[k]
  BY TruthKept
<1>2. ASSUME NEW p \in Packets, OnTheWay(p) PROVE Placed(p)'
  BY <1>1, <1>2 DEF FramesPlaced, Placed
<1> QED
  BY <1>1, <1>2

\* No new "ok": what is said rests on the execution it rested on.
LEMMA OkKept ==
    ASSUME TypeOK, FateInv, PlacedInv, executed \subseteq executed',
           \A k \in 1 .. issued : request'[k] = request[k],
           \A k \in Numbers : outcome'[k] = "ok" => outcome[k] = "ok"
    PROVE  OkIsOfSomeExecution'
<1> SUFFICES ASSUME NEW k \in Numbers, outcome'[k] = "ok"
             PROVE  \E j \in executed' : request'[j] = request'[k]
  BY DEF OkIsOfSomeExecution
<1>1. outcome[k] = "ok"
  OBVIOUS
<1>2. PICK j \in executed : request[j] = request[k]
  BY <1>1 DEF PlacedInv, OkIsOfSomeExecution
<1>3. k \in 1 .. issued
  <2>1. ~(k > issued) /\ k \in Nat /\ k >= 1 /\ issued \in Nat
    BY <1>1, CommandPathAssumption DEF FateInv, TypeOK
  <2> QED
    BY <2>1
<1>4. request'[j] = request[j] /\ request'[k] = request[k]
  BY <1>2, <1>3 DEF PlacedInv
<1> QED
  BY <1>2, <1>4

\* A step with at most one new frame, and that in its place, and no new "ok".
LEMMA StepPlaced ==
    ASSUME TypeOK, FateInv, PlacedInv,
           \/ UNCHANGED <<issued, request>>
           \/ \E r \in Requests : \E result : Asked(r, result),
           executed \subseteq executed', executed' \subseteq 1 .. issued',
           \A p \in Packets : OnTheWay(p)' => OnTheWay(p) \/ Placed(p)',
           \A k \in Numbers : outcome'[k] = "ok" => outcome[k] = "ok"
    PROVE  PlacedInv'
<1>1. /\ \A p \in Packets : OnTheWay(p) => Placed(p)'
      /\ \A k \in 1 .. issued : request'[k] = request[k]
  BY PlacedKept DEF PlacedInv
<1>2. FramesPlaced'
  BY <1>1 DEF FramesPlaced
<1>3. OkIsOfSomeExecution'
  BY <1>1, OkKept
<1>4. \A k \in 1 .. issued' : request'[k] \in Requests
  <2>1. CASE UNCHANGED <<issued, request>>
    BY <2>1 DEF PlacedInv
  <2>2. CASE \E r \in Requests : \E result : Asked(r, result)
    <3>1. PICK r \in Requests : issued' = issued + 1 /\ request' = [request EXCEPT ![issued + 1] = r]
      BY <2>2 DEF Asked
    <3>2. issued \in Nat
      BY CommandPathAssumption DEF TypeOK
    <3>3. ASSUME NEW k \in 1 .. issued' PROVE request'[k] \in Requests
      <4>1. k \in 1 .. issued \/ k = issued + 1
        BY <3>1, <3>2
      <4>2. CASE k \in 1 .. issued
        BY <1>1, <4>2 DEF PlacedInv
      <4>3. CASE k = issued + 1
        <5>1. issued + 1 \in Numbers
          BY <2>2, <3>2, CommandPathAssumption DEF Asked
        <5> QED
          BY <3>1, <4>3, <5>1 DEF TypeOK
      <4> QED
        BY <4>1, <4>2, <4>3
    <3> QED
      BY <3>3
  <2> QED
    BY <2>1, <2>2
<1> QED
  BY <1>2, <1>3, <1>4 DEF PlacedInv

LEMMA AcceptPlaced ==
    ASSUME TypeOK, FateInv, PlacedInv, NEW r \in Requests, AcceptCommand(r)
    PROVE  PlacedInv'
<1>1. PICK pc \in Commands, cmd \in Packets, i \in PendingSlots :
          /\ pc.n = issued + 1 /\ pc.relay_index = r.relay
          /\ cmd.type = "CMD" /\ cmd.n = pc.n
          /\ cmd.relay_index = pc.relay_index /\ cmd.node = r.node
          /\ \A p : OnTheWay(p)' => OnTheWay(p) \/ p = cmd
          /\ issued + 1 \in Numbers /\ issued' = issued + 1
          /\ request' = [request EXCEPT ![issued + 1] = r]
          /\ \E result : Asked(r, result)
          /\ \A k \in Numbers : outcome'[k] \in {"pending", "preempted", outcome[k]}
  BY AcceptFacts
<1>2. issued \in Nat
  BY CommandPathAssumption DEF TypeOK
<1>3. executed' = executed /\ executed \subseteq 1 .. issued'
  BY <1>1, <1>2 DEF AcceptCommand, nodeVars, PlacedInv
<1>4. request'[issued + 1] = r /\ issued + 1 \in 1 .. issued'
  BY <1>1, <1>2 DEF TypeOK
<1>5. Placed(cmd)'
  BY <1>1, <1>4 DEF Placed
<1>6. \A k \in Numbers : outcome'[k] = "ok" => outcome[k] = "ok"
  BY <1>1
<1> QED
  BY <1>1, <1>3, <1>5, <1>6, StepPlaced

LEMMA RejectPlaced ==
    ASSUME TypeOK, FateInv, PlacedInv, NEW r \in Requests, RejectCommand(r)
    PROVE  PlacedInv'
<1>1. /\ UNCHANGED <<txq, inbox, relayed, executed>> /\ issued' = issued + 1
      /\ \E result : Asked(r, result)
      /\ \/ outcome' = [outcome EXCEPT ![issued + 1] = "failed:bad_relay"]
         \/ outcome' = [outcome EXCEPT ![issued + 1] = "failed:no_slot"]
  BY DEF RejectCommand, Asked, baseVars, linkVars, nodeVars
<1>2. issued \in Nat
  BY CommandPathAssumption DEF TypeOK
<1>3. executed' = executed /\ executed \subseteq 1 .. issued'
  BY <1>1, <1>2 DEF PlacedInv
<1>4. \A p : OnTheWay(p)' => OnTheWay(p)
  BY <1>1 DEF OnTheWay, Queued, Received
<1>5. \A k \in Numbers : outcome'[k] = "ok" => outcome[k] = "ok"
  BY <1>1 DEF TypeOK
<1> QED
  BY <1>1, <1>3, <1>4, <1>5, StepPlaced

LEMMA AckTimeoutPlaced ==
    ASSUME TypeOK, FateInv, PlacedInv, NEW i \in PendingSlots, AckTimeout(i)
    PROVE  PlacedInv'
<1>1. /\ pending[i] # NoCommand /\ pending[i].n \in Numbers
      /\ UNCHANGED <<issued, request, executed>>
  BY AckTimeoutRecord
<1>2. Recorded(pending[i])
  BY <1>1 DEF FateInv
<1>3. CASE \E pc \in Commands, cmd \in Packets :
              /\ UNCHANGED outcome
              /\ pc.n = pending[i].n /\ pc.relay_index = pending[i].relay_index
              /\ cmd.type = "CMD" /\ cmd.n = pc.n
              /\ cmd.relay_index = pc.relay_index /\ cmd.node = pending[i].node_id
              /\ \A p : OnTheWay(p)' => OnTheWay(p) \/ p = cmd
  <2>1. PICK cmd \in Packets :
            /\ cmd.n = pending[i].n /\ cmd.node = pending[i].node_id
            /\ cmd.relay_index = pending[i].relay_index
            /\ \A p : OnTheWay(p)' => OnTheWay(p) \/ p = cmd
    BY <1>3
  <2>2. Placed(cmd)'
    BY <1>1, <1>2, <2>1 DEF Placed, Recorded
  <2> QED
    BY <1>1, <1>3, <2>1, <2>2, StepPlaced DEF PlacedInv
<1>4. CASE /\ outcome' = [outcome EXCEPT ![pending[i].n] = "failed:no_ack"]
           /\ \A p : OnTheWay(p)' => OnTheWay(p)
  <2>1. \A k \in Numbers : outcome'[k] = "ok" => outcome[k] = "ok"
    BY <1>1, <1>4 DEF TypeOK
  <2> QED
    BY <1>1, <1>4, <2>1, StepPlaced DEF PlacedInv
<1> QED
  BY <1>3, <1>4, AckTimeoutFacts

\* The ACK that closes an entry as "ok" is of an executed request for what the
\* entry asks: the same station, relay and value.
LEMMA HandleAckPlaced ==
    ASSUME TypeOK, TruthInv, FateInv, PlacedInv, HandleAck
    PROVE  PlacedInv'
<1> DEFINE ack == NextFrame(Base)
           i   == Min(Matching(ack))
<1>1. UNCHANGED <<issued, request, executed>>
  BY DEF HandleAck, nodeVars
<1>2. \A p : OnTheWay(p)' => OnTheWay(p)
  BY HandledAck
<1>3. ASSUME \A k \in Numbers : outcome'[k] = "ok" => outcome[k] = "ok"
      PROVE  PlacedInv'
  BY <1>1, <1>2, <1>3, StepPlaced DEF PlacedInv
<1>4. CASE Matching(ack) = {}
  BY <1>3, <1>4 DEF HandleAck
<1>5. CASE Matching(ack) # {}
  <2>1. outcome' = [outcome EXCEPT ![pending[i].n] = AckVerdict(pending[i], ack)]
    BY <1>5 DEF HandleAck
  <2>2. /\ i \in PendingSlots /\ pending[i] # NoCommand
        /\ pending[i].node_id = ack.node /\ AckMatches(pending[i], ack)
    <3>1. i \in Matching(ack)
      <4>1. Matching(ack) \in SUBSET Nat
        BY AckMatchAssumption DEF Matching, PendingSlots
      <4> QED
        BY <1>5, <4>1, MinInSet
    <3> QED
      BY <3>1 DEF Matching
  <2>3. Recorded(pending[i]) /\ Asks(pending[i]) /\ pending[i].relay_index = ack.relay_index
    BY <2>2 DEF FateInv, TruthInv, EntriesTruthful, AckMatches
  <2>4. ack \in AckPackets /\ Truthful(ack) /\ Placed(ack)
    BY HandledAck DEF TruthInv, FramesTruthful, PlacedInv, FramesPlaced
  <2> HIDE DEF i, ack
  <2>5. ack.type = "ACK" /\ ack.result \in {0, 1}
    BY <2>4 DEF AckPackets
  <2>6. pending[i].n \in Numbers /\ pending[i].n \in 1 .. issued
    BY <2>2, <2>3 DEF Asks, TypeOK, Commands
  <2>7. CASE AckVerdict(pending[i], ack) # "ok"
    <3>1. \A k \in Numbers : outcome'[k] = "ok" => outcome[k] = "ok"
      BY <2>1, <2>6, <2>7 DEF TypeOK
    <3> QED
      BY <1>3, <3>1
  <2>8. CASE AckVerdict(pending[i], ack) = "ok"
    <3>1. ack.result = 1 /\ ack.state = pending[i].value
      BY <2>5, <2>8 DEF AckVerdict
    <3>2. /\ ack.n \in executed /\ ack.n \in 1 .. issued
          /\ request[ack.n].node = pending[i].node_id
          /\ request[ack.n].relay = pending[i].relay_index
          /\ request[ack.n].value = pending[i].value
      BY <2>2, <2>3, <2>4, <2>5, <3>1 DEF Truthful, Placed
    <3>3. request[ack.n] \in Requests /\ request[pending[i].n] \in Requests
      BY <2>6, <3>2 DEF PlacedInv
    <3>4. request[ack.n] = request[pending[i].n]
      BY <2>3, <3>2, <3>3 DEF Recorded, Asks, Requests
    <3>5. OkIsOfSomeExecution'
      <4> SUFFICES ASSUME NEW k \in Numbers, outcome'[k] = "ok"
                   PROVE  \E j \in executed : request[j] = request[k]
        BY <1>1 DEF OkIsOfSomeExecution
      <4>1. CASE k = pending[i].n
        BY <3>2, <3>4, <4>1
      <4>2. CASE k # pending[i].n
        <5>1. outcome[k] = "ok"
          BY <2>1, <4>2 DEF TypeOK
        <5> QED
          BY <5>1 DEF PlacedInv, OkIsOfSomeExecution
      <4> QED
        BY <4>1, <4>2
    <3>6. /\ FramesPlaced' /\ executed' \subseteq 1 .. issued'
          /\ \A k \in 1 .. issued' : request'[k] \in Requests
      BY <1>1, <1>2 DEF PlacedInv, FramesPlaced, Placed
    <3> QED
      BY <3>5, <3>6 DEF PlacedInv
  <2> QED
    BY <2>7, <2>8
<1> QED
  BY <1>4, <1>5

\* A command a node takes was placed, so its answer is.
LEMMA AnswerPlaced ==
    ASSUME TypeOK, FateInv, PlacedInv, HomeInv, NEW n \in Nodes,
           Fresh(n, "CMD"), Take(n), NEW result \in {0, 1}, NEW state \in {0, 1},
           SendAck(n, NextFrame(n), result, state),
           UNCHANGED <<issued, request, outcome>>,
           executed' \in {executed, executed \cup {NextFrame(n).n}}
    PROVE  PlacedInv'
<1> DEFINE cmd == NextFrame(n)
<1>1. cmd \in CmdPackets /\ cmd \in Packets /\ OnTheWay(cmd) /\ Placed(cmd)
  BY TakeAndSendAck DEF PlacedInv, FramesPlaced
<1>2. cmd.type = "CMD" /\ cmd.node = n
  BY <1>1, TakeHome DEF Fresh, Receiver, CmdPackets
<1>3. PICK ack \in Packets :
          /\ ack.n = cmd.n /\ ack.relay_index = cmd.relay_index /\ ack.node = n
          /\ \A p : OnTheWay(p)' => OnTheWay(p) \/ p = ack
  BY TakeAndSendAck
<1> HIDE DEF cmd
<1>4. Placed(ack)'
  BY <1>1, <1>2, <1>3 DEF Placed
<1>5. executed \subseteq executed' /\ executed' \subseteq 1 .. issued'
  BY <1>1, <1>2 DEF Placed, PlacedInv, cmd
<1> QED
  BY <1>3, <1>4, <1>5, StepPlaced

\* The number of a command at the head of a station's inbox has been asked.
LEMMA HeardPlaced ==
    ASSUME TypeOK, PlacedInv, NEW n \in Nodes, Fresh(n, "CMD")
    PROVE  NextFrame(n).n \in 1 .. issued
<1> DEFINE cmd == NextFrame(n)
<1>1. HasFrame(n) /\ cmd \in Packets /\ cmd \in CmdPackets
  BY NextFrameType, FrameFields DEF Fresh
<1>2. OnTheWay(cmd)
  <2>1. inbox[n] \in Seq(Packets) /\ inbox[n] # <<>>
    BY <1>1 DEF TypeOK, HasFrame
  <2>2. 1 \in 1 .. Len(inbox[n]) /\ cmd = inbox[n][1]
    BY <2>1 DEF NextFrame
  <2> QED
    BY <2>2 DEF OnTheWay, Received
<1>3. cmd.type = "CMD"
  BY <1>1 DEF CmdPackets
<1> QED
  BY <1>1, <1>2, <1>3 DEF PlacedInv, FramesPlaced, Placed

LEMMA NextPlaced ==
    ASSUME TypeOK, TruthInv, FateInv, HomeInv, PlacedInv, [Next]_vars
    PROVE  PlacedInv'
<1>1. ASSUME NEW r \in Requests, AcceptCommand(r) \/ RejectCommand(r) PROVE PlacedInv'
  BY <1>1, AcceptPlaced, RejectPlaced
<1>2. ASSUME NEW i \in PendingSlots, AckTimeout(i) PROVE PlacedInv'
  BY <1>2, AckTimeoutPlaced
<1>3. CASE HandleAck
  BY <1>3, HandleAckPlaced
<1>4. CASE BaseReboot
  <2>1. /\ UNCHANGED <<issued, request, executed>>
        /\ \A k \in Numbers : outcome'[k] = "ok" => outcome[k] = "ok"
    BY <1>4 DEF BaseReboot, nodeVars
  <2>2. \A p : OnTheWay(p)' => OnTheWay(p)
    BY <1>4, RestartOnTheWay DEF BaseReboot
  <2> QED
    BY <2>1, <2>2, StepPlaced DEF PlacedInv
<1>5. ASSUME NEW n \in Nodes, RefuseCommand(n) PROVE PlacedInv'
  <2>1. UNCHANGED <<issued, request, outcome, executed>>
    BY <1>5 DEF RefuseCommand, nodeVars, userVars
  <2> QED
    BY <1>5, <2>1, AnswerPlaced DEF RefuseCommand
<1>6. ASSUME NEW n \in Nodes, NEW saved \in BOOLEAN, ExecuteCommand(n, saved) PROVE PlacedInv'
  <2> DEFINE cmd == NextFrame(n)
  <2>1. /\ Fresh(n, "CMD") /\ ValidRelay(cmd) /\ Take(n)
        /\ RelaySet(n, cmd, saved) /\ SendAck(n, cmd, 1, relay'[n][cmd.relay_index])
        /\ UNCHANGED <<issued, request, outcome>>
    BY <1>6 DEF ExecuteCommand, userVars
  <2>2. /\ cmd \in CmdPackets /\ cmd.relay_index \in OwnRelays
        /\ cmd.value \in {0, 1} /\ cmd.n \in Numbers
    BY <2>1, ValidCommand
  <2>3. relay'[n][cmd.relay_index] \in {0, 1}
    BY <2>1, <2>2, RelaySetType
  <2>4. executed' = executed \cup {cmd.n}
    BY <2>1 DEF RelaySet
  <2> QED
    BY <2>1, <2>3, <2>4, AnswerPlaced
<1>7. ASSUME NEW n \in Nodes, SendReport(n) PROVE PlacedInv'
  <2>1. UNCHANGED <<issued, request, outcome, executed>>
    BY <1>7 DEF SendReport, nodeVars, userVars
  <2>2. PICK data \in Packets :
            data.type = "DATA" /\ \A p : OnTheWay(p)' => OnTheWay(p) \/ p = data
    BY <1>7, ReportFacts
  <2>3. Placed(data)'
    BY <2>2 DEF Placed
  <2> QED
    BY <2>1, <2>2, <2>3, StepPlaced DEF PlacedInv
<1>8. ASSUME \/ HandleData
             \/ \E n \in Nodes : NodeReboot(n) \/ CrashInRelaySet(n)
             \/ \E d \in Devices : \/ DropDuplicate(d)
                                   \/ \E direct, overheard \in BOOLEAN : Transmit(d, direct, overheard)
             \/ \E pkt \in relayed, heard \in BOOLEAN : Repeat(pkt, heard)
             \/ UNCHANGED vars
      PROVE  PlacedInv'
  <2>1. /\ UNCHANGED <<issued, request, outcome>> /\ executed \subseteq executed'
        /\ \A p : OnTheWay(p)' => OnTheWay(p)
    BY <1>8, QuietSteps
  <2>2. executed' \subseteq 1 .. issued'
    <3>1. ASSUME NEW n \in Nodes, CrashInRelaySet(n) PROVE executed' \subseteq 1 .. issued'
      BY <2>1, <3>1, HeardPlaced DEF CrashInRelaySet, PlacedInv
    <3>2. CASE HandleData \/ \E n \in Nodes : NodeReboot(n)
      BY <2>1, <3>2 DEF HandleData, NodeReboot, nodeVars, PlacedInv
    <3>3. CASE \E d \in Devices : DropDuplicate(d)
      BY <2>1, <3>3 DEF DropDuplicate, nodeVars, PlacedInv
    <3>4. CASE \E d \in Devices : \E direct, overheard \in BOOLEAN : Transmit(d, direct, overheard)
      BY <2>1, <3>4 DEF Transmit, nodeVars, PlacedInv
    <3>5. CASE \E pkt \in relayed, heard \in BOOLEAN : Repeat(pkt, heard)
      BY <2>1, <3>5 DEF Repeat, nodeVars, PlacedInv
    <3>6. CASE UNCHANGED vars
      BY <2>1, <3>6 DEF vars, nodeVars, PlacedInv
    <3> QED
      BY <1>8, <3>1, <3>2, <3>3, <3>4, <3>5, <3>6
  <2> QED
    BY <2>1, <2>2, StepPlaced DEF PlacedInv
<1> QED
  BY <1>1, <1>2, <1>3, <1>4, <1>5, <1>6, <1>7, <1>8 DEF Next

\* Whatever is lost, late or repeated, and however often BASE restarts and its
\* numbers start over: "ok" is only said of what the station has carried out,
\* the same value for the same relay.
THEOREM OkNeverMadeUp == Spec => []OkIsOfSomeExecution
<1>1. Init => HomeInv /\ PlacedInv
  <2>1. ASSUME Init PROVE HomeInv
    <3>1. \A d \in Devices : inbox[d] = <<>>
      BY <2>1 DEF Init
    <3>2. 1 .. Len(<<>>) = {}
      BY EmptySeq
    <3> QED
      BY <3>1, <3>2 DEF HomeInv
  <2>2. ASSUME Init PROVE PlacedInv
    <3>1. issued = 0 /\ executed = {} /\ \A k \in Numbers : outcome[k] # "ok"
      BY <2>2 DEF Init
    <3>2. 1 .. issued = {}
      BY <3>1
    <3> QED
      BY <2>2, <3>1, <3>2, InitNothingOnTheWay
         DEF PlacedInv, FramesPlaced, OkIsOfSomeExecution
  <2> QED
    BY <2>1, <2>2
<1>2. TypeOK /\ HomeInv /\ [Next]_vars => HomeInv'
  BY NextHome
<1>3. TypeOK /\ TruthInv /\ FateInv /\ HomeInv /\ PlacedInv /\ [Next]_vars => PlacedInv'
  BY NextPlaced
<1>4. PlacedInv => OkIsOfSomeExecution
  BY DEF PlacedInv
<1> QED
  BY <1>1, <1>2, <1>3, <1>4, TruthHolds, FateHolds, PTL DEF Spec

----------------------------------------------------------------------------
(* The steps, seen through the mapping                                     *)

LEMMA PhaseOf ==
    ASSUME NEW k \in Numbers
    PROVE  /\ Phase[k] = "none"    <=> outcome[k] = "none"
           /\ Phase[k] = "waiting" <=> outcome[k] = "pending"
           /\ Phase[k] = "ok"      <=> outcome[k] = "ok"
BY DEF Phase

\* What is decided for one number shows in its phase alone.
LEMMA DecidedPhase ==
    ASSUME TypeOK, NEW k \in Numbers, NEW verdict \in Outcomes,
           outcome' = [outcome EXCEPT ![k] = verdict]
    PROVE  Phase' = [Phase EXCEPT ![k] = CASE verdict = "none"      -> "none"
                                           [] verdict = "pending"   -> "waiting"
                                           [] verdict = "ok"        -> "ok"
                                           [] verdict = "preempted" -> "replaced"
                                           [] OTHER                 -> "failed"]
<1>1. /\ outcome'[k] = verdict
      /\ \A j \in Numbers : j # k => outcome'[j] = outcome[j]
  BY DEF TypeOK
<1> QED
  BY <1>1 DEF Phase

\* The number a new request gets is the next in line.
LEMMA NextInLine ==
    ASSUME TypeOK, FateInv, issued + 1 \in Numbers
    PROVE  Promise!IsNext(issued + 1)
<1>1. issued \in Nat /\ MaxIssued \in Nat /\ (issued + 1) - 1 = issued
  BY CommandPathAssumption DEF TypeOK
<1>2. issued + 1 > issued /\ \A j \in 1 .. issued : j \in Numbers /\ ~(j > issued)
  BY <1>1
<1>3. outcome[issued + 1] = "none" /\ \A j \in 1 .. issued : outcome[j] # "none"
  BY <1>2 DEF FateInv
<1> QED
  BY <1>1, <1>2, <1>3, PhaseOf DEF Promise!IsNext

LEMMA AcceptIssues ==
    ASSUME TypeOK, OneSlotPerRelay, FateInv, NEW r \in Requests, AcceptCommand(r)
    PROVE  issued + 1 \in Numbers /\ Promise!Issue(issued + 1, r)
<1> DEFINE i == AckPickSlot(pending, r.node, r.relay)
<1>1. /\ issued + 1 \in Numbers /\ request' = [request EXCEPT ![issued + 1] = r]
      /\ outcome' = [k \in Numbers |->
            CASE k = issued + 1 -> "pending"
              [] k # issued + 1 /\ pending[i] # NoCommand /\ pending[i].n = k -> "preempted"
              [] OTHER -> outcome[k]]
  BY AcceptedRecord
<1>2. \A k \in Numbers : pending[i] # NoCommand /\ pending[i].n = k
                         <=> outcome[k] = "pending" /\ Promise!SameTarget(request[k], r)
  BY OverwrittenIsReplaced DEF AcceptCommand
<1> HIDE DEF i
<1>3. ASSUME NEW j \in Numbers
      PROVE  Phase'[j] = CASE j = issued + 1 -> "waiting"
                           [] j # issued + 1 /\ Phase[j] = "waiting"
                              /\ Promise!SameTarget(request[j], r) -> "replaced"
                           [] OTHER -> Phase[j]
  <2>1. CASE j = issued + 1
    <3>1. outcome'[j] = "pending"
      BY <1>1, <2>1
    <3> QED
      BY <2>1, <3>1 DEF Phase
  <2>2. CASE j # issued + 1 /\ outcome[j] = "pending" /\ Promise!SameTarget(request[j], r)
    <3>1. outcome'[j] = "preempted"
      BY <1>1, <1>2, <2>2
    <3> QED
      BY <2>2, <3>1 DEF Phase
  <2>3. CASE j # issued + 1 /\ ~(outcome[j] = "pending" /\ Promise!SameTarget(request[j], r))
    <3>1. outcome'[j] = outcome[j]
      BY <1>1, <1>2, <2>3
    <3>2. Phase'[j] = Phase[j]
      BY <3>1 DEF Phase
    <3> QED
      BY <2>3, <3>2, PhaseOf
  <2> QED
    BY <2>1, <2>2, <2>3
<1>4. Phase' = [j \in Numbers |->
                   CASE j = issued + 1 -> "waiting"
                     [] j # issued + 1 /\ Phase[j] = "waiting"
                        /\ Promise!SameTarget(request[j], r) -> "replaced"
                     [] OTHER -> Phase[j]]
  <2>1. Phase' = [j \in Numbers |-> Phase'[j]]
    BY DEF Phase
  <2> QED
    BY <1>3, <2>1
<1>5. UNCHANGED executed
  BY DEF AcceptCommand, nodeVars
<1> QED
  BY <1>1, <1>4, <1>5, NextInLine DEF Promise!Issue, Promise!Numbers

LEMMA RejectRefuses ==
    ASSUME TypeOK, FateInv, NEW r \in Requests, RejectCommand(r)
    PROVE  issued + 1 \in Numbers /\ Promise!Refuse(issued + 1, r)
<1>1. /\ issued < MaxIssued /\ UNCHANGED executed
      /\ request' = [request EXCEPT ![issued + 1] = r]
      /\ \/ outcome' = [outcome EXCEPT ![issued + 1] = "failed:bad_relay"]
         \/ outcome' = [outcome EXCEPT ![issued + 1] = "failed:no_slot"]
  BY DEF RejectCommand, Asked, nodeVars
<1>2. issued + 1 \in Numbers
  BY <1>1, CommandPathAssumption DEF TypeOK
<1>3. Phase' = [Phase EXCEPT ![issued + 1] = "failed"]
  BY <1>1, <1>2, DecidedPhase DEF Outcomes
<1> QED
  BY <1>1, <1>2, <1>3, NextInLine DEF Promise!Refuse

\* A final answer of BASE: "ok" confirms, any other gives up.
LEMMA CloseDecides ==
    ASSUME TypeOK, NEW k \in Numbers, outcome[k] = "pending",
           NEW verdict \in Outcomes \ {"none", "pending", "preempted"},
           verdict = "ok" => k \in executed,
           outcome' = [outcome EXCEPT ![k] = verdict], UNCHANGED <<request, executed>>
    PROVE  Promise!Confirm(k) \/ Promise!GiveUp({k})
<1>1. Phase[k] = "waiting"
  BY PhaseOf
<1>2. CASE verdict = "ok"
  <2>1. Phase' = [Phase EXCEPT ![k] = "ok"]
    BY <1>2, DecidedPhase
  <2> QED
    BY <1>1, <1>2, <2>1 DEF Promise!Confirm
<1>3. CASE verdict # "ok"
  <2>1. Phase' = [Phase EXCEPT ![k] = "failed"]
    BY <1>3, DecidedPhase
  <2>2. Phase' = [j \in Numbers |-> IF j \in {k} THEN "failed" ELSE Phase[j]]
    BY <2>1 DEF Phase
  <2> QED
    BY <1>1, <2>2 DEF Promise!GiveUp, Promise!Numbers
<1> QED
  BY <1>2, <1>3

LEMMA AckTimeoutDecides ==
    ASSUME TypeOK, FateInv, NEW i \in PendingSlots, AckTimeout(i)
    PROVE  [Promise!Next]_(Promise!vars)
<1>1. /\ pending[i] # NoCommand /\ pending[i].n \in Numbers
      /\ UNCHANGED <<request, executed>>
  BY AckTimeoutRecord
<1>2. CASE UNCHANGED outcome
  BY <1>1, <1>2 DEF Phase, Promise!vars
<1>3. CASE outcome' = [outcome EXCEPT ![pending[i].n] = "failed:no_ack"]
  <2>1. outcome[pending[i].n] = "pending"
    BY <1>1 DEF FateInv, Recorded
  <2>2. Promise!Confirm(pending[i].n) \/ Promise!GiveUp({pending[i].n})
    BY <1>1, <1>3, <2>1, CloseDecides DEF Outcomes
  <2> QED
    BY <1>1, <2>2 DEF Promise!Next, Promise!Numbers
<1> QED
  BY <1>2, <1>3, AckTimeoutRecord

LEMMA HandleAckDecides ==
    ASSUME TypeOK, TruthInv, SeqInv, FateInv, HandleAck
    PROVE  [Promise!Next]_(Promise!vars)
<1> DEFINE ack == NextFrame(Base)
           i   == Min(Matching(ack))
<1>1. UNCHANGED <<request, executed>>
  BY DEF HandleAck, nodeVars
<1>2. CASE Matching(ack) = {}
  <2>1. UNCHANGED outcome
    BY <1>2 DEF HandleAck
  <2> QED
    BY <1>1, <2>1 DEF Phase, Promise!vars
<1>3. CASE Matching(ack) # {}
  <2>1. i \in PendingSlots /\ pending[i] # NoCommand
    BY <1>3, ClosedEntry
  <2>2. outcome' = [outcome EXCEPT ![pending[i].n] = AckVerdict(pending[i], ack)]
    BY <1>3 DEF HandleAck
  <2>3. AckVerdict(pending[i], ack) = "ok" => pending[i].n \in executed
    BY <1>3, VerdictTrue
  <2>4. AckVerdict(pending[i], ack) \in Outcomes \ {"none", "pending", "preempted"}
    BY DEF AckVerdict, Outcomes
  <2> HIDE DEF i, ack
  <2>5. pending[i].n \in Numbers /\ outcome[pending[i].n] = "pending"
    BY <2>1, EntryFields DEF FateInv, Recorded
  <2>6. Promise!Confirm(pending[i].n) \/ Promise!GiveUp({pending[i].n})
    BY <1>1, <2>2, <2>3, <2>4, <2>5, CloseDecides
  <2> QED
    BY <2>5, <2>6 DEF Promise!Next, Promise!Numbers
<1> QED
  BY <1>2, <1>3

\* A restart of BASE gives up all it was waiting for at once.
LEMMA BaseRebootDecides ==
    ASSUME TypeOK, BaseReboot
    PROVE  [Promise!Next]_(Promise!vars)
<1> DEFINE K == {k \in Numbers : outcome[k] = "pending"}
<1>1. UNCHANGED <<request, executed>>
  BY DEF BaseReboot, nodeVars
<1>2. outcome' = [k \in Numbers |-> IF outcome[k] = "pending" THEN "lost" ELSE outcome[k]]
  BY DEF BaseReboot
<1>3. \A k \in K : Phase[k] = "waiting"
  BY PhaseOf
<1>4. Phase' = [k \in Numbers |-> IF k \in K THEN "failed" ELSE Phase[k]]
  BY <1>2 DEF Phase
<1>5. Promise!GiveUp(K)
  BY <1>1, <1>3, <1>4 DEF Promise!GiveUp, Promise!Numbers
<1>6. CASE K = {}
  <2>1. Phase' = Phase
    BY <1>4, <1>6 DEF Phase
  <2> QED
    BY <1>1, <2>1 DEF Promise!vars
<1>7. CASE K # {}
  <2>1. K \in (SUBSET Numbers) \ {{}}
    BY <1>7
  <2> QED
    BY <1>5, <2>1 DEF Promise!Next, Promise!Numbers
<1> QED
  BY <1>6, <1>7

\* A command a node takes is one that BASE has accepted.
LEMMA TakenIsIssued ==
    ASSUME TypeOK, TruthInv, FateInv, NEW n \in Nodes,
           Fresh(n, "CMD"), ValidRelay(NextFrame(n)),
           executed' = executed \cup {NextFrame(n).n}, UNCHANGED <<request, outcome>>
    PROVE  Promise!Next
<1> DEFINE cmd == NextFrame(n)
<1>1. HasFrame(n) /\ cmd \in Packets /\ cmd \in CmdPackets
  BY NextFrameType, FrameFields DEF Fresh
<1>2. OnTheWay(cmd)
  <2>1. inbox[n] \in Seq(Packets) /\ inbox[n] # <<>>
    BY <1>1 DEF TypeOK, HasFrame
  <2>2. 1 \in 1 .. Len(inbox[n]) /\ cmd = inbox[n][1]
    BY <2>1 DEF NextFrame
  <2> QED
    BY <2>2 DEF OnTheWay, Received
<1>3. cmd.n \in 1 .. issued /\ cmd.n \in Numbers
  BY <1>1, <1>2 DEF TruthInv, FramesTruthful, Truthful, Asks, CmdPackets
<1> HIDE DEF cmd
<1>4. Phase[cmd.n] # "none"
  BY <1>3, PhaseOf, CommandPathAssumption DEF FateInv, TypeOK
<1>5. Promise!Execute(cmd.n)
  BY <1>4 DEF Phase, Promise!Execute, cmd
<1> QED
  BY <1>3, <1>5 DEF Promise!Next, Promise!Numbers

LEMMA NodeStepsExecute ==
    ASSUME TypeOK, TruthInv, FateInv, NEW n \in Nodes,
           \/ RefuseCommand(n) \/ SendReport(n) \/ NodeReboot(n) \/ CrashInRelaySet(n)
           \/ \E saved \in BOOLEAN : ExecuteCommand(n, saved)
    PROVE  [Promise!Next]_(Promise!vars)
<1>1. UNCHANGED <<request, outcome>>
  BY NodeSteps
<1>2. CASE RefuseCommand(n) \/ SendReport(n) \/ NodeReboot(n)
  <2>1. UNCHANGED executed
    BY <1>2 DEF RefuseCommand, SendReport, NodeReboot, nodeVars
  <2> QED
    BY <1>1, <2>1 DEF Phase, Promise!vars
<1>3. CASE CrashInRelaySet(n)
  <2>1. /\ Fresh(n, "CMD") /\ ValidRelay(NextFrame(n))
        /\ executed' = executed \cup {NextFrame(n).n}
    BY <1>3 DEF CrashInRelaySet
  <2> QED
    BY <1>1, <2>1, TakenIsIssued
<1>4. ASSUME NEW saved \in BOOLEAN, ExecuteCommand(n, saved)
      PROVE  [Promise!Next]_(Promise!vars)
  <2>1. /\ Fresh(n, "CMD") /\ ValidRelay(NextFrame(n))
        /\ executed' = executed \cup {NextFrame(n).n}
    BY <1>4 DEF ExecuteCommand, RelaySet
  <2> QED
    BY <1>1, <2>1, TakenIsIssued
<1> QED
  BY <1>2, <1>3, <1>4

LEMMA StepKeepsPromise ==
    ASSUME TypeOK, OneSlotPerRelay, TruthInv, SeqInv, FateInv, [Next]_vars
    PROVE  [Promise!Next]_(Promise!vars)
<1>1. ASSUME NEW r \in Requests, AcceptCommand(r) \/ RejectCommand(r)
      PROVE  Promise!Next
  <2>1. r \in Promise!Requests
    BY DEF Requests, Promise!Requests
  <2>2. issued + 1 \in Promise!Numbers
    BY <1>1, AcceptIssues, RejectRefuses DEF Promise!Numbers
  <2>3. Promise!Issue(issued + 1, r) \/ Promise!Refuse(issued + 1, r)
    BY <1>1, AcceptIssues, RejectRefuses
  <2> QED
    BY <2>1, <2>2, <2>3 DEF Promise!Next
<1>2. ASSUME NEW i \in PendingSlots, AckTimeout(i)
      PROVE  [Promise!Next]_(Promise!vars)
  BY <1>2, AckTimeoutDecides
<1>3. CASE HandleAck \/ BaseReboot
  BY <1>3, HandleAckDecides, BaseRebootDecides
<1>4. ASSUME NEW n \in Nodes,
             \/ RefuseCommand(n) \/ SendReport(n) \/ NodeReboot(n) \/ CrashInRelaySet(n)
             \/ \E saved \in BOOLEAN : ExecuteCommand(n, saved)
      PROVE  [Promise!Next]_(Promise!vars)
  BY <1>4, NodeStepsExecute
<1>5. ASSUME \/ HandleData
             \/ \E d \in Devices : \/ DropDuplicate(d)
                                   \/ \E direct, overheard \in BOOLEAN : Transmit(d, direct, overheard)
             \/ \E pkt \in relayed, heard \in BOOLEAN : Repeat(pkt, heard)
             \/ UNCHANGED vars
      PROVE  [Promise!Next]_(Promise!vars)
  <2>1. UNCHANGED <<request, outcome, executed>>
    BY <1>5 DEF HandleData, DropDuplicate, Transmit, Repeat, vars, nodeVars, userVars
  <2> QED
    BY <2>1 DEF Phase, Promise!vars
<1> QED
  BY <1>1, <1>2, <1>3, <1>4, <1>5 DEF Next

\* The command path implements the promise as long as no frame outlives
\* SEQ_MAX newer commands or a restart of BASE: each request is decided once,
\* "ok" is said of an executed request that none has replaced, and a later
\* request for the relay replaces the waiting one, through every loss,
\* repetition, retry, crash of a node and full queue.
THEOREM PromiseKept ==
    Spec /\ []NoneStale /\ [][CleanRestart]_vars => ImplementsRelayCommand
<1>1. Init => Promise!Init
  BY DEF Init, Phase, Promise!Init, Promise!Numbers
<1>2. TypeOK /\ OneSlotPerRelay /\ TruthInv /\ SeqInv /\ FateInv /\ [Next]_vars
      => [Promise!Next]_(Promise!vars)
  BY StepKeepsPromise
<1> QED
  BY <1>1, <1>2, TruthHolds, OnePendingPerRelay, SeqHolds, FateHolds, PTL
     DEF Spec, ImplementsRelayCommand, Promise!Spec
=============================================================================
