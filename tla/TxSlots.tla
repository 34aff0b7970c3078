------------------------------ MODULE TxSlots ------------------------------
(***************************************************************************)
(* The transmit queue of lora_phy.cpp as a data structure: a fixed array   *)
(* of TX_QUEUE_SIZE slots, each empty or holding a TxItem.  Every role     *)
(* (BASE, NODE, REPEATER) hands all its frames to this queue.              *)
(*                                                                         *)
(* A TxItem is a record with at least the field prio.  Smaller prio values *)
(* are more urgent.  The `used` flag of the code is q[i] # NoItem here.    *)
(***************************************************************************)
EXTENDS Naturals, FiniteSetsExt

CONSTANTS TX_QUEUE_SIZE,   \* number of slots (8 in the firmware)
          NoItem           \* an unused slot

ASSUME TxSlotsAssumption == TX_QUEUE_SIZE \in Nat \ {0}

\* enum TxPrio (lora_phy.h)
TXP_ACK  == 0
TXP_CMD  == 1
TXP_FWD  == 2
TXP_DATA == 3

TxPrio == {TXP_ACK, TXP_CMD, TXP_FWD, TXP_DATA}

Slots == 1 .. TX_QUEUE_SIZE

EmptyQueue == [i \in Slots |-> NoItem]

UsedSlots(q) == {i \in Slots : q[i] # NoItem}
FreeSlots(q) == Slots \ UsedSlots(q)

----------------------------------------------------------------------------
\* A full queue gives up its least urgent item: the lowest slot among those
\* with the highest prio value (the strict > of the victim loop).
Victim(q) == Min({i \in Slots : \A j \in Slots : q[j].prio <= q[i].prio})

\* Mutant of Accepts: a full queue always makes room.
AcceptsAlways(q, prio) == TRUE

\* txEnqueue returns false exactly when no slot is free and the newcomer does
\* not outrank the victim.
Accepts(q, prio) == \/ FreeSlots(q) # {}
                    \/ prio < q[Victim(q)].prio

\* The slot an accepted newcomer lands in.
Landing(q) == IF FreeSlots(q) # {} THEN Min(FreeSlots(q)) ELSE Victim(q)

Evicts(q, prio) == FreeSlots(q) = {} /\ Accepts(q, prio)

\* txEnqueue on the slots; a refused newcomer leaves them as they were.
Enqueued(q, item) ==
    IF Accepts(q, item.prio) THEN [q EXCEPT ![Landing(q)] = item] ELSE q

----------------------------------------------------------------------------
\* pickReadyItem: among the ready slots the most urgent, and among equally
\* urgent ones the lowest slot -- whichever was filled first.
Pick(q, ready) ==
    Min({i \in ready : \A j \in ready : q[i].prio <= q[j].prio})

Removed(q, i) == [q EXCEPT ![i] = NoItem]
=============================================================================
