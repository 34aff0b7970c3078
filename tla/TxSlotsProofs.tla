--------------------------- MODULE TxSlotsProofs ---------------------------
(***************************************************************************)
(* What the operators of TxSlots return, for a queue of any size and items *)
(* of any shape that have a prio.                                          *)
(***************************************************************************)
EXTENDS TxSlots, Integers, FiniteSetTheorems, TLAPS

\* A queue of items taken from Items.
Queues(Items) == [Slots -> Items \cup {NoItem}]

\* Items that can be ranked.
Ranked(Items) == \A item \in Items : item.prio \in TxPrio

----------------------------------------------------------------------------
\* A non-empty set of naturals contains its minimum.  The intervals 0 .. x are
\* finite and their strict inclusion is well-founded: that replaces induction.
LEMMA MinInSet ==
    ASSUME NEW S \in SUBSET Nat, S # {}
    PROVE  /\ Min(S) \in S
           /\ \A x \in S : Min(S) <= x
<1> DEFINE T == {0 .. x : x \in S}
<1>1. T \subseteq FiniteSubsetsOf(Nat)
  <2> SUFFICES ASSUME NEW x \in S PROVE 0 .. x \in FiniteSubsetsOf(Nat)
    OBVIOUS
  <2>1. IsFiniteSet(0 .. x)
    BY FS_Interval
  <2> QED
    BY <2>1 DEF FiniteSubsetsOf
<1>2. T # {}
  OBVIOUS
<1>3. PICK t \in T : \A u \in T : ~(<<u, t>> \in StrictSubsetOrdering(Nat))
  <2> HIDE DEF T
  <2> QED
    BY <1>1, <1>2, FS_StrictSubsetOrderingWellFounded, WFMin, Zenon
<1>4. PICK m \in S : t = 0 .. m
  OBVIOUS
<1>5. ASSUME NEW x \in S, x < m PROVE FALSE
  <2>1. /\ 0 .. x \in T
        /\ 0 .. x \subseteq 0 .. m
        /\ 0 .. x # 0 .. m
    BY <1>5
  <2>2. <<0 .. x, t>> \in StrictSubsetOrdering(Nat)
    BY <2>1, <1>4 DEF StrictSubsetOrdering
  <2> QED
    BY <2>1, <2>2, <1>3
<1>6. \A x \in S : m <= x
  BY <1>5
<1> QED
  BY <1>6 DEF Min

----------------------------------------------------------------------------
\* pickReadyItem returns a ready slot, and none more urgent is ready.
LEMMA PickIsReady ==
    ASSUME NEW Items, Ranked(Items), NEW q \in Queues(Items),
           NEW ready \in SUBSET UsedSlots(q), ready # {}
    PROVE  /\ Pick(q, ready) \in ready
           /\ \A j \in ready : q[Pick(q, ready)].prio <= q[j].prio
<1> DEFINE Prios == {q[i].prio : i \in ready}
           Best  == {i \in ready : \A j \in ready : q[i].prio <= q[j].prio}
<1>1. \A i \in ready : q[i].prio \in TxPrio
  BY DEF Queues, Ranked, UsedSlots
<1>2. Prios \in SUBSET Nat /\ Prios # {}
  BY <1>1 DEF TxPrio, TXP_ACK, TXP_CMD, TXP_FWD, TXP_DATA
<1>3. PICK i \in ready : q[i].prio = Min(Prios)
  BY <1>2, MinInSet
<1>4. i \in Best
  BY <1>2, <1>3, MinInSet
<1>5. Best \in SUBSET Nat
  BY TxSlotsAssumption DEF UsedSlots, Slots
<1>6. Min(Best) \in Best
  BY <1>4, <1>5, MinInSet
<1> QED
  BY <1>6 DEF Pick

\* The victim of a full queue is one of its slots, and none is less urgent.
LEMMA VictimIsLeastUrgent ==
    ASSUME NEW Items, Ranked(Items), NEW q \in Queues(Items), FreeSlots(q) = {}
    PROVE  /\ Victim(q) \in UsedSlots(q)
           /\ \A j \in Slots : q[j].prio <= q[Victim(q)].prio
<1> DEFINE Ranks == {TXP_DATA - q[i].prio : i \in Slots}
           Worst == {i \in Slots : \A j \in Slots : q[j].prio <= q[i].prio}
<1>1. UsedSlots(q) = Slots
  BY DEF FreeSlots, UsedSlots
<1>2. \A i \in Slots : q[i].prio \in TxPrio
  BY <1>1 DEF Queues, Ranked, UsedSlots
<1>3. Ranks \in SUBSET Nat /\ Ranks # {}
  BY <1>2, TxSlotsAssumption DEF TxPrio, TXP_ACK, TXP_CMD, TXP_FWD, TXP_DATA, Slots
<1>4. PICK i \in Slots : TXP_DATA - q[i].prio = Min(Ranks)
  BY <1>3, MinInSet
<1>5. \A j \in Slots : TXP_DATA - q[i].prio <= TXP_DATA - q[j].prio
  BY <1>3, <1>4, MinInSet
<1>6. i \in Worst
  BY <1>2, <1>5 DEF TxPrio, TXP_ACK, TXP_CMD, TXP_FWD, TXP_DATA
<1>7. Worst \in SUBSET Nat
  BY TxSlotsAssumption DEF Slots
<1>8. Min(Worst) \in Worst
  BY <1>6, <1>7, MinInSet
<1> QED
  BY <1>1, <1>8 DEF Victim

\* txEnqueue puts an accepted newcomer into a free slot or in the victim's place.
LEMMA LandingIsSlot ==
    ASSUME NEW Items, Ranked(Items), NEW q \in Queues(Items)
    PROVE  /\ FreeSlots(q) # {} => Landing(q) \in FreeSlots(q)
           /\ FreeSlots(q) = {} => Landing(q) \in UsedSlots(q)
<1>1. CASE FreeSlots(q) # {}
  <2>1. FreeSlots(q) \in SUBSET Nat
    BY TxSlotsAssumption DEF FreeSlots, Slots
  <2> QED
    BY <1>1, <2>1, MinInSet DEF Landing
<1>2. CASE FreeSlots(q) = {}
  BY <1>2, VictimIsLeastUrgent DEF Landing
<1> QED
  BY <1>1, <1>2

\* txEnqueue on a queue yields a queue.
LEMMA EnqueuedIsQueue ==
    ASSUME NEW Items, NEW q \in Queues(Items), NEW item \in Items
    PROVE  Enqueued(q, item) \in Queues(Items)
BY DEF Enqueued, Queues

\* After txEnqueue each item was there before or is the newcomer.
LEMMA EnqueuedItems ==
    ASSUME NEW Items, NEW q \in Queues(Items), NEW item \in Items,
           NEW i \in UsedSlots(Enqueued(q, item))
    PROVE  \/ Enqueued(q, item)[i] = item
           \/ i \in UsedSlots(q) /\ Enqueued(q, item)[i] = q[i]
BY DEF Enqueued, UsedSlots, Queues

\* Taking an item out leaves the others.
LEMMA RemovedItems ==
    ASSUME NEW Items, NEW q \in Queues(Items), NEW j \in Slots
    PROVE  /\ Removed(q, j) \in Queues(Items)
           /\ UsedSlots(Removed(q, j)) = UsedSlots(q) \ {j}
           /\ \A i \in UsedSlots(q) \ {j} : Removed(q, j)[i] = q[i]
BY DEF Removed, UsedSlots, Queues

----------------------------------------------------------------------------
\* The slots can be counted.
LEMMA UsedSlotsFinite ==
    ASSUME NEW q, NEW S \in SUBSET UsedSlots(q)
    PROVE  IsFiniteSet(S) /\ Cardinality(S) \in Nat
<1>1. IsFiniteSet(Slots)
  BY TxSlotsAssumption, FS_Interval DEF Slots
<1>2. S \subseteq Slots
  BY DEF UsedSlots
<1> QED
  BY <1>1, <1>2, FS_Subset, FS_CardinalityType

\* txEnqueue adds one item to a queue with a free slot, and keeps the number of
\* items of a full one, whichever of the two is given up.
LEMMA EnqueuedCount ==
    ASSUME NEW Items, Ranked(Items), NoItem \notin Items,
           NEW q \in Queues(Items), NEW item \in Items
    PROVE  Cardinality(UsedSlots(Enqueued(q, item))) =
             Cardinality(UsedSlots(q)) + (IF FreeSlots(q) = {} THEN 0 ELSE 1)
<1>1. CASE FreeSlots(q) # {}
  <2>1. Landing(q) \in FreeSlots(q)
    BY <1>1, LandingIsSlot
  <2>2. UsedSlots(Enqueued(q, item)) = UsedSlots(q) \cup {Landing(q)}
    BY <1>1, <2>1 DEF Enqueued, Accepts, UsedSlots, FreeSlots, Queues
  <2>3. Landing(q) \notin UsedSlots(q)
    BY <2>1 DEF FreeSlots
  <2> QED
    BY <1>1, <2>2, <2>3, UsedSlotsFinite, FS_AddElement
<1>2. CASE FreeSlots(q) = {}
  <2>1. Landing(q) \in UsedSlots(q)
    BY <1>2, LandingIsSlot
  <2>2. UsedSlots(Enqueued(q, item)) = UsedSlots(q)
    BY <2>1 DEF Enqueued, UsedSlots, Queues
  <2> QED
    BY <1>2, <2>2, UsedSlotsFinite
<1> QED
  BY <1>1, <1>2

\* Taking out a used slot leaves one item less.
LEMMA RemovedCount ==
    ASSUME NEW Items, NEW q \in Queues(Items), NEW j \in UsedSlots(q)
    PROVE  Cardinality(UsedSlots(Removed(q, j))) = Cardinality(UsedSlots(q)) - 1
<1>1. UsedSlots(Removed(q, j)) = UsedSlots(q) \ {j}
  BY RemovedItems DEF UsedSlots
<1> QED
  BY <1>1, UsedSlotsFinite, FS_RemoveElement

\* The slots that hold an item of urgency p or above.
UrgentSlots(q, p) == {i \in UsedSlots(q) : q[i].prio <= p}

\* txEnqueue never takes the place of an item for a less urgent one.
LEMMA EnqueuedKeepsUrgentSlots ==
    ASSUME NEW Items, Ranked(Items), NoItem \notin Items,
           NEW q \in Queues(Items), NEW item \in Items, NEW p \in TxPrio
    PROVE  UrgentSlots(q, p) \subseteq UrgentSlots(Enqueued(q, item), p)
<1>1. CASE FreeSlots(q) # {}
  <2>1. Landing(q) \in FreeSlots(q)
    BY <1>1, LandingIsSlot
  <2> QED
    BY <2>1 DEF Enqueued, UsedSlots, FreeSlots, Queues, UrgentSlots
<1>2. CASE FreeSlots(q) = {} /\ Accepts(q, item.prio)
  <2> DEFINE v == Victim(q)
  <2>1. v \in UsedSlots(q) /\ Landing(q) = v
    BY <1>2, VictimIsLeastUrgent DEF Landing
  <2>2. q[v].prio \in Nat /\ item.prio \in Nat /\ item.prio < q[v].prio
    BY <1>2, <2>1 DEF Accepts, UsedSlots, Queues, Ranked,
                      TxPrio, TXP_ACK, TXP_CMD, TXP_FWD, TXP_DATA
  <2>3. /\ Enqueued(q, item) = [q EXCEPT ![v] = item]
        /\ UsedSlots(Enqueued(q, item)) = UsedSlots(q)
    BY <1>2, <2>1 DEF Enqueued, UsedSlots, Queues
  <2>4. ASSUME NEW i \in UsedSlots(q), q[i].prio <= p
        PROVE  Enqueued(q, item)[i].prio <= p
    <3>1. CASE i = v
      <4>1. Enqueued(q, item)[i] = item
        BY <2>3, <3>1 DEF UsedSlots, Queues
      <4> QED
        BY <2>2, <2>4, <3>1, <4>1
           DEF TxPrio, TXP_ACK, TXP_CMD, TXP_FWD, TXP_DATA
    <3>2. CASE i # v
      BY <2>3, <2>4, <3>2 DEF UsedSlots, Queues
    <3> QED
      BY <3>1, <3>2
  <2> HIDE DEF v
  <2> QED
    BY <2>3, <2>4 DEF UrgentSlots
<1>3. CASE ~Accepts(q, item.prio)
  BY <1>3 DEF Enqueued
<1> QED
  BY <1>1, <1>2, <1>3
=============================================================================
