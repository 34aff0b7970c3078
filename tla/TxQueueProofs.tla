--------------------------- MODULE TxQueueProofs ---------------------------
(***************************************************************************)
(* The safety properties of TxQueue, for queues of any size, any clock and *)
(* any frames that satisfy TxQueueAssumption.                              *)
(***************************************************************************)
EXTENDS TxQueue, TxSlotsProofs

\* What % does within a turn of the clock on either side.
LEMMA Turn == \A C \in Nat \ {0} : \A x \in Int : x % C \in 0 .. C - 1
OBVIOUS

LEMMA SameTurn == \A C \in Nat \ {0} : \A x \in 0 .. C - 1 : x % C = x
OBVIOUS

LEMMA NextTurn == \A C \in Nat \ {0} : \A x \in C .. 2 * C - 1 : x % C = x - C
OBVIOUS

LEMMA LastTurn == \A C \in Nat \ {0} : \A x \in -C .. -1 : x % C = x + C
OBVIOUS

LEMMA QueuesType == Ranked(TxItems) /\ Queues(TxItems) = [Slots -> TxItems \cup {NoItem}]
BY DEF Ranked, TxItems, Queues

LEMMA EmptyIsQueue == EmptyQueue \in Queues(TxItems) /\ UsedSlots(EmptyQueue) = {}
BY DEF EmptyQueue, Queues, UsedSlots

\* The record a handler's frame becomes.
ItemOf(f) == [prio |-> f.prio, fwd |-> f.fwd, not_before |-> NotBefore(f.delay)]

LEMMA ItemOfType ==
    ASSUME now \in Times, NEW f \in Frames
    PROVE  /\ f.delay \in Nat /\ 2 * f.delay < CLOCK
           /\ f.prio \in TxPrio
           /\ NotBefore(f.delay) = (now + f.delay) % CLOCK
           /\ ItemOf(f) \in TxItems
<1>1. f.delay \in Nat /\ 2 * f.delay < CLOCK /\ f.prio \in TxPrio /\ f.fwd \in BOOLEAN
  <2>1. CASE f \in [prio : TxPrio \ {TXP_FWD}, fwd : {FALSE}, delay : {0}]
    <3>1. f.delay = 0 /\ f.prio \in TxPrio /\ f.fwd \in BOOLEAN
      BY <2>1
    <3> QED
      BY <3>1, TxQueueAssumption
  <2>2. CASE f \in [prio : TxPrio \ {TXP_DATA}, fwd : {TRUE}, delay : FwdDelays]
    BY <2>2, TxQueueAssumption
  <2> QED
    BY <2>1, <2>2, TxQueueAssumption
<1>2. NotBefore(f.delay) \in Times
  <2>1. CLOCK \in Nat \ {0} /\ now + f.delay \in Int
    BY <1>1, TxQueueAssumption DEF Times
  <2> QED
    BY <2>1, Turn DEF NotBefore, Times
<1> QED
  BY <1>1, <1>2 DEF ItemOf, TxItems, NotBefore

----------------------------------------------------------------------------
(* Type correctness                                                        *)

LEMMA InitType == Init => TypeOK
<1> SUFFICES ASSUME Init PROVE TypeOK
  OBVIOUS
<1>1. queue \in [Slots -> TxItems \cup {NoItem}]
  BY EmptyIsQueue, QueuesType DEF Init
<1>2. 0 \in Times /\ 0 \in 0 .. MaxAttempts /\ 0 \in 0 .. MaxBytes /\ GAP_MS \in 0 .. GAP_MS
  BY TxQueueAssumption DEF Times
<1> QED
  BY <1>1, <1>2 DEF Init, TypeOK, Levels

LEMMA EnqueueType ==
    ASSUME TypeOK, NEW f \in Frames, Enqueue(f)
    PROVE  TypeOK'
<1>1. f.delay \in Nat /\ ItemOf(f) \in TxItems
  BY ItemOfType DEF TypeOK
<1>2. queue' \in [Slots -> TxItems \cup {NoItem}]
  BY <1>1, EnqueuedIsQueue, QueuesType DEF TypeOK, Enqueue, ItemOf
<1>3. due' \in [Slots -> Nat]
  BY <1>1 DEF TypeOK, Enqueue
<1>4. attempts' \in 0 .. MaxAttempts
  BY TxQueueAssumption DEF TypeOK, Enqueue
<1>5. txDrop' \in Nat /\ fwdDrop' \in Nat
  BY DEF TypeOK, Enqueue, DropsAfter
<1> QED
  BY <1>2, <1>3, <1>4, <1>5 DEF TypeOK, Enqueue, rxVars

\* The slot txPoll transmits from.
LEMMA PickedSlot ==
    ASSUME TypeOK, MayTransmit
    PROVE  /\ Pick(queue, ReadySlots) \in ReadySlots
           /\ Pick(queue, ReadySlots) \in UsedSlots(queue)
<1>1. ReadySlots \in SUBSET UsedSlots(queue) /\ ReadySlots # {}
  BY DEF MayTransmit, ReadySlots, Ready, UsedSlots
<1> QED
  BY <1>1, PickIsReady, QueuesType DEF TypeOK

LEMMA LoopPassType ==
    ASSUME TypeOK, NEW d \in 1 .. MAX_PASS, LoopPass(d)
    PROVE  TypeOK'
<1>1. queue' \in [Slots -> TxItems \cup {NoItem}]
  <2>1. CASE PollWrite
    BY <2>1, PickedSlot, RemovedItems, QueuesType DEF TypeOK, PollWrite, UsedSlots
  <2>2. CASE PollIdle \/ PollDone \/ PollWaiting
    BY <2>2 DEF TypeOK, PollIdle, PollDone, PollWaiting
  <2> QED
    BY <2>1, <2>2 DEF LoopPass
<1>2. /\ txState' \in {"TX_IDLE", "TX_WAIT_DONE"}
      /\ started' \in Times
      /\ txOk' \in Nat /\ txDrop' \in Nat
  <2>1. 0 \in Times
    BY TxQueueAssumption DEF Times
  <2> QED
    BY <2>1
       DEF TypeOK, LoopPass, PollIdle, PollWrite, PollDone, PollWaiting, BackToIdle
<1>6. auxLowSeen' \in BOOLEAN
  <2>1. CASE PollIdle
    BY <2>1 DEF TypeOK, PollIdle
  <2>2. CASE PollWrite \/ PollDone \/ PollWaiting
    BY <2>2, Zenon DEF PollWrite, PollDone, PollWaiting, BackToIdle
  <2> QED
    BY <2>1, <2>2 DEF LoopPass
<1>3. gLastRxMs' \in Times /\ uart' \in BOOLEAN
  BY DEF TypeOK, LoopPass, ReadUart
<1>4. now' \in Times
  BY Turn, TxQueueAssumption DEF TypeOK, LoopPass, Elapse, Times
<1>5. due' \in [Slots -> Nat] /\ quiet' \in 0 .. GAP_MS
  BY TxQueueAssumption DEF TypeOK, LoopPass, Elapse, Later
<1> QED
  BY <1>1, <1>2, <1>3, <1>4, <1>5, <1>6 DEF TypeOK, LoopPass

LEMMA NextType == TypeOK /\ [Next]_vars => TypeOK'
<1> SUFFICES ASSUME TypeOK, [Next]_vars PROVE TypeOK'
  OBVIOUS
<1>1. ASSUME NEW f \in Frames, Enqueue(f) PROVE TypeOK'
  BY <1>1, EnqueueType
<1>2. ASSUME NEW d \in 1 .. MAX_PASS, LoopPass(d) PROVE TypeOK'
  BY <1>2, LoopPassType
<1>3. CASE AuxChange
  BY <1>3 DEF TypeOK, AuxChange, txVars, rxVars
<1>4. CASE RxByte
  BY <1>4, TxQueueAssumption DEF TypeOK, RxByte, txVars
<1>5. CASE UNCHANGED vars
  BY <1>5 DEF TypeOK, vars, txVars, rxVars
<1> QED
  BY <1>1, <1>2, <1>3, <1>4, <1>5 DEF Next

\* Every variable of the transmitter keeps to its range, on any clock.
THEOREM TypeCorrect == Spec => []TypeOK
<1> QED
  BY InitType, NextType, PTL DEF Spec

----------------------------------------------------------------------------
(* No frame is lost uncounted                                              *)

LEMMA InitCounted == Init => EveryFrameCounted
BY EmptyIsQueue, FS_EmptySet DEF Init, EveryFrameCounted, InFlight

LEMMA NextCounted ==
    ASSUME TypeOK, EveryFrameCounted, [Next]_vars
    PROVE  EveryFrameCounted'
<1> DEFINE Queued == Cardinality(UsedSlots(queue))
<1>0. Queued \in Nat
  BY UsedSlotsFinite
<1>1. ASSUME NEW f \in Frames, Enqueue(f) PROVE EveryFrameCounted'
  <2>1. ItemOf(f) \in TxItems
    BY ItemOfType DEF TypeOK
  <2>2. queue' = Enqueued(queue, ItemOf(f))
    BY <1>1 DEF Enqueue, ItemOf
  <2>3. Queued' = Queued + (IF FreeSlots(queue) = {} THEN 0 ELSE 1)
    BY <2>1, <2>2, EnqueuedCount, QueuesType, NoItemAssumption DEF TypeOK
  <2>4. txDrop' = txDrop + (IF FreeSlots(queue) = {} THEN 1 ELSE 0)
    BY <1>1 DEF Enqueue, DropsAfter, TypeOK
  <2> QED
    BY <1>0, <1>1, <2>3, <2>4 DEF Enqueue, EveryFrameCounted, InFlight, TypeOK
<1>2. ASSUME NEW d \in 1 .. MAX_PASS, LoopPass(d) PROVE EveryFrameCounted'
  <2>1. attempts' = attempts
    BY <1>2 DEF LoopPass
  <2>2. CASE PollIdle
    BY <2>1, <2>2 DEF PollIdle, EveryFrameCounted, InFlight
  <2>3. CASE PollWrite
    <3>1. Queued' = Queued - 1
      BY <2>3, PickedSlot, RemovedCount, QueuesType DEF PollWrite, TypeOK
    <3> QED
      BY <1>0, <2>1, <2>3, <3>1 DEF PollWrite, EveryFrameCounted, InFlight, TypeOK
  <2>4. CASE PollDone
    BY <1>0, <2>1, <2>4 DEF PollDone, BackToIdle, EveryFrameCounted, InFlight, TypeOK
  <2>5. CASE PollWaiting
    BY <1>0, <2>1, <2>5 DEF PollWaiting, BackToIdle, EveryFrameCounted, InFlight, TypeOK
  <2> QED
    BY <1>2, <2>2, <2>3, <2>4, <2>5 DEF LoopPass
<1>3. CASE AuxChange \/ RxByte \/ UNCHANGED vars
  BY <1>3 DEF AuxChange, RxByte, vars, txVars, EveryFrameCounted, InFlight
<1> QED
  BY <1>1, <1>2, <1>3 DEF Next

\* tx_ok, tx_drop, the queue and the frame on the air account for every call of
\* txEnqueue, exactly once, for a queue of any size.
THEOREM FramesCounted == Spec => []EveryFrameCounted
<1>1. TypeOK /\ EveryFrameCounted /\ [Next]_vars => EveryFrameCounted'
  BY NextCounted
<1> QED
  BY <1>1, InitCounted, TypeCorrect, PTL DEF Spec

----------------------------------------------------------------------------
(* A full queue keeps its urgent frames                                    *)

LEMMA NextKeepsUrgent ==
    ASSUME TypeOK, [Next]_vars, attempts' # attempts, NEW p \in TxPrio
    PROVE  AtLeastAsUrgent(queue', p) >= AtLeastAsUrgent(queue, p)
<1>1. PICK f \in Frames : Enqueue(f)
  BY DEF Next, LoopPass, AuxChange, RxByte, vars
<1>2. ItemOf(f) \in TxItems
  BY ItemOfType DEF TypeOK
<1>3. queue' = Enqueued(queue, ItemOf(f))
  BY <1>1 DEF Enqueue, ItemOf
<1>4. UrgentSlots(queue, p) \subseteq UrgentSlots(queue', p)
  BY <1>2, <1>3, EnqueuedKeepsUrgentSlots, QueuesType, NoItemAssumption DEF TypeOK
<1>5. UrgentSlots(queue', p) \subseteq UsedSlots(queue')
  BY DEF UrgentSlots
<1>6. IsFiniteSet(UrgentSlots(queue', p))
  BY <1>5, UsedSlotsFinite
<1>7. Cardinality(UrgentSlots(queue, p)) <= Cardinality(UrgentSlots(queue', p))
  BY <1>4, <1>6, FS_Subset
<1>8. /\ Cardinality(UrgentSlots(queue, p)) \in Nat
      /\ Cardinality(UrgentSlots(queue', p)) \in Nat
  BY <1>4, <1>6, FS_Subset, FS_CardinalityType
<1> QED
  BY <1>7, <1>8 DEF AtLeastAsUrgent, UrgentSlots

\* txEnqueue on a full queue gives up the newcomer or something less urgent.
THEOREM UrgentKept == Spec => EnqueueKeepsUrgent
<1>1. TypeOK /\ [Next]_vars
      => [attempts' # attempts
          => \A p \in TxPrio : AtLeastAsUrgent(queue', p) >= AtLeastAsUrgent(queue, p)]_vars
  BY NextKeepsUrgent
<1> QED
  BY <1>1, TypeCorrect, PTL DEF Spec, EnqueueKeepsUrgent

----------------------------------------------------------------------------
(* The jitter of forwarded frames                                          *)

\* As long as a queued frame must wait, its not_before is the reading millis()
\* will have when the wait is over, and less than half a turn away.
JitterKept ==
    \A i \in UsedSlots(queue) :
        /\ 2 * due[i] < CLOCK
        /\ due[i] > 0 => queue[i].not_before = (now + due[i]) % CLOCK

\* The signed comparison of pickReadyItem tells a wait that is not over.
LEMMA ReadyMeansDue ==
    ASSUME TypeOK, JitterKept, NEW i \in ReadySlots
    PROVE  due[i] = 0
<1> SUFFICES ASSUME due[i] > 0 PROVE FALSE
  BY DEF TypeOK, ReadySlots
<1>1. i \in UsedSlots(queue) /\ 2 * Since(queue[i].not_before) < CLOCK
  BY DEF ReadySlots, Ready, UsedSlots
<1>2. /\ CLOCK \in Nat \ {0} /\ now \in 0 .. CLOCK - 1
      /\ due[i] \in Nat /\ 2 * due[i] < CLOCK
  BY <1>1, TxQueueAssumption DEF TypeOK, Times, JitterKept, UsedSlots
<1>3. queue[i].not_before = (now + due[i]) % CLOCK
  BY <1>1 DEF JitterKept
<1>4. CASE now + due[i] < CLOCK
  <2>1. now + due[i] \in 0 .. CLOCK - 1
    BY <1>2, <1>4
  <2>2. queue[i].not_before = now + due[i]
    BY <1>2, <1>3, <2>1, SameTurn
  <2>3. now - queue[i].not_before = -due[i] /\ -due[i] \in -CLOCK .. -1
    BY <1>2, <2>2
  <2>4. Since(queue[i].not_before) = -due[i] + CLOCK
    BY <1>2, <2>3, LastTurn DEF Since
  <2> QED
    BY <1>1, <1>2, <2>4
<1>5. CASE now + due[i] >= CLOCK
  <2>1. now + due[i] \in CLOCK .. 2 * CLOCK - 1
    BY <1>2, <1>5
  <2>2. queue[i].not_before = now + due[i] - CLOCK
    BY <1>2, <1>3, <2>1, NextTurn
  <2>3. now - queue[i].not_before = CLOCK - due[i] /\ CLOCK - due[i] \in 0 .. CLOCK - 1
    BY <1>2, <2>2
  <2>4. Since(queue[i].not_before) = CLOCK - due[i]
    BY <1>2, <2>3, SameTurn DEF Since
  <2> QED
    BY <1>1, <1>2, <2>4
<1> QED
  BY <1>2, <1>4, <1>5

\* Time passing moves the clock and the wait by the same amount.
LEMMA WaitShifts ==
    ASSUME NEW C \in Nat \ {0}, NEW t \in 0 .. C - 1, NEW w \in Nat,
           2 * w < C, NEW d \in Nat, d < w
    PROVE  (((t + d) % C) + (w - d)) % C = (t + w) % C
<1>1. CASE t + d < C
  <2>1. t + d \in 0 .. C - 1
    BY <1>1
  <2>2. (t + d) % C = t + d
    BY <2>1, SameTurn
  <2>3. (t + d) + (w - d) = t + w
    OBVIOUS
  <2> QED
    BY <2>2, <2>3
<1>2. CASE t + d >= C
  <2>1. t + d \in C .. 2 * C - 1
    BY <1>2
  <2>2. (t + d) % C = t + d - C
    BY <2>1, NextTurn
  <2>3. t + w \in C .. 2 * C - 1
    BY <1>2
  <2>4. (t + w) % C = t + w - C
    BY <2>3, NextTurn
  <2>5. (t + d - C) + (w - d) = t + w - C /\ t + w - C \in 0 .. C - 1
    BY <2>3
  <2>6. (t + w - C) % C = t + w - C
    BY <2>5, SameTurn
  <2> QED
    BY <2>2, <2>4, <2>5, <2>6
<1> QED
  BY <1>1, <1>2

LEMMA NextJitter ==
    ASSUME TypeOK, JitterKept, [Next]_vars
    PROVE  JitterKept'
<1>1. ASSUME NEW f \in Frames, Enqueue(f) PROVE JitterKept'
  <2> SUFFICES ASSUME NEW i \in UsedSlots(queue')
               PROVE  /\ 2 * due'[i] < CLOCK
                      /\ due'[i] > 0 => queue'[i].not_before = (now + due'[i]) % CLOCK
    BY <1>1 DEF JitterKept, Enqueue
  <2>1. /\ 2 * f.delay < CLOCK
        /\ ItemOf(f).not_before = (now + f.delay) % CLOCK
        /\ ItemOf(f) \in TxItems
    BY ItemOfType DEF TypeOK, ItemOf
  <2>2. queue' = Enqueued(queue, ItemOf(f)) /\ ItemOf(f).prio = f.prio
    BY <1>1 DEF Enqueue, ItemOf
  <2>3. CASE Accepts(queue, f.prio) /\ i = Landing(queue)
    BY <1>1, <2>1, <2>2, <2>3 DEF Enqueue, Enqueued, TypeOK, UsedSlots
  <2>4. CASE Accepts(queue, f.prio) /\ i # Landing(queue)
    BY <1>1, <2>2, <2>4 DEF Enqueue, Enqueued, TypeOK, UsedSlots, JitterKept
  <2>5. CASE ~Accepts(queue, f.prio)
    BY <1>1, <2>2, <2>5 DEF Enqueue, Enqueued, JitterKept
  <2> QED
    BY <2>3, <2>4, <2>5
<1>2. ASSUME NEW d \in 1 .. MAX_PASS, LoopPass(d) PROVE JitterKept'
  <2> SUFFICES ASSUME NEW i \in UsedSlots(queue')
               PROVE  /\ 2 * due'[i] < CLOCK
                      /\ due'[i] > 0 => queue'[i].not_before = (now' + due'[i]) % CLOCK
    BY DEF JitterKept
  <2>1. i \in UsedSlots(queue) /\ queue'[i] = queue[i]
    <3>1. CASE PollWrite
      BY <3>1, RemovedItems, QueuesType, PickedSlot
         DEF PollWrite, TypeOK, UsedSlots
    <3>2. CASE PollIdle \/ PollDone \/ PollWaiting
      BY <3>2 DEF PollIdle, PollDone, PollWaiting
    <3> QED
      BY <1>2, <3>1, <3>2 DEF LoopPass
  <2>2. /\ CLOCK \in Nat \ {0} /\ now \in 0 .. CLOCK - 1
        /\ due[i] \in Nat /\ 2 * due[i] < CLOCK /\ d \in Nat
    BY <2>1, TxQueueAssumption DEF TypeOK, Times, JitterKept, UsedSlots
  <2>3. /\ now' = (now + d) % CLOCK
        /\ due'[i] = IF due[i] > d THEN due[i] - d ELSE 0
    BY <1>2, <2>1 DEF LoopPass, Elapse, Later, UsedSlots
  <2>4. CASE due[i] > d
    <3>1. queue[i].not_before = (now + due[i]) % CLOCK
      BY <2>1, <2>2, <2>4 DEF JitterKept
    <3>2. (((now + d) % CLOCK) + (due[i] - d)) % CLOCK = (now + due[i]) % CLOCK
      BY <2>2, <2>4, WaitShifts
    <3> QED
      BY <2>1, <2>2, <2>3, <2>4, <3>1, <3>2
  <2>5. CASE ~(due[i] > d)
    BY <2>2, <2>3, <2>5
  <2> QED
    BY <2>4, <2>5
<1>3. CASE AuxChange \/ RxByte \/ UNCHANGED vars
  BY <1>3 DEF AuxChange, RxByte, vars, txVars, rxVars, JitterKept, UsedSlots
<1> QED
  BY <1>1, <1>2, <1>3 DEF Next

LEMMA NextNotBefore ==
    ASSUME TypeOK, JitterKept, [Next]_vars,
           txState = "TX_IDLE", txState' = "TX_WAIT_DONE"
    PROVE  \E i \in Slots : queue[i] # NoItem /\ queue'[i] = NoItem /\ due[i] = 0
<1>1. PollWrite
  BY DEF Next, Enqueue, LoopPass, PollIdle, PollDone, PollWaiting, BackToIdle,
         AuxChange, RxByte, vars, txVars
<1> DEFINE i == Pick(queue, ReadySlots)
<1>2. i \in ReadySlots /\ i \in Slots /\ queue[i] # NoItem
  BY <1>1, PickedSlot DEF PollWrite, UsedSlots
<1>3. due[i] = 0
  BY <1>2, ReadyMeansDue
<1>4. queue'[i] = NoItem
  BY <1>1, <1>2 DEF PollWrite, Removed, TypeOK
<1> HIDE DEF i
<1> QED
  BY <1>2, <1>3, <1>4

\* No frame is transmitted before its jitter is over, wherever millis() turns.
THEOREM JitterRespected == Spec => NeverBeforeItsTime
<1>1. Init => JitterKept
  BY EmptyIsQueue DEF Init, JitterKept
<1>2. TypeOK /\ JitterKept /\ [Next]_vars => JitterKept'
  BY NextJitter
<1>3. TypeOK /\ JitterKept /\ [Next]_vars
      => [txState = "TX_IDLE" /\ txState' = "TX_WAIT_DONE"
          => \E i \in Slots : queue[i] # NoItem /\ queue'[i] = NoItem /\ due[i] = 0]_vars
  BY NextNotBefore
<1> QED
  BY <1>1, <1>2, <1>3, TypeCorrect, PTL DEF Spec, NeverBeforeItsTime
=============================================================================
