------------------------------ MODULE TxQueue ------------------------------
(***************************************************************************)
(* The non-blocking transmitter of lora_phy.cpp: txEnqueue, called by      *)
(* every handler, and txPoll, called at the head of every loraLoop pass,   *)
(* against a radio module that answers only through its AUX pin.           *)
(*                                                                         *)
(* millis() is a counter modulo CLOCK.  A pass of the main loop takes      *)
(* between 1 and MAX_PASS ms; handlers run between passes.  The pin and    *)
(* the bytes arriving on the UART are the environment.                     *)
(***************************************************************************)
EXTENDS Integers, TxSlots

CONSTANTS
    CLOCK,        \* turn of the millisecond counter (2^32)
    GUARD_MS,     \* 2 * LORA_AIRTIME_MS + 500
    GAP_MS,       \* LORA_TX_AFTER_RX_GAP_MS
    FwdDelays,    \* jitter a forwarded frame may be given
    Frames,       \* the frames handlers hand over: [prio, fwd, delay]
    MAX_PASS,     \* the longest pass of the main loop
    \* Bounds of a behaviour: calls of txEnqueue, arrivals on the UART
    MaxAttempts, MaxBytes

ASSUME TxQueueAssumption ==
    /\ CLOCK \in Nat \ {0}
    /\ GUARD_MS \in Nat
    /\ GAP_MS \in Nat
    /\ FwdDelays \subseteq Nat
    /\ \A d \in FwdDelays : 2 * d < CLOCK
    \* a device's own frames go out at once, forwarded ones after a jitter
    /\ Frames \subseteq [prio : TxPrio \ {TXP_FWD}, fwd : {FALSE}, delay : {0}] \cup
                       [prio : TxPrio \ {TXP_DATA}, fwd : {TRUE}, delay : FwdDelays]
    /\ MAX_PASS \in Nat \ {0}
    /\ GUARD_MS + MAX_PASS < CLOCK
    /\ MaxAttempts \in Nat
    /\ MaxBytes \in Nat

VARIABLES
    queue,        \* s_queue[]
    txState,      \* s_tx_state
    started,      \* s_inflight_started_ms, kept only while TX_WAIT_DONE reads it
    auxLowSeen,   \* s_inflight_aux_low_seen, likewise
    txOk, txDrop, fwdDrop,   \* the counters of gLoraStats
    gLastRxMs,    \* millis() when the last byte was read from the UART
    now,          \* millis()
    aux,          \* level of the AUX pin
    uart,         \* bytes are waiting in the UART
    attempts,     \* txEnqueue calls so far
    bytes,        \* arrivals on the UART so far
    due,          \* ms each slot's frame must still wait, whatever the clock says
    quiet         \* ms since the last byte arrived, up to GAP_MS

txVars  == <<queue, txState, started, auxLowSeen, txOk, txDrop, fwdDrop>>
rxVars  == <<gLastRxMs, uart, quiet>>
vars    == <<txVars, rxVars, now, aux, attempts, bytes, due>>

Times  == 0 .. CLOCK - 1
Levels == {"HIGH", "LOW"}

TxItems == [prio : TxPrio, fwd : BOOLEAN, not_before : Times]

ASSUME NoItemAssumption == NoItem \notin TxItems

Init ==
    /\ queue = EmptyQueue
    /\ txState = "TX_IDLE"
    /\ started = 0
    /\ auxLowSeen = FALSE
    /\ txOk = 0 /\ txDrop = 0 /\ fwdDrop = 0
    /\ gLastRxMs = 0
    /\ now = 0
    /\ aux = "HIGH"
    /\ uart = FALSE
    /\ attempts = 0
    /\ bytes = 0
    /\ due = [i \in Slots |-> 0]
    /\ quiet = GAP_MS

----------------------------------------------------------------------------
\* Unsigned difference of two readings of millis().
Since(t) == (now - t) % CLOCK

\* Mutant of NotBefore: the sum leaves the range of the counter.
NotBeforeUnwrapped(delay) == now + delay

NotBefore(delay) == (now + delay) % CLOCK

\* Mutant of DropsAfter: an eviction is not counted, only a refusal.
DropsAfterRefusal(prio) ==
    IF FreeSlots(queue) = {} /\ ~Evicts(queue, prio) THEN txDrop + 1 ELSE txDrop

\* A full queue loses one frame, the newcomer or the victim.
DropsAfter(prio) == IF FreeSlots(queue) = {} THEN txDrop + 1 ELSE txDrop

\* txEnqueue.  A full queue drops the newcomer or, for a more urgent one, its
\* victim; either way one frame is counted in tx_drop.
Enqueue(f) ==
    /\ attempts < MaxAttempts
    /\ attempts' = attempts + 1
    /\ queue' = Enqueued(queue, [prio |-> f.prio, fwd |-> f.fwd,
                                 not_before |-> NotBefore(f.delay)])
    /\ due' = IF Accepts(queue, f.prio) THEN [due EXCEPT ![Landing(queue)] = f.delay]
                                        ELSE due
    /\ txDrop' = DropsAfter(f.prio)
    /\ fwdDrop' = IF Evicts(queue, f.prio) /\ queue[Victim(queue)].fwd
                  THEN fwdDrop + 1 ELSE fwdDrop
    /\ UNCHANGED <<txState, started, auxLowSeen, txOk, rxVars, now, aux, bytes>>

----------------------------------------------------------------------------
(* txPoll, one operator per way through it.  Each is the first half of a   *)
(* pass of loraLoop.                                                       *)

\* Mutant of Ready: the comparison that breaks when millis() wraps.
ReadyUnwrapped(i) == queue[i] # NoItem /\ now >= queue[i].not_before

\* (int32_t)(now - not_before) >= 0
Ready(i) == queue[i] # NoItem /\ 2 * Since(queue[i].not_before) < CLOCK

ReadySlots == {i \in Slots : Ready(i)}

\* Mutant of InGap: breaks when millis() wraps.
InGapUnwrapped == gLastRxMs # 0 /\ now < gLastRxMs + GAP_MS

InGap == gLastRxMs # 0 /\ Since(gLastRxMs) < GAP_MS

MayTransmit == aux = "HIGH" /\ ~InGap /\ ReadySlots # {}

\* Mutant of GuardExpired: breaks when millis() wraps.
GuardExpiredUnwrapped == now > started + GUARD_MS

\* The time is over after which txPoll stops waiting for the AUX pulse.
GuardExpired == Since(started) > GUARD_MS

PollIdle ==
    /\ txState = "TX_IDLE"
    /\ ~MayTransmit
    /\ UNCHANGED <<queue, txState, started, auxLowSeen, txOk, txDrop>>

PollWrite ==
    /\ txState = "TX_IDLE"
    /\ MayTransmit
    /\ queue' = Removed(queue, Pick(queue, ReadySlots))
    /\ txState' = "TX_WAIT_DONE"
    /\ started' = now
    /\ auxLowSeen' = FALSE
    /\ UNCHANGED <<txOk, txDrop>>

BackToIdle ==
    /\ txState' = "TX_IDLE"
    /\ started' = 0
    /\ auxLowSeen' = FALSE

\* AUX is back up after it was seen down.
PollDone ==
    /\ txState = "TX_WAIT_DONE"
    /\ aux = "HIGH" /\ auxLowSeen
    /\ BackToIdle
    /\ txOk' = txOk + 1
    /\ UNCHANGED <<queue, txDrop>>

\* No pulse yet: remember a low level, give up when the guard has expired.
PollWaiting ==
    /\ txState = "TX_WAIT_DONE"
    /\ ~(aux = "HIGH" /\ auxLowSeen)
    /\ \/ /\ GuardExpired
          /\ BackToIdle
          /\ txDrop' = txDrop + 1
       \/ /\ ~GuardExpired
          /\ auxLowSeen' = (auxLowSeen \/ aux = "LOW")
          /\ UNCHANGED <<txState, started, txDrop>>
    /\ UNCHANGED <<queue, txOk>>

\* The second half of the pass reads the UART, here until it is empty: the code
\* stops after 256 bytes, which take 267 ms to arrive at 9600 baud.
ReadUart ==
    /\ gLastRxMs' = IF uart THEN now ELSE gLastRxMs
    /\ uart' = FALSE

Later(n, d) == IF n > d THEN n - d ELSE 0

Elapse(d) ==
    /\ now' = (now + d) % CLOCK
    /\ due' = [i \in Slots |-> Later(due[i], d)]
    /\ quiet' = IF quiet + d < GAP_MS THEN quiet + d ELSE GAP_MS

LoopPass(d) ==
    /\ PollIdle \/ PollWrite \/ PollDone \/ PollWaiting
    /\ ReadUart
    /\ Elapse(d)
    /\ UNCHANGED <<fwdDrop, aux, attempts, bytes>>

----------------------------------------------------------------------------
(* The environment                                                         *)

\* The module drives the pin as it likes: pulses may be missed, or never come.
AuxChange ==
    /\ aux' \in Levels \ {aux}
    /\ UNCHANGED <<txVars, rxVars, now, attempts, bytes, due>>

\* A byte of a received frame arrives while the loop is busy elsewhere.
RxByte ==
    /\ bytes < MaxBytes
    /\ bytes' = bytes + 1
    /\ uart' = TRUE
    /\ quiet' = 0
    /\ UNCHANGED <<txVars, gLastRxMs, now, aux, attempts, due>>

Next ==
    \/ \E f \in Frames : Enqueue(f)
    \/ \E d \in 1 .. MAX_PASS : LoopPass(d)
    \/ AuxChange
    \/ RxByte

Spec == Init /\ [][Next]_vars

\* The main loop never stops: the watchdog resets the device if it does.
FairSpec == Spec /\ WF_vars(\E d \in 1 .. MAX_PASS : LoopPass(d))

----------------------------------------------------------------------------
(* Properties                                                              *)

\* Every variable keeps to its range; all times are readings of millis().
TypeOK ==
    /\ queue \in [Slots -> TxItems \cup {NoItem}]
    /\ txState \in {"TX_IDLE", "TX_WAIT_DONE"}
    /\ started \in Times
    /\ auxLowSeen \in BOOLEAN
    /\ txOk \in Nat /\ txDrop \in Nat /\ fwdDrop \in Nat
    /\ gLastRxMs \in Times
    /\ now \in Times
    /\ aux \in Levels
    /\ uart \in BOOLEAN
    /\ attempts \in 0 .. MaxAttempts
    /\ bytes \in 0 .. MaxBytes
    /\ due \in [Slots -> Nat]
    /\ quiet \in 0 .. GAP_MS

InFlight == IF txState = "TX_WAIT_DONE" THEN 1 ELSE 0

\* No frame handed to txEnqueue is ever lost without being counted, nor counted
\* twice: each one is queued, in flight, in tx_ok or in tx_drop, through
\* evictions, refusals, missed pulses and guard timeouts.
EveryFrameCounted ==
    attempts = txOk + txDrop + Cardinality(UsedSlots(queue)) + InFlight

\* A forwarded frame is never put on the air before its jitter is over, on
\* either side of the turn of millis().
NeverBeforeItsTime ==
    [][txState = "TX_IDLE" /\ txState' = "TX_WAIT_DONE"
       => \E i \in Slots : queue[i] # NoItem /\ queue'[i] = NoItem /\ due[i] = 0]_vars

\* A full queue never gives up urgency for a less urgent frame: after txEnqueue
\* there are at least as many frames of each level of urgency, or above, as before.
AtLeastAsUrgent(q, p) == Cardinality({i \in UsedSlots(q) : q[i].prio <= p})

EnqueueKeepsUrgent ==
    [][attempts' # attempts
       => \A p \in TxPrio : AtLeastAsUrgent(queue', p) >= AtLeastAsUrgent(queue, p)]_vars

\* txPoll never waits for ever for the AUX pulse, whatever the pin does and
\* wherever the clock wraps (the guard timeout).
WaitEnds == txState = "TX_WAIT_DONE" ~> txState = "TX_IDLE"

\* Once the pin stays high and nothing more is received, the queue drains,
\* although no AUX pulse is ever seen again.
QueueDrains ==
    <>[](aux = "HIGH" /\ ~uart) => <>[](queue = EmptyQueue /\ txState = "TX_IDLE")

\* REPORT.md:106: a pause after the last byte received, before transmitting.
PauseAfterLastByte ==
    [][txState = "TX_IDLE" /\ txState' = "TX_WAIT_DONE" => quiet >= GAP_MS]_vars
=============================================================================
