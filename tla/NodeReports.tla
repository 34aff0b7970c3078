---------------------------- MODULE NodeReports ----------------------------
(***************************************************************************)
(* When a node reports: the timers of sensor_manager.cpp and the reports   *)
(* and ACKs it hands to its transmit queue.  Time is counted in ticks, and *)
(* a timer is the time that is left to it: what the code computes as the   *)
(* signed difference of two readings of millis().                          *)
(***************************************************************************)
EXTENDS Integers

CONSTANTS
    Values,                     \* states of a relay
    SENSOR_INTERVAL,
    REPORT_JITTER,              \* a tenth of SENSOR_INTERVAL
    FIRST_REPORT_MIN_MS, FIRST_REPORT_MAX_MS,
    POST_CMD_REPORT_DELAY_MS

VARIABLES
    powered,
    relay,          \* relayShadow of one relay
    nextReport,     \* nextReportAt - millis()
    deferred,       \* deferredReportAt - millis(), or NotPending
    outbox,         \* frames in the transmit queue
    sinceReport     \* time since the last report, or since the boot

nodeVars == <<powered, relay, nextReport, deferred, outbox,
              sinceReport>>

NotPending == -1

\* A report carries the relay, an ACK the state it reports.
Frames == [type : {"data", "ack"}, relay : Values]
Data(v) == [type |-> "data", relay |-> v]
Ack(v)  == [type |-> "ack", relay |-> v]

\* Mutant of Intervals: the jitter is added to a whole interval only.
IntervalsUpward == SENSOR_INTERVAL .. SENSOR_INTERVAL + 2 * REPORT_JITTER - 1

\* jitteredInterval()
Intervals ==
    SENSOR_INTERVAL - REPORT_JITTER .. SENSOR_INTERVAL + REPORT_JITTER - 1

FirstReports == FIRST_REPORT_MIN_MS .. FIRST_REPORT_MAX_MS - 1

\* sensorInit() after setup(): relaysInit() has restored the relay.
Booted ==
    /\ powered' = TRUE
    /\ nextReport' \in FirstReports
    /\ deferred' = NotPending
    /\ outbox' = {}
    /\ sinceReport' = 0

NodeInit ==
    /\ powered = TRUE
    /\ relay \in Values
    /\ nextReport \in FirstReports
    /\ deferred = NotPending
    /\ outbox = {}
    /\ sinceReport = 0

----------------------------------------------------------------------------
DeferredDue == powered /\ deferred = 0
PeriodicDue == powered /\ nextReport = 0

\* Mutant of PeriodicAfterCommand: every command starts the interval over.
PeriodicPostponed == SENSOR_INTERVAL

\* scheduleReport() leaves the periodic report alone.
PeriodicAfterCommand == nextReport

\* loraNodeHandlePacket() with a good command: relaySet(), sendAck(),
\* scheduleReport(), which also postpones a deferred report that waits.
Execute(v) ==
    /\ powered
    /\ relay' = v
    /\ outbox' = outbox \cup {Ack(v)}
    /\ deferred' = POST_CMD_REPORT_DELAY_MS
    /\ nextReport' = PeriodicAfterCommand
    /\ UNCHANGED <<powered, sinceReport>>

\* sensorLoop(): a deferred report comes first and moves the periodic one, so
\* that one pass sends one report.  It shows the relay as it is now.
SensorLoop ==
    /\ \/ DeferredDue /\ deferred' = NotPending
       \/ ~DeferredDue /\ PeriodicDue /\ UNCHANGED deferred
    /\ outbox' = outbox \cup {Data(relay)}
    /\ nextReport' \in Intervals
    /\ sinceReport' = 0
    /\ UNCHANGED <<powered, relay>>

\* txPoll(): a frame leaves, ACKs before reports.
Leaves(f) ==
    /\ f \in outbox
    /\ f.type = "data" => \A g \in outbox : g.type = "data"
    /\ outbox' = outbox \ {f}
    /\ UNCHANGED <<powered, relay, nextReport, deferred, sinceReport>>

PowerOff ==
    /\ powered
    /\ powered' = FALSE
    /\ nextReport' = 0
    /\ deferred' = NotPending
    /\ outbox' = {}
    /\ sinceReport' = 0
    /\ UNCHANGED relay

PowerOn == ~powered /\ Booted /\ UNCHANGED relay

\* A reset by the watchdog.
Restart == powered /\ Booted /\ UNCHANGED relay

\* A tick passes when the loop has served what is due and the queue is empty.
NodeTick ==
    /\ ~DeferredDue /\ ~PeriodicDue /\ outbox = {}
    /\ nextReport' = IF powered THEN nextReport - 1 ELSE nextReport
    /\ deferred' = IF deferred = NotPending THEN NotPending ELSE deferred - 1
    /\ sinceReport' = IF powered THEN sinceReport + 1 ELSE 0
    /\ UNCHANGED <<powered, relay, outbox>>

NodeTypeOK ==
    /\ powered \in BOOLEAN
    /\ relay \in Values
    /\ nextReport \in 0 .. SENSOR_INTERVAL + REPORT_JITTER - 1
    /\ deferred \in NotPending .. POST_CMD_REPORT_DELAY_MS
    /\ outbox \subseteq Frames
    /\ sinceReport \in Nat
=============================================================================
