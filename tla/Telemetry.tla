----------------------------- MODULE Telemetry -----------------------------
(***************************************************************************)
(* A station and BASE: the reports of NodeReports cross the radio, which   *)
(* loses frames, and reach the heartbeat and the topics of Availability,   *)
(* while either side restarts, WiFi and the broker come and go, and the    *)
(* user switches the relay.                                                *)
(***************************************************************************)
EXTENDS Integers

CONSTANTS
    Values, SENSOR_INTERVAL, REPORT_JITTER,
    FIRST_REPORT_MIN_MS, FIRST_REPORT_MAX_MS, POST_CMD_REPORT_DELAY_MS,
    HEARTBEAT_CHECK_INTERVAL, HEARTBEAT_OFFLINE_TIMEOUT,
    WIFI_RESTART_TIMEOUT, CLOCK, Nothing

\* An interval of reports, stretched by its jitter and by the wait for the
\* next pass, is shorter than the timeout, and that than a turn of the clock.
ASSUME TelemetryAssumption ==
    /\ REPORT_JITTER \in Nat \ {0}
    /\ SENSOR_INTERVAL \in Nat /\ REPORT_JITTER < SENSOR_INTERVAL
    /\ FIRST_REPORT_MIN_MS \in Nat /\ FIRST_REPORT_MAX_MS \in Nat
    /\ FIRST_REPORT_MIN_MS < FIRST_REPORT_MAX_MS
    /\ FIRST_REPORT_MAX_MS <= SENSOR_INTERVAL
    /\ POST_CMD_REPORT_DELAY_MS \in Nat
    /\ HEARTBEAT_CHECK_INTERVAL \in Nat \ {0}
    /\ HEARTBEAT_OFFLINE_TIMEOUT \in Nat
    /\ SENSOR_INTERVAL + REPORT_JITTER <= HEARTBEAT_OFFLINE_TIMEOUT
    /\ WIFI_RESTART_TIMEOUT \in Nat
    /\ CLOCK \in Nat
    /\ HEARTBEAT_OFFLINE_TIMEOUT + HEARTBEAT_CHECK_INTERVAL < CLOCK
    /\ Nothing \notin Values

VARIABLES
    powered, relay, nextReport, deferred, outbox, sinceReport,
    silence, everSeen, isOnline, sinceCheck, wifi, outage, link,
    onlineTopic, relayTopic, refused,
    missed      \* a frame was lost or the node restarted since BASE heard it

nodeVars == <<powered, relay, nextReport, deferred, outbox,
              sinceReport>>
baseVars == <<silence, everSeen, isOnline, sinceCheck, wifi, outage, link,
              onlineTopic, relayTopic, refused>>
vars == <<nodeVars, baseVars, missed>>

Node == INSTANCE NodeReports
        WITH powered <- powered, relay <- relay, nextReport <- nextReport,
             deferred <- deferred, outbox <- outbox,
             sinceReport <- sinceReport
Base == INSTANCE Availability
        WITH silence <- silence, everSeen <- everSeen, isOnline <- isOnline,
             sinceCheck <- sinceCheck, wifi <- wifi, outage <- outage,
             link <- link, onlineTopic <- onlineTopic,
             relayTopic <- relayTopic, refused <- refused

Init ==
    /\ Node!NodeInit
    /\ Base!BaseInit
    /\ missed = FALSE

----------------------------------------------------------------------------
\* BASE hears the frame, directly or through the repeater.
Heard(f) ==
    /\ Node!Leaves(f)
    /\ IF f.type = "data" THEN Base!HandleData(f.relay)
       ELSE Base!HandleAck(f.relay)
    /\ missed' = FALSE

Lost(f) ==
    /\ Node!Leaves(f)
    /\ missed' = TRUE
    /\ UNCHANGED baseVars

Send == \E f \in Node!Frames : Heard(f) \/ Lost(f)

Report == Node!SensorLoop /\ UNCHANGED <<baseVars, missed>>

\* A command of BASE reaches the node.
Command(v) ==
    /\ Node!Execute(v)
    /\ UNCHANGED <<baseVars, missed>>

NodeFault ==
    /\ Node!PowerOff \/ Node!PowerOn \/ Node!Restart
    /\ missed' = TRUE
    /\ UNCHANGED baseVars

\* What baseLoop() does when it is time for it.
BaseDue ==
    /\ Base!CheckHeartbeat \/ Base!WifiRestart
    /\ UNCHANGED <<nodeVars, missed>>

\* WiFi and the session come back.
BaseRecovery ==
    /\ Base!WifiUp \/ Base!Connect \/ Base!LossNoticed
    /\ UNCHANGED <<nodeVars, missed>>

BaseFault ==
    /\ \/ Base!WifiDown \/ Base!LinkLost \/ Base!BrokerRestart
       \/ Base!HaOnline \/ Base!BaseReboot
    /\ UNCHANGED <<nodeVars, missed>>

\* What comes from outside: commands, faults, and Home Assistant.
Disturbance == (\E v \in Values : Command(v)) \/ NodeFault \/ BaseFault

Tick ==
    /\ Node!NodeTick
    /\ Base!BaseTick
    /\ UNCHANGED missed

Next ==
    \/ Send
    \/ Report
    \/ \E v \in Values : Command(v)
    \/ NodeFault
    \/ BaseDue
    \/ BaseRecovery
    \/ BaseFault
    \/ Tick

Spec == Init /\ [][Next]_vars

\* The loops of both devices and their transmitters never stop.
Loops == Send \/ Report \/ BaseDue \/ Tick

\* A report is heard and publish() takes its relay.
Shown(v) == Heard(Node!Data(v)) /\ relayTopic' = v

\* WiFi and the broker come back, and neither does the radio lose every report
\* nor publish() refuse every one for ever.
FairSpec ==
    /\ Spec
    /\ WF_vars(Loops)
    /\ WF_vars(BaseRecovery)
    /\ SF_vars(\E v \in Values : Shown(v))

----------------------------------------------------------------------------
(* Properties                                                              *)

TypeOK ==
    /\ Node!NodeTypeOK
    /\ Base!BaseTypeOK
    /\ missed \in BOOLEAN

\* loraCheckHeartbeat() takes a station for offline only after
\* HEARTBEAT_OFFLINE_TIMEOUT without a frame of it, whatever restarts and
\* reconnects came between.
OfflineMeansSilent ==
    everSeen /\ ~isOnline => silence >= HEARTBEAT_OFFLINE_TIMEOUT

\* A silent station is noticed one check after the timeout at the latest, for
\* a turn of the clock: then loraCheckHeartbeat() finds it online again.
SilentIsOffline ==
    /\ silence >= HEARTBEAT_OFFLINE_TIMEOUT + HEARTBEAT_CHECK_INTERVAL
    /\ silence < CLOCK
    => ~isOnline

\* A station that runs, and whose frames all arrive, is never taken for
\* offline: no command, and no burst of commands, keeps it from reporting.
NoFalseAlarm ==
    everSeen /\ ~missed => isOnline

\* While the node runs, reports are never further apart than a stretched
\* interval, however fast commands postpone the deferred one.
ReportsKeepComing ==
    sinceReport < SENSOR_INTERVAL + REPORT_JITTER

\* In a live session the broker retains what BASE believes, although "online"
\* is published on transitions only and past the queue, unless publish() failed
\* for the last state BASE announced: through outages, restarts and a broker
\* that forgets, no change of that state, and no new session, goes unannounced.
TopicTellsBelief ==
    link = "up" /\ everSeen /\ ~refused => onlineTopic = Base!State(isOnline)

\* The outside leaves the system alone from some time on.
Settles == <>[][~Disturbance]_vars

\* Whatever order ACKs and reports arrived in, once commands and faults end
\* the relay's topic comes to show the relay and stays so.
RelayShown ==
    Settles /\ <>[]powered => <>[](relayTopic = relay)

\* A station that runs is shown online again and again, for good unless more
\* of its frames are lost, although BASE announces that on transitions only.
\* Nothing but a failed publish() keeps it from being shown.
LivingShownOnline ==
    Settles /\ <>[]powered => []<>(onlineTopic = "1" \/ refused)

\* README.md:77-79: stale telemetry is hidden when a node is offline, which
\* takes its online topic.  Violated: the retained "1" of a node that died
\* before a restart of BASE is never taken back, as BASE has not seen it.
DeadShownOffline ==
    Settles /\ <>[]~powered => []<>(onlineTopic # "1" \/ refused)
=============================================================================
