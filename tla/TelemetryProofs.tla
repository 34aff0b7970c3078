--------------------------- MODULE TelemetryProofs ---------------------------
(***************************************************************************)
(* The safety properties of Telemetry, for all intervals and timeouts that *)
(* satisfy TelemetryAssumption and any number of faults.                   *)
(***************************************************************************)
EXTENDS Telemetry, TLAPS

USE DEF Node!NotPending

\* A remainder on the wrapping clock: what does not exceed a turn is itself,
\* and nothing grows.
LEMMA Remainder ==
    ASSUME NEW t \in Nat
    PROVE  /\ t % CLOCK \in Nat
           /\ t % CLOCK <= t
           /\ t < CLOCK => t % CLOCK = t
BY TelemetryAssumption

\* The frames a node queues.
LEMMA FramesType ==
    /\ \A v \in Values : Node!Data(v) \in Node!Frames /\ Node!Ack(v) \in Node!Frames
    /\ \A f \in Node!Frames : f.relay \in Values
BY DEF Node!Frames, Node!Data, Node!Ack

----------------------------------------------------------------------------
(* The node                                                                *)

\* A node without power has nothing queued and no report pending.
NodeInv ==
    /\ Node!NodeTypeOK
    /\ ~powered => deferred = Node!NotPending /\ outbox = {}

LEMMA NodeInitType == Node!NodeInit => NodeInv
BY TelemetryAssumption
   DEF Node!NodeInit, NodeInv, Node!NodeTypeOK, Node!FirstReports

LEMMA ExecuteType ==
    ASSUME NodeInv, NEW v \in Values, Node!Execute(v)
    PROVE  NodeInv'
BY TelemetryAssumption, FramesType
   DEF NodeInv, Node!NodeTypeOK, Node!Execute, Node!PeriodicAfterCommand

LEMMA SensorLoopType ==
    ASSUME NodeInv, Node!SensorLoop
    PROVE  NodeInv'
BY TelemetryAssumption, FramesType
   DEF NodeInv, Node!NodeTypeOK, Node!SensorLoop, Node!Intervals,
       Node!DeferredDue, Node!PeriodicDue

LEMMA LeavesType ==
    ASSUME NodeInv, NEW f \in Node!Frames, Node!Leaves(f)
    PROVE  NodeInv'
BY DEF NodeInv, Node!NodeTypeOK, Node!Leaves

LEMMA NodeFaultType ==
    ASSUME NodeInv, Node!PowerOff \/ Node!PowerOn \/ Node!Restart
    PROVE  NodeInv'
<1>1. CASE Node!PowerOff
  <2>1. /\ nextReport' \in 0 .. SENSOR_INTERVAL + REPORT_JITTER - 1
        /\ deferred' \in Node!NotPending .. POST_CMD_REPORT_DELAY_MS
        /\ sinceReport' \in Nat
    BY <1>1, TelemetryAssumption DEF Node!PowerOff
  <2> QED
    BY <1>1, <2>1, Zenon DEF NodeInv, Node!NodeTypeOK, Node!PowerOff
<1>2. CASE Node!Booted /\ UNCHANGED relay
  <2>1. powered' = TRUE
    BY <1>2 DEF Node!Booted
  <2>2. nextReport' \in 0 .. SENSOR_INTERVAL + REPORT_JITTER - 1
    BY <1>2, TelemetryAssumption DEF Node!Booted, Node!FirstReports
  <2>3. deferred' \in Node!NotPending .. POST_CMD_REPORT_DELAY_MS
    BY <1>2, TelemetryAssumption DEF Node!Booted
  <2> QED
    BY <1>2, <2>1, <2>2, <2>3 DEF NodeInv, Node!NodeTypeOK, Node!Booted
<1> QED
  BY <1>1, <1>2 DEF Node!PowerOn, Node!Restart

LEMMA NodeTickType ==
    ASSUME NodeInv, Node!NodeTick
    PROVE  NodeInv'
BY TelemetryAssumption
   DEF NodeInv, Node!NodeTypeOK, Node!NodeTick, Node!DeferredDue, Node!PeriodicDue

----------------------------------------------------------------------------
(* BASE                                                                    *)

\* The type of BASE's variables in three parts: the timers, what it knows of
\* the station and of its links, and what the broker retains.
TimersOK ==
    /\ silence \in 0 .. 2 * CLOCK - 1
    /\ sinceCheck \in 0 .. HEARTBEAT_CHECK_INTERVAL
    /\ outage \in 0 .. WIFI_RESTART_TIMEOUT + 1

FlagsOK ==
    /\ everSeen \in BOOLEAN /\ isOnline \in BOOLEAN /\ wifi \in BOOLEAN
    /\ isOnline => everSeen
    /\ link \in {"down", "up", "dead"}
    /\ link = "up" => wifi
    /\ refused \in BOOLEAN
    /\ refused => link = "up"

TopicsOK ==
    /\ onlineTopic \in {"0", "1", Nothing}
    /\ relayTopic \in Values \cup {Nothing}

LEMMA BaseParts == Base!BaseTypeOK <=> TimersOK /\ FlagsOK /\ TopicsOK
BY DEF Base!BaseTypeOK, TimersOK, FlagsOK, TopicsOK

LEMMA BaseInitType == Base!BaseInit => Base!BaseTypeOK
<1> SUFFICES ASSUME Base!BaseInit PROVE TimersOK /\ FlagsOK /\ TopicsOK
  BY BaseParts
<1>1. TimersOK
  BY TelemetryAssumption DEF Base!BaseInit, TimersOK
<1> QED
  BY <1>1 DEF Base!BaseInit, FlagsOK, TopicsOK

\* What mqttPublish() leaves behind is the old value or the new one.
LEMMA OutcomesEither ==
    \A l, topic, value : Base!Outcomes(l, topic, value) \subseteq {topic, value}
BY DEF Base!Outcomes

\* An announcement leaves the topic as it was or at a state, and is refused
\* in a live session only.
LEMMA AnnounceType ==
    ASSUME NEW l, NEW online,
           \/ Base!Announce(l, Base!State(online))
           \/ Base!Silent
    PROVE  /\ onlineTopic' \in {onlineTopic, "0", "1"}
           /\ refused' \in {refused, TRUE, FALSE}
           /\ refused' => refused \/ l = "up"
<1>1. CASE Base!Announce(l, Base!State(online))
  <2>1. onlineTopic' \in {onlineTopic, Base!State(online)}
    BY <1>1, OutcomesEither DEF Base!Announce
  <2>2. Base!State(online) \in {"0", "1"}
    BY DEF Base!State
  <2>3. refused' \in {TRUE, FALSE} /\ (refused' => l = "up")
    BY <1>1, Zenon DEF Base!Announce
  <2> QED
    BY <2>1, <2>2, <2>3, Zenon
<1>2. CASE Base!Silent
  BY <1>2, Zenon DEF Base!Silent
<1> QED
  BY <1>1, <1>2

\* In a live session the state arrives, or is refused.
LEMMA AnnounceTold ==
    ASSUME NEW l, NEW online, l = "up", Base!Announce(l, Base!State(online))
    PROVE  refused' \/ onlineTopic' = Base!State(online)
BY DEF Base!Announce

LEMMA HandleFrameType ==
    ASSUME Base!BaseTypeOK, NEW v \in Values,
           Base!HandleData(v) \/ Base!HandleAck(v)
    PROVE  Base!BaseTypeOK'
<1>0. TimersOK /\ FlagsOK /\ TopicsOK
  BY BaseParts
<1>1. Base!UpdateNodeSeen /\ UNCHANGED <<sinceCheck, wifi, outage, link>>
  BY DEF Base!HandleData, Base!HandleAck
<1>2. TimersOK'
  BY <1>0, <1>1, TelemetryAssumption DEF TimersOK, Base!UpdateNodeSeen
<1>3. /\ onlineTopic' \in {onlineTopic, "0", "1"}
      /\ refused' \in {refused, TRUE, FALSE}
      /\ refused' => refused \/ link = "up"
  <2>1. PICK online : Base!Announce(link, Base!State(online)) \/ Base!Silent
    BY <1>1 DEF Base!UpdateNodeSeen
  <2> QED
    BY <2>1, AnnounceType, Zenon
<1>4. FlagsOK'
  BY <1>0, <1>1, <1>3 DEF FlagsOK, Base!UpdateNodeSeen
<1>5. TopicsOK'
  <2>1. relayTopic' \in {relayTopic, v}
    BY OutcomesEither DEF Base!HandleData, Base!HandleAck, Base!RelayState
  <2> QED
    BY <1>0, <1>3, <2>1 DEF TopicsOK
<1> QED
  BY <1>2, <1>4, <1>5 DEF Base!BaseTypeOK, TimersOK, FlagsOK, TopicsOK

LEMMA BaseRebootType ==
    ASSUME Base!BaseTypeOK, Base!BaseReboot
    PROVE  Base!BaseTypeOK'
<1>0. TimersOK /\ FlagsOK /\ TopicsOK
  BY BaseParts
<1>1. TimersOK'
  BY <1>0, TelemetryAssumption DEF TimersOK, Base!BaseReboot
<1>2. FlagsOK' /\ TopicsOK'
  BY <1>0 DEF FlagsOK, TopicsOK, Base!BaseReboot, Base!LoraBaseInit
<1> QED
  BY <1>1, <1>2 DEF Base!BaseTypeOK, TimersOK, FlagsOK, TopicsOK

LEMMA CheckHeartbeatType ==
    ASSUME Base!BaseTypeOK, Base!CheckHeartbeat
    PROVE  Base!BaseTypeOK'
<1>0. TimersOK /\ FlagsOK /\ TopicsOK
  BY BaseParts
<1>1. TimersOK'
  BY <1>0, TelemetryAssumption DEF TimersOK, Base!CheckHeartbeat
<1>2. Base!RecentlySeen \in BOOLEAN
  BY DEF Base!RecentlySeen
<1>3. /\ onlineTopic' \in {onlineTopic, "0", "1"}
      /\ refused' \in {refused, TRUE, FALSE}
      /\ refused' => refused \/ link = "up"
  <2>1. PICK online : Base!Announce(link, Base!State(online)) \/ Base!Silent
    BY Zenon DEF Base!CheckHeartbeat
  <2> QED
    BY <2>1, AnnounceType, Zenon
<1>4. FlagsOK'
  BY <1>0, <1>2, <1>3 DEF FlagsOK, Base!CheckHeartbeat, Base!NowOnline
<1>5. TopicsOK'
  BY <1>0, <1>3 DEF TopicsOK, Base!CheckHeartbeat
<1> QED
  BY <1>1, <1>4, <1>5 DEF Base!BaseTypeOK, TimersOK, FlagsOK, TopicsOK

LEMMA BaseLinkType ==
    ASSUME Base!BaseTypeOK,
           \/ Base!WifiUp \/ Base!Connect \/ Base!LossNoticed
           \/ Base!WifiDown \/ Base!LinkLost \/ Base!BrokerRestart \/ Base!HaOnline
    PROVE  Base!BaseTypeOK'
<1>0. TimersOK /\ FlagsOK /\ TopicsOK
  BY BaseParts
<1>1. UNCHANGED <<silence, everSeen, isOnline, sinceCheck>>
  BY DEF Base!WifiUp, Base!Connect, Base!LossNoticed, Base!WifiDown,
         Base!LinkLost, Base!BrokerRestart, Base!HaOnline
<1>2. outage' \in {outage, 0}
  BY DEF Base!WifiUp, Base!Connect, Base!LossNoticed, Base!WifiDown,
         Base!LinkLost, Base!BrokerRestart, Base!HaOnline
<1>3. TimersOK'
  BY <1>0, <1>1, <1>2, TelemetryAssumption DEF TimersOK
<1>4. CASE Base!Connect \/ Base!HaOnline
  <2>1. /\ onlineTopic' \in {onlineTopic, "0", "1"}
        /\ refused' \in {refused, TRUE, FALSE}
    <3>1. PICK online : Base!Announce("up", Base!State(online)) \/ Base!Silent
      BY <1>4 DEF Base!Connect, Base!HaOnline, Base!Republish
    <3> QED
      BY <3>1, AnnounceType, Zenon
  <2>2. link' = "up" /\ UNCHANGED <<wifi, relayTopic>>
    BY <1>4 DEF Base!Connect, Base!HaOnline
  <2>3. wifi
    BY <1>0, <1>4 DEF FlagsOK, Base!Connect, Base!HaOnline
  <2>4. FlagsOK' /\ TopicsOK'
    BY <1>0, <1>1, <2>1, <2>2, <2>3 DEF FlagsOK, TopicsOK
  <2> QED
    BY <1>3, <2>4 DEF Base!BaseTypeOK, TimersOK, FlagsOK, TopicsOK
<1>5. CASE \/ Base!WifiUp \/ Base!LossNoticed
           \/ Base!WifiDown \/ Base!LinkLost \/ Base!BrokerRestart
  <2>1. FlagsOK'
    <3>1. CASE Base!WifiUp
      <4>1. wifi' = TRUE /\ link' = link /\ refused' = refused
        BY <3>1 DEF Base!WifiUp
      <4> QED
        BY <1>0, <1>1, <4>1 DEF FlagsOK
    <3>2. CASE Base!LossNoticed
      <4>1. /\ wifi' = wifi /\ link' = "down" /\ refused' = refused
            /\ ~refused
        BY <1>0, <3>2 DEF FlagsOK, Base!LossNoticed
      <4> QED
        BY <1>0, <1>1, <4>1 DEF FlagsOK
    <3>3. CASE Base!Break /\ wifi' \in BOOLEAN
      <4>1. link' \in {"down", "dead"} /\ refused' = FALSE
        BY <1>0, <3>3 DEF FlagsOK, Base!Break
      <4> QED
        BY <1>0, <1>1, <3>3, <4>1 DEF FlagsOK
    <3>4. wifi \in BOOLEAN
      BY <1>0 DEF FlagsOK
    <3> QED
      BY <1>5, <3>1, <3>2, <3>3, <3>4
         DEF Base!WifiDown, Base!LinkLost, Base!BrokerRestart
  <2>2. TopicsOK'
    BY <1>0, <1>5
       DEF TopicsOK, Base!WifiUp, Base!LossNoticed, Base!WifiDown,
           Base!LinkLost, Base!BrokerRestart
  <2> QED
    BY <1>3, <2>1, <2>2 DEF Base!BaseTypeOK, TimersOK, FlagsOK, TopicsOK
<1> QED
  BY <1>4, <1>5

LEMMA BaseTickType ==
    ASSUME Base!BaseTypeOK, Base!BaseTick
    PROVE  Base!BaseTypeOK'
<1>0. TimersOK /\ FlagsOK /\ TopicsOK
  BY BaseParts
<1>1. silence' \in 0 .. 2 * CLOCK - 1
  BY <1>0, TelemetryAssumption DEF TimersOK, Base!BaseTick, Base!Passed
<1>2. sinceCheck' \in 0 .. HEARTBEAT_CHECK_INTERVAL
  BY <1>0, TelemetryAssumption DEF TimersOK, Base!BaseTick, Base!CheckDue
<1>3. outage' \in 0 .. WIFI_RESTART_TIMEOUT + 1
  BY <1>0, TelemetryAssumption DEF TimersOK, Base!BaseTick, Base!RestartDue
<1>4. FlagsOK' /\ TopicsOK'
  BY <1>0 DEF FlagsOK, TopicsOK, Base!BaseTick
<1> QED
  BY <1>1, <1>2, <1>3, <1>4 DEF Base!BaseTypeOK, TimersOK, FlagsOK, TopicsOK

----------------------------------------------------------------------------
(* Type correctness of the composition                                     *)

TypeInv == NodeInv /\ Base!BaseTypeOK /\ missed \in BOOLEAN

LEMMA InitType == Init => TypeInv
BY NodeInitType, BaseInitType DEF Init, TypeInv

LEMMA SendType ==
    ASSUME TypeInv, NEW f \in Node!Frames, Heard(f) \/ Lost(f)
    PROVE  TypeInv'
<1>1. NodeInv'
  BY LeavesType DEF TypeInv, Heard, Lost
<1>2. CASE Heard(f)
  <2>1. Base!HandleData(f.relay) \/ Base!HandleAck(f.relay)
    BY <1>2 DEF Heard
  <2>2. Base!BaseTypeOK'
    BY <2>1, FramesType, HandleFrameType DEF TypeInv
  <2> QED
    BY <1>1, <1>2, <2>2 DEF TypeInv, Heard
<1>3. CASE Lost(f)
  BY <1>1, <1>3 DEF TypeInv, Lost, baseVars, Base!BaseTypeOK
<1> QED
  BY <1>2, <1>3

\* Steps of the node alone, and of BASE alone.
LEMMA NodeStepType ==
    ASSUME TypeInv, NodeInv', UNCHANGED baseVars, missed' \in BOOLEAN
    PROVE  TypeInv'
BY DEF TypeInv, baseVars, Base!BaseTypeOK

LEMMA BaseStepType ==
    ASSUME TypeInv, Base!BaseTypeOK', UNCHANGED <<nodeVars, missed>>
    PROVE  TypeInv'
BY DEF TypeInv, nodeVars, NodeInv, Node!NodeTypeOK

LEMMA NextType == TypeInv /\ [Next]_vars => TypeInv'
<1> SUFFICES ASSUME TypeInv, [Next]_vars PROVE TypeInv'
  OBVIOUS
<1>1. CASE Send
  BY <1>1, SendType DEF Send
<1>2. CASE Report
  BY <1>2, SensorLoopType, NodeStepType DEF TypeInv, Report
<1>3. ASSUME NEW v \in Values, Command(v) PROVE TypeInv'
  BY <1>3, ExecuteType, NodeStepType DEF TypeInv, Command
<1>4. CASE NodeFault
  BY <1>4, NodeFaultType, NodeStepType DEF TypeInv, NodeFault
<1>5. CASE BaseDue
  BY <1>5, CheckHeartbeatType, BaseRebootType, BaseStepType
     DEF TypeInv, BaseDue, Base!WifiRestart
<1>6. CASE BaseRecovery
  BY <1>6, BaseLinkType, BaseStepType DEF TypeInv, BaseRecovery
<1>7. CASE BaseFault
  BY <1>7, BaseLinkType, BaseRebootType, BaseStepType DEF TypeInv, BaseFault
<1>8. CASE Tick
  BY <1>8, NodeTickType, BaseTickType DEF TypeInv, Tick
<1>9. CASE UNCHANGED vars
  BY <1>9, BaseStepType DEF TypeInv, vars, baseVars, Base!BaseTypeOK
<1> QED
  BY <1>1, <1>2, <1>3, <1>4, <1>5, <1>6, <1>7, <1>8, <1>9 DEF Next

LEMMA TypeHolds == Spec => []TypeInv
<1> QED
  BY InitType, NextType, PTL DEF Spec

\* Every variable of a node and of BASE keeps to its range: no timer runs below
\* zero or past its interval, however commands, restarts and outages interleave.
THEOREM TypeCorrect == Spec => []TypeOK
<1>1. TypeInv => TypeOK
  BY DEF TypeInv, NodeInv, TypeOK
<1> QED
  BY <1>1, TypeHolds, PTL

----------------------------------------------------------------------------
(* What BASE does at each step, as far as the heartbeat depends on it      *)

\* A frame of the station arrives.
FrameHeard ==
    /\ Base!UpdateNodeSeen
    /\ UNCHANGED <<sinceCheck, link>>

\* Nothing BASE knows of the station changes, or it forgets all.
BeliefKept == UNCHANGED <<silence, everSeen, isOnline, sinceCheck>>

BeliefLost == everSeen' = FALSE /\ UNCHANGED silence

LEMMA BeliefSteps ==
    ASSUME [Next]_vars
    PROVE  \/ FrameHeard
           \/ BeliefKept
           \/ BeliefLost
           \/ Base!CheckHeartbeat
           \/ Base!BaseTick
<1>1. CASE Send
  BY <1>1
     DEF Send, Heard, Lost, FrameHeard, BeliefKept, baseVars,
         Base!HandleData, Base!HandleAck
<1>2. CASE Report \/ (\E v \in Values : Command(v)) \/ NodeFault
  BY <1>2 DEF Report, Command, NodeFault, BeliefKept, baseVars
<1>3. CASE BaseDue
  BY <1>3
     DEF BaseDue, Base!WifiRestart, Base!BaseReboot, Base!LoraBaseInit, BeliefLost
<1>4. CASE BaseRecovery
  BY <1>4
     DEF BaseRecovery, BeliefKept, Base!WifiUp, Base!Connect, Base!LossNoticed
<1>5. CASE BaseFault
  BY <1>5
     DEF BaseFault, BeliefKept, BeliefLost, Base!WifiDown, Base!LinkLost,
         Base!BrokerRestart, Base!HaOnline, Base!BaseReboot, Base!LoraBaseInit
<1>6. CASE Tick
  BY <1>6 DEF Tick
<1>7. CASE UNCHANGED vars
  BY <1>7 DEF vars, baseVars, BeliefKept
<1> QED
  BY <1>1, <1>2, <1>3, <1>4, <1>5, <1>6, <1>7 DEF Next

----------------------------------------------------------------------------
(* Only the silent are taken for offline                                   *)

LEMMA NextOffline ==
    TypeInv /\ OfflineMeansSilent /\ [Next]_vars => OfflineMeansSilent'
<1> SUFFICES ASSUME TypeInv, OfflineMeansSilent, [Next]_vars,
                    everSeen', ~isOnline'
             PROVE  silence' >= HEARTBEAT_OFFLINE_TIMEOUT
  BY DEF OfflineMeansSilent
<1>1. silence \in 0 .. 2 * CLOCK - 1
  BY DEF TypeInv, Base!BaseTypeOK
<1>2. CASE FrameHeard
  BY <1>2 DEF FrameHeard, Base!UpdateNodeSeen
<1>3. CASE BeliefKept
  BY <1>3 DEF BeliefKept, OfflineMeansSilent
<1>4. CASE BeliefLost
  BY <1>4 DEF BeliefLost
<1>5. CASE Base!CheckHeartbeat
  <2>1. ~Base!RecentlySeen /\ silence' = silence
    BY <1>5 DEF Base!CheckHeartbeat, Base!NowOnline
  <2>2. silence \in Nat
    BY <1>1
  <2> QED
    BY <2>1, <2>2, Remainder, TelemetryAssumption DEF Base!RecentlySeen
<1>6. CASE Base!BaseTick
  <2>1. silence >= HEARTBEAT_OFFLINE_TIMEOUT
    BY <1>6 DEF Base!BaseTick, OfflineMeansSilent
  <2> QED
    BY <1>1, <1>6, <2>1, TelemetryAssumption DEF Base!BaseTick, Base!Passed
<1> QED
  BY <1>2, <1>3, <1>4, <1>5, <1>6, BeliefSteps

\* For every timeout, interval and turn of the clock: BASE takes a station for
\* offline only after the timeout without a frame of it.
THEOREM OfflineIsSilent == Spec => []OfflineMeansSilent
<1>1. Init => OfflineMeansSilent
  BY DEF Init, Base!BaseInit, OfflineMeansSilent
<1> QED
  BY <1>1, NextOffline, TypeHolds, PTL DEF Spec

----------------------------------------------------------------------------
(* The silent are taken for offline                                        *)

\* A station counts as online only if, at the last check, it had been heard
\* within the timeout.
CheckedInv ==
    isOnline /\ silence < CLOCK
        => silence < HEARTBEAT_OFFLINE_TIMEOUT + sinceCheck

LEMMA NextChecked == TypeInv /\ CheckedInv /\ [Next]_vars => CheckedInv'
<1> SUFFICES ASSUME TypeInv, CheckedInv, [Next]_vars, isOnline', silence' < CLOCK
             PROVE  silence' < HEARTBEAT_OFFLINE_TIMEOUT + sinceCheck'
  BY DEF CheckedInv
<1>1. /\ silence \in 0 .. 2 * CLOCK - 1
      /\ sinceCheck \in 0 .. HEARTBEAT_CHECK_INTERVAL
  BY DEF TypeInv, Base!BaseTypeOK
<1>2. TypeInv'
  BY NextType
<1>3. CASE FrameHeard
  BY <1>1, <1>3, TelemetryAssumption DEF FrameHeard, Base!UpdateNodeSeen
<1>4. CASE BeliefKept
  BY <1>4 DEF BeliefKept, CheckedInv
<1>5. CASE BeliefLost
  BY <1>2, <1>5 DEF BeliefLost, TypeInv, Base!BaseTypeOK
<1>6. CASE Base!CheckHeartbeat
  <2>1. Base!RecentlySeen /\ silence' = silence /\ sinceCheck' = 0
    BY <1>6 DEF Base!CheckHeartbeat, Base!NowOnline
  <2>2. silence \in Nat /\ silence < CLOCK
    BY <1>1, <2>1
  <2>3. silence < HEARTBEAT_OFFLINE_TIMEOUT
    BY <2>1, <2>2, Remainder DEF Base!RecentlySeen
  <2> QED
    BY <2>1, <2>3, TelemetryAssumption
<1>7. CASE Base!BaseTick
  <2>1. isOnline /\ sinceCheck' = sinceCheck + 1
    BY <1>7 DEF Base!BaseTick
  <2>2. silence' = silence + 1 /\ silence < CLOCK
    BY <1>1, <1>7, TelemetryAssumption DEF Base!BaseTick, Base!Passed
  <2> QED
    BY <1>1, <2>1, <2>2, TelemetryAssumption DEF CheckedInv
<1> QED
  BY <1>3, <1>4, <1>5, <1>6, <1>7, BeliefSteps

\* A station that falls silent is taken for offline one check after the
\* timeout at the latest, until the clock has turned over.
THEOREM SilentTakenOffline == Spec => []SilentIsOffline
<1>1. Init => CheckedInv
  BY DEF Init, Base!BaseInit, CheckedInv
<1>2. TypeInv /\ CheckedInv => SilentIsOffline
  BY TelemetryAssumption DEF TypeInv, Base!BaseTypeOK, CheckedInv, SilentIsOffline
<1> QED
  BY <1>1, <1>2, NextChecked, TypeHolds, PTL DEF Spec

----------------------------------------------------------------------------
(* A node goes on reporting                                                *)

\* The time since the last report and the time to the next one never exceed a
\* stretched interval together: what a command does to the deferred report
\* leaves the periodic one where it was.
ReportInv == sinceReport + nextReport < SENSOR_INTERVAL + REPORT_JITTER

LEMMA InitReport == Init => ReportInv
BY TelemetryAssumption DEF Init, Node!NodeInit, Node!FirstReports, ReportInv

\* What a step does to the periodic report.
ReportTimersKept == UNCHANGED <<nextReport, sinceReport>>

LEMMA ReportSteps ==
    ASSUME [Next]_vars
    PROVE  \/ ReportTimersKept
           \/ Node!SensorLoop
           \/ Node!PowerOff
           \/ Node!Booted
           \/ Node!NodeTick
<1>1. CASE Send
  BY <1>1 DEF Send, Heard, Lost, Node!Leaves, ReportTimersKept
<1>2. CASE Report
  BY <1>2 DEF Report
<1>3. ASSUME NEW v \in Values, Command(v) PROVE ReportTimersKept
  BY <1>3 DEF Command, Node!Execute, Node!PeriodicAfterCommand, ReportTimersKept
<1>4. CASE NodeFault
  BY <1>4 DEF NodeFault, Node!PowerOn, Node!Restart
<1>5. CASE BaseDue \/ BaseRecovery \/ BaseFault
  BY <1>5 DEF BaseDue, BaseRecovery, BaseFault, nodeVars, ReportTimersKept
<1>6. CASE Tick
  BY <1>6 DEF Tick
<1>7. CASE UNCHANGED vars
  BY <1>7 DEF vars, nodeVars, ReportTimersKept
<1> QED
  BY <1>1, <1>2, <1>3, <1>4, <1>5, <1>6, <1>7 DEF Next

LEMMA NextReportInv == TypeInv /\ ReportInv /\ [Next]_vars => ReportInv'
<1> SUFFICES ASSUME TypeInv, ReportInv, [Next]_vars PROVE ReportInv'
  OBVIOUS
<1>1. /\ sinceReport \in Nat
      /\ nextReport \in 0 .. SENSOR_INTERVAL + REPORT_JITTER - 1
  BY DEF TypeInv, NodeInv, Node!NodeTypeOK
<1>2. CASE ReportTimersKept
  BY <1>2 DEF ReportTimersKept, ReportInv
<1>3. CASE Node!SensorLoop
  <2>1. /\ nextReport' \in Int /\ nextReport' < SENSOR_INTERVAL + REPORT_JITTER
        /\ sinceReport' = 0
    BY <1>3, TelemetryAssumption DEF Node!SensorLoop, Node!Intervals
  <2> QED
    BY <2>1 DEF ReportInv
<1>4. CASE Node!PowerOff
  BY <1>4, TelemetryAssumption DEF Node!PowerOff, ReportInv
<1>5. CASE Node!Booted
  <2>1. /\ nextReport' \in Int /\ nextReport' < SENSOR_INTERVAL + REPORT_JITTER
        /\ sinceReport' = 0
    BY <1>5, TelemetryAssumption DEF Node!Booted, Node!FirstReports
  <2> QED
    BY <2>1 DEF ReportInv
<1>6. CASE Node!NodeTick
  BY <1>1, <1>6, TelemetryAssumption DEF Node!NodeTick, ReportInv
<1> QED
  BY <1>2, <1>3, <1>4, <1>5, <1>6, ReportSteps

LEMMA ReportHolds == Spec => []ReportInv
<1> QED
  BY InitReport, NextReportInv, TypeHolds, PTL DEF Spec

\* Whatever commands and resets come, two reports of a running node are never
\* further apart than a stretched interval.
THEOREM ReportsGoOn == Spec => []ReportsKeepComing
<1>1. TypeInv /\ ReportInv => ReportsKeepComing
  BY TelemetryAssumption
     DEF TypeInv, NodeInv, Node!NodeTypeOK, ReportInv, ReportsKeepComing
<1> QED
  BY <1>1, TypeHolds, ReportHolds, PTL

----------------------------------------------------------------------------
(* No false alarm                                                          *)

DataQueued == \E v \in Values : Node!Data(v) \in outbox

\* As long as no frame is missing, BASE has heard the node since its last
\* report, or that report is about to leave: silence is shorter than a
\* stretched interval, and so than the timeout.
HeardInv ==
    /\ ~powered => missed
    /\ ~missed /\ everSeen =>
           /\ silence < SENSOR_INTERVAL + REPORT_JITTER
           /\ silence <= sinceReport \/ DataQueued
           /\ isOnline

\* Steps of BASE that hear nothing and leave the node alone.
LEMMA BaseStepHeard ==
    ASSUME TypeInv, HeardInv, UNCHANGED <<nodeVars, missed>>,
           BeliefKept \/ BeliefLost
    PROVE  HeardInv'
BY DEF HeardInv, DataQueued, BeliefKept, BeliefLost, nodeVars

LEMMA CheckHeartbeatHeard ==
    ASSUME TypeInv, HeardInv, UNCHANGED <<nodeVars, missed>>, Base!CheckHeartbeat
    PROVE  HeardInv'
<1>1. silence' = silence /\ everSeen' = everSeen
  BY DEF Base!CheckHeartbeat
<1>2. ASSUME ~missed, everSeen PROVE isOnline'
  <2>1. silence \in Nat /\ silence < SENSOR_INTERVAL + REPORT_JITTER
    BY <1>2, TelemetryAssumption DEF HeardInv, TypeInv, Base!BaseTypeOK
  <2>2. silence % CLOCK < HEARTBEAT_OFFLINE_TIMEOUT
    BY <2>1, Remainder, TelemetryAssumption
  <2> QED
    BY <1>2, <2>2 DEF Base!CheckHeartbeat, Base!NowOnline, Base!RecentlySeen
<1> QED
  BY <1>1, <1>2 DEF HeardInv, DataQueued, nodeVars

LEMMA TickHeard ==
    ASSUME TypeInv, ReportInv', HeardInv, Tick
    PROVE  HeardInv'
<1>1. /\ powered' = powered /\ missed' = missed
      /\ everSeen' = everSeen /\ isOnline' = isOnline
  BY DEF Tick, Node!NodeTick, Base!BaseTick
<1>2. TypeInv'
  BY NextType DEF Next
<1>3. ASSUME ~missed, everSeen
      PROVE  /\ silence' < SENSOR_INTERVAL + REPORT_JITTER
             /\ silence' <= sinceReport'
             /\ isOnline
  <2>1. ~DataQueued /\ powered /\ isOnline
    BY <1>3 DEF HeardInv, DataQueued, Tick, Node!NodeTick
  <2>2. silence <= sinceReport
    BY <1>3, <2>1 DEF HeardInv
  <2>3. /\ silence \in 0 .. 2 * CLOCK - 1
        /\ sinceReport \in Nat
        /\ nextReport' \in Nat
    BY <1>2, TelemetryAssumption
       DEF TypeInv, NodeInv, Node!NodeTypeOK, Base!BaseTypeOK
  <2>4. sinceReport' = sinceReport + 1
    BY <2>1 DEF Tick, Node!NodeTick
  <2>5. sinceReport' < SENSOR_INTERVAL + REPORT_JITTER
    <3>1. sinceReport' + nextReport' < SENSOR_INTERVAL + REPORT_JITTER
      BY DEF ReportInv
    <3>2. sinceReport' \in Nat
      BY <2>3, <2>4
    <3>3. SENSOR_INTERVAL + REPORT_JITTER \in Nat
      BY TelemetryAssumption
    <3> QED
      BY <2>3, <3>1, <3>2, <3>3
  <2>6. silence' = silence + 1
    BY <2>2, <2>3, <2>4, <2>5, TelemetryAssumption
       DEF Tick, Base!BaseTick, Base!Passed
  <2> QED
    BY <2>1, <2>2, <2>3, <2>4, <2>5, <2>6, TelemetryAssumption
<1> QED
  BY <1>1, <1>3 DEF HeardInv

LEMMA SendHeard ==
    ASSUME TypeInv, HeardInv, NEW f \in Node!Frames, Heard(f) \/ Lost(f)
    PROVE  HeardInv'
<1>1. powered' = powered /\ sinceReport' = sinceReport /\ powered
  BY DEF Heard, Lost, Node!Leaves, TypeInv, NodeInv
<1>2. CASE Heard(f)
  <2>1. silence' = 0 /\ isOnline'
    BY <1>2 DEF Heard, Base!HandleData, Base!HandleAck, Base!UpdateNodeSeen
  <2>2. silence' < SENSOR_INTERVAL + REPORT_JITTER
    BY <2>1, TelemetryAssumption
  <2>3. silence' <= sinceReport'
    BY <1>1, <2>1 DEF TypeInv, NodeInv, Node!NodeTypeOK
  <2> QED
    BY <1>1, <2>1, <2>2, <2>3 DEF HeardInv
<1>3. CASE Lost(f)
  BY <1>3 DEF Lost, HeardInv
<1> QED
  BY <1>2, <1>3

LEMMA NodeStepHeard ==
    ASSUME TypeInv, HeardInv, Report \/ (\E v \in Values : Command(v))
    PROVE  HeardInv'
<1>1. /\ powered' = powered /\ UNCHANGED <<baseVars, missed>>
      /\ outbox \subseteq outbox'
  BY DEF Report, Command, Node!SensorLoop, Node!Execute
<1>2. silence <= sinceReport \/ DataQueued => silence' <= sinceReport' \/ DataQueued'
  <2>1. CASE Report
    <3>1. Node!Data(relay) \in outbox' /\ relay \in Values
      BY <2>1 DEF Report, Node!SensorLoop, TypeInv, NodeInv, Node!NodeTypeOK
    <3> QED
      BY <3>1 DEF DataQueued
  <2>2. CASE \E v \in Values : Command(v)
    BY <1>1, <2>2 DEF Command, Node!Execute, DataQueued, baseVars
  <2> QED
    BY <2>1, <2>2
<1> QED
  BY <1>1, <1>2 DEF HeardInv, baseVars

LEMMA NextHeard ==
    TypeInv /\ ReportInv /\ HeardInv /\ [Next]_vars => HeardInv'
<1> SUFFICES ASSUME TypeInv, ReportInv, HeardInv, [Next]_vars PROVE HeardInv'
  OBVIOUS
<1>1. CASE Send
  BY <1>1, SendHeard DEF Send
<1>2. CASE Report \/ (\E v \in Values : Command(v))
  BY <1>2, NodeStepHeard
<1>3. CASE NodeFault
  BY <1>3 DEF NodeFault, HeardInv
<1>4. CASE BaseDue
  BY <1>4, BaseStepHeard, CheckHeartbeatHeard
     DEF BaseDue, Base!WifiRestart, Base!BaseReboot, Base!LoraBaseInit, BeliefLost
<1>5. CASE BaseRecovery
  <2>1. BeliefKept
    BY <1>5
       DEF BaseRecovery, BeliefKept, Base!WifiUp, Base!Connect, Base!LossNoticed
  <2> QED
    BY <1>5, <2>1, BaseStepHeard DEF BaseRecovery
<1>6. CASE BaseFault
  <2>1. BeliefKept \/ BeliefLost
    BY <1>6
       DEF BaseFault, BeliefKept, BeliefLost, Base!WifiDown, Base!LinkLost,
           Base!BrokerRestart, Base!HaOnline, Base!BaseReboot, Base!LoraBaseInit
  <2> QED
    BY <1>6, <2>1, BaseStepHeard DEF BaseFault
<1>7. CASE Tick
  BY <1>7, NextReportInv, TickHeard
<1>8. CASE UNCHANGED vars
  BY <1>8, BaseStepHeard DEF vars, baseVars, BeliefKept
<1> QED
  BY <1>1, <1>2, <1>3, <1>4, <1>5, <1>6, <1>7, <1>8 DEF Next

\* As long as its frames arrive and it is not restarted, a station is never
\* taken for offline, for every interval and jitter below the timeout.
THEOREM NoAlarmIsFalse == Spec => []NoFalseAlarm
<1>1. Init => HeardInv
  BY DEF Init, Node!NodeInit, Base!BaseInit, HeardInv
<1>2. HeardInv => NoFalseAlarm
  BY DEF HeardInv, NoFalseAlarm
<1> QED
  BY <1>1, <1>2, NextHeard, TypeHolds, ReportHolds, PTL DEF Spec

----------------------------------------------------------------------------
(* The broker is told                                                      *)

LEMMA FrameTold ==
    ASSUME TypeInv, TopicTellsBelief, FrameHeard
    PROVE  TopicTellsBelief'
<1>1. link' = link /\ isOnline'
  BY DEF FrameHeard, Base!UpdateNodeSeen
<1>2. CASE Base!ComesOnline
  <2>1. Base!Announce(link, Base!State(TRUE))
    BY <1>2 DEF FrameHeard, Base!UpdateNodeSeen
  <2>2. link = "up" => refused' \/ onlineTopic' = Base!State(TRUE)
    BY <2>1, AnnounceTold
  <2> QED
    BY <1>1, <2>2 DEF TopicTellsBelief, Base!State
<1>3. CASE ~Base!ComesOnline
  <2>1. UNCHANGED <<onlineTopic, refused>> /\ everSeen /\ isOnline
    BY <1>3 DEF FrameHeard, Base!UpdateNodeSeen, Base!ComesOnline, Base!Silent
  <2> QED
    BY <1>1, <2>1 DEF TopicTellsBelief, Base!State
<1> QED
  BY <1>2, <1>3

LEMMA CheckTold ==
    ASSUME TopicTellsBelief, Base!CheckHeartbeat
    PROVE  TopicTellsBelief'
<1>1. UNCHANGED <<link, everSeen>>
  BY DEF Base!CheckHeartbeat
<1>2. PICK online : online = isOnline'
  OBVIOUS
<1>3. CASE Base!Announce(link, Base!State(online))
  <2>1. link = "up" => refused' \/ onlineTopic' = Base!State(online)
    BY <1>3, AnnounceTold
  <2> QED
    BY <1>1, <1>2, <2>1 DEF TopicTellsBelief, Base!State
<1>4. CASE isOnline' = isOnline /\ Base!Silent
  BY <1>1, <1>4 DEF TopicTellsBelief, Base!State, Base!Silent
<1> QED
  BY <1>2, <1>3, <1>4 DEF Base!CheckHeartbeat, Base!State

LEMMA RepublishTold ==
    ASSUME Base!Republish("up"), link' = "up",
           everSeen' = everSeen, isOnline' = isOnline
    PROVE  TopicTellsBelief'
<1>1. CASE everSeen
  <2>1. refused' \/ onlineTopic' = Base!State(isOnline)
    BY <1>1, AnnounceTold DEF Base!Republish, Base!Listed
  <2> QED
    BY <2>1 DEF TopicTellsBelief, Base!State
<1>2. CASE ~everSeen
  BY <1>2 DEF TopicTellsBelief
<1> QED
  BY <1>1, <1>2

LEMMA NextTold ==
    TypeInv /\ TopicTellsBelief /\ [Next]_vars => TopicTellsBelief'
<1> SUFFICES ASSUME TypeInv, TopicTellsBelief, [Next]_vars PROVE TopicTellsBelief'
  OBVIOUS
<1>1. CASE Send
  <2>1. FrameHeard \/ UNCHANGED baseVars
    BY <1>1 DEF Send, Heard, Lost, FrameHeard, Base!HandleData, Base!HandleAck
  <2>2. CASE UNCHANGED baseVars
    BY <2>2 DEF baseVars, TopicTellsBelief
  <2> QED
    BY <2>1, <2>2, FrameTold
<1>2. CASE Report \/ (\E v \in Values : Command(v)) \/ NodeFault \/ UNCHANGED vars
  <2>1. UNCHANGED baseVars
    BY <1>2 DEF Report, Command, NodeFault, vars
  <2> QED
    BY <2>1 DEF baseVars, TopicTellsBelief
<1>3. CASE BaseDue
  <2>1. CASE Base!CheckHeartbeat
    BY <2>1, CheckTold
  <2>2. CASE Base!WifiRestart
    BY <2>2 DEF Base!WifiRestart, Base!BaseReboot, TopicTellsBelief
  <2> QED
    BY <1>3, <2>1, <2>2 DEF BaseDue
<1>4. CASE Base!Connect \/ Base!HaOnline
  <2>1. /\ everSeen' = everSeen /\ isOnline' = isOnline /\ link' = "up"
        /\ Base!Republish("up")
    BY <1>4 DEF Base!Connect, Base!HaOnline
  <2> QED
    BY <2>1, RepublishTold
<1>5. CASE \/ Base!WifiUp \/ Base!LossNoticed
           \/ Base!WifiDown \/ Base!LinkLost \/ Base!BrokerRestart \/ Base!BaseReboot
  <2>1. CASE Base!WifiUp
    BY <2>1 DEF Base!WifiUp, TopicTellsBelief
  <2>2. CASE ~Base!WifiUp
    <3>1. link' # "up"
      BY <1>5, <2>2
         DEF Base!Break, Base!LossNoticed, Base!WifiDown, Base!LinkLost, Base!BrokerRestart,
             Base!BaseReboot
    <3> QED
      BY <3>1 DEF TopicTellsBelief
  <2> QED
    BY <2>1, <2>2
<1>6. CASE Tick
  BY <1>6 DEF Tick, Base!BaseTick, TopicTellsBelief
<1> QED
  BY <1>1, <1>2, <1>3, <1>4, <1>5, <1>6 DEF Next, BaseRecovery, BaseFault

\* Through every outage, restart and forgetful broker: in a live session the
\* online topic holds what BASE believes, unless publish() failed for the last
\* state BASE announced in it.
THEOREM BrokerIsTold == Spec => []TopicTellsBelief
<1>1. Init => TopicTellsBelief
  BY DEF Init, Base!BaseInit, TopicTellsBelief
<1> QED
  BY <1>1, NextTold, TypeHolds, PTL DEF Spec
=============================================================================
