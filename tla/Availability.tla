---------------------------- MODULE Availability ----------------------------
(***************************************************************************)
(* How BASE decides that a station is online and tells it to the broker:   *)
(* nodeInfo[] and the heartbeat of lora_base.cpp, the restart timeout of   *)
(* wifi_manager.cpp, and the MQTT session as far as values published past  *)
(* its queue depend on it.  Such a value is published once: no caller of   *)
(* mqttPublish() looks at its result.  The entries of nodeInfo[] do not    *)
(* influence one another: one station is followed.                         *)
(***************************************************************************)
EXTENDS Integers

CONSTANTS
    Values,
    HEARTBEAT_CHECK_INTERVAL, HEARTBEAT_OFFLINE_TIMEOUT,
    WIFI_RESTART_TIMEOUT,
    CLOCK,          \* turn of the millisecond counter, in ticks
    Nothing         \* a topic with no retained value

VARIABLES
    silence,        \* time since BASE last heard the station (see Passed)
    everSeen, isOnline,
    sinceCheck,     \* millis() - lastHeartbeatCheck
    wifi,           \* WiFi.status() = WL_CONNECTED, and wasConnected
    outage,         \* millis() - disconnectTime; 0 while connected
    link,           \* MQTT: "down"; "up"; "dead": lost, but not noticed yet
    onlineTopic, relayTopic,    \* what the broker retains
    refused         \* publish() failed for the last state BASE announced
                    \* in this session

baseVars == <<silence, everSeen, isOnline, sinceCheck, wifi, outage, link,
              onlineTopic, relayTopic, refused>>

BaseInit ==
    /\ silence = 0
    /\ everSeen = FALSE /\ isOnline = FALSE
    /\ sinceCheck = 0
    /\ wifi = FALSE /\ outage = 0
    /\ link = "down"
    /\ onlineTopic = Nothing /\ relayTopic = Nothing
    /\ refused = FALSE

\* Time as long as it matters: up to one turn of the clock exactly, from then
\* on modulo the turn.
Passed(t) == IF t = 2 * CLOCK - 1 THEN CLOCK ELSE t + 1

\* What a topic may hold after mqttPublish(topic, value, retained) in a session
\* l: client.publish() may return false in a live one, too.
Outcomes(l, topic, value) ==
    {topic} \cup {v \in {value} : l = "up"}

\* mqttPublish() of the online topic.  Whether it was refused is remembered for
\* the properties only.
Announce(l, value) ==
    /\ onlineTopic' \in Outcomes(l, onlineTopic, value)
    /\ refused' = (l = "up" /\ onlineTopic' # value)

Silent == UNCHANGED <<onlineTopic, refused>>

State(online) == IF online THEN "1" ELSE "0"

----------------------------------------------------------------------------
(* Frames *)

\* Mutant of ComesOnline: only the first frame since the start publishes.
ComesOnlineFirst == ~everSeen

\* first_seen || was_offline
ComesOnline == ~everSeen \/ ~isOnline

\* loraUpdateNodeSeen(): "1" is published on a transition only.
UpdateNodeSeen ==
    /\ silence' = 0
    /\ everSeen' = TRUE
    /\ isOnline' = TRUE
    /\ \/ ComesOnline /\ Announce(link, State(TRUE))
       \/ ~ComesOnline /\ Silent

\* Mutant of RelayState: published on a transition only, as "online" is.
RelayStateOnce(v) ==
    IF isOnline THEN {relayTopic} ELSE Outcomes(link, relayTopic, v)

\* The relay topic after a report.
RelayState(v) == Outcomes(link, relayTopic, v)

\* handleData() after discovery.
HandleData(v) ==
    /\ UpdateNodeSeen
    /\ relayTopic' \in RelayState(v)
    /\ UNCHANGED <<sinceCheck, wifi, outage, link>>

\* handleAck(): the topic is published when the ACK matches a command.
HandleAck(v) ==
    /\ UpdateNodeSeen
    /\ relayTopic' \in {relayTopic} \cup Outcomes(link, relayTopic, v)
    /\ UNCHANGED <<sinceCheck, wifi, outage, link>>

----------------------------------------------------------------------------
(* Heartbeat *)

\* Mutants of RecentlySeen: one check early, one check late.
RecentlySeenStrict ==
    (silence % CLOCK) + HEARTBEAT_CHECK_INTERVAL < HEARTBEAT_OFFLINE_TIMEOUT
RecentlySeenLate ==
    (silence % CLOCK) < HEARTBEAT_OFFLINE_TIMEOUT + HEARTBEAT_CHECK_INTERVAL

\* millis() - last_seen_ms < HEARTBEAT_OFFLINE_TIMEOUT, with its wrap.
RecentlySeen == (silence % CLOCK) < HEARTBEAT_OFFLINE_TIMEOUT

\* Mutant of NowOnline: entries that were never filled are checked, too.
NowOnlineUnseen == RecentlySeen

\* Of a station that was seen; the others are skipped.
NowOnline == everSeen /\ RecentlySeen

CheckDue == sinceCheck >= HEARTBEAT_CHECK_INTERVAL

\* baseLoop() and loraCheckHeartbeat(), which announces a change.
CheckHeartbeat ==
    /\ CheckDue
    /\ sinceCheck' = 0
    /\ isOnline' = NowOnline
    /\ \/ isOnline' # isOnline /\ Announce(link, State(isOnline'))
       \/ isOnline' = isOnline /\ Silent
    /\ UNCHANGED <<silence, everSeen, wifi, outage, link, relayTopic>>

----------------------------------------------------------------------------
(* WiFi and MQTT *)

\* wifiLoop() finds WiFi connected, or lost.  (disconnectTime = 0 also means
\* that no outage is under way: an outage that begins in the very ms in which
\* millis() is 0 is not followed.)
WifiUp ==
    /\ ~wifi
    /\ wifi' = TRUE
    /\ outage' = 0
    /\ UNCHANGED <<silence, everSeen, isOnline, sinceCheck, link, onlineTopic,
                   relayTopic, refused>>

\* A live session ends without BASE noticing.
Break ==
    /\ link' = IF link = "up" THEN "dead" ELSE link
    /\ refused' = FALSE

WifiDown ==
    /\ wifi
    /\ wifi' = FALSE
    /\ outage' = 0
    /\ Break
    /\ UNCHANGED <<silence, everSeen, isOnline, sinceCheck, onlineTopic,
                   relayTopic>>

\* Mutant of Listed: only the stations that are online.
ListedOnline == everSeen /\ isOnline

\* The stations loraPublishAllNodeStatuses() does not skip.
Listed == everSeen

\* loraPublishAllNodeStatuses() in a session l.
Republish(l) ==
    \/ Listed /\ Announce(l, State(isOnline))
    \/ ~Listed /\ Silent

\* mqttLoop(): mqttConnect() succeeds, loraOnMqttConnected() follows.
Connect ==
    /\ wifi
    /\ link = "down"
    /\ link' = "up"
    /\ Republish("up")
    /\ UNCHANGED <<silence, everSeen, isOnline, sinceCheck, wifi, outage,
                   relayTopic>>

\* Home Assistant announces its restart.
HaOnline ==
    /\ link = "up"
    /\ Republish("up")
    /\ UNCHANGED <<silence, everSeen, isOnline, sinceCheck, wifi, outage, link,
                   relayTopic>>

\* The connection breaks; what BASE publishes until it notices is lost.
LinkLost ==
    /\ link = "up"
    /\ Break
    /\ UNCHANGED <<silence, everSeen, isOnline, sinceCheck, wifi, outage,
                   onlineTopic, relayTopic>>

LossNoticed ==
    /\ link = "dead"
    /\ link' = "down"
    /\ UNCHANGED <<silence, everSeen, isOnline, sinceCheck, wifi, outage,
                   onlineTopic, relayTopic, refused>>

\* The broker restarts without its retained messages.
BrokerRestart ==
    /\ Break
    /\ onlineTopic' = Nothing
    /\ relayTopic' = Nothing
    /\ UNCHANGED <<silence, everSeen, isOnline, sinceCheck, wifi, outage>>

\* loraBaseInit(): nodeInfo[] is empty.
LoraBaseInit ==
    /\ everSeen' = FALSE /\ isOnline' = FALSE
    /\ refused' = FALSE

\* setup() again; wifiInit() starts the restart timer at once.
BaseReboot ==
    /\ LoraBaseInit
    /\ sinceCheck' = 0
    /\ wifi' = FALSE /\ outage' = 0
    /\ link' = "down"
    /\ UNCHANGED <<silence, onlineTopic, relayTopic>>

RestartDue == ~wifi /\ outage > WIFI_RESTART_TIMEOUT

\* wifiLoop() gives up.
WifiRestart == RestartDue /\ BaseReboot

BaseTick ==
    /\ ~CheckDue /\ ~RestartDue
    /\ silence' = Passed(silence)
    /\ sinceCheck' = sinceCheck + 1
    /\ outage' = IF wifi THEN 0 ELSE outage + 1
    /\ UNCHANGED <<everSeen, isOnline, wifi, link, onlineTopic, relayTopic,
                   refused>>

BaseTypeOK ==
    /\ silence \in 0 .. 2 * CLOCK - 1
    /\ everSeen \in BOOLEAN
    /\ isOnline \in BOOLEAN
    /\ isOnline => everSeen
    /\ sinceCheck \in 0 .. HEARTBEAT_CHECK_INTERVAL
    /\ wifi \in BOOLEAN
    /\ outage \in 0 .. WIFI_RESTART_TIMEOUT + 1
    /\ link \in {"down", "up", "dead"}
    /\ link = "up" => wifi
    /\ onlineTopic \in {"0", "1", Nothing}
    /\ relayTopic \in Values \cup {Nothing}
    /\ refused \in BOOLEAN
    /\ refused => link = "up"
=============================================================================
