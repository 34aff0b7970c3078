---------------------------- MODULE MqttSession ----------------------------
(***************************************************************************)
(* Home Assistant discovery at BASE: mqtt_manager.cpp with its queue of    *)
(* deferred publications, and the parts of lora_base.cpp that decide when  *)
(* the entities of a node are announced.  BASE queues retained messages,   *)
(* mqttLoop() drains them to the broker, and a session can end with the    *)
(* queue half drained, with or without BASE noticing at once.              *)
(*                                                                         *)
(* A message is a topic and a payload: "config" creates the entity, ""     *)
(* deletes it.  Entities that are announced under the same condition count *)
(* as one message: the three telemetry entities of a node, "online" and    *)
(* "cmd_status", the voltage and the motor of a channel, the seven         *)
(* diagnostic ones of a repeater, BASE's own four.                         *)
(***************************************************************************)
EXTENDS Integers, Sequences

CONSTANTS
    Nodes,                  \* ids of the stations: nodes and repeaters
    MAX_NODE_ID,            \* the last index of nodeInfo[]
    Repeaters,              \* those that send PKT_STATUS, with no profile
    MAX_RELAYS_PER_NODE, MAX_SENSORS_PER_NODE,
    Profiles,               \* the profiles a well's node can be built with
    PUB_QUEUE_SIZE,
    \* Bounds of a behaviour: outages and restarts; rebuilds of a node
    MaxFaults, MaxReflash

\* What nodeInfo[] holds before a report, and what a repeater reports.
NoProfile == [relays |-> 0, sensors |-> 0]

ASSUME MqttAssumption ==
    /\ MAX_NODE_ID \in Nat /\ Nodes \subseteq 1 .. MAX_NODE_ID
    /\ Repeaters \subseteq Nodes
    /\ MAX_RELAYS_PER_NODE \in Nat /\ MAX_SENSORS_PER_NODE \in Nat
    /\ Profiles \subseteq [relays : 0 .. MAX_RELAYS_PER_NODE,
                           sensors : 0 .. MAX_SENSORS_PER_NODE]
    /\ PUB_QUEUE_SIZE \in Nat \ {0}
    /\ MaxFaults \in Nat /\ MaxReflash \in Nat

VARIABLES
    link,               \* "down"; "up"; "dead": lost, but BASE has not noticed
    queue,              \* s_pubQueue[], head first
    baseDiscoverySent,
    discovered, statsDiscovered,
    known,              \* num_relays, num_sensors of nodeInfo[]
    real,               \* the profile a node reports
    broker,             \* whether the broker retains a config for a topic
    faults, reflashed

vars == <<link, queue, baseDiscoverySent, discovered, statsDiscovered, known,
          real, broker, faults, reflashed>>

BASE_ID == 0

NodeTopics(n) ==
    {<<n, "telemetry", 0>>, <<n, "online", 0>>}
    \cup {<<n, "relay", i>> : i \in 1 .. MAX_RELAYS_PER_NODE}
    \cup {<<n, "sensor", i>> : i \in 1 .. MAX_SENSORS_PER_NODE}
StatsTopic(n) == <<n, "stats", 0>>
BaseTopic     == <<BASE_ID, "base", 0>>

Topics == {BaseTopic} \cup {StatsTopic(n) : n \in Repeaters}
          \cup UNION {NodeTopics(n) : n \in Nodes}

Messages == [topic : Topics, payload : {"config", ""}]

Init ==
    /\ link = "down"
    /\ queue = <<>>
    /\ baseDiscoverySent = FALSE
    /\ discovered = [n \in Nodes |-> FALSE]
    /\ statsDiscovered = [n \in Nodes |-> FALSE]
    /\ known = [n \in Nodes |-> NoProfile]
    /\ real \in [Nodes -> Profiles \cup {NoProfile}]
    /\ \A n \in Nodes : n \in Repeaters => real[n] = NoProfile
    /\ \A n \in Nodes : n \notin Repeaters => real[n] \in Profiles
    /\ broker = [t \in Topics |-> FALSE]
    /\ faults = 0
    /\ reflashed = 0

----------------------------------------------------------------------------
(* The queue *)

\* Mutant of Full: one message more than there are slots.
FullPlusOne(q) == Len(q) > PUB_QUEUE_SIZE

Full(q) == Len(q) >= PUB_QUEUE_SIZE

\* Mutant of Pending: the scan for duplicates compares topics only.
TopicPending(q, m) == \E i \in DOMAIN q : q[i].topic = m.topic

Pending(q, m) == \E i \in DOMAIN q : q[i] = m

\* pubEnqueue() in a burst: r.ok says whether every message so far is queued.
PubEnqueue(r, m) ==
    CASE Full(r.queue) -> [r EXCEPT !.ok = FALSE]
      [] ~Full(r.queue) /\ Pending(r.queue, m) -> r
      [] OTHER -> [r EXCEPT !.queue = Append(@, m)]

Enqueued(q, burst) ==
    LET after[i \in 0 .. Len(burst)] ==
            IF i = 0 THEN [queue |-> q, ok |-> TRUE]
            ELSE PubEnqueue(after[i - 1], burst[i])
    IN  after[Len(burst)]

\* Whether the broker retains a config for t after these messages, the last one
\* for t last, when it retains b now.
Retained(b, messages, t) ==
    LET at == {i \in DOMAIN messages : messages[i].topic = t}
    IN  \/ at = {} /\ b
        \/ \E i \in at : /\ \A j \in at : j <= i
                         /\ messages[i].payload = "config"

Published(b, messages) == [t \in Topics |-> Retained(b[t], messages, t)]

----------------------------------------------------------------------------
(* Bursts of discovery messages *)

Config(n, kind, i)  == [topic |-> <<n, kind, i>>, payload |-> "config"]
Cleanup(n, kind, i) == [topic |-> <<n, kind, i>>, payload |-> ""]

BaseBurst == <<Config(BASE_ID, "base", 0)>>

NodeBurst(n, p) ==
    <<Config(n, "telemetry", 0)>>
    \o [i \in 1 .. p.relays |-> Config(n, "relay", i)]
    \o [i \in 1 .. p.sensors |-> Config(n, "sensor", i)]
    \o <<Config(n, "online", 0)>>
    \o [i \in 1 .. MAX_RELAYS_PER_NODE - p.relays |->
            Cleanup(n, "relay", p.relays + i)]
    \o [i \in 1 .. MAX_SENSORS_PER_NODE - p.sensors |->
            Cleanup(n, "sensor", p.sensors + i)]

PublishDiscovery(q, n, p)    == Enqueued(q, NodeBurst(n, p))
PublishStatusDiscovery(q, n) == Enqueued(q, <<Config(n, "stats", 0)>>)

SendBaseDiscovery(q, sent) ==
    IF sent THEN [queue |-> q, ok |-> TRUE] ELSE Enqueued(q, BaseBurst)

LoraResetDiscovery == [n \in Nodes |-> FALSE]

\* loraPublishKnownDiscovery(): the nodes with a known profile, by their ids.
AnnounceNode(r, n) ==
    LET b == PublishDiscovery(r.queue, n, known[n])
    IN  [queue |-> b.queue,
         flags |-> IF b.ok THEN [r.flags EXCEPT ![n] = TRUE] ELSE r.flags]

IsKnown(n) == n \in Nodes /\ known[n] # NoProfile

PublishKnownDiscovery(q) ==
    LET after[id \in 0 .. MAX_NODE_ID] ==
            IF id = 0 THEN [queue |-> q, flags |-> LoraResetDiscovery]
            ELSE IF IsKnown(id) THEN AnnounceNode(after[id - 1], id)
            ELSE after[id - 1]
    IN  after[MAX_NODE_ID]

\* sendBaseDiscovery() and loraOnMqttConnected(), with q already queued.
Announce(q, sent) ==
    LET base  == SendBaseDiscovery(q, sent)
        nodes == PublishKnownDiscovery(base.queue)
    IN  /\ baseDiscoverySent' = (sent \/ base.ok)
        /\ queue' = nodes.queue
        /\ discovered' = nodes.flags
        /\ statsDiscovered' = [n \in Nodes |-> FALSE]

----------------------------------------------------------------------------
(* The session *)

\* mqttConnect() succeeds: pubFlush() comes first.
Connect ==
    /\ link = "down"
    /\ link' = "up"
    /\ Announce(<<>>, baseDiscoverySent)
    /\ UNCHANGED <<known, real, broker, faults, reflashed>>

\* mqttCallback() hears that Home Assistant restarted; the queue is kept.
HaOnline ==
    /\ link = "up"
    /\ faults < MaxFaults
    /\ faults' = faults + 1
    /\ Announce(queue, FALSE)
    /\ UNCHANGED <<link, known, real, broker, reflashed>>

\* The first k messages are published, and reach the broker if the link lives.
Deliver(k) ==
    /\ queue' = SubSeq(queue, k + 1, Len(queue))
    /\ broker' = IF link = "up" THEN Published(broker, SubSeq(queue, 1, k))
                 ELSE broker

\* pubDrain(): two messages leave, or one when the second publish() fails.
PubDrain ==
    /\ link \in {"up", "dead"}
    /\ queue # <<>>
    /\ \/ faults' = faults /\ Deliver(IF Len(queue) = 1 THEN 1 ELSE 2)
       \/ /\ Len(queue) > 1 /\ Deliver(1)
          /\ faults < MaxFaults /\ faults' = faults + 1
    /\ UNCHANGED <<link, baseDiscoverySent, discovered, statsDiscovered,
                   known, real, reflashed>>

\* Mutant of ProfileChanged: only the relays are compared.
RelaysChanged(n) == discovered[n] /\ known[n].relays # real[n].relays

ProfileChanged(n) == discovered[n] /\ known[n] # real[n]

\* handleData() for a report of node n that announces its entities ...
HandleData(n) ==
    /\ ProfileChanged(n) \/ ~discovered[n]
    /\ LET b == PublishDiscovery(queue, n, real[n])
       IN  /\ known' = [known EXCEPT ![n] = real[n]]
           /\ queue' = b.queue
           /\ discovered' = [discovered EXCEPT ![n] = b.ok]
    /\ UNCHANGED <<link, baseDiscoverySent, statsDiscovered, real, broker,
                   faults, reflashed>>

\* ... and for one that brings nothing new.
HandleKnownData(n) ==
    /\ discovered[n] /\ ~ProfileChanged(n)
    /\ UNCHANGED vars

\* handleStatus() for a status packet of repeater n.
HandleStatus(n) ==
    /\ ~statsDiscovered[n]
    /\ LET b == PublishStatusDiscovery(queue, n)
       IN  /\ queue' = b.queue
           /\ statsDiscovered' = [statsDiscovered EXCEPT ![n] = b.ok]
    /\ UNCHANGED <<link, baseDiscoverySent, discovered, known, real, broker,
                   faults, reflashed>>

----------------------------------------------------------------------------
(* Faults *)

\* WiFi or the broker goes away; what BASE sends until it notices is lost.
LinkLost ==
    /\ link = "up"
    /\ faults < MaxFaults
    /\ faults' = faults + 1
    /\ link' = "dead"
    /\ UNCHANGED <<queue, baseDiscoverySent, discovered, statsDiscovered,
                   known, real, broker, reflashed>>

LossNoticed ==
    /\ link = "dead"
    /\ link' = "down"
    /\ UNCHANGED <<queue, baseDiscoverySent, discovered, statsDiscovered,
                   known, real, broker, faults, reflashed>>

\* The broker restarts without its retained messages.
BrokerRestart ==
    /\ faults < MaxFaults
    /\ faults' = faults + 1
    /\ link' = IF link = "down" THEN "down" ELSE "dead"
    /\ broker' = [t \in Topics |-> FALSE]
    /\ UNCHANGED <<queue, baseDiscoverySent, discovered, statsDiscovered,
                   known, real, reflashed>>

BaseReboot ==
    /\ faults < MaxFaults
    /\ faults' = faults + 1
    /\ link' = "down"
    /\ queue' = <<>>
    /\ baseDiscoverySent' = FALSE
    /\ discovered' = [n \in Nodes |-> FALSE]
    /\ statsDiscovered' = [n \in Nodes |-> FALSE]
    /\ known' = [n \in Nodes |-> NoProfile]
    /\ UNCHANGED <<real, broker, reflashed>>

\* A node comes back as another build.
Reflash(n) ==
    /\ reflashed < MaxReflash
    /\ reflashed' = reflashed + 1
    /\ \E p \in Profiles \ {real[n]} : real' = [real EXCEPT ![n] = p]
    /\ UNCHANGED <<link, queue, baseDiscoverySent, discovered,
                   statsDiscovered, known, broker, faults>>

Next ==
    \/ Connect
    \/ HaOnline
    \/ PubDrain
    \/ LinkLost
    \/ LossNoticed
    \/ BrokerRestart
    \/ BaseReboot
    \/ \E n \in Nodes : \/ HandleData(n)
                       \/ HandleKnownData(n)
    \/ \E n \in Repeaters : HandleStatus(n)
    \/ \E n \in Nodes \ Repeaters : Reflash(n)

Spec == Init /\ [][Next]_vars

\* mqttLoop() runs on every pass of baseLoop(), and a broker that lives takes
\* what is published.  Stations report for ever, minutes apart, while the queue
\* drains in some passes: reports that meet an empty queue cannot all be missed.
FairSpec ==
    /\ Spec
    /\ WF_vars(link = "up" /\ PubDrain)
    /\ \A n \in Nodes : SF_vars(queue = <<>> /\ HandleData(n))
    /\ \A n \in Repeaters : SF_vars(queue = <<>> /\ HandleStatus(n))

----------------------------------------------------------------------------
(* Properties *)

TypeOK ==
    /\ link \in {"down", "up", "dead"}
    /\ queue \in Seq(Messages)
    /\ Len(queue) <= PUB_QUEUE_SIZE
    /\ baseDiscoverySent \in BOOLEAN
    /\ discovered \in [Nodes -> BOOLEAN]
    /\ statsDiscovered \in [Nodes -> BOOLEAN]
    /\ known \in [Nodes -> Profiles \cup {NoProfile}]
    /\ real \in [Nodes -> Profiles \cup {NoProfile}]
    /\ broker \in [Topics -> BOOLEAN]
    /\ faults \in 0 .. MaxFaults
    /\ reflashed \in 0 .. MaxReflash

\* Whether the broker has a config for t once the queue is drained.
Expected(t) == Retained(broker[t], queue, t)

\* Whether publishDiscovery() gives a node with profile p the entity t.
Has(p, t) ==
    CASE t[2] = "relay" -> t[3] <= p.relays
      [] t[2] = "sensor" -> t[3] <= p.sensors
      [] OTHER -> TRUE

(* In a live session a node that counts as discovered needs no further     *)
(* report: what the broker holds and what is queued, in its order, amounts *)
(* to what publishDiscovery() announces for the profile BASE knows, the    *)
(* entities of an earlier, larger profile deleted; its diagnostics         *)
(* likewise.  (Flags are set only when the whole burst is queued,          *)
(* mqtt_manager.cpp:37-47 and lora_base.cpp:312-322, and dropped with the  *)
(* queue on a reconnect.)                                                  *)
DiscoveredIsOnItsWay ==
    link = "up" =>
        \A n \in Nodes :
            /\ discovered[n] =>
                   \A t \in NodeTopics(n) : Expected(t) = Has(known[n], t)
            /\ statsDiscovered[n] => Expected(StatsTopic(n))

\* Home Assistant shows every station, exactly the relays and sensors it really
\* has, and the telemetry of those with sensors.
AllShown ==
    /\ \A n \in Nodes : \A t \in NodeTopics(n) :
          t[2] # "telemetry" \/ real[n].sensors > 0 => broker[t] = Has(real[n], t)
    /\ \A n \in Repeaters : broker[StatsTopic(n)]

(* Once the session stays up, Home Assistant comes to show exactly the     *)
(* relays and sensors each station really has, and its diagnostics, and    *)
(* keeps showing them, whatever outages, restarts and rebuilds went before *)
(* (README.md:75-79): no burst is given up half way, and no retry goes     *)
(* round for ever.  Nothing is said of the telemetry entities of a station *)
(* without sensors: see RelayOnlyNoTelemetry.                              *)
EntitiesAppear ==
    <>[](link = "up") => <>[]AllShown

(* README.md:75, "Discovery is republished automatically after BASE        *)
(* reconnects": in a live session BASE's own entities are retained or      *)
(* queued once they count as sent.  Violated: pubFlush() drops them, and   *)
(* sendBaseDiscovery() returns at once because the flag is still set.      *)
BaseDiscoveryOnItsWay ==
    (link = "up" /\ baseDiscoverySent) => Expected(BaseTopic)

(* README.md:54-56, "BASE creates no temperature/humidity/pressure/        *)
(* voltage/motor entities" for a node with num_sensors = 0.  Violated:     *)
(* publishDiscovery() announces the first three for every profile.         *)
RelayOnlyNoTelemetry ==
    link = "up" =>
        \A n \in Nodes \ Repeaters :
            discovered[n] /\ known[n].sensors = 0
                => ~Expected(<<n, "telemetry", 0>>)
=============================================================================
