# Water-wells: TLA+ models and proofs

Specifications of the LoRa mesh firmware in this repository (BASE gateway,
well nodes, repeater): what its parts do, checked with TLC on small instances,
and theorems about them checked by TLAPS for every value of the constants.
Paths below are relative to the repository root.

## 1. The system

Every device is an ESP32 that runs one loop for ever; there are no threads and
no interrupts that share state. Within a device a handler therefore runs to its
end before the next one starts; the interleaving is between devices, the radio
and the broker.

| Component | Source | State | Operations |
|---|---|---|---|
| Transmit queue | `src/lora_phy.cpp` | 8 slots, in-flight frame, AUX flags, `gLastRxMs`, `tx_ok`/`tx_drop` | `txEnqueue`, `txPoll`, `loraNoteRx` |
| Receive path | `src/lora_rx.cpp`, `src/frame_parser.cpp`, `src/protocol.cpp` | 2-frame sliding buffer, statistics | `loraLoop`, `push`, `pop`, `crc16` |
| Duplicate cache | `src/dedup.cpp` | ring of 64 `(source, packet_id, ts)` | `dedupCheckAndInsert` |
| BASE command logic | `src/lora_base.cpp`, `src/ack_match.cpp` | `pendingCmds[8]`, `seqCounter`, `nodeInfo[256]` | `sendCommandWithAck`, `loraProcessPendingAcks`, `handleAck`, `handleData`, `handleStatus`, `loraCheckHeartbeat` |
| MQTT bridge | `src/mqtt_manager.cpp`, `src/cmd_parse.cpp` | connection, publish queue (40), discovery flags | `mqttCallback`, `mqttConnect`, `mqttLoop`, `publishDiscovery` |
| WiFi | `src/wifi_manager.cpp` | connection flag, time of disconnection | `wifiLoop` (restarts BASE after a timeout) |
| Node | `src/lora_node.cpp`, `src/sensor_manager.cpp`, `src/persistence.cpp` | relay pins and `relayShadow`, relay mask in flash, report timers | `loraNodeHandlePacket`, `relaySet`, `relaysInit`, `sensorLoop`, `collectAndSendReport` |
| Repeater | `src/lora_repeater.cpp` | rate-limit window, counters | `loraRepeaterHandlePacket`, `repeaterStatusLoop` |
| Sensors, RMS, radio module set-up, watchdog, roles | `src/sensor_manager.cpp`, `src/rms.cpp`, `src/lora_phy.cpp`, `src/persistence.cpp` | | drivers and arithmetic |

A command travels `MQTT -> mqttCallback -> sendCommandWithAck -> transmit queue ->
radio (perhaps repeater) -> node's loraLoop -> relaySet -> flash -> sendAck ->
transmit queue -> radio -> BASE's loraLoop -> handleAck -> cmd_status`.

What makes it hard: frames are lost, overheard, repeated late by the repeater and
reordered by priorities; retries race the ACKs of earlier tries; newer commands
preempt older ones whose frames are still queued; both sides restart (watchdog,
WiFi timeout, power) at any point and forget different things; the queues are
small and evict; every timer is a difference of a counter that wraps at 2^32.

What makes each part correct:

* command path: BASE says "ok" only of an executed command; it decides each
  command once; the last command wins; what was executed survives restarts;
  every accepted command is answered unless a newer one for its relay replaces
  it or BASE restarts;
* transmit queue: every frame is sent or counted as dropped; urgent frames are
  never given up for others; jitter is respected; the transmitter never hangs;
* duplicate cache: a copy within the TTL is recognised, one after it is not;
* MQTT session: after every reconnect Home Assistant learns of every known relay
  and sensor;
* heartbeat and reports: a node never stops reporting; a silent one is shown
  offline, a heard one online; the relay's topic comes to show the relay;
* repeater: each foreign frame is forwarded at most once, under the limit, and
  refused only when the limit is really reached;
* frame parser: every intact frame among noise is found, none is invented, and
  the statistics account for every byte.

## 2. Modules

| Module | Models | Role |
|---|---|---|
| `TxSlots` | slots of the queue: `txEnqueue`'s choice, `pickReadyItem` | shared operators |
| `TxQueue` | `txEnqueue`, `txPoll`, UART half of `loraLoop`, clock, AUX pin | state machine |
| `AckMatch` | `ackEvaluate`, `ackPickSlot` | shared operators |
| `CommandPath` | BASE, nodes, radio, repeater, flash, restarts | composition over `TxSlots` and `AckMatch` |
| `RelayCommand` | what the command path promises its user | abstract specification |
| `Dedup` | `dedupCheckAndInsert` on a wrapping clock | state machine, part of `Repeater` |
| `Repeater` | `loraRepeaterHandlePacket`, `fwdRateAllow` behind the duplicate check of `loraLoop` | state machine over `Dedup` |
| `FrameParser` | `FrameParser::push`, `pop`, the reading loop of `loraLoop` | state machine |
| `Crc16` | `crc16`, bit by bit | the value of `FrameParser`'s constant `Crc` |
| `NodeReports` | report timers of `sensor_manager.cpp`, what a command does to them, power and restarts | component of `Telemetry` |
| `Availability` | `nodeInfo[]`, heartbeat, WiFi timeout, MQTT session, online and relay topics | component of `Telemetry` |
| `Telemetry` | a node and BASE with the radio between them | composition of `NodeReports` and `Availability` |
| `MqttSession` | `mqtt_manager.cpp`'s session, publish queue and discovery, the discovery flags of `lora_base.cpp` | state machine |
| `MCCommandPath`, `MCTxQueue`, `MCRepeater`, `MCFrameParser`, `MCTelemetry`, `MCMqttSession` | small instances | TLC |
| `TxSlotsProofs`, `TxQueueProofs`, `CommandPathProofs`, `RelayCommandProofs`, `TelemetryProofs`, `RepeaterProofs`, `FrameParserProofs`, `MqttSessionProofs` | lemmas and theorems | TLAPS |

### CommandPath

One action per handler. `AcceptCommand` and `RejectCommand` are `mqttCallback`
with a well-formed command, including all of `sendCommandWithAck`; `AckTimeout`
is `loraProcessPendingAcks` for one expired entry; `HandleAck` and `HandleData`
are the BASE handlers, `ExecuteCommand` and `RefuseCommand` the node's, both with
the duplicate check of `loraLoop` before them (`Take`, `DropDuplicate`).
`Transmit` is `txPoll` handing a frame to the air, where the addressee and the
repeater each hear it or not; `Repeat` is the repeater's copy, which comes late
and in any order or never. `BaseReboot`, `NodeReboot` and `CrashInRelaySet`
are restarts: what is volatile is lost, `relaysInit` restores the flash mask.

* Time is left out. An ACK timer may expire whenever its entry is active, which
  includes every real timing (queueing delay, air time, jitter, `ACK_TIMEOUT_MS`).
* `packet_id` is a fresh id that nobody remembers. The 16-bit counter that starts
  at random after a boot could collide with an id a neighbour still caches
  (`lora_phy.cpp:176-181`): that is excluded here.
* The field `n` of commands and frames is the number of the request. No action
  reads it to decide anything; properties use it to tell commands apart.
* `relay` stands for pin and `relayShadow`: `relaySet` writes both and nothing
  else writes either after boot.
* `RelayCommand` says what the path promises: a command waits, then is decided
  once, and "ok" is only said of one that was executed and not replaced since. `Phase` is the refinement
  mapping (what a request is to its user, computed from BASE's answers and the
  node's executions), `Promise` the instance under it, and
  `ImplementsRelayCommand` the abstract specification as a property.
* `AckMatch` has the branch for legacy ACKs without a sequence number; every ACK
  of the model carries one, as those of this commit's nodes do.
* `outcome` is what BASE has decided of a request. "preempted" and "lost" are not
  answers: nothing is published of a command that a newer one replaces, nor of
  one BASE forgets in a restart, and Home Assistant keeps its "pending".
  `EveryCommandAnswered` therefore asks for "ok" or "failed:..." and names these
  two exceptions; `SlotsKept` says that there is no third.
* What "ok" promises: `OkMeansExecuted`, that this very command was carried out, as
  long as BASE does not restart with one under way; `OkIsOfSomeExecution`, that the
  same value was carried out on the same relay, whatever restarts.
* Only `cmd_status` is followed, as BASE decides it. Whether MQTT delivers it is
  not modelled. The two error answers for malformed topics or payloads are left out.

### TxQueue

`LoopPass` is one pass of `loraLoop`: `txPoll` (its four ways: `PollIdle`,
`PollWrite`, `PollDone`, `PollWaiting`), then the UART, then 1 .. `MAX_PASS` ms.
`Enqueue` is a handler calling `txEnqueue` between passes. The UART is read until
it is empty (the code stops after 256 bytes, which take 267 ms to arrive at 9600
baud; no property depends on it). `AuxChange` and
`RxByte` are the radio module. `due` and `quiet` measure true time beside the
wrapping readings of `millis()`; only properties read them.

### Dedup

`Accept` and `Duplicate` are the two results of `dedupCheckAndInsert`; `Elapse`
is time. `left[k]` is the true time for which `k` must still be recognised.

### Repeater

A valid frame passes the duplicate check of `loraLoop` and is one of: its own echo
or a frame addressed to the repeater (`HandleLocal`), forwarded (`Forward`),
refused for the rate (`Refuse`: its key is in the cache all the same), a duplicate
(`DropDuplicate`). `passed` counts, beside the code's fixed window, what was let
through at each age of the last minute. What `txEnqueue` does with a forwarded
frame is in `TxQueue`, the repeater's copy of a command in `CommandPath`; its own
status packets are in `MqttSession`.

### FrameParser

`Push` is a byte read from the UART, `Extract` and `Slide` the two ways through
the loop of `pop()`. `loraLoop` calls `pop()` until it returns false after every
byte, which is the guard of `Push`. A frame is version, type, payload size and
CRC; the fields between only enter the CRC and are left out. `BYTE` is how many
values a byte has; the checksum is a constant operator `Crc` two bytes wide, low
byte first, because the window works for any. The run gives it the value `crc16`
of `Crc16`, which computes it bit by bit as the code does. `received` and `extracted` (what came, and where the returned
frames started) are read by properties only.

### NodeReports, Availability, Telemetry

`NodeReports` is a node: `SensorLoop` sends a report when the deferred or the
periodic one is due, `Execute` is a good command (`relaySet`, `sendAck`,
`scheduleReport`), `Leaves` hands a frame to the air, ACKs first; it loses power
and restarts. `Availability` is BASE: `HandleData` and `HandleAck` with
`UpdateNodeSeen`, `CheckHeartbeat`, `WifiUp`, `WifiDown` and `WifiRestart`,
`Connect` and `HaOnline` with `loraPublishAllNodeStatuses`, a link that can be
half open, a broker that forgets. `Telemetry` joins them: a frame that leaves the
node is `Heard` or `Lost`.

* `mqttPublish` passes on what `client.publish()` returns, which can be false in a
  live session too, and no caller looks at it: `Outcomes` leaves the topic as it
  was or gives it the new value. `Announce` is such a publication of the online
  topic. `refused` remembers, for the properties only, that `publish()` failed for
  the last state BASE announced in the session that lasts; a new session announces
  all states again.

* Timers are the time left to them. The code compares signed differences of
  readings of `millis()`, which is the same while every interval is below half a
  turn. The age of a node's last frame is kept modulo the turn (`silence`),
  because the heartbeat compares it without a bound.
* Time passes when nothing that is due is left undone and the node's queue is
  empty: a tick stands for tens of seconds, a loop pass and a queue for
  milliseconds to seconds.
* The values of the sensor topics are published beside the relay's, without any
  state of their own, and are left out.

### MqttSession

`Connect` is a successful `mqttConnect` (flush, base discovery, flags reset, known
nodes announced); `HaOnline` is `mqttCallback` on `homeassistant/status`, which
keeps the queue; `PubDrain` is one pass of `pubDrain`, the second `publish()` of
which may fail; `HandleData` and `HandleStatus` are the discovery parts of the
BASE handlers, in every state of the link. `LinkLost` makes the link half open
(`dead`: what BASE publishes vanishes) until `LossNoticed`. `BrokerRestart` loses
the retained messages, `BaseReboot` everything in RAM, and `Reflash` gives a node
another profile. `Enqueued` is a burst of `pubEnqueue` calls, in the code's order,
and `PublishKnownDiscovery` the loop over the ids up to `MAX_NODE_ID` (255 in the
code): both are functions of the number of turns, so that they can be proved about.

* A message is a topic and whether its payload creates or deletes the entity: the
  JSON of a topic depends on nothing but the topic. Entities announced under one
  condition count as one message.
* A node sends reports, a repeater reports (with an empty profile) and status
  packets (`lora_repeater.cpp:110-151`).
* `Has` is what `publishDiscovery` announces for a profile, which includes
  temperature, humidity and pressure for every node. `DiscoveredIsOnItsWay` is
  about that announcement; `EntitiesAppear` is about the station, and of one
  without sensors says nothing about these entities (see `relay_only` in section 5).
* Values published past the queue (`mqttPublish`) are in `Availability`; the
  status topic of BASE, kept by the broker's last will, is not followed. `strdup` does not fail, and no topic or payload is truncated.
* A node is rebuilt at most once: two rebuilds while the queue holds messages
  (milliseconds) would meet the A, B, A case of section 5.

## 3. Runs

| Run | Question | Bounds |
|---|---|---|
| `command_faults` | Are answers true, is flash right and is `RelayCommand` implemented, under loss, delay, retries, a repeater's copy and a node restart? | 1 node, 1 relay, ON/OFF, 2 commands, 1 retry, 2 sequence numbers, 1 overheard frame, 1 restart, a one-slot queue |
| `command_ends` | Is every accepted command answered unless it is replaced or BASE restarts, does each keep its slot till then, are NAKs true, and is "ok" only said of what the node has carried out, with a relay the node does not have, one pending slot, a BASE restart and a failed flash write? | 2 commands, 2 relay ids of which 1 exists, 1 report |
| `quick_on_off` | Does the last command win? (violated, see 5) | 3 commands, 2 relays, 2 queue slots, no fault at all |
| `tx_queue` | Is every frame counted, are jitter and urgency respected, does the transmitter go on? | 2 slots, 3 frames of 3 priorities, clock of 7 ms, passes of 1-2 ms |
| `half_duplex` | Is there a pause after the last received byte? (violated) | as `tx_queue` |
| `mqtt_entities` | Does a station that counts as discovered really have every message queued or retained, the newest last, and do the right relays and sensors appear in the end, and stay? | 1 node that can lose or gain its sensor, 1 repeater, queue of 6 (the two bursts have more), 1 fault, 1 rebuild |
| `base_discovery` | Is BASE's own discovery renewed with the session? (violated) | as `mqtt_entities`, 2 faults |
| `relay_only` | Does a node without sensors get no temperature, humidity and pressure entities? (violated) | as `base_discovery` |
| `telemetry` | Does BASE take exactly the silent for offline, does a living node go on reporting, does the online topic tell the truth unless `publish()` failed for it, and does the relay's topic come to show the relay? | 2 relay states, report every 2 ticks ±1, check every tick, timeout 3, clock of 5; any number of losses, failed publishes, restarts and outages |
| `ghost_online` | Does a dead node come to be shown offline? (violated) | as `telemetry`, 1 relay state |
| `repeater` | Are copies within the TTL recognised and none after it, and does the rate limit hold no more and no less than it should? | 3 foreign keys and the echo, ring of 3, TTL 3, limit 2 in 4 ms, clock of 11, 7 ms from any starting time |
| `frame_parser` | Are exactly the whole frames found among noise, and does each byte count? | every stream of 10 bytes of 2 bits, frames of 5, CRC of 4 bits |

Why the bounds suffice: two commands for one relay are enough for preemption, a
late ACK of the preempted command and the reuse of a slot; one retry gives two
frames of the same command and two ACKs; one restart at every point of two
commands covers what a restart can forget. The proofs in 4 remove the bounds for
the invariants. In `tx_queue` two slots give a free slot, a victim and an order
between slots, and the clock of 7 ms wraps several times in every behaviour. The
clock cannot be smaller: `QueueDrains` needs half a turn of the clock to exceed
the longest time a ready frame may wait (`GAP_MS` and two passes); a frame that
stays in the queue for half a turn of `millis()` (25 days) is not ready again for
another half turn, and the model shows exactly that below 7 ms. In the MQTT runs
the two bursts never fit together, so bursts are cut off at every place and
retried; a fault is an outage, a broker without its messages, a restart of Home
Assistant or of BASE, or a failed `publish()`, at any point. In the telemetry runs the intervals keep their order
(180 s ± 18 s between reports, a check every 60 s, a timeout of 300 s: any stretched
interval is below the timeout, two are not), nothing is budgeted, and the whole
state space is searched; it goes beyond one turn of the clock. In `repeater` the
limit is reached and `2 * FWD_MAX_PER_MIN` passes within a minute do occur, so
`RateBounded` is tight; the ring overflows; `now` starts anywhere and wraps within
most behaviours. A window or an entry left alone for a whole turn of `millis()`
(49.7 days) would look new again: `RepeaterAssumption` and `MaxElapsed < CLOCK`
exclude that. In `frame_parser` the streams contain two frames back to back,
frames at every offset, overlapping ones and candidates with a good header and a
bad CRC. `config.h` at this commit lacks several names its sources use
(`FWD_MAX_PER_MIN`, `FIRST_REPORT_*`, `POST_CMD_REPORT_DELAY_MS`); their values
are in `REPORT.md`, and the models take them as constants.

Deadlock is not checked in the `CommandPath` runs: every counter there is a
budget, and a behaviour ends when the budgets are used up. `tx_queue`,
`half_duplex`, `repeater`, the telemetry and the MQTT runs check it;
`frame_parser` does not: a stream ends at `MaxBytes`.

Fairness. `TxQueue`: the main loop never stops (the watchdog resets the device
otherwise), so `LoopPass` is weakly fair; nothing is assumed of the AUX pin or
the UART. `CommandPath`: `baseLoop` runs `loraProcessPendingAcks` for ever, so
the timer of an active entry expires sooner or later: weak fairness of
`AckTimeout(i)`. Nothing is assumed of the radio, the nodes or the repeater.
`MqttSession`: `mqttLoop` runs for ever and a broker that lives takes what is
published, so `PubDrain` is weakly fair while the link is up; stations report
again and again, minutes apart, while the queue drains in a few passes, so a
report that meets an empty queue is not missed for ever (strong fairness of
`HandleData` and `HandleStatus` with an empty queue). Nothing makes the link come
up: `EntitiesAppear` speaks of behaviours in which it finally stays up.
`Telemetry`: the loops of both devices run for ever (the watchdog again), so
`Loops` is weakly fair; `WiFi.reconnect()` and `mqttLoop` try for ever, so
`BaseRecovery` is weakly fair; and neither does the radio lose every report nor
`publish()` refuse the relay of every one for ever (strong fairness of `Shown`;
ACKs may all be lost, and any single publication may fail). The liveness properties speak
of behaviours in which faults and commands come to an end (`Settles`); losses and
failed publishes need not. Nothing makes `publish()` take the online topic, which
is said once: `LivingShownOnline` names the failure as its one exception.

## 4. Proofs

All theorems hold for every value of the constants allowed by the named
assumptions of the modules, and use no other unless stated.

* `TxSlotsProofs`: what `Victim`, `Pick`, `Landing`, `Enqueued` and `Removed`
  return and preserve. `Min` of a finite set of numbers exists because strict
  inclusion of finite sets is well-founded (lemma `MinInSet`).
* `TxQueueProofs`: `TypeCorrect`; `FramesCounted` (from `TypeOK`, by counting
  used slots before and after each step); `UrgentKept`; `JitterRespected`, whose
  inductive invariant `JitterKept` says that the true time a frame has still to
  wait never exceeds the time its `not_before` promises on the wrapping clock.
* `CommandPathProofs`: `TypeCorrect`; `OnePendingPerRelay`; `NakTruthful`;
  `OkTrusted` and `MismatchNeverSaid`; `ExecutionSurvives`. None of the last
  four is inductive: an answer depends on frames that were queued, sent,
  overheard and repeated long before. The strengthenings are
  `TruthInv` (every frame and pending entry, wherever it is, agrees with the
  request whose number it carries; an ACK with result 1 is of an executed
  request and reports its value), `SeqInv` (a sequence number in use is *dated*:
  the counter has been through it at most as many steps ago as requests have
  come since, so two requests alive at the same time never share one) and
  `ExecutionInv` (pin and flash of each relay hold the value of the last
  execution: needs `MaxNvsFailures = 0`). Each is shown of the initial state and
  of every action.
* `OkTrusted`, `MismatchNeverSaid` and `PromiseKept` are stated for behaviours
  with two properties that the code does not enforce, and say so in their
  statement: `NoneStale` (no pending entry, command or ACK outlives `SEQ_MAX` = 255
  newer commands) and `CleanRestart` (BASE restarts only when no command
  or ACK is under way; section 5 says what happens otherwise).
  `SmallRunsConform` proves both of every behaviour with at most `SEQ_MAX`
  commands and no restart of BASE, so the theorems cover the run
  `command_faults` outright.
* `RelayCommandProofs`: `NoneDropped`, that every undecided command has its slot in
  `pendingCmds[]` and leaves it undecided only for a newer command of its relay or
  in a restart of BASE (`AbandonInv`): the half of `EveryCommandAnswered` that is
  safety. `OkNeverMadeUp`, without any condition: `HomeInv` (what waits in an inbox is
  addressed to its owner) and `PlacedInv` (every command and ACK, wherever it is,
  names the station and the relay that were asked under its number) make up for the
  sequence numbers, which say nothing across a restart of BASE. And `PromiseKept`,
  the refinement. Under the mapping `Phase`
  the initial state is an initial state of `RelayCommand` and every action is one
  of its steps or a stutter. `FateInv` is what the mapping needs beside `TruthInv`
  and `SeqInv`: a request has an outcome exactly from the moment it is
  accepted, and one that still waits has its entry in `pendingCmds[]`.
* `TelemetryProofs`: all invariants of `Telemetry`. `TypeInv` bounds the timers
  jointly, on the wrapping clock; `CheckedInv` relates a node's
  silence to the next heartbeat check; `ReportInv` bounds the time to the next report,
  over every order of deferred, periodic and post-command reports; `BrokerIsTold`
  holds with `publish()` failing at any time, and so only says what the topic holds
  if the last announcement of the session got through; `HeardInv`
  relates what the node sent, what is on the air and what BASE last heard, which
  is what `NoAlarmIsFalse` needs.
* `RepeaterProofs`: all properties of `Dedup` and `Repeater`. The ring is
  filled in order from `next` and its entries age in that order (`OrderInv`), the
  age of an entry on the wrapping clock is its true age (`AgeInv`), each live key
  has an entry (`KeyInv`), so a live entry is evicted only after a whole ring of
  younger ones: `OnlyCrowdsEvict` counts them by an injection of the slots into
  the fresh keys. `RepeaterCache` shows that the repeater drives the cache as `Dedup`
  allows, so the theorems about `Dedup` hold in `Repeater`. For `RateBounded` and
  `RefusedOnlyWhenBusy`, `RateInv` splits the forwards of the last minute
  (`Recent`) into those of the current window, which `fwdWindowCount` counts, and
  earlier ones, which all belong to the one window before it.
* `FrameParserProofs`: all properties of `FrameParser`, for streams of any length,
  bytes of any width and any checksum. `StreamInv`: the buffer is the end of what was received.
  `FramesInv`: the frames taken out lie whole and side by side before it.
  `ScanInv`: every other byte before it starts a whole window that is no frame.
  `CountInv`: the counters are the sizes of these sets. `DamageNoticed` assumes that
  the checksum notices one changed byte of the body (`NoticesOneByte`);
  that `crc16` does is a fact about its polynomial, which the run
  checks in its small version.

* `MqttSessionProofs`: the safety properties of `MqttSession`, for bursts and queues
  of any length. A loop is shown to reach a value after every turn (`LoopRuns`) and
  to keep what each turn keeps (`Climb`, induction on the turns from the
  well-foundedness of strict inclusion). `BurstGrows` says what a burst does to the
  queue, `NodeBurstSays` that it has a message for every entity and all agree with
  the profile, `Delivered` that what was published and what is queued amount to the
  whole. `DiscoveredIsOnItsWay` is not inductive: an old message behind a new one
  of its topic would undo it at the next duplicate (`pubEnqueue` takes a pending
  message for queued, wherever it stands). `OrderInv` says that this cannot be: of
  one topic no message comes after one that agrees with the profile the station
  reports and contradicts it, and while BASE knows another profile all
  messages are for that one. A rebuild keeps it only if the station is settled
  (`SettledRebuild`: BASE knows its build, and nothing is queued about another);
  `DiscoveredWhenSettled` has this as its hypothesis, since TLC finds the A, B, A case of
  section 5 without it. `DiscoveredOnItsWay` needs no such hypothesis: before
  the first rebuild every station is settled (`Original`), so with
  `MaxReflash <= 1`, as in the run, it always holds.

Assumptions beyond the types of the constants: `NoCommand`, `NoItem`, `NoEntry` are
no commands, items or entries; sets of devices, keys and messages are finite where
something is counted; timers are below half a turn of the clock where the code
compares signed differences; the checksum fits two bytes (`crc16` returns a
`uint16_t`).

Only model-checked: the liveness properties (`WaitEnds`, `QueueDrains`,
`EveryCommandAnswered`, `EntitiesAppear`, `RelayShown`, `LivingShownOnline`; out of
the prover's reach). What `crc16` computes is a recursive definition and stays
with TLC too.

## 5. Findings

* `quick_on_off`: equally urgent frames leave the queue in slot order
  (`lora_phy.cpp:287`) and preemption does not withdraw the older frame, so a
  quick OFF, ON can end OFF after ON was confirmed.
* `half_duplex`: `txPoll` runs before the UART is read (`lora_rx.cpp:41`), so
  bytes received during the previous pass do not start the pause.
* `base_discovery`: `baseDiscoverySent` is set when BASE's own discovery is queued
  and survives `pubFlush` (`mqtt_manager.cpp:177, 645-646`), so a session that ends
  early, or a broker that lost its messages, leaves BASE without entities until
  Home Assistant announces a restart.
* `relay_only`: `publishDiscovery` announces temperature, humidity and pressure for
  every profile (`mqtt_manager.cpp:283`); `README.md:54-56` says BASE creates no such
  entities for a node without sensors (also `README.md:135-137`, `REPORT.md:84`).
* `ghost_online`: after a restart BASE knows no node, and neither its heartbeat
  (`lora_base.cpp:511`) nor its publication of all states (`:454`) touches a node
  it has not heard. A node that died before keeps its retained "1", and its
  entities stay available in Home Assistant for ever.

Known to the authors and modelled as it is: a node heard only through an ACK has
an unknown profile, and its next command is refused as `failed:bad_relay`
(`REPORT.md:122`).

Observed while modelling, without a run of its own:

* sequence numbers start over at every boot of BASE (`lora_base.cpp:131`), so the
  late ACK of a command from before a restart closes a newer one for the same
  relay and value as "ok". `CommandFaults.cfg` with `MaxBaseReboots = 1` has the
  behaviour, as a violation of `OkMeansExecuted`; `ack_match.h:52-53` says a late ACK
  cannot close a newer command. `OkIsOfSomeExecution` is what remains true;
* `loraCheckHeartbeat` changes `is_online` and ignores whether the "0" was published
  (`lora_base.cpp:516-525`): if `publish()` fails, the node stays shown as online
  while it is silent and the session lasts. The "1" of `loraUpdateNodeSeen`
  (`:38-42`) can be lost in the same way, and the node then stays hidden until it
  goes silent and comes back. `refused` in `Availability` is this case, which the
  properties of the online topic except by name;
* when Home Assistant announces its restart, BASE's own discovery is queued once
  (`mqtt_manager.cpp:548`). If the queue of 40 is full of the stations' bursts it is
  refused, and nothing calls `sendBaseDiscovery` again before the next session or
  announcement (`HaOnline` of `MqttSession` with a full queue);
* a failed flash write is acknowledged and not retried (`persistence.cpp:86`);
* `pubEnqueue` drops the second A of A, B, A on one topic (`mqtt_manager.cpp:77`);
* the forward limit counts in fixed windows, not the rolling minute of its comment
  (`lora_repeater.cpp:24-31`): `RateBounded` states the bound that really holds;
* the heartbeat timeout is below two report intervals, so one lost report shows a
  living node offline for a while; `REPORT.md:55` speaks of 7/2 intervals and a
  `static_assert` that `config.h` does not have;
* `packet_id` starts at random after a boot, which makes a collision with a cached
  id unlikely, not impossible as `lora_phy.cpp:176-180` says;
* a command to `node_0` gets no `cmd_status`, although the bench checklist
  (`README.md:121-122`) expects `failed:bad_request`;
* the node number in a topic is truncated to 16 bits before an error status is
  published for it (`cmd_parse.cpp:22-37`), so 65537 is answered as node 1;
* `disconnectTime = 0` also marks "no outage" (`wifi_manager.cpp:70`).

## 6. Plan

Done: models and runs of all parts below, and proofs of every safety property the
passing runs check. Next:

1. The invariants behind the liveness properties (why no slot and no timer is left
   without a next step), which leave only the fairness argument to TLC.
2. Hazards without a property in `PROJECT.json`, where the code makes a promise.

## 7. Not modelled

* Sensor drivers and the RMS computation: floating point and I/O.
* The radio module's configuration registers: one-off I/O at boot, off by default.
* Command topic parsing (`cmd_parse.cpp`): classification of two strings without
  state; `CommandPath` starts from a well-formed command.
* JSON texts of discovery messages, sensor values, the content of
  `lora/base/stats` and of the repeater's status, serial logging, compile-time
  role checks, the boot counter.
