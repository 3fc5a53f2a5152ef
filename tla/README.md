# TLA+ for OpenBK7231T_App

OpenBK7231T_App (OpenBeken) is firmware for WiFi chips in plugs, bulbs, relays
and sensors: a Tasmota-like device that is configured through a web page,
scripted, and driven over MQTT. This directory holds TLA+ models of the parts
in which threads, timers, failing calls and restarts meet, TLC configurations for
small instances of them, and TLAPS proofs of what matters most. It is written to
be read next to the source; `PROJECT.json` gives the lines of the source that each
definition stands for.

Paths below are relative to `src/src/`.

## The system

The firmware runs on an RTOS with lwIP. These threads matter here:

* the **main loop**, a timer on Beken: `Main_OnEverySecond` once a second and
  the quick tick every few milliseconds (`user_main.c`);
* **lwIP's TCP/IP thread**, which calls the MQTT callbacks and the DNS callback;
* the **HTTP server's threads**, which execute the commands typed into a page;
* **timers and interrupts**: the one-shot timer of the Beken port, which reads MQTT
  messages; the log's timer; the button scan; the UART's receive interrupt.

There is one mutex around the MQTT client (`MQTT_Mutex_Take`), which a caller
waits for some time and then does without what it wanted to do, one around the
log, one around the packets of device groups, and none around most of the other
shared state.

| Component (source) | State | Operations | What is hard | What makes it correct | Status |
|---|---|---|---|---|---|
| MQTT deduper (`mqtt/new_mqtt_deduper.c`) | slots: last value, dirty mark, seconds since the last send | publish through a slot; the tick, once a second | the publish call waits, so other threads run inside it; it fails; two cooldown comparisons | no faster than the interval; a value answered for with "OK" is delivered or still waiting | modelled, proved |
| MQTT receive buffer (`mqtt/new_mqtt.c` 102-245) | byte ring, head, tail, count | post, get | lengths inside the ring, wrap, full against empty | a bounded FIFO of messages | modelled, proved |
| MQTT receive task (`mqtt/new_mqtt.c`, `hal/bk7231/hal_main_bk7231.c`) | trigger bits, one-shot timer | post and trigger; poll; drain; clear | the bit is cleared after the buffer was found empty; the mutex is not had | every message handled, once, in order | modelled, proved |
| MQTT connection (`mqtt/new_mqtt.c`) | client, countdowns, DNS state, error count | the second's update, attempts, callbacks | answers that overtake the code that waits for them; timeouts that are restarted; OTA, lost WiFi, changed topics at any time | recovers; ends with the configured subscriptions | in part, proved |
| MQTT publish queue and broadcast (`mqtt/new_mqtt.c` 249-323, 2363-2573) | list of reusable items, counter, index of the broadcast | queue, invoke at end, one second | the list has no mutex; failures in the middle; the broadcast and the queue call each other | counter and list agree; bounded; items leave; broadcasts end | in part, proved |
| MQTT topic callbacks (`mqtt/new_mqtt.c` 434-564, 1080-1137, 1893-1962) | table of 32 callbacks | register, rebuild; three readers | rebuilt on one thread, read on two; holes | the table is that of the configuration; no hole is read | in part, proved |
| Script engine (`cmnds/cmd_script.c`) | script slots, active thread, budget of lines | start, stop, wait, delay, goto, events; the round | a line may stop, start and put to sleep any script, its own included | every round ends; ready scripts run, sleeping ones do not; slots are reused | in part, proved |
| Repeating events (`cmnds/cmd_repeatingEvents.c`) | linked list | add, cancel, clear; the update | a command run from the list changes the list | each fires when it is due and as often as asked; slots are not lost | modelled, proved |
| Clock events (`driver/drv_timed_events.c`, `driver/drv_deviceclock.c`) | linked list, last time | add, remove; the second | the clock is set, forward and back; the sun moves the time of the event | once on each of its days | in part, proved |
| Channels and event handlers (`new_pins.c`, `cmnds/cmd_eventHandlers.c`) | channel values, pins, flash, handlers | set, toggle, add, clamp; handlers of a change | a handler's command changes a channel inside the change | pin, flash and handlers see the last value; it settles | in part, proved |
| Buttons (`new_pins.c` 1830-1990) | ticks, state, repeat, debounce counter | the scan | bounces, late scans, narrow counters | one gesture, one event | modelled, proved |
| Boot counter, safe mode, scheduled reset (`user_main.c`, `hal/bk7231/hal_flashVars_bk7231.c`) | counters in flash and in RAM | boot, complete, keep a channel, SafeMode | power lost between any two steps; a RAM copy that may be stale | safe mode after repeated failures and only then; kept values survive | in part, proved |
| Configuration (`new_cfg.c`, `hal/bk7231/hal_flashConfig_bk7231.c`) | one structure, change mark, checksum, sector | set, save, load | the sector is erased before it is written; two threads save | what was saved is loaded, or the defaults | in part, proved |
| WiFi connection and watchdog (`user_main.c`) | state, countdowns, which network, unanswered pings | the second, status events, access point | refusals, silent death of the connection, two networks | never stranded; back when a network is | in part, proved |
| TuyaMCU framing (`driver/drv_tuyaMCU.c` 340-470, `driver/drv_uart.c` 70-160) | UART ring | interrupt's byte; search for a packet | garbage, split packets, overrun | every packet delivered; the ring is a lossy FIFO | modelled, proved |
| TuyaMCU pairing (`driver/drv_tuyaMCU.c` 2100-2560) | handshake flags, timers | the second; answers | an MCU that restarts or falls silent; lost packets | gets paired; a loss is noticed; the network is told | in part |
| TuyaMCU mapping (`driver/drv_tuyaMCU.c` 1150-1280) | value per data point | channel to MCU, MCU to channel | each side is told of the change it made itself | in sync, no echo, the last command wins | in part, proved |
| Log ring (`logging/logging.c`) | ring with its readers' positions | write, four readers | overtaken readers; a mutex that is not had; a trigger that is missed | lines whole, losses marked, nothing waits for the next line | in part, proved |
| Device groups (`driver/drv_tasmotaDeviceGroups.c`) | list of packets, sequence numbers, members | change, quick tick, receive, second | lost packets; newest first; a change that arrives crosses one that leaves | members agree; an old change never undoes a newer | in part, proved |
| MQTT publishing of one topic | mutex, errors | | | | an outcome in three modules |
| LED driver (`cmnds/cmd_newLEDDriver.c`) | colours, floats | set, fade | floating point | | not modelled |
| Commands, expressions (`cmnds/cmd_main.c`, ...) | command table | parse, execute | strings | | not modelled |
| HTTP server and pages (`httpserver/`) | requests | parse, generate | strings | | only as the thread that executes commands |
| OTA (`httpclient/`) | progress | download, write | flash of a chip | | only as an input of the connection |
| Drivers (`driver/`), hardware ports (`hal/`), simulator and tests | | | registers, arithmetic | | not modelled |

How they interact: commands (from a page, an MQTT message, a script, a button, an
event or a member of the group) change channels, which set pins and flash
variables, publish through the queue or directly, tell the TuyaMCU and the group,
fire event handlers and wake scripts. A received message crosses three components:
lwIP's thread puts it into the receive buffer, the receive task takes it out and
gives it to the callbacks, which execute commands. The connection decides when
the broadcast starts; the broadcast publishes the queue at its place. WiFi carries
all of it. A scheduled reset saves the configuration and what the flash variables
keep, and the next boot counts itself before it reads either.

## Modules

Each component has a module that keeps the names of the code. An `MC` module only
defines the small sets that a configuration needs; `MCMqtt`, `MCLocal` and
`MCDevice` put several components side by side (see Runs).

### MQTT

**MqttDeduper.** `slot` is `mqtt_dedups`. `MQTT_Dedup_Tick` is cut where it calls
publish: `TickBegin`, then `TickSkip` or `TickSend` and `TickSent` for each slot.
`MQTT_PublishMain_StringString_DeDuped` is `CullDuplicate`, `Defer`, or `Send`
(without a slot: `SendWithoutSlot`) followed by `Return`. Times are capped where
the code no longer tells them apart. `broker`, `accepted`, `age` and `gap`
observe what was delivered, what callers were told, and when.

**MqttRxFifo, MqttRxRing.** `MqttRxFifo` is what the buffer promises, a queue
bounded by bytes. `MqttRxRing` is the code's ring, byte by byte, with the two
length bytes of each string. Its history variable `inRing`, the messages that are
in the ring, is the refinement mapping: every step of `MQTT_Post_Received` is `Post`
or `Drop` of the queue and every step of `get_received` is `Get` or `GetNothing`
(`RingIsFifo`, with `MQTT_rx_buffer_count` as the queue's `used`).

**MqttRxTask.** `MqttRxRing`'s queue between lwIP's thread (`Post`,
`PostWithoutRoom`, which drops the message and triggers all the same, `PostDropped`,
which does not, `SetTrigger`, `StartTimer`) and the reader (`QuickTick` or `Fire`,
`Drain`, `DrainEnds`, `ClearTrigger`). `board` says which of the two ways to be woken
the hardware has and whether its mutex may be busy. `MessagesReachCallbacks` says what
a trigger achieves on every kind of board; its two exceptions are those of the code: a
trigger that falls between the last look into the buffer and the clearing of the
bit (`rx_lostwake`), and a reader that clears the bit though it gave up on the mutex.

**MqttConnection.** `MQTT_RunEverySecondUpdate` from its head to the telemetry
of a connected second, in the order of its early returns; `MQTT_do_connect` cut
where the DNS answer may come between `dns_gethostbyname` and the assignments
that follow it; `dnsFound` and `mqtt_connection_cb` on lwIP's thread; topic
changes, lost WiFi, OTA and publishes that run out of memory around them. A client may
or may not outlive a loss of the WiFi (`WiFiLost`): `MQTT_RunEverySecondUpdate` leaves
it alone. The observer `forgotten` marks a connected client whose owed reconnect was
cleared in such a second, until it connects again.

**MqttPublishQueue.** The end of the same function. The list at `g_MqttPublishQueueHead`
is a sequence of `[used, then]`. `QueueBegins`, `Take` (or `NoMemory`; for the first
item of a list, which is not tested, `NoMemoryForFirst`, after which the device restarts
or, with `NullIgnored`, does not), `Fill` and `Count` are the steps of
`MQTT_QueuePublish` that another thread can tell apart; `WalkSkips`, `WalkSends`,
`WalkSent` and `WalkEnds` those of `PublishQueuedItems`; `StateQueue`, `StateItem`,
`StateOver`, `Judge`, `Check` and `Clear` those of the broadcast.

**MqttCallbacks.** The table as a sequence of topics and holes. When the topics
change the main thread clears the entries (`ClearCallbacks`, which keeps
`numCallbacks`) and registers again one by one; `ProcessReceived` reads the table
on the main thread, `IncomingPublish` and `IncomingData` on lwIP's. `Overlapping`
lets lwIP's thread run while the table is rebuilt, which the code does not prevent.

### What the device does by itself

**ScriptEngine.** `slots` is the linked list `g_scriptThreads`, newest last. A
round of `SVM_RunThreads` is `RoundBegins`, and for each slot `TurnPasses` or
`TurnRuns` and then `LineBegins` and `LineEnds` until `LoopEnds`. The text of the
scripts is left open: in a line, and between rounds, any `Command` may be
executed, any number of times.

**RepeatingEvents.** The list, the walk's position in it (`StartUpdate`, `Visit`,
`Pass`) and the command of the event being visited (`Run`), which may add, cancel or
clear. A node that is freed under the walk leaves its memory to chance
(`WalkFreed`). `AddEvent` reuses a finished structure as the code does.

**TimedEvents.** `EverySecond` is `TIME_OnEverySecond` with `TIME_RunEvents`: all
seconds since the last call, limited to `CatchUp` (`Behind`), one after the other
(`RunSeconds`, a recursive function of the second), each of which `Ran` gives to
each event. `SetDeviceTime` moves the clock. The sun is an environment function
from days to the second it rises. The history fields of an event count how often it
ran on a day, and whether the clock went through all of the day.

**Channels.** One stack of changes per thread that sets channels: `Execute` is the
commands, `OnChanged` the steps of `Channel_OnChanged` (the pin is driven, the
handlers walked twice, the value saved), each with the values that the step reads
then. A handler's command pushes a change on the stack.

**PinButton.** `InputHandler(dt)` is `PIN_Input_Handler` with its debouncing
(`Debounce`) and its five states, `dt` scans after the last; `Touch` and `Lift`
are the contact. `told` observes the events of a gesture.

### TuyaMCU and log

**LossyFifo, UartRing, TuyaFrames.** `UartRing` is the ring that the UART's
interrupt fills, `LossyFifo` what it promises: the last bytes, in order
(`KeepsLastBytes`). `TuyaFrames` is `UART_TryToGetNextTuyaPacket` on that ring:
the search for the header, length, checksum, and the bytes consumed. A packet that
does not fit the caller's buffer (`FitsBuffer`) is consumed and dropped. `Sendable` says
which streams the parser can make sense of, for what it promises
(`EveryPacketDelivered`). Payloads are shorter than 256 bytes, because
`len = lenb | lena >> 8` (426) loses the high byte. Between two packets there is no
header, and less garbage than `MinPacket - 1` bytes: 4 here, 6 in the code, whose
packets also have a version and a command. With that much, the least number of bytes
at which the search begins may hold the garbage and one byte of the header; that byte
is then compared with what the ring held behind it and thrown away. ("should not
happen", 393.)

**TuyaPairing.** `RunEverySecond` is the version 3 state machine once a second,
`ProcessIncoming` an answer; the MCU answers, restarts, falls silent and reports,
and packets in both directions may be lost.

**TuyaMapping.** One data point, its channel and one of several mappings between them:
with and without a dimmer's range, an inversion, a factor, the flags that keep a
mapping from being read or written, and types for which nothing is sent. `User`
changes the channel, `McuMoves` the data point; `ApplyMapping` takes a value through
`InRange`, the inversion and `Scaled` to the channel and remembers in `prevValue` what
the code does, the value before `Scaled`; `TuyaMCU_OnChannelChanged` (`SetsChannel`,
`Sent`) compares (`Seen`) and converts back (`Ranged`, `Pointed`).

**LogRing.** `TakeMutex`, `CopyCharacter`, `GiveMutex`, `Trigger` are a thread that
logs; `TimerCallback`, `RunSerialLog`, `SendToTcp` the timer thread, which leaves the log
alone while no TCP client is connected (`AfterSerial`, `TcpConnects`); `HttpGetLog` the
page. It is a `LossyFifo` for each reader (`ReadersSeeAFifo`).

### What the device comes back to

**BootPromise, BootGuard.** `BootPromise` counts failed boots without a limit and
says which boots are in safe mode. `BootGuard` has the counters of the flash
variables, their copy in RAM and the steps between which the power may fail;
`SafeModeKept` is the refinement.

**DeviceConfig.** `cfg` in RAM, `sector` in flash, and for each thread that saves
what it holds: `SaveBegins` takes the checksum, then `SaveErases`, `SaveWrites`,
`SaveEnds`.

**DeviceLife** composes the two with the main loop: the order of a boot (`PowerOn`,
`BootCounted`, `Load`, `Store`, `Start`), commands, a scheduled reset with its
last save, a configuration that crashes the device before its boot is complete, and
`PowerCut` anywhere.

**WifiLink.** `Second` is the WiFi part of `Main_OnEverySecond` in its order (the
ping watchdog, the access point, the next attempt); `Sta...` and `Ap...` are
`Main_OnWiFiStatusChange`; connections die silently at any time, ping replies come
late or in the next attempt, networks come and go, guests join the device's access
point.

**DeviceGroups.** Each member has the list, mutex, numbers and peers of the driver.
`Change` and `Enqueue` are a change on any thread, `QuickTick` sends the list and
takes one packet after the other (`Receive`, `Parsed`), `Lose` is the network,
`Restart` and `CreateSockets` the driver's life. Two observers say when members may
end with different values or with an older one: `excused` is a packet that was lost,
refused, not made, or crossed another; `outrun` is a packet that was queued while an
older one still waited so far behind it (`Outruns`) that its number looks like a hard
reset. No number of changes is excluded.

In every module a definition right before the one it resembles, `RoomOneMore`
before `Room`, is a mutant: the code with a plausible bug. `PROJECT.json` says
which property notices it. Every checked property has one.

## Runs

Three runs check everything that holds; nine more show one thing each that does not.

| Run | Question | Instance | Result |
|---|---|---|---|
| `mqtt_main` | Does the MQTT client keep, count, deliver and recover? | deduper: 2 slots, 2 values, interval 1, expiry 3, an allocation may fail; queue: 3 items, of which 2 leave at once, a broadcast of 5 items, 5 commands; connection: 3 disturbances of any kind, 2 topics, countdowns of 2 and 3 seconds; a client may outlive the WiFi; receive task: 3 messages, some without room, polling and the one-shot timer, both also with a busy mutex | holds |
| `local_main` | Is what the device does by itself right? | receive ring: 12 bytes of one bit; callbacks: changes that add topics; 2 repeating events of 2 commands and their changes; 3 clock events, 3 suns, 20 seconds of days of 3 and weeks of 2; 8 handlers on 3 channels; a button with 12 changes of its contact, scans 1 and 2 apart; packets, one of them too large, in a ring of 9 bytes among garbage; 8 mappings of a data point with 3 values; 2 scripts alive; 3 lines of 2 threads in a log of 4 characters | holds |
| `device_main` | What does the device come back to? | 2 resets or losses of power, one configuration that crashes it; 2 networks, one silent death, one late ping reply, one guest; an MCU disturbed 3 times; a group of 2 members, one with a web thread: 3 changes, one lost packet, restart or mutex not had, lists of 2, numbers of 8 values that begin at 3 or just before the wrap, a hard reset of 1, so that threads stall for longer than it | holds |
| `deduper_forget` | Is a value kept when the tick's publish fails? | 1 slot | violated, see Findings |
| `rx_lostwake` | Is every message handled behind the one-shot timer? | 4 messages | violated |
| `conn_errmem` | Is a client in the ERR_MEM loop reset when publishes go on failing? | as above | violated |
| `conn_stalesubs` | Does a connection with the subscriptions of old topics have a reconnect coming? | as above, the client may outlive the WiFi | violated |
| `queue_race` | Are counter and list right when a page fills the queue? | as above, commands on a thread of their own | violated |
| `callbacks_null` | Is no hole of the table read when topics are switched off? | any change of topics | violated |
| `clock_sun` | Does a command for the sun on one weekday run each week? | weeks of 2 days of 3 seconds | violated |
| `tuya_inverse` | Is nothing echoed for an inverted mapping? | one inverted mapping, 2 values | violated |
| `groups_stall` | Is no older packet taken for a newer one when a thread stalls? | as above, few numbers sent, nothing lost | violated |

**Parts side by side.** A passing run has one state machine for several components that
share no state: a variable `part`, chosen at the start, says whose behaviour it is, and
the others rest in an initial state. Every behaviour of each part is checked, and no
product of two; what a part assumes of the others is in its own actions. The fairness of
such a run is the conjunction of the parts', each of which binds while `part` is its
own. Where components share state they are composed instead: `DeviceLife` of `BootGuard`
and `DeviceConfig`, `TuyaFrames` on `UartRing`. A property that has several parts
(`NothingLost`, `ButtonFaithful`, `OnceADay`, ...) is the conjunction of the named ones
before it in its module; `LocalRests` and `ComesBack`, which put together what several
modules promise under fairness, are in `MCLocal` and `MCDevice`. Of the log `LocalRests`
says that the serial port gets all of it; TCP clients may be gone or refuse.

**Bounds.** Every bound is a CONSTANT with a comment. They are chosen so that
each limit of the code is reached: rings wrap at every position and overrun, the
queue fills and its items are reused out of order, the broadcast takes several
seconds, countdowns run out while others are running, all slots of scripts and
events are in use and one more is wanted, the group's list fills and its mutex is
lost, sequence numbers wrap and reset, a thread stalls for longer than a hard reset
reaches, clock corrections are made up for in full,
in part and not at all, and a sun event misses one of its days and not the next.
`MaxFaults`, `MaxStops`, `MaxChanges` and their like bound how much happens, not
how long the system runs: all countdowns, rounds and retries go on afterwards.
`EveryQueuedItemLeaves` rests on `MaxCommands`: a page that queued three items
every second could keep a later item of the list waiting, for the list is walked
from its front.

**Deadlock** is checked in the runs of one component that goes on for ever. In the
composite runs, and where a part rests after the last message or command, it is not
(`CHECK_DEADLOCK FALSE`): a part at its bound rests, and what must happen before
that is a liveness property.

## Fairness

* `MqttDeduper`: the second comes however often commands come between
  (`SF(TickBegin)`); a publish call returns, since it waits for a mutex with a
  timeout.
* `MqttRxTask`: both threads run. The reader's attempts do not meet a busy mutex
  every time (`SF(Drain)`), because a publish releases it.
* `MqttConnection`: the second comes, and finds the mutex free again and again;
  the DNS server answers some queries and the broker accepts some attempts in
  time, which no code can promise and without which nothing can recover; a
  device publishes, which is how an ERR_MEM loop is noticed at all; the WiFi
  driver reconnects on its own.
* `MqttPublishQueue`: a command that began ends; the seconds come while the client
  is connected; an item of the broadcast that fails is not refused for ever.
* `ScriptEngine`: the quick tick comes. No fairness is assumed of the scripts.
* `Channels`: a change that was begun is carried on, by the thread that is in it.
* `PinButton`: the pins are scanned, and a finger is lifted in the end.
* `LogRing`: threads finish the line they began, the timer thread runs what was
  pended, the UART sends.
* `TuyaPairing`: the seconds come, both sides take what they are sent.
* `WifiLink`: the seconds come, the driver answers attempts and reports what
  ends, the replies to pings come in time while the connection lives, of attempts at a
  network in reach not all are refused, guests leave.
* `DeviceLife`: a device with power goes on with its boot, its saves and its reset,
  and settings that bring it down do so.
* `DeviceGroups`: each member's driver runs; nothing is assumed of the network.

The safety properties assume none of this. The receive ring, the callback table, the
repeating and clock events, frames and mapping have no property that needs a step
to be taken, and no fairness.

## Findings

What the violated runs show, with the text of the code they contradict
(`PROJECT.json` quotes it).

1. **A value is forgotten** (`deduper_forget`). The tick ignores the result of its
   publish and clears the mark of a value that it saved "to republish later"
   (`mqtt/new_mqtt_deduper.c` 77-78, 138); a repetition of the value is then
   culled as a duplicate.
2. **A message waits for the next one** (`rx_lostwake`). The one-shot timer clears
   its trigger bit after the buffer was found empty; a message triggered in
   between is not read "as soon as possible" (`hal/bk7231/hal_main_bk7231.c`
   100-107, 162).
3. **A reconnect is put off for ever** (`conn_errmem`). Five ERR_MEM results set
   the countdown of a forced reconnect and five more set it again before it runs
   out (`mqtt/new_mqtt.c` 2249-2255).
4. **New topics are not subscribed** (`conn_stalesubs`). A second without WiFi clears
   the reconnect that new topics need, "if this subscription is new, must reconnect",
   and leaves a client connected whose TCP connection outlives the gap
   (`mqtt/new_mqtt.c` 2228, 520).
5. **The queue loses count** (`queue_race`). An item becomes one to publish before
   it is counted, on another thread than the one that publishes (`mqtt/new_mqtt.c`
   2501-2507).
6. **A hole of the table is read** (`callbacks_null`). Clearing the callbacks leaves
   their number; when a topic was switched off, a message that no entry takes reads
   the topic of NULL (`mqtt/new_mqtt.c` 1096, 1127).
7. **"Every Wednesday at sunrise" is every other Wednesday** (`clock_sun`). Of a sun
   event only the day of the week it ran on is remembered, so the match a week on is
   taken for a second one on the same day (`driver/drv_timed_events.c` 205, 339).
8. **An inverted mapping answers its own echo** (`tuya_inverse`). The value is
   inverted once more before it is compared (`driver/drv_tuyaMCU.c` 1213-1219).
9. **A packet of a stalled thread undoes a newer one** (`groups_stall`). It is formatted
   with its number before it is counted (`driver/drv_tasmotaDeviceGroups.c` 201, 173);
   when the thread stalls until more changes have passed than a hard reset is far, its
   old packet is taken for a new start (436).

## Met while modelling

Hazards of the code beyond the list in `PROJECT.json`, which has those the
properties are about. Some are a setting of a CONSTANT away, as noted; the others
are outside of what is modelled.

For these TLC finds a counterexample in the component's own module, with the formula
and the settings named; no run of the project repeats it:

* A value is forgotten though no publish fails (`AcceptedIsDeliveredOrKept` with
  `Http <- MCHttp`): two web commands come while the tick waits in its publish call,
  the second saves its value for later, and the tick clears the mark of that one
  (`mqtt/new_mqtt_deduper.c` 78, 138).
* An item that is in no list is counted (`CounterMatches` with `NullIgnored`). The
  memory of the first item is not tested: the null pointer is written through, which
  a fault ends or, where nothing notices, the counter goes on with (`mqtt/new_mqtt.c`
  2482).
* A busy mutex looks like a lost connection (`ToldDownOnlyWhenDown` with `MutexBusy`):
  `MQTT_RunEverySecondUpdate` answers 0 for both, and the main loop fires `MQTTState`
  0 on a connected device (`mqtt/new_mqtt.c` 2239, `user_main.c` 793).
* A script inherits a wait (`WaitIsOwn` of `ScriptEngine`). Stopping a script does
  not clear the event it waits for, and a script started in its slot waits for it
  (`cmnds/cmd_script.c` 253, 386).
* An ID does not cancel its event (`CancelStops` of `RepeatingEvents`, 4 commands). A
  reused event keeps the ID of its former owner (`cmnds/cmd_repeatingEvents.c` 57-63).
* The SafeMode command does not lead to safe mode (`SafeModeObeyed` of `DeviceLife`).
  Each of the increments it makes starts from a cleared structure
  (`hal/bk7231/hal_flashVars_bk7231.c` 68); retained channels are lost besides.
* A dead connection is never given up (`DeadIsNoticed` of `WifiLink`, `MaxDeaths` 2).
  The ping watchdog, there for "devices stuck outside network", counts only after a
  first reply, and a reconnect begins without one (`user_main.c` 890, 874, 533).
* A scaled mapping answers its own echo (`NoEcho` with the mapping `Tenth` and the
  points 0 and 235). The value is remembered before the factor is applied and compared
  after it (`driver/drv_tuyaMCU.c` 1186-1188, 1219).
* A packet from before the wrap undoes a newer one (`OlderIgnored`, from a start just
  before the wrap, with a `HardReset` of 2, 4 changes and nothing lost). The comparison
  meant to "make it work past wrap" is the one before it
  (`driver/drv_tasmotaDeviceGroups.c` 427-428).
* A member is not heard after a restart (`NewerNeverRefused`, `SeqMod` 32, `HardReset`
  2, one change and one restart). One that has sent fewer than 18 packets begins again
  at 0, which no receiver takes for a hard reset (436).
* A full list silences a member (`FullListRests`). "will drop packet" returns with the
  mutex, and nothing is sent any more until a reboot (82-85).

MQTT:

* `MQTT_InvokeCommandAtEnd` marks the last item of the list, which after a reuse
  is not "the last entry in the queue" (`mqtt/new_mqtt.c` 2511).
* The table of callbacks is rebuilt while lwIP's thread reads it (1128):
  `MqttCallbacks` with `Overlapping`. A flag that alone changes does not rebuild it
  before the next change of a topic; no callback's ID is ever set.
* A payload that lwIP delivers in several callbacks is queued as several messages
  (1040). The mutex is created by whichever thread comes first (161). A broadcast
  asked for while the last one is being cleared is lost (2414). Strings as long as
  their buffers in a queued item lose their terminator (2470).

Scripts, events, channels:

* `g_activeThread` is global: a web command during a round acts as a command of the
  script whose turn it is (`cmnds/cmd_script.c` 451). A goto after the script was
  stopped in the same line reads a NULL file (605); a file that could not be read
  stays cached as such (267).
* A command of a repeating event that clears the list has the walk go on in freed
  memory (`cmnds/cmd_repeatingEvents.c` 157; `WalkFreed`). Events with 0 repeats
  never run and are never reused (141). An event reused during a walk that has not
  reached it yet is a step early.
* `clearAllHandlers` in a handler frees the list it is read from
  (`cmnds/cmd_eventHandlers.c` 330), a command of a clock event likewise
  (`driver/drv_timed_events.c` 218).
* Handlers that set one another's channels without end overflow the C stack.
  Nested changes are told in reverse order. Two threads that set one channel may
  leave the pin with the value of the one that was overwritten (`new_pins.c` 1378):
  `Channels` with `Overlap`.
* The sun is calculated a day short (`driver/drv_timed_events.c` 208), and for 1970 if
  the time was not known (391); with the daylight saving hour the hour may become 24,
  which never matches (237). A clock put back runs events again, one put forward by more
  than 100 seconds skips them.
* `debounce_cnt` has eight bits: a scan 181 ms late wraps it (`new_pins.c` 2081).
  `repeat` has four (123): 16 quick presses count as none, and 17 are reported as one
  click (2129).

Boot, configuration, WiFi:

* The difference of two 16-bit counters is an int: when the boot counter wraps, the
  failures are negative and safe mode does not come
  (`hal/bk7231/hal_flashVars_bk7231.c` 149).
* Two threads that save at once: a module may reboot with the sector erased, or with
  a checksum of other settings (`user_main.c` 1080): `DeviceConfig` with `Preempt`.
* An access point opened "Temporarily" (`docs/commands.md` 254) never closes once
  somebody has joined it, for then no attempt is planned (`user_main.c` 1056).

TuyaMCU, log:

* The high byte of a length is shifted the wrong way (`driver/drv_tuyaMCU.c` 426):
  packets of 256 bytes and more are cut (`ByteBase`). Garbage one byte
  short of the least packet, or longer, may make it throw away half of the header
  that follows (396). The
  main loop and the interrupt of a full ring may both advance the position out
  (`driver/drv_uart.c` 115).
* A mapping with an offset runs away: each report is answered with a value that is off
  by it, reported, and so on (1188). The runs leave it out, for it has no end.
* A report of one data point counts as the answer to the query for all (2141, 2509).
  A command back to the last report's value while another is on its way is never
  sent (1219). A heartbeat is every four seconds, not three (2454). A restart
  between two heartbeats goes unnoticed but for the network state's resend.
* A writer that does not get the log's mutex in 100 ticks goes on without it
  (`logging/logging.c` 438): `LogRing` with `Hurry`. A call that could not be pended
  counts as pended, and the serial port is silent from then on (396): `PendFails`.
  A ring that is exactly full is marked as one that lost something.

Device groups (`driver/drv_tasmotaDeviceGroups.c`):

* A list becomes full without any other thread: nine changes before the sockets exist
  are enough.
* The list is sent newest first, so an older packet of another item is refused
  (416). The first packet of all has number 0 and is refused (436).
* Two threads may send one number (201). Changes by other threads while a packet is
  processed are told to nobody (491). The 33rd member is refused for ever (408).

## Proofs

`MqttDeduper_proofs` proves, for every number of slots, every set of values and
threads and every pair of intervals (`DeduperAssumption`: natural numbers, `None`
is no value, the main thread is not a web thread):

* `TypeCorrect`: `DedupSpec => []DedupTypeOK`, with any threads and any failures.
  `DedupTypeOK` with the ranges of calls in progress is inductive.
* `Spacing`: with no web threads, `DedupSpec => []NoFasterThanInterval`.
  `NoFasterThanInterval` says nothing about the slot's timer, so it is
  strengthened (`SpacingInv`): outside its own publish a slot's timer never
  counts more than the true age of the last delivery, one less while the
  running tick has not reached it (`CooldownTracksAge`), and what a call found in
  its slot still holds when the call returns (`MainCall`). The proof has a step
  for each action.
* `WaitsForOneCooldown`: `DedupSpec => [][WaitsOnlyInCooldown']_dedupVars`, for any
  threads and any failures: the safety half of `CatchesUpInTime`, whose other half is
  a liveness property. `CoolingInv` excepts the one slot that the tick is sending.
* `Kept`: with no web threads and publishes that succeed,
  `DedupSpec => []AcceptedIsDeliveredOrKept`. The strengthening (`KeptInv`) says that
  an unmarked slot holds what the broker has, and a marked one what was accepted.

The assumption "no web threads" of `Spacing` and `Kept` is necessary: two threads that send
at once are faster than the interval, and two that send while the tick waits have it
forget a value (see Met while modelling). It is a hypothesis of the theorems, not an
assumption of the module.

`MqttPublishQueue_proofs` proves, for every size of the queue, the walk and the
broadcast and any number of commands (`QueueAssumption`: the sizes are natural
numbers, the queue's and the light's place come before the end of a broadcast):

* `TypeCorrect`: `PublishSpec => []PublishTypeOK`, on any threads. It bounds the
  broadcast's index and the items of a second, which needs `Places`: where the second
  is inside a broadcast, both are below their limits, and the positions of the list
  that `PublishQueuedItems` and `MQTT_QueuePublish` hold are positions of it.
* `CounterAgrees` and `ListBounded`: with commands between two seconds (`~Preempt`) and
  a null pointer that does not go unnoticed (`~NullIgnored`), `PublishSpec =>
  []CounterMatches` and `PublishSpec => []QueueBounded`. Both follow from `CountInv`,
  which says by how much the counter lags while a command fills its item, that the
  counter still has room when the item is taken (so that a list without a reusable item,
  all of whose items are counted, is below its limit), and that the item being sent is
  one to publish (so that counting it off is right). A new item's memory may hold
  anything: before it is filled, `CountInv` counts the list without it.

Both hypotheses are necessary: `queue_race` shows what happens without the first, and the
section above without the second.

`MqttRxRing_proofs`: `RingImplementsFifo`, `RxRingSpec => RingIsFifo`, for every size
of the ring, message and caller's buffer. The invariant (`RingInv`) says how the
messages of `inRing` lie in the ring: `IsLaid` gives each its place, the sum of the
sizes before it, and its bytes there, and the sum of all is `rxCount`. The lemmas
`PostLays`, `ReadsFirst` and `GetLays` carry it over the writing and the reading of
one message. `FieldsHold`, that the two length bytes can hold the lengths of what
fits, is the code's by far (4096 bytes of ring).

`MqttReceive_proofs` has the other modules on the way of a message:

* `StaleReconnects` (`MqttConnection`), without a hypothesis, from `ConnInv`: a table
  that differs from the configuration is dirty (`TableFollowsConfig`), and subscriptions
  of a connected client that differ from the table have a reconnect coming
  (`SubsFollowTable`), unless a second without WiFi cleared one that was owed
  (`forgotten`). That the connection may outlive the loss of WiFi is part of the model;
  `conn_stalesubs` shows that the exception is needed.
* `OrderKept` (`MqttRxTask`): in order and once, for any number of messages, boards,
  and failures to get the mutex. What was handled and what is queued are one
  increasing sequence, below the next number (`RxTaskInv`).
* `TableIsComplete` and `TableIsSound` (`MqttCallbacks`). During a rebuilding the
  filled entries are the first topics of the configuration it began with, in order,
  and every other entry is empty (`FillInv`), so that `Entry` finds the place after
  them; that the topics of a configuration are a list without repetition is
  proved from its parts (`TopicsSound`). The first needs a table with room for all
  topics (`TableLarge`, 8 of the code's 32), and holds whoever reads meanwhile; the
  second also needs topics that are only added (`OnlyAdded`) and no reader during a
  rebuilding (`~Overlapping`), as `callbacks_null` and the section above show.

`Device_proofs` is about `DeviceLife`, with any number of restarts, `WifiLink`,
`DeviceGroups` and `TuyaPairing`:

* `LifeTyped`: the type invariant, inductive as it stands but for the lemmas about
  counters modulo their width.
* `SafeModePromised`: `LifeSpec => SafeModeKept`, the refinement of `BootPromise`. The
  abstract state counts failures without a limit, the code subtracts two counters of
  16 bits; `BootInv` relates the RAM copy to the flash in each stage of a boot, and
  bounds the boot counter by what the restarts account for. `CounterWide` says that
  this bound is below the width, so that the counter has not wrapped: it is
  necessary, for at the wrap safe mode does not come (see above).
* `NothingIsLost` and `ResetTakesAlong`, with one thread that saves (`~Preempt`),
  from `SaveInv`: what a thread is about to write has the checksum it took, what it
  has written is the configuration, and in the last second before a reset nothing
  changes any more.
* `NeverIsStranded`: `NeverStranded` only becomes inductive with `Connected`, that
  there is no connection without a network joined or an access point opened.
* `GroupTypes` (`DeviceGroups`), for any number of members, threads and sizes. That
  `Used`, a recursive function over the list, returns the packets of the list is
  proved from the least place at which it would fail (`LeastOfNumbers`,
  `CountedUpTo`).
* `OlderIsRefused`: `GroupSpec => OlderNeverTaken`, for any number of changes, threads,
  restarts and wraps. `InOrder` says that no older packet is a hard reset behind a newer
  one it comes after (`Near`): of what a member has still to send, behind all that was
  queued (`WaitsNear`), and of what is in the network and at the receiver, behind what it
  follows there (`FlightNear`). A packet that is queued keeps the first or sets `outrun`;
  sending turns the first into the second; and a packet near the last one taken is
  refused if it is older, unless its number is larger, as past the wrap.
* `NoneIsOutrun`: when the main thread alone changes the relay and a list is no longer than
  a hard reset is far (`OneThread`; 8 and 16 in the code), nothing is ever outrun, so the
  other two hold without that exception. `ListsNear` says why: a list is filled from its
  head on (`Filled`), and its packets' numbers are as near as there are packets.
  `groups_stall` shows that a second thread is enough to lose it.
* `MembersComeToAgree`: `GroupSpec => []MembersAgree`. `AgreeInv` says that some change
  spreads: each member has its value, and an older packet that still comes is refused, or
  its packet is on its way and no packet of another member is behind it. It needs
  `OrderInv`, `InOrder` and that a packet is one change's, to have older packets refused.
* `PairingTyped` (`TuyaPairing`), whatever the MCU does; `PairingInv` counts the packets
  in both directions, each report of the MCU against one disturbance less.

`Events_proofs`, for all commands, intervals and clocks:

* `EventsTyped` and `EventsKeepTheirTimes` (`RepeatingEvents`). Each command of the
  walk may change the list any number of ways, so there is a lemma for what adding,
  cancelling and clearing do to the times of events (`CommandKeepsTimes`) and to the
  number of structures of a command (`CommandTakesNoMore`: adding takes a new one
  only when none of the command is over). `Timely` says which events, before and
  behind the walk, have had their second. `NoneAddedCanceled` excludes a command that
  adds an event with -999 repeats, the mark of an event that was cancelled.
* `TimedTyped` and `EventsRunOnceADay` (`TimedEvents`), with no hypothesis but the
  module's assumption. What the second excepts, a sun event on the weekday it last ran
  on, `clock_sun` shows to be needed. `EventAt` says of an event at a second how often
  it has run on this day and which of its days it missed, and `SecondKeeps` that one
  second keeps it, with the arithmetic of days and weeks (`DivisionIsUnique`,
  `NextSecond`). A call of `TIME_RunEvents` runs many seconds at once. That the
  recursive function of `RunSeconds` has its values, and that what one second keeps all
  of them keep, would be induction over data; both are proved from the least second at
  which they would fail (`HasLeast`, `SecondsAreRun`, `StepByStep`), with sets in the
  place of the operators of the induction theorems.

`Rings_proofs` has what happens to a ring of any size when an item is put in and
taken out (`RingPut`, `RingTake`: the unread part is that of a `LossyFifo`), and with it:

* `LogTyped`, `LogIsAFifo` and `LogIsSound` (`LogRing`). The refinement holds for all
  three readers (serial port, TCP and page) even if a thread writes without the mutex
  (`Hurry`), as a ring of characters. Whole lines need the mutex (`~Hurry`): `LinesInv`
  says that the thread that copies has it, that `g_loggingBuffer` holds its line, and
  that what is unread ends with the character it copied last.
* `FramesTyped` and `UartIsAFifo` (`TuyaFrames`, `UartRing`): the parser counts on no
  more bytes than there are, for the interrupt pushes a byte out only to put another
  in (`UartInv`). What the MCU sends and the
  packets in it are recursive functions of the stream; what they are at each piece
  (`WireToIs`, `PacketsToIs`, `ChecksumIs`) is induction over data, and is proved from
  the least number at which it would fail (`CountedUpTo`, `CountsAlong`).
  `FramesAssumption` asks of the streams only that the two bytes of the length can
  hold each payload's.
* `EveryPacketIsDelivered`: `FramesSpec => []EveryPacketDelivered`, for every size of
  the buffers and every stream, with the interrupt between any two steps. `FollowInv`
  says that what is unread is the last part of what came (`UnreadIsLast`), that some
  number of pieces is behind the parser, whose packets are the delivered ones, and
  that it begins to search only when both bytes of the next header have come
  (`Done`, `Header`). The last is why it never compares a header with a byte that has
  not come, and it is what fails with `MinPacket - 1` bytes of garbage.

`Local_proofs`:

* `ButtonTyped`, `ClicksAreCounted`, `BouncesAreIgnored`, `GesturesAreTold` and
  `WhatAFingerDoesIsTold` (`PinButton`), for all periods and lateness of the scan.
  `ButtonInv` relates the level, the state and what was reported, and says that
  `repeat` is the number of presses as long as its bits can count them (`PressesFit`).
  Only `ClickCountRight` depends on that, and is proved of each state in which it is
  so; past it a click of 17 presses counts as one.
* `MappingIsFaithful` (`TuyaMapping`), for any set of mappings and values: for one in both
  directions that converts nothing, the newest report is what the data point is, the
  newest command what it will be (`MappingInv`). That a mapping converts nothing, neither
  inverts nor scales, is in the property (`Converted`); `tuya_inverse` shows that it is
  needed of one that inverts, and the section above of one that scales.
* `ScriptsTyped` and `ScriptsKeepTheirTurns` (`ScriptEngine`): that a sleeping script
  runs no line follows from the types and `AwakeInLoop`; the work is in the search
  for a slot, which is the first of a set of places (`HasFirst`), and in every command
  a line may execute on any slot (`CommandKeepsSlots`).
* `ChannelsTyped` and `ChangesAreCarriedOut` (`Channels`), one thread at a time
  (`~Overlap`), for any handlers and any nesting. The ghost `due` counts what a handler
  has to be told. `ChannelsInv` says that it is what the calls on the stack still owe
  (`Owed`, a cardinality over the stack), that only the innermost call has pins still
  to set, and that flash which is behind is saved by a call that comes back to it.

What these theorems assume besides the hypotheses named are the modules'
assumptions on their constants (sizes are positive, sets of settings are of their
types), which TLC evaluates in the runs.

Only model-checked:

* everything under fairness, for TLAPS does not reason about ENABLED;
* the `TypeOK` of `MCMqtt`, `MCLocal` and `MCDevice`, which are conjunctions over the
  parts of a run; those of the parts are proved by the theorems named `...Typed`,
  `GroupTypes` and `TypeCorrect`, or as a conjunct of the invariants above.

## Not modelled

The table of components says why for each. Within the modelled ones: TLS, credentials
and the will of the MQTT connection; the topic names built for a publish; fragments of
one message; the files of scripts and their cache; the text of queued items; updates of
a counter by two threads that lose one of them, which would only add to what
`queue_race` shows; the upgrade of old configurations; the ping-pong mode and the
special channels of lights; adding and clearing change handlers at run time; versions,
battery-powered modes, raw and LED data points of TuyaMCU and the answers to its queries
of cached ones; the rules of daylight saving; the items of lights in a device group.

The repository has some 256 000 lines, most of which no model of this kind can be
about: vendored libraries (IR codecs, littlefs, cJSON, ports of SDKs), drivers of
180 chips and displays that read registers and convert units in floating point, web
pages that are put together from strings, and one interface ported to many chips.
The share of it that is mapped is therefore small; the protocols, queues, timers and
state machines that the rest hangs on are what the components above are.

## Plan

1. More of the lists: the light items and share masks of device groups.
2. `DriverTable`: start and stop of drivers while they are run (`driver/drv_main.c`).
3. A composition of connection, queue and deduper: what a device that reconnects
   tells the broker; and of `MqttCallbacks` with `MqttRxTask`.
4. `ScriptEngine` with the web thread, on which `g_activeThread` is not its own.
5. The raw and LED data points of TuyaMCU.
