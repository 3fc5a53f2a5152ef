--------------------------- MODULE MqttConnection ---------------------------
(***************************************************************************)
(* The life of the MQTT connection (src/src/mqtt/new_mqtt.c).  Once a      *)
(* second the main thread runs MQTT_RunEverySecondUpdate, under the client *)
(* mutex; lwIP's thread calls dnsFound and mqtt_connection_cb; the web     *)
(* server changes the topics at any time.                                  *)
(***************************************************************************)
EXTENDS Integers

CONSTANTS
  Topics,            \* the base topics a configuration may name
  NoSubs,              \* no subscription
  LoopsMax,          \* LOOPS_WITH_DISCONNECTED
  ReconnectDelay,    \* the seconds a wanted reconnect waits
  DnsPatience,       \* dns_in_progress_time of a query just made
  MemErrorMax,       \* ERR_MEM results that force a reconnect
  FastConnect,       \* Main_HasFastConnect
  ErrorsGoOn,        \* whether publishes go on failing while a reconnect is pending
  MutexBusy,         \* whether a publish may hold the mutex past the timeout
  MaxFaults          \* how many disturbances happen (bound of the model)

ASSUME ConnectionAssumption ==
  /\ NoSubs \notin Topics /\ Topics # {}
  /\ LoopsMax \in Nat /\ LoopsMax > 2
  /\ ReconnectDelay \in Nat \ {0} /\ DnsPatience \in Nat \ {0} /\ MemErrorMax \in Nat \ {0}
  /\ FastConnect \in BOOLEAN /\ ErrorsGoOn \in BOOLEAN
  /\ MutexBusy \in BOOLEAN /\ MaxFaults \in Nat

VARIABLES
  wifi,       \* Main_HasWiFiConnected
  link,       \* the lwIP client: "none" (mqtt_client == 0), "down", "connecting", "up"
  choked,     \* the client is in lwIP's ERR_MEM loop: every publish fails
  loops,      \* mqtt_loopsWithDisconnected
  reconnect,  \* mqtt_reconnect: seconds to a forced reconnect, 0 for none
  memErrors,  \* g_memoryErrorsThisSession
  justConn,   \* g_just_connected
  dns,        \* [time, resolved, asked]: dns_in_progress_time, dns_resolved, a query is out
  main,       \* "idle", or "asked" between the DNS query and what follows it
  config,     \* the base topic in the configuration
  dirty,      \* g_mqtt_bBaseTopicDirty
  table,      \* the topic the callbacks are registered for
  subs,       \* the topic the broker has subscriptions for
  forgotten,  \* (observer) the reconnect for new topics was cleared while connected
  ota,        \* OTA_GetProgress() # -1
  told,       \* what MQTT_RunEverySecondUpdate last returned
  faults      \* disturbances so far

clientVars == <<link, choked, subs>>
dnsVars    == <<dns, main>>
confVars   == <<config, dirty, table, forgotten>>
connVars == <<wifi, clientVars, loops, reconnect, memErrors, justConn, dnsVars, confVars, ota, told, faults>>

ConnInit ==
  /\ wifi = FALSE /\ link = "none" /\ choked = FALSE
  /\ loops = 0 /\ reconnect = 0 /\ memErrors = 0 /\ justConn = FALSE
  /\ dns = [time |-> 0, resolved |-> FALSE, asked |-> FALSE] /\ main = "idle"
  /\ config \in Topics /\ dirty = FALSE /\ table = config /\ subs = NoSubs /\ forgotten = FALSE
  /\ ota = FALSE /\ told = FALSE /\ faults = 0

\* One of the MaxFaults disturbances.
Fault == faults < MaxFaults /\ faults' = faults + 1

AfterWiFiLoss == IF FastConnect THEN LoopsMax + 1 ELSE LoopsMax - 2

\* mqtt_client_is_connected, as MQTT_RunEverySecondUpdate sees it
Connected == link = "up"

(***************************************************************************)
(* MQTT_RunEverySecondUpdate                                               *)
(***************************************************************************)
SecondWithoutWiFi ==
  /\ main = "idle" /\ ~wifi
  /\ reconnect' = 0
  /\ loops' = AfterWiFiLoss
  /\ told' = FALSE
  /\ forgotten' = (forgotten \/ (link = "up" /\ subs # table /\ reconnect > 0))
  /\ UNCHANGED <<wifi, clientVars, memErrors, justConn, dnsVars, config, dirty, table, ota, faults>>

SecondWithoutMutex ==
  /\ MutexBusy /\ main = "idle" /\ wifi
  /\ told' = FALSE
  /\ UNCHANGED <<wifi, clientVars, loops, reconnect, memErrors, justConn, dnsVars, confVars, ota, faults>>

\* The head of every other second: the callbacks are registered again for a new
\* base topic, and a reconnect is wanted for that or for too many ERR_MEM.
WantsReconnectForErrors == memErrors >= MemErrorMax
WantsReconnect == dirty \/ memErrors >= MemErrorMax
SecondsLeft  == IF WantsReconnect THEN ReconnectDelay ELSE reconnect
Expires == SecondsLeft = 1

Refresh ==
  /\ main = "idle" /\ wifi
  /\ dirty' = FALSE
  /\ table' = IF dirty THEN config ELSE table
  /\ memErrors' = IF memErrors >= MemErrorMax THEN 0 ELSE memErrors
  /\ reconnect' = IF SecondsLeft > 0 THEN SecondsLeft - 1 ELSE 0
  /\ forgotten' = (forgotten /\ ~WantsReconnect)
  /\ UNCHANGED <<wifi, config, ota>>

Disconnect == link' = "down" /\ subs' = NoSubs /\ choked' = FALSE

\* Connected: the reconnect that comes due, and OTA, close the client.
ClosesWhenDue == Expires
ClosesNow == Expires \/ ota
SecondConnected ==
  /\ Connected /\ Refresh
  /\ justConn' = FALSE
  /\ loops' = IF Expires THEN LoopsMax - 2 ELSE loops
  /\ IF ClosesNow THEN Disconnect ELSE UNCHANGED clientVars
  /\ told' = TRUE
  /\ UNCHANGED <<dnsVars, faults>>

\* Not connected, and not yet time for an attempt (never during OTA).
TimeToConnect == ~ota /\ loops + 1 > LoopsMax

SecondWaiting ==
  /\ ~Connected /\ ~TimeToConnect /\ Refresh
  /\ loops' = IF ota THEN loops ELSE loops + 1
  /\ told' = FALSE
  /\ UNCHANGED <<clientVars, justConn, dnsVars, faults>>

\* An attempt starts with a new client or with closing the old one; then
\* MQTT_do_connect needs the broker's address.
Attempt ==
  /\ ~Connected /\ TimeToConnect /\ Refresh
  /\ told' = FALSE
  /\ Disconnect
  /\ UNCHANGED <<justConn, faults>>

HasAddress == dns.time <= 0 /\ dns.resolved
MustAsk    == dns.time <= 0 /\ ~dns.resolved

\* MQTT_do_connect has the address: mqtt_client_connect starts, or it fails;
\* after ERR_RTE the next second tries again.
AttemptConnect ==
  /\ ~Connected /\ TimeToConnect /\ Refresh
  /\ HasAddress
  /\ dns' = [dns EXCEPT !.resolved = FALSE]
  /\ subs' = NoSubs /\ choked' = FALSE
  /\ \/ link' = "connecting" /\ loops' = 0 /\ UNCHANGED faults
     \/ link' = "down" /\ loops' \in {0, loops + 1} /\ Fault
  /\ told' = FALSE
  /\ UNCHANGED <<justConn, main>>

AttemptAsk ==
  /\ MustAsk /\ Attempt
  /\ dns' = [dns EXCEPT !.asked = TRUE] /\ main' = "asked"
  /\ loops' = loops + 1

WaitedForever == dns
Waited == [dns EXCEPT !.time = @ - 1]

AttemptWaitUnguarded == Attempt /\ dns' = Waited /\ loops' = 0 /\ UNCHANGED main
\* A query is running: wait for it, at most DnsPatience attempts.
AttemptWait ==
  /\ dns.time > 0 /\ Attempt
  /\ dns' = Waited
  /\ loops' = 0
  /\ UNCHANGED main

\* gethostbyname sent a query; lwIP's thread may have answered it by now.
AskedInProgress ==
  /\ main = "asked" /\ main' = "idle"
  /\ dns' = [dns EXCEPT !.time = DnsPatience, !.resolved = FALSE]
  /\ loops' = 0
  /\ UNCHANGED <<wifi, clientVars, reconnect, memErrors, justConn, confVars, ota, told, faults>>

\* It had the address at once, and the client connects, or that failed.
AskedAnswered ==
  /\ main = "asked" /\ main' = "idle"
  /\ dns.asked /\ dns' = [time |-> 0, resolved |-> FALSE, asked |-> FALSE]
  /\ \/ link' = "connecting" /\ loops' = 0 /\ UNCHANGED faults
     \/ link' = link /\ loops' \in {0, loops} /\ Fault
  /\ UNCHANGED <<wifi, choked, subs, reconnect, memErrors, justConn, confVars, ota, told>>

\* It could not even send the query.
AskedFails ==
  /\ Fault /\ main = "asked" /\ main' = "idle"
  /\ dns.asked /\ dns' = [time |-> 0, resolved |-> FALSE, asked |-> FALSE]
  /\ loops' = 0
  /\ UNCHANGED <<wifi, clientVars, reconnect, memErrors, justConn, confVars, ota, told>>

(***************************************************************************)
(* lwIP's thread                                                           *)
(***************************************************************************)
dnsFound(found) ==
  /\ dns.asked /\ IF found THEN UNCHANGED faults ELSE Fault
  /\ dns' = [time |-> 0, resolved |-> found, asked |-> FALSE]
  /\ loops' = IF found THEN LoopsMax + 1 ELSE loops
  /\ UNCHANGED <<wifi, clientVars, reconnect, memErrors, justConn, main, confVars, ota, told>>

\* The answer never comes.
DnsLost ==
  /\ Fault /\ dns.asked
  /\ dns' = [dns EXCEPT !.asked = FALSE]
  /\ UNCHANGED <<wifi, clientVars, loops, reconnect, memErrors, justConn, main, confVars, ota, told>>

\* mqtt_connection_cb: accepted; the callbacks' topics are subscribed.
Accepted ==
  /\ link = "connecting" /\ wifi
  /\ link' = "up" /\ subs' = table /\ justConn' = TRUE /\ forgotten' = FALSE
  /\ UNCHANGED <<wifi, choked, loops, reconnect, memErrors, dnsVars, config, dirty, table, ota, told, faults>>

(***************************************************************************)
(* Disturbances, MaxFaults of them                                         *)
(***************************************************************************)
\* The connection is refused, or lost: mqtt_connection_cb with another status.
Refused ==
  /\ Fault /\ link \in {"connecting", "up"} /\ Disconnect
  /\ UNCHANGED <<wifi, loops, reconnect, memErrors, justConn, dnsVars, confVars, ota, told>>

\* Nothing in the program closes the client then; lwIP may find out by itself.
WiFiLost ==
  /\ Fault /\ wifi /\ wifi' = FALSE
  /\ \/ UNCHANGED clientVars
     \/ link # "none" /\ Disconnect
  /\ UNCHANGED <<loops, reconnect, memErrors, justConn, dnsVars, confVars, ota, told>>

WiFiBack ==
  /\ ~wifi /\ wifi' = TRUE
  /\ UNCHANGED <<clientVars, loops, reconnect, memErrors, justConn, dnsVars, confVars, ota, told, faults>>

\* CFG_SetMQTTClientId, CFG_SetMQTTGroupTopic, by a web command or a script.
ChangeTopic(t) ==
  /\ Fault /\ t # config
  /\ config' = t /\ dirty' = TRUE
  /\ UNCHANGED <<wifi, clientVars, loops, reconnect, memErrors, justConn, dnsVars, table, forgotten, ota, told>>

Choke ==
  /\ Fault /\ link = "up" /\ choked' = TRUE
  /\ UNCHANGED <<wifi, link, subs, loops, reconnect, memErrors, justConn, dnsVars, confVars, ota, told>>

\* MQTT_PublishTopicToClient meets ERR_MEM.
PublishFails ==
  /\ link = "up" /\ choked /\ memErrors < MemErrorMax
  /\ reconnect = 0 \/ ErrorsGoOn
  /\ memErrors' = memErrors + 1
  /\ UNCHANGED <<wifi, clientVars, loops, reconnect, justConn, dnsVars, confVars, ota, told, faults>>

OtaStarts ==
  /\ Fault /\ ~ota /\ ota' = TRUE
  /\ UNCHANGED <<wifi, clientVars, loops, reconnect, memErrors, justConn, dnsVars, confVars, told>>

OtaFails ==
  /\ ota /\ ota' = FALSE
  /\ UNCHANGED <<wifi, clientVars, loops, reconnect, memErrors, justConn, dnsVars, confVars, told, faults>>

\* The work of a second, when the mutex is free.
Working ==
  \/ SecondConnected \/ SecondWaiting
  \/ AttemptConnect \/ AttemptAsk \/ AttemptWait

MQTT_RunEverySecondUpdate ==
  \/ SecondWithoutWiFi \/ SecondWithoutMutex \/ Working
  \/ AskedInProgress \/ AskedAnswered \/ AskedFails

Lwip == dnsFound(TRUE) \/ dnsFound(FALSE) \/ DnsLost \/ Accepted \/ Refused

Environment ==
  \/ WiFiLost \/ WiFiBack \/ \E t \in Topics : ChangeTopic(t)
  \/ Choke \/ PublishFails \/ OtaStarts \/ OtaFails

ConnNext == MQTT_RunEverySecondUpdate \/ Lwip \/ Environment

\* The main thread gets from the query to what follows it before the answer.
AskedInTime == AskedAnswered \/ (dns.asked /\ AskedInProgress)

\* The second comes every second and does not find the mutex busy for ever,
\* and the answer does not come inside the main thread's query every time;
\* lwIP's thread answers, and the broker accepts some of the attempts in time;
\* the device keeps publishing; the WiFi comes back.
ConnFairness ==
  /\ WF_connVars(MQTT_RunEverySecondUpdate) /\ SF_connVars(Working) /\ SF_connVars(AskedInTime)
  /\ SF_connVars(main = "idle" /\ dnsFound(TRUE)) /\ SF_connVars(Accepted) /\ WF_connVars(PublishFails)
  /\ WF_connVars(WiFiBack)

ConnSpec == ConnInit /\ [][ConnNext]_connVars
ConnFairSpec == ConnSpec /\ ConnFairness
-----------------------------------------------------------------------------
DnsState == [time : 0 .. DnsPatience, resolved : BOOLEAN, asked : BOOLEAN]

ConnTypeOK ==
  /\ wifi \in BOOLEAN /\ link \in {"none", "down", "connecting", "up"} /\ choked \in BOOLEAN
  /\ loops \in 0 .. LoopsMax + 2 + MaxFaults
  /\ reconnect \in 0 .. ReconnectDelay /\ memErrors \in 0 .. MemErrorMax /\ justConn \in BOOLEAN
  /\ dns \in DnsState
  /\ main \in {"idle", "asked"}
  /\ config \in Topics /\ table \in Topics /\ subs \in Topics \cup {NoSubs}
  /\ dirty \in BOOLEAN /\ forgotten \in BOOLEAN /\ ota \in BOOLEAN /\ told \in BOOLEAN /\ faults \in 0 .. MaxFaults

\* A connected client whose broker has other subscriptions than the configured
\* topics has a reconnect coming: "if this subscription is new, must reconnect"
\* (new_mqtt.c:520).  A second without WiFi breaks it for a client that outlives
\* the loss, by clearing the countdown (new_mqtt.c:2228).
NewSubscriptionReconnects == link = "up" /\ subs # config => dirty \/ reconnect > 0

\* That second is the only way to break it: in every other order of topic changes,
\* OTA, refusals, ERR_MEM, busy mutexes and losses of the WiFi that the client
\* outlives or not, the reconnect is coming.
StaleSubscriptionsReconnect == NewSubscriptionReconnects \/ forgotten

\* Once the disturbances end, the last OTA included, the device is connected for
\* good, with the topics of its configuration (unless the reconnect they wanted was
\* forgotten), whatever was lost, refused or changed before.
Recovers == <>[]~ota => <>[](link = "up" /\ (subs = config \/ forgotten))

\* A client in lwIP's ERR_MEM loop does not stay there (new_mqtt.c:249).
ChokedClientIsReset == choked ~> ~choked

\* OTA never shares the device with a connection for long, even when it starts
\* while the main thread is inside a connection attempt.
OtaClosesConnection == (ota /\ link = "up") ~> (~ota \/ link # "up")

\* The main loop is told that MQTT went down (fires MQTTState 0 and starts to count
\* the "time with no MQTT", user_main.c:808) only when the client is not connected.
\* Refuted: a second that finds the mutex busy breaks it (new_mqtt.c:2239-2242).
ToldDownOnlyWhenDown == [][told /\ ~told' => link # "up"]_connVars

\* No connection stays that should not: neither one that is choked nor one that an
\* OTA meets.  (MQTT_RunEverySecondUpdate)
NoStaleConnection == ChokedClientIsReset /\ OtaClosesConnection
=============================================================================
