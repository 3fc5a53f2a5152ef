------------------------ MODULE MqttReceive_proofs ------------------------
(***************************************************************************)
(* What comes in over MQTT, for all values of the constants: the topics a  *)
(* connected client has subscribed to (MqttConnection), the order in which *)
(* the task hands messages over (MqttRxTask) and the table of callbacks it *)
(* looks them up in (MqttCallbacks).                                       *)
(***************************************************************************)
EXTENDS MqttRxTask, MqttCallbacks, MqttConnection, SequenceTheorems, WellFoundedInduction, TLAPS

(***************************************************************************)
(* The connection                                                          *)
(***************************************************************************)

\* How far mqtt_loopsWithDisconnected gets past LoopsMax: one more for the
\* attempt under way, and for each that failed.
LoopsBounded ==
  loops <= LoopsMax + 1 + faults + (IF main = "asked" THEN 1 ELSE 0)

\* The callbacks are registered for the configured topic, or the topics are marked,
\* and the broker of a connected client has what they are registered for, or the
\* client will reconnect, unless a second without WiFi made it forget to.
TableFollowsConfig == dirty \/ table = config
SubsFollowTable == link = "up" => subs = table \/ reconnect > 0 \/ forgotten

ConnInv ==
  /\ ConnTypeOK /\ LoopsBounded
  /\ TableFollowsConfig /\ SubsFollowTable

USE ConnectionAssumption DEF ConnectionAssumption

LEMMA RefreshKeeps ==
  ASSUME ConnInv, Refresh
  PROVE  /\ reconnect' \in 0 .. ReconnectDelay /\ memErrors' \in 0 .. MemErrorMax
         /\ config' \in Topics /\ table' \in Topics /\ dirty' = FALSE
         /\ table' = config' /\ wifi' /\ wifi \in BOOLEAN /\ ota' \in BOOLEAN /\ main = "idle"
         /\ ~Expires => (WantsReconnect => reconnect' > 0) /\ (reconnect > 0 => reconnect' > 0)
         /\ (dirty => WantsReconnect) /\ forgotten' = (forgotten /\ ~WantsReconnect)
         /\ WantsReconnect \in BOOLEAN
<1>1. ConnTypeOK /\ TableFollowsConfig
  BY DEF ConnInv
<1>2. SecondsLeft \in 0 .. ReconnectDelay /\ (WantsReconnect => SecondsLeft > 0) /\ (reconnect > 0 => SecondsLeft > 0)
  BY <1>1 DEF SecondsLeft, ConnTypeOK
<1>6. (dirty => WantsReconnect) /\ WantsReconnect \in BOOLEAN
  BY <1>1 DEF WantsReconnect, ConnTypeOK
<1>3. reconnect' = IF SecondsLeft > 0 THEN SecondsLeft - 1 ELSE 0
  BY DEF Refresh
<1>4. /\ reconnect' \in 0 .. ReconnectDelay
      /\ ~Expires => (WantsReconnect => reconnect' > 0) /\ (reconnect > 0 => reconnect' > 0)
  <2> HIDE DEF SecondsLeft
  <2> QED BY <1>2, <1>3 DEF Expires
<1>5. memErrors' \in 0 .. MemErrorMax
  BY <1>1 DEF Refresh, ConnTypeOK
<1> QED BY <1>1, <1>4, <1>5, <1>6 DEF Refresh, ConnTypeOK, TableFollowsConfig
LEMMA ConnStep == ConnInv /\ [ConnNext]_connVars => ConnInv'
<1> SUFFICES ASSUME ConnInv, [ConnNext]_connVars
             PROVE  ConnInv'
  OBVIOUS
<1>t. ConnTypeOK /\ LoopsBounded /\ TableFollowsConfig /\ SubsFollowTable
  BY DEF ConnInv
<1>n. loops \in Nat /\ faults \in Nat /\ LoopsMax \in Nat /\ faults <= MaxFaults
  BY <1>t DEF ConnTypeOK
<1>k. /\ wifi \in BOOLEAN /\ link \in {"none", "down", "connecting", "up"} /\ choked \in BOOLEAN
      /\ reconnect \in 0 .. ReconnectDelay /\ memErrors \in 0 .. MemErrorMax /\ justConn \in BOOLEAN
      /\ dns \in DnsState /\ main \in {"idle", "asked"}
      /\ config \in Topics /\ table \in Topics /\ subs \in Topics \cup {NoSubs}
      /\ dirty \in BOOLEAN /\ forgotten \in BOOLEAN /\ ota \in BOOLEAN /\ told \in BOOLEAN
  BY <1>t DEF ConnTypeOK
<1>a. \A b \in BOOLEAN : [time |-> 0, resolved |-> b, asked |-> FALSE] \in DnsState
  BY DEF DnsState
<1>b. /\ [dns EXCEPT !.asked = FALSE] \in DnsState /\ [dns EXCEPT !.asked = TRUE] \in DnsState
      /\ [dns EXCEPT !.resolved = FALSE] \in DnsState
      /\ [dns EXCEPT !.time = DnsPatience, !.resolved = FALSE] \in DnsState
      /\ dns.time > 0 => Waited \in DnsState
  <2>1. dns.time \in 0 .. DnsPatience /\ dns.time > 0 => dns.time - 1 \in 0 .. DnsPatience
    OBVIOUS
  <2>2. dns.time \in 0 .. DnsPatience /\ DnsPatience \in 0 .. DnsPatience
    BY <1>k DEF DnsState
  <2>3. \A r \in DnsState, n \in 0 .. DnsPatience, b \in BOOLEAN :
          /\ [r EXCEPT !.asked = b] \in DnsState /\ [r EXCEPT !.resolved = b] \in DnsState
          /\ [r EXCEPT !.time = n] \in DnsState
    BY DEF DnsState
  <2> QED BY <1>k, <2>1, <2>2, <2>3 DEF Waited
<1>f. Fault => faults' \in 0 .. MaxFaults /\ faults' = faults + 1
  BY <1>n DEF Fault
<1>s. ASSUME Fault \/ faults' = faults, main' \in {"idle", "asked"},
             \/ loops' \in {0, LoopsMax - 2, LoopsMax + 1}
             \/ loops' = loops /\ (main = main' \/ Fault)
             \/ loops' = loops + 1 /\ main = "idle" /\ (main' = "asked" \/ loops < LoopsMax \/ Fault)
      PROVE  loops' \in 0 .. LoopsMax + 2 + MaxFaults /\ LoopsBounded' /\ faults' \in 0 .. MaxFaults
  BY <1>n, <1>f, <1>s, <1>t DEF LoopsBounded, ConnTypeOK
<1>d. Disconnect => link' \in {"down"} /\ subs' = NoSubs /\ choked' = FALSE
  BY DEF Disconnect
<1>1. CASE UNCHANGED connVars
  BY <1>t, <1>1 DEF connVars, clientVars, dnsVars, confVars, ConnInv, ConnTypeOK, LoopsBounded,
       TableFollowsConfig, SubsFollowTable
<1>2. CASE SecondWithoutWiFi \/ SecondWithoutMutex
  <2>1. loops' \in {0, LoopsMax - 2, LoopsMax + 1} \/ loops' = loops
    BY <1>2 DEF SecondWithoutWiFi, SecondWithoutMutex, AfterWiFiLoss
  <2>2. /\ UNCHANGED <<wifi, clientVars, memErrors, justConn, dnsVars, config, dirty, table, ota, faults>>
        /\ told' = FALSE /\ forgotten' \in BOOLEAN
        /\ \/ reconnect' = reconnect /\ forgotten' = forgotten
           \/ /\ reconnect' = 0
              /\ forgotten' = (forgotten \/ (link = "up" /\ subs # table /\ reconnect > 0))
    BY <1>2, <1>k DEF SecondWithoutWiFi, SecondWithoutMutex, confVars
  <2>3. loops' \in 0 .. LoopsMax + 2 + MaxFaults /\ LoopsBounded' /\ faults' \in 0 .. MaxFaults
    BY <1>k, <1>s, <2>1, <2>2 DEF dnsVars
  <2>4. ConnTypeOK'
    <3>1. UNCHANGED <<wifi, link, choked, subs, memErrors, justConn, dns, main, config, dirty, table, ota>>
      BY <2>2 DEF clientVars, dnsVars
    <3>2. told' = FALSE /\ (reconnect' = 0 \/ reconnect' = reconnect) /\ forgotten' \in BOOLEAN /\ 0 \in 0 .. ReconnectDelay
      BY <2>2
    <3> QED BY <1>k, <2>3, <3>1, <3>2 DEF ConnTypeOK
  <2>5. TableFollowsConfig' /\ SubsFollowTable'
    BY <1>t, <2>2 DEF clientVars, TableFollowsConfig, SubsFollowTable
  <2> QED BY <2>3, <2>4, <2>5 DEF ConnInv
<1>3. ASSUME Refresh, dnsVars' = dnsVars \/ (dns' \in DnsState
                                             /\ main' \in {"idle", "asked"}),
             link' \in {"none", "down", "connecting", "up"}, choked' \in BOOLEAN, subs' \in Topics \cup {NoSubs},
             justConn' \in BOOLEAN, told' \in BOOLEAN,
             loops' \in 0 .. LoopsMax + 2 + MaxFaults /\ LoopsBounded' /\ faults' \in 0 .. MaxFaults,
             link' = "up" => link = "up" /\ subs' = subs /\ ~Expires
      PROVE  ConnInv'
  <2>1. /\ reconnect' \in 0 .. ReconnectDelay /\ memErrors' \in 0 .. MemErrorMax
        /\ config' \in Topics /\ table' \in Topics /\ dirty' = FALSE
        /\ table' = config' /\ wifi' /\ wifi' = wifi /\ ota' = ota /\ main = "idle"
        /\ ~Expires => (WantsReconnect => reconnect' > 0) /\ (reconnect > 0 => reconnect' > 0)
        /\ table' = IF dirty THEN config ELSE table
        /\ (dirty => WantsReconnect) /\ forgotten' = (forgotten /\ ~WantsReconnect)
        /\ WantsReconnect \in BOOLEAN /\ forgotten' \in BOOLEAN
    BY <1>3, <1>k, RefreshKeeps DEF Refresh
  <2>2. ConnTypeOK'
    BY <1>k, <1>3, <2>1 DEF ConnTypeOK, dnsVars, DnsState
  <2>3. SubsFollowTable'
    BY <1>t, <1>3, <2>1 DEF SubsFollowTable
  <2> QED BY <1>3, <2>1, <2>2, <2>3 DEF ConnInv, TableFollowsConfig
<1>4. CASE SecondConnected
  <2>1. Refresh /\ justConn' = FALSE /\ told' = TRUE /\ dnsVars' = dnsVars /\ faults' = faults /\ main' = main
    BY <1>4 DEF SecondConnected, dnsVars
  <2>2. loops' \in {LoopsMax - 2} \/ loops' = loops
    BY <1>4 DEF SecondConnected
  <2>3. loops' \in 0 .. LoopsMax + 2 + MaxFaults /\ LoopsBounded' /\ faults' \in 0 .. MaxFaults
    BY <1>k, <1>s, <2>1, <2>2
  <2>4. /\ link' \in {"none", "down", "connecting", "up"} /\ choked' \in BOOLEAN /\ subs' \in Topics \cup {NoSubs}
        /\ link' = "up" => link = "up" /\ subs' = subs /\ ~Expires
    BY <1>k, <1>d, <1>4 DEF SecondConnected, ClosesNow, clientVars
  <2> QED BY <1>3, <2>1, <2>3, <2>4
<1>5. CASE SecondWaiting
  <2>1. /\ Refresh /\ justConn' = justConn /\ told' = FALSE /\ dnsVars' = dnsVars /\ faults' = faults /\ main' = main
        /\ link' = link /\ link # "up" /\ choked' = choked /\ subs' = subs /\ main = "idle"
    BY <1>5 DEF SecondWaiting, Connected, clientVars, dnsVars, Refresh
  <2>2. loops' = loops \/ (loops' = loops + 1 /\ loops < LoopsMax)
    BY <1>n, <1>5 DEF SecondWaiting, TimeToConnect
  <2>3. loops' \in 0 .. LoopsMax + 2 + MaxFaults /\ LoopsBounded' /\ faults' \in 0 .. MaxFaults
    BY <1>k, <1>s, <2>1, <2>2
  <2> QED BY <1>k, <1>3, <2>1, <2>3
<1>6. CASE AttemptConnect
  <2>1. /\ Refresh /\ justConn' = justConn /\ told' = FALSE /\ main' = main /\ main = "idle"
        /\ link' \in {"connecting", "down"} /\ choked' = FALSE /\ subs' = NoSubs
        /\ dns' = [dns EXCEPT !.resolved = FALSE]
        /\ faults' = faults \/ Fault
        /\ loops' = 0 \/ (loops' = loops + 1 /\ Fault)
    BY <1>6 DEF AttemptConnect, Refresh
  <2>2. loops' \in 0 .. LoopsMax + 2 + MaxFaults /\ LoopsBounded' /\ faults' \in 0 .. MaxFaults
    BY <1>k, <1>s, <2>1
  <2>3. dns' \in DnsState
    BY <1>a, <1>b, <2>1
  <2> QED BY <1>k, <1>3, <2>1, <2>2, <2>3
<1>7. CASE AttemptAsk \/ AttemptWait
  <2>1. /\ Refresh /\ justConn' = justConn /\ told' = FALSE /\ main = "idle" /\ faults' = faults
        /\ link' = "down" /\ choked' = FALSE /\ subs' = NoSubs
        /\ main' \in {"idle", "asked"}
        /\ loops' = 0 \/ (loops' = loops + 1 /\ main' = "asked")
        /\ dns' = [dns EXCEPT !.asked = TRUE] \/ (dns.time > 0 /\ dns' = Waited)
    BY <1>7 DEF AttemptAsk, AttemptWait, Attempt, Refresh, Disconnect
  <2>2. loops' \in 0 .. LoopsMax + 2 + MaxFaults /\ LoopsBounded' /\ faults' \in 0 .. MaxFaults
    BY <1>k, <1>s, <2>1
  <2>3. dns' \in DnsState
    BY <1>a, <1>b, <2>1
  <2> QED BY <1>k, <1>3, <2>1, <2>2, <2>3
<1>8. ASSUME UNCHANGED <<wifi, reconnect, memErrors, justConn, confVars, ota, told>>,
             link' \in {link, "connecting"} /\ choked' = choked /\ subs' = subs,
             dns' \in DnsState, main' \in {"idle", "asked"},
             loops' \in 0 .. LoopsMax + 2 + MaxFaults /\ LoopsBounded' /\ faults' \in 0 .. MaxFaults
      PROVE  ConnInv'
  <2>1. ConnTypeOK'
    BY <1>k, <1>8 DEF confVars, ConnTypeOK
  <2> QED BY <1>t, <1>8, <2>1 DEF confVars, ConnInv, TableFollowsConfig, SubsFollowTable
<1>9. CASE AskedInProgress \/ AskedAnswered \/ AskedFails
  <2>1. /\ main' = "idle" /\ UNCHANGED <<wifi, reconnect, memErrors, justConn, confVars, ota, told>>
        /\ link' \in {link, "connecting"} /\ choked' = choked /\ subs' = subs
        /\ faults' = faults \/ Fault
        /\ loops' = 0 \/ (loops' = loops /\ Fault)
        /\ dns' = [dns EXCEPT !.time = DnsPatience, !.resolved = FALSE]
           \/ dns' = [time |-> 0, resolved |-> FALSE, asked |-> FALSE]
    BY <1>9 DEF AskedInProgress, AskedAnswered, AskedFails, clientVars
  <2>2. loops' \in 0 .. LoopsMax + 2 + MaxFaults /\ LoopsBounded' /\ faults' \in 0 .. MaxFaults
    BY <1>k, <1>s, <2>1
  <2>3. dns' \in DnsState
    BY <1>a, <1>b, <2>1
  <2> QED BY <1>8, <2>1, <2>2, <2>3
<1>10. CASE dnsFound(TRUE) \/ dnsFound(FALSE) \/ DnsLost
  <2>1. /\ main' = main /\ UNCHANGED <<wifi, reconnect, memErrors, justConn, confVars, ota, told>>
        /\ link' = link /\ choked' = choked /\ subs' = subs
        /\ faults' = faults \/ Fault
        /\ loops' = LoopsMax + 1 \/ loops' = loops
        /\ \/ dns' = [dns EXCEPT !.asked = FALSE]
           \/ \E b \in BOOLEAN : dns' = [time |-> 0, resolved |-> b, asked |-> FALSE]
    BY <1>10 DEF dnsFound, DnsLost, clientVars
  <2>2. loops' \in 0 .. LoopsMax + 2 + MaxFaults /\ LoopsBounded' /\ faults' \in 0 .. MaxFaults
    BY <1>k, <1>s, <2>1
  <2>3. dns' \in DnsState
    BY <1>a, <1>b, <2>1
  <2> QED BY <1>k, <1>8, <2>1, <2>2, <2>3
<1>11. CASE Accepted
  <2>1. loops' \in 0 .. LoopsMax + 2 + MaxFaults /\ LoopsBounded' /\ faults' \in 0 .. MaxFaults
    BY <1>k, <1>s, <1>11 DEF Accepted, dnsVars
  <2>2. ConnTypeOK'
    BY <1>k, <1>11, <2>1 DEF Accepted, dnsVars, ConnTypeOK
  <2> QED BY <1>t, <1>11, <2>1, <2>2
    DEF Accepted, ConnInv, TableFollowsConfig, SubsFollowTable
<1>12. ASSUME loops' = loops, main' = main, dns' = dns, faults' = faults \/ Fault,
              reconnect' = reconnect, justConn' = justConn, told' = told, table' = table, forgotten' = forgotten,
              (link' = link /\ subs' = subs) \/ (link' = "down" /\ subs' = NoSubs),
              choked' \in BOOLEAN, ota' \in BOOLEAN, memErrors' \in 0 .. MemErrorMax,
              (config' = config /\ dirty' = dirty) \/ (config' \in Topics /\ dirty' = TRUE),
              wifi' \in BOOLEAN
       PROVE  ConnInv'
  <2>1. loops' \in 0 .. LoopsMax + 2 + MaxFaults /\ LoopsBounded' /\ faults' \in 0 .. MaxFaults
    BY <1>k, <1>s, <1>12
  <2>2. ConnTypeOK'
    BY <1>k, <1>12, <2>1 DEF ConnTypeOK
  <2>3. TableFollowsConfig'
    BY <1>t, <1>12 DEF TableFollowsConfig
  <2>4. SubsFollowTable'
    BY <1>t, <1>12 DEF SubsFollowTable
  <2> QED BY <1>t, <1>12, <2>1, <2>2, <2>3, <2>4 DEF ConnInv
<1>13. CASE Refused
  BY <1>k, <1>12, <1>13 DEF Refused, Disconnect, dnsVars, confVars
<1>14. CASE WiFiLost \/ WiFiBack
  BY <1>k, <1>12, <1>14 DEF WiFiLost, WiFiBack, Disconnect, clientVars, dnsVars, confVars
<1>15. ASSUME NEW t \in Topics, ChangeTopic(t)
       PROVE  ConnInv'
  BY <1>k, <1>12, <1>15 DEF ChangeTopic, clientVars, dnsVars
<1>16. CASE Choke \/ PublishFails
  <2>1. CASE Choke
    BY <1>k, <1>12, <2>1 DEF Choke, dnsVars, confVars
  <2>2. CASE PublishFails
    <3>1. memErrors' \in 0 .. MemErrorMax
      BY <1>k, <2>2 DEF PublishFails
    <3> QED BY <1>k, <1>12, <2>2, <3>1 DEF PublishFails, clientVars, dnsVars, confVars
  <2> QED BY <1>16, <2>1, <2>2
<1>17. CASE OtaStarts \/ OtaFails
  BY <1>k, <1>12, <1>17 DEF OtaStarts, OtaFails, clientVars, dnsVars, confVars
<1> QED
  BY <1>1, <1>2, <1>4, <1>5, <1>6, <1>7, <1>9, <1>10, <1>11, <1>13, <1>14, <1>15, <1>16, <1>17
  DEF ConnNext, MQTT_RunEverySecondUpdate, Working, Lwip, Environment

LEMMA ConnInvAlways == ConnSpec => []ConnInv
<1>1. ConnInit => ConnInv
  <2> SUFFICES ASSUME ConnInit PROVE ConnInv
    OBVIOUS
  <2>1. dns \in DnsState
    BY DEF ConnInit, DnsState
  <2>2. ConnTypeOK
    <3>1. /\ wifi = FALSE /\ link = "none" /\ choked = FALSE /\ loops = 0 /\ reconnect = 0 /\ memErrors = 0
          /\ justConn = FALSE /\ main = "idle" /\ config \in Topics /\ table \in Topics /\ subs = NoSubs
          /\ dirty = FALSE /\ forgotten = FALSE /\ ota = FALSE /\ told = FALSE /\ faults = 0
      BY DEF ConnInit
    <3>2. 0 \in 0 .. LoopsMax + 2 + MaxFaults /\ 0 \in 0 .. ReconnectDelay /\ 0 \in 0 .. MemErrorMax /\ 0 \in 0 .. MaxFaults
      OBVIOUS
    <3> QED BY <2>1, <3>1, <3>2 DEF ConnTypeOK
  <2> QED BY <2>2 DEF ConnInit, ConnInv, LoopsBounded, TableFollowsConfig, SubsFollowTable
<1>2. ConnInv /\ [ConnNext]_connVars => ConnInv'
  BY ConnStep
<1> QED BY <1>1, <1>2, PTL DEF ConnSpec

\* A client that is connected with other subscriptions than the configured topics
\* has a reconnect coming, however the topics were changed and the WiFi, the broker
\* and the name server failed meanwhile, and whether or not the client outlived it,
\* unless a second without WiFi cleared that very reconnect while it was connected
\* (MQTT_RunEverySecondUpdate, new_mqtt.c:2226-2255).
THEOREM StaleReconnects == ConnSpec => []StaleSubscriptionsReconnect
<1>1. ConnInv => StaleSubscriptionsReconnect
  BY DEF ConnInv, ConnTypeOK, TableFollowsConfig, SubsFollowTable, NewSubscriptionReconnects, StaleSubscriptionsReconnect
<1>2. ConnSpec => []ConnInv
  BY ConnInvAlways
<1> QED BY <1>1, <1>2, PTL

(***************************************************************************)
(* The receive task                                                        *)
(***************************************************************************)
HIDE ConnectionAssumption DEF ConnectionAssumption
USE RxTaskAssumption DEF RxTaskAssumption

\* A message that moves from the queue to those handled keeps its place.
LEMMA MovesOver ==
  ASSUME NEW S, NEW s \in Seq(S), NEW q \in Seq(S), q # <<>>
  PROVE  Append(s, Head(q)) \o Tail(q) = s \o q
<1>1. Head(q) \in S /\ Tail(q) \in Seq(S) /\ q = <<Head(q)>> \o Tail(q)
  BY HeadTailProperties, ConcatProperties
<1>2. Append(s, Head(q)) = s \o <<Head(q)>> /\ <<Head(q)>> \in Seq(S)
  BY <1>1, AppendIsConcat
<1>3. (s \o <<Head(q)>>) \o Tail(q) = s \o (<<Head(q)>> \o Tail(q))
  BY <1>1, <1>2, ConcatAssociative
<1> QED BY <1>1, <1>2, <1>3

\* A message that arrives comes last.
LEMMA ComesLast ==
  ASSUME NEW S, NEW s \in Seq(S), NEW q \in Seq(S), NEW m \in S
  PROVE  s \o Append(q, m) = Append(s \o q, m)
<1>1. Append(q, m) = q \o <<m>> /\ <<m>> \in Seq(S) /\ s \o q \in Seq(S)
  BY AppendIsConcat, ConcatProperties
<1>2. Append(s \o q, m) = (s \o q) \o <<m>>
  BY <1>1, AppendIsConcat
<1> QED BY <1>1, <1>2, ConcatAssociative

Arrived == handled \o queue
RxTaskInv ==
  /\ RxTaskTypeOK /\ HandledInOrder
  /\ \A i \in 1 .. Len(Arrived) : Arrived[i] < next

LEMMA RxTaskStep == RxTaskInv /\ [RxTaskNext]_rxTaskVars => RxTaskInv'
<1> SUFFICES ASSUME RxTaskInv, [RxTaskNext]_rxTaskVars PROVE RxTaskInv'
  OBVIOUS
<1> DEFINE M == 1 .. MaxMessage
<1>t. RxTaskTypeOK
  BY DEF RxTaskInv
<1>k. /\ board \in Boards /\ next \in 1 .. MaxMessage + 1 /\ queue \in Seq(M) /\ handled \in Seq(M)
      /\ triggered \in BOOLEAN /\ armed \in BOOLEAN
      /\ tcp \in {"idle", "trigger", "start"} /\ task \in {"idle", "drain", "clear"}
  BY <1>t DEF RxTaskTypeOK
<1>a. Arrived \in Seq(M)
  BY <1>k, ConcatProperties DEF Arrived
<1>1. ASSUME Arrived' = Arrived, next' >= next, RxTaskTypeOK' PROVE RxTaskInv'
  <2>1. \A i \in 1 .. Len(Arrived') : Arrived'[i] < next'
    BY <1>a, <1>k, <1>1 DEF RxTaskInv, RxTaskTypeOK
  <2>2. HandledInOrder'
    BY <1>1 DEF RxTaskInv, HandledInOrder, Arrived
  <2> QED BY <1>1, <2>1, <2>2 DEF RxTaskInv
<1>2. CASE UNCHANGED rxTaskVars
  BY <1>k, <1>1, <1>2 DEF rxTaskVars, RxTaskTypeOK, Arrived
<1>3. CASE Post
  <2>1. /\ next \in M /\ queue' = Append(queue, next) /\ next' = next + 1 /\ handled' = handled
        /\ next' \in 1 .. MaxMessage + 1
    BY <1>k, <1>3 DEF Post
  <2>2. queue' \in Seq(M)
    BY <1>k, <2>1, AppendProperties
  <2>3. Arrived' = Append(Arrived, next)
    BY <1>k, <2>1, ComesLast DEF Arrived
  <2>4. /\ Len(Arrived') = Len(Arrived) + 1 /\ Arrived'[Len(Arrived) + 1] = next
        /\ \A i \in 1 .. Len(Arrived) : Arrived'[i] = Arrived[i] /\ Arrived[i] \in M
        /\ Len(Arrived) \in Nat
    BY <1>a, <2>1, <2>3, AppendProperties
  <2>5. HandledInOrder'
    <3>1. \A i \in 2 .. Len(Arrived) : Arrived[i - 1] < Arrived[i]
      BY DEF RxTaskInv, HandledInOrder, Arrived
    <3>2. \A i \in 1 .. Len(Arrived) : Arrived[i] < next
      BY DEF RxTaskInv
    <3>3. \A i \in 2 .. Len(Arrived') : Arrived'[i - 1] < Arrived'[i]
      BY <2>4, <3>1, <3>2
    <3> QED BY <3>3 DEF HandledInOrder, Arrived
  <2>6. \A i \in 1 .. Len(Arrived') : Arrived'[i] < next'
    <3>1. \A i \in 1 .. Len(Arrived) : Arrived'[i] < next
      BY <2>4 DEF RxTaskInv
    <3>2. \A i \in 1 .. Len(Arrived) + 1 : Arrived'[i] \in M /\ Arrived'[i] <= next
      BY <2>1, <2>4, <3>1
    <3> QED BY <1>k, <2>1, <2>4, <3>2
  <2>7. RxTaskTypeOK'
    BY <1>k, <1>3, <2>1, <2>2 DEF Post, RxTaskTypeOK
  <2> QED BY <2>5, <2>6, <2>7 DEF RxTaskInv
<1>4. CASE PostDropped \/ PostWithoutRoom
  <2>1. RxTaskTypeOK'
    BY <1>k, <1>4 DEF PostDropped, PostWithoutRoom, RxTaskTypeOK
  <2>2. queue' = queue /\ handled' = handled /\ next' = next + 1
    BY <1>4 DEF PostDropped, PostWithoutRoom
  <2> QED BY <1>k, <1>1, <2>1, <2>2 DEF Arrived
<1>5. CASE Tcp
  <2>1. RxTaskTypeOK'
    BY <1>k, <1>5 DEF Tcp, SetTrigger, StartTimer, RxTaskTypeOK
  <2>2. queue' = queue /\ handled' = handled /\ next' = next
    BY <1>5 DEF Tcp, SetTrigger, StartTimer
  <2> QED BY <1>k, <1>1, <2>1, <2>2 DEF Arrived
<1>6. CASE Fire \/ QuickTick \/ DrainEnds \/ ClearTrigger
  <2>1. RxTaskTypeOK'
    BY <1>k, <1>6 DEF Fire, QuickTick, DrainEnds, AfterLoop, ClearTrigger, RxTaskTypeOK
  <2>2. queue' = queue /\ handled' = handled /\ next' = next
    BY <1>6 DEF Fire, QuickTick, DrainEnds, ClearTrigger
  <2> QED BY <1>k, <1>1, <2>1, <2>2 DEF Arrived
<1>7. CASE Drain
  <2>1. /\ queue # <<>> /\ handled' = Append(handled, Head(queue)) /\ queue' = Tail(queue) /\ next' = next
    BY <1>7 DEF Drain, Rest
  <2>2. handled' \in Seq(M) /\ queue' \in Seq(M)
    BY <1>k, <2>1, HeadTailProperties, AppendProperties
  <2>3. Arrived' = Arrived
    BY <1>k, <2>1, MovesOver DEF Arrived
  <2>4. RxTaskTypeOK'
    BY <1>k, <1>7, <2>1, <2>2 DEF Drain, RxTaskTypeOK
  <2> QED BY <1>k, <1>1, <2>1, <2>3, <2>4
<1> QED BY <1>2, <1>3, <1>4, <1>5, <1>6, <1>7 DEF RxTaskNext, Task

\* The callbacks see the messages in the order in which lwIP's thread queued them,
\* each at most once, for any number of messages and on every board, whatever the
\* two threads, the timer and the mutex do (MQTT_Post_Received, MQTT_process_received).
THEOREM OrderKept == RxTaskSpec => []HandledInOrder
<1>1. RxTaskInit => RxTaskInv
  <2> SUFFICES ASSUME RxTaskInit PROVE RxTaskInv
    OBVIOUS
  <2>1. Arrived = <<>> /\ <<>> \in Seq(1 .. MaxMessage)
    BY DEF RxTaskInit, Arrived
  <2>2. Len(Arrived) = 0
    BY <2>1
  <2>3. RxTaskTypeOK
    <3>1. 1 \in 1 .. MaxMessage + 1 /\ <<>> \in Seq(1 .. MaxMessage)
      OBVIOUS
    <3>2. /\ board \in Boards /\ next = 1 /\ queue = <<>> /\ handled = <<>>
          /\ triggered \in BOOLEAN /\ armed \in BOOLEAN
          /\ tcp \in {"idle", "trigger", "start"} /\ task \in {"idle", "drain", "clear"}
      BY DEF RxTaskInit
    <3> QED BY <3>1, <3>2 DEF RxTaskTypeOK
  <2>4. HandledInOrder
    BY <2>1, <2>2 DEF HandledInOrder, Arrived
  <2> QED BY <2>2, <2>3, <2>4 DEF RxTaskInv
<1>2. RxTaskInv /\ [RxTaskNext]_rxTaskVars => RxTaskInv'
  BY RxTaskStep
<1>3. RxTaskInv => HandledInOrder
  BY DEF RxTaskInv
<1> QED BY <1>1, <1>2, <1>3, PTL DEF RxTaskSpec

(***************************************************************************)
(* The table of callbacks                                                  *)
(***************************************************************************)
HIDE RxTaskAssumption DEF RxTaskAssumption
\* A set of numbers that is not empty has a least one.
LEMMA HasMin ==
  ASSUME NEW T, T \subseteq Nat, T # {}
  PROVE  Min(T) \in T /\ \A y \in T : Min(T) <= y
<1>1. \A x, y \in Nat : <<y, x>> \in OpToRel(<, Nat) <=> y < x
  BY DEF OpToRel
<1>2. \E R : IsWellFoundedOn(R, Nat) /\ \A x, y \in Nat : <<y, x>> \in R <=> y < x
  BY <1>1, NatLessThanWellFounded, Zenon
<1>3. PICK R : IsWellFoundedOn(R, Nat) /\ \A x, y \in Nat : <<y, x>> \in R <=> y < x
  BY <1>2
<1>6. \E x \in T : \A y \in T : ~ (<<y, x>> \in R)
  BY <1>3, WFMin
<1>4. PICK x \in T : \A y \in T : ~ (<<y, x>> \in R)
  BY <1>6
<1>5. ASSUME NEW y \in T PROVE x <= y
  <2>1. ~ (<<y, x>> \in R) /\ y \in Nat /\ x \in Nat
    BY <1>4
  <2>2. ~ (y < x)
    BY <1>3, <2>1, Zenon
  <2> QED BY <2>1, <2>2
<1> QED BY <1>5 DEF Min

USE CallbacksAssumption DEF CallbacksAssumption

\* The table has room for every topic there is.
TableLarge == MaxCallbacks >= 8

\* A list of n topics out of a set, each once.
Lists(s, topics, n) ==
  /\ s \in Seq(topics) /\ Len(s) = n
  /\ \A i, j \in 1 .. Len(s) : s[i] = s[j] => i = j

LEMMA ListsGlued ==
  ASSUME NEW R, NEW Q, R \cap Q = {}, NEW s, NEW t, NEW n \in Nat, NEW m \in Nat,
         Lists(s, R, n), Lists(t, Q, m),
         NEW u \in Seq(R \cup Q), Len(u) = n + m,
         \A i \in 1 .. n + m : u[i] = IF i <= n THEN s[i] ELSE t[i - n]
  PROVE  Lists(u, R \cup Q, n + m)
<1>1. (\A i \in 1 .. n : s[i] \in R) /\ (\A i \in 1 .. m : t[i] \in Q)
  BY DEF Lists
<1>2. ASSUME NEW i \in 1 .. n + m, NEW j \in 1 .. n + m, u[i] = u[j] PROVE i = j
  <2>1. /\ i \in 1 .. n \/ (i > n /\ i - n \in 1 .. m)
        /\ j \in 1 .. n \/ (j > n /\ j - n \in 1 .. m)
    OBVIOUS
  <2>2. CASE i <= n /\ j <= n
    BY <1>2, <2>2 DEF Lists
  <2>3. CASE i > n /\ j > n
    BY <1>2, <2>1, <2>3 DEF Lists
  <2>4. CASE i <= n /\ j > n
    <3>1. u[i] \in R /\ u[j] \in Q
      BY <1>1, <2>1, <2>4
    <3> QED BY <1>2, <3>1
  <2>5. CASE i > n /\ j <= n
    <3>1. u[j] \in R /\ u[i] \in Q
      BY <1>1, <2>1, <2>5
    <3> QED BY <1>2, <3>1
  <2> QED BY <2>2, <2>3, <2>4, <2>5
<1> QED BY <1>2 DEF Lists

LEMMA ListsJoin ==
  ASSUME NEW R, NEW Q, R \cap Q = {}, NEW s, NEW t, NEW n \in Nat, NEW m \in Nat,
         Lists(s, R, n), Lists(t, Q, m)
  PROVE  Lists(s \o t, R \cup Q, n + m)
<1>1. s \in Seq(R \cup Q) /\ t \in Seq(R \cup Q) /\ Len(s) = n /\ Len(t) = m
  BY DEF Lists
<1>2. /\ s \o t \in Seq(R \cup Q) /\ Len(s \o t) = Len(s) + Len(t)
      /\ \A i \in 1 .. Len(s) + Len(t) : (s \o t)[i] = IF i <= Len(s) THEN s[i] ELSE t[i - Len(s)]
  BY <1>1, ConcatProperties
<1>3. /\ s \o t \in Seq(R \cup Q) /\ Len(s \o t) = n + m
      /\ \A i \in 1 .. n + m : (s \o t)[i] = IF i <= n THEN s[i] ELSE t[i - n]
  BY <1>1, <1>2, Zenon
<1> QED BY <1>3, ListsGlued

LEMMA ListsOptional ==
  ASSUME NEW b \in BOOLEAN, NEW s, NEW R, NEW n \in Nat, Lists(s, R, n)
  PROVE  Lists(Optional(b, s), R, IF b THEN n ELSE 0)
<1>1. Lists(<<>>, R, 0)
  BY DEF Lists
<1> QED BY <1>1 DEF Optional

TopicCount(c) == 4 + (IF c.group THEN 2 ELSE 0) + (IF c.tele THEN 2 ELSE 0)

LEMMA TopicsSound ==
  ASSUME NEW c \in [group : BOOLEAN, tele : BOOLEAN]
  PROVE  /\ TopicsOf(c) \in Seq(AllTopics) /\ Len(TopicsOf(c)) = TopicCount(c)
         /\ \A i, j \in 1 .. Len(TopicsOf(c)) : TopicsOf(c)[i] = TopicsOf(c)[j] => i = j
         /\ ToSet(TopicsOf(c)) = {TopicsOf(c)[i] : i \in 1 .. Len(TopicsOf(c))}
<1> DEFINE g == IF c.group THEN 1 ELSE 0
           e == IF c.tele THEN 2 ELSE 0
           a1 == <<"set">> \o Optional(c.group, <<"groupSet">>)
           a2 == a1 \o <<"cmnd">>
           a3 == a2 \o Optional(c.group, <<"groupCmnd">>)
           a4 == a3 \o <<"get">>
           a5 == a4 \o Optional(c.tele, <<"tele", "stat">>)
           s1 == {"set"} \cup {"groupSet"}
           s2 == s1 \cup {"cmnd"}
           s3 == s2 \cup {"groupCmnd"}
           s4 == s3 \cup {"get"}
           s5 == s4 \cup {"tele", "stat"}
           n1 == 1 + g
           n2 == n1 + 1
           n3 == n2 + g
           n4 == n3 + 1
           n5 == n4 + e
<1>1. \A t : Lists(<<t>>, {t}, 1)
  BY DEF Lists
<1>2. Lists(Optional(c.group, <<"groupSet">>), {"groupSet"}, g) /\ Lists(Optional(c.group, <<"groupCmnd">>), {"groupCmnd"}, g)
  <2>1. c.group \in BOOLEAN /\ 1 \in Nat
    OBVIOUS
  <2> QED BY <1>1, <2>1, ListsOptional, Zenon
<1>3. Lists(Optional(c.tele, <<"tele", "stat">>), {"tele", "stat"}, e)
  <2>1. Lists(<<"tele", "stat">>, {"tele", "stat"}, 2)
    BY DEF Lists
  <2> QED BY <2>1, ListsOptional
<1>4. /\ 1 \in Nat /\ g \in Nat /\ e \in Nat
      /\ n1 \in Nat /\ n2 \in Nat /\ n3 \in Nat /\ n4 \in Nat /\ n5 \in Nat
  OBVIOUS
<1>5. TopicsOf(c) = a5 \o <<"hass">>
  BY DEF TopicsOf
<1>6. n5 + 1 = TopicCount(c)
  BY DEF TopicCount
<1>7. s5 \cup {"hass"} = AllTopics
  BY DEF AllTopics
<1>8. /\ {"set"} \cap {"groupSet"} = {} /\ s1 \cap {"cmnd"} = {} /\ s2 \cap {"groupCmnd"} = {}
      /\ s3 \cap {"get"} = {} /\ s4 \cap {"tele", "stat"} = {} /\ s5 \cap {"hass"} = {}
  OBVIOUS
<1> HIDE DEF g, e, a1, a2, a3, a4, a5, s1, s2, s3, s4, s5, n1, n2, n3, n4, n5
<1>9. Lists(a1, s1, n1)
  BY <1>1, <1>2, <1>4, <1>8, ListsJoin DEF a1, s1, n1
<1>10. Lists(a2, s2, n2)
  BY <1>1, <1>4, <1>8, <1>9, ListsJoin DEF a2, s2, n2
<1>11. Lists(a3, s3, n3)
  BY <1>2, <1>4, <1>8, <1>10, ListsJoin DEF a3, s3, n3
<1>12. Lists(a4, s4, n4)
  BY <1>1, <1>4, <1>8, <1>11, ListsJoin DEF a4, s4, n4
<1>13. Lists(a5, s5, n5)
  BY <1>3, <1>4, <1>8, <1>12, ListsJoin DEF a5, s5, n5
<1>14. Lists(TopicsOf(c), AllTopics, TopicCount(c))
  <2>1. Lists(a5 \o <<"hass">>, s5 \cup {"hass"}, n5 + 1)
    BY <1>1, <1>4, <1>8, <1>13, ListsJoin
  <2> QED BY <1>5, <1>6, <1>7, <2>1, Zenon
<1> QED BY <1>14 DEF Lists, ToSet

\* During a rebuilding, the entries that were registered are the first topics of the
\* configuration it began with, in their order, and every other entry is empty.
Done == TopicCount(built) - Len(toRegister)
Filled ==
  /\ toRegister \in Seq(AllTopics) /\ Done \in 0 .. numCallbacks
  /\ \A i \in 1 .. Len(toRegister) : toRegister[i] = TopicsOf(built)[Done + i]
  /\ \A i \in 1 .. MaxCallbacks : callbacks[i] = IF i <= Done THEN TopicsOf(built)[i] ELSE Empty

FillInv == CallbacksTypeOK /\ Filled /\ (topicDirty \/ built.group = conf.group)

LEMMA CountTypes ==
  ASSUME NEW c \in Configs
  PROVE  /\ TopicCount(c) \in 4 .. 8 /\ TopicsOf(c) \in Seq(AllTopics) /\ Len(TopicsOf(c)) = TopicCount(c)
         /\ \A i \in 1 .. TopicCount(c) : TopicsOf(c)[i] \in AllTopics /\ TopicsOf(c)[i] # Empty
<1>1. c \in [group : BOOLEAN, tele : BOOLEAN]
  OBVIOUS
<1>2. TopicCount(c) \in 4 .. 8
  BY <1>1 DEF TopicCount
<1>3. Empty \notin AllTopics
  BY DEF Empty, AllTopics
<1>4. TopicsOf(c) \in Seq(AllTopics) /\ Len(TopicsOf(c)) = TopicCount(c)
  BY <1>1, TopicsSound
<1>5. \A i \in 1 .. TopicCount(c) : TopicsOf(c)[i] \in AllTopics
  BY <1>2, <1>4
<1> QED BY <1>2, <1>3, <1>4, <1>5

\* MQTT_RegisterCallback finds the first entry behind those that are filled.
LEMMA EntryFound ==
  ASSUME TableLarge, FillInv, Rebuilding
  PROVE  Entry = Done + 1 /\ Entry <= MaxCallbacks
<1>1. /\ built \in Configs /\ numCallbacks \in 0 .. MaxCallbacks /\ MaxCallbacks \in Nat /\ Done \in 0 .. numCallbacks
      /\ toRegister \in Seq(AllTopics) /\ toRegister # <<>>
      /\ \A i \in 1 .. MaxCallbacks : callbacks[i] = IF i <= Done THEN TopicsOf(built)[i] ELSE Empty
  BY DEF FillInv, Filled, CallbacksTypeOK, Rebuilding
<1>2. Done < TopicCount(built) /\ TopicCount(built) \in 4 .. 8
  <2>1. Len(toRegister) \in Nat \ {0}
    BY <1>1
  <2> QED BY <1>1, <2>1, CountTypes DEF Done
<1> DEFINE I == {i \in 1 .. numCallbacks : callbacks[i] = Empty}
<1>3. I = Done + 1 .. numCallbacks
  <2>1. \A i \in 1 .. Done : callbacks[i] # Empty
    BY <1>1, <1>2, CountTypes
  <2>2. \A i \in Done + 1 .. numCallbacks : callbacks[i] = Empty
    BY <1>1
  <2> HIDE DEF Done
  <2> QED BY <1>1, <2>1, <2>2
<1>4. FreeEntry = IF I # {} THEN Min(I) ELSE 0
  BY DEF FreeEntry, SelectInSubSeq
<1> HIDE DEF I
<1>5. CASE Done = numCallbacks
  <2>1. FreeEntry = 0
    BY <1>1, <1>3, <1>4, <1>5
  <2> QED BY <1>1, <1>2, <1>5, <2>1 DEF Entry, TableLarge
<1>6. CASE Done < numCallbacks
  <2>1. Done + 1 \in I /\ \A i \in I : Done + 1 <= i
    BY <1>1, <1>3, <1>6
  <2>2. I \subseteq Int
    BY <1>1, <1>3
  <2>3. Min(I) = Done + 1
    <3>1. \A m \in I : (\A i \in I : m <= i) => m = Done + 1
      BY <1>1, <2>1, <2>2
    <3> QED BY <2>1, <3>1 DEF Min
  <2>4. FreeEntry = Done + 1 /\ FreeEntry # 0
    BY <1>1, <1>4, <2>1, <2>3
  <2> QED BY <1>1, <1>2, <2>4 DEF Entry, TableLarge
<1> QED BY <1>1, <1>5, <1>6

\* The steps that leave the table alone.
LEMMA FillKept ==
  ASSUME FillInv, UNCHANGED <<callbacks, numCallbacks, built, toRegister>>,
         conf' \in Configs, topicDirty' \/ built.group = conf'.group,
         subscribed' \subseteq AllTopics, request' \in AllTopics \cup {Empty}, waiting' \in Seq(AllTopics),
         messagesLeft' \in 0 .. MaxMessages
  PROVE  FillInv'
<1>1. Done' = Done
  BY DEF Done, TopicCount
<1>2. Filled'
  BY <1>1 DEF FillInv, Filled
<1>3. CallbacksTypeOK'
  BY DEF FillInv, CallbacksTypeOK
<1> QED BY <1>2, <1>3 DEF FillInv

LEMMA FillCleared == TableLarge /\ FillInv /\ ClearCallbacks => FillInv'
<1> SUFFICES ASSUME TableLarge, FillInv, ClearCallbacks PROVE FillInv'
  OBVIOUS
<1>1. /\ conf \in Configs /\ built' = conf /\ conf' = conf /\ toRegister' = TopicsOf(conf)
      /\ numCallbacks' = numCallbacks /\ numCallbacks \in 0 .. MaxCallbacks
      /\ callbacks' = [i \in 1 .. MaxCallbacks |-> Empty]
      /\ UNCHANGED <<subscribed, request, waiting, messagesLeft>>
  BY DEF FillInv, CallbacksTypeOK, ClearCallbacks
<1>2. /\ TopicsOf(conf) \in Seq(AllTopics) /\ Len(TopicsOf(conf)) = TopicCount(conf) /\ TopicCount(conf) \in 4 .. 8
  BY <1>1, CountTypes
<1>3. Done' = 0
  BY <1>1, <1>2 DEF Done
<1>4. \A i \in 1 .. Len(toRegister') : toRegister'[i] = TopicsOf(built')[Done' + i]
  BY <1>1, <1>2, <1>3
<1>5. Filled'
  BY <1>1, <1>2, <1>3, <1>4 DEF Filled
<1>6. CallbacksTypeOK'
  BY <1>1 DEF FillInv, CallbacksTypeOK
<1> QED BY <1>1, <1>5, <1>6 DEF FillInv

LEMMA FillRegistered ==
  ASSUME TableLarge, FillInv, RegisterCallback
  PROVE  FillInv' /\ Done < TopicCount(built) /\ numCallbacks' \in {numCallbacks, Done + 1}
<1>1. /\ built \in Configs /\ built' = built /\ conf' = conf /\ conf \in Configs /\ topicDirty' = topicDirty
      /\ toRegister \in Seq(AllTopics) /\ toRegister # <<>> /\ toRegister' = Tail(toRegister)
      /\ numCallbacks \in 0 .. MaxCallbacks /\ Done \in 0 .. numCallbacks /\ MaxCallbacks \in Nat
      /\ \A i \in 1 .. Len(toRegister) : toRegister[i] = TopicsOf(built)[Done + i]
      /\ \A i \in 1 .. MaxCallbacks : callbacks[i] = IF i <= Done THEN TopicsOf(built)[i] ELSE Empty
      /\ callbacks \in [1 .. MaxCallbacks -> AllTopics \cup {Empty}]
      /\ UNCHANGED <<subscribed, request, waiting, messagesLeft>>
  BY DEF FillInv, Filled, CallbacksTypeOK, RegisterCallback, Rebuilding
<1>2. Entry = Done + 1 /\ Done + 1 <= MaxCallbacks
  BY EntryFound DEF RegisterCallback
<1>3. /\ callbacks' = [callbacks EXCEPT ![Done + 1] = Head(toRegister)]
      /\ numCallbacks' = IF Done = numCallbacks THEN Done + 1 ELSE numCallbacks
  BY <1>1, <1>2 DEF RegisterCallback, Counted
<1>4. /\ Head(toRegister) = toRegister[1] /\ Head(toRegister) \in AllTopics /\ Len(toRegister) \in Nat \ {0}
      /\ Tail(toRegister) \in Seq(AllTopics) /\ Len(Tail(toRegister)) = Len(toRegister) - 1
      /\ \A i \in 1 .. Len(toRegister) - 1 : Tail(toRegister)[i] = toRegister[i + 1]
  BY <1>1
<1>5. TopicCount(built) \in 4 .. 8
  BY <1>1, CountTypes
<1>6. Done < TopicCount(built) /\ Done' = Done + 1
  BY <1>1, <1>4, <1>5 DEF Done, TopicCount
<1>7. \A i \in 1 .. Len(toRegister') : toRegister'[i] = TopicsOf(built')[Done' + i]
  <2> HIDE DEF Done
  <2>1. \A i \in 1 .. Len(toRegister) - 1 : toRegister'[i] = TopicsOf(built)[Done + (i + 1)]
    BY <1>1, <1>4
  <2>2. \A i \in 1 .. Len(toRegister) - 1 : Done + (i + 1) = Done' + i
    BY <1>1, <1>4, <1>6
  <2> QED BY <1>1, <1>4, <2>1, <2>2
<1>8. \A i \in 1 .. MaxCallbacks : callbacks'[i] = IF i <= Done' THEN TopicsOf(built')[i] ELSE Empty
  <2>1. toRegister[1] = TopicsOf(built)[Done + 1]
    BY <1>1, <1>4
  <2> QED BY <1>1, <1>2, <1>3, <1>4, <1>6, <2>1
<1>9. Filled'
  BY <1>1, <1>2, <1>3, <1>4, <1>6, <1>7, <1>8 DEF Filled
<1>10. CallbacksTypeOK'
  BY <1>1, <1>2, <1>3, <1>4 DEF FillInv, CallbacksTypeOK
<1> QED BY <1>1, <1>3, <1>6, <1>9, <1>10 DEF FillInv

LEMMA FillStep == TableLarge /\ FillInv /\ [CallbacksNext]_cbVars => FillInv'
<1> SUFFICES ASSUME TableLarge, FillInv, [CallbacksNext]_cbVars PROVE FillInv'
  OBVIOUS
<1>k. /\ conf \in Configs /\ (topicDirty \/ built.group = conf.group) /\ subscribed \subseteq AllTopics
      /\ request \in AllTopics \cup {Empty} /\ waiting \in Seq(AllTopics) /\ messagesLeft \in 0 .. MaxMessages
      /\ callbacks \in [1 .. MaxCallbacks -> AllTopics \cup {Empty}] /\ numCallbacks \in 0 .. MaxCallbacks
  BY DEF FillInv, CallbacksTypeOK
<1>s. Spend => messagesLeft' \in 0 .. MaxMessages
  BY <1>k DEF Spend
<1>1. CASE UNCHANGED cbVars
  BY <1>k, <1>1, FillKept DEF cbVars, tableVars
<1>2. ASSUME NEW c \in Configs, ChangeConf(c) PROVE FillInv'
  <2>1. /\ UNCHANGED <<callbacks, numCallbacks, built, toRegister, subscribed, request, waiting>>
        /\ conf' \in Configs /\ messagesLeft' \in 0 .. MaxMessages
        /\ topicDirty' <=> topicDirty \/ conf'.group # conf.group
    BY <1>s, <1>2 DEF ChangeConf
  <2>2. topicDirty' \/ built.group = conf'.group
    BY <1>k, <2>1
  <2> QED BY <1>k, <2>1, <2>2, FillKept
<1>3. CASE ClearCallbacks
  BY <1>3, FillCleared
<1>4. CASE RegisterCallback
  BY <1>4, FillRegistered
<1>5. CASE Reconnect
  <2>1. subscribed' \subseteq AllTopics
    BY <1>k, <1>5 DEF Reconnect
  <2> QED BY <1>k, <1>5, <2>1, FillKept DEF Reconnect, tableVars
<1>6. CASE ProcessReceived
  <2>1. waiting' \in Seq(AllTopics)
    BY <1>k, <1>6, HeadTailProperties DEF ProcessReceived
  <2> QED BY <1>k, <1>6, <2>1, FillKept DEF ProcessReceived, tableVars
<1>7. ASSUME NEW t \in AllTopics, IncomingPublish(t) PROVE FillInv'
  BY <1>k, <1>s, <1>7, FillKept DEF IncomingPublish, tableVars
<1>8. CASE IncomingData
  <2>1. waiting' \in Seq(AllTopics)
    BY <1>k, <1>8, AppendProperties DEF IncomingData
  <2> QED BY <1>k, <1>8, <2>1, FillKept DEF IncomingData, tableVars
<1> QED BY <1>1, <1>2, <1>3, <1>4, <1>5, <1>6, <1>7, <1>8 DEF CallbacksNext

\* Topics are only added: nothing that was subscribed is ever taken out again.
OnlyAdded ==
  \A c \in Configs : \A d \in ChangesTo[c] : (c.group => d.group) /\ (c.tele => d.tele)

\* Then the table has no more entries than topics, and a reader no empty one.
NoHoles ==
  /\ ~readNull /\ numCallbacks <= TopicCount(built)
  /\ (built.group => conf.group) /\ (built.tele => conf.tele)

LEMMA NoHoleRead ==
  ASSUME TableLarge, FillInv, NoHoles, ~Rebuilding
  PROVE  \A i \in 1 .. numCallbacks : callbacks[i] # Empty
<1>1. /\ built \in Configs /\ numCallbacks \in 0 .. MaxCallbacks /\ toRegister = <<>> /\ Done \in 0 .. numCallbacks
      /\ \A i \in 1 .. MaxCallbacks : callbacks[i] = IF i <= Done THEN TopicsOf(built)[i] ELSE Empty
  BY DEF FillInv, Filled, CallbacksTypeOK, Rebuilding
<1>2. Done = TopicCount(built) /\ TopicCount(built) \in 4 .. 8
  BY <1>1, CountTypes DEF Done
<1> QED BY <1>1, <1>2, CountTypes DEF NoHoles

LEMMA HolesStep ==
  TableLarge /\ ~Overlapping /\ OnlyAdded /\ FillInv /\ NoHoles /\ [CallbacksNext]_cbVars => NoHoles'
<1> SUFFICES ASSUME TableLarge, ~Overlapping, OnlyAdded, FillInv, NoHoles, [CallbacksNext]_cbVars PROVE NoHoles'
  OBVIOUS
<1>k. conf \in Configs /\ built \in Configs /\ numCallbacks \in 0 .. MaxCallbacks /\ MaxCallbacks \in Nat
  BY DEF FillInv, CallbacksTypeOK
<1>0. ASSUME UNCHANGED <<numCallbacks, built, conf>>, readNull' <=> readNull PROVE NoHoles'
  BY <1>0 DEF NoHoles, TopicCount
<1>1. CASE UNCHANGED cbVars
  BY <1>0, <1>1 DEF cbVars, tableVars
<1>2. ASSUME NEW c \in Configs, ChangeConf(c) PROVE NoHoles'
  <2>1. c \in ChangesTo[conf] /\ conf' = c /\ built' = built /\ numCallbacks' = numCallbacks /\ readNull' = readNull
    BY <1>2 DEF ChangeConf
  <2>2. (conf.group => c.group) /\ (conf.tele => c.tele)
    BY <1>k, <2>1 DEF OnlyAdded
  <2> QED BY <2>1, <2>2 DEF NoHoles, TopicCount
<1>3. CASE ClearCallbacks
  <2>1. built' = conf /\ conf' = conf /\ numCallbacks' = numCallbacks /\ readNull' = readNull
    BY <1>3 DEF ClearCallbacks
  <2>2. TopicCount(built) <= TopicCount(conf) /\ TopicCount(conf) \in Nat /\ TopicCount(built) \in Nat
    BY DEF NoHoles, TopicCount
  <2>3. numCallbacks' <= TopicCount(conf)
    BY <1>k, <2>1, <2>2 DEF NoHoles
  <2>4. TopicCount(built)' = TopicCount(conf)
    BY <2>1 DEF TopicCount
  <2> QED BY <2>1, <2>3, <2>4 DEF NoHoles
<1>4. CASE RegisterCallback
  <2>1. built' = built /\ conf' = conf /\ readNull' = readNull
    BY <1>4 DEF RegisterCallback
  <2>2. Done < TopicCount(built) /\ numCallbacks' \in {numCallbacks, Done + 1} /\ Done \in Nat /\ TopicCount(built) \in Nat
    BY <1>k, <1>4, FillRegistered, CountTypes DEF FillInv, Filled
  <2>3. numCallbacks' <= TopicCount(built)
    BY <2>2 DEF NoHoles
  <2>4. TopicCount(built)' = TopicCount(built)
    BY <2>1 DEF TopicCount
  <2> QED BY <2>1, <2>3, <2>4 DEF NoHoles
<1>5. CASE Reconnect \/ IncomingData
  BY <1>0, <1>5 DEF Reconnect, IncomingData, tableVars
<1>6. CASE ProcessReceived
  <2>1. \A i \in 1 .. numCallbacks : callbacks[i] # Empty
    BY <1>6, NoHoleRead DEF ProcessReceived
  <2>2. PICK stop \in {i \in 1 .. numCallbacks : Matches(i, Head(waiting))} \cup {numCallbacks + 1} :
          readNull' = (readNull \/ \E i \in 1 .. stop - 1 : callbacks[i] = Empty)
    BY <1>6, Zenon DEF ProcessReceived
  <2>3. stop \in 1 .. numCallbacks + 1
    BY <1>k
  <2>4. \A i \in 1 .. stop - 1 : i \in 1 .. numCallbacks
    BY <1>k, <2>3
  <2>5. readNull' <=> readNull
    BY <2>1, <2>2, <2>4
  <2> QED BY <1>0, <1>6, <2>5 DEF ProcessReceived, tableVars
<1>7. ASSUME NEW t \in AllTopics, IncomingPublish(t) PROVE NoHoles'
  <2>1. \A i \in 1 .. numCallbacks : callbacks[i] # Empty
    BY <1>7, NoHoleRead DEF IncomingPublish
  <2> DEFINE I == {i \in 1 .. numCallbacks : callbacks[i] = Empty \/ BaseTopic(callbacks[i]) = BaseTopic(t)}
  <2>2. StopsAt(t) = IF I # {} THEN Min(I) ELSE 0
    BY DEF StopsAt, SelectInSubSeq
  <2>3. I \subseteq Nat
    BY <1>k
  <2>4. I # {} => Min(I) \in I
    BY <2>3, HasMin
  <2>5. StopsAt(t) # 0 => Matches(StopsAt(t), t)
    BY <2>1, <2>2, <2>4 DEF Matches
  <2>6. readNull' <=> readNull
    BY <1>7, <2>5 DEF IncomingPublish
  <2> QED BY <1>0, <1>7, <2>6 DEF IncomingPublish, tableVars
<1> QED BY <1>1, <1>2, <1>3, <1>4, <1>5, <1>6, <1>7 DEF CallbacksNext

LEMMA TableFirst ==
  ASSUME TableLarge, CallbacksInit
  PROVE  FillInv /\ NoHoles
<1>1. /\ conf \in Configs /\ built = conf /\ toRegister = <<>> /\ numCallbacks = TopicCount(conf)
      /\ TopicCount(conf) \in 4 .. 8 /\ readNull = FALSE /\ request = Empty /\ waiting = <<>>
      /\ messagesLeft = MaxMessages /\ topicDirty = FALSE
      /\ subscribed = ToSet(TopicsOf(conf))
      /\ callbacks = [i \in 1 .. MaxCallbacks |-> IF i <= numCallbacks THEN TopicsOf(conf)[i] ELSE Empty]
  BY CountTypes DEF CallbacksInit
<1>2. numCallbacks \in 0 .. MaxCallbacks /\ MaxCallbacks \in Nat
  BY <1>1 DEF TableLarge
<1>3. Done = numCallbacks /\ Len(toRegister) = 0
  BY <1>1 DEF Done
<1>4. Filled
  BY <1>1, <1>2, <1>3 DEF Filled
<1>5. subscribed \subseteq AllTopics
  <2>1. ToSet(TopicsOf(conf)) = {TopicsOf(conf)[i] : i \in 1 .. TopicCount(conf)}
    BY <1>1, TopicsSound
  <2> QED BY <1>1, <2>1, CountTypes
<1>6. CallbacksTypeOK
  BY <1>1, <1>2, <1>5, CountTypes DEF CallbacksTypeOK
<1> QED BY <1>1, <1>2, <1>4, <1>6 DEF FillInv, NoHoles

LEMMA TableComplete ==
  ASSUME FillInv
  PROVE  TableMatchesConf
<1> SUFFICES ASSUME ~Rebuilding, ~topicDirty
             PROVE  LET full == {i \in 1 .. numCallbacks : callbacks[i] # Empty}
                    IN /\ {callbacks[i] : i \in full} = ToSet(TopicsOf(built)) /\ built.group = conf.group
                       /\ \A i, j \in full : callbacks[i] = callbacks[j] => i = j
  BY DEF TableMatchesConf
<1> DEFINE full == {i \in 1 .. numCallbacks : callbacks[i] # Empty}
<1>1. /\ built \in Configs /\ numCallbacks \in 0 .. MaxCallbacks /\ toRegister = <<>> /\ Done \in 0 .. numCallbacks
      /\ MaxCallbacks \in Nat /\ built \in [group : BOOLEAN, tele : BOOLEAN]
      /\ \A i \in 1 .. MaxCallbacks : callbacks[i] = IF i <= Done THEN TopicsOf(built)[i] ELSE Empty
  BY DEF FillInv, Filled, CallbacksTypeOK, Rebuilding
<1>2. Done = TopicCount(built) /\ TopicCount(built) \in 4 .. 8
  BY <1>1, CountTypes DEF Done
<1>3. full = 1 .. Done
  BY <1>1, <1>2, CountTypes
<1>4. \A i \in full : callbacks[i] = TopicsOf(built)[i]
  BY <1>1, <1>2, <1>3
<1>5. {callbacks[i] : i \in full} = ToSet(TopicsOf(built))
  <2>1. ToSet(TopicsOf(built)) = {TopicsOf(built)[i] : i \in 1 .. Done}
    BY <1>1, <1>2, TopicsSound
  <2> HIDE DEF full
  <2> QED BY <1>3, <1>4, <2>1
<1>6. \A i, j \in full : callbacks[i] = callbacks[j] => i = j
  BY <1>1, <1>2, <1>3, <1>4, TopicsSound
<1> QED BY <1>5, <1>6 DEF FillInv

\* However the configuration changes, and whoever reads the table meanwhile, a
\* rebuilding that ended leaves every topic of the configuration in it once and no
\* other (MQTT_ClearCallbacks, MQTT_RegisterCallback).
THEOREM TableIsComplete ==
  ASSUME TableLarge
  PROVE  CallbacksSpec => []TableMatchesConf
<1>1. CallbacksInit => FillInv
  BY TableFirst
<1>2. FillInv /\ [CallbacksNext]_cbVars => FillInv'
  BY FillStep
<1>3. FillInv => TableMatchesConf
  BY TableComplete
<1> QED BY <1>1, <1>2, <1>3, PTL DEF CallbacksSpec

\* As long as topics are only added, and lwIP's thread does not run while the table
\* is rebuilt, no search of it takes an empty entry for a callback either
\* (mqtt_incoming_publish_cb, MQTT_process_received).
THEOREM TableIsSound ==
  ASSUME TableLarge, ~Overlapping, OnlyAdded
  PROVE  CallbacksSpec => []TableSound
<1>1. CallbacksInit => FillInv /\ NoHoles
  BY TableFirst
<1>2. FillInv /\ [CallbacksNext]_cbVars => FillInv'
  BY FillStep
<1>3. FillInv /\ NoHoles /\ [CallbacksNext]_cbVars => NoHoles'
  BY HolesStep
<1>4. FillInv /\ NoHoles => TableSound
  BY TableComplete DEF NoHoles, TableSound, NullNeverRead
<1> QED BY <1>1, <1>2, <1>3, <1>4, PTL DEF CallbacksSpec
=============================================================================
