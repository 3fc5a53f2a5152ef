------------------------------ MODULE WifiLink ------------------------------
(***************************************************************************)
(* How a device stays in its network: the WiFi parts of Main_OnEverySecond *)
(* (src/src/user_main.c) against the events of the WiFi thread, which call *)
(* Main_OnWiFiStatusChange between any two of them.  The driver, the       *)
(* networks in reach and the ping replies are the environment.             *)
(***************************************************************************)
EXTENDS Integers

CONSTANTS
  Again,      \* seconds to the next attempt after a refusal: 5, 10, 15 or 60
  Patience,   \* seconds to the next attempt while one is under way: 120
  OpenDelay,  \* seconds until the access point opens: 5
  WatchAfter, \* seconds with a connection until the watchdog starts: 60
  Unanswered, \* CFG_GetPingDisconnectedSecondsToRestart
  Tries,      \* g_SSIDSwitchAfterTry
  Networks,   \* the networks configured: {1} or {1, 2}
  MaxLinkChanges, \* bound: changes of the networks in reach
  MaxDeaths,  \* bound: connections that die without an event
  MaxOpens,   \* bound: OpenAP commands
  MaxGuests,  \* bound: times that somebody joins the device's access point
  MaxLates    \* bound: ping replies that come when the connection they came by is gone

ASSUME WifiAssumption ==
  /\ Again \in Nat \ {0} /\ Patience \in Nat /\ Patience >= Again
  /\ OpenDelay \in Nat \ {0} /\ WatchAfter \in Nat \ {0} /\ Unanswered \in Nat \ {0}
  /\ Tries \in Nat /\ Networks \in {{1}, {1, 2}}
  /\ MaxLinkChanges \in Nat /\ MaxDeaths \in Nat /\ MaxOpens \in Nat
  /\ MaxGuests \in Nat /\ MaxLates \in Nat

VARIABLES
  second,    \* the next part of the second: "ping", "ap", "connect"
  hasWifi,   \* g_bHasWiFiConnected
  connectIn, \* g_connectToWiFi
  openAP,    \* g_openAP
  apMode,    \* g_bOpenAccessPointMode
  watchIn,   \* g_startPingWatchDogAfter
  sincePing, \* g_timeSinceLastPingReply, -1 when nothing is expected
  ssid,      \* g_SSIDactual
  tried,     \* g_SSIDSwitchCnt
  station,   \* driver: "down", "joining", "up", "dead", "stopping"
  inReach,   \* environment: the networks in reach
  guests,    \* environment: whether somebody joins the device's access point
  left       \* bounds: changes, deaths and commands that are left

wifiTimers == <<connectIn, openAP, watchIn, sincePing>>
wifiVars == <<second, hasWifi, apMode, ssid, tried, station, inReach, guests, left, wifiTimers>>

WifiInit ==
  /\ second = "ping" /\ hasWifi = FALSE /\ connectIn = Again /\ openAP = 0
  /\ apMode = FALSE /\ watchIn = WatchAfter /\ sincePing = -1
  /\ ssid = 1 /\ tried = 0 /\ station = "down"
  /\ inReach \in SUBSET Networks /\ guests \in BOOLEAN
  /\ left = [changes |-> MaxLinkChanges, deaths |-> MaxDeaths, opens |-> MaxOpens,
              guests |-> MaxGuests, lates |-> MaxLates]

\* A countdown in seconds, which stays at 0.
LessUnguarded(n) == n - 1
Less(n) == IF n > 0 THEN n - 1 ELSE 0
Spend(what) == left[what] > 0 /\ left' = [left EXCEPT ![what] = @ - 1]

-----------------------------------------------------------------------------
(* Main_OnEverySecond *)

\* No reply for too long: the connection is dropped and made again.
TooLong(n) == n >= Unanswered
SecondPing ==
  /\ second = "ping" /\ second' = "ap"
  /\ IF sincePing = -1 THEN UNCHANGED <<hasWifi, connectIn, sincePing, station>>
     ELSE IF TooLong(sincePing + 1) /\ hasWifi
     THEN /\ station' = "stopping" /\ hasWifi' = FALSE
          /\ connectIn' = Again /\ sincePing' = -1
     ELSE /\ sincePing' = IF TooLong(sincePing) THEN sincePing ELSE sincePing + 1
          /\ UNCHANGED <<hasWifi, connectIn, station>>
  /\ UNCHANGED <<openAP, apMode, watchIn, ssid, tried, inReach, guests, left>>

\* The access point is opened, and the watchdog is started.
SecondAP ==
  /\ second = "ap" /\ second' = "connect"
  /\ openAP' = Less(openAP)
  /\ apMode' = (apMode \/ openAP = 1)
  /\ hasWifi' = (hasWifi /\ openAP = 0)
  /\ station' = IF openAP > 0 /\ hasWifi THEN "stopping" ELSE station
  /\ watchIn' = IF hasWifi' THEN Less(watchIn) ELSE watchIn
  /\ sincePing' = IF hasWifi' /\ watchIn = 1 THEN 0 ELSE sincePing
  /\ UNCHANGED <<connectIn, ssid, tried, inReach, guests, left>>

\* CheckForSSID12_Switch
NoSwitch == UNCHANGED <<ssid, tried>>
SwitchSSID ==
  IF Networks = {1} THEN UNCHANGED <<ssid, tried>>
  ELSE IF tried < Tries THEN tried' = tried + 1 /\ UNCHANGED ssid
  ELSE tried' = 0 /\ ssid' = 3 - ssid

ConnectToWiFiNow == apMode' = FALSE /\ SwitchSSID /\ station' = "joining"

SecondConnect ==
  /\ second = "connect" /\ second' = "ping"
  /\ connectIn' = Less(connectIn)
  /\ IF connectIn = 1 /\ ~hasWifi THEN ConnectToWiFiNow
     ELSE UNCHANGED <<apMode, ssid, tried, station>>
  /\ UNCHANGED <<hasWifi, openAP, watchIn, sincePing, inReach, guests, left>>

Second == SecondPing \/ SecondAP \/ SecondConnect

-----------------------------------------------------------------------------
(* Main_OnWiFiStatusChange, for the events of the driver *)

StaConnecting ==
  /\ station = "joining" /\ connectIn < Again
  /\ hasWifi' = FALSE /\ connectIn' = Patience
  /\ UNCHANGED <<second, openAP, apMode, watchIn, sincePing, ssid, tried, station, inReach, guests, left>>

StaConnected ==
  /\ station = "joining" /\ ssid \in inReach
  /\ station' = "up" /\ hasWifi' = TRUE /\ tried' = 0
  /\ UNCHANGED <<second, apMode, ssid, inReach, guests, left, wifiTimers>>

\* Refused, not found or lost: the attempt after this one is planned.
GivesUp == connectIn' = 0
PlansNext == connectIn' = Again

StaAuthFailed ==
  /\ station = "joining" /\ station' = "down"
  /\ hasWifi' = FALSE /\ PlansNext
  /\ UNCHANGED <<second, openAP, apMode, watchIn, sincePing, ssid, tried, inReach, guests, left>>

StaDisconnected ==
  /\ station = "joining" \/ (station \in {"up", "dead"} /\ ssid \notin inReach)
  /\ station' = "down"
  /\ hasWifi' = FALSE /\ PlansNext /\ sincePing' = -1
  /\ UNCHANGED <<second, openAP, apMode, watchIn, ssid, tried, inReach, guests, left>>

\* The station that the program stopped is reported as well.
StaStopped ==
  /\ station = "stopping" /\ station' = "down"
  /\ hasWifi' = FALSE /\ PlansNext /\ sincePing' = -1
  /\ UNCHANGED <<second, openAP, apMode, watchIn, ssid, tried, inReach, guests, left>>

ApConnected ==
  /\ guests /\ apMode /\ Spend("guests") /\ hasWifi' = TRUE
  /\ UNCHANGED <<second, apMode, ssid, tried, station, inReach, guests, wifiTimers>>

ApFailed ==
  /\ guests /\ apMode /\ hasWifi' = FALSE
  /\ UNCHANGED <<second, apMode, ssid, tried, station, inReach, guests, left, wifiTimers>>

-----------------------------------------------------------------------------
(* What happens around it *)

\* Main_OnPingCheckerReply, on the thread of the ping.
PingReply ==
  /\ watchIn = 0 /\ sincePing' = 0
  /\ IF station = "up" THEN UNCHANGED left ELSE Spend("lates")
  /\ UNCHANGED <<second, hasWifi, connectIn, openAP, apMode, watchIn, ssid, tried, station, inReach, guests>>

\* A connection in which nothing is answered any more, and no event tells.
Dies ==
  /\ station = "up" /\ Spend("deaths") /\ station' = "dead"
  /\ UNCHANGED <<second, hasWifi, apMode, ssid, tried, inReach, guests, wifiTimers>>

NetworksChange ==
  /\ Spend("changes") /\ inReach' \in SUBSET Networks
  /\ UNCHANGED <<second, hasWifi, apMode, ssid, tried, station, guests, wifiTimers>>

\* CMD_OpenAP
OpenAP ==
  /\ Spend("opens") /\ openAP' = OpenDelay
  /\ UNCHANGED <<second, hasWifi, connectIn, apMode, watchIn, sincePing, ssid, tried, station, inReach, guests>>

Joins == StaConnected \/ (ssid \notin inReach /\ (StaAuthFailed \/ StaDisconnected))

WifiNext ==
  \/ Second
  \/ StaConnecting \/ StaConnected \/ StaAuthFailed \/ StaDisconnected
  \/ StaStopped \/ ApConnected \/ ApFailed
  \/ PingReply \/ Dies \/ NetworksChange \/ OpenAP

\* The seconds pass, the driver answers an attempt and reports a network that
\* went, replies to pings come as long as the connection works, and of attempts
\* at a network in reach not all are refused. Guests leave.
WifiFairness ==
  /\ WF_wifiVars(Second) /\ WF_wifiVars(Joins) /\ WF_wifiVars(StaStopped)
  /\ WF_wifiVars(station = "up" /\ PingReply) /\ SF_wifiVars(StaConnected)
  /\ WF_wifiVars(ApFailed)

WifiSpec == WifiInit /\ [][WifiNext]_wifiVars /\ WifiFairness

-----------------------------------------------------------------------------
WifiTypeOK ==
  /\ second \in {"ping", "ap", "connect"} /\ hasWifi \in BOOLEAN /\ apMode \in BOOLEAN
  /\ connectIn \in 0..Patience /\ openAP \in 0..OpenDelay /\ watchIn \in 0..WatchAfter
  /\ sincePing \in -1..Unanswered /\ ssid \in Networks /\ tried \in 0..Tries
  /\ station \in {"down", "joining", "up", "dead", "stopping"} /\ inReach \subseteq Networks
  /\ left.changes \in 0..MaxLinkChanges /\ left.deaths \in 0..MaxDeaths
  /\ left.opens \in 0..MaxOpens /\ left.guests \in 0..MaxGuests /\ left.lates \in 0..MaxLates

\* A device that is in no network, tries none and has no access point open or
\* about to open has planned its next attempt: it is never stranded.
\* (Main_OnEverySecond, Main_OnWiFiStatusChange)
NeverStranded ==
  station = "down" /\ ~apMode /\ openAP = 0 => connectIn > 0

InNetwork == station = "up" /\ hasWifi
\* A connection that died before the first reply to a ping since it was made again.
DiedUnwatched == station = "dead" /\ watchIn = 0 /\ sincePing = -1

\* The main loop takes no other dead connection for a living one for ever, and gets
\* back into a network whenever one of those configured is in reach to stay,
\* whichever it is and however often the network went meanwhile, also from its
\* own access point as long as nobody joins that.
GetsBack ==
  inReach # {} /\ ~guests ~> InNetwork \/ DiedUnwatched \/ inReach = {}

\* "we can also reconnect them by basing on ping": it takes no dead connection for a
\* living one for ever, whenever it died.  (the watchdog of Main_OnEverySecond)
\* Refuted: nothing is watched between a reconnect and the first reply.
DeadIsNoticed ==
  inReach # {} /\ ~guests ~> InNetwork \/ inReach = {}
=============================================================================
