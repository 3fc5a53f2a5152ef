---------------------------- MODULE TuyaPairing ----------------------------
(***************************************************************************)
(* How drv_tuyaMCU.c comes to terms with its MCU: TuyaMCU_RunStateMachine_ *)
(* V3, once a second, asks for what it does not know yet and watches the   *)
(* heartbeats; TuyaMCU_ProcessIncoming takes the answers.  The MCU, which  *)
(* may restart, fall silent, lose packets and hold back its state until it *)
(* is told of a connection, is the environment.                            *)
(***************************************************************************)
EXTENDS Integers, Sequences

CONSTANTS
  HeartbeatPause,  \* seconds between heartbeats (3)
  Missed,          \* unanswered heartbeats that mean a lost MCU (4)
  Resend,          \* wifi_state_timer at which the MCU is told again (60)
  Kinds,           \* the MCUs there may be: [self, needsNetwork]
  Backlog,         \* bound: packets on their way
  MaxDisturbed     \* bound: restarts, lost packets, reports and changes of the network

ASSUME PairingAssumption ==
  /\ {HeartbeatPause, Missed, Resend, Backlog, MaxDisturbed} \subseteq Nat \ {0}
  /\ Kinds \subseteq [self : BOOLEAN, needsNetwork : BOOLEAN]

VARIABLES
  valid,         \* the *_valid flags that are set, and state_updated as "state"
  selfMode,      \* self_processing_mode
  beatTimer,     \* heartbeat_timer
  beatsMissed,   \* heartbeat_counter, cut at Missed
  queries,       \* g_sendQueryStatePackets: 0, 1, and then 2 if even and 3 if odd
  wifiState,     \* wifi_state
  wifiTimer,     \* wifi_state_timer
  online,        \* environment: WiFi and MQTT are connected
  kind,          \* environment: the MCU
  up, told,      \* environment: whether the MCU runs, and what it knows of the network
  out, in,       \* packets to the MCU and from it
  disturbed      \* bound: disturbances that are left

pairVars == <<valid, selfMode, beatTimer, beatsMissed, queries, wifiState, wifiTimer,
              online, kind, up, told, out, in, disturbed>>
mcuVars == <<kind, up, told, in>>

Flags == {"heartbeat", "product", "mode", "wifi", "state"}

PairingInit ==
  /\ valid = {} /\ selfMode = TRUE /\ beatTimer = 0 /\ beatsMissed = 0 /\ queries = 0
  /\ wifiState = FALSE /\ wifiTimer = 0 /\ online \in BOOLEAN /\ kind \in Kinds
  /\ up = TRUE /\ told = FALSE /\ out = <<>> /\ in = <<>>
  /\ disturbed = MaxDisturbed

Send(packets) == out' = out \o packets
Network(b) == [cmd |-> "network", on |-> b]
Ask(c) == [cmd |-> c]

-----------------------------------------------------------------------------
(* Once a second *)

\* TuyaMCU_RunWiFiUpdateAndPackets
Due == wifiState # online \/ wifiTimer = 0
Counted == wifiTimer + (IF Due THEN 2 ELSE 1)
NextWifiTimer == IF Counted >= Resend THEN 0 ELSE Counted
RunWiFiUpdate ==
  /\ Send(IF Due THEN <<Network(online)>> ELSE <<>>)
  /\ wifiState' = online /\ wifiTimer' = NextWifiTimer

Lost == beatsMissed >= Missed - 1
Beat ==
  /\ Send(<<Ask("heartbeat")>>)
  /\ beatTimer' = HeartbeatPause
  /\ beatsMissed' = IF beatsMissed < Missed THEN beatsMissed + 1 ELSE Missed
  /\ valid' = IF Lost THEN {} ELSE valid
  /\ queries' = IF Lost THEN 0 ELSE queries
  /\ UNCHANGED <<selfMode, wifiState, wifiTimer>>

NextQuery(n) == IF n = 3 THEN 2 ELSE n + 1
NeverAWifiTurn == FALSE
WifiTurn == queries = 2
QueryState ==
  /\ IF WifiTurn THEN RunWiFiUpdate ELSE Send(<<Ask("state")>>) /\ UNCHANGED <<wifiState, wifiTimer>>
  /\ queries' = NextQuery(queries)

Proceed ==
  /\ beatTimer' = beatTimer - 1
  /\ IF "heartbeat" \notin valid THEN UNCHANGED <<out, queries, wifiState, wifiTimer>>
     ELSE IF {"product", "mode"} \subseteq valid /\ (selfMode \/ "wifi" \in valid)
     THEN IF "state" \notin valid THEN QueryState ELSE RunWiFiUpdate /\ UNCHANGED queries
     ELSE /\ Send(CASE "product" \notin valid -> <<Ask("product")>>
                    [] "mode" \notin valid    -> <<Ask("mode")>>
                    [] OTHER                  -> <<Network(FALSE), Ask("wifi")>>)
          /\ UNCHANGED <<queries, wifiState, wifiTimer>>
  /\ UNCHANGED <<valid, selfMode, beatsMissed>>

RunEverySecond ==
  /\ Len(out) + Len(in) < Backlog
  /\ IF beatTimer = 0 THEN Beat ELSE Proceed
  /\ UNCHANGED <<mcuVars, online, disturbed>>

\* TuyaMCU_ProcessIncoming
Learns(c) == IF c \in {"state", "report"} THEN {"state"} ELSE {c}
ProcessIncoming ==
  /\ in # <<>> /\ in' = Tail(in)
  /\ LET p == Head(in) IN
       /\ valid' = valid \cup Learns(p.cmd)
       /\ beatsMissed' = IF p.cmd = "heartbeat" THEN 0 ELSE beatsMissed
       /\ selfMode' = IF p.cmd = "mode" THEN p.self ELSE selfMode
       /\ queries' = IF "state" \in Learns(p.cmd) THEN 0 ELSE queries
  /\ UNCHANGED <<beatTimer, wifiState, wifiTimer, online, kind, up, told, out, disturbed>>

-----------------------------------------------------------------------------
(* The MCU and the network *)

Answer(p) ==
  CASE p.cmd = "network" -> <<Ask("wifi")>>
    [] p.cmd = "mode"    -> <<[cmd |-> "mode", self |-> kind.self]>>
    [] p.cmd = "state"   -> IF kind.needsNetwork /\ ~told THEN <<>> ELSE <<p>>
    [] OTHER             -> <<p>>

McuAnswers ==
  /\ out # <<>> /\ out' = Tail(out)
  /\ told' = IF up /\ Head(out).cmd = "network" THEN Head(out).on ELSE told
  /\ in' = IF up THEN in \o Answer(Head(out)) ELSE in
  /\ UNCHANGED <<valid, selfMode, beatTimer, beatsMissed, queries, wifiState, wifiTimer,
                 online, kind, up, disturbed>>

Disturb == disturbed > 0 /\ disturbed' = disturbed - 1
DriverUnchanged ==
  UNCHANGED <<valid, selfMode, beatTimer, beatsMissed, queries, wifiState, wifiTimer>>

McuStops == up /\ up' = FALSE /\ UNCHANGED <<online, kind, told, out, in>>
McuStarts == ~up /\ up' = TRUE /\ told' = FALSE /\ UNCHANGED <<online, kind, out, in>>
McuReports == up /\ in' = Append(in, Ask("report")) /\ UNCHANGED <<online, kind, up, told, out>>
LoseOut == out # <<>> /\ out' = Tail(out) /\ UNCHANGED <<mcuVars, online>>
LoseIn == in # <<>> /\ in' = Tail(in) /\ UNCHANGED <<online, kind, up, told, out>>
NetworkChanges == online' = ~online /\ UNCHANGED <<mcuVars, out>>

Disturbance ==
  /\ Disturb /\ DriverUnchanged
  /\ McuStops \/ McuStarts \/ McuReports \/ LoseOut \/ LoseIn \/ NetworkChanges

PairingNext == RunEverySecond \/ ProcessIncoming \/ McuAnswers \/ Disturbance

\* The seconds pass, and both sides take what they are sent.
PairingFairness ==
  WF_pairVars(RunEverySecond) /\ WF_pairVars(ProcessIncoming) /\ WF_pairVars(McuAnswers)
PairingSpec == PairingInit /\ [][PairingNext]_pairVars /\ PairingFairness

-----------------------------------------------------------------------------
PairingTypeOK ==
  /\ valid \subseteq Flags /\ selfMode \in BOOLEAN /\ beatTimer \in 0..HeartbeatPause
  /\ beatsMissed \in 0..Missed /\ queries \in 0..3 /\ wifiState \in BOOLEAN
  /\ wifiTimer \in 0..(Resend - 1) /\ Len(out) + Len(in) <= Backlog + 2 + MaxDisturbed

\* An MCU that stays up ends paired with its state known, an MCU that holds its state
\* back until it hears of the network too.
GetsPaired ==
  <>[](up /\ (kind.needsNetwork => online))
    => <>[]({"heartbeat", "product", "mode", "state"} \subseteq valid)

\* An MCU that has fallen silent is noticed, whatever it said last.
LossNoticed == <>[]~up => <>[](valid = {})

\* An MCU that stays up ends told what the network is, also if it restarted unnoticed.
TellsNetwork == \A b \in BOOLEAN : <>[](up /\ online = b) => <>[](told = b)

\* The module and the MCU find each other and lose each other only when one is gone,
\* through restarts and lost packets.  (TuyaMCU_RunStateMachine_V3)
PairingKept == GetsPaired /\ LossNoticed /\ TellsNetwork
=============================================================================
