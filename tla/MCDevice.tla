------------------------------ MODULE MCDevice ------------------------------
(***************************************************************************)
(* Side by side, what the device comes back to after a failure: its life   *)
(* from power to power, its place in the network, the pairing with a       *)
(* TuyaMCU, and the agreement with other devices.  A behaviour is one of   *)
(* the part that was chosen at its start, while the others rest in an      *)
(* initial state.                                                          *)
(***************************************************************************)
EXTENDS MCDeviceLife, WifiLink, TuyaPairing, MCDeviceGroups

VARIABLE part

MCNetworks == {1, 2}

\* An MCU with buttons of its own that waits for the network, and one of neither kind.
MCKinds ==
  {[self |-> TRUE, needsNetwork |-> TRUE], [self |-> FALSE, needsNetwork |-> FALSE]}

allVars == <<part, lifeVars, wifiVars, pairVars, groupVars>>

Init ==
  /\ part \in {"life", "wifi", "pairing", "groups"}
  /\ LifeInit /\ WifiInit /\ PairingInit /\ GroupInit
  /\ part # "wifi" => inReach = {} /\ ~guests
  /\ part # "pairing" => ~online /\ kind.needsNetwork
  /\ part # "groups" => sendSeq[a] = 3

Life == part = "life" /\ LifeNext /\ UNCHANGED <<part, wifiVars, pairVars, groupVars>>
Wifi == part = "wifi" /\ WifiNext /\ UNCHANGED <<part, lifeVars, pairVars, groupVars>>
Pairing == part = "pairing" /\ PairingNext /\ UNCHANGED <<part, lifeVars, wifiVars, groupVars>>
Groups == part = "groups" /\ GroupNext /\ UNCHANGED <<part, lifeVars, wifiVars, pairVars>>

Next == Life \/ Wifi \/ Pairing \/ Groups

\* The fairness of each part, while it is the one that was chosen.  (As a conjunction, for
\* TLC checks a disjunction of the parts' own one by one.)
Of(p, A) == part = p /\ A
Fairness ==
  /\ WF_lifeVars(Of("life", Starting)) /\ WF_lifeVars(Of("life", Load))
  /\ WF_lifeVars(Of("life", Store)) /\ WF_lifeVars(Of("life", Start))
  /\ WF_lifeVars(Of("life", Marking)) /\ WF_lifeVars(Of("life", ResetDue))
  /\ WF_lifeVars(Of("life", LastSave)) /\ WF_lifeVars(Of("life", Reboot))
  /\ WF_lifeVars(Of("life", Crash)) /\ \A t \in Threads : WF_lifeVars(Of("life", Saves(t)))
  /\ WF_wifiVars(Of("wifi", Second)) /\ WF_wifiVars(Of("wifi", Joins))
  /\ WF_wifiVars(Of("wifi", StaStopped)) /\ WF_wifiVars(Of("wifi", ApFailed))
  /\ WF_wifiVars(Of("wifi", station = "up" /\ PingReply))
  /\ SF_wifiVars(Of("wifi", StaConnected))
  /\ WF_pairVars(Of("pairing", RunEverySecond)) /\ WF_pairVars(Of("pairing", ProcessIncoming))
  /\ WF_pairVars(Of("pairing", McuAnswers))
  /\ \A m \in Members : WF_groupVars(Of("groups", Driver(m)))

Spec == Init /\ [][Next]_allVars /\ Fairness

\* The type invariants of the parts.
TypeOK == LifeTypeOK /\ WifiTypeOK /\ PairingTypeOK /\ GroupTypeOK

\* A device comes back: into safe mode when its settings bring it down, and into a
\* network that is there. (Main_Init_Before_Delay, Main_OnEverySecond)
ComesBack == (part = "life" => SafeModeComes) /\ (part = "wifi" => GetsBack)
=============================================================================
