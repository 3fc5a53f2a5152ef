-------------------------- MODULE MCMqttCallbacks --------------------------
(* All four configurations, changed in every way or only to more topics.   *)
EXTENDS MqttCallbacks
MCConfigs == [group : BOOLEAN, tele : BOOLEAN]
MCAny == [c \in MCConfigs |-> MCConfigs \ {c}]
MCGrows ==
  [c \in MCConfigs |-> {d \in MCConfigs \ {c} : (c.group => d.group) /\ (c.tele => d.tele)}]
=============================================================================
