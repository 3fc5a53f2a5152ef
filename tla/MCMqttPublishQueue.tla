------------------------- MODULE MCMqttPublishQueue -------------------------
(***************************************************************************)
(* A queue of three items of which two leave at once, and a broadcast of   *)
(* five items with the queue at its second place and the light at its      *)
(* third: the broadcast needs several seconds, the queue several turns.    *)
(***************************************************************************)
EXTENDS MqttPublishQueue
=============================================================================
