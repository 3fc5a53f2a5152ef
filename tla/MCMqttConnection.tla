-------------------------- MODULE MCMqttConnection --------------------------
(* Two topics; the counters' ranges are cut so that every comparison with  *)
(* them is still reached from both sides.                                  *)
EXTENDS MqttConnection
CONSTANTS a, b
MCTopics == {a, b}
=============================================================================
