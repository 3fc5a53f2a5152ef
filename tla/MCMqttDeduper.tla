--------------------------- MODULE MCMqttDeduper ---------------------------
(* Small instances of MqttDeduper: two slots, two values.                  *)
EXTENDS MqttDeduper
CONSTANTS v1, v2, http
MCValue == {v1, v2}
MCHttp  == {http}
=============================================================================
