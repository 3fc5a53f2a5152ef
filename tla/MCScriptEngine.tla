--------------------------- MODULE MCScriptEngine ---------------------------
(* Two scripts alive at once, one named and one waiting condition; delays   *)
(* that one round ends and delays that two do.                              *)
EXTENDS ScriptEngine
CONSTANTS met
MCIds == {1}
MCConditions == {met}
MCDelays == {1, 2}
MCDeltas == {1, 2}
=============================================================================
