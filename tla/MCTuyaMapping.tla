--------------------------- MODULE MCTuyaMapping ---------------------------
(***************************************************************************)
(* Mappings of a data point to a channel.                                  *)
(***************************************************************************)
EXTENDS TuyaMapping

Plain == [inv |-> FALSE, top |-> 0, delta |-> 0, mul |-> 1, by |-> 1,
          noRead |-> FALSE, dpCache |-> FALSE, dpType |-> "value"]
Tenth == [Plain EXCEPT !.by = 10]
Inverting == [Plain EXCEPT !.inv = TRUE]
Dimmer == [Plain EXCEPT !.top = 100]

\* One of each kind, a dimmer among them whose range is not the channel's.
MCMappings ==
  { Plain, Dimmer, [Plain EXCEPT !.dpType = "bool"], [Plain EXCEPT !.noRead = TRUE],
    [Dimmer EXCEPT !.dpCache = TRUE], [Plain EXCEPT !.dpType = "string"],
    Tenth, [Dimmer EXCEPT !.inv = TRUE] }
OnlyInverse == {Inverting}
=============================================================================
