--------------------------- MODULE MCDeviceGroups ---------------------------
(* Instances of DeviceGroups with two members, of which a is changed from   *)
(* the web as well.                                                         *)
EXTENDS DeviceGroups

CONSTANTS a, b, http

MCMembers == {a, b}
MCSenders == [m \in MCMembers |-> IF m = a THEN {Ticker, http} ELSE {Ticker}]

\* The numbers of a are few, or come to their wrap.  Those of b and of a member that
\* restarts are at their beginning.
StartOf(n) == [m \in MCMembers |-> IF m = a THEN n ELSE 1]
FewSent == {StartOf(3)}
MCStarts == {StartOf(3), StartOf(SeqMod - 2)}
=============================================================================
