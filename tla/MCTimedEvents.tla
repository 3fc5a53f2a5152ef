--------------------------- MODULE MCTimedEvents ---------------------------
(***************************************************************************)
(* Suns, commands of a clock and corrections of it.                        *)
(***************************************************************************)
EXTENDS TimedEvents

\* A sun that keeps its time, one that rises earlier and one that rises later; a command
\* for every day at a time, and for the sun on every day and on one day of the week.
MCSuns ==
  {[d \in 0..8 |-> IF d < 4 THEN m[1] ELSE m[2]] : m \in {<<1, 1>>, <<2, 1>>, <<0, 2>>}}
MCClockEvents ==
  [sun : {FALSE}, at : {1}, days : {{0, 1}}] \cup [sun : {TRUE}, at : {0}, days : {{0, 1}, {1}}]
MCCorrections == {-1, 2, 5}

\* A command for the sun on one day of the week.
Weekly == [sun : {TRUE}, at : {0}, days : {{1}}]
=============================================================================
