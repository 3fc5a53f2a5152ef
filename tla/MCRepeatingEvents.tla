------------------------- MODULE MCRepeatingEvents -------------------------
(* A command that adds itself again, and one that cancels or clears.       *)
EXTENDS RepeatingEvents, TLC
CONSTANTS c1, c2
MCRepeats == {-1, 0, 1, 2}
MCGiven ==
  [what : {"add", "addUID"}, command : {c2}, wait : {1, 2}, times : {-1, 2}, id : UserIds]
  \cup [what : {"add"}, command : {c1}, wait : {2}, times : {0, 1}, id : {1}]
  \cup [what : {"cancel"}, id : UserIds] \cup [what : {"clear"}]
MCDoes ==
  c1 :> {[what |-> "add", command |-> c1, wait |-> 1, times |-> 1, id |-> 1]}
  @@ c2 :> [what : {"cancel"}, id : UserIds] \cup [what : {"clear", "other"}]
=============================================================================
