----------------------------- MODULE LossyFifo -----------------------------
(***************************************************************************)
(* What the ring buffers of drv_uart.c and logging.c promise a reader: the *)
(* last Capacity items it has not taken yet, in their order.               *)
(***************************************************************************)
EXTENDS Integers, Sequences

CONSTANTS Item, Capacity
VARIABLES
  unread,   \* items not taken yet, oldest first
  puts      \* how many items were ever put

Last(s, n) == SubSeq(s, IF Len(s) > n THEN Len(s) - n + 1 ELSE 1, Len(s))

Init == unread = <<>> /\ puts = 0
Put == puts' = puts + 1 /\ \E x \in Item : unread' = Last(Append(unread, x), Capacity)
Take == puts' = puts /\ \E n \in 1..Len(unread) : unread' = Last(unread, Len(unread) - n)
Next == Put \/ Take
Spec == Init /\ [][Next]_<<unread, puts>>
=============================================================================
