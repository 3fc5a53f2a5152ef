----------------------------- MODULE MqttRxFifo -----------------------------
(***************************************************************************)
(* What the receive buffer of new_mqtt.c promises: a queue of MQTT         *)
(* messages, bounded by the bytes they take with two length fields each,   *)
(* that hands every message over once, in order, cut to the sizes of the   *)
(* consumer's buffers.                                                     *)
(***************************************************************************)
EXTENDS Integers, Sequences

CONSTANTS Message,             \* the messages that may arrive: [topic, data], byte sequences
          Capacity,            \* MQTT_RX_BUFFER_MAX - 1
          TopicCap, DataCap    \* what temp_topic and temp_data can hold, without the terminator

VARIABLES queue,   \* the messages waiting, oldest first
          used,    \* the bytes they take
          result   \* what the last call answered

fifoVars == <<queue, used, result>>

Nothing   == [topic |-> <<>>, data |-> <<>>]
Answer(op, ok, m) == [op |-> op, ok |-> ok, msg |-> m]

Size(m)    == Len(m.topic) + 2 + Len(m.data) + 2
Cut(s, n)  == SubSeq(s, 1, IF Len(s) > n THEN n ELSE Len(s))

Init == queue = <<>> /\ used = 0 /\ result = Answer("none", FALSE, Nothing)

Fits(m) == used + Size(m) <= Capacity

Post(m) ==
  /\ Fits(m)
  /\ queue' = Append(queue, m) /\ used' = used + Size(m)
  /\ result' = Answer("post", TRUE, m)

\* A message without room is dropped; its sender is not told.
Drop(m) ==
  /\ ~Fits(m)
  /\ result' = Answer("post", TRUE, m)
  /\ UNCHANGED <<queue, used>>

Get ==
  /\ queue # <<>>
  /\ queue' = Tail(queue) /\ used' = used - Size(Head(queue))
  /\ result' = Answer("get", TRUE, [topic |-> Cut(Head(queue).topic, TopicCap),
                                    data  |-> Cut(Head(queue).data, DataCap)])

GetNothing ==
  /\ queue = <<>>
  /\ result' = Answer("get", FALSE, Nothing)
  /\ UNCHANGED <<queue, used>>

Next ==
  \/ \E m \in Message : Post(m) \/ Drop(m)
  \/ Get \/ GetNothing

Spec == Init /\ [][Next]_fifoVars
=============================================================================
