----------------------------- MODULE MqttRxRing -----------------------------
(***************************************************************************)
(* src/src/mqtt/new_mqtt.c, the receive buffer: the TCP/IP callback writes *)
(* a topic and its data as two length-prefixed byte strings into a ring,   *)
(* MQTT_Post_Received; the command task reads them back, get_received.     *)
(* Each runs under the buffer's mutex, so each is one step; a call that    *)
(* cannot take the mutex in 100 ms changes nothing and is not a step.      *)
(***************************************************************************)
EXTENDS Integers, Sequences

CONSTANTS Message,            \* the messages that may arrive: [topic, data], byte sequences
          BufferMax,          \* MQTT_RX_BUFFER_MAX
          Base,               \* the values of a byte: 256
          TopicCap, DataCap   \* sizeof(temp_topic) - 1, sizeof(temp_data) - 1

ASSUME RingAssumption ==
  /\ BufferMax \in Nat \ {0} /\ Base \in Nat \ {0, 1}
  /\ TopicCap \in Nat /\ DataCap \in Nat
  /\ Message \subseteq [topic : Seq(0 .. Base - 1), data : Seq(0 .. Base - 1)]

VARIABLES
  rxBuffer,   \* mqtt_rx_buffer
  rxHead,     \* mqtt_rx_buffer_head: where the next byte is written
  rxTail,     \* mqtt_rx_buffer_tail: where the next byte is read
  rxCount,    \* mqtt_rx_buffer_count: bytes between them
  answered,   \* what the last call answered
  inRing      \* the messages in the ring, oldest first (no variable of the code)

rxRingVars == <<rxBuffer, rxHead, rxTail, rxCount, answered, inRing>>

Fifo == INSTANCE MqttRxFifo WITH
  Capacity <- BufferMax - 1, queue <- inRing, used <- rxCount, result <- answered

Byte == 0 .. Base - 1
Pos  == 0 .. BufferMax - 1

RxRingInit ==
  /\ rxBuffer = [p \in Pos |-> 0]
  /\ rxHead = 0 /\ rxTail = 0 /\ rxCount = 0
  /\ answered = Fifo!Answer("none", FALSE, Fifo!Nothing)
  /\ inRing = <<>>

WrapLate(p) == p % (BufferMax + 1)
Wrap(p) == p % BufferMax

\* addLenData: two length bytes, high one first, and the bytes.
HighByte(len) == (len \div Base) % Base
LowByte(len)  == len % Base
Framed(s) == <<HighByte(Len(s)), LowByte(Len(s))>> \o s

Add(bytes) == [p \in Pos |-> IF Wrap(p - rxHead) < Len(bytes)
                               THEN bytes[Wrap(p - rxHead) + 1] ELSE rxBuffer[p]]

FitsNoFields(m) == BufferMax - 1 - rxCount >= Len(m.topic) + Len(m.data)
Fits(m) == BufferMax - 1 - rxCount >= Len(m.topic) + Len(m.data) + 2 + 2

MQTT_Post_Received(m) ==
  LET bytes == Framed(m.topic) \o Framed(m.data)
  IN /\ Fits(m)
     /\ rxBuffer' = Add(bytes)
     /\ rxHead' = Wrap(rxHead + Len(bytes))
     /\ rxCount' = rxCount + Len(bytes)
     /\ answered' = Fifo!Answer("post", TRUE, m)
     /\ inRing' = Append(inRing, m)
     /\ UNCHANGED rxTail

\* Without room the message is dropped, and the caller is answered all the same.
PostOverflow(m) ==
  /\ ~Fits(m)
  /\ answered' = Fifo!Answer("post", TRUE, m)
  /\ UNCHANGED <<rxBuffer, rxHead, rxTail, rxCount, inRing>>

\* getLenData from position t: the length found there, and the bytes, of which
\* at most cap are kept; all of them are taken out of the ring.
LengthAt(t) == rxBuffer[t] * Base + rxBuffer[Wrap(t + 1)]
BytesAt(t, cap) ==
  LET len == LengthAt(t)
  IN [i \in 1 .. (IF len > cap THEN cap ELSE len) |-> rxBuffer[Wrap(t + 1 + i)]]

get_received ==
  /\ rxTail # rxHead
  /\ LET topicLen == LengthAt(rxTail)
         mid      == Wrap(rxTail + 2 + topicLen)
         dataLen  == LengthAt(mid)
         left     == rxCount - topicLen - dataLen - 4
     IN /\ answered' = Fifo!Answer("get", TRUE, [topic |-> BytesAt(rxTail, TopicCap),
                                               data  |-> BytesAt(mid, DataCap)])
        \* the underflow branch empties the ring
        /\ rxCount' = IF left < 0 THEN 0 ELSE left
        /\ rxTail' = IF left < 0 THEN 0 ELSE Wrap(mid + 2 + dataLen)
        /\ rxHead' = IF left < 0 THEN 0 ELSE rxHead
        /\ inRing' = IF inRing = <<>> THEN inRing ELSE Tail(inRing)
  /\ UNCHANGED rxBuffer

GetNothing ==
  /\ rxTail = rxHead
  /\ answered' = Fifo!Answer("get", FALSE, Fifo!Nothing)
  /\ UNCHANGED <<rxBuffer, rxHead, rxTail, rxCount, inRing>>

RxRingNext ==
  \/ \E m \in Message : MQTT_Post_Received(m) \/ PostOverflow(m)
  \/ get_received \/ GetNothing

RxRingSpec == RxRingInit /\ [][RxRingNext]_rxRingVars
-----------------------------------------------------------------------------
\* The ring stays a ring: positions inside the buffer, one byte always free.
RxRingTypeOK ==
  /\ rxBuffer \in [Pos -> Byte]
  /\ rxHead \in Pos /\ rxTail \in Pos
  /\ rxCount \in 0 .. BufferMax - 1

\* The byte count agrees with the two positions, so that rxHead = rxTail means empty,
\* never full.
CountMatches == rxCount = Wrap(rxHead - rxTail)

\* Through every wrap of the ring, messages come out whole (cut only to the
\* consumer's buffers), once and in order, and one is refused only when its
\* bytes do not fit: the ring implements the bounded queue of MqttRxFifo, and its
\* count is what the messages in it take, so that the underflow branch of
\* getLenData is never taken.
ImplementsFifo == Fifo!Spec

\* The ring is that queue, and its count, positions and content agree on the way.
RingIsFifo == [][CountMatches']_rxRingVars /\ ImplementsFifo
=============================================================================
