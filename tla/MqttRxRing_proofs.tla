------------------------- MODULE MqttRxRing_proofs -------------------------
(***************************************************************************)
(* The byte ring of MQTT_Post_Received and MQTT_Get_Received is a queue of *)
(* whole messages, for every size of the ring and of the caller's buffers. *)
(* What has to be known of every step is how the messages lie in the ring: *)
(* one behind the other from rxTail on, each as its topic and its data     *)
(* with two bytes of length before each.                                   *)
(***************************************************************************)
EXTENDS MqttRxRing, SequenceTheorems, TLAPS

\* Two bytes hold the lengths of every message that fits into the ring: in the code
\* BufferMax is 4096 and Base is 256.
FieldsHold ==
  \A m \in Message : Fifo!Size(m) < BufferMax =>
    Len(m.topic) < Base * Base /\ Len(m.data) < Base * Base

\* The remainders the positions are taken with are one subtraction or addition.
LEMMA WrapIs ==
  /\ \A x \in 0 .. 2 * BufferMax - 1 : Wrap(x) = IF x < BufferMax THEN x ELSE x - BufferMax
  /\ \A x \in 1 - BufferMax .. -1 : Wrap(x) = x + BufferMax
BY RingAssumption DEF Wrap

\* How far a position behind rxTail is from rxHead, as Add measures it.
LEMMA DistanceToHead ==
  ASSUME NEW tail \in Pos, NEW count \in 0 .. BufferMax - 1, NEW x \in 0 .. BufferMax - 1
  PROVE  /\ Wrap(tail + x) \in Pos
         /\ Wrap(Wrap(tail + x) - Wrap(tail + count)) =
              IF x < count THEN x - count + BufferMax ELSE x - count
BY RingAssumption, WrapIs DEF Pos

\* Going on from a position in two strides or in one.
LEMMA WrapTwice ==
  ASSUME NEW t \in Pos, NEW a \in Nat, NEW b \in Nat, a + b < BufferMax
  PROVE  /\ Wrap(t + a) \in Pos /\ Wrap(t + 0) = t
         /\ Wrap(Wrap(t + a) + b) = Wrap(t + (a + b))
BY RingAssumption, WrapIs DEF Pos

\* A length is read as it was written.
LEMMA LengthBytes ==
  ASSUME NEW len \in Nat, len < Base * Base
  PROVE  /\ HighByte(len) \in Byte /\ LowByte(len) \in Byte
         /\ HighByte(len) * Base + LowByte(len) = len
<1> DEFINE q == len \div Base
<1>1. Base \in Nat /\ Base > 0
  BY RingAssumption
<1>2. q \in Int /\ LowByte(len) \in 0 .. Base - 1 /\ len = Base * q + LowByte(len)
  BY <1>1 DEF LowByte
<1>3. q >= 0
  BY <1>1, <1>2
<1>4. q < Base
  BY <1>1, <1>2
<1>5. HighByte(len) = q
  BY <1>1, <1>2, <1>3, <1>4 DEF HighByte
<1> QED
  BY <1>1, <1>2, <1>3, <1>4, <1>5 DEF Byte

-----------------------------------------------------------------------------
(* How a message lies in the ring *)

Bytes(m) == Framed(m.topic) \o Framed(m.data)
Topic(m) == Len(m.topic)
Data(m)  == Len(m.data)

\* What MQTT_Post_Received writes, byte by byte.
LEMMA BytesOfMessage ==
  ASSUME NEW m \in Message
  PROVE  /\ Topic(m) \in Nat /\ Data(m) \in Nat
         /\ Fifo!Size(m) = Topic(m) + Data(m) + 4 /\ Fifo!Size(m) \in Nat
         /\ Bytes(m) \in Seq(Byte) /\ Len(Bytes(m)) = Fifo!Size(m)
         /\ Bytes(m)[1] = HighByte(Topic(m)) /\ Bytes(m)[2] = LowByte(Topic(m))
         /\ \A i \in 1 .. Topic(m) : Bytes(m)[2 + i] = m.topic[i]
         /\ Bytes(m)[Topic(m) + 3] = HighByte(Data(m))
         /\ Bytes(m)[Topic(m) + 4] = LowByte(Data(m))
         /\ \A i \in 1 .. Data(m) : Bytes(m)[Topic(m) + 4 + i] = m.data[i]
<1>1. m.topic \in Seq(Byte) /\ m.data \in Seq(Byte)
  BY RingAssumption DEF Byte
<1>2. ASSUME NEW s \in Seq(Byte)
      PROVE  /\ Framed(s) \in Seq(Byte) /\ Len(s) \in Nat /\ Len(Framed(s)) = Len(s) + 2
             /\ Framed(s)[1] = HighByte(Len(s)) /\ Framed(s)[2] = LowByte(Len(s))
             /\ \A i \in 1 .. Len(s) : Framed(s)[2 + i] = s[i]
  <2> DEFINE f == <<HighByte(Len(s)), LowByte(Len(s))>>
  <2>1. Len(s) \in Nat
    BY LenProperties
  <2>2. HighByte(Len(s)) \in Byte /\ LowByte(Len(s)) \in Byte
    BY <2>1, RingAssumption DEF HighByte, LowByte, Byte
  <2>3. f \in Seq(Byte) /\ Len(f) = 2 /\ f[1] = HighByte(Len(s)) /\ f[2] = LowByte(Len(s))
    BY <2>2
  <2> HIDE DEF f
  <2>4. /\ f \o s \in Seq(Byte) /\ Len(f \o s) = Len(f) + Len(s)
        /\ \A i \in 1 .. Len(f) + Len(s) :
             (f \o s)[i] = IF i <= Len(f) THEN f[i] ELSE s[i - Len(f)]
    BY <2>3, ConcatProperties
  <2>5. Framed(s) = f \o s
    BY DEF Framed, f
  <2> QED
    BY <2>1, <2>3, <2>4, <2>5
<1> DEFINE t == Framed(m.topic)  d == Framed(m.data)
<1>3. /\ t \in Seq(Byte) /\ Topic(m) \in Nat /\ Len(t) = Topic(m) + 2
      /\ t[1] = HighByte(Topic(m)) /\ t[2] = LowByte(Topic(m))
      /\ \A i \in 1 .. Topic(m) : t[2 + i] = m.topic[i]
  BY <1>1, <1>2 DEF Topic
<1>4. /\ d \in Seq(Byte) /\ Data(m) \in Nat /\ Len(d) = Data(m) + 2
      /\ d[1] = HighByte(Data(m)) /\ d[2] = LowByte(Data(m))
      /\ \A i \in 1 .. Data(m) : d[2 + i] = m.data[i]
  BY <1>1, <1>2 DEF Data
<1> HIDE DEF t, d
<1>5. /\ t \o d \in Seq(Byte) /\ Len(t \o d) = Len(t) + Len(d)
      /\ \A i \in 1 .. Len(t) + Len(d) :
           (t \o d)[i] = IF i <= Len(t) THEN t[i] ELSE d[i - Len(t)]
  BY <1>3, <1>4, ConcatProperties
<1>6. Bytes(m) = t \o d
  BY DEF Bytes, t, d
<1>7. Fifo!Size(m) = Topic(m) + Data(m) + 4
  <2>1. \A a, b \in Nat : a + 2 + b + 2 = a + b + 4
    OBVIOUS
  <2>2. Fifo!Size(m) = Topic(m) + 2 + Data(m) + 2
    BY DEF Fifo!Size, Topic, Data
  <2> QED
    BY <1>3, <1>4, <2>1, <2>2, Zenon
<1>8. \A i \in 1 .. Topic(m) + 2 : Bytes(m)[i] = t[i]
  BY <1>3, <1>4, <1>5, <1>6
<1>9. \A i \in 1 .. Data(m) + 2 : Bytes(m)[Topic(m) + 2 + i] = d[i]
  BY <1>3, <1>4, <1>5, <1>6, SMTT(30)
<1>10. Bytes(m)[Topic(m) + 2 + 1] = d[1] /\ Bytes(m)[Topic(m) + 2 + 2] = d[2]
  BY <1>4, <1>9
<1>11. \A i \in 1 .. Data(m) : Bytes(m)[Topic(m) + 2 + (2 + i)] = d[2 + i]
  BY <1>4, <1>9
<1>12. Bytes(m)[1] = t[1] /\ Bytes(m)[2] = t[2]
  BY <1>3, <1>8
<1>13. \A i \in 1 .. Topic(m) : Bytes(m)[2 + i] = t[2 + i]
  BY <1>3, <1>8
<1>14. Bytes(m) \in Seq(Byte) /\ Len(Bytes(m)) = Fifo!Size(m)
  BY <1>3, <1>4, <1>5, <1>6, <1>7
<1>15. Bytes(m)[Topic(m) + 3] = HighByte(Data(m)) /\ Bytes(m)[Topic(m) + 4] = LowByte(Data(m))
  BY <1>3, <1>4, <1>10
<1>16. \A i \in 1 .. Data(m) : Bytes(m)[Topic(m) + 4 + i] = m.data[i]
  BY <1>3, <1>4, <1>11
<1>17. Fifo!Size(m) \in Nat
  BY <1>3, <1>4, <1>7
<1> QED
  BY <1>3, <1>4, <1>7, <1>12, <1>13, <1>14, <1>15, <1>16, <1>17

\* The messages q lie one behind the other from tail on, the k-th at offset off[k].
Laid(q, off, tail, count, buf) ==
  /\ off \in [1 .. Len(q) + 1 -> 0 .. count]
  /\ off[1] = 0 /\ off[Len(q) + 1] = count
  /\ \A j, k \in 1 .. Len(q) + 1 : j <= k => off[j] <= off[k]
  /\ \A k \in 1 .. Len(q) : off[k + 1] = off[k] + Fifo!Size(q[k])
  /\ \A k \in 1 .. Len(q) : \A i \in 1 .. Fifo!Size(q[k]) :
       buf[Wrap(tail + off[k] + i - 1)] = Bytes(q[k])[i]

IsLaid(q, tail, count, buf) ==
  \E off \in [1 .. Len(q) + 1 -> 0 .. count] : Laid(q, off, tail, count, buf)

\* MQTT_Post_Received puts a message behind the others and touches none of them.
LEMMA PostLays ==
  ASSUME NEW q \in Seq(Message), NEW tail \in Pos, NEW count \in 0 .. BufferMax - 1,
         NEW buf \in [Pos -> Byte], IsLaid(q, tail, count, buf),
         NEW m \in Message, count + Fifo!Size(m) <= BufferMax - 1,
         NEW head \in Pos, head = Wrap(tail + count),
         NEW new \in [Pos -> Byte],
         \A p \in Pos : new[p] = IF Wrap(p - head) < Len(Bytes(m))
                                 THEN Bytes(m)[Wrap(p - head) + 1] ELSE buf[p]
  PROVE  IsLaid(Append(q, m), tail, count + Fifo!Size(m), new)
<1> DEFINE n == Len(q)  size == Fifo!Size(m)  all == Append(q, m)
<1>1. PICK off \in [1 .. n + 1 -> 0 .. count] : Laid(q, off, tail, count, buf)
  BY DEF IsLaid
<1> DEFINE off2 == [k \in 1 .. n + 2 |-> IF k = n + 2 THEN count + size ELSE off[k]]
<1>2. n \in Nat /\ size \in Nat /\ Len(Bytes(m)) = size
  BY LenProperties, BytesOfMessage
<1>3. /\ all \in Seq(Message) /\ Len(all) = n + 1
      /\ \A i \in 1 .. n : all[i] = q[i]
      /\ all[n + 1] = m
  BY AppendProperties
<1>4. /\ off[1] = 0 /\ off[n + 1] = count
      /\ \A j, k \in 1 .. n + 1 : j <= k => off[j] <= off[k]
      /\ \A k \in 1 .. n : off[k + 1] = off[k] + Fifo!Size(q[k])
      /\ \A k \in 1 .. n : \A i \in 1 .. Fifo!Size(q[k]) :
           buf[Wrap(tail + off[k] + i - 1)] = Bytes(q[k])[i]
  BY <1>1 DEF Laid
<1>5. \A k \in 1 .. n : Fifo!Size(q[k]) \in Nat
  <2>1. \A k \in 1 .. n : q[k] \in Message
    BY ElementOfSeq
  <2> QED
    BY <2>1, BytesOfMessage
<1> HIDE DEF all, n, size
<1>6. off2 \in [1 .. n + 2 -> 0 .. count + size]
  BY <1>2
<1>7. off2[1] = 0 /\ off2[n + 2] = count + size
  BY <1>2, <1>4
<1>8. \A j, k \in 1 .. n + 2 : j <= k => off2[j] <= off2[k]
  BY <1>2, <1>4
<1>9. ASSUME NEW k \in 1 .. n + 1
      PROVE  off2[k + 1] = off2[k] + Fifo!Size(all[k])
  <2>1. CASE k = n + 1
    BY <2>1, <1>2, <1>3, <1>4 DEF size
  <2>2. CASE k # n + 1
    <3>1. k \in 1 .. n /\ k + 1 \in 1 .. n + 1 /\ k # n + 2 /\ k + 1 # n + 2
      BY <2>2, <1>2
    <3>2. off2[k] = off[k] /\ off2[k + 1] = off[k + 1]
      BY <3>1, <1>2
    <3> HIDE DEF off2
    <3>3. all[k] = q[k]
      BY <3>1, <1>3
    <3> QED
      BY <3>1, <3>2, <3>3, <1>4
  <2> QED
    BY <2>1, <2>2
<1>10. ASSUME NEW k \in 1 .. n + 1, NEW i \in 1 .. Fifo!Size(all[k])
       PROVE  new[Wrap(tail + off2[k] + i - 1)] = Bytes(all[k])[i]
  <2>0. BufferMax \in Nat /\ BufferMax > 0
    BY RingAssumption
  <2>1. CASE k = n + 1
    <3>1. off2[k] = count /\ all[k] = m /\ i \in 1 .. size
      BY <2>1, <1>2, <1>3, <1>4 DEF size
    <3> DEFINE x == count + i - 1  p == Wrap(tail + x)
    <3>2. x \in 0 .. BufferMax - 1 /\ x >= count /\ x - count = i - 1 /\ i - 1 < size
      BY <3>1, <2>0, <1>2 DEF size
    <3>3. tail + off2[k] + i - 1 = tail + x
      <4> HIDE DEF off2
      <4> QED
        BY <3>1, <2>0, <1>2 DEF Pos
    <3> HIDE DEF x
    <3>4. p \in Pos /\ Wrap(p - head) = i - 1
      BY <3>2, DistanceToHead
    <3> HIDE DEF p
    <3>5. new[p] = Bytes(m)[(i - 1) + 1]
      BY <3>2, <3>4, <1>2
    <3>6. (i - 1) + 1 = i
      BY <3>1, <1>2
    <3>7. Wrap(tail + off2[k] + i - 1) = p
      BY <3>3 DEF p
    <3> QED
      BY <3>1, <3>5, <3>6, <3>7
  <2>2. CASE k # n + 1
    <3>1. /\ k \in 1 .. n /\ off2[k] = off[k] /\ all[k] = q[k]
          /\ i \in 1 .. Fifo!Size(q[k])
      BY <2>2, <1>2, <1>3
    <3>2. Fifo!Size(q[k]) \in Nat /\ off[k] + Fifo!Size(q[k]) <= count /\ off[k] \in 0 .. count
      BY <3>1, <1>2, <1>4, <1>5
    <3> DEFINE x == off[k] + i - 1
    <3>3. x \in 0 .. count - 1 /\ x \in 0 .. BufferMax - 1
      BY <3>1, <3>2, <2>0
    <3>4. tail + off[k] + i - 1 = tail + x
      BY <3>1, <3>2 DEF x, Pos
    <3> HIDE DEF x
    <3> DEFINE p == Wrap(tail + x)
    <3>5. p \in Pos /\ Wrap(p - head) = x - count + BufferMax
      BY <3>3, DistanceToHead
    <3>6. x - count + BufferMax >= size
      BY <3>3, <2>0, <1>2 DEF size
    <3> HIDE DEF p
    <3>7. new[p] = buf[p]
      BY <3>3, <3>5, <3>6, <2>0, <1>2
    <3>8. Wrap(tail + off[k] + i - 1) = p
      BY <3>4 DEF p
    <3> QED
      BY <3>1, <3>7, <3>8, <1>4
  <2> QED
    BY <2>1, <2>2
<1>11. Laid(all, off2, tail, count + size, new)
  <2> HIDE DEF off2
  <2> QED
    BY <1>2, <1>3, <1>6, <1>7, <1>8, <1>9, <1>10 DEF Laid
<1> QED
  <2> HIDE DEF off2
  <2>1. off2 \in [1 .. Len(all) + 1 -> 0 .. count + size]
    BY <1>2, <1>3, <1>6
  <2> QED
    BY <2>1, <1>11 DEF IsLaid, all, size

\* get_received finds the first message where it was laid, and cuts it to its buffers.
LEMMA ReadsFirst ==
  ASSUME FieldsHold, RxRingTypeOK, inRing \in Seq(Message), inRing # <<>>,
         IsLaid(inRing, rxTail, rxCount, rxBuffer), NEW m \in Message, m = Head(inRing)
  PROVE  LET mid == Wrap(rxTail + 2 + Topic(m)) IN
         /\ Fifo!Size(m) <= rxCount /\ mid \in Pos
         /\ LengthAt(rxTail) = Topic(m) /\ LengthAt(mid) = Data(m)
         /\ BytesAt(rxTail, TopicCap) = Fifo!Cut(m.topic, TopicCap)
         /\ BytesAt(mid, DataCap) = Fifo!Cut(m.data, DataCap)
         /\ Wrap(mid + 2 + Data(m)) = Wrap(rxTail + Fifo!Size(m))
<1> DEFINE size == Fifo!Size(m)  T == Topic(m)  D == Data(m)  mid == Wrap(rxTail + 2 + T)
<1>1. /\ T \in Nat /\ D \in Nat /\ size \in Nat /\ size = T + D + 4
      /\ BufferMax \in Nat /\ TopicCap \in Nat /\ DataCap \in Nat
  BY BytesOfMessage, RingAssumption
<1>2. PICK off \in [1 .. Len(inRing) + 1 -> 0 .. rxCount] :
        Laid(inRing, off, rxTail, rxCount, rxBuffer)
  BY DEF IsLaid
<1>3. Len(inRing) \in Nat \ {0} /\ m = inRing[1]
  BY EmptySeq
<1>4. /\ off[1] = 0 /\ off[2] = off[1] + size /\ off[2] <= rxCount
      /\ \A i \in 1 .. size : rxBuffer[Wrap(rxTail + off[1] + i - 1)] = Bytes(m)[i]
  BY <1>2, <1>3 DEF Laid, RxRingTypeOK
<1>5. /\ rxCount \in 0 .. BufferMax - 1 /\ rxTail \in Pos /\ rxTail \in Int
      /\ rxBuffer \in [Pos -> Byte]
  BY DEF RxRingTypeOK, Pos
<1>6. size <= rxCount /\ size < BufferMax
  BY <1>1, <1>4, <1>5
<1> HIDE DEF size, T, D
<1>7. \A i \in 0 .. size - 1 : rxBuffer[Wrap(rxTail + i)] = Bytes(m)[i + 1]
  <2> SUFFICES ASSUME NEW i \in 0 .. size - 1 PROVE rxBuffer[Wrap(rxTail + i)] = Bytes(m)[i + 1]
    OBVIOUS
  <2>1. i + 1 \in 1 .. size /\ rxTail + off[1] + (i + 1) - 1 = rxTail + i
    BY <1>1, <1>4, <1>5
  <2> QED
    BY <2>1, <1>4
<1>8. mid \in Pos /\ rxTail + 2 + T = rxTail + (2 + T)
  <2>1. 2 + T \in Nat /\ (2 + T) + 0 < BufferMax /\ rxTail + 2 + T = rxTail + (2 + T)
    BY <1>1, <1>5, <1>6
  <2>2. Wrap(rxTail + (2 + T)) \in Pos
    BY <2>1, <1>5, WrapTwice
  <2> QED
    BY <2>1, <2>2
<1>9. T < Base * Base /\ D < Base * Base
  BY <1>6 DEF FieldsHold, size, T, D, Topic, Data
<1>10. /\ rxBuffer[rxTail] = HighByte(T)
       /\ rxBuffer[Wrap(rxTail + 1)] = LowByte(T)
       /\ \A i \in 1 .. T : rxBuffer[Wrap(rxTail + 1 + i)] = m.topic[i]
  <2>1. rxBuffer[Wrap(rxTail + 0)] = Bytes(m)[0 + 1] /\ rxBuffer[Wrap(rxTail + 1)] = Bytes(m)[1 + 1]
    BY <1>1, <1>7
  <2>2. Wrap(rxTail + 0) = rxTail
    BY <1>1, <1>5, <1>6, WrapTwice
  <2>3. ASSUME NEW i \in 1 .. T PROVE rxBuffer[Wrap(rxTail + 1 + i)] = m.topic[i]
    <3>1. 1 + i \in 0 .. size - 1 /\ (1 + i) + 1 = 2 + i /\ rxTail + 1 + i = rxTail + (1 + i)
      BY <1>1, <1>5
    <3>2. rxBuffer[Wrap(rxTail + (1 + i))] = Bytes(m)[(1 + i) + 1]
      BY <3>1, <1>7
    <3> QED
      BY <3>1, <3>2, BytesOfMessage DEF T
  <2>4. Bytes(m)[1] = HighByte(T) /\ Bytes(m)[2] = LowByte(T)
    BY BytesOfMessage DEF T
  <2> QED
    BY <2>1, <2>2, <2>3, <2>4
<1>11. LengthAt(rxTail) = T
  BY <1>1, <1>9, <1>10, LengthBytes DEF LengthAt
<1>12. ASSUME NEW a \in 0 .. D + 1
       PROVE  /\ rxBuffer[Wrap(mid + a)] = Bytes(m)[T + 3 + a]
              /\ Wrap(mid + 0) = mid
  <2>1. /\ 2 + T \in Nat /\ a \in Nat /\ (2 + T) + a < BufferMax
        /\ (2 + T) + a = 2 + T + a /\ 2 + T + a \in 0 .. size - 1 /\ (2 + T + a) + 1 = T + 3 + a
    BY <1>1, <1>6
  <2>2. Wrap(Wrap(rxTail + (2 + T)) + a) = Wrap(rxTail + ((2 + T) + a))
    BY <2>1, <1>5, WrapTwice
  <2>3. rxBuffer[Wrap(rxTail + (2 + T + a))] = Bytes(m)[(2 + T + a) + 1]
    BY <2>1, <1>7
  <2>4. Wrap(mid + 0) = mid
    BY <1>1, <1>6, <1>8, WrapTwice
  <2> QED
    BY <2>1, <2>2, <2>3, <2>4, <1>8
<1> HIDE DEF mid
<1>13. /\ rxBuffer[mid] = HighByte(D)
       /\ rxBuffer[Wrap(mid + 1)] = LowByte(D)
       /\ \A i \in 1 .. D : rxBuffer[Wrap(mid + 1 + i)] = m.data[i]
  <2>1. rxBuffer[mid] = Bytes(m)[T + 3 + 0] /\ rxBuffer[Wrap(mid + 1)] = Bytes(m)[T + 3 + 1]
    BY <1>1, <1>12
  <2>2. T + 3 + 0 = T + 3 /\ T + 3 + 1 = T + 4
    BY <1>1
  <2>3. ASSUME NEW i \in 1 .. D PROVE rxBuffer[Wrap(mid + 1 + i)] = m.data[i]
    <3>1. 1 + i \in 0 .. D + 1 /\ T + 3 + (1 + i) = T + 4 + i /\ mid + 1 + i = mid + (1 + i)
      BY <1>1, <1>8 DEF Pos
    <3>2. rxBuffer[Wrap(mid + (1 + i))] = Bytes(m)[T + 3 + (1 + i)]
      BY <3>1, <1>12
    <3> QED
      BY <3>1, <3>2, BytesOfMessage DEF T, D
  <2>4. Bytes(m)[T + 3] = HighByte(D) /\ Bytes(m)[T + 4] = LowByte(D)
    BY BytesOfMessage DEF T, D
  <2> QED
    BY <2>1, <2>2, <2>3, <2>4
<1>14. LengthAt(mid) = D
  BY <1>1, <1>9, <1>13, LengthBytes DEF LengthAt
<1>15. ASSUME NEW s \in Seq(Byte), NEW t \in Pos, NEW cap \in Nat, LengthAt(t) = Len(s),
              \A i \in 1 .. Len(s) : rxBuffer[Wrap(t + 1 + i)] = s[i]
       PROVE  BytesAt(t, cap) = Fifo!Cut(s, cap)
  <2> DEFINE n == IF Len(s) > cap THEN cap ELSE Len(s)
  <2>1. Len(s) \in Nat /\ n \in Nat /\ n <= Len(s)
    BY LenProperties
  <2>2. BytesAt(t, cap) = [i \in 1 .. n |-> rxBuffer[Wrap(t + 1 + i)]] /\ Fifo!Cut(s, cap) = SubSeq(s, 1, n)
    BY <1>15 DEF BytesAt, Fifo!Cut
  <2>3. SubSeq(s, 1, n) = [i \in 1 .. n |-> s[i]]
    BY <2>1
  <2> HIDE DEF n
  <2>4. \A i \in 1 .. n : rxBuffer[Wrap(t + 1 + i)] = s[i]
    BY <1>15, <2>1
  <2> QED
    BY <2>2, <2>3, <2>4
<1>16. m.topic \in Seq(Byte) /\ m.data \in Seq(Byte)
  BY RingAssumption DEF Byte
<1>17. BytesAt(rxTail, TopicCap) = Fifo!Cut(m.topic, TopicCap)
  BY <1>1, <1>5, <1>10, <1>11, <1>15, <1>16 DEF T, Topic
<1>18. BytesAt(mid, DataCap) = Fifo!Cut(m.data, DataCap)
  BY <1>1, <1>8, <1>13, <1>14, <1>15, <1>16 DEF D, Data
<1>19. Wrap(mid + 2 + D) = Wrap(rxTail + size)
  <2>1. (2 + T) + (2 + D) = size /\ (2 + T) + (2 + D) < BufferMax /\ 2 + T \in Nat /\ 2 + D \in Nat
    BY <1>1, <1>6
  <2>2. Wrap(Wrap(rxTail + (2 + T)) + (2 + D)) = Wrap(rxTail + ((2 + T) + (2 + D)))
    BY <2>1, <1>5, WrapTwice
  <2>3. mid + 2 + D = mid + (2 + D)
    BY <1>1, <1>8 DEF Pos
  <2> QED
    BY <2>1, <2>2, <2>3, <1>8 DEF mid
<1> QED
  BY <1>6, <1>8, <1>11, <1>14, <1>17, <1>18, <1>19 DEF size, T, D, mid

\* What is left behind the first message lies as it lay.
LEMMA GetLays ==
  ASSUME NEW q \in Seq(Message), NEW tail \in Pos, NEW count \in 0 .. BufferMax - 1,
         NEW buf, IsLaid(q, tail, count, buf), q # <<>>, Fifo!Size(Head(q)) <= count
  PROVE  IsLaid(Tail(q), Wrap(tail + Fifo!Size(Head(q))), count - Fifo!Size(Head(q)), buf)
<1> DEFINE n == Len(q)  size == Fifo!Size(Head(q))  rest == Tail(q)  next == Wrap(tail + size)
<1>1. PICK off \in [1 .. n + 1 -> 0 .. count] : Laid(q, off, tail, count, buf)
  BY DEF IsLaid
<1> DEFINE off2 == [k \in 1 .. n |-> off[k + 1] - size]
<1>2. /\ n \in Nat \ {0} /\ Head(q) = q[1] /\ q[1] \in Message
      /\ rest \in Seq(Message) /\ Len(rest) = n - 1 /\ \A i \in 1 .. n - 1 : rest[i] = q[i + 1]
  BY EmptySeq, HeadTailProperties, ElementOfSeq
<1>3. size \in Nat /\ BufferMax \in Nat /\ count \in Nat /\ tail \in Int
  BY <1>2, BytesOfMessage, RingAssumption DEF Pos
<1>4. /\ off[1] = 0 /\ off[n + 1] = count /\ off[1 + 1] = off[1] + Fifo!Size(q[1])
      /\ \A j, k \in 1 .. n + 1 : j <= k => off[j] <= off[k]
      /\ \A k \in 1 .. n : off[k + 1] = off[k] + Fifo!Size(q[k])
      /\ \A k \in 1 .. n : \A i \in 1 .. Fifo!Size(q[k]) :
           buf[Wrap(tail + off[k] + i - 1)] = Bytes(q[k])[i]
  BY <1>1, <1>2 DEF Laid
<1>5. off[2] = size
  BY <1>2, <1>3, <1>4 DEF size
<1> HIDE DEF n, size, rest, next
<1>6. \A k \in 1 .. n : k + 1 \in 1 .. n + 1 /\ off[k + 1] \in size .. count
  BY <1>2, <1>3, <1>4, <1>5
<1>7. off2 \in [1 .. n -> 0 .. count - size]
  BY <1>2, <1>3, <1>6, SMTT(30)
<1>8. off2[1] = 0 /\ off2[n] = count - size
  BY <1>2, <1>3, <1>4, <1>5
<1>9. \A j, k \in 1 .. n : j <= k => off2[j] <= off2[k]
  <2> SUFFICES ASSUME NEW j \in 1 .. n, NEW k \in 1 .. n, j <= k PROVE off2[j] <= off2[k]
    OBVIOUS
  <2>1. off[j + 1] <= off[k + 1]
    BY <1>2, <1>4
  <2> QED
    BY <2>1, <1>2, <1>3, <1>6
<1>10. ASSUME NEW k \in 1 .. n - 1
       PROVE  /\ k + 1 \in 1 .. n /\ rest[k] = q[k + 1] /\ Fifo!Size(q[k + 1]) \in Nat
              /\ off2[k + 1] = off2[k] + Fifo!Size(rest[k])
  <2>1. k \in 1 .. n /\ k + 1 \in 1 .. n /\ rest[k] = q[k + 1] /\ q[k + 1] \in Message
    BY <1>2, ElementOfSeq DEF n
  <2>2. Fifo!Size(q[k + 1]) \in Nat
    BY <2>1, BytesOfMessage
  <2>3. off[(k + 1) + 1] = off[k + 1] + Fifo!Size(q[k + 1])
    BY <2>1, <1>4
  <2> QED
    BY <2>1, <2>2, <2>3, <1>3, <1>6
<1>11. ASSUME NEW k \in 1 .. n - 1, NEW i \in 1 .. Fifo!Size(rest[k])
       PROVE  buf[Wrap(next + off2[k] + i - 1)] = Bytes(rest[k])[i]
  <2> DEFINE o == off[k + 1]  o2 == off[(k + 1) + 1]  s2 == Fifo!Size(q[k + 1])
  <2>1. /\ k \in 1 .. n /\ k + 1 \in 1 .. n /\ rest[k] = q[k + 1]
        /\ s2 \in Nat /\ i \in 1 .. s2
    <3> HIDE DEF off2
    <3>1. k + 1 \in 1 .. n /\ rest[k] = q[k + 1] /\ s2 \in Nat
      BY <1>10
    <3>2. k \in 1 .. n
      BY <1>2
    <3> QED
      BY <3>1, <3>2
  <2>2. o2 = o + s2
    BY <2>1, <1>4
  <2>3. o2 \in size .. count /\ o \in size .. count
    BY <2>1, <1>6
  <2>4. off2[k] = o - size
    BY <2>1
  <2> HIDE DEF off2, o, o2, s2
  <2> DEFINE b == off2[k] + i - 1
  <2>5. b = (o - size) + i - 1 /\ o - size \in Nat /\ i - 1 \in Nat /\ i - 1 < s2
    BY <2>1, <2>3, <2>4, <1>3
  <2>6. size + b < o2 /\ o2 < BufferMax
    BY <2>1, <2>2, <2>3, <2>5, <1>3
  <2>7. b \in Nat /\ size + b < BufferMax
    BY <2>3, <2>5, <2>6, <1>3
  <2>8. size + b = o + i - 1 /\ tail + (size + b) = tail + o + i - 1
    BY <2>1, <2>3, <2>5, <1>3
  <2> HIDE DEF b
  <2>9. Wrap(tail + size) \in Pos /\ Wrap(Wrap(tail + size) + b) = Wrap(tail + (size + b))
    BY <2>7, <1>3, WrapTwice
  <2>10. next \in Int /\ off2[k] \in Int /\ i \in Int
    BY <2>1, <2>3, <2>4, <2>9, <1>3 DEF next, Pos
  <2>11. next + off2[k] + i - 1 = next + b
    BY <2>10 DEF b
  <2>12. buf[Wrap(tail + o + i - 1)] = Bytes(q[k + 1])[i]
    BY <2>1, <1>4 DEF o, s2
  <2> QED
    BY <2>1, <2>8, <2>9, <2>11, <2>12 DEF next
<1>12. Len(rest) = n - 1 /\ Len(rest) + 1 = n
  BY <1>2
<1> HIDE DEF off2
<1>13. Laid(rest, off2, next, count - size, buf)
  BY <1>7, <1>8, <1>9, <1>10, <1>11, <1>12 DEF Laid
<1> QED
  BY <1>7, <1>12, <1>13 DEF IsLaid, rest, next, size

-----------------------------------------------------------------------------
(* The inductive invariant *)

RingInv ==
  /\ RxRingTypeOK
  /\ inRing \in Seq(Message)
  /\ rxHead = Wrap(rxTail + rxCount)
  /\ IsLaid(inRing, rxTail, rxCount, rxBuffer)

LEMMA RingInvInit == RxRingInit => RingInv
<1> SUFFICES ASSUME RxRingInit PROVE RingInv
  OBVIOUS
<1>1. BufferMax \in Nat /\ BufferMax > 0 /\ 0 \in Pos /\ 0 \in Byte
  BY RingAssumption DEF Pos, Byte
<1>2. RxRingTypeOK
  BY <1>1 DEF RxRingInit, RxRingTypeOK
<1>3. rxHead = Wrap(rxTail + rxCount)
  <2>1. Wrap(0 + 0) = 0
    BY <1>1, WrapTwice
  <2> QED
    BY <2>1 DEF RxRingInit
<1>4. inRing \in Seq(Message) /\ Len(inRing) = 0 /\ rxCount = 0
  BY DEF RxRingInit
<1>5. Laid(inRing, [k \in 1 .. 1 |-> 0], rxTail, rxCount, rxBuffer)
  BY <1>4 DEF Laid
<1>6. IsLaid(inRing, rxTail, rxCount, rxBuffer)
  <2>1. [k \in 1 .. 1 |-> 0] \in [1 .. Len(inRing) + 1 -> 0 .. rxCount]
    BY <1>4
  <2> QED
    BY <2>1, <1>5 DEF IsLaid
<1> QED
  BY <1>2, <1>3, <1>4, <1>6 DEF RingInv

\* The two positions are the same when no message is in the ring, and only then.
LEMMA EmptyRing ==
  ASSUME RingInv
  PROVE  (rxTail = rxHead <=> inRing = <<>>) /\ rxCount = Wrap(rxHead - rxTail)
<1>1. /\ BufferMax \in Nat /\ rxCount \in 0 .. BufferMax - 1 /\ rxTail \in Pos
      /\ rxHead = Wrap(rxTail + rxCount)
  BY RingAssumption DEF RingInv, RxRingTypeOK
<1>2. rxCount = Wrap(rxHead - rxTail) /\ (rxTail = rxHead <=> rxCount = 0)
  BY <1>1, WrapIs DEF Pos
<1>3. PICK off \in [1 .. Len(inRing) + 1 -> 0 .. rxCount] :
        Laid(inRing, off, rxTail, rxCount, rxBuffer)
  BY DEF RingInv, IsLaid
<1>4. inRing \in Seq(Message)
  BY DEF RingInv
<1>5. CASE inRing = <<>>
  BY <1>2, <1>3, <1>5 DEF Laid
<1>6. CASE inRing # <<>>
  <2>1. Len(inRing) \in Nat \ {0} /\ inRing[1] \in Message
    BY <1>4, <1>6, EmptySeq, ElementOfSeq
  <2>2. Fifo!Size(inRing[1]) \in Nat /\ Fifo!Size(inRing[1]) > 0
    BY <2>1, BytesOfMessage
  <2>3. /\ off[1] = 0 /\ off[1 + 1] = off[1] + Fifo!Size(inRing[1])
        /\ off[2] \in 0 .. rxCount
    BY <2>1, <1>3 DEF Laid
  <2> QED
    BY <2>2, <2>3, <1>1, <1>2, <1>6
<1> QED
  BY <1>2, <1>5, <1>6

\* MQTT_Post_Received takes a message if the queue takes it, and keeps the ring in order.
LEMMA PostStep ==
  ASSUME RingInv, NEW m \in Message, MQTT_Post_Received(m)
  PROVE  RingInv' /\ Fifo!Post(m)
<1> DEFINE size == Fifo!Size(m)
<1>1. /\ Topic(m) \in Nat /\ Data(m) \in Nat /\ size \in Nat /\ size = Topic(m) + Data(m) + 4
      /\ Bytes(m) \in Seq(Byte) /\ Len(Bytes(m)) = size /\ BufferMax \in Nat
  BY BytesOfMessage, RingAssumption
<1>2. /\ rxCount \in 0 .. BufferMax - 1 /\ rxTail \in Pos /\ rxHead \in Pos
      /\ rxBuffer \in [Pos -> Byte] /\ rxHead = Wrap(rxTail + rxCount)
      /\ inRing \in Seq(Message) /\ IsLaid(inRing, rxTail, rxCount, rxBuffer)
  BY DEF RingInv, RxRingTypeOK
<1>3. /\ BufferMax - 1 - rxCount >= Topic(m) + Data(m) + 2 + 2
      /\ rxBuffer' = [p \in Pos |-> IF Wrap(p - rxHead) < Len(Bytes(m))
                                    THEN Bytes(m)[Wrap(p - rxHead) + 1] ELSE rxBuffer[p]]
      /\ rxHead' = Wrap(rxHead + Len(Bytes(m))) /\ rxCount' = rxCount + Len(Bytes(m))
      /\ answered' = Fifo!Answer("post", TRUE, m)
      /\ inRing' = Append(inRing, m) /\ rxTail' = rxTail
  BY DEF MQTT_Post_Received, Fits, Add, Bytes, Topic, Data
<1> HIDE DEF size
<1>4. rxCount + size <= BufferMax - 1 /\ rxCount' = rxCount + size /\ rxCount' \in 0 .. BufferMax - 1
  BY <1>1, <1>2, <1>3, SMTT(30)
<1>5. rxBuffer' \in [Pos -> Byte]
  <2> SUFFICES ASSUME NEW p \in Pos
               PROVE  (IF Wrap(p - rxHead) < Len(Bytes(m))
                       THEN Bytes(m)[Wrap(p - rxHead) + 1] ELSE rxBuffer[p]) \in Byte
    BY <1>3
  <2>1. Wrap(p - rxHead) \in Nat
    <3>1. p \in 0 .. BufferMax - 1 /\ rxHead \in 0 .. BufferMax - 1
      BY <1>2 DEF Pos
    <3>2. CASE p >= rxHead
      <4>1. p - rxHead \in 0 .. 2 * BufferMax - 1 /\ p - rxHead < BufferMax
        BY <3>1, <3>2, <1>1
      <4> QED
        BY <4>1, <1>1, WrapIs
    <3>3. CASE p < rxHead
      <4>1. p - rxHead \in 1 - BufferMax .. -1
        BY <3>1, <3>3, <1>1
      <4> QED
        BY <4>1, <1>1, WrapIs
    <3> QED
      BY <3>1, <3>2, <3>3
  <2>2. CASE Wrap(p - rxHead) < Len(Bytes(m))
    <3>1. Wrap(p - rxHead) + 1 \in 1 .. Len(Bytes(m))
      BY <2>1, <2>2, <1>1
    <3> QED
      BY <3>1, <2>2, <1>1, ElementOfSeq
  <2> QED
    BY <2>2, <1>2
<1>6. rxHead' = Wrap(rxTail + (rxCount + size)) /\ rxHead' \in Pos
  <2>1. rxCount \in Nat /\ rxCount + size < BufferMax /\ rxCount + size \in Nat
    BY <1>1, <1>2, <1>4
  <2>2. Wrap(Wrap(rxTail + rxCount) + size) = Wrap(rxTail + (rxCount + size))
    BY <2>1, <1>1, <1>2, WrapTwice
  <2>3. (rxCount + size) + 0 < BufferMax
    BY <2>1
  <2>4. Wrap(rxTail + (rxCount + size)) \in Pos
    BY <2>1, <2>3, <1>2, WrapTwice
  <2> QED
    BY <2>2, <2>4, <1>1, <1>2, <1>3
<1>7. IsLaid(Append(inRing, m), rxTail, rxCount + size, rxBuffer')
  <2>1. \A p \in Pos : rxBuffer'[p] = IF Wrap(p - rxHead) < Len(Bytes(m))
                                     THEN Bytes(m)[Wrap(p - rxHead) + 1] ELSE rxBuffer[p]
    BY <1>3
  <2> QED
    BY <2>1, <1>2, <1>4, <1>5, PostLays DEF size
<1>8. inRing' \in Seq(Message)
  BY <1>2, <1>3, AppendProperties
<1>9. RxRingTypeOK'
  BY <1>2, <1>3, <1>4, <1>5, <1>6 DEF RxRingTypeOK
<1>10. RingInv'
  BY <1>3, <1>4, <1>6, <1>7, <1>8, <1>9 DEF RingInv
<1>11. Fifo!Post(m)
  BY <1>3, <1>4 DEF Fifo!Post, Fifo!Fits, size
<1> QED
  BY <1>10, <1>11

\* A message the ring has no room for, the queue refuses as well.
LEMMA OverflowStep ==
  ASSUME RingInv, NEW m \in Message, PostOverflow(m)
  PROVE  RingInv' /\ Fifo!Drop(m)
<1>1. RingInv'
  BY DEF PostOverflow, RingInv, RxRingTypeOK
<1>2. /\ Topic(m) \in Nat /\ Data(m) \in Nat /\ Fifo!Size(m) = Topic(m) + Data(m) + 4
      /\ BufferMax \in Nat /\ rxCount \in 0 .. BufferMax - 1
  BY BytesOfMessage, RingAssumption DEF RingInv, RxRingTypeOK
<1>3. ~(BufferMax - 1 - rxCount >= Topic(m) + Data(m) + 2 + 2)
  BY DEF PostOverflow, Fits, Topic, Data
<1>4. ~(rxCount + Fifo!Size(m) <= BufferMax - 1)
  BY <1>2, <1>3
<1> QED
  BY <1>1, <1>4 DEF PostOverflow, Fifo!Drop, Fifo!Fits

\* get_received hands over the oldest message and takes exactly its bytes.
LEMMA GetStep ==
  ASSUME FieldsHold, RingInv, get_received
  PROVE  RingInv' /\ Fifo!Get
<1> DEFINE m == Head(inRing)  size == Fifo!Size(m)
           mid == Wrap(rxTail + 2 + Topic(m))
<1>1. inRing # <<>>
  BY EmptyRing DEF get_received
<1>2. /\ RxRingTypeOK /\ inRing \in Seq(Message) /\ m \in Message
      /\ IsLaid(inRing, rxTail, rxCount, rxBuffer)
  BY <1>1, HeadTailProperties DEF RingInv
<1>3. /\ size <= rxCount /\ LengthAt(rxTail) = Topic(m) /\ LengthAt(mid) = Data(m)
      /\ BytesAt(rxTail, TopicCap) = Fifo!Cut(m.topic, TopicCap)
      /\ BytesAt(mid, DataCap) = Fifo!Cut(m.data, DataCap)
      /\ Wrap(mid + 2 + Data(m)) = Wrap(rxTail + size)
  BY <1>1, <1>2, ReadsFirst
<1>4. /\ Topic(m) \in Nat /\ Data(m) \in Nat /\ size \in Nat /\ size = Topic(m) + Data(m) + 4
      /\ BufferMax \in Nat /\ rxCount \in 0 .. BufferMax - 1 /\ rxTail \in Pos
      /\ rxHead = Wrap(rxTail + rxCount)
  BY <1>2, BytesOfMessage, RingAssumption DEF RingInv, RxRingTypeOK
<1>5. /\ answered' = Fifo!Answer("get", TRUE, [topic |-> BytesAt(rxTail, TopicCap),
                                              data  |-> BytesAt(mid, DataCap)])
      /\ LET left == rxCount - Topic(m) - Data(m) - 4 IN
         /\ rxCount' = IF left < 0 THEN 0 ELSE left
         /\ rxTail' = IF left < 0 THEN 0 ELSE Wrap(mid + 2 + Data(m))
         /\ rxHead' = IF left < 0 THEN 0 ELSE rxHead
      /\ inRing' = IF inRing = <<>> THEN inRing ELSE Tail(inRing)
      /\ rxBuffer' = rxBuffer
  <2> HIDE DEF m, size
  <2> QED
    BY <1>3 DEF get_received, mid
<1> HIDE DEF m, size, mid
<1>6. /\ rxCount' = rxCount - size /\ rxTail' = Wrap(rxTail + size) /\ rxHead' = rxHead
      /\ inRing' = Tail(inRing)
  <2>1. /\ rxCount - Topic(m) - Data(m) - 4 = rxCount - size
        /\ ~(rxCount - Topic(m) - Data(m) - 4 < 0)
    BY <1>3, <1>4
  <2> QED
    BY <2>1, <1>1, <1>3, <1>5
<1>7. rxCount' \in 0 .. BufferMax - 1
  BY <1>3, <1>4, <1>6
<1>8. /\ rxTail' \in Pos
      /\ Wrap(rxTail' + rxCount') = Wrap(rxTail + rxCount)
  <2>1. /\ size + (rxCount - size) < BufferMax /\ rxCount - size \in Nat
        /\ size + (rxCount - size) = rxCount
    BY <1>3, <1>4
  <2>2. Wrap(rxTail + size) \in Pos
    BY <2>1, <1>4, WrapTwice
  <2>3. Wrap(Wrap(rxTail + size) + (rxCount - size)) = Wrap(rxTail + (size + (rxCount - size)))
    BY <2>1, <1>4, WrapTwice
  <2> QED
    BY <2>1, <2>2, <2>3, <1>6
<1>9. RxRingTypeOK'
  BY <1>2, <1>5, <1>6, <1>7, <1>8 DEF RxRingTypeOK
<1>10. inRing' \in Seq(Message)
  BY <1>1, <1>2, <1>6, HeadTailProperties
<1>11. IsLaid(inRing', rxTail', rxCount', rxBuffer')
  BY <1>1, <1>2, <1>3, <1>4, <1>5, <1>6, GetLays DEF m, size
<1>12. RingInv'
  BY <1>4, <1>6, <1>8, <1>9, <1>10, <1>11 DEF RingInv
<1>13. Fifo!Get
  BY <1>1, <1>3, <1>5, <1>6 DEF Fifo!Get, m, size
<1> QED
  BY <1>12, <1>13

LEMMA RingStep ==
  ASSUME FieldsHold, RingInv, [RxRingNext]_rxRingVars
  PROVE  RingInv' /\ [Fifo!Next]_(Fifo!fifoVars)
<1>1. ASSUME NEW m \in Message, MQTT_Post_Received(m)
      PROVE  RingInv' /\ [Fifo!Next]_(Fifo!fifoVars)
  BY <1>1, PostStep DEF Fifo!Next
<1>2. ASSUME NEW m \in Message, PostOverflow(m)
      PROVE  RingInv' /\ [Fifo!Next]_(Fifo!fifoVars)
  BY <1>2, OverflowStep DEF Fifo!Next
<1>3. CASE get_received
  BY <1>3, GetStep DEF Fifo!Next
<1>4. CASE GetNothing
  <2>1. RingInv'
    BY <1>4 DEF GetNothing, RingInv, RxRingTypeOK
  <2>2. Fifo!GetNothing
    BY <1>4, EmptyRing DEF GetNothing, Fifo!GetNothing
  <2> QED
    BY <2>1, <2>2 DEF Fifo!Next
<1>5. CASE UNCHANGED rxRingVars
  <2>1. RingInv'
    BY <1>5 DEF rxRingVars, RingInv, RxRingTypeOK
  <2>2. UNCHANGED Fifo!fifoVars
    BY <1>5 DEF rxRingVars, Fifo!fifoVars
  <2> QED
    BY <2>1, <2>2
<1> QED
  BY <1>1, <1>2, <1>3, <1>4, <1>5 DEF RxRingNext

\* The receive buffer is the bounded queue of messages that MqttRxFifo describes: whatever the
\* sizes of the messages and wherever the ring wraps, MQTT_Post_Received and get_received
\* keep every message whole, once and in order, refuse one only when its bytes do not
\* fit, and keep the count and the two positions in agreement.
THEOREM RingImplementsFifo == ASSUME FieldsHold PROVE RxRingSpec => RingIsFifo
<1>1. RxRingInit => RingInv /\ Fifo!Init
  <2>1. RxRingInit => Fifo!Init
    BY DEF RxRingInit, Fifo!Init
  <2> QED
    BY <2>1, RingInvInit
<1>2. RingInv /\ [RxRingNext]_rxRingVars => RingInv' /\ [Fifo!Next]_(Fifo!fifoVars)
  BY RingStep
<1>3. RingInv => CountMatches
  BY EmptyRing DEF CountMatches
<1>4. RingInv' => CountMatches'
  BY <1>3, PTL
<1> QED
  BY <1>1, <1>2, <1>4, PTL DEF RxRingSpec, RingIsFifo, ImplementsFifo, Fifo!Spec
=============================================================================
