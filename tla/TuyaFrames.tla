----------------------------- MODULE TuyaFrames -----------------------------
(***************************************************************************)
(* How drv_tuyaMCU.c finds packets in what the UART received:              *)
(* UART_TryToGetNextTuyaPacket, called until it finds none, with bytes     *)
(* arriving between its steps.  A packet is a header of two bytes, the two *)
(* bytes of the payload's length, the payload and a checksum; version and  *)
(* command are left out.                                                   *)
(***************************************************************************)
EXTENDS UartRing, SequencesExt

CONSTANTS
  ByteBase,      \* 256
  Streams,   \* what the MCU may send: sequences of payloads and of garbage
  MaxPacket  \* size of the caller's buffer

ASSUME FramesAssumption ==
  /\ ByteBase \in Nat /\ ByteBase > 3 /\ UartByte = 0..(ByteBase - 1) /\ MaxPacket \in Nat
  /\ Streams \subseteq Seq([what : {"packet", "garbage"}, bytes : Seq(UartByte)])
  \* the length has two bytes
  /\ \A s \in Streams : \A i \in DOMAIN s : Len(s[i].bytes) < ByteBase * ByteBase

VARIABLES
  stream,     \* environment: what the MCU sends
  arrived,    \* environment: how many bytes of it have come
  parserAt,   \* "idle", "skip" or "take"
  parserSize, \* cs
  delivered,  \* packets given to TuyaMCU_ProcessIncoming whose checksum was right
  overrun     \* observer: the buffer was full when a byte came

frameVars == <<recvBuf, recvBufIn, recvBufOut, stream, arrived, parserAt, parserSize,
               delivered, overrun>>
parserVars == <<parserAt, parserSize, delivered>>

H1 == 1
H2 == 2
MinPacket == 5

Checksum(s) ==
  LET sum[i \in 0..Len(s)] == IF i = 0 THEN 0 ELSE sum[i - 1] + s[i] IN sum[Len(s)] % ByteBase
FramedPacket(p) ==
  LET body == <<H1, H2, Len(p) \div ByteBase, Len(p) % ByteBase>> \o p IN Append(body, Checksum(body))
Sends(item) == IF item.what = "packet" THEN FramedPacket(item.bytes) ELSE item.bytes
Wire ==
  LET wire[i \in 0..Len(stream)] == IF i = 0 THEN <<>> ELSE wire[i - 1] \o Sends(stream[i]) IN
  wire[Len(stream)]
FitsBuffer(p) == Len(p) + MinPacket <= MaxPacket
Packets ==
  LET packets[i \in 0..Len(stream)] ==
        IF i = 0 THEN <<>>
        ELSE IF stream[i].what = "packet" /\ FitsBuffer(stream[i].bytes)
             THEN Append(packets[i - 1], stream[i].bytes) ELSE packets[i - 1]
  IN  packets[Len(stream)]

FramesInit ==
  /\ RingInit /\ stream \in Streams /\ arrived = 0
  /\ parserAt = "idle" /\ parserSize = 0 /\ delivered = <<>> /\ overrun = FALSE

\* UART_AppendByteToReceiveRingBuffer, from the interrupt
Arrive ==
  /\ arrived < Len(Wire) /\ arrived' = arrived + 1
  /\ AppendByte(Wire[arrived + 1])
  /\ overrun' = (overrun \/ GetDataSize = RingSize - 1)
  /\ UNCHANGED <<stream, parserVars>>

TryToGetNext ==
  /\ parserAt = "idle" /\ GetDataSize >= MinPacket
  /\ parserSize' = GetDataSize /\ parserAt' = "skip"
  /\ UNCHANGED <<ringVars, stream, arrived, delivered, overrun>>

\* The byte behind the last one is whatever the buffer held before.
HeaderAt0 == GetByte(0) = H1 /\ GetByte(1) = H2
Skip ==
  /\ parserAt = "skip"
  /\ IF parserSize > 0 /\ ~HeaderAt0
     THEN /\ ConsumeBytes(1) /\ parserSize' = parserSize - 1 /\ UNCHANGED parserAt
     ELSE /\ parserAt' = IF parserSize < MinPacket THEN "idle" ELSE "take"
          /\ UNCHANGED <<ringVars, parserSize>>
  /\ UNCHANGED <<stream, arrived, delivered, overrun>>

\* len = lenb | lena >> 8: the upper byte is lost
LengthOf(s) == s[4] + (s[3] \div ByteBase)

\* TuyaMCU_ProcessIncoming: its length is computed in the same way.
Accepted(s) == s[Len(s)] = Checksum(SubSeq(s, 1, Len(s) - 1))
TakesAll(n) == parserSize
Takes(n) == n
TakePacket ==
  /\ parserAt = "take" /\ parserAt' = "idle"
  /\ LET n == LengthOf(GetBytes(MinPacket)) + MinPacket
         s == GetBytes(n) IN
     IF HeaderAt0 /\ parserSize >= n
     THEN /\ ConsumeBytes(Takes(n))
          /\ delivered' = IF n <= MaxPacket /\ Accepted(s)
                          THEN Append(delivered, SubSeq(s, 5, n - 1)) ELSE delivered
     ELSE UNCHANGED <<ringVars, delivered>>
  /\ UNCHANGED <<parserSize, stream, arrived, overrun>>

Parse == TryToGetNext \/ Skip \/ TakePacket
FramesNext == Arrive \/ Parse
FramesSpec == FramesInit /\ [][FramesNext]_frameVars

-----------------------------------------------------------------------------
FramesTypeOK ==
  /\ RingTypeOK /\ arrived \in 0..Len(Wire) /\ parserAt \in {"idle", "skip", "take"}
  /\ parserSize \in 0..(RingSize - 1) /\ overrun \in BOOLEAN

\* What the parser can make sense of: lengths of one byte, for the other one is lost, and
\* between two packets no header and less garbage than could leave the parser with the
\* first byte of a header alone.  ("should not happen", UART_TryToGetNextTuyaPacket)
Sendable(s) ==
  \A i \in DOMAIN s : LET b == s[i].bytes IN
    IF s[i].what = "packet" THEN Len(b) < ByteBase
    ELSE /\ Len(b) \in 1..(MinPacket - 2)
         /\ \A j \in 1..(Len(b) - 1) : ~(b[j] = H1 /\ b[j + 1] = H2)
         /\ i < Len(s) => s[i + 1].what = "packet"

\* Unless the buffer overflows every packet that fits the caller's buffer is handed over,
\* whole and in order, however the bytes arrive and whatever short garbage lies between
\* packets; what does not fit takes nothing else along.
EveryPacketDelivered ==
  Sendable(stream) /\ ~overrun =>
    /\ IsPrefix(delivered, Packets)
    /\ arrived = Len(Wire) /\ parserAt = "idle" /\ GetDataSize < MinPacket
         => delivered = Packets

\* The buffer is a queue that forgets its oldest bytes.
UartUnread == GetBytes(GetDataSize)
UartFifo == INSTANCE LossyFifo WITH Item <- UartByte, Capacity <- RingSize - 1,
          unread <- UartUnread, puts <- arrived
KeepsLastBytes == UartFifo!Spec
=============================================================================
