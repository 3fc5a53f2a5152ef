------------------------------ MODULE UartRing ------------------------------
(***************************************************************************)
(* The receive buffer of src/src/driver/drv_uart.c: the UART's interrupt   *)
(* appends bytes, the main loop looks at them and consumes them.  When it  *)
(* is full the first byte gives way to the new one.                        *)
(***************************************************************************)
EXTENDS Integers, Sequences

CONSTANTS
  UartByte,  \* bytes
  RingSize   \* g_recvBufSize

ASSUME UartAssumption == RingSize \in Nat /\ RingSize > 1 /\ 0 \in UartByte

VARIABLES
  recvBuf,              \* g_recvBuf
  recvBufIn, recvBufOut \* g_recvBufIn, g_recvBufOut

ringVars == <<recvBuf, recvBufIn, recvBufOut>>

\* UART_InitReceiveRingBufferEx
RingInit ==
  /\ recvBuf = [i \in 0..(RingSize - 1) |-> 0] /\ recvBufIn = 0 /\ recvBufOut = 0

GetDataSize ==
  IF recvBufIn >= recvBufOut THEN recvBufIn - recvBufOut
  ELSE recvBufIn + (RingSize - recvBufOut)
GetByte(i) == recvBuf[(recvBufOut + i) % RingSize]
GetBytes(n) == [i \in 1..n |-> GetByte(i - 1)]

OutStays == recvBufOut
OutMovesOn ==
  IF recvBufIn' = recvBufOut THEN (recvBufOut + 1) % RingSize ELSE recvBufOut
AppendByte(b) ==
  /\ recvBuf' = [recvBuf EXCEPT ![recvBufIn] = b]
  /\ recvBufIn' = (recvBufIn + 1) % RingSize
  /\ recvBufOut' = OutMovesOn

Advanced(n) == (recvBufOut + n) % RingSize
ConsumeBytes(n) ==
  /\ recvBufOut' = Advanced(n)
  /\ UNCHANGED <<recvBuf, recvBufIn>>

RingTypeOK ==
  /\ recvBuf \in [0..(RingSize - 1) -> UartByte]
  /\ {recvBufIn, recvBufOut} \subseteq 0..(RingSize - 1)
=============================================================================
