------------------------------ MODULE LogRing ------------------------------
(***************************************************************************)
(* The log memory of src/src/logging/logging.c on Beken: threads that log  *)
(* write their lines into a ring under a mutex, the timer thread sends     *)
(* them to the serial port and to TCP, a web request reads them.           *)
(***************************************************************************)
EXTENDS Integers, Sequences

CONSTANTS
  Writers,     \* threads that call addLogAdv
  LineOf,      \* length of the lines of each
  LogSize,     \* LOGSIZE
  Chunk,       \* what getData takes at a time
  FifoSize,    \* characters the UART takes at once
  Hurry,       \* whether a thread may wait for the mutex in vain
  PendFails,   \* whether the timer thread's queue may be full
  MaxLines     \* bound: lines that are logged

Unheld == "unheld"

\* A line comes out of g_loggingBuffer, which is smaller than the log.
ASSUME LogAssumption ==
  /\ LogSize \in Nat /\ LogSize > 1 /\ {Chunk, FifoSize} \subseteq Nat \ {0}
  /\ LineOf \in [Writers -> 1..LogSize] /\ Unheld \notin Writers /\ {Hurry, PendFails} \subseteq BOOLEAN /\ MaxLines \in Nat

VARIABLES
  log, head,  \* logMemory.log and .head
  tail,       \* logMemory.tailserial, .tailtcp, .tailhttp
  mutex,      \* who holds logMemory.mutex; readers hold it within a step
  at,         \* per writer: "idle", "copy" or "trigger"
  pos,        \* per writer: i
  buffer,     \* g_loggingBuffer: whose line it holds
  pended,     \* log_timer_pended
  timerCalls,  \* calls of log_timer_cb the timer thread has queued
  timerAt,    \* the timer thread: "idle", "serial" or "tcp"
  client,     \* whether one of tcp_log_ports is a TCP client's
  fifo,       \* environment: characters in the UART
  written,    \* observer: characters ever logged
  lost,       \* observer: characters were lost since the serial port was last sent one
  marked,     \* observer: every loss was shown with '^'
  lines       \* bound: lines that are left

logVars == <<log, head, tail, mutex, at, pos, buffer, pended, timerCalls, timerAt, client, fifo,
             written, lost, marked, lines>>

Readers == {"serial", "tcp", "http"}
Character == {<<w, i>> : w \in Writers, i \in 1..LogSize}
NoCharacter == <<>>

Step(i) == (i + 1) % LogSize
Filled(r) == (head - tail[r]) % LogSize
Unread(r) == [i \in 1..Filled(r) |-> log[(tail[r] + i - 1) % LogSize]]

LogInit ==
  /\ log = [i \in 0..(LogSize - 1) |-> NoCharacter] /\ head = 0 /\ tail = [r \in Readers |-> 0]
  /\ mutex = Unheld /\ at = [w \in Writers |-> "idle"] /\ pos = [w \in Writers |-> 0]
  /\ buffer \in Writers /\ pended = FALSE /\ timerCalls = 0 /\ timerAt = "idle" /\ client = FALSE /\ fifo = 0
  /\ written = 0 /\ lost = FALSE /\ marked = TRUE /\ lines = MaxLines

-----------------------------------------------------------------------------
(* addLogAdv *)

LineTakesNone == TRUE
LineTakes == mutex = Unheld
TakeMutex(w) ==
  /\ at[w] = "idle" /\ lines > 0 /\ lines' = lines - 1
  /\ LineTakes \/ Hurry
  /\ mutex' = IF mutex = Unheld THEN w ELSE mutex
  /\ buffer' = w
  /\ at' = [at EXCEPT ![w] = "copy"] /\ pos' = [pos EXCEPT ![w] = 0]
  /\ UNCHANGED <<log, head, tail, pended, timerCalls, timerAt, client, fifo, written, lost, marked>>

\* If head collides with a tail, the tail is moved on.
StaysPut(r, h) == tail[r]
MovedOn(r, h) == IF tail[r] = h THEN Step(h) ELSE tail[r]
CopyCharacter(w) ==
  /\ at[w] = "copy" /\ pos[w] < LineOf[w]
  /\ log' = [log EXCEPT ![head] = <<buffer, pos[w] + 1>>]
  /\ head' = Step(head)
  /\ tail' = [r \in Readers |-> MovedOn(r, Step(head))]
  /\ written' = written + 1
  /\ lost' = (lost \/ tail["serial"] = Step(head))
  /\ pos' = [pos EXCEPT ![w] = @ + 1]
  /\ UNCHANGED <<mutex, at, buffer, pended, timerCalls, timerAt, client, fifo, marked, lines>>

GiveMutex(w) ==
  /\ at[w] = "copy" /\ pos[w] = LineOf[w]
  /\ mutex' = IF mutex = w THEN Unheld ELSE mutex
  /\ at' = [at EXCEPT ![w] = "trigger"]
  /\ UNCHANGED <<log, head, tail, pos, buffer, pended, timerCalls, timerAt, client, fifo, written, lost, marked, lines>>

\* trigger_log_send; the answer of the call is not looked at.
PendOnce == ~pended
Pend ==
  /\ pended' = TRUE
  /\ timerCalls' \in {timerCalls + (IF PendOnce THEN 1 ELSE 0)} \cup (IF PendFails THEN {timerCalls} ELSE {})

Trigger(w) ==
  /\ at[w] = "trigger" /\ at' = [at EXCEPT ![w] = "idle"]
  /\ Pend
  /\ UNCHANGED <<log, head, tail, mutex, pos, buffer, timerAt, client, fifo, written, lost, marked, lines>>

-----------------------------------------------------------------------------
(* The timer thread *)

\* log_timer_cb clears log_timer_pended first.
TimerCallback ==
  /\ timerAt = "idle" /\ timerCalls > 0 /\ timerCalls' = timerCalls - 1
  /\ pended' = FALSE
  /\ timerAt' = "serial"
  /\ UNCHANGED <<log, head, tail, mutex, at, pos, buffer, client, fifo, written, lost, marked, lines>>

\* getSerial2 sends what the UART takes, RunSerialLog triggers again if some remain.
Overflowed(r) == tail[r] = Step(head)
Room == IF Filled("serial") < FifoSize - fifo THEN Filled("serial") ELSE FifoSize - fifo
RemainsUnlooked == FALSE
Remains == Room < Filled("serial")
\* send_to_tcp does not read the log while no client is connected.
AfterSerial == IF client THEN "tcp" ELSE "idle"
RunSerialLog ==
  /\ timerAt = "serial" /\ (mutex = Unheld \/ Hurry)
  /\ tail' = [tail EXCEPT !["serial"] = (@ + Room) % LogSize]
  /\ fifo' = fifo + Room
  /\ marked' = (marked /\ (lost /\ Room > 0 => Overflowed("serial")))
  /\ lost' = (lost /\ Room = 0)
  /\ IF Remains THEN Pend ELSE UNCHANGED <<pended, timerCalls>>
  /\ timerAt' = AfterSerial
  /\ UNCHANGED <<log, head, mutex, at, pos, buffer, client, written, lines>>

GetData(r) ==
  LET n == IF Filled(r) < Chunk THEN Filled(r) ELSE Chunk IN
  tail' = [tail EXCEPT ![r] = (@ + n) % LogSize]

\* send_to_tcp reads until nothing is left, or until it did not get the mutex; a client
\* that does not take what it is sent is closed, and what is read after that is lost.
SendToTcp ==
  /\ timerAt = "tcp"
  /\ \/ /\ mutex = Unheld /\ Filled("tcp") > 0
        /\ GetData("tcp") /\ client' \in {client, FALSE} /\ UNCHANGED timerAt
     \/ /\ mutex = Unheld => Filled("tcp") = 0
        /\ timerAt' = "idle" /\ UNCHANGED <<tail, client>>
  /\ UNCHANGED <<log, head, mutex, at, pos, buffer, pended, timerCalls, fifo, written, lost, marked, lines>>

\* log_server_thread
TcpConnects ==
  /\ ~client /\ client' = TRUE
  /\ UNCHANGED <<log, head, tail, mutex, at, pos, buffer, pended, timerCalls, timerAt, fifo, written, lost, marked, lines>>

\* http_getlograw
HttpGetLog ==
  /\ mutex = Unheld /\ Filled("http") > 0 /\ GetData("http")
  /\ UNCHANGED <<log, head, mutex, at, pos, buffer, pended, timerCalls, timerAt, client, fifo, written, lost, marked, lines>>

UartSends ==
  /\ fifo > 0 /\ fifo' = fifo - 1
  /\ UNCHANGED <<log, head, tail, mutex, at, pos, buffer, pended, timerCalls, timerAt, client, written, lost, marked, lines>>

Writes(w) == CopyCharacter(w) \/ GiveMutex(w) \/ Trigger(w)
TimerThread == TimerCallback \/ RunSerialLog \/ SendToTcp
LogNext == TimerThread \/ TcpConnects \/ HttpGetLog \/ UartSends \/ \E w \in Writers : TakeMutex(w) \/ Writes(w)

\* The threads go on with what they began, and the UART sends what it holds.
LogFairness ==
  WF_logVars(TimerThread) /\ WF_logVars(UartSends) /\ \A w \in Writers : WF_logVars(Writes(w))
LogSpec == LogInit /\ [][LogNext]_logVars /\ LogFairness

-----------------------------------------------------------------------------
LogTypeOK ==
  /\ log \in [0..(LogSize - 1) -> Character \cup {NoCharacter}] /\ head \in 0..(LogSize - 1)
  /\ tail \in [Readers -> 0..(LogSize - 1)] /\ mutex \in Writers \cup {Unheld}
  /\ pended \in BOOLEAN /\ timerCalls \in 0..1 /\ client \in BOOLEAN /\ fifo \in 0..FifoSize

\* Lines are not mixed: behind a character comes the next of its line, or a new line
\* after the last one.  (the mutex of addLogAdv)
LinesWhole ==
  \A r \in Readers : \A i \in 1..(Filled(r) - 1) :
    LET c == Unread(r)[i]  d == Unread(r)[i + 1] IN
    IF c[2] = LineOf[c[1]] THEN d[2] = 1 ELSE d = <<c[1], c[2] + 1>>

\* What the serial port misses is shown: the first character after a loss is '^'.
LossIsMarked == marked

\* Whatever is logged while the timer thread sends, the serial port gets the rest: no
\* line waits for the next one to be logged.
SerialDrains == []<>(Filled("serial") = 0)

\* For each of its readers the log is a queue that forgets its oldest characters.
Serial == INSTANCE LossyFifo WITH Item <- Character, Capacity <- LogSize - 1, 
            unread <- Unread("serial"), puts <- written
Http == INSTANCE LossyFifo WITH Item <- Character, Capacity <- LogSize - 1, 
            unread <- Unread("http"), puts <- written
Tcp == INSTANCE LossyFifo WITH Item <- Character, Capacity <- LogSize - 1, 
            unread <- Unread("tcp"), puts <- written
ReadersSeeAFifo == Serial!Spec /\ Tcp!Spec /\ Http!Spec

\* What a reader gets are whole lines, or it sees that something is missing.
LogSound == LinesWhole /\ LossIsMarked
=============================================================================
