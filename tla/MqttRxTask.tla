----------------------------- MODULE MqttRxTask -----------------------------
(***************************************************************************)
(* Who empties the MQTT receive buffer, and when.  The TCP/IP thread queues *)
(* a message (MQTT_Post_Received) and, on Beken, asks for a one-shot timer *)
(* through a bit of g_timer_triggers (hal_main_bk7231.c); elsewhere the    *)
(* quick tick polls every few milliseconds.  The buffer is the queue that  *)
(* MqttRxRing implements; its mutex is the one publishing holds, so either *)
(* side may fail to take it.                                               *)
(***************************************************************************)
EXTENDS Integers, Sequences

CONSTANTS Boards,     \* the boards: whether the one-shot timer drives the reader (beken),
                      \* and whether a publish may hold the mutex past the timeout (busy)
          MaxMessage  \* how many messages arrive (bound of the model)

ASSUME RxTaskAssumption ==
  Boards \subseteq [beken : BOOLEAN, busy : BOOLEAN] /\ MaxMessage \in Nat

VARIABLES
  board,      \* the board that runs: it never changes
  next,       \* the next message to arrive
  queue,      \* the messages in the receive buffer
  handled,    \* the messages given to the callbacks
  triggered,  \* the ONESHOT_MQTT_PROCESS bit of g_timer_triggers
  armed,      \* whether g_timer_oneshot is running
  tcp,        \* what the TCP/IP thread does next: "idle", "trigger", "start"
  task        \* what the reader does next: "idle", "drain", "clear"

rxTaskVars == <<board, next, queue, handled, triggered, armed, tcp, task>>

RxTaskInit ==
  /\ board \in Boards
  /\ next = 1 /\ queue = <<>> /\ handled = <<>>
  /\ triggered = FALSE /\ armed = FALSE
  /\ tcp = "idle" /\ task = "idle"

\* The TCP/IP thread: queue the message, then trigger_oneshot.
Post ==
  /\ tcp = "idle" /\ next <= MaxMessage
  /\ queue' = Append(queue, next)
  /\ next' = next + 1
  /\ tcp' = IF board.beken THEN "trigger" ELSE "idle"
  /\ UNCHANGED <<board, handled, triggered, armed, task>>

\* The buffer has no room for the message, which may be of any size: it is dropped
\* with a line in the log, and the reader is triggered all the same.
PostWithoutRoom ==
  /\ tcp = "idle" /\ next <= MaxMessage
  /\ next' = next + 1
  /\ tcp' = IF board.beken THEN "trigger" ELSE "idle"
  /\ UNCHANGED <<board, queue, handled, triggered, armed, task>>

\* The mutex was not free in 100 ms: the message is dropped, no trigger.
PostDropped ==
  /\ board.busy /\ tcp = "idle" /\ next <= MaxMessage
  /\ next' = next + 1
  /\ UNCHANGED <<board, queue, handled, triggered, armed, tcp, task>>

SetTrigger ==
  /\ tcp = "trigger"
  /\ triggered' = TRUE /\ tcp' = "start"
  /\ UNCHANGED <<board, next, queue, handled, armed, task>>

StartTimer ==
  /\ tcp = "start"
  /\ armed' = TRUE /\ tcp' = "idle"
  /\ UNCHANGED <<board, next, queue, handled, triggered, task>>

\* The reader: process_oneshot_timer on Beken, MQTT_RunQuickTick elsewhere.
Fire ==
  /\ board.beken /\ armed /\ task = "idle"
  /\ armed' = FALSE
  /\ task' = IF triggered THEN "drain" ELSE "idle"
  /\ UNCHANGED <<board, next, queue, handled, triggered, tcp>>

QuickTick ==
  /\ ~board.beken /\ task = "idle"
  /\ task' = "drain"
  /\ UNCHANGED <<board, next, queue, handled, triggered, armed, tcp>>

\* One round of the loop of MQTT_process_received.
RestPeeked(q) == q
Rest(q) == Tail(q)

Drain ==
  /\ task = "drain" /\ queue # <<>>
  /\ handled' = Append(handled, Head(queue))
  /\ queue' = Rest(queue)
  /\ UNCHANGED <<board, next, triggered, armed, tcp, task>>

\* get_received found nothing, or could not take the mutex: the loop ends.
AfterLoop == IF board.beken THEN "clear" ELSE "idle"

DrainEnds ==
  /\ task = "drain" /\ (queue = <<>> \/ board.busy)
  /\ task' = AfterLoop
  /\ UNCHANGED <<board, next, queue, handled, triggered, armed, tcp>>

ClearTrigger ==
  /\ task = "clear"
  /\ triggered' = FALSE /\ task' = "idle"
  /\ UNCHANGED <<board, next, queue, handled, armed, tcp>>

TcpTimerFirst ==
  \/ /\ tcp = "trigger" /\ tcp' = "start" /\ armed' = TRUE
     /\ UNCHANGED <<board, next, queue, handled, triggered, task>>
  \/ /\ tcp = "start" /\ tcp' = "idle" /\ triggered' = TRUE
     /\ UNCHANGED <<board, next, queue, handled, armed, task>>
Tcp  == SetTrigger \/ StartTimer
Task == Fire \/ QuickTick \/ Drain \/ DrainEnds \/ ClearTrigger

RxTaskNext == Post \/ PostWithoutRoom \/ PostDropped \/ Tcp \/ Task

\* Both threads keep running, and the mutex is not busy at every attempt: a
\* publish call releases it.
RxTaskFairness == WF_rxTaskVars(Tcp) /\ WF_rxTaskVars(Task) /\ SF_rxTaskVars(Drain)
RxTaskSpec == RxTaskInit /\ [][RxTaskNext]_rxTaskVars /\ RxTaskFairness
-----------------------------------------------------------------------------
RxTaskTypeOK ==
  /\ board \in Boards
  /\ next \in 1 .. MaxMessage + 1
  /\ queue \in Seq(1 .. MaxMessage) /\ handled \in Seq(1 .. MaxMessage)
  /\ triggered \in BOOLEAN /\ armed \in BOOLEAN
  /\ tcp \in {"idle", "trigger", "start"} /\ task \in {"idle", "drain", "clear"}

\* The callbacks see the messages in the order they arrived, each at most once,
\* whatever the two threads and the mutex do.
HandledInOrder ==
  LET all == handled \o queue
  IN \A i \in 2 .. Len(all) : all[i - 1] < all[i]

Queued(m)  == \E i \in 1 .. Len(queue) : queue[i] = m
Handled(m) == \E i \in 1 .. Len(handled) : handled[i] = m

\* A message that was queued reaches the callbacks: "read mqtt as soon as
\* possible" (hal_main_bk7231.c:162).
EventuallyHandled == \A m \in 1 .. MaxMessage : Queued(m) ~> Handled(m)

\* The reader is woken for a message that waits: the quick tick polls, or the
\* one-shot timer's trigger is on its way, for this message or a later one, while
\* the reader has not yet seen the buffer empty and come to clear the bit.
WokenFor(m) == Queued(m) /\ (board.beken => tcp = "trigger" /\ task # "clear")

\* Behind the one-shot timer, the reader gave up on a busy mutex, and clears the bit.
GaveUp(m) == Queued(m) /\ board.busy /\ task = "clear"

\* Queued messages reach the callbacks by either way to be woken: a trigger gets every
\* message that waits handled, those left over from a lost trigger too, unless it falls
\* between the last look into the buffer and the clearing of the bit
\* (EventuallyHandled says what is lost then) or the reader gives up on the mutex.
\* (MQTT_RunQuickTick, process_oneshot_timer, trigger_oneshot)
MessagesReachCallbacks == \A m \in 1 .. MaxMessage : WokenFor(m) ~> (Handled(m) \/ GaveUp(m))
=============================================================================
