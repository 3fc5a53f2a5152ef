-------------------------- MODULE MqttPublishQueue --------------------------
(***************************************************************************)
(* What the device publishes second by second once it is connected, the    *)
(* end of MQTT_RunEverySecondUpdate in src/src/mqtt/new_mqtt.c: the queue  *)
(* that Home Assistant discovery and drivers fill (a list of reusable      *)
(* items with a counter), and the broadcast of the device's state, item by *)
(* item, in which the queue has its place.                                 *)
(*                                                                         *)
(* Commands that fill the queue or ask for a broadcast run on the main     *)
(* thread between two seconds or, where Preempt, on a web thread at any    *)
(* time: no mutex protects the list.  The steps are then those between     *)
(* which the list and its counter are seen; an update of the counter is    *)
(* one step, which leaves out further ways to lose one.                    *)
(*                                                                         *)
(* A second in which the client is not connected does not come here.       *)
(***************************************************************************)
EXTENDS Integers, Sequences, FiniteSets

CONSTANTS
  MaxQueue,    \* MQTT_MAX_QUEUE_SIZE
  AtOnce,      \* MQTT_QUEUED_ITEMS_PUBLISHED_AT_ONCE
  PerSecond,   \* g_maxBroadcastItemsPublishedPerSecond
  QueueIndex,  \* PUBLISHITEM_QUEUED_VALUES, in a broadcast that starts at 0
  LightIndex,  \* PUBLISHITEM_SELF_DYNAMIC_LIGHTSTATE
  LastIndex,   \* CHANNEL_MAX
  Preempt,     \* whether commands run on a thread of their own
  NullIgnored, \* whether a store through a null pointer goes unnoticed, instead of
               \* ending in a fault that restarts the device
  MaxCommands  \* how many commands there are (bound of the model)

ASSUME QueueAssumption ==
  /\ MaxQueue \in Nat \ {0} /\ AtOnce \in Nat \ {0} /\ PerSecond \in Nat \ {0}
  /\ QueueIndex \in Nat /\ LightIndex \in Nat /\ LastIndex \in Nat
  /\ QueueIndex < LightIndex /\ LightIndex < LastIndex
  /\ Preempt \in BOOLEAN /\ NullIgnored \in BOOLEAN /\ MaxCommands \in Nat

VARIABLES
  items,    \* the list at g_MqttPublishQueueHead, of [used, then]: is it to be
            \* published (not reusable), and does PublishChannels follow
  counter,  \* g_MqttPublishItemsQueued
  all,      \* g_bPublishAllStatesNow
  index,    \* g_publishItemIndex
  pc,       \* the second: "idle"; "walk" and "sending" in PublishQueuedItems;
            \* "state", "judge", "check" and "clear" in the broadcast
  at, count, result,  \* locals: list position, items tried, last result
  broadcasting,       \* whether the walk is the queue's turn in a broadcast
  sent,               \* g_sent_thisFrame
  web,      \* the command: "idle", or in MQTT_QueuePublish "take", "fill", "count"
  filling,     \* the item it fills
  commands  \* commands so far

walkVars    == <<at, count, result, broadcasting>>
secondVars  == <<pc, walkVars, sent>>
stateVars   == <<all, index>>
queueVars   == <<items, counter>>
commandVars == <<web, filling, commands>>
publishVars == <<queueVars, stateVars, secondVars, commandVars>>

Item == [used : BOOLEAN, then : BOOLEAN]

PublishInit ==
  /\ items = <<>> /\ counter = 0 /\ all = FALSE /\ index = 0
  /\ pc = "idle" /\ at = 1 /\ count = 0 /\ result = "none" /\ broadcasting = FALSE
  /\ sent = 0 /\ web = "idle" /\ filling = 0 /\ commands = 0

Used == {k \in DOMAIN items : items[k].used}

(***************************************************************************)
(* Commands                                                                *)
(***************************************************************************)
NewCommand ==
  /\ web = "idle" /\ (Preempt \/ pc = "idle")
  /\ commands < MaxCommands /\ commands' = commands + 1

RoomOneMore == counter <= MaxQueue
Room == counter < MaxQueue

\* MQTT_QueuePublish: the size of the queue; an item of the list, or a new one
\* at its end, whose memory holds anything, unless there is none; its topic,
\* which makes it one to publish; the rest of it and the counter.
QueueBegins ==
  /\ NewCommand /\ Room
  /\ web' = "take"
  /\ UNCHANGED <<queueVars, stateVars, secondVars, filling>>

Reusable == DOMAIN items \ Used

Take ==
  /\ web = "take" /\ web' = "fill"
  /\ IF Reusable # {}
       THEN filling' \in Reusable /\ (\A k \in Reusable : filling' <= k) /\ UNCHANGED items
       ELSE filling' = Len(items) + 1 /\ \E garbage \in Item : items' = Append(items, garbage)
  /\ UNCHANGED <<counter, stateVars, secondVars, commands>>

NoMemory ==
  /\ web = "take" /\ web' = "idle" /\ items # <<>> /\ Reusable = {}
  /\ UNCHANGED <<queueVars, stateVars, secondVars, filling, commands>>

\* There is no memory for the first item of the list, which is not tested for: the
\* item is filled and counted at the null pointer, and the list stays empty.
NoMemoryForFirst ==
  /\ web = "take" /\ web' = "idle" /\ items = <<>> /\ items' = <<>>
  /\ IF NullIgnored
       THEN counter' = counter + 1 /\ UNCHANGED <<stateVars, secondVars, filling>>
       ELSE /\ counter' = 0 /\ all' = FALSE /\ index' = 0
            /\ pc' = "idle" /\ at' = 1 /\ count' = 0 /\ result' = "none" /\ broadcasting' = FALSE
            /\ sent' = 0 /\ filling' = 0
  /\ UNCHANGED commands

Fill ==
  /\ web = "fill" /\ web' = "count"
  /\ items' = [items EXCEPT ![filling].used = TRUE]
  /\ UNCHANGED <<counter, stateVars, secondVars, filling, commands>>

Count ==
  /\ web = "count" /\ web' = "idle"
  /\ items' = [items EXCEPT ![filling].then = FALSE]
  /\ counter' = counter + 1
  /\ UNCHANGED <<stateVars, secondVars, filling, commands>>

\* Discovery ends with MQTT_InvokeCommandAtEnd(PublishChannels), which marks the
\* last item of the list.
InvokeCommandAtEnd ==
  /\ NewCommand /\ items # <<>>
  /\ items' = [items EXCEPT ![Len(items)].then = TRUE]
  /\ UNCHANGED <<counter, stateVars, secondVars, web, filling>>

WholeDeviceState == all' = TRUE /\ index' = 0

PublishWholeDeviceState ==
  /\ NewCommand /\ WholeDeviceState
  /\ UNCHANGED <<queueVars, secondVars, web, filling>>

\* MQTT_PublishOnlyDeviceChannelsIfPossible, if it is called at all.
ChannelsIfPossible(called) ==
  IF called /\ ~all THEN all' = TRUE /\ index' = LightIndex ELSE UNCHANGED stateVars

PublishOnlyDeviceChannels ==
  /\ NewCommand /\ ChannelsIfPossible(TRUE)
  /\ UNCHANGED <<queueVars, secondVars, web, filling>>

(***************************************************************************)
(* The second: the queue alone, a part of a broadcast, or the countdown to *)
(* the next one, whose end may come in any second.                         *)
(***************************************************************************)
SecondBegins == pc = "idle" /\ (Preempt \/ web = "idle")

Walk(turn) ==
  pc' = "walk" /\ at' = 1 /\ count' = 0 /\ result' = "none" /\ broadcasting' = turn

SecondQueue ==
  /\ SecondBegins /\ counter > 0 /\ ~all
  /\ Walk(FALSE)
  /\ UNCHANGED <<queueVars, stateVars, sent, commandVars>>

SecondState ==
  /\ SecondBegins /\ all
  /\ pc' = "state" /\ sent' = 0
  /\ UNCHANGED <<queueVars, stateVars, walkVars, commandVars>>

SecondMinute ==
  /\ SecondBegins /\ counter <= 0 /\ ~all
  /\ WholeDeviceState
  /\ UNCHANGED <<queueVars, secondVars, commandVars>>

(***************************************************************************)
(* PublishQueuedItems: the first AtOnce items to publish.  An item leaves  *)
(* the queue whatever becomes of it, and a failure ends the walk.          *)
(***************************************************************************)
WalkGoesOnToReusable ==
  at <= Len(items) /\ count < AtOnce /\ counter > 0 /\ result # "failed" /\ items[at].used
WalkGoesOn == at <= Len(items) /\ count < AtOnce /\ counter > 0 /\ result # "failed"

WalkSkips ==
  /\ pc = "walk" /\ WalkGoesOn /\ ~items[at].used
  /\ at' = at + 1
  /\ UNCHANGED <<queueVars, stateVars, pc, count, result, broadcasting, sent, commandVars>>

WalkSends ==
  /\ pc = "walk" /\ WalkGoesOn /\ items[at].used
  /\ pc' = "sending" /\ count' = count + 1 /\ result' \in {"ok", "failed"}
  /\ UNCHANGED <<queueVars, stateVars, at, broadcasting, sent, commandVars>>

CounterAfterSuccess == IF result = "ok" THEN counter - 1 ELSE counter
CounterAfterSend == counter - 1

WalkSent ==
  /\ pc = "sending" /\ pc' = "walk" /\ at' = at + 1
  /\ items' = [items EXCEPT ![at].used = FALSE]
  /\ counter' = CounterAfterSend
  /\ ChannelsIfPossible(result = "ok" /\ items[at].then)
  /\ UNCHANGED <<count, result, broadcasting, sent, commandVars>>

WalkEnds ==
  /\ pc = "walk" /\ ~WalkGoesOn
  /\ pc' = IF broadcasting THEN "judge" ELSE "idle"
  /\ UNCHANGED <<queueVars, stateVars, walkVars, sent, commandVars>>

(***************************************************************************)
(* The broadcast: PerSecond items a second, a failed one again the next.   *)
(***************************************************************************)
MoreItemsAndOne == index <= LastIndex
MoreItems == index < LastIndex

StateQueue ==
  /\ pc = "state" /\ MoreItems /\ index = QueueIndex
  /\ Walk(TRUE)
  /\ UNCHANGED <<queueVars, stateVars, sent, commandVars>>

StateItem ==
  /\ pc = "state" /\ MoreItems /\ index # QueueIndex
  /\ pc' = "judge" /\ result' \in {"ok", "failed", "none"}
  /\ UNCHANGED <<queueVars, stateVars, at, count, broadcasting, sent, commandVars>>

StateOver ==
  /\ pc = "state" /\ ~MoreItems
  /\ pc' = "check"
  /\ UNCHANGED <<queueVars, stateVars, walkVars, sent, commandVars>>

StopsHere == result = "failed" \/ (result = "ok" /\ sent + 1 >= PerSecond)

Judge ==
  /\ pc = "judge"
  /\ sent' = IF result = "ok" THEN sent + 1 ELSE sent
  /\ index' = IF result = "failed" THEN index ELSE index + 1
  /\ pc' = IF StopsHere THEN "check" ELSE "state"
  /\ UNCHANGED <<queueVars, all, walkVars, commandVars>>

Done == index >= LastIndex

Check ==
  /\ pc = "check"
  /\ pc' = IF Done THEN "clear" ELSE "idle"
  /\ UNCHANGED <<queueVars, stateVars, walkVars, sent, commandVars>>

Clear ==
  /\ pc = "clear" /\ pc' = "idle"
  /\ all' = FALSE
  /\ UNCHANGED <<queueVars, index, walkVars, sent, commandVars>>

-----------------------------------------------------------------------------
Queueing == Take \/ NoMemory \/ NoMemoryForFirst \/ Fill \/ Count
Command ==
  \/ QueueBegins \/ InvokeCommandAtEnd
  \/ PublishWholeDeviceState \/ PublishOnlyDeviceChannels
Second ==
  \/ SecondQueue \/ SecondState
  \/ WalkSkips \/ WalkSends \/ WalkSent \/ WalkEnds
  \/ StateQueue \/ StateItem \/ StateOver \/ Judge \/ Check \/ Clear

PublishNext == Command \/ Queueing \/ Second \/ SecondMinute

\* A command that began ends, a second with work to do comes, and an item of the
\* broadcast does not fail for ever: the client stays connected, has buffers and
\* answers.
PublishFairness ==
  /\ WF_publishVars(Queueing) /\ WF_publishVars(Second)
  /\ SF_publishVars(StateItem /\ result' = "ok")

PublishSpec == PublishInit /\ [][PublishNext]_publishVars /\ PublishFairness

-----------------------------------------------------------------------------
\* Type invariant: in particular a broadcast stops at the last channel.
PublishTypeOK ==
  /\ items \in Seq(Item) /\ counter \in Int /\ all \in BOOLEAN /\ index \in 0..LastIndex
  /\ pc \in {"idle", "walk", "sending", "state", "judge", "check", "clear"}
  /\ at \in Nat \ {0} /\ count \in 0..AtOnce /\ result \in {"ok", "failed", "none"}
  /\ broadcasting \in BOOLEAN /\ sent \in 0..PerSecond
  /\ web \in {"idle", "take", "fill", "count"} /\ filling \in 0..Len(items)
  /\ commands \in 0..MaxCommands

\* The counter, which MQTT_QueuePublish increments and PublishQueuedItems
\* decrements whatever the result, is the number of items to publish whenever
\* neither is at work: were it more, PublishQueuedItems would be called in every
\* second for nothing and the broadcast of every minute would never come again;
\* were it less, an item would stay in the list.
CounterMatches ==
  pc # "sending" /\ web \in {"idle", "take"} => counter = Cardinality(Used)

\* The list never grows beyond MQTT_MAX_QUEUE_SIZE items, although nothing but
\* the counter is compared with it and no item is ever freed: items are reused.
QueueBounded == Len(items) <= MaxQueue

\* Every queued item leaves the queue, published or given up, whatever is in the
\* list before it and whatever broadcasts come between.
EveryQueuedItemLeaves ==
  \A k \in 1..MaxQueue :
    (k \in Used /\ web = "idle") ~> ~(k \in Used)

\* A broadcast ends, also one that is asked for again, fails in part, or finds a
\* queue to publish on its way.
BroadcastEnds == all ~> ~all

\* Nothing that is to be published stays: the queue in the list and the broadcast
\* that calls it let each other go on.  (PublishQueuedItems, MQTT_DoItemPublish)
QueueGoesOn == EveryQueuedItemLeaves /\ BroadcastEnds
=============================================================================
