---------------------- MODULE MqttPublishQueue_proofs ----------------------
(***************************************************************************)
(* What MqttPublishQueue promises for every size of the queue and of the   *)
(* broadcast and any number of commands: types, on any threads, and, when  *)
(* commands run between two seconds, that the counter is the number of     *)
(* items to publish and that the list never outgrows its limit.            *)
(***************************************************************************)
EXTENDS MqttPublishQueue, SequenceTheorems, FiniteSetTheorems, TLAPS

USE QueueAssumption DEF QueueAssumption

(***************************************************************************)
(* Lists of items                                                          *)
(***************************************************************************)
UsedIn(q) == {k \in DOMAIN q : q[k].used}

LEMMA SetUsed ==
  ASSUME NEW q \in Seq(Item), NEW k \in 1 .. Len(q), NEW b \in BOOLEAN
  PROVE  LET r == [q EXCEPT ![k].used = b]
         IN /\ r \in Seq(Item) /\ Len(r) = Len(q)
            /\ UsedIn(r) = IF b THEN UsedIn(q) \cup {k} ELSE UsedIn(q) \ {k}
<1> DEFINE e == [q[k] EXCEPT !.used = b]
           r == [q EXCEPT ![k] = e]
<1>0. q[k] \in Item
  BY ElementOfSeq
<1>1. q[k] \in Item /\ e \in Item /\ e.used = b
  BY <1>0 DEF Item
<1>2. r \in Seq(Item) /\ Len(r) = Len(q) /\ \A j \in 1 .. Len(q) : r[j] = IF j = k THEN e ELSE q[j]
  BY <1>1, ExceptSeq
<1>3. DOMAIN r = 1 .. Len(q) /\ DOMAIN q = 1 .. Len(q)
  BY <1>2
<1>4. \A j \in 1 .. Len(q) : j \in UsedIn(r) <=> IF j = k THEN b ELSE j \in UsedIn(q)
  BY <1>1, <1>2, <1>3 DEF UsedIn
<1>5. UsedIn(r) \subseteq 1 .. Len(q) /\ UsedIn(q) \subseteq 1 .. Len(q)
  BY <1>3 DEF UsedIn
<1>6. UsedIn(r) = IF b THEN UsedIn(q) \cup {k} ELSE UsedIn(q) \ {k}
  BY <1>4, <1>5
<1> QED BY <1>2, <1>6

LEMMA SetThen ==
  ASSUME NEW q \in Seq(Item), NEW k \in 1 .. Len(q), NEW b \in BOOLEAN
  PROVE  LET r == [q EXCEPT ![k].then = b]
         IN r \in Seq(Item) /\ Len(r) = Len(q) /\ UsedIn(r) = UsedIn(q)
<1> DEFINE e == [q[k] EXCEPT !.then = b]
           r == [q EXCEPT ![k] = e]
<1>0. q[k] \in Item
  BY ElementOfSeq
<1>1. q[k] \in Item /\ e \in Item /\ e.used = q[k].used
  BY <1>0 DEF Item
<1>2. r \in Seq(Item) /\ Len(r) = Len(q) /\ \A j \in 1 .. Len(q) : r[j] = IF j = k THEN e ELSE q[j]
  BY <1>1, ExceptSeq
<1>3. DOMAIN r = 1 .. Len(q) /\ DOMAIN q = 1 .. Len(q)
  BY <1>2
<1>4. UsedIn(r) = UsedIn(q)
  BY <1>1, <1>2, <1>3 DEF UsedIn
<1> QED BY <1>2, <1>4

LEMMA AppendItem ==
  ASSUME NEW q \in Seq(Item), NEW e \in Item
  PROVE  /\ Append(q, e) \in Seq(Item) /\ Len(Append(q, e)) = Len(q) + 1
         /\ UsedIn(Append(q, e)) \ {Len(q) + 1} = UsedIn(q)
<1> DEFINE r == Append(q, e)
<1>1. /\ r \in Seq(Item) /\ Len(r) = Len(q) + 1
      /\ \A j \in 1 .. Len(q) : r[j] = q[j]
  BY AppendProperties
<1>2. DOMAIN r = 1 .. Len(q) + 1 /\ DOMAIN q = 1 .. Len(q) /\ Len(q) \in Nat
  BY <1>1
<1> HIDE DEF r
<1>3. \A j \in 1 .. Len(q) : j \in UsedIn(r) <=> j \in UsedIn(q)
  BY <1>1, <1>2 DEF UsedIn
<1>4. UsedIn(r) \subseteq 1 .. Len(q) + 1 /\ UsedIn(q) \subseteq 1 .. Len(q)
  BY <1>2 DEF UsedIn
<1>5. UsedIn(r) \ {Len(q) + 1} = UsedIn(q)
  BY <1>2, <1>3, <1>4
<1> QED BY <1>1, <1>5 DEF r

LEMMA UsedFinite ==
  ASSUME NEW q \in Seq(Item)
  PROVE  IsFiniteSet(UsedIn(q)) /\ Cardinality(UsedIn(q)) \in Nat
<1>1. UsedIn(q) \in SUBSET (1 .. Len(q)) /\ Len(q) \in Nat
  BY DEF UsedIn
<1>2. IsFiniteSet(1 .. Len(q))
  BY <1>1, FS_Interval
<1>3. IsFiniteSet(UsedIn(q))
  BY <1>1, <1>2, FS_Subset
<1> QED BY <1>3, FS_CardinalityType

\* A list without reusable items has as many items to publish as items.
LEMMA AllUsed ==
  ASSUME NEW q \in Seq(Item), DOMAIN q \ UsedIn(q) = {}
  PROVE  Cardinality(UsedIn(q)) = Len(q)
<1>1. UsedIn(q) = 1 .. Len(q) /\ Len(q) \in Nat
  BY DEF UsedIn
<1>2. Cardinality(1 .. Len(q)) = IF 1 > Len(q) THEN 0 ELSE Len(q) - 1 + 1
  BY <1>1, FS_Interval, SMTT(30)
<1> QED BY <1>1, <1>2

(***************************************************************************)
(* Types.  What bounds the index of the broadcast and the items it sends   *)
(* in a second is where the second is; what keeps the list a list is that  *)
(* the positions the threads hold stay inside it.                          *)
(***************************************************************************)
InBroadcastWalk == pc \in {"walk", "sending"} /\ broadcasting

Places ==
  /\ pc = "sending" => at \in 1 .. Len(items)
  /\ web \in {"fill", "count"} => filling \in 1 .. Len(items)
  /\ pc \in {"state", "judge"} \/ InBroadcastWalk => sent < PerSecond
  /\ pc = "judge" \/ InBroadcastWalk => index < LastIndex

TypeInv == PublishTypeOK /\ Places

\* The positions of the list that PublishQueuedItems and MQTT_QueuePublish hold
\* are positions of the list, and a broadcast at work is before its last channel
\* with items of its second left (new_mqtt.c:2379-2418), on any threads.
LEMMA Types == PublishSpec => []TypeInv
<1>1. PublishInit => TypeInv
  <2>1. <<>> \in Seq(Item) /\ Len(<<>>) = 0
    OBVIOUS
  <2>2. PublishInit => PublishTypeOK
    <3> SUFFICES ASSUME PublishInit PROVE PublishTypeOK
      OBVIOUS
    <3>1. items \in Seq(Item) /\ Len(items) = 0
      BY <2>1 DEF PublishInit
    <3>2. /\ counter = 0 /\ all = FALSE /\ index = 0 /\ pc = "idle" /\ at = 1 /\ count = 0
          /\ result = "none" /\ broadcasting = FALSE /\ sent = 0 /\ web = "idle"
          /\ filling = 0 /\ commands = 0
      BY DEF PublishInit
    <3>3. /\ count \in 0 .. AtOnce /\ sent \in 0 .. PerSecond /\ commands \in 0 .. MaxCommands
          /\ index \in 0 .. LastIndex /\ filling \in 0 .. Len(items) /\ at \in Nat \ {0}
      BY <3>1, <3>2
    <3>4. all \in BOOLEAN /\ broadcasting \in BOOLEAN
      BY <3>2
    <3>5. counter \in Int
      BY <3>2
    <3> QED BY <3>1, <3>2, <3>3, <3>4, <3>5 DEF PublishTypeOK
  <2>3. PublishInit => Places
    BY DEF PublishInit, Places, InBroadcastWalk
  <2> QED BY <2>2, <2>3 DEF TypeInv
<1>2. TypeInv /\ [PublishNext]_publishVars => TypeInv'
  <2> SUFFICES ASSUME TypeInv, [PublishNext]_publishVars PROVE TypeInv'
    OBVIOUS
  <2> USE DEF TypeInv, PublishTypeOK, Places, InBroadcastWalk
  <2>l. Len(items) \in Nat /\ LastIndex \in Nat /\ 0 \in 0 .. LastIndex /\ LightIndex \in 0 .. LastIndex
    OBVIOUS
  <2>1. CASE QueueBegins
    BY <2>1 DEF QueueBegins, NewCommand, secondVars, walkVars, queueVars, stateVars
  <2>2. CASE Take
    <3>1. CASE Reusable # {}
      <4>1. filling' \in 1 .. Len(items) /\ items' = items
        BY <2>2, <3>1 DEF Take, Reusable
      <4> QED BY <2>2, <4>1 DEF Take, secondVars, walkVars, stateVars
    <3>2. CASE Reusable = {}
      <4>1. PICK garbage \in Item : items' = Append(items, garbage)
        BY <2>2, <3>2 DEF Take
      <4>2. items' \in Seq(Item) /\ Len(items') = Len(items) + 1
        BY <4>1, AppendItem
      <4>3. filling' \in 1 .. Len(items') /\ filling' \in 0 .. Len(items')
        BY <2>2, <3>2, <4>2, <2>l DEF Take
      <4>4. \A k \in 1 .. Len(items) : k \in 1 .. Len(items')
        BY <4>2, <2>l
      <4> QED BY <2>2, <4>2, <4>3, <4>4 DEF Take, secondVars, walkVars, stateVars
    <3> QED BY <3>1, <3>2
  <2>3. CASE NoMemory
    BY <2>3 DEF NoMemory, secondVars, walkVars, queueVars, stateVars
  <2>23. CASE NoMemoryForFirst
    <3>1. items' = items /\ commands' = commands /\ web' = "idle"
      BY <2>23 DEF NoMemoryForFirst
    <3>2. CASE NullIgnored
      BY <2>23, <3>1, <3>2 DEF NoMemoryForFirst, secondVars, walkVars, stateVars
    <3>3. CASE ~NullIgnored
      <4>1. /\ counter' = 0 /\ all' = FALSE /\ index' = 0 /\ pc' = "idle" /\ at' = 1 /\ count' = 0
            /\ result' = "none" /\ broadcasting' = FALSE /\ sent' = 0 /\ filling' = 0
        BY <2>23, <3>3 DEF NoMemoryForFirst
      <4>2. /\ count' \in 0 .. AtOnce /\ sent' \in 0 .. PerSecond /\ index' \in 0 .. LastIndex
            /\ filling' \in 0 .. Len(items') /\ at' \in Nat \ {0}
        BY <3>1, <4>1, <2>l
      <4>3. all' \in BOOLEAN /\ broadcasting' \in BOOLEAN
        BY <4>1
      <4>6. counter' \in Int
        BY <4>1
      <4>4. PublishTypeOK'
        BY <3>1, <4>1, <4>2, <4>3, <4>6
      <4>5. Places'
        BY <3>1, <4>1
      <4> QED BY <4>4, <4>5
    <3> QED BY <3>2, <3>3
  <2>4. CASE Fill
    <3>1. filling \in 1 .. Len(items) /\ items' = [items EXCEPT ![filling].used = TRUE]
      BY <2>4 DEF Fill
    <3>2. items' \in Seq(Item) /\ Len(items') = Len(items)
      BY <3>1, SetUsed
    <3> QED BY <2>4, <3>1, <3>2 DEF Fill, secondVars, walkVars, stateVars
  <2>5. CASE Count
    <3>1. filling \in 1 .. Len(items) /\ items' = [items EXCEPT ![filling].then = FALSE]
      BY <2>5 DEF Count
    <3>2. items' \in Seq(Item) /\ Len(items') = Len(items)
      BY <3>1, SetThen
    <3> QED BY <2>5, <3>1, <3>2 DEF Count, secondVars, walkVars, stateVars
  <2>6. CASE InvokeCommandAtEnd
    <3>1. Len(items) \in 1 .. Len(items) /\ items' = [items EXCEPT ![Len(items)].then = TRUE]
      BY <2>6, <2>l, EmptySeq DEF InvokeCommandAtEnd
    <3>2. items' \in Seq(Item) /\ Len(items') = Len(items)
      BY <3>1, SetThen
    <3> QED BY <2>6, <3>2, SMTT(30) DEF InvokeCommandAtEnd, NewCommand, secondVars, walkVars, stateVars
  <2>7. CASE PublishWholeDeviceState
    BY <2>7, <2>l DEF PublishWholeDeviceState, WholeDeviceState, NewCommand, queueVars, secondVars, walkVars
  <2>8. CASE PublishOnlyDeviceChannels
    <3>1. all' \in BOOLEAN /\ index' \in 0 .. LastIndex /\ (index < LastIndex => index' < LastIndex)
      BY <2>8, <2>l DEF PublishOnlyDeviceChannels, ChannelsIfPossible, stateVars
    <3>2. /\ UNCHANGED <<items, counter, pc, at, count, result, broadcasting, sent, web, filling>>
          /\ commands' \in 0 .. MaxCommands
      BY <2>8 DEF PublishOnlyDeviceChannels, NewCommand, queueVars, secondVars, walkVars
    <3> QED BY <3>1, <3>2
  <2>9. CASE SecondQueue
    <3>1. PublishTypeOK'
      <4>1. /\ UNCHANGED <<items, counter, all, index, sent, web, filling, commands>>
            /\ pc' = "walk" /\ at' = 1 /\ count' = 0 /\ result' = "none" /\ broadcasting' = FALSE
        BY <2>9 DEF SecondQueue, Walk, queueVars, stateVars, commandVars
      <4>2. count' \in 0 .. AtOnce /\ at' \in Nat \ {0} /\ filling' \in 0 .. Len(items')
        BY <4>1
      <4> QED BY <4>1, <4>2
    <3>2. ~broadcasting' /\ pc' = "walk" /\ items' = items /\ web' = web /\ filling' = filling
      BY <2>9 DEF SecondQueue, Walk, queueVars, commandVars
    <3> QED BY <3>1, <3>2
  <2>10. CASE SecondState
    <3>1. PublishTypeOK'
      BY <2>10 DEF SecondState, queueVars, stateVars, walkVars, commandVars
    <3>2. pc' = "state" /\ sent' = 0 /\ items' = items /\ web' = web /\ filling' = filling
      BY <2>10 DEF SecondState, queueVars, commandVars
    <3> QED BY <3>1, <3>2
  <2>11. CASE SecondMinute
    BY <2>11, <2>l DEF SecondMinute, SecondBegins, WholeDeviceState, queueVars, secondVars, walkVars, commandVars
  <2>12. CASE WalkSkips
    BY <2>12 DEF WalkSkips, queueVars, stateVars, commandVars
  <2>13. CASE WalkSends
    BY <2>13, <2>l DEF WalkSends, WalkGoesOn, queueVars, stateVars, commandVars
  <2>14. CASE WalkSent
    <3>1. at \in 1 .. Len(items) /\ items' = [items EXCEPT ![at].used = FALSE]
      BY <2>14 DEF WalkSent
    <3>2. items' \in Seq(Item) /\ Len(items') = Len(items)
      BY <3>1, SetUsed
    <3>3. all' \in BOOLEAN /\ index' \in 0 .. LastIndex /\ (index < LastIndex => index' < LastIndex)
      BY <2>14, <2>l DEF WalkSent, ChannelsIfPossible, stateVars
    <3>4. /\ pc = "sending" /\ pc' = "walk" /\ at' = at + 1 /\ counter' = counter - 1
          /\ UNCHANGED <<count, result, broadcasting, sent, web, filling, commands>>
      BY <2>14 DEF WalkSent, CounterAfterSend, commandVars
    <3>5. PublishTypeOK'
      <4>1. at' \in Nat \ {0} /\ counter' \in Int /\ filling' \in 0 .. Len(items')
        BY <3>1, <3>2, <3>4, SMTT(30)
      <4> QED BY <3>2, <3>3, <3>4, <4>1
    <3>6. Places'
      BY <3>1, <3>2, <3>3, <3>4
    <3> QED BY <3>5, <3>6
  <2>15. CASE WalkEnds
    BY <2>15 DEF WalkEnds, queueVars, stateVars, walkVars, commandVars
  <2>16. CASE StateQueue
    <3>1. PublishTypeOK'
      BY <2>16 DEF StateQueue, Walk, queueVars, stateVars, commandVars
    <3>2. /\ pc = "state" /\ pc' = "walk" /\ index < LastIndex
          /\ items' = items /\ web' = web /\ filling' = filling /\ sent' = sent /\ index' = index
      BY <2>16 DEF StateQueue, MoreItems, Walk, queueVars, stateVars, commandVars
    <3> QED BY <3>1, <3>2
  <2>17. CASE StateItem
    BY <2>17 DEF StateItem, MoreItems, queueVars, stateVars, commandVars
  <2>18. CASE StateOver
    BY <2>18 DEF StateOver, queueVars, stateVars, walkVars, commandVars
  <2>19. CASE Judge
    BY <2>19 DEF Judge, StopsHere, queueVars, walkVars, commandVars
  <2>20. CASE Check
    BY <2>20 DEF Check, queueVars, stateVars, walkVars, commandVars
  <2>21. CASE Clear
    BY <2>21 DEF Clear, queueVars, walkVars, commandVars
  <2>22. CASE UNCHANGED publishVars
    BY <2>22 DEF publishVars, queueVars, stateVars, secondVars, walkVars, commandVars
  <2> QED BY <2>1, <2>2, <2>3, <2>4, <2>5, <2>6, <2>7, <2>8, <2>9, <2>10, <2>11, <2>12, <2>13,
             <2>14, <2>15, <2>16, <2>17, <2>18, <2>19, <2>20, <2>21, <2>22, <2>23
          DEF PublishNext, Command, Queueing, Second
<1> QED BY <1>1, <1>2, PTL DEF PublishSpec

\* Every variable of the queue keeps its type, whatever runs on which thread: in
\* particular the broadcast never goes beyond the last channel
\* (new_mqtt.c:2381-2418).
THEOREM TypeCorrect == PublishSpec => []PublishTypeOK
<1>1. TypeInv => PublishTypeOK
  BY DEF TypeInv
<1> QED BY <1>1, Types, PTL

(***************************************************************************)
(* The counter, when commands run between two seconds.  While a command    *)
(* fills its item the counter lags behind the list, first by an item that  *)
(* may or may not look used, for its memory may hold anything.             *)
(***************************************************************************)
CountInv ==
  /\ web # "idle" => pc = "idle"
  /\ web \in {"idle", "take"} => counter = Cardinality(Used)
  /\ web = "take" => counter < MaxQueue
  /\ web = "fill" => counter = Cardinality(Used \ {filling})
  /\ web = "count" => filling \in Used /\ counter + 1 = Cardinality(Used)
  /\ pc = "sending" => items[at].used
  /\ Len(items) <= MaxQueue

LEMMA UsedItems == Used = UsedIn(items) /\ Used' = UsedIn(items')
BY DEF Used, UsedIn

\* The steps of a second that touch neither the list nor its counter.
Quiet ==
  /\ web = "idle" /\ web' = "idle" /\ items' = items /\ counter' = counter
  /\ pc' # "sending"

LEMMA QuietKeeps == CountInv /\ Quiet => CountInv'
BY DEF CountInv, Quiet, Used

LEMMA CountSteps ==
  ASSUME ~Preempt, ~NullIgnored, TypeInv, CountInv, [PublishNext]_publishVars
  PROVE  CountInv'
<1> USE DEF Places
<1>0. /\ items \in Seq(Item) /\ Len(items) \in Nat /\ counter \in Int /\ MaxQueue \in Nat
      /\ IsFiniteSet(UsedIn(items)) /\ Cardinality(UsedIn(items)) \in Nat
      /\ DOMAIN items = 1 .. Len(items) /\ Places
  BY UsedFinite DEF TypeInv, PublishTypeOK
<1>1. CASE QueueBegins
  <2>1. /\ web = "idle" /\ web' = "take" /\ pc = "idle" /\ counter < MaxQueue
        /\ UNCHANGED <<items, counter, pc, at, filling>>
    BY <1>1 DEF QueueBegins, NewCommand, Room, queueVars, secondVars, walkVars
  <2> QED BY <2>1 DEF CountInv, Used
<1>2. CASE Take
  <2>1. /\ web = "take" /\ web' = "fill" /\ counter' = counter /\ pc' = pc /\ at' = at
        /\ pc = "idle" /\ counter = Cardinality(Used) /\ counter < MaxQueue
    BY <1>2 DEF Take, secondVars, walkVars, CountInv
  <2>2. CASE Reusable # {}
    <3>1. filling' \in Reusable /\ items' = items
      BY <1>2, <2>2 DEF Take
    <3>2. filling' \notin Used /\ Used' = Used
      BY <3>1 DEF Reusable, Used
    <3>3. Used' \ {filling'} = Used
      BY <3>2
    <3> QED BY <2>1, <3>1, <3>3 DEF CountInv
  <2>3. CASE Reusable = {}
    <3>1. PICK garbage \in Item : items' = Append(items, garbage)
      BY <1>2, <2>3 DEF Take
    <3>2. filling' = Len(items) + 1
      BY <1>2, <2>3 DEF Take
    <3>3. Len(items') = Len(items) + 1 /\ UsedIn(items') \ {Len(items) + 1} = UsedIn(items)
      BY <1>0, <3>1, AppendItem
    <3>4. Used' \ {filling'} = Used
      BY <3>2, <3>3, UsedItems
    <3>5. Cardinality(Used) = Len(items)
      BY <1>0, <2>3, AllUsed, UsedItems DEF Reusable
    <3>6. Len(items') <= MaxQueue
      BY <1>0, <2>1, <3>3, <3>5
    <3> QED BY <2>1, <3>4, <3>6 DEF CountInv
  <2> QED BY <2>2, <2>3
<1>3. CASE NoMemory
  <2>1. web = "take" /\ web' = "idle" /\ UNCHANGED <<items, counter, pc, at>>
    BY <1>3 DEF NoMemory, queueVars, secondVars, walkVars
  <2> QED BY <2>1 DEF CountInv, Used
<1>14. CASE NoMemoryForFirst
  <2>1. web' = "idle" /\ pc' = "idle" /\ items' = <<>> /\ counter' = 0
    BY <1>14 DEF NoMemoryForFirst
  <2>2. Used' = {} /\ Len(items') = 0
    BY <2>1 DEF Used
  <2> QED BY <1>0, <2>1, <2>2, FS_EmptySet DEF CountInv
<1>4. CASE Fill
  <2>1. /\ web = "fill" /\ web' = "count" /\ filling \in 1 .. Len(items) /\ pc = "idle"
        /\ items' = [items EXCEPT ![filling].used = TRUE]
        /\ UNCHANGED <<counter, pc, at, filling>>
    BY <1>0, <1>4 DEF Fill, secondVars, walkVars, CountInv
  <2>2. Len(items') = Len(items) /\ UsedIn(items') = UsedIn(items) \cup {filling}
    BY <1>0, <2>1, SetUsed
  <2>3. UsedIn(items') = (UsedIn(items) \ {filling}) \cup {filling} /\ filling \in UsedIn(items')
    BY <2>2
  <2>4. IsFiniteSet(UsedIn(items) \ {filling}) /\ filling \notin UsedIn(items) \ {filling}
    BY <1>0, FS_RemoveElement
  <2>5. Cardinality(UsedIn(items')) = Cardinality(UsedIn(items) \ {filling}) + 1
    BY <2>3, <2>4, FS_AddElement
  <2>6. counter = Cardinality(UsedIn(items) \ {filling})
    BY <2>1, UsedItems DEF CountInv
  <2> QED BY <2>1, <2>2, <2>3, <2>5, <2>6, UsedItems DEF CountInv
<1>5. CASE Count
  <2>1. /\ web = "count" /\ web' = "idle" /\ filling \in 1 .. Len(items) /\ pc = "idle" /\ pc' = pc
        /\ items' = [items EXCEPT ![filling].then = FALSE] /\ counter' = counter + 1
    BY <1>0, <1>5 DEF Count, secondVars, walkVars, CountInv
  <2>2. Len(items') = Len(items) /\ UsedIn(items') = UsedIn(items)
    BY <1>0, <2>1, SetThen
  <2>3. counter + 1 = Cardinality(UsedIn(items))
    BY <2>1, UsedItems DEF CountInv
  <2> QED BY <2>1, <2>2, <2>3, UsedItems DEF CountInv
<1>6. CASE InvokeCommandAtEnd
  <2>1. /\ web = "idle" /\ web' = "idle" /\ pc = "idle" /\ counter' = counter /\ pc' = pc
        /\ items' = [items EXCEPT ![Len(items)].then = TRUE]
    BY <1>6 DEF InvokeCommandAtEnd, NewCommand, secondVars, walkVars
  <2>2. Len(items) \in 1 .. Len(items)
    BY <1>0, <1>6, EmptySeq DEF InvokeCommandAtEnd
  <2>3. Len(items') = Len(items) /\ UsedIn(items') = UsedIn(items)
    BY <1>0, <2>1, <2>2, SetThen
  <2> QED BY <2>1, <2>3, UsedItems DEF CountInv
<1>7. CASE WalkSends
  <2>1. /\ pc = "walk" /\ items[at].used
        /\ UNCHANGED <<items, counter, at, web, filling>>
    BY <1>7 DEF WalkSends, queueVars, commandVars
  <2>2. web = "idle"
    BY <2>1 DEF CountInv
  <2> QED BY <2>1, <2>2 DEF CountInv, Used
<1>8. CASE WalkSent
  <2>1. /\ pc = "sending" /\ pc' = "walk" /\ at \in 1 .. Len(items)
        /\ items' = [items EXCEPT ![at].used = FALSE]
        /\ counter' = counter - 1 /\ web' = web
    BY <1>0, <1>8 DEF WalkSent, CounterAfterSend, commandVars
  <2>2. web = "idle" /\ items[at].used
    BY <2>1 DEF CountInv
  <2>3. at \in UsedIn(items)
    BY <1>0, <2>1, <2>2 DEF UsedIn
  <2>4. Len(items') = Len(items) /\ UsedIn(items') = UsedIn(items) \ {at}
    BY <1>0, <2>1, SetUsed
  <2>5. Cardinality(UsedIn(items) \ {at}) = Cardinality(UsedIn(items)) - 1
    BY <1>0, <2>3, FS_RemoveElement
  <2>6. counter = Cardinality(UsedIn(items))
    BY <2>2, UsedItems DEF CountInv
  <2> QED BY <2>1, <2>2, <2>4, <2>5, <2>6, UsedItems DEF CountInv
<1>9. CASE PublishWholeDeviceState \/ PublishOnlyDeviceChannels
  <2>1. web = "idle" /\ pc = "idle" /\ UNCHANGED <<items, counter, web, pc>>
    BY <1>9 DEF PublishWholeDeviceState, PublishOnlyDeviceChannels, NewCommand, queueVars,
                secondVars, walkVars
  <2> QED BY <2>1, QuietKeeps DEF Quiet
<1>10. CASE SecondQueue \/ SecondState \/ SecondMinute
  <2>1. web = "idle" /\ UNCHANGED <<items, counter, web>> /\ pc' # "sending"
    BY <1>10 DEF SecondQueue, SecondState, SecondMinute, SecondBegins, Walk, queueVars,
                 secondVars, commandVars
  <2> QED BY <2>1, QuietKeeps DEF Quiet
<1>11. CASE WalkSkips \/ WalkEnds \/ StateQueue \/ StateItem \/ StateOver
  <2>1. pc \in {"walk", "state"} /\ UNCHANGED <<items, counter, web>> /\ pc' # "sending"
    BY <1>11 DEF WalkSkips, WalkEnds, StateQueue, StateItem, StateOver, Walk, queueVars, commandVars
  <2>2. web = "idle"
    BY <2>1 DEF CountInv
  <2> QED BY <2>1, <2>2, QuietKeeps DEF Quiet
<1>12. CASE Judge \/ Check \/ Clear
  <2>1. pc \in {"judge", "check", "clear"} /\ UNCHANGED <<items, counter, web>> /\ pc' # "sending"
    BY <1>12 DEF Judge, Check, Clear, queueVars, commandVars
  <2>2. web = "idle"
    BY <2>1 DEF CountInv
  <2> QED BY <2>1, <2>2, QuietKeeps DEF Quiet
<1>13. CASE UNCHANGED publishVars
  <2>1. UNCHANGED <<items, counter, pc, at, web, filling>>
    BY <1>13 DEF publishVars, queueVars, secondVars, walkVars, commandVars
  <2> QED BY <2>1 DEF CountInv, Used
<1> QED BY <1>1, <1>2, <1>3, <1>4, <1>5, <1>6, <1>7, <1>8, <1>9, <1>10, <1>11, <1>12, <1>13, <1>14
        DEF PublishNext, Command, Queueing, Second

LEMMA CountAlways == ~Preempt /\ ~NullIgnored => (PublishSpec => []CountInv)
<1> SUFFICES ASSUME ~Preempt, ~NullIgnored PROVE PublishSpec => []CountInv
  OBVIOUS
<1>1. PublishInit => CountInv
  <2> SUFFICES ASSUME PublishInit PROVE CountInv
    OBVIOUS
  <2>1. /\ items = <<>> /\ counter = 0 /\ web = "idle" /\ pc = "idle"
    BY DEF PublishInit
  <2>2. Used = {} /\ Len(items) = 0
    BY <2>1 DEF Used
  <2> QED BY <2>1, <2>2, FS_EmptySet DEF CountInv
<1>2. TypeInv /\ CountInv /\ [PublishNext]_publishVars => CountInv'
  BY CountSteps
<1> QED BY <1>1, <1>2, Types, PTL DEF PublishSpec

\* With commands between two seconds, g_MqttPublishItemsQueued is the number of
\* items to publish, although MQTT_QueuePublish counts an item after it has filled
\* it and PublishQueuedItems counts one off whatever its result
\* (new_mqtt.c:2463-2573): no queue size, memory content or failure makes them
\* differ, as long as a store through a null pointer does not go unnoticed.
THEOREM CounterAgrees == ~Preempt /\ ~NullIgnored => (PublishSpec => []CounterMatches)
<1> SUFFICES ASSUME ~Preempt, ~NullIgnored PROVE PublishSpec => []CounterMatches
  OBVIOUS
<1>1. CountInv => CounterMatches
  BY DEF CountInv, CounterMatches
<1> QED BY <1>1, CountAlways, PTL

\* With commands between two seconds the list never outgrows MQTT_MAX_QUEUE_SIZE:
\* find_queue_reusable_item finds a place as long as the counter has room
\* (new_mqtt.c:2447-2498).
THEOREM ListBounded == ~Preempt /\ ~NullIgnored => (PublishSpec => []QueueBounded)
<1> SUFFICES ASSUME ~Preempt, ~NullIgnored PROVE PublishSpec => []QueueBounded
  OBVIOUS
<1>1. CountInv => QueueBounded
  BY DEF CountInv, QueueBounded
<1> QED BY <1>1, CountAlways, PTL
=============================================================================
