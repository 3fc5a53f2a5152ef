---------------------------- MODULE MqttDeduper ----------------------------
(***************************************************************************)
(* src/src/mqtt/new_mqtt_deduper.c: the LED and animation topics are       *)
(* published through slots that cull duplicates and delay fast changes.    *)
(*                                                                         *)
(* Two kinds of threads enter it: the main thread, which calls             *)
(* MQTT_Dedup_Tick once a second and runs scripts and buttons between the  *)
(* ticks, and the threads in Http, which execute web commands at any time. *)
(* DD_Mutex_Take is commented out in the code, so a step of a thread ends  *)
(* where it calls MQTT_PublishMain_StringString, which waits for the       *)
(* client's mutex and the network.                                         *)
(*                                                                         *)
(* In every module of the project a definition that stands right before    *)
(* the one it resembles (IsTooFastStrict before IsTooFast) is a mutant:    *)
(* the form a plausible bug would give it, to show that the properties     *)
(* notice.                                                                 *)
(***************************************************************************)
EXTENDS Integers

CONSTANTS Slots,        \* the number of slots, DEDUP_MAX
          Value,        \* the values published
          None,         \* no value: a zeroed slot, or nothing sent yet
          Main, Http,   \* the main thread, the set of the other threads
          MinInterval,  \* MIN_INTERVAL_BETWEEN_SENDS
          Expire,       \* DEDUP_EXPIRE_TIME
          Lossy,        \* whether a publish may fail
          MallocFails   \* whether the allocation of a slot may fail

ASSUME DeduperAssumption ==
  /\ Slots \in Nat
  /\ None \notin Value
  /\ Main \notin Http
  /\ MinInterval \in Nat /\ Expire \in Nat
  /\ Lossy \in BOOLEAN /\ MallocFails \in BOOLEAN

VARIABLES
  slot,       \* mqtt_dedups: the slots, each allocated on first use
  tick,       \* where MQTT_Dedup_Tick is: the slot of its loop, and whether it is inside the publish call
  call,       \* per thread, the publish call it is inside
  broker,     \* per slot, the last value a publish call delivered
  accepted,   \* per slot, the last value for which a caller was told OBK_PUBLISH_OK
  age,        \* per slot, ticks since the last delivery for an allocated slot
  gap         \* per slot, what age was at that delivery

dedupVars == <<slot, tick, call, broker, accepted, age, gap>>

Slot    == 0 .. Slots - 1
Threads == {Main} \cup Http
\* timeSinceLastSend is compared with MinInterval and Expire only: it, and the
\* 999 of a fresh slot, are capped at the first number above both.
TimeCap == MinInterval + Expire + 1
Later(t) == IF t < TimeCap THEN t + 1 ELSE t

Zeroed(alloc) == [alloc |-> alloc, value |-> None, dirty |-> FALSE, time |-> TimeCap]
NoSlot   == Zeroed(FALSE)
TickIdle == [at |-> Slots, sending |-> FALSE]
NoCall   == [busy |-> FALSE, slot |-> 0, value |-> None, direct |-> FALSE]

DedupInit ==
  /\ slot = [s \in Slot |-> NoSlot]
  /\ tick = TickIdle
  /\ call = [t \in Threads |-> NoCall]
  /\ broker = [s \in Slot |-> None]
  /\ accepted = [s \in Slot |-> None]
  /\ age = [s \in Slot |-> TimeCap]
  /\ gap = [s \in Slot |-> TimeCap]

\* MQTT_PublishMain_StringString: delivered, or one of the three failures.
PublishResult == IF Lossy THEN {TRUE, FALSE} ELSE {TRUE}

Deliver(s, v, ok) ==
  /\ broker' = IF ok THEN [broker EXCEPT ![s] = v] ELSE broker
  /\ age' = IF ok /\ slot[s].alloc THEN [age EXCEPT ![s] = 0] ELSE age
  /\ gap' = IF ok /\ slot[s].alloc THEN [gap EXCEPT ![s] = age[s]] ELSE gap

(***************************************************************************)
(* MQTT_Dedup_Tick, one slot of its loop at a time.                        *)
(***************************************************************************)
TickBegin ==
  /\ tick = TickIdle /\ ~call[Main].busy
  /\ tick' = [at |-> 0, sending |-> FALSE]
  /\ age' = [s \in Slot |-> Later(age[s])]
  /\ UNCHANGED <<slot, call, broker, accepted, gap>>

MustResendExact(sl) == sl.alloc /\ sl.dirty /\ Later(sl.time) = MinInterval
MustResend(sl) == sl.alloc /\ sl.dirty /\ Later(sl.time) > MinInterval

Aged(sl) == IF sl.alloc THEN [sl EXCEPT !.time = Later(@)] ELSE sl

TickSkip ==
  /\ tick.at < Slots /\ ~tick.sending
  /\ ~MustResend(slot[tick.at])
  /\ slot' = [slot EXCEPT ![tick.at] = Aged(@)]
  /\ tick' = [tick EXCEPT !.at = @ + 1]
  /\ UNCHANGED <<call, broker, accepted, age, gap>>

TickSend ==
  /\ tick.at < Slots /\ ~tick.sending
  /\ MustResend(slot[tick.at])
  /\ slot' = [slot EXCEPT ![tick.at] = Aged(@)]
  /\ \E ok \in PublishResult : Deliver(tick.at, slot[tick.at].value, ok)
  /\ tick' = [tick EXCEPT !.sending = TRUE]
  /\ UNCHANGED <<call, accepted>>

\* Back from the publish call, whose result the loop ignores.
Cleared(sl) == [sl EXCEPT !.dirty = FALSE, !.time = 0]

TickSent ==
  /\ tick.sending
  /\ slot' = [slot EXCEPT ![tick.at] = Cleared(@)]
  /\ tick' = [at |-> tick.at + 1, sending |-> FALSE]
  /\ UNCHANGED <<call, broker, accepted, age, gap>>

(***************************************************************************)
(* MQTT_PublishMain_StringString_DeDuped                                   *)
(***************************************************************************)
Fresh == Zeroed(TRUE)
AllocatedSlot(s) == IF slot[s].alloc THEN slot[s] ELSE Fresh

IsDuplicate(sl, v) == sl.value = v /\ Expire > sl.time
IsTooFastStrict(sl) == MinInterval > sl.time
IsTooFast(sl) == MinInterval >= sl.time

CanCall(t) == ~call[t].busy /\ (t = Main => tick = TickIdle)

\* The value was sent, or saved for later, less than Expire ticks ago.
CullDuplicate(t, s, v) ==
  /\ CanCall(t)
  /\ IsDuplicate(AllocatedSlot(s), v)
  /\ slot' = [slot EXCEPT ![s] = AllocatedSlot(s)]
  /\ accepted' = [accepted EXCEPT ![s] = v]
  /\ UNCHANGED <<tick, call, broker, age, gap>>

\* The topic was sent less than MinInterval ticks ago: save the value for later.
Defer(t, s, v) ==
  /\ CanCall(t)
  /\ ~IsDuplicate(AllocatedSlot(s), v) /\ IsTooFast(AllocatedSlot(s))
  /\ slot' = [slot EXCEPT ![s] = [AllocatedSlot(s) EXCEPT !.value = v, !.dirty = TRUE]]
  /\ accepted' = [accepted EXCEPT ![s] = v]
  /\ UNCHANGED <<tick, call, broker, age, gap>>

EnterPublish(t, s, v, direct) ==
  /\ call' = [call EXCEPT ![t] = [busy |-> TRUE, slot |-> s, value |-> v, direct |-> direct]]
  /\ UNCHANGED <<tick, broker, accepted, age, gap>>

Send(t, s, v) ==
  /\ CanCall(t)
  /\ ~IsDuplicate(AllocatedSlot(s), v) /\ ~IsTooFast(AllocatedSlot(s))
  /\ slot' = [slot EXCEPT ![s] = AllocatedSlot(s)]
  /\ EnterPublish(t, s, v, FALSE)

\* malloc failed: published without a slot.
SendWithoutSlot(t, s, v) ==
  /\ CanCall(t)
  /\ MallocFails /\ ~slot[s].alloc
  /\ EnterPublish(t, s, v, TRUE)
  /\ UNCHANGED slot

RecordedNoValue(sl, v) == [sl EXCEPT !.dirty = FALSE, !.time = 0]
Recorded(sl, v) == [sl EXCEPT !.dirty = FALSE, !.time = 0, !.value = v]

\* The publish call returns; a failure leaves the slot as it was.
Return(t) ==
  /\ call[t].busy
  /\ LET s == call[t].slot
         v == call[t].value
     IN \E ok \in PublishResult :
          /\ Deliver(s, v, ok)
          /\ accepted' = IF ok THEN [accepted EXCEPT ![s] = v] ELSE accepted
          /\ slot' = IF ok /\ ~call[t].direct
                       THEN [slot EXCEPT ![s] = Recorded(@, v)] ELSE slot
  /\ call' = [call EXCEPT ![t] = NoCall]
  /\ UNCHANGED tick

Tick == TickBegin \/ TickSkip \/ TickSend \/ TickSent

DeDuped(t, s, v) ==
  \/ CullDuplicate(t, s, v)
  \/ Defer(t, s, v)
  \/ Send(t, s, v)
  \/ SendWithoutSlot(t, s, v)

DedupNext ==
  \/ Tick
  \/ \E t \in Threads : Return(t)
  \/ \E t \in Threads, s \in Slot, v \in Value : DeDuped(t, s, v)

DedupSpec == DedupInit /\ [][DedupNext]_dedupVars

\* Main_OnEverySecond runs every second, however often commands run between the
\* seconds, and a publish call returns.
DedupFairness == SF_dedupVars(TickBegin) /\ WF_dedupVars(Tick) /\ \A t \in Threads : WF_dedupVars(Return(t))
DedupFairSpec == DedupSpec /\ DedupFairness
-----------------------------------------------------------------------------
(***************************************************************************)
(* Properties                                                              *)
(***************************************************************************)
SlotType == [alloc : BOOLEAN, value : Value \cup {None}, dirty : BOOLEAN, time : 0 .. TimeCap]

\* The slots, the loop of the tick and the calls in progress stay in their
\* types; the loop publishes only for a slot it points to.
DedupTypeOK ==
  /\ slot \in [Slot -> SlotType]
  /\ tick \in [at : 0 .. Slots, sending : BOOLEAN]
  /\ tick.sending => tick.at < Slots
  /\ call \in [Threads -> [busy : BOOLEAN, slot : Nat, value : Value \cup {None}, direct : BOOLEAN]]
  /\ \A t \in Threads : call[t].busy => call[t].slot \in Slot /\ call[t].value \in Value
  /\ broker \in [Slot -> Value \cup {None}]
  /\ accepted \in [Slot -> Value \cup {None}]
  /\ age \in [Slot -> 0 .. TimeCap]
  /\ gap \in [Slot -> 0 .. TimeCap]

\* The value a caller was last told is published has been delivered, or it is
\* still in the slot, marked to be sent by a later tick: the deduper never
\* answers OBK_PUBLISH_OK and then forgets the value or keeps an older one.
AcceptedIsDeliveredOrKept ==
  \A s \in Slot :
     \/ accepted[s] = broker[s]
     \/ slot[s].alloc /\ slot[s].dirty /\ slot[s].value = accepted[s]

\* A value waits in a slot only while the slot cools down: between two ticks no
\* slot is both marked and past its interval, so no value waits for a second
\* cooldown and a direct publish never overtakes a waiting one.
WaitsOnlyInCooldown ==
  \A s \in Slot :
     slot[s].dirty /\ ~tick.sending => slot[s].alloc /\ slot[s].time <= MinInterval

\* Once its slot exists, a topic is never delivered twice within MinInterval
\* ticks, whatever publish calls fail.
NoFasterThanInterval == \A s \in Slot : gap[s] > MinInterval

\* A value the deduper answered for is delivered, or overtaken by a newer one
\* that is: the broker catches up with what the callers were told.
EventuallyCatchesUp ==
  \A s \in Slot : accepted[s] # broker[s] ~> accepted[s] = broker[s]

\* A value the deduper keeps back waits for one cooldown and no second one, and is
\* delivered then.  (MQTT_Dedup_Tick)
CatchesUpInTime == [][WaitsOnlyInCooldown']_dedupVars /\ EventuallyCatchesUp
=============================================================================
