------------------------ MODULE MqttDeduper_proofs ------------------------
(***************************************************************************)
(* What MqttDeduper promises for every number of slots, every set of       *)
(* values and every pair of intervals: types always, that a value waits    *)
(* for one cooldown at most, and, when only the main thread enters the     *)
(* deduper, the spacing of deliveries and, if no publish fails, that no    *)
(* accepted value is forgotten.                                            *)
(***************************************************************************)
EXTENDS MqttDeduper, TLAPS

\* One delivery of slot s resets its cooldown: outside a tick the slot counts
\* at most the true age, and a slot the running tick has not reached lags by one.
Pending(s) == tick.at <= s
InPublish(s) == tick.at = s /\ tick.sending

CooldownTracksAge ==
  \A s \in Slot :
     /\ ~slot[s].alloc => age[s] = TimeCap /\ ~slot[s].dirty
     /\ slot[s].alloc /\ Pending(s) /\ ~InPublish(s) => Later(slot[s].time) <= age[s]
     /\ slot[s].alloc /\ ~Pending(s) => slot[s].time <= age[s]

\* The main thread is in one place at a time, and what its call found of the
\* slot still holds when the call returns.
MainCall ==
  call[Main].busy =>
     /\ tick = TickIdle
     /\ call[Main].direct => ~slot[call[Main].slot].alloc
     /\ ~call[Main].direct => slot[call[Main].slot].alloc /\ slot[call[Main].slot].time > MinInterval

SpacingInv == DedupTypeOK /\ CooldownTracksAge /\ MainCall /\ NoFasterThanInterval

\* An unmarked slot holds what the broker has; a marked one what was accepted.
SlotShadowsBroker ==
  \A s \in Slot :
     /\ slot[s].alloc /\ ~slot[s].dirty /\ slot[s].value # None => slot[s].value = broker[s]
     /\ slot[s].dirty => slot[s].alloc /\ slot[s].value = accepted[s]
     /\ InPublish(s) => slot[s].value = broker[s] /\ accepted[s] = broker[s]

KeptInv == DedupTypeOK /\ SlotShadowsBroker /\ AcceptedIsDeliveredOrKept /\ MainCall
-----------------------------------------------------------------------------
USE DeduperAssumption DEF DeduperAssumption

\* Counting a tick never leaves the range of a slot's timer.
LEMMA LaterType == \A t \in 0 .. TimeCap : Later(t) \in 0 .. TimeCap
BY DEF Later, TimeCap

LEMMA CapType == TimeCap \in Nat /\ TimeCap > MinInterval
BY DEF TimeCap

LEMMA SlotTypes == \A b \in BOOLEAN : Zeroed(b) \in SlotType
<1>1. TimeCap \in 0 .. TimeCap
  BY CapType
<1> QED BY <1>1 DEF Zeroed, SlotType

LEMMA AllocatedType ==
  ASSUME DedupTypeOK, NEW s \in Slot
  PROVE  AllocatedSlot(s) \in SlotType /\ AllocatedSlot(s).alloc
BY SlotTypes DEF DedupTypeOK, AllocatedSlot, SlotType, Fresh, Zeroed

LEMMA ClearedType == \A sl \in SlotType : Cleared(sl) \in SlotType
<1>1. 0 \in 0 .. TimeCap
  BY CapType
<1> QED BY <1>1 DEF Cleared, SlotType

LEMMA RecordedType == \A sl \in SlotType, v \in Value : Recorded(sl, v) \in SlotType
<1>1. 0 \in 0 .. TimeCap
  BY CapType
<1> QED BY <1>1 DEF Recorded, SlotType

LEMMA AgedType == \A sl \in SlotType : Aged(sl) \in SlotType
BY LaterType DEF Aged, SlotType

\* The slots, the tick's loop and the calls stay in their types (every thread,
\* every failure): new_mqtt_deduper.c never leaves a slot half-initialised.
THEOREM TypeCorrect == DedupSpec => []DedupTypeOK
<1>1. DedupInit => DedupTypeOK
  <2>1. TimeCap \in 0 .. TimeCap /\ Slots \in 0 .. Slots /\ 0 \in Nat
    BY CapType
  <2>2. NoSlot \in SlotType
    BY SlotTypes DEF NoSlot
  <2>3. NoCall \in [busy : BOOLEAN, slot : Nat, value : Value \cup {None}, direct : BOOLEAN]
    BY <2>1 DEF NoCall
  <2>4. \A t \in Threads : ~NoCall.busy
    BY DEF NoCall
  <2>5. TickIdle \in [at : 0 .. Slots, sending : BOOLEAN] /\ ~TickIdle.sending
    BY <2>1 DEF TickIdle
  <2> QED BY <2>1, <2>2, <2>3, <2>4, <2>5 DEF DedupInit, DedupTypeOK
<1>2. DedupTypeOK /\ [DedupNext]_dedupVars => DedupTypeOK'
  <2> SUFFICES ASSUME DedupTypeOK, [DedupNext]_dedupVars PROVE DedupTypeOK'
    OBVIOUS
  <2> USE DEF DedupTypeOK
  <2>1. CASE TickBegin
    <3>1. age' \in [Slot -> 0 .. TimeCap]
      BY <2>1, LaterType DEF TickBegin
    <3> QED BY <2>1, <3>1 DEF TickBegin
  <2>2. CASE TickSkip
    <3>1. tick.at \in Slot
      BY <2>2 DEF TickSkip, Slot
    <3>2. slot' \in [Slot -> SlotType]
      BY <2>2, <3>1, AgedType DEF TickSkip
    <3>3. tick' = [at |-> tick.at + 1, sending |-> FALSE]
      BY <2>2 DEF TickSkip
    <3> QED BY <2>2, <3>1, <3>2, <3>3, SMTT(30) DEF TickSkip, Slot
  <2>3. CASE TickSend
    <3>1. tick.at \in Slot
      BY <2>3 DEF TickSend, Slot
    <3>2. slot' \in [Slot -> SlotType]
      BY <2>3, <3>1, AgedType DEF TickSend
    <3>3. slot[tick.at].value \in Value \cup {None}
      BY <3>1 DEF SlotType
    <3>4. PICK ok \in PublishResult : Deliver(tick.at, slot[tick.at].value, ok)
      BY <2>3 DEF TickSend
    <3>5. /\ broker' \in [Slot -> Value \cup {None}]
          /\ age' \in [Slot -> 0 .. TimeCap]
          /\ gap' \in [Slot -> 0 .. TimeCap]
      BY <3>1, <3>3, <3>4 DEF Deliver, TimeCap
    <3> QED BY <2>3, <3>1, <3>2, <3>5 DEF TickSend
  <2>4. CASE TickSent
    <3>1. tick.at \in Slot
      BY <2>4 DEF TickSent, Slot
    <3>2. slot' \in [Slot -> SlotType]
      BY <2>4, <3>1, ClearedType DEF TickSent
    <3> QED BY <2>4, <3>1, <3>2, SMTT(30) DEF TickSent, Slot
  <2>5. ASSUME NEW t \in Threads, Return(t) PROVE DedupTypeOK'
    <3>1. /\ call[t].slot \in Slot
          /\ call[t].value \in Value
      BY <2>5 DEF Return
    <3>2. PICK ok \in PublishResult :
             /\ Deliver(call[t].slot, call[t].value, ok)
             /\ accepted' = IF ok THEN [accepted EXCEPT ![call[t].slot] = call[t].value] ELSE accepted
             /\ slot' = IF ok /\ ~call[t].direct
                          THEN [slot EXCEPT ![call[t].slot] = Recorded(@, call[t].value)] ELSE slot
      BY <2>5 DEF Return
    <3>3. /\ broker' \in [Slot -> Value \cup {None}]
          /\ age' \in [Slot -> 0 .. TimeCap]
          /\ gap' \in [Slot -> 0 .. TimeCap]
      BY <3>1, <3>2 DEF Deliver, TimeCap
    <3>4. accepted' \in [Slot -> Value \cup {None}]
      BY <3>1, <3>2
    <3>5. slot' \in [Slot -> SlotType]
      BY <3>1, <3>2, RecordedType
    <3>6. call' = [call EXCEPT ![t] = NoCall] /\ tick' = tick
      BY <2>5 DEF Return
    <3>7. /\ call' \in [Threads -> [busy : BOOLEAN, slot : Nat, value : Value \cup {None}, direct : BOOLEAN]]
          /\ \A u \in Threads : call'[u].busy => call'[u].slot \in Slot /\ call'[u].value \in Value
      BY <3>6 DEF NoCall
    <3> QED BY <3>3, <3>4, <3>5, <3>6, <3>7
  <2>6. ASSUME NEW t \in Threads, NEW s \in Slot, NEW v \in Value, DeDuped(t, s, v)
        PROVE  DedupTypeOK'
    <3>1. AllocatedSlot(s) \in SlotType
      BY AllocatedType
    <3>2. slot' \in [Slot -> SlotType]
      <4>1. [AllocatedSlot(s) EXCEPT !.value = v, !.dirty = TRUE] \in SlotType
        BY <3>1 DEF SlotType
      <4> QED BY <2>6, <3>1, <4>1 DEF DeDuped, CullDuplicate, Defer, Send, SendWithoutSlot
    <3>3. accepted' \in [Slot -> Value \cup {None}]
      BY <2>6 DEF DeDuped, CullDuplicate, Defer, Send, SendWithoutSlot, EnterPublish
    <3>4. /\ call' \in [Threads -> [busy : BOOLEAN, slot : Nat, value : Value \cup {None}, direct : BOOLEAN]]
          /\ \A u \in Threads : call'[u].busy => call'[u].slot \in Slot /\ call'[u].value \in Value
      <4>1. CASE UNCHANGED call
        BY <4>1
      <4>2. CASE \E d \in BOOLEAN : EnterPublish(t, s, v, d)
        <5>1. PICK d \in BOOLEAN :
                call' = [call EXCEPT ![t] = [busy |-> TRUE, slot |-> s, value |-> v, direct |-> d]]
          BY <4>2 DEF EnterPublish
        <5>2. s \in Nat
          BY DEF Slot
        <5> QED BY <5>1, <5>2
      <4> QED BY <2>6, <4>1, <4>2 DEF DeDuped, CullDuplicate, Defer, Send, SendWithoutSlot
    <3>5. UNCHANGED <<tick, broker, age, gap>>
      BY <2>6 DEF DeDuped, CullDuplicate, Defer, Send, SendWithoutSlot, EnterPublish
    <3> QED BY <3>2, <3>3, <3>4, <3>5
  <2>7. CASE UNCHANGED dedupVars
    BY <2>7 DEF dedupVars
  <2> QED BY <2>1, <2>2, <2>3, <2>4, <2>5, <2>6, <2>7 DEF DedupNext, Tick
<1> QED BY <1>1, <1>2, PTL DEF DedupSpec

-----------------------------------------------------------------------------
\* Counting a tick keeps the order of two timers.
LEMMA LaterMonotone ==
  /\ \A t \in 0 .. TimeCap : t <= Later(t)
  /\ \A t, u \in 0 .. TimeCap : t <= u => Later(t) <= Later(u)
  /\ Later(TimeCap) = TimeCap
BY CapType DEF Later

\* The strengthening of NoFasterThanInterval is an invariant when one thread
\* enters the deduper.
LEMMA SpacingInvariant ==
  ASSUME Http = {}
  PROVE  DedupSpec => []SpacingInv
<1>1. DedupInit => CooldownTracksAge /\ MainCall /\ NoFasterThanInterval
  BY CapType DEF DedupInit, CooldownTracksAge, MainCall, NoFasterThanInterval, NoSlot, Zeroed, TickIdle, NoCall, Threads
<1>2. DedupTypeOK /\ DedupTypeOK' /\ SpacingInv /\ [DedupNext]_dedupVars => SpacingInv'
  <2> SUFFICES ASSUME DedupTypeOK, DedupTypeOK', SpacingInv, [DedupNext]_dedupVars
               PROVE  CooldownTracksAge' /\ MainCall' /\ NoFasterThanInterval'
    BY DEF SpacingInv
  <2> USE DEF SpacingInv
  <2>a. Main \in Threads /\ \A s \in Slot : s \in Int
    BY DEF Threads, Slot
  <2>b. \A s \in Slot : /\ slot[s] \in SlotType
                        /\ slot[s].time \in 0 .. TimeCap /\ age[s] \in 0 .. TimeCap
    BY DEF DedupTypeOK, SlotType
  <2>c. \A s \in Slot : slot[s].time \in Int /\ age[s] \in Int
    BY <2>b, CapType
  <2>d. /\ tick \in [at : 0 .. Slots, sending : BOOLEAN]
        /\ tick.at \in 0 .. Slots /\ tick.at \in Int
        /\ tick.at < Slots => tick.at \in Slot
        /\ tick.sending => tick.at \in Slot
    <3>1. tick \in [at : 0 .. Slots, sending : BOOLEAN] /\ (tick.sending => tick.at < Slots)
      BY DEF DedupTypeOK
    <3>2. tick.at \in 0 .. Slots
      BY <3>1
    <3> QED BY <3>1, <3>2 DEF Slot
  <2>t. /\ Main \in Threads
        /\ \A s \in Slot : s \in Int
        /\ \A s \in Slot : slot[s] \in SlotType /\ slot[s].time \in 0 .. TimeCap /\ age[s] \in 0 .. TimeCap
        /\ \A s \in Slot : slot[s].time \in Int /\ age[s] \in Int
        /\ tick.at \in Int /\ tick \in [at : 0 .. Slots, sending : BOOLEAN]
        /\ tick.at < Slots => tick.at \in Slot
        /\ tick.sending => tick.at \in Slot
    BY <2>a, <2>b, <2>c, <2>d
  <2>1. CASE TickBegin
    <3>1. tick = TickIdle /\ ~call[Main].busy /\ tick' = [at |-> 0, sending |-> FALSE]
          /\ slot' = slot /\ call' = call /\ gap' = gap
          /\ \A s \in Slot : age'[s] = Later(age[s])
      BY <2>1 DEF TickBegin
    <3>2. \A s \in Slot : ~Pending(s)
      BY <3>1, <2>t DEF Pending, TickIdle, Slot
    <3>3. ASSUME NEW s \in Slot PROVE
             /\ ~slot[s].alloc => Later(age[s]) = TimeCap /\ ~slot[s].dirty
             /\ slot[s].alloc => Later(slot[s].time) <= Later(age[s])
      BY <3>2, <2>t, LaterMonotone DEF CooldownTracksAge
    <3>4. \A s \in Slot : Pending(s)'
      BY <3>1 DEF Pending, Slot
    <3>5. CooldownTracksAge'
      BY <3>1, <3>3, <3>4 DEF CooldownTracksAge
    <3> QED BY <3>1, <3>5 DEF MainCall, NoFasterThanInterval
  <2>2. CASE TickSkip
    <3>1. /\ tick' = [at |-> tick.at + 1, sending |-> FALSE] /\ tick.at \in Slot /\ ~tick.sending
          /\ slot' = [slot EXCEPT ![tick.at] = Aged(@)]
          /\ call' = call /\ age' = age /\ gap' = gap
      BY <2>2, <2>t DEF TickSkip
    <3>2. tick # TickIdle
      BY <3>1, <2>t DEF TickIdle, Slot
    <3>3. ~call[Main].busy
      BY <3>2 DEF MainCall
    <3>4. ASSUME NEW s \in Slot PROVE
             /\ slot'[s].alloc = slot[s].alloc /\ slot'[s].dirty = slot[s].dirty
             /\ slot'[s].time = IF s = tick.at /\ slot[s].alloc THEN Later(slot[s].time) ELSE slot[s].time
      BY <3>1, <2>t DEF DedupTypeOK, Aged, SlotType
    <3>5. CooldownTracksAge'
      BY <3>1, <3>4, <2>t DEF CooldownTracksAge, Pending, InPublish
    <3> QED BY <3>1, <3>3, <3>5 DEF MainCall, NoFasterThanInterval
  <2>3. CASE TickSend
    <3>1. /\ tick.at \in Slot /\ ~tick.sending /\ MustResend(slot[tick.at])
          /\ slot' = [slot EXCEPT ![tick.at] = Aged(@)]
          /\ tick' = [at |-> tick.at, sending |-> TRUE]
          /\ call' = call
      BY <2>3, <2>t DEF TickSend
    <3>2. PICK ok \in PublishResult : Deliver(tick.at, slot[tick.at].value, ok)
      BY <2>3 DEF TickSend
    <3>3. ~call[Main].busy
      BY <3>1, <2>t DEF MainCall, TickIdle, Slot
    <3>4. age[tick.at] > MinInterval
      <4>1. Later(slot[tick.at].time) <= age[tick.at]
        BY <3>1, <2>t DEF CooldownTracksAge, Pending, InPublish, MustResend
      <4> QED BY <4>1, <3>1, <2>t, LaterType DEF MustResend
    <3>5. ASSUME NEW s \in Slot PROVE
             /\ slot'[s].alloc = slot[s].alloc /\ slot'[s].dirty = slot[s].dirty
             /\ s # tick.at => slot'[s].time = slot[s].time /\ age'[s] = age[s]
             /\ ~slot[s].alloc => age'[s] = age[s]
      BY <3>1, <3>2, <2>t DEF DedupTypeOK, Aged, SlotType, Deliver
    <3>6. CooldownTracksAge'
      BY <3>1, <3>5, <2>t DEF CooldownTracksAge, Pending, InPublish
    <3>7. NoFasterThanInterval'
      BY <3>2, <3>4, <3>1 DEF NoFasterThanInterval, Deliver, DedupTypeOK
    <3> QED BY <3>1, <3>3, <3>6, <3>7 DEF MainCall
  <2>4. CASE TickSent
    <3>1. /\ tick.at \in Slot /\ tick.sending
          /\ slot' = [slot EXCEPT ![tick.at] = Cleared(@)]
          /\ tick' = [at |-> tick.at + 1, sending |-> FALSE]
          /\ call' = call /\ age' = age /\ gap' = gap
      BY <2>4, <2>t DEF TickSent, DedupTypeOK, Slot
    <3>2. ~call[Main].busy
      BY <3>1, <2>t DEF MainCall, TickIdle, Slot
    <3>3. ASSUME NEW s \in Slot PROVE
             /\ slot'[s].alloc = slot[s].alloc
             /\ s = tick.at => slot'[s].time = 0 /\ ~slot'[s].dirty
             /\ s # tick.at => slot'[s] = slot[s]
      BY <3>1, <2>t DEF DedupTypeOK, Cleared, SlotType
    <3>4. CooldownTracksAge'
      BY <3>1, <3>3, <2>t DEF CooldownTracksAge, Pending, InPublish
    <3> QED BY <3>1, <3>2, <3>4 DEF MainCall, NoFasterThanInterval
  <2>5. CASE Return(Main)
    <3> DEFINE s0 == call[Main].slot
    <3>1. /\ call[Main].busy /\ tick = TickIdle /\ s0 \in Slot /\ tick' = tick
          /\ call' = [call EXCEPT ![Main] = NoCall]
      BY <2>5 DEF Return, MainCall, DedupTypeOK, Threads
    <3>2. PICK ok \in PublishResult :
             /\ Deliver(s0, call[Main].value, ok)
             /\ slot' = IF ok /\ ~call[Main].direct
                          THEN [slot EXCEPT ![s0] = Recorded(@, call[Main].value)] ELSE slot
      BY <2>5 DEF Return
    <3>3. ~call'[Main].busy
      BY <3>1, <2>t DEF DedupTypeOK, NoCall
    <3>4. \A s \in Slot : ~Pending(s)
      BY <3>1, <2>t DEF Pending, TickIdle, Slot
    <3>5. slot[s0].alloc => ~call[Main].direct /\ age[s0] > MinInterval
      BY <3>1, <3>4, <2>t DEF MainCall, CooldownTracksAge
    <3>6. ASSUME NEW s \in Slot PROVE
             /\ slot'[s].alloc = slot[s].alloc
             /\ \/ slot'[s] = slot[s] /\ age'[s] = age[s] /\ gap'[s] = gap[s]
                \/ slot[s].alloc /\ s = s0 /\ slot'[s].time = 0 /\ age'[s] = 0 /\ gap'[s] = age[s]
      BY <3>1, <3>2, <3>5, <2>t DEF DedupTypeOK, Recorded, SlotType, Deliver, MainCall
    <3>7. CooldownTracksAge'
      BY <3>1, <3>4, <3>6, <2>t DEF CooldownTracksAge, Pending, InPublish
    <3> QED BY <3>3, <3>5, <3>6, <3>7 DEF MainCall, NoFasterThanInterval
  <2>6. ASSUME NEW s0 \in Slot, NEW v \in Value, DeDuped(Main, s0, v)
        PROVE  CooldownTracksAge' /\ MainCall' /\ NoFasterThanInterval'
    <3>1. CanCall(Main) /\ tick' = tick /\ age' = age /\ gap' = gap
      BY <2>6 DEF DeDuped, CullDuplicate, Defer, Send, SendWithoutSlot, EnterPublish
    <3>2. \A s \in Slot : ~Pending(s)
      BY <3>1, <2>t DEF CanCall, Pending, TickIdle, Slot
    <3>3. AllocatedSlot(s0).alloc /\ AllocatedSlot(s0) \in SlotType /\ AllocatedSlot(s0).time <= age[s0]
      <4>1. CASE slot[s0].alloc
        BY <4>1, <3>2, <2>t, AllocatedType DEF AllocatedSlot, CooldownTracksAge
      <4>2. CASE ~slot[s0].alloc
        <5>1. AllocatedSlot(s0).time = TimeCap /\ age[s0] = TimeCap
          BY <4>2 DEF AllocatedSlot, Fresh, Zeroed, CooldownTracksAge
        <5> QED BY <5>1, AllocatedType, CapType
      <4> QED BY <4>1, <4>2
    <3>4. ASSUME NEW s \in Slot PROVE
             \/ slot'[s] = slot[s]
             \/ slot'[s].alloc /\ slot'[s].time <= age[s]
      <4>1. [AllocatedSlot(s0) EXCEPT !.value = v, !.dirty = TRUE].alloc
            /\ [AllocatedSlot(s0) EXCEPT !.value = v, !.dirty = TRUE].time = AllocatedSlot(s0).time
        BY <3>3 DEF SlotType
      <4> QED BY <2>6, <3>3, <4>1, <2>t DEF DeDuped, CullDuplicate, Defer, Send, SendWithoutSlot, EnterPublish, DedupTypeOK
    <3>5. CooldownTracksAge'
      BY <3>1, <3>2, <3>4, <2>t DEF CooldownTracksAge, Pending, InPublish
    <3>6. MainCall'
      <4>1. CASE UNCHANGED call
        BY <4>1, <3>1 DEF CanCall, MainCall
      <4>2. CASE Send(Main, s0, v)
        BY <4>2, <3>1, <3>3, <2>t DEF Send, EnterPublish, CanCall, MainCall, DedupTypeOK, IsTooFast, SlotType
      <4>3. CASE SendWithoutSlot(Main, s0, v)
        BY <4>3, <3>1, <2>t DEF SendWithoutSlot, EnterPublish, CanCall, MainCall, DedupTypeOK
      <4> QED BY <2>6, <4>1, <4>2, <4>3 DEF DeDuped, CullDuplicate, Defer
    <3> QED BY <3>1, <3>5, <3>6 DEF NoFasterThanInterval
  <2>7. CASE UNCHANGED dedupVars
    BY <2>7 DEF dedupVars, CooldownTracksAge, Pending, InPublish, MainCall, NoFasterThanInterval
  <2> QED BY <2>1, <2>2, <2>3, <2>4, <2>5, <2>6, <2>7 DEF DedupNext, Tick, Threads
<1> QED BY <1>1, <1>2, TypeCorrect, PTL DEF DedupSpec, SpacingInv

\* Once its slot exists a topic is never delivered twice within MinInterval
\* ticks, whatever publish calls fail and whatever slots cannot be allocated
\* (the promise of new_mqtt_deduper.c:22-24), if one thread enters the deduper.
THEOREM Spacing ==
  ASSUME Http = {}
  PROVE  DedupSpec => []NoFasterThanInterval
<1>1. SpacingInv => NoFasterThanInterval
  BY DEF SpacingInv
<1> QED BY <1>1, SpacingInvariant, PTL

\* With one thread and no failing publish, a value the deduper answered for has
\* been delivered or is kept, marked for a later tick (the promise of the
\* comments at new_mqtt_deduper.c:75-76 and 133-138).
THEOREM Kept ==
  ASSUME Http = {}, ~Lossy
  PROVE  DedupSpec => []AcceptedIsDeliveredOrKept
<1> USE DEF Deliver, PublishResult
<1>1. DedupInit => SlotShadowsBroker /\ AcceptedIsDeliveredOrKept /\ MainCall
  BY DEF DedupInit, SlotShadowsBroker, AcceptedIsDeliveredOrKept, MainCall, InPublish, NoSlot, Zeroed, TickIdle, NoCall, Threads
<1>2. DedupTypeOK /\ DedupTypeOK' /\ KeptInv /\ SpacingInv /\ [DedupNext]_dedupVars
        => SlotShadowsBroker' /\ AcceptedIsDeliveredOrKept'
  <2> SUFFICES ASSUME DedupTypeOK, DedupTypeOK', KeptInv, SpacingInv, [DedupNext]_dedupVars
               PROVE  SlotShadowsBroker' /\ AcceptedIsDeliveredOrKept'
    OBVIOUS
  <2> USE DEF KeptInv
  <2>t. /\ Main \in Threads
        /\ slot \in [Slot -> SlotType] /\ broker \in [Slot -> Value \cup {None}]
        /\ accepted \in [Slot -> Value \cup {None}]
        /\ \A s \in Slot : s \in Int
        /\ tick.at \in Int /\ tick \in [at : 0 .. Slots, sending : BOOLEAN]
        /\ tick.at < Slots => tick.at \in Slot
        /\ tick.sending => tick.at \in Slot
    <3>1. tick \in [at : 0 .. Slots, sending : BOOLEAN] /\ (tick.sending => tick.at < Slots)
      BY DEF DedupTypeOK
    <3>2. tick.at \in 0 .. Slots
      BY <3>1
    <3> QED BY <3>1, <3>2 DEF Slot, DedupTypeOK, Threads
  <2>1. CASE TickBegin
    BY <2>1 DEF TickBegin, SlotShadowsBroker, AcceptedIsDeliveredOrKept, InPublish, TickIdle
  <2>2. CASE TickSkip
    <3>1. /\ ~tick.sending /\ ~tick'.sending /\ tick.at \in Slot
          /\ slot' = [slot EXCEPT ![tick.at] = Aged(@)]
          /\ broker' = broker /\ accepted' = accepted
      BY <2>2, <2>t DEF TickSkip
    <3>2. ASSUME NEW s \in Slot PROVE
             slot'[s].alloc = slot[s].alloc /\ slot'[s].dirty = slot[s].dirty /\ slot'[s].value = slot[s].value
      BY <3>1, <2>t DEF Aged, SlotType
    <3> QED BY <3>1, <3>2 DEF SlotShadowsBroker, AcceptedIsDeliveredOrKept, InPublish
  <2>3. CASE TickSend
    <3>1. /\ ~tick.sending /\ tick' = [at |-> tick.at, sending |-> TRUE] /\ tick.at \in Slot
          /\ slot' = [slot EXCEPT ![tick.at] = Aged(@)] /\ slot[tick.at].dirty
          /\ broker' = [broker EXCEPT ![tick.at] = slot[tick.at].value] /\ accepted' = accepted
      BY <2>3, <2>t DEF TickSend, MustResend
    <3>2. ASSUME NEW s \in Slot PROVE
             slot'[s].alloc = slot[s].alloc /\ slot'[s].dirty = slot[s].dirty /\ slot'[s].value = slot[s].value
      BY <3>1, <2>t DEF Aged, SlotType
    <3> QED BY <3>1, <3>2, <2>t DEF SlotShadowsBroker, AcceptedIsDeliveredOrKept, InPublish
  <2>4. CASE TickSent
    <3>1. /\ tick.sending /\ ~tick'.sending /\ tick.at \in Slot
          /\ slot' = [slot EXCEPT ![tick.at] = Cleared(@)]
          /\ broker' = broker /\ accepted' = accepted
      BY <2>4, <2>t DEF TickSent
    <3>2. /\ slot'[tick.at].value = slot[tick.at].value
          /\ \A s \in Slot \ {tick.at} : slot'[s] = slot[s]
          /\ ~slot'[tick.at].dirty
      BY <3>1, <2>t DEF Cleared, SlotType
    <3>3. slot[tick.at].value = broker[tick.at] /\ accepted[tick.at] = broker[tick.at]
      BY <3>1 DEF SlotShadowsBroker, InPublish
    <3>4. SlotShadowsBroker'
      BY <3>1, <3>2, <3>3 DEF SlotShadowsBroker, InPublish
    <3>5. AcceptedIsDeliveredOrKept'
      BY <3>1, <3>2, <3>3 DEF AcceptedIsDeliveredOrKept
    <3> QED BY <3>4, <3>5
  <2>5. CASE Return(Main)
    <3> DEFINE s0 == call[Main].slot
               v  == call[Main].value
    <3>1. /\ s0 \in Slot /\ v \in Value /\ call[Main].busy /\ tick' = tick /\ ~tick.sending
          /\ broker' = [broker EXCEPT ![s0] = v] /\ accepted' = [accepted EXCEPT ![s0] = v]
          /\ slot' = IF call[Main].direct THEN slot ELSE [slot EXCEPT ![s0] = Recorded(@, v)]
      BY <2>5 DEF Return, DedupTypeOK, Threads, MainCall, TickIdle
    <3>2. CASE call[Main].direct
      <4>1. ~slot[s0].alloc /\ slot' = slot
        BY <3>1, <3>2 DEF MainCall
      <4> QED BY <3>1, <4>1, <2>t DEF SlotShadowsBroker, AcceptedIsDeliveredOrKept, InPublish
    <3>3. CASE ~call[Main].direct
      <4>1. /\ slot'[s0].value = v /\ ~slot'[s0].dirty
            /\ \A s \in Slot \ {s0} : slot'[s] = slot[s]
        BY <3>1, <3>3, <2>t DEF Recorded, SlotType
      <4> QED BY <3>1, <4>1, <2>t DEF SlotShadowsBroker, AcceptedIsDeliveredOrKept, InPublish
    <3> QED BY <3>2, <3>3
  <2>6. ASSUME NEW s0 \in Slot, NEW v \in Value, DeDuped(Main, s0, v)
        PROVE  SlotShadowsBroker' /\ AcceptedIsDeliveredOrKept'
    <3>1. tick' = tick /\ broker' = broker /\ ~tick.sending
      BY <2>6 DEF DeDuped, CullDuplicate, Defer, Send, SendWithoutSlot, EnterPublish, CanCall, TickIdle
    <3>2. /\ AllocatedSlot(s0) \in SlotType /\ AllocatedSlot(s0).alloc
          /\ AllocatedSlot(s0).dirty => AllocatedSlot(s0) = slot[s0]
          /\ AllocatedSlot(s0).value # None => AllocatedSlot(s0) = slot[s0] /\ slot[s0].alloc
      BY AllocatedType DEF AllocatedSlot, Fresh, Zeroed
    <3>3. CASE CullDuplicate(Main, s0, v)
      <4>1. AllocatedSlot(s0) = slot[s0] /\ slot[s0].alloc /\ slot[s0].value = v /\ v # None
        BY <3>2, <3>3 DEF CullDuplicate, IsDuplicate
      <4>2. slot' = slot /\ accepted' = [accepted EXCEPT ![s0] = v]
        BY <3>3, <4>1, <2>t DEF CullDuplicate
      <4> QED BY <3>1, <4>1, <4>2, <2>t DEF SlotShadowsBroker, AcceptedIsDeliveredOrKept, InPublish
    <3>4. CASE Defer(Main, s0, v)
      <4>1. /\ accepted' = [accepted EXCEPT ![s0] = v]
            /\ slot' = [slot EXCEPT ![s0] = [AllocatedSlot(s0) EXCEPT !.value = v, !.dirty = TRUE]]
        BY <3>4 DEF Defer
      <4>2. /\ slot'[s0].alloc /\ slot'[s0].dirty /\ slot'[s0].value = v
            /\ \A s \in Slot \ {s0} : slot'[s] = slot[s]
        BY <4>1, <3>2, <2>t DEF SlotType
      <4> QED BY <3>1, <4>1, <4>2, <2>t DEF SlotShadowsBroker, AcceptedIsDeliveredOrKept, InPublish
    <3>5. CASE Send(Main, s0, v) \/ SendWithoutSlot(Main, s0, v)
      <4>1. accepted' = accepted /\ (slot' = slot \/ slot' = [slot EXCEPT ![s0] = AllocatedSlot(s0)])
        BY <3>5 DEF Send, SendWithoutSlot, EnterPublish
      <4>2. \A s \in Slot : slot'[s] = slot[s] \/ (s = s0 /\ slot'[s] = AllocatedSlot(s0))
        BY <4>1, <2>t
      <4>3. ASSUME NEW s \in Slot, s = s0, slot'[s] = AllocatedSlot(s0) PROVE
                 \/ slot'[s] = slot[s]
                 \/ ~slot[s].alloc /\ slot'[s].value = None /\ ~slot'[s].dirty
        BY <4>3 DEF AllocatedSlot, Fresh, Zeroed
      <4>4. SlotShadowsBroker'
        BY <3>1, <4>1, <4>2, <4>3, <3>2 DEF SlotShadowsBroker, InPublish
      <4>5. AcceptedIsDeliveredOrKept'
        BY <3>1, <4>1, <4>2, <4>3 DEF AcceptedIsDeliveredOrKept
      <4> QED BY <4>4, <4>5
    <3> QED BY <2>6, <3>3, <3>4, <3>5 DEF DeDuped
  <2>7. CASE UNCHANGED dedupVars
    BY <2>7 DEF dedupVars, SlotShadowsBroker, AcceptedIsDeliveredOrKept, InPublish
  <2> QED BY <2>1, <2>2, <2>3, <2>4, <2>5, <2>6, <2>7 DEF DedupNext, Tick, Threads
<1>3. DedupSpec => []SpacingInv
  BY SpacingInvariant
<1> QED BY <1>1, <1>2, <1>3, TypeCorrect, PTL DEF DedupSpec, KeptInv, SpacingInv
-----------------------------------------------------------------------------
\* A marked slot is cooling down, or it is the one the tick is sending.
MarkedCools(s) ==
  slot[s].dirty => slot[s].alloc /\ (slot[s].time <= MinInterval \/ InPublish(s))
CoolingInv == \A s \in Slot : MarkedCools(s)

\* No value waits for a second cooldown: MQTT_Dedup_Tick passes over a marked slot
\* only while it cools down, and no call marks one that has cooled down, however
\* many threads enter the deduper and whatever publish and malloc calls fail.
THEOREM WaitsForOneCooldown == DedupSpec => [][WaitsOnlyInCooldown']_dedupVars
<1>1. DedupInit => CoolingInv
  BY DEF DedupInit, CoolingInv, MarkedCools, NoSlot, Zeroed
<1>2. DedupTypeOK /\ CoolingInv /\ [DedupNext]_dedupVars => CoolingInv'
  <2> SUFFICES ASSUME DedupTypeOK, CoolingInv, [DedupNext]_dedupVars, NEW s \in Slot
               PROVE  MarkedCools(s)'
    BY DEF CoolingInv
  <2>t. /\ slot \in [Slot -> SlotType] /\ slot[s] \in SlotType /\ s \in Int
        /\ slot[s].time \in Int /\ MinInterval \in Int
        /\ tick \in [at : 0 .. Slots, sending : BOOLEAN]
    BY CapType DEF DedupTypeOK, SlotType, Slot
  <2>i. MarkedCools(s)
    BY DEF CoolingInv
  <2>1. CASE TickBegin
    BY <2>1, <2>i DEF TickBegin, MarkedCools, InPublish, TickIdle
  <2>2. CASE TickSkip
    <3>1. /\ ~tick.sending /\ ~MustResend(slot[tick.at])
          /\ slot' = [slot EXCEPT ![tick.at] = Aged(@)]
      BY <2>2 DEF TickSkip
    <3>2. CASE s = tick.at
      BY <3>1, <3>2, <2>t, <2>i, LaterType DEF MarkedCools, InPublish, MustResend, Aged, SlotType
    <3>3. CASE s # tick.at
      BY <3>1, <3>3, <2>t, <2>i DEF MarkedCools, InPublish
    <3> QED BY <3>2, <3>3
  <2>3. CASE TickSend
    <3>1. /\ ~tick.sending /\ MustResend(slot[tick.at])
          /\ slot' = [slot EXCEPT ![tick.at] = Aged(@)]
          /\ tick' = [tick EXCEPT !.sending = TRUE]
      BY <2>3 DEF TickSend
    <3>2. CASE s = tick.at
      <4>1. tick'.at = s /\ tick'.sending
        BY <3>1, <3>2, <2>t
      <4>2. slot'[s].alloc
        BY <3>1, <3>2, <2>t DEF MustResend, Aged, SlotType
      <4> QED BY <4>1, <4>2 DEF MarkedCools, InPublish
    <3>3. CASE s # tick.at
      BY <3>1, <3>3, <2>t, <2>i DEF MarkedCools, InPublish
    <3> QED BY <3>2, <3>3
  <2>4. CASE TickSent
    <3>1. slot' = [slot EXCEPT ![tick.at] = Cleared(@)]
      BY <2>4 DEF TickSent
    <3>2. CASE s = tick.at
      BY <3>1, <3>2, <2>t DEF MarkedCools, Cleared, SlotType
    <3>3. CASE s # tick.at
      BY <3>1, <3>3, <2>t, <2>i DEF MarkedCools, InPublish
    <3> QED BY <3>2, <3>3
  <2>5. ASSUME NEW t \in Threads, Return(t) PROVE MarkedCools(s)'
    <3>1. /\ tick' = tick
          /\ \/ slot' = slot
             \/ slot' = [slot EXCEPT ![call[t].slot] = Recorded(@, call[t].value)]
      BY <2>5 DEF Return
    <3>2. \A v : ~Recorded(slot[s], v).dirty
      BY <2>t DEF Recorded, SlotType
    <3>3. slot'[s] = slot[s] \/ slot'[s] = Recorded(slot[s], call[t].value)
      BY <3>1, <2>t
    <3> QED BY <3>1, <3>2, <3>3, <2>i DEF MarkedCools, InPublish
  <2>6. ASSUME NEW t \in Threads, NEW s0 \in Slot, NEW v \in Value, DeDuped(t, s0, v)
        PROVE  MarkedCools(s)'
    <3>1. tick' = tick
      BY <2>6 DEF DeDuped, CullDuplicate, Defer, Send, SendWithoutSlot, EnterPublish
    <3>2. AllocatedSlot(s) = slot[s] \/ ~AllocatedSlot(s).dirty
      BY DEF AllocatedSlot, Fresh, Zeroed
    <3>3. CASE Defer(t, s0, v)
      <4>1. /\ IsTooFast(AllocatedSlot(s0))
            /\ slot' = [slot EXCEPT ![s0] = [AllocatedSlot(s0) EXCEPT !.value = v, !.dirty = TRUE]]
        BY <3>3 DEF Defer
      <4>2. AllocatedSlot(s0) \in SlotType /\ AllocatedSlot(s0).alloc
        BY AllocatedType
      <4>3. CASE s = s0
        BY <4>1, <4>2, <4>3, <2>t DEF MarkedCools, IsTooFast, SlotType
      <4>4. CASE s # s0
        BY <4>1, <4>4, <3>1, <2>t, <2>i DEF MarkedCools, InPublish
      <4> QED BY <4>3, <4>4
    <3>4. CASE CullDuplicate(t, s0, v) \/ Send(t, s0, v) \/ SendWithoutSlot(t, s0, v)
      <4>1. slot'[s] = slot[s] \/ slot'[s] = AllocatedSlot(s)
        BY <3>4, <2>t DEF CullDuplicate, Send, SendWithoutSlot
      <4> QED BY <4>1, <3>1, <3>2, <2>i DEF MarkedCools, InPublish
    <3> QED BY <2>6, <3>3, <3>4 DEF DeDuped
  <2>7. CASE UNCHANGED dedupVars
    BY <2>7, <2>i DEF dedupVars, MarkedCools, InPublish
  <2> QED BY <2>1, <2>2, <2>3, <2>4, <2>5, <2>6, <2>7 DEF DedupNext, Tick
<1>3. CoolingInv => WaitsOnlyInCooldown
  BY DEF CoolingInv, MarkedCools, InPublish, WaitsOnlyInCooldown
<1>4. DedupSpec => []WaitsOnlyInCooldown
  BY <1>1, <1>2, <1>3, TypeCorrect, PTL DEF DedupSpec
<1> QED BY <1>4, PTL
=============================================================================
