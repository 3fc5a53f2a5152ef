---------------------------- MODULE Local_proofs ----------------------------
(***************************************************************************)
(* What the device does by itself, for all values of the constants: the    *)
(* gestures on a button (PinButton), the agreement of a data point with    *)
(* its channel (TuyaMapping), the turns of the scripts (ScriptEngine), and *)
(* the changes of channels that handlers carry on (Channels).              *)
(***************************************************************************)
EXTENDS PinButton, TuyaMapping, ScriptEngine, Channels, SequenceTheorems, FiniteSetTheorems,
        WellFoundedInduction, TLAPS

(***************************************************************************)
(* Buttons                                                                 *)
(***************************************************************************)
USE ButtonAssumption DEF ButtonAssumption

\* The 4 bits of repeat can count the presses of this gesture.
PressesFit == presses <= RepeatWidth

\* What the state says of the level, the gesture's presses and its reports; in the
\* state of a first press the long one is not due.
GestureTyped ==
  /\ presses \in Nat /\ outcomes \in 0 .. 1 /\ differs = debounced
  /\ contact => changes > 0
LevelInState == level <=> state \in {1, 3, 5}
GestureInState ==
  /\ state # 0 => presses > 0
  /\ state \in 1 .. 3 => outcomes = 0
  /\ state = 5 => outcomes = 1
  /\ state = 1 => presses = 1
RepeatIsPresses == PressesFit /\ state # 0 => repeat = presses \/ (presses = RepeatWidth /\ repeat = 0)
ClickIsPresses == PressesFit /\ told.what = "click" => told.times = presses

ButtonInv ==
  /\ ButtonTypeOK /\ GestureTyped /\ LevelInState /\ GestureInState
  /\ RepeatIsPresses /\ ClickIsPresses

\* The counters wrap at their widths and nowhere else.
LEMMA RepeatWraps ==
  \A n \in 0 .. RepeatWidth : /\ n % RepeatWidth \in 0 .. RepeatWidth - 1
                              /\ n % RepeatWidth = IF n = RepeatWidth THEN 0 ELSE n
<1>1. RepeatWidth \in Nat /\ RepeatWidth > 0
  OBVIOUS
<1>2. RepeatWidth % RepeatWidth = 0
  BY <1>1
<1>3. ASSUME NEW n \in 0 .. RepeatWidth, n # RepeatWidth
      PROVE  n % RepeatWidth = n
  BY <1>1, <1>3
<1> QED BY <1>1, <1>2, <1>3

LEMMA TicksTyped ==
  ASSUME ButtonTypeOK, NEW dt \in Lates
  PROVE  Ticks(dt) \in 0 .. TickWidth - 1 /\ Ticks(dt) <= ticks + dt
<1>1. dt \in Nat /\ TickWidth \in Nat /\ TickWidth > 0 /\ ticks \in 0 .. TickWidth - 1
  <2>1. dt \in Nat /\ Long + dt < TickWidth /\ Long \in Nat /\ TickWidth \in Nat
    OBVIOUS
  <2> QED BY <2>1 DEF ButtonTypeOK
<1>2. (ticks + dt) % TickWidth \in 0 .. TickWidth - 1 /\ (ticks + dt) % TickWidth <= ticks + dt
  BY <1>1
<1> QED BY <1>1, <1>2 DEF Ticks

\* Each state's part of the handler, on its own.
LEMMA ScanTypes ==
  ASSUME ButtonInv, NEW dt \in Lates, InputHandler(dt)
  PROVE  /\ ButtonTypeOK' /\ GestureTyped' /\ LevelInState'
         /\ GestureInState' /\ RepeatIsPresses' /\ ClickIsPresses'
<1>t. /\ ButtonTypeOK /\ GestureTyped /\ LevelInState /\ GestureInState
      /\ RepeatIsPresses /\ ClickIsPresses
  BY DEF ButtonInv
<1>k. /\ contact \in BOOLEAN /\ level \in BOOLEAN /\ debounced \in 0 .. Debounce - 1
      /\ state \in {0, 1, 2, 3, 5} /\ ticks \in 0 .. TickWidth - 1 /\ repeat \in 0 .. RepeatWidth - 1
      /\ holdTicks \in 0 .. HoldRepeat /\ presses \in Nat /\ outcomes \in 0 .. 1
      /\ RepeatWidth \in Nat /\ RepeatWidth > 5 /\ dt \in Nat /\ HoldRepeat \in Nat /\ Debounce \in Nat
      /\ TickWidth \in Nat /\ 0 < TickWidth
  <2>1. Long + dt < TickWidth /\ Long \in Nat /\ dt \in Nat /\ TickWidth \in Nat
    OBVIOUS
  <2> QED BY <1>t, <2>1 DEF ButtonTypeOK, GestureTyped
<1>d. /\ level' \in BOOLEAN /\ debounced' \in 0 .. Debounce - 1 /\ differs' = debounced'
      /\ contact' = contact /\ changes' = changes
  <2>1. Debounce \in Nat /\ Debounce > 0
    OBVIOUS
  <2>2. level' = IF contact # level /\ debounced + dt >= Debounce THEN contact ELSE level
    BY DEF InputHandler, DebounceStep
  <2>3. level' \in BOOLEAN /\ (contact = level \/ level' # level \/ debounced + dt < Debounce)
    BY <1>k, <2>1, <2>2
  <2> QED BY <1>t, <1>k, <2>1, <2>3 DEF InputHandler, DebounceStep, GestureTyped
<1>m. Ticks(dt) \in 0 .. TickWidth - 1
  BY <1>t, TicksTyped
<1>n. 0 \in 0 .. TickWidth - 1
  BY <1>k
<1>p. ASSUME NEW n \in 0 .. RepeatWidth PROVE n % RepeatWidth \in 0 .. RepeatWidth - 1
      /\ n % RepeatWidth = IF n = RepeatWidth THEN 0 ELSE n
  BY RepeatWraps
<1> DEFINE Goal == /\ state' \in {0, 1, 2, 3, 5} /\ ticks' \in 0 .. TickWidth - 1
                   /\ repeat' \in 0 .. RepeatWidth - 1 /\ holdTicks' \in 0 .. HoldRepeat
                   /\ presses' \in Nat /\ outcomes' \in 0 .. 1
                   /\ LevelInState' /\ GestureInState' /\ RepeatIsPresses' /\ ClickIsPresses'
<1> SUFFICES Goal
  BY <1>t, <1>d DEF ButtonTypeOK, GestureTyped
<1>0. CASE Idle(dt)
  <2>1. state = 0 /\ ~level /\ holdTicks' = holdTicks
    BY <1>t, <1>0 DEF Idle, LevelInState
  <2>2. CASE level'
    <3>1. /\ told'.what = "press" /\ ticks' = 0 /\ repeat' = 1 % RepeatWidth /\ state' = 1
          /\ presses' = 1 /\ outcomes' = 0
      BY <1>0, <2>2 DEF Idle, Told, Counts, Goes
    <3>2. repeat' = 1 /\ 1 \in 0 .. RepeatWidth - 1
      BY <1>k, <1>p, <3>1
    <3> QED BY <1>k, <1>n, <2>1, <2>2, <3>1, <3>2
         DEF LevelInState, GestureInState, RepeatIsPresses, ClickIsPresses, PressesFit
  <2>3. CASE ~level'
    <3>1. told'.what = "nothing" /\ ticks' = Ticks(dt) /\ UNCHANGED <<repeat, state, presses, outcomes>>
      BY <1>0, <2>3 DEF Idle, ToldNothing, Nothing
    <3> QED BY <1>k, <1>m, <2>1, <2>3, <3>1
         DEF LevelInState, GestureInState, RepeatIsPresses, ClickIsPresses, PressesFit
  <2> QED BY <2>2, <2>3
<1>1. CASE FirstPress(dt)
  <2>1. /\ state = 1 /\ level /\ outcomes = 0 /\ presses = 1
        /\ UNCHANGED <<repeat, holdTicks, presses>>
        /\ ticks' \in {0, Ticks(dt)}
    BY <1>t, <1>1 DEF FirstPress, LevelInState, GestureInState
  <2>2. \/ ~level' /\ told'.what = "release" /\ state' = 2 /\ outcomes' = outcomes
        \/ level' /\ told'.what = "holdStart" /\ state' = 5 /\ outcomes' = outcomes + 1
        \/ level' /\ told'.what = "nothing" /\ state' = state /\ outcomes' = outcomes
    BY <1>1 DEF FirstPress, Told, ToldNothing, Nothing, Goes
  <2>3. state' \in {1, 2, 5} /\ (state' = 5 <=> outcomes' = 1) /\ outcomes' \in 0 .. 1 /\ told'.what # "click"
        /\ (level' <=> state' # 2)
    BY <1>d, <2>1, <2>2
  <2>4. ticks' \in 0 .. TickWidth - 1
    BY <1>m, <1>n, <2>1
  <2> QED BY <1>t, <1>k, <2>1, <2>3, <2>4
       DEF LevelInState, GestureInState, RepeatIsPresses, ClickIsPresses, PressesFit
<1>2. CASE Released(dt)
  <2>1. state = 2 /\ ~level /\ outcomes = 0 /\ presses > 0 /\ holdTicks' = holdTicks
    BY <1>t, <1>2 DEF Released, LevelInState, GestureInState
  <2>2. CASE level'
    <3>1. /\ told'.what = "nothing" /\ ticks' = 0 /\ repeat' = (repeat + 1) % RepeatWidth /\ state' = 3
          /\ presses' = presses + 1 /\ outcomes' = outcomes
      BY <1>2, <2>2 DEF Released, ToldNothing, Nothing, Counts, Goes
    <3>2. repeat + 1 \in 0 .. RepeatWidth
      BY <1>k
    <3>3. repeat' \in 0 .. RepeatWidth - 1 /\ repeat' = IF repeat + 1 = RepeatWidth THEN 0 ELSE repeat + 1
      BY <1>p, <3>1, <3>2
    <3>4. RepeatIsPresses'
      BY <1>t, <1>k, <2>1, <3>1, <3>3 DEF RepeatIsPresses, PressesFit
    <3> QED BY <1>k, <1>n, <2>1, <2>2, <3>1, <3>3, <3>4 DEF LevelInState, GestureInState, ClickIsPresses
  <2>3. CASE ~level'
    <3>1. /\ ticks' = Ticks(dt) /\ UNCHANGED <<repeat, presses>>
          /\ \/ state' = 0 /\ repeat \in 1 .. 5 /\ told' = [what |-> "click", times |-> repeat] /\ outcomes' = outcomes + 1
             \/ state' = 0 /\ told'.what = "nothing" /\ outcomes' = outcomes
             \/ state' = state /\ told'.what = "nothing" /\ outcomes' = outcomes
      BY <1>2, <2>3 DEF Released, ToldNothing, Nothing, Goes
    <3>2. ClickIsPresses' /\ RepeatIsPresses'
      BY <1>t, <1>k, <2>1, <3>1 DEF RepeatIsPresses, ClickIsPresses, PressesFit
    <3> QED BY <1>k, <1>m, <2>1, <2>3, <3>1, <3>2 DEF LevelInState, GestureInState
  <2> QED BY <2>2, <2>3
<1>3. CASE PressedAgain(dt)
  <2>1. /\ state = 3 /\ level /\ outcomes = 0 /\ presses > 0
        /\ UNCHANGED <<repeat, holdTicks, presses, outcomes>> /\ ticks' \in {0, Ticks(dt)}
    BY <1>t, <1>3 DEF PressedAgain, LevelInState, GestureInState
  <2>2. /\ told'.what # "click"
        /\ \/ ~level' /\ state' \in {0, 2}
           \/ level' /\ state' = 3
    BY <1>3 DEF PressedAgain, Told, ToldNothing, Nothing, Goes
  <2>3. ticks' \in 0 .. TickWidth - 1
    BY <1>m, <1>n, <2>1
  <2> QED BY <1>t, <1>k, <2>1, <2>2, <2>3
       DEF LevelInState, GestureInState, RepeatIsPresses, ClickIsPresses, PressesFit
<1>4. CASE Held(dt)
  <2>1. /\ state = 5 /\ level /\ outcomes = 1 /\ presses > 0
        /\ UNCHANGED <<repeat, presses, outcomes>> /\ ticks' = Ticks(dt)
    BY <1>t, <1>4 DEF Held, LevelInState, GestureInState
  <2>2. /\ told'.what # "click" /\ holdTicks' \in 0 .. HoldRepeat
        /\ \/ ~level' /\ state' = 0
           \/ level' /\ state' = 5
    BY <1>k, <1>4, <2>1 DEF Held, HoldOver, Told, ToldNothing, Nothing, Goes
  <2> QED BY <1>t, <1>k, <1>m, <2>1, <2>2
       DEF LevelInState, GestureInState, RepeatIsPresses, ClickIsPresses, PressesFit
<1> QED BY <1>0, <1>1, <1>2, <1>3, <1>4 DEF InputHandler

LEMMA ButtonStep == ButtonInv /\ [ButtonNext]_buttonVars => ButtonInv'
<1> SUFFICES ASSUME ButtonInv, [ButtonNext]_buttonVars
             PROVE  ButtonInv'
  OBVIOUS
<1>t. /\ ButtonTypeOK /\ GestureTyped /\ LevelInState /\ GestureInState
      /\ RepeatIsPresses /\ ClickIsPresses
  BY DEF ButtonInv
<1>s. ASSUME UNCHANGED <<level, debounced, state, ticks, repeat, holdTicks, told, presses, outcomes, differs>>,
             contact' \in BOOLEAN, changes' \in 0 .. MaxLevels, contact' => changes' > 0
      PROVE  ButtonInv'
  <2>1. ButtonTypeOK' /\ GestureTyped'
    BY <1>t, <1>s DEF ButtonTypeOK, GestureTyped
  <2>2. LevelInState' /\ GestureInState' /\ RepeatIsPresses' /\ ClickIsPresses'
    BY <1>t, <1>s DEF LevelInState, GestureInState, RepeatIsPresses, ClickIsPresses, PressesFit
  <2> QED BY <2>1, <2>2 DEF ButtonInv
<1>1. CASE Touch \/ Lift
  <2>1. /\ contact' \in BOOLEAN /\ changes' \in 0 .. MaxLevels /\ (contact' => changes' > 0)
        /\ UNCHANGED <<level, debounced, state, ticks, repeat, holdTicks, told, presses, outcomes, differs>>
    <3>1. changes \in 0 .. MaxLevels /\ MaxLevels \in Nat /\ (contact => changes > 0) /\ contact \in BOOLEAN
      BY <1>t DEF ButtonTypeOK, GestureTyped
    <3>2. CASE Touch
      BY <3>1, <3>2 DEF Touch, Change
    <3>3. CASE Lift
      <4>1. contact = TRUE /\ contact' = FALSE /\ changes' = changes - 1
        BY <3>1, <3>3 DEF Lift, Change
      <4>2. changes' \in 0 .. MaxLevels
        BY <3>1, <4>1
      <4> QED BY <3>3, <4>1, <4>2 DEF Lift, Change
    <3> QED BY <1>1, <3>2, <3>3
  <2> QED BY <1>s, <2>1
<1>2. CASE \E dt \in Lates : InputHandler(dt)
  BY <1>2, ScanTypes DEF ButtonInv
<1>3. CASE UNCHANGED buttonVars
  <2>1. /\ contact' \in BOOLEAN /\ changes' \in 0 .. MaxLevels /\ (contact' => changes' > 0)
        /\ UNCHANGED <<level, debounced, state, ticks, repeat, holdTicks, told, presses, outcomes, differs>>
    BY <1>t, <1>3 DEF buttonVars, ButtonTypeOK, GestureTyped
  <2> QED BY <1>s, <2>1
<1> QED BY <1>1, <1>2, <1>3 DEF ButtonNext

LEMMA ButtonInvAlways == ButtonSpec => []ButtonInv
<1>1. ButtonInit => ButtonInv
  <2> SUFFICES ASSUME ButtonInit PROVE ButtonInv
    OBVIOUS
  <2>2. 0 \in 0 .. TickWidth - 1 /\ 0 \in 0 .. MaxLevels /\ 0 \in 0 .. Debounce - 1 /\ 0 \in 0 .. RepeatWidth - 1 /\ 0 \in 0 .. HoldRepeat
    OBVIOUS
  <2>3. MaxLevels \in 0 .. MaxLevels /\ presses = 0 /\ outcomes = 0 /\ told.what = "nothing"
    BY DEF ButtonInit, Nothing
  <2>4. ButtonTypeOK
    BY <2>2, <2>3 DEF ButtonInit, ButtonTypeOK
  <2>5. GestureTyped /\ LevelInState
    BY <2>3 DEF ButtonInit, GestureTyped, LevelInState
  <2>6. GestureInState /\ RepeatIsPresses /\ ClickIsPresses
    BY <2>3 DEF ButtonInit, GestureInState, RepeatIsPresses, ClickIsPresses
  <2> QED BY <2>4, <2>5, <2>6 DEF ButtonInv
<1>2. ButtonInv /\ [ButtonNext]_buttonVars => ButtonInv'
  BY ButtonStep
<1> QED BY <1>1, <1>2, PTL DEF ButtonSpec

\* The counters and the level keep their ranges, whatever the finger does and how
\* late the scans are (PIN_Input_Handler).
THEOREM ButtonTyped == ButtonSpec => []ButtonTypeOK
<1>1. ButtonInv => ButtonTypeOK
  BY DEF ButtonInv
<1> QED BY <1>1, ButtonInvAlways, PTL

\* A click is reported with the number of presses of its gesture, and no gesture is
\* reported twice, as long as the 4 bits of repeat can count the presses
\* (PIN_Input_Handler; past them a click of one press may be reported).
THEOREM ClicksAreCounted == ButtonSpec => [](PressesFit => ClickCountRight)
<1>1. ButtonInv => (PressesFit => ClickCountRight)
  BY DEF ButtonInv, GestureTyped, ClickIsPresses, ClickCountRight
<1> QED BY <1>1, ButtonInvAlways, PTL

\* The level changes only when the scans found the contact different for
\* BTN_DEBOUNCE_MS without interruption: bouncing is no press and no release.
THEOREM BouncesAreIgnored == ButtonSpec => BouncesIgnored
<1>1. ASSUME ButtonInv, NEW dt \in Lates, InputHandler(dt), level' # level
      PROVE  differs + dt >= Debounce
  <2>1. differs = debounced
    BY <1>1 DEF ButtonInv, GestureTyped
  <2> QED BY <1>1, <2>1 DEF InputHandler, DebounceStep
<1>2. ButtonInv /\ [ButtonNext]_buttonVars
        => [\A dt \in Lates : InputHandler(dt) /\ level' # level => differs + dt >= Debounce]_buttonVars
  BY <1>1
<1> QED BY <1>2, ButtonInvAlways, PTL DEF ButtonSpec, BouncesIgnored

\* A button that comes to rest has had its gesture reported, but for a repeated press
\* that was long and for more than five presses, and this whether or not the 4 bits of
\* repeat could count them (PIN_Input_Handler).
THEOREM GesturesAreTold == ButtonSpec => GestureTold
<1>1. ASSUME ButtonInv, [ButtonNext]_buttonVars, state # 0, state' = 0
      PROVE  \/ outcomes' = 1 \/ presses > 5
             \/ state = 3 /\ \E dt \in Lates : InputHandler(dt) /\ ticks + dt >= Short
  <2>1. PICK dt \in Lates : InputHandler(dt)
    BY <1>1 DEF ButtonNext, Touch, Lift, Change, buttonVars
  <2>2. ~Idle(dt) /\ ~FirstPress(dt)
    BY <1>1 DEF Idle, FirstPress, Goes
  <2>3. CASE Released(dt)
    <3>1. /\ state = 2 /\ outcomes = 0 /\ presses \in Nat /\ presses > 0 /\ repeat \in 0 .. RepeatWidth - 1
          /\ RepeatWidth \in Nat /\ RepeatWidth > 5
          /\ presses <= RepeatWidth => repeat = presses \/ presses = RepeatWidth
      BY <1>1, <2>3 DEF Released, ButtonInv, ButtonTypeOK, GestureTyped, GestureInState, RepeatIsPresses, PressesFit
    <3>2. (repeat \in 1 .. 5 /\ outcomes' = outcomes + 1) \/ repeat \notin 1 .. 5
      BY <1>1, <2>3 DEF Released, Goes
    <3> QED BY <3>1, <3>2
  <2>4. CASE PressedAgain(dt)
    <3>1. state = 3 /\ Ticks(dt) >= Short
      <4>1. Ticks(dt) \in 0 .. TickWidth - 1 /\ Short \in Nat
        BY TicksTyped, <1>1 DEF ButtonInv
      <4> QED BY <1>1, <2>4, <4>1 DEF PressedAgain, Goes, Quick
    <3>2. Ticks(dt) <= ticks + dt /\ Ticks(dt) \in Nat /\ ticks \in Nat /\ dt \in Nat /\ Short \in Nat
      BY TicksTyped, <1>1 DEF ButtonInv, ButtonTypeOK
    <3> QED BY <2>1, <3>1, <3>2
  <2>5. CASE Held(dt)
    BY <1>1, <2>5 DEF Held, ButtonInv, GestureInState
  <2> QED BY <2>1, <2>2, <2>3, <2>4, <2>5 DEF InputHandler
<1>2. ButtonInv /\ [ButtonNext]_buttonVars
        => [state # 0 /\ state' = 0 =>
              \/ outcomes' = 1 \/ presses > 5
              \/ state = 3 /\ \E dt \in Lates : InputHandler(dt) /\ ticks + dt >= Short]_buttonVars
  BY <1>1
<1> QED BY <1>2, ButtonInvAlways, PTL DEF ButtonSpec, GestureTold

\* What a finger does is told: bounces are nothing, and gestures are not swallowed.
THEOREM WhatAFingerDoesIsTold == ButtonSpec => ButtonFaithful
BY BouncesAreIgnored, GesturesAreTold DEF ButtonFaithful

(***************************************************************************)
(* A data point and its channel                                            *)
(***************************************************************************)
HIDE ButtonAssumption DEF ButtonAssumption

Newest(s) == s[Len(s)]

LEMMA MappingIs ==
  ASSUME map \in Mappings
  PROVE  /\ map.top \in Nat /\ map.delta \in Int /\ map.mul \in Int /\ map.by \in Nat \ {0}
         /\ map.inv \in BOOLEAN
         /\ DimmerMax - DimmerMin \in Nat \ {0} /\ DimmerMin \in Int
BY MappingAssumption DEF MappingAssumption, Mapping

LEMMA ValuesAreInts ==
  /\ UserValues \subseteq Int /\ PointValues \subseteq Int /\ MaxMoves \in Nat
BY MappingAssumption DEF MappingAssumption

\* Values are integers.
LEMMA QuotientIsInt ==
  ASSUME NEW a \in Int, NEW b \in Nat \ {0}
  PROVE  Quotient(a, b) \in Int
<1>1. a >= 0 => a \div b \in Int
  OBVIOUS
<1>2. -a \in Int /\ (-a) \div b \in Int
  OBVIOUS
<1> QED BY <1>1, <1>2 DEF Quotient

LEMMA ConvertedIsInt ==
  ASSUME map \in Mappings, NEW v \in Int
  PROVE  Mapped(v) \in Int /\ Scaled(v) \in Int /\ Pointed(v) \in Int
<1>1. /\ map.top \in Nat /\ map.delta \in Int /\ map.mul \in Int /\ map.by \in Nat \ {0}
      /\ DimmerMax - DimmerMin \in Nat \ {0} /\ DimmerMin \in Int
  BY MappingIs
<1>2. Inverted(v) \in Int /\ \A x \in Int : Inverted(x) \in Int
  BY DEF Inverted
<1>3. InRange(v) \in Int
  <2>1. (v - DimmerMin) * map.top \in Int
    BY <1>1
  <2> QED BY <2>1, <1>1, QuotientIsInt DEF InRange
<1>4. Scaled(v) \in Int
  <2>1. (v + map.delta) * map.mul \in Int
    BY <1>1
  <2> QED BY <2>1, <1>1, QuotientIsInt DEF Scaled
<1>5. Ranged(v) \in Int
  <2>1. CASE map.top = 0
    BY <2>1 DEF Ranged
  <2>2. CASE map.top # 0
    <3>1. Seen(v) \in Int
      BY <1>2 DEF Seen
    <3>2. (DimmerMax - DimmerMin) * Seen(v) \in Int /\ map.top \in Nat \ {0}
      BY <3>1, <2>2, <1>1
    <3>3. Quotient((DimmerMax - DimmerMin) * Seen(v), map.top) \in Int
      BY <3>2, QuotientIsInt
    <3> QED BY <3>3, <2>2, <1>1 DEF Ranged
  <2> QED BY <2>1, <2>2
<1> QED BY <1>2, <1>3, <1>4, <1>5 DEF Mapped, Pointed

\* Of a mapping that converts nothing but the range: what prevValue holds is what the
\* channel is set to and what it is compared with.
LEMMA NothingConverted ==
  ASSUME map \in Mappings, ~Converted, NEW v \in Int
  PROVE  Scaled(v) = v /\ Seen(v) = v
<1>1. map.mul = map.by /\ map.by \in Nat \ {0} /\ map.delta = 0 /\ map.inv = FALSE
  BY MappingIs DEF Converted
<1> DEFINE b == map.by
<1>2. v + map.delta = v /\ b \in Nat \ {0} /\ Scaled(v) = Quotient(v * b, b)
  BY <1>1 DEF Scaled
<1> HIDE DEF b
<1>3. v >= 0 => v * b >= 0 /\ (v * b) \div b = v
  BY <1>2, Z3
<1>4. v < 0 => ~(v * b >= 0) /\ -(v * b) = (-v) * b /\ ((-v) * b) \div b = -v
  BY <1>2, Z3
<1>5. Quotient(v * b, b) = v
  BY <1>3, <1>4 DEF Quotient
<1> QED BY <1>1, <1>2, <1>5 DEF Seen

\* For a mapping in both directions that converts nothing but the range: the newest
\* report is what the data point is, and the mapping remembers it once it is taken;
\* then the channel has that value, or the MCU is still to be sent the channel's; and
\* a user's last command that counts is what the MCU ends with.
NewestReportIsPoint ==
  /\ reports # <<>> => Newest(reports) = point
  /\ reported /\ reports = <<>> => prevValue = Mapped(point)
ChannelIsKnownOrSent ==
  reported /\ reports = <<>> /\ channel # prevValue =>
    toMcu # <<>> /\ Newest(toMcu) = <<Pointed(channel)>>
CommandIsLast ==
  wanted # <<>> => 
    /\ reported
    /\ IF toMcu = <<>> THEN point = Pointed(wanted[1]) ELSE Newest(toMcu) = <<Pointed(wanted[1])>>

MappingInv ==
  /\ MappingTypeOK
  /\ BothWays => NewestReportIsPoint /\ ChannelIsKnownOrSent /\ CommandIsLast

\* What is newest of a queue that is taken from and added to.
LEMMA NewestOfQueue ==
  ASSUME NEW S, NEW s \in Seq(S)
  PROVE  /\ \A x \in S : /\ Append(s, x) \in Seq(S) /\ Append(s, x) # <<>> /\ Newest(Append(s, x)) = x
                         /\ s \o <<x>> = Append(s, x)
         /\ s \o <<>> = s
         /\ s # <<>> => /\ Tail(s) \in Seq(S) /\ Head(s) \in S
                        /\ IF Tail(s) = <<>> THEN Newest(s) = Head(s) ELSE Newest(Tail(s)) = Newest(s)
<1>1. ASSUME NEW x \in S
      PROVE  /\ Append(s, x) \in Seq(S) /\ Append(s, x) # <<>> /\ Newest(Append(s, x)) = x
             /\ s \o <<x>> = Append(s, x)
  <2>1. /\ Append(s, x) \in Seq(S) /\ Len(Append(s, x)) = Len(s) + 1 /\ Append(s, x)[Len(s) + 1] = x
        /\ Append(s, x) # <<>>
    BY AppendProperties
  <2>2. s \o <<x>> = Append(s, x)
    BY AppendIsConcat
  <2> QED BY <2>1, <2>2 DEF Newest
<1>2. s \o <<>> = s
  BY ConcatEmptySeq
<1>3. ASSUME s # <<>>
      PROVE  /\ Tail(s) \in Seq(S) /\ Head(s) \in S
             /\ IF Tail(s) = <<>> THEN Newest(s) = Head(s) ELSE Newest(Tail(s)) = Newest(s)
  <2>1. /\ Head(s) \in S /\ Tail(s) \in Seq(S) /\ Len(Tail(s)) = Len(s) - 1
        /\ \A i \in 1 .. Len(Tail(s)) : Tail(s)[i] = s[i + 1]
    BY <1>3, HeadTailProperties
  <2>2. Len(s) \in Nat /\ Len(s) > 0 /\ Head(s) = s[1]
    BY <1>3, EmptySeq
  <2>3. CASE Tail(s) = <<>>
    <3>1. Len(s) = 1
      <4> DEFINE t == Tail(s)  n == Len(t)  m == Len(s)
      <4>1. n = m - 1 /\ m \in Nat
        BY <2>1, <2>2
      <4>2. n = 0
        <5>1. t \in Seq(S) /\ t = <<>>
          BY <2>1, <2>3
        <5> HIDE DEF t
        <5> QED BY <5>1, EmptySeq
      <4> HIDE DEF n, m
      <4>3. m = 1
        BY <4>1, <4>2
      <4> QED BY <4>3 DEF m
    <3> QED BY <2>1, <2>2, <2>3, <3>1 DEF Newest
  <2>4. CASE Tail(s) # <<>>
    <3>1. Len(Tail(s)) > 0 /\ Len(Tail(s)) \in Nat
      BY <2>1, <2>4, EmptySeq
    <3>2. Tail(s)[Len(Tail(s))] = s[Len(Tail(s)) + 1] /\ Len(Tail(s)) + 1 = Len(s)
      BY <2>1, <2>2, <3>1
    <3> QED BY <2>1, <2>4, <3>2 DEF Newest
  <2> QED BY <2>3, <2>4
<1> QED BY <1>1, <1>2, <1>3

\* What a change of the channel sends.
LEMMA SetsAndSends ==
  ASSUME MappingTypeOK, NEW v \in Int, NEW p, SetsChannel(v, p)
  PROVE  /\ channel' = v /\ toMcu' \in Seq(Seq(Int))
         /\ ~Converted /\ v = p => toMcu' = toMcu
         /\ BothWays => IF v = channel \/ v = p THEN toMcu' = toMcu
                        ELSE toMcu' # <<>> /\ Newest(toMcu') = <<Pointed(v)>>
<1> DEFINE q == <<Pointed(v)>>  S == Seq(Int)
<1>1. toMcu \in Seq(S) /\ q \in S
  BY ConvertedIsInt DEF MappingTypeOK
<1>2. /\ channel' = v
      /\ toMcu' = IF v = channel THEN toMcu ELSE toMcu \o (IF Seen(v) = p \/ ~Tells THEN <<>> ELSE <<q>>)
  BY DEF SetsChannel, Sent
<1>3. ~Converted => Seen(v) = v
  BY NothingConverted DEF MappingTypeOK
<1> HIDE DEF q, S
<1>4. /\ toMcu \o <<q>> = Append(toMcu, q) /\ toMcu \o <<>> = toMcu
      /\ Append(toMcu, q) \in Seq(S) /\ Append(toMcu, q) # <<>> /\ Newest(Append(toMcu, q)) = q
  <2>1. /\ \A x \in S : /\ Append(toMcu, x) \in Seq(S) /\ Append(toMcu, x) # <<>>
                        /\ Newest(Append(toMcu, x)) = x /\ toMcu \o <<x>> = Append(toMcu, x)
        /\ toMcu \o <<>> = toMcu
    BY <1>1, NewestOfQueue
  <2> QED BY <1>1, <2>1
<1>5. toMcu' = IF v = channel \/ Seen(v) = p \/ ~Tells THEN toMcu ELSE Append(toMcu, q)
  BY <1>2, <1>4
<1>6. toMcu' \in Seq(S)
  BY <1>1, <1>4, <1>5
<1>7. BothWays => Tells /\ ~Converted
  BY DEF BothWays
<1>8. BothWays => IF v = channel \/ v = p THEN toMcu' = toMcu ELSE toMcu' # <<>> /\ Newest(toMcu') = q
  BY <1>3, <1>4, <1>5, <1>7
<1> QED BY <1>2, <1>3, <1>5, <1>6, <1>8 DEF q, S

LEMMA MappingStep == MappingInv /\ [MappingNext]_mappingVars => MappingInv'
<1> SUFFICES ASSUME MappingInv, [MappingNext]_mappingVars
             PROVE  MappingInv'
  OBVIOUS
<1>t. MappingTypeOK
  BY DEF MappingInv
<1>b. BothWays => NewestReportIsPoint /\ ChannelIsKnownOrSent /\ CommandIsLast
  BY DEF MappingInv
<1>k. /\ map \in Mappings /\ prevValue \in Int /\ channel \in Int
      /\ point \in Int /\ toMcu \in Seq(Seq(Int)) /\ reports \in Seq(Int)
      /\ reported \in BOOLEAN /\ wanted \in Seq(Int) /\ moves \in 0 .. MaxMoves
  BY <1>t DEF MappingTypeOK
<1>m. moves > 0 /\ moves' = moves - 1 => moves' \in 0 .. MaxMoves
  BY <1>k, ValuesAreInts
<1>s. map' = map => /\ BothWays' = BothWays /\ Converted' = Converted
                    /\ \A v : Mapped(v)' = Mapped(v) /\ Pointed(v)' = Pointed(v)
  BY DEF BothWays, Converted, Tells, Mapped, InRange, Pointed, Ranged, Seen
<1>1. ASSUME NEW v \in UserValues, User(v) PROVE MappingInv'
  <2>0. v \in Int /\ <<v>> # <<>> /\ <<v>> \in Seq(Int) /\ <<v>>[1] = v
    BY ValuesAreInts
  <2>1. /\ channel' = v /\ toMcu' \in Seq(Seq(Int))
        /\ BothWays => IF v = channel \/ v = prevValue THEN toMcu' = toMcu
                       ELSE toMcu' # <<>> /\ Newest(toMcu') = <<Pointed(v)>>
    BY <1>1, <1>t, <2>0, SetsAndSends DEF User
  <2>2. /\ wanted' = IF reported /\ reports = <<>> /\ Seen(v) # prevValue THEN <<v>> ELSE <<>>
        /\ moves' \in 0 .. MaxMoves
        /\ UNCHANGED <<map, prevValue, point, reports, reported>>
    BY <1>1, <1>m DEF User
  <2>3. MappingTypeOK'
    BY <1>k, <2>0, <2>1, <2>2 DEF MappingTypeOK
  <2>4. ASSUME BothWays' PROVE (NewestReportIsPoint /\ ChannelIsKnownOrSent /\ CommandIsLast)'
    <3>1. BothWays /\ Seen(v) = v
      BY <2>4, <1>s, <2>2, <1>k, <2>0, NothingConverted DEF BothWays
    <3>2. NewestReportIsPoint'
      BY <1>b, <1>s, <2>2, <3>1 DEF NewestReportIsPoint
    <3>3. ChannelIsKnownOrSent'
      BY <1>b, <1>s, <2>1, <2>2, <3>1 DEF ChannelIsKnownOrSent
    <3>4. CommandIsLast'
      <4> SUFFICES ASSUME wanted' # <<>> PROVE CommandIsLast'
        BY DEF CommandIsLast
      <4>1. wanted' = <<v>> /\ wanted'[1] = v /\ reported /\ reports = <<>> /\ v # prevValue
        BY <2>0, <2>2, <3>1
      <4>2. toMcu' # <<>> /\ Newest(toMcu') = <<Pointed(v)>>
        BY <1>b, <2>1, <3>1, <4>1 DEF ChannelIsKnownOrSent
      <4> QED BY <1>s, <2>2, <4>1, <4>2 DEF CommandIsLast
    <3> QED BY <3>2, <3>3, <3>4
  <2> QED BY <2>3, <2>4 DEF MappingInv
<1>2. CASE QueryPoint
  <2>1. /\ toMcu' = <<Query>> /\ ~reported
        /\ UNCHANGED <<map, prevValue, channel, point, reports, reported, wanted, moves>>
    BY <1>2 DEF QueryPoint
  <2>2. toMcu' \in Seq(Seq(Int))
    BY <2>1 DEF Query
  <2>3. MappingTypeOK'
    BY <1>k, <2>1, <2>2 DEF MappingTypeOK
  <2>4. BothWays' => (NewestReportIsPoint /\ ChannelIsKnownOrSent /\ CommandIsLast)'
    BY <1>b, <1>s, <2>1 DEF NewestReportIsPoint, ChannelIsKnownOrSent, CommandIsLast
  <2> QED BY <2>3, <2>4 DEF MappingInv
<1>3. CASE ApplyMapping
  <2> DEFINE h == Head(reports)
  <2>1. /\ reports # <<>> /\ reports' = Tail(reports) /\ reported' = TRUE
        /\ UNCHANGED <<map, point, wanted, moves>>
    BY <1>3 DEF ApplyMapping
  <2>2. /\ h \in Int /\ Tail(reports) \in Seq(Int)
        /\ Tail(reports) = <<>> => Newest(reports) = h
        /\ Tail(reports) # <<>> => Newest(Tail(reports)) = Newest(reports)
    BY <1>k, <2>1, NewestOfQueue
  <2>3. Mapped(h) \in Int /\ Scaled(Mapped(h)) \in Int
    <3>1. Mapped(h) \in Int
      BY <1>k, <2>2, ConvertedIsInt
    <3> QED BY <1>k, <3>1, ConvertedIsInt
  <2>4. IF map.noRead THEN UNCHANGED <<prevValue, channel, toMcu>>
        ELSE prevValue' = Mapped(h) /\ SetsChannel(Scaled(Mapped(h)), Mapped(h))
    BY <1>3 DEF ApplyMapping, Compares
  <2> HIDE DEF h
  <2>5. channel' \in Int /\ prevValue' \in Int /\ toMcu' \in Seq(Seq(Int))
    <3>1. CASE map.noRead
      BY <1>k, <2>4, <3>1
    <3>2. CASE ~map.noRead
      BY <1>t, <2>3, <2>4, <3>2, SetsAndSends
    <3> QED BY <3>1, <3>2
  <2>6. MappingTypeOK'
    BY <1>k, <2>1, <2>2, <2>5 DEF MappingTypeOK
  <2>7. ASSUME BothWays' PROVE (NewestReportIsPoint /\ ChannelIsKnownOrSent /\ CommandIsLast)'
    <3>1. BothWays /\ ~map.noRead /\ ~Converted
      BY <2>7, <1>s, <2>1 DEF BothWays
    <3>2. Scaled(Mapped(h)) = Mapped(h)
      BY <3>1, <1>k, <2>3, NothingConverted
    <3>3. prevValue' = Mapped(h) /\ channel' = Mapped(h) /\ toMcu' = toMcu
      BY <1>t, <2>3, <2>4, <3>1, <3>2, SetsAndSends
    <3>4. NewestReportIsPoint'
      BY <1>b, <1>s, <2>1, <2>2, <3>1, <3>3 DEF NewestReportIsPoint
    <3>5. ChannelIsKnownOrSent' /\ CommandIsLast'
      BY <1>b, <1>s, <2>1, <3>1, <3>3 DEF ChannelIsKnownOrSent, CommandIsLast
    <3> QED BY <3>4, <3>5
  <2> QED BY <2>6, <2>7 DEF MappingInv
<1>4. CASE McuTakes
  <2>1. /\ toMcu # <<>> /\ toMcu' = Tail(toMcu) /\ reports' = Append(reports, point')
        /\ point' = IF Head(toMcu) = <<>> THEN point ELSE Head(toMcu)[1]
        /\ UNCHANGED <<map, prevValue, channel, reported, wanted, moves>>
    BY <1>4 DEF McuTakes, Query
  <2>2. /\ Tail(toMcu) \in Seq(Seq(Int)) /\ Head(toMcu) \in Seq(Int)
        /\ Tail(toMcu) = <<>> => Newest(toMcu) = Head(toMcu)
        /\ Tail(toMcu) # <<>> => Newest(Tail(toMcu)) = Newest(toMcu)
    <3> DEFINE S == Seq(Int)
    <3>1. toMcu \in Seq(S)
      BY <1>k
    <3> HIDE DEF S
    <3>2. /\ Tail(toMcu) \in Seq(S) /\ Head(toMcu) \in S
          /\ IF Tail(toMcu) = <<>> THEN Newest(toMcu) = Head(toMcu)
             ELSE Newest(Tail(toMcu)) = Newest(toMcu)
      BY <2>1, <3>1, NewestOfQueue, Zenon
    <3> QED BY <3>2 DEF S
  <2>3. point' \in Int
    <3>1. Head(toMcu) # <<>> => Head(toMcu)[1] \in Int
      <4> DEFINE h == Head(toMcu)
      <4>1. h \in Seq(Int)
        BY <2>2
      <4> HIDE DEF h
      <4>2. h # <<>> => Len(h) \in Nat /\ Len(h) > 0 /\ \A i \in 1 .. Len(h) : h[i] \in Int
        BY <4>1, EmptySeq, ElementOfSeq
      <4>3. h # <<>> => h[1] \in Int
        BY <4>2
      <4> QED BY <4>3 DEF h
    <3> QED BY <1>k, <2>1, <3>1
  <2>4. reports' \in Seq(Int) /\ reports' # <<>> /\ Newest(reports') = point'
    <3>1. \A x \in Int : /\ Append(reports, x) \in Seq(Int) /\ Append(reports, x) # <<>>
                          /\ Newest(Append(reports, x)) = x
      BY <1>k, NewestOfQueue
    <3> QED BY <2>1, <2>3, <3>1
  <2>5. MappingTypeOK'
    BY <1>k, <2>1, <2>2, <2>3, <2>4 DEF MappingTypeOK
  <2>6. ASSUME BothWays PROVE CommandIsLast'
    <3> SUFFICES ASSUME wanted # <<>> PROVE CommandIsLast'
      BY <2>1 DEF CommandIsLast
    <3>1. reported /\ Newest(toMcu) = <<Pointed(wanted[1])>>
      BY <1>b, <2>1, <2>6 DEF CommandIsLast
    <3>2. Pointed(wanted[1])' = Pointed(wanted[1])
      BY <1>s, <2>1
    <3>3. CASE Tail(toMcu) = <<>>
      <4> DEFINE q == Pointed(wanted[1])
      <4>1. Head(toMcu) = <<q>>
        BY <2>2, <3>1, <3>3
      <4> HIDE DEF q
      <4>2. <<q>> # <<>> /\ <<q>>[1] = q
        OBVIOUS
      <4>3. point' = q
        BY <2>1, <4>1, <4>2
      <4> QED BY <2>1, <3>1, <3>2, <3>3, <4>3 DEF CommandIsLast, q
    <3>4. CASE Tail(toMcu) # <<>>
      BY <2>1, <2>2, <3>1, <3>2, <3>4 DEF CommandIsLast
    <3> QED BY <3>3, <3>4
  <2>7. BothWays' => (NewestReportIsPoint /\ ChannelIsKnownOrSent)'
    BY <2>4 DEF NewestReportIsPoint, ChannelIsKnownOrSent
  <2> QED BY <1>s, <2>1, <2>5, <2>6, <2>7 DEF MappingInv
<1>5. ASSUME NEW v \in PointValues, McuMoves(v) PROVE MappingInv'
  <2>1. /\ point' = v /\ reports' = Append(reports, v) /\ wanted' = <<>> /\ moves' \in 0 .. MaxMoves
        /\ UNCHANGED <<map, prevValue, channel, toMcu, reported>>
    BY <1>5, <1>m DEF McuMoves
  <2>2. v \in Int /\ reports' \in Seq(Int) /\ reports' # <<>> /\ Newest(reports') = v
    <3>1. \A x \in Int : /\ Append(reports, x) \in Seq(Int) /\ Append(reports, x) # <<>>
                          /\ Newest(Append(reports, x)) = x
      BY <1>k, NewestOfQueue
    <3> QED BY <2>1, <3>1, ValuesAreInts
  <2>3. MappingTypeOK'
    BY <1>k, <2>1, <2>2 DEF MappingTypeOK
  <2>4. (NewestReportIsPoint /\ ChannelIsKnownOrSent /\ CommandIsLast)'
    BY <2>1, <2>2 DEF NewestReportIsPoint, ChannelIsKnownOrSent, CommandIsLast
  <2> QED BY <2>3, <2>4 DEF MappingInv
<1>6. CASE UNCHANGED mappingVars
  <2>1. UNCHANGED <<map, prevValue, channel, point, toMcu, reports, reported, wanted, moves>>
    BY <1>6 DEF mappingVars
  <2>2. MappingTypeOK'
    BY <1>k, <2>1 DEF MappingTypeOK
  <2>3. BothWays' => (NewestReportIsPoint /\ ChannelIsKnownOrSent /\ CommandIsLast)'
    BY <1>b, <1>s, <2>1 DEF NewestReportIsPoint, ChannelIsKnownOrSent, CommandIsLast
  <2> QED BY <2>2, <2>3 DEF MappingInv
<1> QED BY <1>1, <1>2, <1>3, <1>4, <1>5, <1>6 DEF MappingNext

LEMMA MappingInvAlways == MappingSpec => []MappingInv
<1>1. MappingInit => MappingInv
  <2> SUFFICES ASSUME MappingInit PROVE MappingInv
    OBVIOUS
  <2>1. reported = FALSE /\ wanted = <<>> /\ reports = <<>> /\ toMcu = <<>>
    BY DEF MappingInit
  <2>2. map \in Mappings /\ channel \in UserValues /\ point \in PointValues /\ prevValue = 0 /\ moves = MaxMoves
    BY DEF MappingInit
  <2>3. toMcu \in Seq(Seq(Int)) /\ reports \in Seq(Int) /\ wanted \in Seq(Int)
    BY <2>1, EmptySeq
  <2>4. prevValue \in Int /\ channel \in Int /\ point \in Int /\ moves \in 0 .. MaxMoves
    BY <2>2, ValuesAreInts
  <2>5. reported \in BOOLEAN
    BY <2>1
  <2>6. MappingTypeOK
    BY <2>2, <2>3, <2>4, <2>5 DEF MappingTypeOK
  <2>7. NewestReportIsPoint /\ ChannelIsKnownOrSent /\ CommandIsLast
    BY <2>1 DEF NewestReportIsPoint, ChannelIsKnownOrSent, CommandIsLast
  <2> QED BY <2>6, <2>7 DEF MappingInv
<1>2. MappingInv /\ [MappingNext]_mappingVars => MappingInv'
  BY MappingStep
<1> QED BY <1>1, <1>2, PTL DEF MappingSpec

\* However the user's commands, the MCU's own changes and the packets cross: of a
\* mapping in both directions without a factor, an offset or an inversion, once nothing
\* is on its way the data point and its channel agree, with the user's last command
\* where it was the last; and whatever its type and directions, no report of such a
\* mapping is answered (TuyaMCU_ApplyMapping, TuyaMCU_OnChannelChanged).
THEOREM MappingIsFaithful == MappingSpec => MappingFaithful
<1>1. MappingInv => (BothWays => InSync /\ LastCommandWins)
  <2> SUFFICES ASSUME MappingInv, BothWays, Quiet PROVE channel = Mapped(point) /\ LastCommandWins
    BY DEF InSync, LastCommandWins
  <2>1. channel = Mapped(point)
    BY DEF MappingInv, NewestReportIsPoint, ChannelIsKnownOrSent, Quiet
  <2>2. wanted # <<>> => point = Pointed(wanted[1])
    BY DEF MappingInv, CommandIsLast, Quiet
  <2> QED BY <2>1, <2>2 DEF LastCommandWins
<1>2. ASSUME MappingInv, ApplyMapping, ~Converted PROVE toMcu' = toMcu
  <2> DEFINE h == Head(reports)
  <2>1. MappingTypeOK /\ reports # <<>> /\ reports \in Seq(Int) /\ map \in Mappings
    BY <1>2 DEF ApplyMapping, MappingInv, MappingTypeOK
  <2>2. h \in Int
    BY <2>1, NewestOfQueue
  <2>3. \/ toMcu' = toMcu
        \/ SetsChannel(Scaled(Mapped(h)), Mapped(h))
    BY <1>2 DEF ApplyMapping, Compares
  <2> HIDE DEF h
  <2>4. Mapped(h) \in Int
    BY <2>1, <2>2, ConvertedIsInt
  <2>5. Scaled(Mapped(h)) = Mapped(h)
    BY <1>2, <2>1, <2>4, NothingConverted
  <2> QED BY <1>2, <2>1, <2>3, <2>4, <2>5, SetsAndSends
<1>3. MappingInv => [ApplyMapping /\ ~Converted => toMcu' = toMcu]_mappingVars
  BY <1>2
<1>4. MappingSpec => []MappingInv
  BY MappingInvAlways
<1> QED BY <1>1, <1>3, <1>4, PTL DEF MappingFaithful

(***************************************************************************)
(* The turns of the scripts                                                *)
(***************************************************************************)
USE ScriptAssumption DEF ScriptAssumption

Slot == [id : Ids \cup {0}, at : {"free"} \cup Found, delay : 0 .. MaxDelay,
         wait : Conditions \cup {None}, asked : BOOLEAN]

\* A script that SVM_RunThread is about to give a line does not sleep; no line is
\* left over from one turn to the next, and turns come after the startup command.
AwakeInLoop == stage = "loop" => slots[active].delay = 0
NoLinesLeftOver == stage \in {"idle", "turn"} => budget = 0
TurnsComeLater == stage = "turn" => booted

ScriptInv == ScriptTypeOK /\ AwakeInLoop /\ NoLinesLeftOver /\ TurnsComeLater

\* A set of places that is not empty has a first one in the list, the last linked in.
LEMMA HasFirst ==
  ASSUME NEW n \in Nat, NEW S, S \subseteq 1 .. n, S # {}
  PROVE  First(S) \in S
<1>1. \A x, y \in Nat : <<y, x>> \in OpToRel(<, Nat) <=> y < x
  BY DEF OpToRel
<1>2. \E R : IsWellFoundedOn(R, Nat) /\ \A x, y \in Nat : <<y, x>> \in R <=> y < x
  BY <1>1, NatLessThanWellFounded, Zenon
<1>3. PICK R : IsWellFoundedOn(R, Nat) /\ \A x, y \in Nat : <<y, x>> \in R <=> y < x
  BY <1>2
<1> DEFINE D == {d \in Nat : n - d \in S}
<1>4. D # {} /\ D \subseteq Nat
  <2>1. PICK t \in S : t \in 1 .. n
    OBVIOUS
  <2>2. n - t \in Nat /\ n - (n - t) = t
    BY <2>1
  <2> QED BY <2>1, <2>2
<1> HIDE DEF D
<1>5. \E x \in D : \A y \in D : ~ (<<y, x>> \in R)
  BY <1>3, <1>4, WFMin
<1>6. PICK x \in D : \A y \in D : ~ (<<y, x>> \in R)
  BY <1>5
<1>7. x \in Nat /\ n - x \in S
  BY DEF D
<1>8. ASSUME NEW t \in S PROVE t <= n - x
  <2>1. t \in 1 .. n /\ n - t \in Nat /\ n - (n - t) = t
    OBVIOUS
  <2>2. n - t \in D
    BY <2>1 DEF D
  <2>3. ~ (n - t < x)
    BY <1>3, <1>6, <1>7, <2>1, <2>2
  <2> QED BY <1>7, <2>1, <2>3
<1>9. \E k \in S : \A j \in S : j <= k
  BY <1>7, <1>8
<1> QED BY <1>9 DEF First

\* One slot changes, or every one does.
LEMMA EditsSlot ==
  ASSUME NEW s \in Seq(Slot), NEW k \in 1 .. Len(s), NEW r \in Slot
  PROVE  [s EXCEPT ![k] = r] \in Seq(Slot) /\ Len([s EXCEPT ![k] = r]) = Len(s) /\ [s EXCEPT ![k] = r][k] = r
BY ExceptSeq

LEMMA EditsSlots ==
  ASSUME slots \in Seq(Slot), DOMAIN slots' = DOMAIN slots, slots' = [k \in DOMAIN slots |-> slots'[k]],
         \A k \in DOMAIN slots : slots'[k] \in Slot
  PROVE  slots' \in Seq(Slot) /\ Len(slots') = Len(slots)
<1>1. DOMAIN slots = 1 .. Len(slots) /\ Len(slots) \in Nat
  OBVIOUS
<1>2. slots' \in [1 .. Len(slots) -> Slot]
  BY <1>1
<1> QED BY <1>1, <1>2

\* What commands and the tick leave in a slot.
LEMMA SlotTyped ==
  ASSUME NEW s \in Slot
  PROVE  /\ \A id \in Ids \cup {0}, at \in Found : Started(s, id, at) \in Slot /\ Started(s, id, at).delay = 0
         /\ Stopped(s) \in Slot /\ [s EXCEPT !.wait = None] \in Slot /\ [s EXCEPT !.delay = 0] \in Slot
         /\ \A at \in {"free"} \cup Found : [s EXCEPT !.at = at] \in Slot
         /\ \A d \in 0 .. MaxDelay : [s EXCEPT !.delay = d] \in Slot
         /\ \A c \in Conditions : [s EXCEPT !.wait = c, !.asked = TRUE] \in Slot
<1>1. 0 \in 0 .. MaxDelay
  OBVIOUS
<1> QED BY <1>1 DEF Slot, Started, Stopped

\* A script is started in a slot that is free or new, and new only if none is free.
LEMMA StartsInSlot ==
  ASSUME ScriptTypeOK, NEW id \in Ids \cup {0}, NEW at \in Found, StartIn(RegisteredSlot, id, at)
  PROVE  /\ slots' \in Seq(Slot) /\ Len(slots') <= MaxThreads /\ Len(slots') >= Len(slots)
         /\ RegisteredSlot \in 1 .. Len(slots') /\ slots'[RegisteredSlot].delay = 0
         /\ Len(slots') > Len(slots) => Live = DOMAIN slots
<1>1. slots \in Seq(Slot) /\ Len(slots) \in Nat /\ Len(slots) <= MaxThreads /\ DOMAIN slots = 1 .. Len(slots)
  BY DEF ScriptTypeOK, Slot
<1>2. CASE Reusable # {}
  <2>1. RegisteredSlot \in 1 .. Len(slots)
    <3>1. Reusable \subseteq 1 .. Len(slots)
      BY <1>1 DEF Reusable
    <3>2. First(Reusable) \in Reusable
      BY <1>1, <1>2, <3>1, HasFirst
    <3> QED BY <1>2, <3>1, <3>2 DEF RegisteredSlot
  <2>2. slots' = [slots EXCEPT ![RegisteredSlot] = Started(slots[RegisteredSlot], id, at)]
    BY <1>1, <2>1 DEF StartIn
  <2>3. slots[RegisteredSlot] \in Slot
    BY <1>1, <2>1, ElementOfSeq
  <2>4. Started(slots[RegisteredSlot], id, at) \in Slot /\ Started(slots[RegisteredSlot], id, at).delay = 0
    BY <2>3, SlotTyped
  <2>5. slots' \in Seq(Slot) /\ Len(slots') = Len(slots) /\ slots'[RegisteredSlot] = Started(slots[RegisteredSlot], id, at)
    BY <1>1, <2>1, <2>2, <2>4, EditsSlot
  <2> QED BY <1>1, <2>1, <2>4, <2>5
<1>3. CASE Reusable = {}
  <2>1. RegisteredSlot = Len(slots) + 1 /\ RegisteredSlot <= MaxThreads /\ RegisteredSlot \notin DOMAIN slots
    BY <1>1, <1>3 DEF RegisteredSlot, StartIn
  <2>2. slots' = Append(slots, Started(NoScript, id, at))
    BY <2>1 DEF StartIn
  <2>3. Started(NoScript, id, at) \in Slot /\ Started(NoScript, id, at).delay = 0
    <3>1. NoScript \in Slot
      BY DEF NoScript, Slot
    <3> QED BY <3>1, SlotTyped
  <2>4. slots' \in Seq(Slot) /\ Len(slots') = Len(slots) + 1 /\ slots'[Len(slots) + 1] = Started(NoScript, id, at)
    BY <1>1, <2>2, <2>3, AppendProperties
  <2>5. Live = DOMAIN slots
    BY <1>3 DEF Reusable, Live
  <2> QED BY <1>1, <2>1, <2>3, <2>4, <2>5
<1> QED BY <1>2, <1>3

\* Whatever a line or a command from outside does to the slots.
LEMMA CommandKeepsSlots ==
  ASSUME ScriptTypeOK, Command
  PROVE  /\ stage \in {"line", "idle"} /\ (stage = "idle" => booted)
         /\ slots' \in Seq(Slot) /\ Len(slots') <= MaxThreads /\ Len(slots') >= Len(slots)
         /\ Len(slots') > Len(slots) => Live = DOMAIN slots
<1>1. /\ slots \in Seq(Slot) /\ Len(slots) \in Nat /\ Len(slots) <= MaxThreads /\ DOMAIN slots = 1 .. Len(slots)
      /\ stage \in {"idle", "turn", "loop", "line"} /\ active \in 0 .. Len(slots) /\ (stage = "idle" <=> active = 0)
      /\ MaxThreads \in Nat
  BY DEF ScriptTypeOK, Slot
<1>2. \A k \in DOMAIN slots : slots[k] \in Slot
  BY <1>1, ElementOfSeq
<1> DEFINE Goal == /\ stage \in {"line", "idle"} /\ (stage = "idle" => booted)
                   /\ slots' \in Seq(Slot) /\ Len(slots') <= MaxThreads /\ Len(slots') >= Len(slots)
                   /\ Len(slots') > Len(slots) => Live = DOMAIN slots
<1>3. Commanding => stage \in {"line", "idle"} /\ (stage = "idle" => booted)
  BY <1>1 DEF Commanding
<1>e. ASSUME Commanding, DOMAIN slots' = DOMAIN slots, slots' = [k \in DOMAIN slots |-> slots'[k]],
             \A k \in DOMAIN slots : slots'[k] \in Slot
      PROVE  Goal
  <2>1. slots' \in Seq(Slot) /\ Len(slots') = Len(slots)
    BY <1>1, <1>e, EditsSlots
  <2> QED BY <1>1, <1>3, <1>e, <2>1
<1>a. ASSUME NEW r \in Slot, OfActive(r) PROVE Goal
  <2>1. active \in 1 .. Len(slots) /\ stage = "line"
    BY <1>1, <1>a DEF OfActive
  <2>2. slots' \in Seq(Slot) /\ Len(slots') = Len(slots)
    BY <1>1, <1>a, <2>1, EditsSlot DEF OfActive
  <2> QED BY <1>1, <2>1, <2>2
<1>b. stage = "line" => slots[active] \in Slot
  BY <1>1, <1>2
<1>4. ASSUME NEW id \in Ids \cup {0}, NEW at \in Found, StartScript(id, at) PROVE Goal
  BY <1>3, <1>4, StartsInSlot DEF StartScript
<1>5. ASSUME NEW id \in Ids \cup {0}, NEW self \in BOOLEAN, StopScripts(id, self) PROVE Goal
  BY <1>2, <1>5, <1>e, SlotTyped DEF StopScripts
<1>6. CASE StopAllScripts
  BY <1>2, <1>6, <1>e, SlotTyped DEF StopAllScripts
<1>7. ASSUME NEW S \in SUBSET Conditions, ProcessWaitersForEvent(S) PROVE Goal
  BY <1>2, <1>7, <1>e, SlotTyped DEF ProcessWaitersForEvent
<1>8. ASSUME NEW d \in Delays, Delay(d) PROVE Goal
  <2>1. stage = "line" /\ slots[active].delay + d \in 0 .. MaxDelay
    BY <1>8, <1>b DEF Delay, Slot
  <2>2. [slots[active] EXCEPT !.delay = @ + d] \in Slot
    BY <2>1, <1>b, SlotTyped
  <2> QED BY <1>8, <1>a, <2>2 DEF Delay
<1>9. ASSUME NEW c \in Conditions, WaitFor(c) PROVE Goal
  <2>1. [slots[active] EXCEPT !.wait = c, !.asked = TRUE] \in Slot
    BY <1>9, <1>b, SlotTyped DEF WaitFor
  <2> QED BY <1>9, <1>a, <2>1 DEF WaitFor
<1>10. CASE Return
  <2>1. [slots[active] EXCEPT !.at = "free"] \in Slot
    BY <1>10, <1>b, SlotTyped DEF Return, OfActive
  <2> QED BY <1>10, <1>a, <2>1 DEF Return
<1>11. ASSUME NEW at \in Found, GoTo(at) PROVE Goal
  <2>1. [slots[active] EXCEPT !.at = at] \in Slot
    BY <1>11, <1>b, SlotTyped DEF GoTo
  <2> QED BY <1>11, <1>a, <2>1 DEF GoTo
<1> QED BY <1>4, <1>5, <1>6, <1>7, <1>8, <1>9, <1>10, <1>11 DEF Command

\* SVM_RunThread is left for the next turn, or for the end of the startup command.
LEMMA LeavesForNextTurn ==
  ASSUME ScriptTypeOK, stage # "idle", LeaveRunThread
  PROVE  /\ active' \in 0 .. Len(slots) /\ stage' \in {"idle", "turn"} /\ (stage' = "idle" <=> active' = 0)
         /\ booted' = TRUE /\ budget' = 0
<1>1. active \in 1 .. Len(slots) /\ Len(slots) \in Nat
  BY DEF ScriptTypeOK
<1> QED BY <1>1 DEF LeaveRunThread, TurnOf, NextAfter

LEMMA ScriptStep == ScriptInv /\ [ScriptNext]_scriptVars => ScriptInv'
<1> SUFFICES ASSUME ScriptInv, [ScriptNext]_scriptVars
             PROVE  ScriptInv'
  OBVIOUS
<1>t. ScriptTypeOK /\ AwakeInLoop /\ NoLinesLeftOver /\ TurnsComeLater
  BY DEF ScriptInv
<1>k. /\ slots \in Seq(Slot) /\ Len(slots) \in Nat /\ Len(slots) <= MaxThreads /\ active \in 0 .. Len(slots)
      /\ stage \in {"idle", "turn", "loop", "line"} /\ (stage = "idle" <=> active = 0)
      /\ delta \in Deltas \cup {0} /\ booted \in BOOLEAN
      /\ budget \in 0 .. (IF booted THEN Lines ELSE StartupLines)
      /\ Lines \in Nat \ {0} /\ StartupLines \in Nat \ {0}
  BY <1>t DEF ScriptTypeOK, Slot
<1>a. stage # "idle" => active \in 1 .. Len(slots) /\ slots[active] \in Slot /\ slots[active].delay \in Nat
  <2>1. stage # "idle" => active \in 1 .. Len(slots)
    BY <1>k
  <2>2. stage # "idle" => slots[active] \in Slot
    BY <1>k, <2>1, ElementOfSeq
  <2> QED BY <2>1, <2>2 DEF Slot
<1>e. ASSUME slots' \in Seq(Slot), Len(slots') <= MaxThreads, active' \in 0 .. Len(slots'),
             stage' \in {"idle", "turn", "loop", "line"}, stage' = "idle" <=> active' = 0,
             delta' \in Deltas \cup {0}, booted' \in BOOLEAN,
             budget' \in 0 .. (IF booted' THEN Lines ELSE StartupLines)
      PROVE  ScriptTypeOK'
  BY <1>e DEF ScriptTypeOK, Slot
<1>1. CASE Startup
  <2>1. stage = "idle" /\ ~booted /\ delta' = delta /\ budget = 0
    BY <1>t, <1>1 DEF Startup, NoLinesLeftOver
  <2>2. CASE StartIn(RegisteredSlot, 0, "text") /\ Enter(RegisteredSlot, StartupLines) /\ UNCHANGED booted
    <3>1. /\ slots' \in Seq(Slot) /\ Len(slots') <= MaxThreads /\ Len(slots') >= Len(slots)
          /\ RegisteredSlot \in 1 .. Len(slots') /\ slots'[RegisteredSlot].delay = 0
      BY <1>t, <2>2, StartsInSlot DEF Found
    <3>2. active' = RegisteredSlot /\ stage' = "loop" /\ budget' = StartupLines /\ booted' = booted
      BY <2>2 DEF Enter
    <3>3. ScriptTypeOK'
      BY <1>e, <1>k, <2>1, <3>1, <3>2
    <3> QED BY <3>1, <3>2, <3>3 DEF ScriptInv, AwakeInLoop, NoLinesLeftOver, TurnsComeLater
  <2>3. CASE booted' = TRUE /\ UNCHANGED <<slots, active, stage, budget>>
    <3>1. ScriptTypeOK'
      BY <1>e, <1>k, <2>1, <2>3
    <3> QED BY <2>1, <2>3, <3>1 DEF ScriptInv, AwakeInLoop, NoLinesLeftOver, TurnsComeLater
  <2> QED BY <1>1, <2>2, <2>3 DEF Startup
<1>2. CASE RoundBegins
  <2>1. /\ stage = "idle" /\ booted /\ delta' \in Deltas /\ UNCHANGED <<slots, budget, booted>>
        /\ slots # <<>> /\ active' = Len(slots) /\ stage' = IF Len(slots) = 0 THEN "idle" ELSE "turn"
    BY <1>2 DEF RoundBegins, TurnOf, RoundHead
  <2>2. ScriptTypeOK'
    BY <1>e, <1>k, <2>1
  <2> QED BY <1>t, <2>1, <2>2 DEF ScriptInv, AwakeInLoop, NoLinesLeftOver, TurnsComeLater
<1>3. CASE TurnPasses
  <2>1. /\ stage = "turn" /\ UNCHANGED <<delta, budget, booted>>
        /\ active' = active - 1 /\ stage' = IF active' = 0 THEN "idle" ELSE "turn"
    BY <1>3 DEF TurnPasses, TurnOf, NextAfter
  <2>2. slots' \in Seq(Slot) /\ Len(slots') = Len(slots)
    <3>1. CASE Sleeps(slots[active])
      <4>1. slots' = [slots EXCEPT ![active].delay = Slept(slots[active])]
        BY <1>3, <3>1 DEF TurnPasses
      <4>2. Slept(slots[active]) \in 0 .. MaxDelay
        <5>1. delta \in Nat /\ slots[active].delay \in 0 .. MaxDelay
          BY <1>a, <1>k, <2>1 DEF Slot
        <5> QED BY <5>1 DEF Slept
      <4>3. [slots[active] EXCEPT !.delay = Slept(slots[active])] \in Slot
        BY <1>a, <2>1, <4>2, SlotTyped
      <4> QED BY <1>a, <1>k, <2>1, <4>1, <4>3, EditsSlot
    <3>2. CASE ~Sleeps(slots[active])
      BY <1>3, <1>k, <3>2 DEF TurnPasses
    <3> QED BY <3>1, <3>2
  <2>3. ScriptTypeOK'
    BY <1>a, <1>e, <1>k, <2>1, <2>2
  <2> QED BY <1>t, <2>1, <2>3 DEF ScriptInv, AwakeInLoop, NoLinesLeftOver, TurnsComeLater
<1>4. CASE TurnRuns
  <2>1. /\ stage = "turn" /\ booted /\ UNCHANGED <<delta, booted>> /\ slots' = [slots EXCEPT ![active].delay = 0]
        /\ active' = active /\ stage' = "loop" /\ budget' = Lines
    BY <1>t, <1>4 DEF TurnRuns, Enter, TurnsComeLater
  <2>2. [slots[active] EXCEPT !.delay = 0] \in Slot /\ [slots[active] EXCEPT !.delay = 0].delay = 0
    <3>1. [slots[active] EXCEPT !.delay = 0] \in Slot
      BY <1>a, <2>1, SlotTyped
    <3> QED BY <1>a, <2>1, <3>1 DEF Slot
  <2>3. slots' \in Seq(Slot) /\ Len(slots') = Len(slots) /\ slots'[active] = [slots[active] EXCEPT !.delay = 0]
    BY <1>a, <1>k, <2>1, <2>2, EditsSlot
  <2>4. ScriptTypeOK'
    BY <1>a, <1>e, <1>k, <2>1, <2>3
  <2> QED BY <2>1, <2>2, <2>3, <2>4 DEF ScriptInv, AwakeInLoop, NoLinesLeftOver, TurnsComeLater
<1>5. CASE LoopEnds
  <2>1. stage = "loop" /\ LeaveRunThread /\ delta' = delta
    BY <1>5 DEF LoopEnds
  <2>2. slots' \in Seq(Slot) /\ Len(slots') = Len(slots)
    <3>1. slots' = slots \/ slots' = [slots EXCEPT ![active].at = "free"]
      BY <1>5 DEF LoopEnds
    <3>2. [slots[active] EXCEPT !.at = "free"] \in Slot
      BY <1>a, <2>1, SlotTyped
    <3>3. /\ [slots EXCEPT ![active] = [slots[active] EXCEPT !.at = "free"]] \in Seq(Slot)
          /\ Len([slots EXCEPT ![active] = [slots[active] EXCEPT !.at = "free"]]) = Len(slots)
      BY <1>a, <1>k, <2>1, <3>2, EditsSlot
    <3> QED BY <1>k, <3>1, <3>3
  <2>3. /\ active' \in 0 .. Len(slots) /\ stage' \in {"idle", "turn"} /\ (stage' = "idle" <=> active' = 0)
        /\ booted' = TRUE /\ budget' = 0
    BY <1>t, <2>1, LeavesForNextTurn
  <2>4. ScriptTypeOK'
    BY <1>e, <1>k, <2>1, <2>2, <2>3
  <2> QED BY <2>3, <2>4 DEF ScriptInv, AwakeInLoop, NoLinesLeftOver, TurnsComeLater
<1>6. CASE LineBegins
  <2>1. /\ stage = "loop" /\ budget # 0 /\ budget' = budget - 1 /\ stage' = "line" /\ UNCHANGED <<active, delta, booted>>
        /\ \E at \in Found : slots' = [slots EXCEPT ![active].at = at]
    BY <1>6 DEF LineBegins, LeavesEarly, BudgetAfterLine
  <2>2. slots' \in Seq(Slot) /\ Len(slots') = Len(slots)
    <3>1. PICK at \in Found : slots' = [slots EXCEPT ![active].at = at]
      BY <2>1
    <3>2. [slots[active] EXCEPT !.at = at] \in Slot
      BY <1>a, <2>1, SlotTyped
    <3> QED BY <1>a, <1>k, <2>1, <3>1, <3>2, EditsSlot
  <2>3. ScriptTypeOK'
    BY <1>a, <1>e, <1>k, <2>1, <2>2
  <2> QED BY <2>1, <2>3 DEF ScriptInv, AwakeInLoop, NoLinesLeftOver, TurnsComeLater
<1>7. CASE LineEnds
  <2>1. stage = "line" /\ UNCHANGED <<slots, delta>>
    BY <1>7 DEF LineEnds
  <2>2. CASE slots[active].delay > 0
    <3>1. /\ active' \in 0 .. Len(slots) /\ stage' \in {"idle", "turn"} /\ (stage' = "idle" <=> active' = 0)
          /\ booted' = TRUE /\ budget' = 0
      BY <1>t, <1>7, <2>1, <2>2, LeavesForNextTurn DEF LineEnds
    <3>2. ScriptTypeOK'
      BY <1>e, <1>k, <2>1, <3>1
    <3> QED BY <3>1, <3>2 DEF ScriptInv, AwakeInLoop, NoLinesLeftOver, TurnsComeLater
  <2>3. CASE ~(slots[active].delay > 0)
    <3>1. stage' = "loop" /\ UNCHANGED <<active, budget, booted>> /\ slots[active].delay = 0
      BY <1>7, <1>a, <2>1, <2>3 DEF LineEnds
    <3>2. ScriptTypeOK'
      BY <1>a, <1>e, <1>k, <2>1, <3>1
    <3> QED BY <2>1, <3>1, <3>2 DEF ScriptInv, AwakeInLoop, NoLinesLeftOver, TurnsComeLater
  <2> QED BY <2>2, <2>3
<1>8. CASE Command
  <2>1. /\ stage \in {"line", "idle"} /\ (stage = "idle" => booted)
        /\ slots' \in Seq(Slot) /\ Len(slots') <= MaxThreads /\ Len(slots') >= Len(slots)
    BY <1>t, <1>8, CommandKeepsSlots
  <2>2. UNCHANGED <<active, stage, delta, budget, booted>>
    BY <1>8 DEF Command
  <2>3. Len(slots') \in Nat
    BY <2>1
  <2>4. ScriptTypeOK'
    BY <1>e, <1>k, <2>1, <2>2, <2>3
  <2> QED BY <1>t, <2>1, <2>2, <2>4 DEF ScriptInv, AwakeInLoop, NoLinesLeftOver, TurnsComeLater
<1>9. CASE UNCHANGED scriptVars
  BY <1>t, <1>9 DEF scriptVars, ScriptInv, ScriptTypeOK, AwakeInLoop, NoLinesLeftOver, TurnsComeLater
<1> QED BY <1>1, <1>2, <1>3, <1>4, <1>5, <1>6, <1>7, <1>8, <1>9 DEF ScriptNext, Tick

LEMMA ScriptInvAlways == ScriptSpec => []ScriptInv
<1>1. ScriptInit => ScriptInv
  <2> SUFFICES ASSUME ScriptInit PROVE ScriptInv
    OBVIOUS
  <2>1. slots = <<>> /\ active = 0 /\ stage = "idle" /\ delta = 0 /\ budget = 0 /\ booted = FALSE
    BY DEF ScriptInit
  <2>2. slots \in Seq(Slot) /\ Len(slots) = 0
    BY <2>1, EmptySeq
  <2>3. ScriptTypeOK
    <3>1. /\ Len(slots) <= MaxThreads /\ active \in 0 .. Len(slots)
          /\ budget \in 0 .. (IF booted THEN Lines ELSE StartupLines)
      BY <2>1, <2>2
    <3>2. stage \in {"idle", "turn", "loop", "line"} /\ delta \in Deltas \cup {0} /\ booted \in BOOLEAN
      BY <2>1
    <3> QED BY <2>1, <2>2, <3>1, <3>2 DEF ScriptTypeOK, Slot
  <2> QED BY <2>1, <2>3 DEF ScriptInv, AwakeInLoop, NoLinesLeftOver, TurnsComeLater
<1>2. ScriptInv /\ [ScriptNext]_scriptVars => ScriptInv'
  BY ScriptStep
<1> QED BY <1>1, <1>2, PTL DEF ScriptSpec

\* Slots, turns and the lines of a turn keep their ranges, whatever scripts and
\* commands do (SVM_RegisterThread, SVM_RunThreads, SVM_RunThread).
THEOREM ScriptsTyped == ScriptSpec => []ScriptTypeOK
<1>1. ScriptInv => ScriptTypeOK
  BY DEF ScriptInv
<1> QED BY <1>1, ScriptInvAlways, PTL

\* For any number of scripts: a script executes no line while it waits for an event or
\* sleeps, whoever put it to sleep, and memory for a new slot is taken only when every
\* slot holds a live script (SVM_RunThread, SVM_RegisterThread).
THEOREM ScriptsKeepTheirTurns == ScriptSpec => ScriptsKeepTurns
<1>1. ASSUME ScriptInv, LineBegins PROVE slots[active].wait = None /\ slots[active].delay = 0
  BY <1>1 DEF ScriptInv, AwakeInLoop, LineBegins, LeavesEarly
<1>2. ASSUME ScriptInv, [ScriptNext]_scriptVars, Len(slots') > Len(slots) PROVE Live = DOMAIN slots
  <2>t. ScriptTypeOK /\ slots \in Seq(Slot) /\ Len(slots) \in Nat /\ active \in 0 .. Len(slots)
    BY <1>2 DEF ScriptInv, ScriptTypeOK, Slot
  <2>1. CASE Command
    BY <1>2, <2>1, <2>t, CommandKeepsSlots
  <2>2. CASE Startup
    <3>1. slots' # slots
      BY <1>2, <2>t
    <3>2. StartIn(RegisteredSlot, 0, "text")
      BY <2>2, <3>1 DEF Startup
    <3> QED BY <1>2, <2>t, <3>2, StartsInSlot DEF Found
  <2>3. Tick /\ ~Startup => Len(slots') = Len(slots)
    BY <2>t DEF Tick, RoundBegins, TurnPasses, TurnRuns, LoopEnds, LineBegins, LineEnds
  <2>4. UNCHANGED scriptVars => slots' = slots
    BY DEF scriptVars
  <2> QED BY <1>2, <2>t, <2>1, <2>2, <2>3, <2>4 DEF ScriptNext
<1>3. ScriptInv /\ [ScriptNext]_scriptVars
        => /\ [LineBegins => slots[active].wait = None /\ slots[active].delay = 0]_scriptVars
           /\ [Len(slots') > Len(slots) => Live = DOMAIN slots]_scriptVars
  BY <1>1, <1>2
<1> QED BY <1>3, ScriptInvAlways, PTL DEF ScriptSpec, ScriptsKeepTurns, SleeperRunsNoLine, GrowsOnlyWhenFull

(***************************************************************************)
(* Channels and the handlers of their changes                              *)
(***************************************************************************)
HIDE ScriptAssumption DEF ScriptAssumption
USE ChannelsAssumption DEF ChannelsAssumption

Call == [ch : ChannelNos, prev : 0..Highest, val : 0..Highest,
         at : {"read", "drive", "event", "change", "save"}, pos : 0..Len(Handlers)]

\* What a call of Channel_OnChanged still has to tell handler h, and how often all
\* the calls of a thread together have.
Owes(f, h) ==
  /\ FiresFor(Handlers[h], f.ch, f.prev, f.val)
  /\ f.at \in {"read", "drive", "event"} \/ (f.at = "change" /\ h <= f.pos)
One(b) == IF b THEN 1 ELSE 0
OwedSet(s, h) == {i \in DOMAIN s : Owes(s[i], h)}
Owed(s, h) == Cardinality(OwedSet(s, h))

\* One thread at a time is in calls.  Those around the innermost are at a walk over the
\* handlers; only the innermost may have the pins still to set, to the value there is.
CallsTyped ==
  /\ value \in [ChannelNos -> 0..Highest] /\ relay \in [ChannelNos -> BOOLEAN]
  /\ stored \in [ChannelNos -> 0..Highest] /\ cmds \in 0..MaxCmds
  /\ stack \in [Setters -> Seq(Call)] /\ due \in [DOMAIN Handlers -> Int]
OneSetter == \A t, u \in Setters : stack[t] # <<>> /\ stack[u] # <<>> => t = u
OuterCallsWalk ==
  \A t \in Setters : \A i \in 1 .. Len(stack[t]) - 1 : stack[t][i].at \in {"event", "change"}
PinsDue ==
  /\ \A c \in ChannelNos :
       \/ relay[c] = (value[c] > 0)
       \/ \E t \in Setters : stack[t] # <<>> /\ Top(t).ch = c /\ Top(t).at \in {"read", "drive"}
  /\ \A t \in Setters : stack[t] # <<>> /\ Top(t).at \in {"read", "drive"} => Top(t).val = value[Top(t).ch]

\* Flash that is behind is saved by a call that is still to come back; what handlers
\* are due is what the calls owe them.
FlashDue ==
  \A c \in Remembered :
    \/ stored[c] = value[c]
    \/ \E t \in Setters : \E i \in DOMAIN stack[t] : stack[t][i].ch = c
DueIsOwed ==
  \A h \in DOMAIN Handlers :
    /\ Settled => due[h] = 0
    /\ \A t \in Setters : stack[t] # <<>> => due[h] = Owed(stack[t], h)

ChannelsInv ==
  CallsTyped /\ OneSetter /\ OuterCallsWalk /\ PinsDue /\ FlashDue /\ DueIsOwed

\* The calls of a thread as they begin, go on and come back.
LEMMA OwedIsFinite ==
  ASSUME NEW s \in Seq(Call), NEW h
  PROVE  IsFiniteSet(OwedSet(s, h)) /\ Owed(s, h) \in Nat
<1>1. IsFiniteSet(1 .. Len(s)) /\ OwedSet(s, h) \subseteq 1 .. Len(s)
  <2>1. Len(s) \in Nat /\ DOMAIN s = 1 .. Len(s)
    OBVIOUS
  <2> QED BY <2>1, FS_Interval DEF OwedSet
<1>2. IsFiniteSet(OwedSet(s, h))
  BY <1>1, FS_Subset
<1> QED BY <1>2, FS_CardinalityType DEF Owed

LEMMA OwedWithCall ==
  ASSUME NEW s \in Seq(Call), NEW f \in Call, NEW h
  PROVE  Append(s, f) \in Seq(Call) /\ Owed(Append(s, f), h) = Owed(s, h) + One(Owes(f, h))
<1>1. /\ Append(s, f) \in Seq(Call) /\ Len(Append(s, f)) = Len(s) + 1 /\ Append(s, f)[Len(s) + 1] = f
      /\ \A i \in 1 .. Len(s) : Append(s, f)[i] = s[i]
  BY AppendProperties
<1>2. /\ DOMAIN Append(s, f) = 1 .. Len(s) + 1 /\ DOMAIN s = 1 .. Len(s) /\ Len(s) \in Nat
      /\ Len(s) + 1 \notin OwedSet(s, h)
  BY <1>1 DEF OwedSet
<1>3. CASE Owes(f, h)
  <2>1. OwedSet(Append(s, f), h) = OwedSet(s, h) \cup {Len(s) + 1}
    BY <1>1, <1>2, <1>3 DEF OwedSet
  <2> QED BY <1>1, <1>2, <1>3, <2>1, OwedIsFinite, FS_AddElement DEF Owed, One
<1>4. CASE ~Owes(f, h)
  <2>1. OwedSet(Append(s, f), h) = OwedSet(s, h)
    BY <1>1, <1>2, <1>4 DEF OwedSet
  <2> QED BY <1>1, <1>4, <2>1, OwedIsFinite DEF Owed, One
<1> QED BY <1>3, <1>4

LEMMA OwedWithoutCall ==
  ASSUME NEW s \in Seq(Call), s # <<>>, NEW h
  PROVE  /\ SubSeq(s, 1, Len(s) - 1) \in Seq(Call) /\ Len(SubSeq(s, 1, Len(s) - 1)) = Len(s) - 1
         /\ \A i \in 1 .. Len(s) - 1 : SubSeq(s, 1, Len(s) - 1)[i] = s[i]
         /\ Owed(SubSeq(s, 1, Len(s) - 1), h) = Owed(s, h) - One(Owes(s[Len(s)], h))
<1> DEFINE r == SubSeq(s, 1, Len(s) - 1)
<1>1. Len(s) \in Nat \ {0} /\ DOMAIN s = 1 .. Len(s)
  BY EmptySeq
<1>2. r \in Seq(Call) /\ Len(r) = Len(s) - 1 /\ \A i \in 1 .. Len(s) - 1 : r[i] = s[i]
  BY <1>1
<1>3. s[Len(s)] \in Call
  BY <1>1, ElementOfSeq
<1> HIDE DEF r
<1>4. s = Append(r, s[Len(s)])
  <2>1. PICK f \in Call : f = s[Len(s)]
    BY <1>3
  <2>2. /\ Append(r, f) \in Seq(Call) /\ Len(Append(r, f)) = Len(s)
        /\ \A i \in 1 .. Len(s) - 1 : Append(r, f)[i] = r[i]
        /\ Append(r, f)[Len(s)] = f
    <3>1. /\ Append(r, f) \in Seq(Call) /\ Len(Append(r, f)) = Len(r) + 1
          /\ \A i \in 1 .. Len(r) : Append(r, f)[i] = r[i]
          /\ Append(r, f)[Len(r) + 1] = f
      BY <1>2, AppendProperties
    <3>2. Len(r) + 1 = Len(s) /\ 1 .. Len(r) = 1 .. Len(s) - 1
      BY <1>1, <1>2
    <3> QED BY <3>1, <3>2
  <2>3. \A i \in 1 .. Len(s) : Append(r, f)[i] = s[i]
    BY <1>1, <1>2, <2>1, <2>2
  <2>4. Append(r, f) = s
    BY <1>1, <2>2, <2>3, SeqEqual
  <2> QED BY <2>1, <2>4
<1>5. Owed(s, h) = Owed(r, h) + One(Owes(s[Len(s)], h)) /\ Owed(r, h) \in Nat
  <2>1. Owed(Append(r, s[Len(s)]), h) = Owed(r, h) + One(Owes(s[Len(s)], h))
    BY <1>2, <1>3, OwedWithCall
  <2>2. Owed(r, h) \in Nat
    BY <1>2, OwedIsFinite
  <2> QED BY <1>4, <2>1, <2>2
<1> QED BY <1>2, <1>5 DEF One, r

WithLast(s, f) == [s EXCEPT ![Len(s)] = f]

LEMMA OwedWithTop ==
  ASSUME NEW s \in Seq(Call), s # <<>>, NEW f \in Call
  PROVE  /\ WithLast(s, f) \in Seq(Call) /\ Len(WithLast(s, f)) = Len(s)
         /\ \A i \in 1 .. Len(s) : WithLast(s, f)[i] = IF i = Len(s) THEN f ELSE s[i]
         /\ \A h : Owed(WithLast(s, f), h) = Owed(s, h) - One(Owes(s[Len(s)], h)) + One(Owes(f, h))
<1> DEFINE r == SubSeq(s, 1, Len(s) - 1)
           q == WithLast(s, f)
<1>1. Len(s) \in Nat \ {0} /\ Len(s) \in 1 .. Len(s)
  BY EmptySeq
<1>2. /\ r \in Seq(Call) /\ Len(r) = Len(s) - 1 /\ \A i \in 1 .. Len(s) - 1 : r[i] = s[i]
      /\ \A h : Owed(r, h) = Owed(s, h) - One(Owes(s[Len(s)], h))
  BY OwedWithoutCall
<1>3. q \in Seq(Call) /\ Len(q) = Len(s) /\ \A i \in 1 .. Len(s) : q[i] = IF i = Len(s) THEN f ELSE s[i]
  BY <1>1, ExceptSeq DEF WithLast
<1> HIDE DEF r, q
<1>4. q = Append(r, f)
  <2>1. /\ Append(r, f) \in Seq(Call) /\ Len(Append(r, f)) = Len(s)
        /\ \A i \in 1 .. Len(s) - 1 : Append(r, f)[i] = r[i]
        /\ Append(r, f)[Len(s)] = f
    BY <1>1, <1>2, AppendProperties
  <2>2. \A i \in 1 .. Len(s) : Append(r, f)[i] = q[i]
    BY <1>1, <1>2, <1>3, <2>1
  <2> QED BY <1>1, <1>3, <2>1, <2>2, SeqEqual
<1>5. \A h : Owed(q, h) = Owed(r, h) + One(Owes(f, h))
  BY <1>2, <1>4, OwedWithCall
<1> QED BY <1>2, <1>3, <1>5 DEF q

LEMMA OwedKept ==
  ASSUME NEW s \in Seq(Call), s # <<>>, NEW f \in Call, NEW h, Owes(f, h) <=> Owes(s[Len(s)], h)
  PROVE  Owed(WithLast(s, f), h) = Owed(s, h)
<1>1. Owed(WithLast(s, f), h) = Owed(s, h) - One(Owes(s[Len(s)], h)) + One(Owes(f, h))
  BY OwedWithTop
<1>2. Owed(s, h) \in Nat
  BY OwedIsFinite
<1> QED BY <1>1, <1>2 DEF One

LEMMA OwedTold ==
  ASSUME NEW s \in Seq(Call), s # <<>>, NEW f \in Call, NEW h, Owes(s[Len(s)], h), ~Owes(f, h)
  PROVE  Owed(WithLast(s, f), h) = Owed(s, h) - 1
<1>1. Owed(WithLast(s, f), h) = Owed(s, h) - One(Owes(s[Len(s)], h)) + One(Owes(f, h))
  BY OwedWithTop, ZenonT(30)
<1>2. Owed(s, h) \in Nat
  BY OwedIsFinite
<1> QED BY <1>1, <1>2 DEF One

Commands == ChannelCmds \cup {Handlers[h].does : h \in DOMAIN Handlers}

\* A command leaves its channel in range.
LEMMA NewValueTyped ==
  ASSUME CallsTyped, NEW c \in Commands
  PROVE  c.ch \in ChannelNos /\ value[c.ch] \in 0..Highest /\ NewValue(c) \in 0..Highest
<1>1. /\ c.ch \in ChannelNos
      /\ \/ c.what = "toggle"
         \/ c.what \in {"set", "force"} /\ c.val \in 0..Highest
         \/ c.what \in {"clamp", "wrap"} /\ c.val \in Int /\ c.min \in 0..Highest /\ c.max \in 0..Highest
  BY DEF Commands
<1>2. value[c.ch] \in 0..Highest /\ MaxOf[c.ch] \in 0..Highest /\ 0 \in 0..Highest /\ Highest \in Nat
  BY <1>1 DEF CallsTyped
<1>3. CASE c.what = "toggle"
  BY <1>1, <1>2, <1>3 DEF NewValue
<1>4. CASE c.what \in {"set", "force"} /\ c.val \in 0..Highest
  BY <1>1, <1>2, <1>4 DEF NewValue
<1>5. CASE c.what \in {"clamp", "wrap"} /\ c.val \in Int /\ c.min \in 0..Highest /\ c.max \in 0..Highest
  <2>1. Clamped(value[c.ch] + c.val, c) \in 0..Highest /\ Wrapped(value[c.ch] + c.val, c) \in 0..Highest
    BY <1>2, <1>5 DEF Clamped, Wrapped
  <2>2. NewValue(c) = IF c.what = "clamp" THEN Clamped(value[c.ch] + c.val, c) ELSE Wrapped(value[c.ch] + c.val, c)
    BY <1>5 DEF NewValue
  <2> QED BY <1>1, <1>2, <2>1, <2>2
<1> QED BY <1>1, <1>3, <1>4, <1>5

\* What a thread in calls knows of the others, and of the pins.
LEMMA InCalls ==
  ASSUME ChannelsInv, NEW t \in Setters, stack[t] # <<>>
  PROVE  /\ Len(stack[t]) \in Nat \ {0} /\ stack[t] \in Seq(Call) /\ Top(t) \in Call
         /\ \A u \in Setters : u # t => stack[u] = <<>>
         /\ \A c \in ChannelNos : \/ relay[c] = (value[c] > 0)
                                  \/ Top(t).ch = c /\ Top(t).at \in {"read", "drive"}
         /\ \A c \in Remembered : \/ stored[c] = value[c]
                                  \/ \E i \in 1 .. Len(stack[t]) : stack[t][i].ch = c
         /\ \A h \in DOMAIN Handlers : due[h] = Owed(stack[t], h)
<1>1. stack[t] \in Seq(Call)
  BY DEF ChannelsInv, CallsTyped
<1>2. Len(stack[t]) \in Nat \ {0} /\ DOMAIN stack[t] = 1 .. Len(stack[t])
  BY <1>1, EmptySeq
<1>3. Top(t) \in Call
  BY <1>1, <1>2, ElementOfSeq DEF Top
<1>4. \A u \in Setters : u # t => stack[u] = <<>>
  BY DEF ChannelsInv, OneSetter
<1>5. \A c \in ChannelNos : relay[c] = (value[c] > 0) \/ (Top(t).ch = c /\ Top(t).at \in {"read", "drive"})
  BY <1>4 DEF ChannelsInv, PinsDue
<1>6. \A c \in Remembered : stored[c] = value[c] \/ \E i \in 1 .. Len(stack[t]) : stack[t][i].ch = c
  <2>1. \A u \in Setters : u # t => DOMAIN stack[u] = {}
    BY <1>4
  <2> QED BY <1>2, <2>1 DEF ChannelsInv, FlashDue
<1>7. \A h \in DOMAIN Handlers : due[h] = Owed(stack[t], h)
  BY DEF ChannelsInv, DueIsOwed
<1> QED BY <1>1, <1>2, <1>3, <1>4, <1>5, <1>6, <1>7

\* The invariant of a state in which thread t has the calls s, and no other has any.
LEMMA CallsOfOne ==
  ASSUME NEW t \in Setters, NEW s \in Seq(Call), CallsTyped', stack'[t] = s,
         \A u \in Setters : u # t => stack'[u] = <<>>,
         \A i \in 1 .. Len(s) - 1 : s[i].at \in {"event", "change"},
         \A c \in ChannelNos : \/ relay'[c] = (value'[c] > 0)
                               \/ s # <<>> /\ s[Len(s)].ch = c /\ s[Len(s)].at \in {"read", "drive"},
         s # <<>> /\ s[Len(s)].at \in {"read", "drive"} => s[Len(s)].val = value'[s[Len(s)].ch],
         \A c \in Remembered : stored'[c] = value'[c] \/ \E i \in 1 .. Len(s) : s[i].ch = c,
         \A h \in DOMAIN Handlers : due'[h] = Owed(s, h)
  PROVE  ChannelsInv'
<1>1. OneSetter'
  BY DEF OneSetter
<1>2. OuterCallsWalk'
  <2> SUFFICES ASSUME NEW u \in Setters, NEW i \in 1 .. Len(stack'[u]) - 1
               PROVE  stack'[u][i].at \in {"event", "change"}
    BY DEF OuterCallsWalk
  <2>1. u # t => Len(stack'[u]) = 0
    OBVIOUS
  <2> QED BY <2>1
<1>3. PinsDue'
  BY DEF PinsDue, Top
<1>4. FlashDue'
  <2>1. DOMAIN s = 1 .. Len(s)
    OBVIOUS
  <2> QED BY <2>1 DEF FlashDue
<1>5. DueIsOwed'
  <2> SUFFICES ASSUME NEW h \in DOMAIN Handlers
               PROVE  /\ Settled' => due'[h] = 0
                      /\ \A u \in Setters : stack'[u] # <<>> => due'[h] = Owed(stack'[u], h)
    BY DEF DueIsOwed, Owed, OwedSet
  <2>1. s = <<>> => Owed(s, h) = 0
    <3>1. s = <<>> => OwedSet(s, h) = {}
      BY DEF OwedSet
    <3> QED BY <3>1, FS_EmptySet DEF Owed
  <2> QED BY <2>1 DEF Settled
<1> QED BY <1>1, <1>2, <1>3, <1>4, <1>5 DEF ChannelsInv

\* The innermost call of a thread goes on.
LEMMA TopMoves ==
  ASSUME ChannelsInv, NEW t \in Setters, stack[t] # <<>>, NEW f \in Call, SetTop(t, f),
         UNCHANGED <<value, stored, cmds, due>>, relay' \in [ChannelNos -> BOOLEAN],
         f.ch = Top(t).ch,
         \A h \in DOMAIN Handlers : Owes(f, h) <=> Owes(Top(t), h),
         f.at \in {"read", "drive"} => f.val = value[f.ch],
         \A c \in ChannelNos : relay'[c] = (value[c] > 0) \/ (f.ch = c /\ f.at \in {"read", "drive"})
  PROVE  ChannelsInv'
<1> DEFINE s == WithLast(stack[t], f)
<1>1. /\ Len(stack[t]) \in Nat \ {0} /\ stack[t] \in Seq(Call) /\ Top(t) \in Call
      /\ \A u \in Setters : u # t => stack[u] = <<>>
      /\ \A c \in Remembered : \/ stored[c] = value[c]
                               \/ \E i \in 1 .. Len(stack[t]) : stack[t][i].ch = c
      /\ \A h \in DOMAIN Handlers : due[h] = Owed(stack[t], h)
  BY InCalls
<1>2. /\ s \in Seq(Call) /\ Len(s) = Len(stack[t])
      /\ \A i \in 1 .. Len(stack[t]) : s[i] = IF i = Len(stack[t]) THEN f ELSE stack[t][i]
      /\ \A h \in DOMAIN Handlers : Owed(s, h) = Owed(stack[t], h)
  <2>1. stack[t] \in Seq(Call) /\ stack[t] # <<>> /\ stack[t][Len(stack[t])] = Top(t)
    BY <1>1 DEF Top
  <2>2. /\ WithLast(stack[t], f) \in Seq(Call) /\ Len(WithLast(stack[t], f)) = Len(stack[t])
        /\ \A i \in 1 .. Len(stack[t]) : WithLast(stack[t], f)[i] = IF i = Len(stack[t]) THEN f ELSE stack[t][i]
    BY <2>1, OwedWithTop, ZenonT(30)
  <2>3. ASSUME NEW h \in DOMAIN Handlers PROVE Owed(WithLast(stack[t], f), h) = Owed(stack[t], h)
    <3>1. Owes(f, h) <=> Owes(stack[t][Len(stack[t])], h)
      BY <2>1
    <3> QED BY <2>1, <3>1, OwedKept
  <2> QED BY <2>2, <2>3
<1>3. stack' = [stack EXCEPT ![t] = s]
  BY DEF SetTop, WithTop, WithLast
<1> HIDE DEF s
<1>4. stack \in [Setters -> Seq(Call)]
  BY DEF ChannelsInv, CallsTyped
<1>5. CallsTyped' /\ stack'[t] = s /\ \A u \in Setters : u # t => stack'[u] = <<>>
  BY <1>1, <1>2, <1>3, <1>4 DEF ChannelsInv, CallsTyped
<1>6. \A i \in 1 .. Len(s) - 1 : s[i].at \in {"event", "change"}
  BY <1>1, <1>2, SMTT(30) DEF ChannelsInv, OuterCallsWalk
<1>7. s # <<>> /\ s[Len(s)] = f
  <2>1. Len(s) \in 1 .. Len(stack[t]) /\ Len(s) = Len(stack[t])
    BY <1>1, <1>2
  <2> QED BY <1>2, <2>1
<1>8. \A h \in DOMAIN Handlers : due'[h] = Owed(s, h)
  BY <1>1, <1>2
<1>9. \A c \in Remembered : stored'[c] = value'[c] \/ \E i \in 1 .. Len(s) : s[i].ch = c
  <2> SUFFICES ASSUME NEW c \in Remembered, NEW i \in 1 .. Len(stack[t]), stack[t][i].ch = c
               PROVE  s[i].ch = c
    BY <1>1, <1>2
  <2> QED BY <1>1, <1>2 DEF Top
<1>10. \A c \in ChannelNos : 
         relay'[c] = (value'[c] > 0) \/ (s # <<>> /\ s[Len(s)].ch = c /\ s[Len(s)].at \in {"read", "drive"})
  BY <1>7
<1>11. s # <<>> /\ s[Len(s)].at \in {"read", "drive"} => s[Len(s)].val = value'[s[Len(s)].ch]
  BY <1>7
<1> QED BY <1>2, <1>5, <1>6, <1>8, <1>9, <1>10, <1>11, CallsOfOne

\* A command is executed, with none or only walks around it.
LEMMA ExecuteKeeps ==
  ASSUME ChannelsInv, NEW t \in Setters, NEW calls \in Seq(Call), NEW c \in Commands,
         NEW tells \in [DOMAIN Handlers -> Int], Execute(t, calls, c, tells),
         UNCHANGED <<relay, stored>>, cmds' \in 0..MaxCmds,
         \A u \in Setters : u # t => stack[u] = <<>>,
         \A i \in 1 .. Len(calls) : calls[i].at \in {"event", "change"},
         \A ch \in ChannelNos : relay[ch] = (value[ch] > 0),
         \A ch \in Remembered : stored[ch] = value[ch] \/ \E i \in 1 .. Len(calls) : calls[i].ch = ch,
         \A h \in DOMAIN Handlers : due[h] - tells[h] = Owed(calls, h)
  PROVE  ChannelsInv'
<1>1. CallsTyped /\ Len(calls) \in Nat
  BY DEF ChannelsInv
<1>2. CASE Ignored(c)
  <2>1. /\ stack' = [stack EXCEPT ![t] = calls] /\ value' = value
        /\ due' = [h \in DOMAIN due |-> due[h] - tells[h]]
    BY <1>2 DEF Execute
  <2>2. CallsTyped' /\ stack'[t] = calls /\ \A u \in Setters : u # t => stack'[u] = <<>>
    BY <1>1, <2>1 DEF CallsTyped
  <2>3. \A h \in DOMAIN Handlers : due'[h] = Owed(calls, h)
    BY <1>1, <2>1 DEF CallsTyped
  <2>4. calls # <<>> => calls[Len(calls)].at \in {"event", "change"}
    BY EmptySeq
  <2>5. \A i \in 1 .. Len(calls) - 1 : calls[i].at \in {"event", "change"}
    BY <1>1
  <2> QED BY <2>1, <2>2, <2>3, <2>4, <2>5, CallsOfOne
<1>3. CASE ~Ignored(c)
  <2> DEFINE f == [ch |-> c.ch, prev |-> value[c.ch], val |-> NewValue(c), at |-> "read", pos |-> 0]
             s == Append(calls, f)
  <2>1. /\ value' = [value EXCEPT ![c.ch] = NewValue(c)] /\ stack' = [stack EXCEPT ![t] = s]
        /\ due' = [h \in DOMAIN due |-> due[h] - tells[h]
                     + IF FiresFor(Handlers[h], c.ch, value[c.ch], NewValue(c)) THEN 1 ELSE 0]
    BY <1>3 DEF Execute
  <2>2. c.ch \in ChannelNos /\ value[c.ch] \in 0..Highest /\ NewValue(c) \in 0..Highest
    BY <1>1, NewValueTyped
  <2>3. f \in Call
    <3>1. Len(Handlers) \in Nat /\ 0 \in 0..Len(Handlers)
      OBVIOUS
    <3> QED BY <2>2, <3>1 DEF Call
  <2>4. /\ \A h : Owed(s, h) = Owed(calls, h) + One(Owes(f, h))
        /\ s \in Seq(Call) /\ Len(s) = Len(calls) + 1 /\ s[Len(s)] = f /\ s # <<>>
        /\ \A i \in 1 .. Len(calls) : s[i] = calls[i]
    BY <2>3, OwedWithCall, AppendProperties
  <2>5. /\ f.at = "read" /\ f.ch = c.ch /\ f.val = NewValue(c)
        /\ \A h : Owes(f, h) <=> FiresFor(Handlers[h], c.ch, value[c.ch], NewValue(c))
    BY DEF Owes
  <2> HIDE DEF f, s
  <2>6. CallsTyped' /\ stack'[t] = s /\ \A u \in Setters : u # t => stack'[u] = <<>>
    <3>1. due' \in [DOMAIN Handlers -> Int]
      <4>1. due \in [DOMAIN Handlers -> Int]
        BY <1>1 DEF CallsTyped
      <4>2. \A h \in DOMAIN Handlers : due[h] - tells[h]
              + (IF FiresFor(Handlers[h], c.ch, value[c.ch], NewValue(c)) THEN 1 ELSE 0) \in Int
        BY <4>1, SMTT(30)
      <4> QED BY <2>1, <4>1, <4>2
    <3>2. value' \in [ChannelNos -> 0..Highest] /\ stack' \in [Setters -> Seq(Call)]
      BY <1>1, <2>1, <2>2, <2>4 DEF CallsTyped
    <3> QED BY <1>1, <2>1, <3>1, <3>2 DEF CallsTyped
  <2>7. \A h \in DOMAIN Handlers : due'[h] = Owed(s, h)
    <3> SUFFICES ASSUME NEW h \in DOMAIN Handlers PROVE due'[h] = Owed(s, h)
      OBVIOUS
    <3>1. due'[h] = due[h] - tells[h] + IF FiresFor(Handlers[h], c.ch, value[c.ch], NewValue(c)) THEN 1 ELSE 0
      BY <1>1, <2>1 DEF CallsTyped
    <3>2. Owed(s, h) = Owed(calls, h) + One(Owes(f, h))
      BY <2>4
    <3>3. One(Owes(f, h)) = IF FiresFor(Handlers[h], c.ch, value[c.ch], NewValue(c)) THEN 1 ELSE 0
      BY <2>5 DEF One
    <3> QED BY <3>1, <3>2, <3>3
  <2>8. \A i \in 1 .. Len(s) - 1 : s[i].at \in {"event", "change"}
    <3>1. Len(s) - 1 = Len(calls)
      BY <1>1, <2>4
    <3>2. \A i \in 1 .. Len(calls) : s[i] = calls[i] /\ calls[i].at \in {"event", "change"}
      BY <2>4
    <3> QED BY <3>1, <3>2
  <2>9. \A ch \in ChannelNos : value'[ch] = value[ch] \/ ch = f.ch
    BY <1>1, <2>1, <2>5 DEF CallsTyped
  <2>10. \A ch \in Remembered : stored'[ch] = value'[ch] \/ \E i \in 1 .. Len(s) : s[i].ch = ch
    <3> SUFFICES ASSUME NEW ch \in Remembered, stored'[ch] # value'[ch]
                 PROVE  \E i \in 1 .. Len(s) : s[i].ch = ch
      OBVIOUS
    <3>1. CASE ch = f.ch
      BY <1>1, <2>4, <3>1, SMTT(30)
    <3>2. CASE ch # f.ch
      <4>1. ch \in ChannelNos /\ stored[ch] # value[ch]
        BY <2>9, <3>2
      <4>2. PICK i \in 1 .. Len(calls) : calls[i].ch = ch
        BY <4>1
      <4>3. s[i] = calls[i] /\ i \in 1 .. Len(s)
        BY <1>1, <2>4
      <4> QED BY <4>2, <4>3
    <3> QED BY <3>1, <3>2
  <2>11. f.val = value'[f.ch]
    BY <1>1, <2>1, <2>2, <2>5 DEF CallsTyped
  <2>12. \A ch \in ChannelNos : relay'[ch] = (value'[ch] > 0) \/ (f.ch = ch /\ f.at \in {"read", "drive"})
    BY <2>5, <2>9
  <2>13. \A ch \in ChannelNos : 
         relay'[ch] = (value'[ch] > 0) \/ (s # <<>> /\ s[Len(s)].ch = ch /\ s[Len(s)].at \in {"read", "drive"})
    BY <2>4, <2>12
  <2>14. s # <<>> /\ s[Len(s)].at \in {"read", "drive"} => s[Len(s)].val = value'[s[Len(s)].ch]
    BY <2>4, <2>11
  <2> QED BY <2>4, <2>6, <2>7, <2>8, <2>10, <2>13, <2>14, CallsOfOne
<1> QED BY <1>2, <1>3

\* A call enters its next step, or goes on with its walk: what it owes stays.
LEMMA EntersNext ==
  ASSUME NEW f \in Call, f.at # "save", f.at \in {"event", "change"} => f.pos = 0
  PROVE  /\ Entered(f) \in Call /\ Entered(f).ch = f.ch /\ Entered(f).val = f.val
         /\ Entered(f).at = After(f.at)
         /\ \A h \in DOMAIN Handlers : Owes(Entered(f), h) <=> Owes(f, h)
<1>1. Len(Handlers) \in Nat /\ Len(Handlers) \in 0..Len(Handlers) /\ DOMAIN Handlers = 1..Len(Handlers)
  OBVIOUS
<1>2. f.at \in {"read", "drive", "event", "change"} /\ f.pos \in 0..Len(Handlers)
  BY DEF Call
<1>3. /\ f.at = "read" => After(f.at) = "drive"
      /\ f.at = "drive" => After(f.at) = "event"
      /\ f.at = "event" => After(f.at) = "change"
      /\ f.at = "change" => After(f.at) = "save"
  BY DEF After
<1>4. After(f.at) \in {"drive", "event", "change", "save"}
  BY <1>2, <1>3
<1>5. /\ Entered(f) \in Call /\ Entered(f).ch = f.ch /\ Entered(f).val = f.val /\ Entered(f).prev = f.prev
      /\ Entered(f).at = After(f.at) /\ Entered(f).pos = Len(Handlers)
  BY <1>1, <1>4 DEF Entered, Call
<1>6. ASSUME NEW h \in DOMAIN Handlers PROVE Owes(Entered(f), h) <=> Owes(f, h)
  <2>1. h \in Nat /\ h <= Len(Handlers) /\ ~(h <= 0)
    BY <1>1
  <2>2. (f.at \in {"read", "drive", "event"} \/ (f.at = "change" /\ h <= f.pos))
          <=> (After(f.at) \in {"read", "drive", "event"} \/ (After(f.at) = "change" /\ h <= Len(Handlers)))
    BY <1>2, <1>3, <2>1
  <2> QED BY <1>5, <2>2 DEF Owes
<1> QED BY <1>5, <1>6

LEMMA GoesOnWalking ==
  ASSUME NEW t \in Setters, Top(t) \in Call, Top(t).at \in {"event", "change"}, Top(t).pos # 0
  PROVE  /\ Called(t) \in Call /\ Called(t).ch = Top(t).ch /\ Called(t).at = Top(t).at
         /\ Top(t).pos \in DOMAIN Handlers
         /\ \A h \in DOMAIN Handlers :
              /\ Owes(Called(t), h) => Owes(Top(t), h)
              /\ Owes(Top(t), h) /\ ~Owes(Called(t), h) => Top(t).at = "change" /\ h = Top(t).pos
              /\ Top(t).at = "change" /\ h = Top(t).pos => ~Owes(Called(t), h)
<1>1. Len(Handlers) \in Nat /\ DOMAIN Handlers = 1..Len(Handlers)
  OBVIOUS
<1>2. Top(t).pos \in 0..Len(Handlers) /\ Top(t).pos - 1 \in 0..Len(Handlers)
  BY <1>1 DEF Call
<1>3. /\ Called(t) \in Call /\ Called(t).ch = Top(t).ch /\ Called(t).val = Top(t).val /\ Called(t).prev = Top(t).prev
      /\ Called(t).at = Top(t).at /\ Called(t).pos = Top(t).pos - 1
  BY <1>2 DEF Called, Call
<1>4. Top(t).pos \in DOMAIN Handlers
  BY <1>1, <1>2
<1>5. ASSUME NEW h \in DOMAIN Handlers
      PROVE  /\ h <= Top(t).pos - 1 => h <= Top(t).pos
             /\ h <= Top(t).pos /\ ~(h <= Top(t).pos - 1) => h = Top(t).pos
             /\ h = Top(t).pos => ~(h <= Top(t).pos - 1)
  BY <1>1, <1>2
<1>6. ASSUME NEW h \in DOMAIN Handlers
      PROVE  /\ Owes(Called(t), h) => Owes(Top(t), h)
             /\ Owes(Top(t), h) /\ ~Owes(Called(t), h) => Top(t).at = "change" /\ h = Top(t).pos
             /\ Top(t).at = "change" /\ h = Top(t).pos => ~Owes(Called(t), h)
  BY <1>3, <1>5 DEF Owes
<1> QED BY <1>3, <1>4, <1>6

\* A handler's command is executed from within the walk of the innermost call.
LEMMA HandlerExecutes ==
  ASSUME ChannelsInv, NEW t \in Setters, stack[t] # <<>>, Top(t).at \in {"event", "change"}, Top(t).pos # 0,
         NEW tells \in [DOMAIN Handlers -> Int],
         Execute(t, WithTop(t, Called(t)), Handlers[Top(t).pos].does, tells),
         UNCHANGED <<relay, stored, cmds>>,
         \A h \in DOMAIN Handlers :
           tells[h] = IF Owes(Top(t), h) /\ ~Owes(Called(t), h) THEN 1 ELSE 0
  PROVE  ChannelsInv'
<1>1. /\ Len(stack[t]) \in Nat \ {0} /\ stack[t] \in Seq(Call) /\ Top(t) \in Call
      /\ \A u \in Setters : u # t => stack[u] = <<>>
      /\ \A c \in ChannelNos : relay[c] = (value[c] > 0)
      /\ \A c \in Remembered : \/ stored[c] = value[c]
                               \/ \E i \in 1 .. Len(stack[t]) : stack[t][i].ch = c
      /\ \A h \in DOMAIN Handlers : due[h] = Owed(stack[t], h)
  BY InCalls
<1>2. /\ Called(t) \in Call /\ Called(t).ch = Top(t).ch /\ Called(t).at = Top(t).at /\ Top(t).pos \in DOMAIN Handlers
      /\ \A h \in DOMAIN Handlers : Owes(Called(t), h) => Owes(Top(t), h)
  BY <1>1, GoesOnWalking
<1> DEFINE s == WithTop(t, Called(t))
           c == Handlers[Top(t).pos].does
<1>3. s = WithLast(stack[t], Called(t)) /\ stack[t][Len(stack[t])] = Top(t)
  BY DEF WithTop, WithLast, Top
<1>4. c \in Commands
  BY <1>2 DEF Commands
<1> HIDE DEF s, c
<1>5. /\ s \in Seq(Call) /\ Len(s) = Len(stack[t])
      /\ \A i \in 1 .. Len(stack[t]) : s[i] = IF i = Len(stack[t]) THEN Called(t) ELSE stack[t][i]
  <2>1. stack[t] \in Seq(Call) /\ stack[t] # <<>> /\ Called(t) \in Call
    BY <1>1, <1>2
  <2>2. /\ WithLast(stack[t], Called(t)) \in Seq(Call) /\ Len(WithLast(stack[t], Called(t))) = Len(stack[t])
        /\ \A i \in 1 .. Len(stack[t]) :
             WithLast(stack[t], Called(t))[i] = IF i = Len(stack[t]) THEN Called(t) ELSE stack[t][i]
    BY <2>1, OwedWithTop
  <2> QED BY <1>3, <2>2
<1>6. \A h \in DOMAIN Handlers : due[h] - tells[h] = Owed(s, h)
  <2> SUFFICES ASSUME NEW h \in DOMAIN Handlers PROVE due[h] - tells[h] = Owed(s, h)
    OBVIOUS
  <2>1. due[h] = Owed(stack[t], h) /\ Owed(stack[t], h) \in Nat
    BY <1>1, OwedIsFinite
  <2>2. CASE Owes(Top(t), h) /\ ~Owes(Called(t), h)
    <3>1. Owed(s, h) = Owed(stack[t], h) - 1
      BY <1>1, <1>2, <1>3, <2>2, OwedTold
    <3> QED BY <2>1, <2>2, <3>1
  <2>3. CASE ~(Owes(Top(t), h) /\ ~Owes(Called(t), h))
    <3>1. Owes(Called(t), h) <=> Owes(Top(t), h)
      BY <1>2, <2>3
    <3>2. Owed(s, h) = Owed(stack[t], h)
      BY <1>1, <1>2, <1>3, <3>1, OwedKept
    <3>3. tells[h] = 0
      BY <2>3
    <3> QED BY <2>1, <3>2, <3>3
  <2> QED BY <2>2, <2>3
<1>7. \A i \in 1 .. Len(s) : s[i].at \in {"event", "change"}
  <2> SUFFICES ASSUME NEW i \in 1 .. Len(stack[t]) PROVE s[i].at \in {"event", "change"}
    BY <1>5
  <2>1. CASE i = Len(stack[t])
    BY <1>2, <1>5, <2>1
  <2>2. CASE i # Len(stack[t])
    <3>1. i \in 1 .. Len(stack[t]) - 1 /\ s[i] = stack[t][i]
      BY <1>1, <1>5, <2>2
    <3> QED BY <3>1 DEF ChannelsInv, OuterCallsWalk
  <2> QED BY <2>1, <2>2
<1>8. \A ch \in Remembered : stored[ch] = value[ch] \/ \E i \in 1 .. Len(s) : s[i].ch = ch
  <2> SUFFICES ASSUME NEW ch \in Remembered, NEW i \in 1 .. Len(stack[t]), stack[t][i].ch = ch
               PROVE  s[i].ch = ch
    BY <1>1, <1>5
  <2> QED BY <1>2, <1>3, <1>5
<1>9. cmds' \in 0..MaxCmds /\ Execute(t, s, c, tells)
  BY DEF s, c, ChannelsInv, CallsTyped
<1>10. \A u \in Setters : u # t => stack[u] = <<>>
  BY <1>1
<1>11. \A ch \in ChannelNos : relay[ch] = (value[ch] > 0)
  BY <1>1
<1>12. s \in Seq(Call) /\ UNCHANGED <<relay, stored>>
  BY <1>5
<1> QED BY <1>4, <1>6, <1>7, <1>8, <1>9, <1>10, <1>11, <1>12, ExecuteKeeps

LEMMA SetterStep ==
  ASSUME ChannelsInv, NEW t \in Setters, OnChanged(t)
  PROVE  ChannelsInv'
<1>1. stack[t] # <<>>
  BY DEF OnChanged, Read, Drive, FireEvent, ProcessVariableChange, Save, In
<1>2. /\ Len(stack[t]) \in Nat \ {0} /\ stack[t] \in Seq(Call) /\ Top(t) \in Call
      /\ \A u \in Setters : u # t => stack[u] = <<>>
      /\ \A c \in ChannelNos : \/ relay[c] = (value[c] > 0)
                               \/ Top(t).ch = c /\ Top(t).at \in {"read", "drive"}
      /\ \A c \in Remembered : \/ stored[c] = value[c]
                               \/ \E i \in 1 .. Len(stack[t]) : stack[t][i].ch = c
      /\ \A h \in DOMAIN Handlers : due[h] = Owed(stack[t], h)
  BY <1>1, InCalls
<1>3. /\ value \in [ChannelNos -> 0..Highest] /\ relay \in [ChannelNos -> BOOLEAN]
      /\ Top(t).at \in {"read", "drive"} => Top(t).val = value[Top(t).ch]
      /\ Top(t).ch \in ChannelNos /\ Top(t).pos \in 0..Len(Handlers) /\ Top(t).val \in 0..Highest
  BY <1>1, <1>2 DEF ChannelsInv, CallsTyped, PinsDue, Call
<1>4. CASE Read(t)
  <2>1. Top(t).at = "read" /\ UNCHANGED <<value, relay, stored, cmds, due>>
    BY <1>4 DEF Read, In
  <2>2. [Top(t) EXCEPT !.val = value[Top(t).ch]] = Top(t)
    BY <1>2, <1>3, <2>1 DEF Call
  <2>3. SetTop(t, Entered(Top(t)))
    BY <1>4, <2>2 DEF Read
  <2>4. /\ Entered(Top(t)) \in Call /\ Entered(Top(t)).ch = Top(t).ch /\ Entered(Top(t)).val = Top(t).val
        /\ Entered(Top(t)).at = "drive"
        /\ \A h \in DOMAIN Handlers : Owes(Entered(Top(t)), h) <=> Owes(Top(t), h)
    BY <1>2, <2>1, EntersNext DEF After
  <2> QED BY <1>1, <1>2, <1>3, <2>1, <2>3, <2>4, TopMoves
<1>5. CASE Drive(t)
  <2>1. /\ Top(t).at = "drive" /\ relay' = [relay EXCEPT ![Top(t).ch] = Top(t).val > 0]
        /\ SetTop(t, Entered(Top(t))) /\ UNCHANGED <<value, stored, cmds, due>>
    BY <1>5 DEF Drive, In
  <2>2. /\ Entered(Top(t)) \in Call /\ Entered(Top(t)).ch = Top(t).ch
        /\ Entered(Top(t)).at = "event"
        /\ \A h \in DOMAIN Handlers : Owes(Entered(Top(t)), h) <=> Owes(Top(t), h)
    BY <1>2, <2>1, EntersNext DEF After
  <2>3. relay' \in [ChannelNos -> BOOLEAN] /\ \A c \in ChannelNos : relay'[c] = (value[c] > 0)
    <3>1. relay'[Top(t).ch] = (value[Top(t).ch] > 0)
      BY <1>3, <2>1
    <3>2. \A c \in ChannelNos : c # Top(t).ch => relay'[c] = relay[c]
      BY <1>3, <2>1
    <3> QED BY <1>2, <1>3, <2>1, <3>1, <3>2
  <2> QED BY <1>1, <1>2, <2>1, <2>2, <2>3, TopMoves
<1>6. ASSUME Top(t).at \in {"event", "change"}, Top(t).pos = 0, SetTop(t, Entered(Top(t))),
             UNCHANGED <<value, relay, stored, cmds, due>>
      PROVE  ChannelsInv'
  <2>1. /\ Entered(Top(t)) \in Call /\ Entered(Top(t)).ch = Top(t).ch
        /\ Entered(Top(t)).at = After(Top(t).at)
        /\ \A h \in DOMAIN Handlers : Owes(Entered(Top(t)), h) <=> Owes(Top(t), h)
    BY <1>2, <1>6, EntersNext
  <2>2. Entered(Top(t)).at \in {"change", "save"}
    BY <1>6, <2>1 DEF After
  <2> QED BY <1>1, <1>2, <1>3, <1>6, <2>1, <2>2, TopMoves
<1>7. ASSUME Top(t).at \in {"event", "change"}, Top(t).pos # 0, SetTop(t, Called(t)),
             UNCHANGED <<value, relay, stored, cmds, due>>,
             Top(t).at = "change" => ~Owes(Top(t), Top(t).pos)
      PROVE  ChannelsInv'
  <2>1. /\ Called(t) \in Call /\ Called(t).ch = Top(t).ch /\ Called(t).at = Top(t).at
        /\ \A h \in DOMAIN Handlers :
             /\ Owes(Called(t), h) => Owes(Top(t), h)
             /\ Owes(Top(t), h) /\ ~Owes(Called(t), h) => Top(t).at = "change" /\ h = Top(t).pos
    BY <1>2, <1>7, GoesOnWalking
  <2>2. \A h \in DOMAIN Handlers : Owes(Called(t), h) <=> Owes(Top(t), h)
    BY <1>7, <2>1
  <2> QED BY <1>1, <1>2, <1>3, <1>7, <2>1, <2>2, TopMoves
<1>8. CASE FireEvent(t)
  <2>1. Top(t).at = "event" /\ UNCHANGED <<relay, stored, cmds>>
    BY <1>8 DEF FireEvent, In
  <2>2. CASE Top(t).pos = 0
    BY <1>6, <1>8, <2>1, <2>2 DEF FireEvent, EventsDone
  <2>3. CASE Top(t).pos # 0 /\ ~Fires(Handlers[Top(t).pos], Top(t).ch)
    BY <1>7, <1>8, <2>1, <2>3 DEF FireEvent
  <2>4. CASE Top(t).pos # 0 /\ Fires(Handlers[Top(t).pos], Top(t).ch)
    <3>1. Execute(t, WithTop(t, Called(t)), Handlers[Top(t).pos].does, NoneDue)
      BY <1>8, <2>4 DEF FireEvent
    <3>2. NoneDue \in [DOMAIN Handlers -> Int] /\ \A h \in DOMAIN Handlers : NoneDue[h] = 0
      BY DEF NoneDue
    <3>3. \A h \in DOMAIN Handlers : ~(Owes(Top(t), h) /\ ~Owes(Called(t), h))
      BY <1>2, <2>1, <2>4, GoesOnWalking
    <3>4. \A h \in DOMAIN Handlers : NoneDue[h] = IF Owes(Top(t), h) /\ ~Owes(Called(t), h) THEN 1 ELSE 0
      BY <3>2, <3>3
    <3> QED BY <1>1, <2>1, <2>4, <3>1, <3>2, <3>4, HandlerExecutes
  <2> QED BY <2>2, <2>3, <2>4
<1>9. CASE ProcessVariableChange(t)
  <2> DEFINE h0 == Top(t).pos
  <2>1. Top(t).at = "change" /\ UNCHANGED <<relay, stored, cmds>>
    BY <1>9 DEF ProcessVariableChange, In
  <2>2. CASE h0 = 0
    BY <1>6, <1>9, <2>1, <2>2 DEF ProcessVariableChange
  <2>3. CASE h0 # 0 /\ ~FiresFor(Handlers[h0], Top(t).ch, Top(t).prev, Top(t).val)
    <3>1. ~Owes(Top(t), Top(t).pos)
      BY <2>3 DEF Owes
    <3> QED BY <1>7, <1>9, <2>1, <2>3, <3>1 DEF ProcessVariableChange
  <2>4. CASE h0 # 0 /\ FiresFor(Handlers[h0], Top(t).ch, Top(t).prev, Top(t).val)
    <3> DEFINE tells == [NoneDue EXCEPT ![h0] = 1]
    <3>1. Execute(t, WithTop(t, Called(t)), Handlers[h0].does, tells)
      BY <1>9, <2>4 DEF ProcessVariableChange
    <3>2. /\ h0 \in DOMAIN Handlers
          /\ \A h \in DOMAIN Handlers :
               /\ Owes(Top(t), h) /\ ~Owes(Called(t), h) => h = h0
               /\ h = h0 => ~Owes(Called(t), h)
      BY <1>2, <2>1, <2>4, GoesOnWalking
    <3>3. Owes(Top(t), h0)
      BY <1>2, <1>3, <2>1, <2>4 DEF Owes
    <3>4. tells \in [DOMAIN Handlers -> Int] /\ \A h \in DOMAIN Handlers : tells[h] = IF h = h0 THEN 1 ELSE 0
      BY <3>2 DEF NoneDue
    <3>5. \A h \in DOMAIN Handlers : tells[h] = IF Owes(Top(t), h) /\ ~Owes(Called(t), h) THEN 1 ELSE 0
      BY <3>2, <3>3, <3>4
    <3> HIDE DEF tells
    <3> QED BY <1>1, <2>1, <2>4, <3>1, <3>4, <3>5, HandlerExecutes
  <2> QED BY <2>2, <2>3, <2>4
<1>10. CASE Save(t)
  <2> DEFINE s == SubSeq(stack[t], 1, Len(stack[t]) - 1)
  <2>1. /\ Top(t).at = "save" /\ UNCHANGED <<value, relay, cmds, due>>
        /\ stack' = [stack EXCEPT ![t] = s]
        /\ stored' = IF Top(t).ch \in Remembered THEN [stored EXCEPT ![Top(t).ch] = value[Top(t).ch]] ELSE stored
    BY <1>10 DEF Save, In, Saved
  <2>2. /\ s \in Seq(Call) /\ Len(s) = Len(stack[t]) - 1
        /\ \A i \in 1 .. Len(stack[t]) - 1 : s[i] = stack[t][i]
    BY <1>1, <1>2, OwedWithoutCall
  <2>3. \A h \in DOMAIN Handlers : due'[h] = Owed(s, h)
    <3> SUFFICES ASSUME NEW h \in DOMAIN Handlers PROVE due[h] = Owed(s, h)
      BY <2>1
    <3>1. Owed(s, h) = Owed(stack[t], h) - One(Owes(stack[t][Len(stack[t])], h)) /\ Owed(stack[t], h) \in Nat
      BY <1>1, <1>2, OwedWithoutCall, OwedIsFinite
    <3>2. One(Owes(stack[t][Len(stack[t])], h)) = 0
      BY <2>1 DEF Owes, One, Top
    <3>3. due[h] = Owed(stack[t], h)
      BY <1>2
    <3> HIDE DEF s
    <3> QED BY <3>1, <3>2, <3>3
  <2> HIDE DEF s
  <2>4. CallsTyped' /\ stack'[t] = s /\ \A u \in Setters : u # t => stack'[u] = <<>>
    <3>1. stored \in [ChannelNos -> 0..Highest] /\ stack \in [Setters -> Seq(Call)]
      BY DEF ChannelsInv, CallsTyped
    <3>2. stored' \in [ChannelNos -> 0..Highest]
      BY <1>3, <2>1, <3>1
    <3> QED BY <1>2, <2>1, <2>2, <3>1, <3>2 DEF ChannelsInv, CallsTyped
  <2>5. \A i \in 1 .. Len(s) : s[i].at \in {"event", "change"}
    BY <1>2, <2>2 DEF ChannelsInv, OuterCallsWalk
  <2>6. \A c \in Remembered : stored'[c] = value'[c] \/ \E i \in 1 .. Len(s) : s[i].ch = c
    <3> SUFFICES ASSUME NEW c \in Remembered, stored'[c] # value'[c] PROVE \E i \in 1 .. Len(s) : s[i].ch = c
      OBVIOUS
    <3>1. stored \in [ChannelNos -> 0..Highest] /\ c \in ChannelNos
      BY DEF ChannelsInv, CallsTyped
    <3>2. c # Top(t).ch
      BY <2>1, <3>1
    <3>3. stored[c] # value[c]
      BY <2>1, <3>1, <3>2
    <3>4. PICK i \in 1 .. Len(stack[t]) : stack[t][i].ch = c
      BY <1>2, <3>3
    <3>5. i # Len(stack[t])
      BY <3>2, <3>4 DEF Top
    <3>6. i \in 1 .. Len(s) /\ s[i].ch = c
      BY <1>2, <2>2, <3>4, <3>5
    <3> QED BY <3>6
  <2>7. s # <<>> => s[Len(s)].at \in {"event", "change"}
    BY <2>2, <2>5, EmptySeq
  <2>8. \A c \in ChannelNos : relay'[c] = (value'[c] > 0)
    BY <1>2, <2>1
  <2>9. \A i \in 1 .. Len(s) - 1 : s[i].at \in {"event", "change"}
    BY <2>2, <2>5
  <2> QED BY <2>2, <2>3, <2>4, <2>6, <2>7, <2>8, <2>9, CallsOfOne
<1> QED BY <1>4, <1>5, <1>8, <1>9, <1>10 DEF OnChanged

\* A command comes from elsewhere when no thread is in calls.
LEMMA BeginStep ==
  ASSUME ~Overlap, ChannelsInv, NEW t \in Setters, NEW c \in ChannelCmds, Begin(t, c)
  PROVE  ChannelsInv'
<1> DEFINE none == <<>>
<1>1. /\ Settled /\ cmds > 0 /\ cmds' = cmds - 1
      /\ Execute(t, none, c, NoneDue) /\ UNCHANGED <<relay, stored>>
  BY DEF Begin
<1>2. \A u \in Setters : stack[u] = <<>>
  BY <1>1 DEF Settled
<1>3. cmds' \in 0..MaxCmds
  BY <1>1 DEF ChannelsInv, CallsTyped
<1>4. c \in Commands
  BY DEF Commands
<1>5. NoneDue \in [DOMAIN Handlers -> Int] /\ \A h \in DOMAIN Handlers : NoneDue[h] = 0
  BY DEF NoneDue
<1>6. none \in Seq(Call) /\ 1 .. Len(none) = {}
  OBVIOUS
<1>7. \A h \in DOMAIN Handlers : due[h] - NoneDue[h] = Owed(none, h)
  <2> SUFFICES ASSUME NEW h \in DOMAIN Handlers PROVE due[h] - NoneDue[h] = Owed(none, h)
    OBVIOUS
  <2>1. due[h] = 0
    BY <1>1 DEF ChannelsInv, DueIsOwed
  <2>2. OwedSet(none, h) = {}
    BY DEF OwedSet
  <2>3. Owed(none, h) = 0
    BY <2>2, FS_EmptySet DEF Owed
  <2> QED BY <1>5, <2>1, <2>3
<1>8. \A ch \in ChannelNos : relay[ch] = (value[ch] > 0)
  BY <1>2 DEF ChannelsInv, PinsDue
<1>9. \A ch \in Remembered : stored[ch] = value[ch]
  BY <1>2 DEF ChannelsInv, FlashDue
<1> HIDE DEF none
<1>10. \A ch \in Remembered : stored[ch] = value[ch] \/ \E i \in 1 .. Len(none) : none[i].ch = ch
  BY <1>9
<1>11. \A i \in 1 .. Len(none) : none[i].at \in {"event", "change"}
  BY <1>6
<1>12. (\A u \in Setters : u # t => stack[u] = <<>>) /\ none \in Seq(Call)
  BY <1>2, <1>6
<1>13. NoneDue \in [DOMAIN Handlers -> Int] /\ Execute(t, none, c, NoneDue) /\ UNCHANGED <<relay, stored>>
  BY <1>1, <1>5
<1> QED BY <1>3, <1>4, <1>7, <1>8, <1>10, <1>11, <1>12, <1>13, ExecuteKeeps

LEMMA ChannelsStart == ChannelsInit => ChannelsInv
<1> SUFFICES ASSUME ChannelsInit PROVE ChannelsInv
  OBVIOUS
<1>1. /\ value = [c \in ChannelNos |-> 0] /\ relay = [c \in ChannelNos |-> FALSE]
      /\ stored = [c \in ChannelNos |-> 0] /\ stack = [t \in Setters |-> <<>>]
      /\ cmds = MaxCmds /\ due = [h \in DOMAIN Handlers |-> 0]
  BY DEF ChannelsInit
<1>2. CallsTyped
  BY <1>1 DEF CallsTyped
<1>3. OneSetter /\ FlashDue /\ DueIsOwed
  BY <1>1 DEF OneSetter, FlashDue, DueIsOwed
<1>4. \A t \in Setters : stack[t] = <<>> /\ Len(stack[t]) = 0
  BY <1>1
<1>5. OuterCallsWalk
  BY <1>4 DEF OuterCallsWalk
<1>6. PinsDue
  <2>1. \A c \in ChannelNos : relay[c] = (value[c] > 0)
    <3> TAKE c \in ChannelNos
    <3>1. relay[c] = FALSE /\ value[c] = 0
      BY <1>1
    <3>2. (0 > 0) = FALSE
      BY SMT
    <3> QED BY <3>1, <3>2, Zenon
  <2> QED BY <1>4, <2>1 DEF PinsDue
<1> QED BY <1>2, <1>3, <1>5, <1>6 DEF ChannelsInv

LEMMA ChannelsStep ==
  ASSUME ~Overlap, ChannelsInv, [ChannelsNext]_channelVars
  PROVE  ChannelsInv'
<1>1. CASE ChannelsNext
  BY <1>1, SetterStep, BeginStep DEF ChannelsNext
<1>2. CASE UNCHANGED channelVars
  <2>1. UNCHANGED <<value, relay, stored, stack, cmds, due>>
    BY <1>2 DEF channelVars
  <2>2. CallsTyped' /\ OneSetter' /\ OuterCallsWalk' /\ PinsDue' /\ FlashDue'
    BY <2>1 DEF ChannelsInv, CallsTyped, OneSetter, OuterCallsWalk, PinsDue, FlashDue, Top
  <2>3. DueIsOwed'
    BY <2>1 DEF ChannelsInv, DueIsOwed, Owed, OwedSet, Owes, Settled, FiresFor, Becomes, Holds
  <2> QED BY <2>2, <2>3 DEF ChannelsInv
<1> QED BY <1>1, <1>2

LEMMA ChannelsInvAlways == ASSUME ~Overlap PROVE ChannelsSpec => []ChannelsInv
BY ChannelsStart, ChannelsStep, PTL DEF ChannelsSpec

\* One thread at a time (~Overlap), for any handlers of any changes: values, pins, flash
\* and calls keep their types, however deep the handlers' changes nest.
THEOREM ChannelsTyped == ASSUME ~Overlap PROVE ChannelsSpec => []ChannelsTypeOK
<1>1. ChannelsInv => ChannelsTypeOK
  <2> SUFFICES ASSUME ChannelsInv, NEW t \in Setters, NEW i \in DOMAIN stack[t] PROVE stack[t][i] \in Call
    BY DEF ChannelsInv, CallsTyped, ChannelsTypeOK, Call
  <2>1. stack[t] \in Seq(Call)
    BY DEF ChannelsInv, CallsTyped
  <2> QED BY <2>1, ElementOfSeq
<1> QED BY <1>1, ChannelsInvAlways, PTL

\* One thread at a time, for any handlers: once no change is being carried out, the
\* pins are as the values say, the flash has the values, and every handler has been
\* told of each change it waits for exactly once (Channel_OnChanged).
THEOREM ChangesAreCarriedOut == ASSUME ~Overlap PROVE ChannelsSpec => []ChangesCarriedOut
<1>1. ChannelsInv => ChangesCarriedOut
  <2> SUFFICES ASSUME ChannelsInv, Settled
               PROVE  /\ \A c \in ChannelNos : relay[c] = (value[c] > 0)
                      /\ \A c \in Remembered : stored[c] = value[c]
                      /\ due = NoneDue
    BY DEF ChangesCarriedOut, RelayFollows, FlashRemembers, ToldOfEveryChange
  <2>1. \A t \in Setters : stack[t] = <<>>
    BY DEF Settled
  <2>2. \A c \in ChannelNos : relay[c] = (value[c] > 0)
    BY <2>1 DEF ChannelsInv, PinsDue
  <2>3. \A c \in Remembered : stored[c] = value[c]
    BY <2>1 DEF ChannelsInv, FlashDue
  <2>4. due = NoneDue
    BY DEF ChannelsInv, CallsTyped, DueIsOwed, NoneDue
  <2> QED BY <2>2, <2>3, <2>4
<1> QED BY <1>1, ChannelsInvAlways, PTL
=============================================================================
