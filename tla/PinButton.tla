----------------------------- MODULE PinButton -----------------------------
(***************************************************************************)
(* One button: PIN_Input_Handler of src/src/new_pins.c, called with the    *)
(* time that went by since it was last called, against a finger whose      *)
(* contact may bounce.  Times are counted in scans.                        *)
(***************************************************************************)
EXTENDS Integers

CONSTANTS
  Debounce,    \* BTN_DEBOUNCE_MS
  Short,       \* BTN_SHORT_MS
  Long,        \* BTN_LONG_MS
  HoldRepeat,  \* BTN_HOLD_REPEAT_MS
  TickWidth,   \* values of the 16-bit ticks
  RepeatWidth, \* values of the 4-bit repeat
  Lates,       \* the times that may lie between two scans
  MaxLevels    \* bound: changes of the contact

ASSUME ButtonAssumption ==
  /\ Debounce \in Nat \ {0} /\ Short \in Nat /\ Long \in Nat /\ HoldRepeat \in Nat
  /\ TickWidth \in Nat \ {0} /\ RepeatWidth \in Nat \ (0..5) /\ MaxLevels \in Nat
  /\ Lates \subseteq Nat \ {0} /\ \A dt \in Lates : Long + dt < TickWidth

VARIABLES
  contact,   \* environment: the pin reads as pressed
  changes,   \* bound: changes of the contact that are left
  level,     \* button_level is the active level
  debounced, \* debounce_cnt
  state,     \* state: 0, 1, 2, 3 or 5
  ticks,     \* ticks
  repeat,    \* repeat
  holdTicks, \* holdRepeatTicks
  told,      \* what the last scan reported, and how often for a click
  presses,   \* observer: presses of this gesture
  outcomes,  \* observer: clicks and starts of holds reported of this gesture
  differs    \* observer: for how long every scan has found the contact not as level says

buttonVars ==
  <<contact, changes, level, debounced, state, ticks, repeat, holdTicks, told,
    presses, outcomes, differs>>

Nothing == [what |-> "nothing", times |-> 0]
Told(w) == told' = [what |-> w, times |-> 0]
ToldNothing == told' = Nothing

ButtonInit ==
  /\ contact = FALSE /\ changes = MaxLevels /\ level = FALSE /\ debounced = 0
  /\ state = 0 /\ ticks = 0 /\ repeat = 0 /\ holdTicks = 0 /\ told = Nothing
  /\ presses = 0 /\ outcomes = 0 /\ differs = 0

-----------------------------------------------------------------------------
(* The finger, and the bouncing of its contact *)

Change(to) ==
  /\ contact # to /\ contact' = to
  /\ changes' = changes - 1
  /\ UNCHANGED <<level, debounced, state, ticks, repeat, holdTicks, told, presses, outcomes,
                 differs>>
Touch == changes > 1 /\ Change(TRUE)
Lift == Change(FALSE)

-----------------------------------------------------------------------------
(* PIN_Input_Handler *)

DebounceStep(dt) ==
  /\ level' = IF contact # level /\ debounced + dt >= Debounce THEN contact ELSE level
  /\ debounced' = IF contact = level \/ level' # level THEN 0 ELSE debounced + dt

\* The ticks run in every state but that of rest.
Ticks(dt) == IF state > 0 THEN (ticks + dt) % TickWidth ELSE ticks
Goes(to) == state' = to
CountsOn(n) == repeat' = (repeat + 1) % RepeatWidth
Counts(n) == repeat' = n % RepeatWidth

Idle(dt) ==
  /\ state = 0
  /\ IF level'
     THEN /\ Told("press") /\ ticks' = 0 /\ Counts(1) /\ Goes(1)
          /\ presses' = 1 /\ outcomes' = 0
     ELSE ToldNothing /\ ticks' = Ticks(dt) /\ UNCHANGED <<repeat, state, presses, outcomes>>
  /\ UNCHANGED holdTicks

FirstPress(dt) ==
  /\ state = 1
  /\ IF ~level'
     THEN Told("release") /\ ticks' = 0 /\ Goes(2) /\ UNCHANGED outcomes
     ELSE /\ ticks' = Ticks(dt)
          /\ IF Ticks(dt) > Long
             THEN Told("holdStart") /\ Goes(5) /\ outcomes' = outcomes + 1
             ELSE ToldNothing /\ UNCHANGED <<state, outcomes>>
  /\ UNCHANGED <<repeat, holdTicks, presses>>

\* A click of repeat presses is reported when no other press followed in time.
ClickAfter(t) == t > Short
Released(dt) ==
  /\ state = 2
  /\ IF level'
     THEN /\ ToldNothing /\ ticks' = 0 /\ Counts(repeat + 1) /\ Goes(3)
          /\ presses' = presses + 1 /\ UNCHANGED outcomes
     ELSE /\ ticks' = Ticks(dt) /\ UNCHANGED <<repeat, presses>>
          /\ IF ClickAfter(Ticks(dt))
             THEN /\ Goes(0)
                  /\ IF repeat \in 1..5
                     THEN told' = [what |-> "click", times |-> repeat] /\ outcomes' = outcomes + 1
                     ELSE ToldNothing /\ UNCHANGED outcomes
             ELSE ToldNothing /\ UNCHANGED <<state, outcomes>>
  /\ UNCHANGED holdTicks

QuickIfLong(t) == t > Short
Quick(t) == t < Short
PressedAgain(dt) ==
  /\ state = 3
  /\ IF ~level'
     THEN /\ Told("release")
          /\ IF Quick(Ticks(dt)) THEN ticks' = 0 /\ Goes(2) ELSE ticks' = Ticks(dt) /\ Goes(0)
     ELSE ToldNothing /\ ticks' = Ticks(dt) /\ UNCHANGED state
  /\ UNCHANGED <<repeat, holdTicks, presses, outcomes>>

HoldOver(t) == t > HoldRepeat
Held(dt) ==
  /\ state = 5
  /\ IF ~level' THEN Told("release") /\ Goes(0) /\ UNCHANGED holdTicks
     ELSE /\ UNCHANGED state
          /\ IF HoldOver(holdTicks + dt) THEN Told("hold") /\ holdTicks' = 0
             ELSE ToldNothing /\ holdTicks' = holdTicks + dt
  /\ ticks' = Ticks(dt)
  /\ UNCHANGED <<repeat, presses, outcomes>>

InputHandler(dt) ==
  /\ DebounceStep(dt)
  /\ Idle(dt) \/ FirstPress(dt) \/ Released(dt) \/ PressedAgain(dt) \/ Held(dt)
  /\ differs' = IF contact = level \/ level' # level THEN 0 ELSE differs + dt
  /\ UNCHANGED <<contact, changes>>

ButtonNext == Touch \/ Lift \/ \E dt \in Lates : InputHandler(dt)

\* The pins are scanned for ever, and a finger does not stay for ever.
ButtonFairness ==
  WF_buttonVars(\E dt \in Lates : InputHandler(dt)) /\ WF_buttonVars(Lift)

ButtonSpec == ButtonInit /\ [][ButtonNext]_buttonVars /\ ButtonFairness

-----------------------------------------------------------------------------
ButtonTypeOK ==
  /\ contact \in BOOLEAN /\ level \in BOOLEAN /\ changes \in 0..MaxLevels
  /\ debounced \in 0..Debounce - 1 /\ state \in {0, 1, 2, 3, 5}
  /\ ticks \in 0..TickWidth - 1 /\ repeat \in 0..RepeatWidth - 1
  /\ holdTicks \in 0..HoldRepeat

\* A click is reported of as many presses as there were since the button was
\* last at rest, and of a gesture no more than one thing is: a click of some
\* kind, or that it is held. (PIN_Input_Handler, to the width of repeat)
ClickCountRight ==
  /\ told.what = "click" => told.times = presses
  /\ outcomes <= 1

\* Contact bounce is no press and no release: the level changes only when the
\* scans found the pin different for BTN_DEBOUNCE_MS without interruption.
BouncesIgnored ==
  [][\A dt \in Lates : InputHandler(dt) /\ level' # level => differs + dt >= Debounce]_buttonVars

\* No gesture is swallowed but one with a repeated press that was long, or with
\* more than five presses: when the button comes to rest it has been reported.
GestureTold ==
  [][state # 0 /\ state' = 0 =>
       \/ outcomes' = 1 \/ presses > 5
       \/ state = 3 /\ \E dt \in Lates : InputHandler(dt) /\ ticks + dt >= Short]_buttonVars

\* The state machine comes to rest whenever the finger does.
ButtonRests == state # 0 ~> state = 0

\* What a finger does is told: bounces are nothing, and gestures are not swallowed.
\* (PIN_Input_Handler)
ButtonFaithful == BouncesIgnored /\ GestureTold
=============================================================================
