------------------------------ MODULE Channels ------------------------------
(***************************************************************************)
(* The channels of src/src/new_pins.c and the handlers of their changes in *)
(* src/src/cmnds/cmd_eventHandlers.c.  A command that sets a channel calls *)
(* Channel_OnChanged, which runs the handlers of the change, whose         *)
(* commands may set channels in turn: a stack of changes per thread.       *)
(***************************************************************************)
EXTENDS Integers, Sequences

CONSTANTS
  ChannelNos,   \* channels
  Highest,      \* the values of a channel are 0..Highest
  MaxOf,        \* CHANNEL_FindMaxValueForChannel
  Remembered,   \* channels whose start value is -1
  Handlers,     \* g_eventHandlers, its head last
  ChannelCmds,  \* commands that come from elsewhere
  Setters,      \* threads that execute commands
  Overlap,      \* whether a thread may execute one while another does
  MaxCmds       \* bound: commands that come from elsewhere

ASSUME ChannelsAssumption ==
  /\ Highest \in Nat /\ MaxOf \in [ChannelNos -> 0..Highest] /\ Remembered \subseteq ChannelNos
  /\ Overlap \in BOOLEAN /\ MaxCmds \in Nat
  /\ Handlers \in Seq({Handlers[h] : h \in DOMAIN Handlers})
  /\ \A c \in ChannelCmds \cup {Handlers[h].does : h \in DOMAIN Handlers} :
       /\ c.ch \in ChannelNos
       /\ \/ c.what = "toggle"
          \/ c.what \in {"set", "force"} /\ c.val \in 0..Highest
          \/ c.what \in {"clamp", "wrap"} /\ c.val \in Int /\ {c.min, c.max} \subseteq 0..Highest

VARIABLES
  value,   \* g_channelValues
  relay,   \* environment: what the pins of a channel were last set to
  stored,  \* flash variables of channels
  stack,   \* per thread, the calls of Channel_OnChanged it is in, the innermost last
  cmds,    \* bound: commands that are left
  due      \* observer: per handler, changes it has to be told of

channelVars == <<value, relay, stored, stack, cmds, due>>

Settled == \A t \in Setters : stack[t] = <<>>

ChannelsInit ==
  /\ value = [c \in ChannelNos |-> 0] /\ relay = [c \in ChannelNos |-> FALSE]
  /\ stored = [c \in ChannelNos |-> 0] /\ stack = [t \in Setters |-> <<>>]
  /\ cmds = MaxCmds /\ due = [h \in DOMAIN Handlers |-> 0]

-----------------------------------------------------------------------------
(* EVENT_EvaluateCondition and EVENT_EvaluateChangeCondition *)

Holds(h, v) ==
  CASE h.on = "equals"    -> v = h.arg
    [] h.on = "not"       -> v # h.arg
    [] h.on = "greater"   -> v > h.arg
    [] h.on = "less"      -> v < h.arg
    [] h.on = "atLeast"   -> v >= h.arg
    [] h.on = "atMost"    -> v <= h.arg
    [] OTHER              -> FALSE
Becomes(h, from, to) == ~Holds(h, from) /\ Holds(h, to)

Fires(h, ch) == h.on = "onChange" /\ h.ch = ch
FiresFor(h, ch, from, to) == h.ch = ch /\ Becomes(h, from, to)

-----------------------------------------------------------------------------
(* The commands: CHANNEL_Set_Ex, CHANNEL_Toggle, CHANNEL_Add, CHANNEL_AddClamped *)

Clamped(v, c) == IF v > c.max THEN c.max ELSE IF v < c.min THEN c.min ELSE v
Wrapped(v, c) == IF v > c.max THEN c.min ELSE IF v < c.min THEN c.max ELSE v

NewValue(c) ==
  CASE c.what \in {"set", "force"} -> c.val
    [] c.what = "toggle"           -> IF value[c.ch] = 0 THEN MaxOf[c.ch] ELSE 0
    [] c.what = "clamp"            -> Clamped(value[c.ch] + c.val, c)
    [] c.what = "wrap"             -> Wrapped(value[c.ch] + c.val, c)
Ignored(c) == c.what \notin {"force", "toggle"} /\ NewValue(c) = value[c.ch]

\* A command of thread t, whose calls are calls; told are the handlers it is of.
Execute(t, calls, c, told) ==
  LET new == NewValue(c) IN
  IF Ignored(c)
  THEN /\ stack' = [stack EXCEPT ![t] = calls]
       /\ due' = [h \in DOMAIN due |-> due[h] - told[h]]
       /\ UNCHANGED value
  ELSE /\ value' = [value EXCEPT ![c.ch] = new]
       /\ stack' = [stack EXCEPT ![t] =
            Append(calls, [ch |-> c.ch, prev |-> value[c.ch], val |-> new, at |-> "read", pos |-> 0])]
       /\ due' = [h \in DOMAIN due |-> due[h] - told[h]
                    + IF FiresFor(Handlers[h], c.ch, value[c.ch], new) THEN 1 ELSE 0]
NoneDue == [h \in DOMAIN Handlers |-> 0]

Top(t) == stack[t][Len(stack[t])]
In(t, step) == stack[t] # <<>> /\ Top(t).at = step
WithTop(t, f) == [stack[t] EXCEPT ![Len(stack[t])] = f]
SetTop(t, f) == stack' = [stack EXCEPT ![t] = WithTop(t, f)]

Begin(t, c) ==
  /\ IF Overlap THEN stack[t] = <<>> ELSE Settled
  /\ cmds > 0 /\ cmds' = cmds - 1
  /\ Execute(t, <<>>, c, NoneDue)
  /\ UNCHANGED <<relay, stored>>

-----------------------------------------------------------------------------
(* Channel_OnChanged *)

\* What follows a step; the walks start at the head of the list.
After(step) ==
  CASE step = "read" -> "drive" [] step = "drive" -> "event"
    [] step = "event" -> "change" [] step = "change" -> "save"
Entered(f) == [f EXCEPT !.at = After(f.at), !.pos = Len(Handlers)]

Read(t) ==
  /\ In(t, "read") /\ SetTop(t, Entered([Top(t) EXCEPT !.val = value[Top(t).ch]]))
  /\ UNCHANGED <<value, relay, stored, cmds, due>>

Drive(t) ==
  /\ In(t, "drive") /\ relay' = [relay EXCEPT ![Top(t).ch] = Top(t).val > 0]
  /\ SetTop(t, Entered(Top(t)))
  /\ UNCHANGED <<value, stored, cmds, due>>

Called(t) == [Top(t) EXCEPT !.pos = @ - 1]

\* EventHandlers_FireEvent
EventsDone(t) == Entered(Top(t))
FireEvent(t) ==
  /\ In(t, "event")
  /\ IF Top(t).pos = 0 THEN SetTop(t, EventsDone(t)) /\ UNCHANGED <<value, due>>
     ELSE LET h == Handlers[Top(t).pos] IN
          IF Fires(h, Top(t).ch) THEN Execute(t, WithTop(t, Called(t)), h.does, NoneDue)
          ELSE SetTop(t, Called(t)) /\ UNCHANGED <<value, due>>
  /\ UNCHANGED <<relay, stored, cmds>>

\* EventHandlers_ProcessVariableChange_Integer
ProcessVariableChange(t) ==
  /\ In(t, "change")
  /\ IF Top(t).pos = 0 THEN SetTop(t, Entered(Top(t))) /\ UNCHANGED <<value, due>>
     ELSE LET h == Handlers[Top(t).pos] IN
          IF FiresFor(h, Top(t).ch, Top(t).prev, Top(t).val)
          THEN Execute(t, WithTop(t, Called(t)), h.does, [NoneDue EXCEPT ![Top(t).pos] = 1])
          ELSE SetTop(t, Called(t)) /\ UNCHANGED <<value, due>>
  /\ UNCHANGED <<relay, stored, cmds>>

\* Channel_SaveInFlashIfNeeded reads the channel again.
SavedSeen(t) == Top(t).val
Saved(t) == value[Top(t).ch]
Save(t) ==
  /\ In(t, "save")
  /\ stored' = IF Top(t).ch \in Remembered THEN [stored EXCEPT ![Top(t).ch] = Saved(t)] ELSE stored
  /\ stack' = [stack EXCEPT ![t] = SubSeq(@, 1, Len(@) - 1)]
  /\ UNCHANGED <<value, relay, cmds, due>>

OnChanged(t) == Read(t) \/ Drive(t) \/ FireEvent(t) \/ ProcessVariableChange(t) \/ Save(t)

ChannelsNext == \E t \in Setters : OnChanged(t) \/ \E c \in ChannelCmds : Begin(t, c)
ChannelsFairness == \A t \in Setters : WF_channelVars(OnChanged(t))
ChannelsSpec == ChannelsInit /\ [][ChannelsNext]_channelVars /\ ChannelsFairness

-----------------------------------------------------------------------------
ChannelsTypeOK ==
  /\ value \in [ChannelNos -> 0..Highest] /\ relay \in [ChannelNos -> BOOLEAN]
  /\ stored \in [ChannelNos -> 0..Highest] /\ cmds \in 0..MaxCmds
  /\ \A t \in Setters : \A i \in DOMAIN stack[t] :
       stack[t][i] \in [ch : ChannelNos, prev : 0..Highest, val : 0..Highest,
                        at : {"read", "drive", "event", "change", "save"},
                        pos : 0..Len(Handlers)]

\* However handlers set channels from within a change, the pins of a channel
\* end as its value says. (Channel_OnChanged)
RelayFollows == Settled => \A c \in ChannelNos : relay[c] = (value[c] > 0)

\* The flash remembers the value a channel ends with, also when a handler of
\* its change has set it again. (Channel_SaveInFlashIfNeeded)
FlashRemembers == Settled => \A c \in Remembered : stored[c] = value[c]

\* Each change that makes the condition of a handler true is told to it exactly
\* once, one that came from within another change too. (addChangeHandler)
ToldOfEveryChange == Settled => due = NoneDue

\* Handlers that set one another's channels come to an end.
Settles == ~Settled ~> Settled

\* A change is carried out to the end: pins, flash and handlers have the last value,
\* however handlers change channels inside the change. (Channel_OnChanged)
ChangesCarriedOut == RelayFollows /\ FlashRemembers /\ ToldOfEveryChange
=============================================================================
