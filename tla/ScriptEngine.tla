---------------------------- MODULE ScriptEngine ----------------------------
(***************************************************************************)
(* The script threads of src/src/cmnds/cmd_script.c: a list of reusable    *)
(* slots that the quick tick walks once per round (SVM_RunThreads), giving *)
(* every script that neither sleeps nor waits a few lines (SVM_RunThread). *)
(*                                                                         *)
(* What a script's text says is left open: a line executes any sequence of *)
(* the commands that touch the engine, as a backlog or the handlers of an  *)
(* event it fires do.  The same commands come from outside of any script   *)
(* (buttons, MQTT, timers), between the rounds.  Left out is a line that   *)
(* stops its own script and then executes goto (which would read a NULL    *)
(* file) or waitFor (which a backlog moves to a script of its own).        *)
(***************************************************************************)
EXTENDS Integers, Sequences, FiniteSets

CONSTANTS
  Ids,        \* the unique ids given to startScript; 0 is none
  Conditions, \* what a script may wait for: an event, a relation and an argument
  None,       \* no condition
  Delays,     \* the arguments of delay_ms and delay_s
  Deltas,     \* the milliseconds from one round to the next
  Lines,      \* the lines of a turn: 20 in the code
  StartupLines, \* the lines of the startup command: 200 in the code
  MaxDelay,   \* the longest delay a script asks for (bound of the model)
  MaxThreads  \* the scripts alive at once (bound of the model)

ASSUME ScriptAssumption ==
  /\ Ids \subseteq Nat \ {0}
  /\ None \notin Conditions
  /\ Delays \subseteq Nat \ {0} /\ Deltas \subseteq Nat \ {0} /\ Deltas # {}
  /\ Lines \in Nat \ {0} /\ StartupLines \in Nat \ {0}
  /\ MaxDelay \in Nat /\ MaxThreads \in Nat

VARIABLES
  slots,   \* g_scriptThreads; new slots are linked in front, so slot k is followed by k - 1
  active,  \* g_activeThread, 0 for NULL
  stage,   \* the quick tick: "idle", at a "turn", in SVM_RunThread's "loop", in a "line"
  delta,   \* svm_deltaMS
  budget,  \* the lines left in the turn
  booted   \* the startup command has been run

scriptVars == <<slots, active, stage, delta, budget, booted>>

\* at: curLine is NULL ("free"), at some text, or at the text's end.
\* asked: whether the script in the slot executed waitFor.
NoScript == [id |-> 0, at |-> "free", delay |-> 0, wait |-> None, asked |-> FALSE]

Free(s) == s.at = "free"
Live    == {k \in DOMAIN slots : ~Free(slots[k])}

ScriptInit ==
  /\ slots = <<>> /\ active = 0
  /\ stage = "idle" /\ delta = 0 /\ budget = 0 /\ booted = FALSE

(***************************************************************************)
(* Slots                                                                   *)
(***************************************************************************)
\* SVM_FindLabel: the text's start, a label, or the end when there is none.
Found == {"text", "end"}

\* What SVM_RegisterThread and its callers leave in a slot: the wait stays.
Started(s, id, at) == [s EXCEPT !.id = id, !.at = at, !.delay = 0, !.asked = FALSE]

\* SVM_RegisterThread takes the first free slot of the list, or a new one.
Reusable == {k \in DOMAIN slots : Free(slots[k])}
First(S) == CHOOSE k \in S : \A j \in S : j <= k

StartIn(k, id, at) ==
  /\ k <= MaxThreads
  /\ slots' = IF k \in DOMAIN slots
                THEN [slots EXCEPT ![k] = Started(@, id, at)]
                ELSE Append(slots, Started(NoScript, id, at))

RegisteredSlot == IF Reusable # {} THEN First(Reusable) ELSE Len(slots) + 1

Stopped(s) == [s EXCEPT !.id = 0, !.at = "free", !.delay = 0]

(***************************************************************************)
(* Commands: of the line the active script executes, or, between rounds,   *)
(* of nobody.                                                              *)
(***************************************************************************)
Commanding == stage = "line" \/ (stage = "idle" /\ booted)

\* startScript, or a backlog with a delay in it.
StartScript(id, at) == Commanding /\ StartIn(RegisteredSlot, id, at)

StopScripts(id, bExcludeSelf) ==
  /\ Commanding
  /\ slots' = [k \in DOMAIN slots |->
                 IF slots[k].id = id /\ ~(bExcludeSelf /\ k = active)
                   THEN Stopped(slots[k]) ELSE slots[k]]

\* stopAllScripts, and resetSVM, which drops the files as well.
StopAllScripts ==
  /\ Commanding
  /\ slots' = [k \in DOMAIN slots |-> Stopped(slots[k])]

\* An event that meets the conditions in S wakes those that wait for them.
ProcessWaitersForEvent(S) ==
  /\ Commanding
  /\ slots' = [k \in DOMAIN slots |->
                 IF slots[k].wait \in S THEN [slots[k] EXCEPT !.wait = None] ELSE slots[k]]

\* "this can be only used from a script"
OfActive(s) ==
  /\ stage = "line"
  /\ slots' = [slots EXCEPT ![active] = s]

Delay(d) ==
  /\ stage = "line" /\ slots[active].delay + d <= MaxDelay
  /\ OfActive([slots[active] EXCEPT !.delay = @ + d])
WaitFor(c) ==
  /\ stage = "line" /\ ~Free(slots[active])
  /\ OfActive([slots[active] EXCEPT !.wait = c, !.asked = TRUE])
Return     == OfActive([slots[active] EXCEPT !.at = "free"])
GoTo(at) ==
  /\ stage = "line" /\ ~Free(slots[active])
  /\ OfActive([slots[active] EXCEPT !.at = at])

Command ==
  /\ \/ \E id \in Ids \cup {0}, at \in Found : StartScript(id, at)
     \/ \E id \in Ids \cup {0}, self \in BOOLEAN : StopScripts(id, self)
     \/ StopAllScripts
     \/ \E S \in SUBSET Conditions : ProcessWaitersForEvent(S)
     \/ \E d \in Delays : Delay(d)
     \/ \E c \in Conditions : WaitFor(c)
     \/ Return
     \/ \E at \in Found : GoTo(at)
  /\ UNCHANGED <<active, stage, delta, budget, booted>>

(***************************************************************************)
(* SVM_RunThread and its two callers                                       *)
(***************************************************************************)
Enter(k, lines) == active' = k /\ stage' = "loop" /\ budget' = lines

\* SVM_RunStartupCommandAsScript; there may be no startup command.
Startup ==
  /\ stage = "idle" /\ ~booted
  /\ \/ /\ StartIn(RegisteredSlot, 0, "text")
        /\ Enter(RegisteredSlot, StartupLines)
        /\ UNCHANGED booted
     \/ /\ booted' = TRUE
        /\ UNCHANGED <<slots, active, stage, budget>>
  /\ UNCHANGED delta

TurnOf(k) == active' = k /\ stage' = IF k = 0 THEN "idle" ELSE "turn"

NextAfter(k) == k - 1

LeaveRunThread ==
  /\ IF booted THEN TurnOf(NextAfter(active)) ELSE active' = 0 /\ stage' = "idle"
  /\ booted' = TRUE /\ budget' = 0

RoundHeadOldest == 1
RoundHead == Len(slots)

RoundBegins ==
  /\ stage = "idle" /\ booted /\ slots # <<>>
  /\ delta' \in Deltas
  /\ TurnOf(RoundHead)
  /\ UNCHANGED <<slots, budget, booted>>

\* A sleeping script gets its turn in the round that ends its sleep.
Slept(s) == IF s.delay > delta THEN s.delay - delta ELSE 0
Sleeps(s) == s.wait = None /\ s.delay > delta
Awake(s)  == s.wait = None /\ s.delay <= delta

TurnPasses ==
  /\ stage = "turn" /\ ~Awake(slots[active])
  /\ slots' = IF Sleeps(slots[active])
                THEN [slots EXCEPT ![active].delay = Slept(slots[active])] ELSE slots
  /\ TurnOf(NextAfter(active))
  /\ UNCHANGED <<delta, budget, booted>>

TurnRuns ==
  /\ stage = "turn" /\ Awake(slots[active])
  /\ slots' = [slots EXCEPT ![active].delay = 0]
  /\ Enter(active, Lines)
  /\ UNCHANGED <<delta, booted>>

\* The loop's exits: a wait, a script that was stopped, the last line of the
\* turn, and the end of the text, which frees the slot.
LeavesEarly(s) == s.wait # None \/ Free(s) \/ budget = 0

LoopEnds ==
  /\ stage = "loop"
  /\ \/ LeavesEarly(slots[active]) /\ UNCHANGED slots
     \/ /\ ~LeavesEarly(slots[active]) /\ slots[active].at = "end"
        /\ slots' = [slots EXCEPT ![active].at = "free"]
  /\ LeaveRunThread
  /\ UNCHANGED delta

BudgetAfterLine == budget - 1

\* curLine moves behind the line before it is executed; a comment, a label and
\* an empty line cost as much as a command.
LineBegins ==
  /\ stage = "loop" /\ ~LeavesEarly(slots[active]) /\ slots[active].at = "text"
  /\ \E at \in Found : slots' = [slots EXCEPT ![active].at = at]
  /\ budget' = BudgetAfterLine
  /\ stage' = "line"
  /\ UNCHANGED <<active, delta, booted>>

LineEndsAwake ==
  stage = "line" /\ stage' = "loop" /\ UNCHANGED <<slots, active, delta, budget, booted>>
LineEnds ==
  /\ stage = "line"
  /\ IF slots[active].delay > 0
       THEN LeaveRunThread
       ELSE stage' = "loop" /\ UNCHANGED <<active, budget, booted>>
  /\ UNCHANGED <<slots, delta>>

Tick == Startup \/ RoundBegins \/ TurnPasses \/ TurnRuns \/ LoopEnds \/ LineBegins \/ LineEnds

ScriptNext == Tick \/ Command

ScriptSpec == ScriptInit /\ [][ScriptNext]_scriptVars

\* The quick tick goes on, and a line executes finitely many commands.
ScriptFairness == WF_scriptVars(Tick)
ScriptFairSpec == ScriptSpec /\ ScriptFairness
-----------------------------------------------------------------------------
ScriptTypeOK ==
  /\ slots \in Seq([id : Ids \cup {0}, at : {"free"} \cup Found, delay : 0 .. MaxDelay,
                    wait : Conditions \cup {None}, asked : BOOLEAN])
  /\ Len(slots) <= MaxThreads
  /\ active \in 0 .. Len(slots)
  /\ stage \in {"idle", "turn", "loop", "line"} /\ (stage = "idle" <=> active = 0)
  /\ delta \in Deltas \cup {0}
  /\ budget \in 0 .. (IF booted THEN Lines ELSE StartupLines)
  /\ booted \in BOOLEAN

\* No script executes a line while it waits for an event or sleeps, whoever put
\* it to sleep: a handler of an event that its own line fired included.
SleeperRunsNoLine ==
  [][LineBegins => slots[active].wait = None /\ slots[active].delay = 0]_scriptVars

\* Every round ends, whatever the scripts do, one that loops without a delay or
\* starts others included: the rest of the device waits for it.
RoundEnds == stage # "idle" ~> stage = "idle"

\* A script that is ready to run is not passed over for ever.
ReadyScriptGetsItsTurn ==
  \A k \in 1 .. MaxThreads :
     []<>(~(k \in Live /\ slots[k].wait = None) \/ active = k)

\* Slots are reused: a new one is linked only when every slot holds a live
\* script, so scripts that start and stop for ever use no more memory than the
\* most that ever lived at once.
GrowsOnlyWhenFull ==
  [][Len(slots') > Len(slots) => Live = DOMAIN slots]_scriptVars

\* A script waits only for an event it asked for: SVM_RunThread stops where
\* "waitFor" was executed last frame (cmd_script.c:386).  Refuted: a slot that is
\* stopped keeps its wait, and the next script inherits it.
WaitIsOwn == \A k \in Live : slots[k].wait # None => slots[k].asked

\* Scripts keep to their turns and slots, whatever their lines do to other scripts.
ScriptsKeepTurns == SleeperRunsNoLine /\ GrowsOnlyWhenFull

\* ... and no script keeps the device, or another script, from going on.
\* (SVM_RunThreads)
ScriptsGoOn == RoundEnds /\ ReadyScriptGetsItsTurn
=============================================================================
