-------------------------- MODULE RepeatingEvents --------------------------
(***************************************************************************)
(* The repeating events of src/src/cmnds/cmd_repeatingEvents.c: a linked   *)
(* list that RepeatingEvents_RunUpdate walks on the main thread while the  *)
(* commands of its own events, and those of the web thread, add to it,     *)
(* cancel in it and clear it.  Times are counted in updates.               *)
(***************************************************************************)
EXTENDS Integers, Sequences, FiniteSetsExt

CONSTANTS
  EventCommands, \* commands an event may run
  UserIds,       \* user IDs, the one of events without an ID among them
  Intervals,     \* intervals of events
  Repeats,       \* numbers of repeats, -1 for ever
  Does,          \* what a command of an event may do to the list
  Given,         \* the commands on the list that come from elsewhere
  MaxEvents,     \* bound: events that memory can be allocated for
  MaxGiven       \* bound: commands that come from elsewhere

CanceledTimes == -999

\* The commands on the list; "other" stands for every command that is none.
Adds == [what : {"add", "addUID"}, command : EventCommands, wait : Intervals,
         times : Repeats, id : UserIds]
ListCommands == Adds \cup [what : {"cancel"}, id : UserIds] \cup [what : {"clear", "other"}]

ASSUME EventsAssumption ==
  /\ Intervals \subseteq Nat \ {0} /\ Repeats \subseteq Int /\ MaxEvents \in Nat
  /\ MaxGiven \in Nat /\ Given \subseteq ListCommands
  /\ Does \in [EventCommands -> SUBSET ListCommands]

VARIABLES
  events, \* g_repeatingEvents, its head last
  cur,    \* position of the event RunUpdate goes to next, 0 when it does not run
  freed,  \* events freed under RunUpdate, which walks on in their memory
  given,  \* bound: commands from elsewhere that are left
  ended,  \* observer: IDs canceled since an event was last added under them
  peak    \* observer: most events of a command that were in use at once

eventsVars == <<events, cur, freed, given, ended, peak>>

Active(e) == e.times > 0 \/ e.times = -1
Canceled(e) == e.times = CanceledTimes
InUse(es, c) == Cardinality({i \in DOMAIN es : es[i].command = c /\ ~Canceled(es[i])})

EventsInit ==
  /\ events = <<>> /\ cur = 0 /\ freed = <<>> /\ given = MaxGiven /\ ended = {}
  /\ peak = [c \in EventCommands |-> 0]

-----------------------------------------------------------------------------
(* The commands on the list.  Of an event, asked is for the observers: the *)
(* ID it was last added under; so is age: the updates since it was added   *)
(* or last ran.                                                            *)

\* RepeatingEvents_CancelRepeatingEvents
Cancel(es, id) ==
  [i \in DOMAIN es |->
     IF es[i].id = id THEN [es[i] EXCEPT !.times = CanceledTimes, !.age = 0] ELSE es[i]]

\* RepeatingEvents_AddRepeatingEvent looks for a canceled event of the same
\* command from the head on; it keeps its ID.
ReusableByNone(es, c) == {}
ReusableEvents(es, c) == {i \in DOMAIN es : Canceled(es[i]) /\ es[i].command = c.command}
AddEvent(es, c) ==
  IF ReusableEvents(es, c) # {}
  THEN [es EXCEPT ![Max(ReusableEvents(es, c))] =
          [@ EXCEPT !.wait = c.wait, !.left = c.wait, !.times = c.times,
                    !.asked = c.id, !.age = 0]]
  ELSE IF Len(es) < MaxEvents
  THEN Append(es, [command |-> c.command, wait |-> c.wait, left |-> c.wait, times |-> c.times,
                   id |-> c.id, asked |-> c.id, age |-> 0])
  ELSE es

\* The list after a command, and what the observers see of it.
ListAfter(es, c) ==
  CASE c.what = "add"    -> AddEvent(es, c)
    [] c.what = "addUID" -> AddEvent(Cancel(es, c.id), c)
    [] c.what = "cancel" -> Cancel(es, c.id)
    [] c.what = "clear"  -> <<>>
    [] OTHER             -> es
ExecuteOnList(es, c) ==
  /\ events' = ListAfter(es, c)
  /\ ended' = IF c.what = "cancel" THEN ended \cup {c.id}
              ELSE IF c \in Adds THEN ended \ {c.id} ELSE ended
  /\ peak' = [k \in EventCommands |-> Max({peak[k], InUse(events', k)})]

-----------------------------------------------------------------------------
(* RepeatingEvents_RunUpdate, one event of its walk at a time *)

Due(e) == Active(e) /\ e.left - 1 <= 0
Waited(e) == IF Active(e) THEN [e EXCEPT !.left = @ - 1] ELSE e
\* The event is marked before its command runs, so that it may add itself again.
Spent(e) ==
  [e EXCEPT !.times = IF e.times = -1 THEN -1 ELSE IF e.times <= 1 THEN CanceledTimes
                     ELSE e.times - 1,
            !.left = e.wait, !.age = 0]
Aged(es) == [i \in DOMAIN es |-> IF Active(es[i]) THEN [es[i] EXCEPT !.age = @ + 1] ELSE es[i]]

StartUpdate ==
  /\ cur = 0 /\ freed = <<>>
  /\ cur' = Len(events) /\ events' = Aged(events)
  /\ UNCHANGED <<freed, given, ended, peak>>

Pass ==
  /\ cur > 0 /\ ~Due(events[cur])
  /\ events' = [events EXCEPT ![cur] = Waited(@)] /\ cur' = cur - 1
  /\ UNCHANGED <<freed, given, ended, peak>>

Before(n) == SubSeq(events, 1, n)
Run(c) ==
  /\ cur > 0 /\ Due(events[cur]) /\ c \in Does[events[cur].command]
  /\ ExecuteOnList([events EXCEPT ![cur] = Spent(@)], c)
  /\ IF c.what = "clear" THEN cur' = 0 /\ freed' = Before(cur - 1)
     ELSE cur' = cur - 1 /\ UNCHANGED freed
  /\ UNCHANGED given

\* Freed events are read as they were, or no longer once the memory is used.
WalkFreed(c) ==
  /\ freed # <<>>
  /\ LET e == freed[Len(freed)] IN
     IF Due(e) THEN c \in Does[e.command] /\ ExecuteOnList(events, c)
     ELSE c = [what |-> "other"] /\ ExecuteOnList(events, c)
  /\ freed' = SubSeq(freed, 1, Len(freed) - 1) /\ UNCHANGED <<cur, given>>
LoseFreed == freed # <<>> /\ freed' = <<>> /\ UNCHANGED <<events, cur, given, ended, peak>>

\* The web thread, and everything else that commands come from
GivenCommand(c) ==
  /\ given > 0 /\ given' = given - 1
  /\ ExecuteOnList(events, c)
  /\ IF c.what = "clear" /\ cur > 0 THEN cur' = 0 /\ freed' = Before(cur)
     ELSE UNCHANGED <<cur, freed>>

Visit ==
  \/ Pass \/ LoseFreed
  \/ \E c \in ListCommands : Run(c) \/ WalkFreed(c)

EventsNext == StartUpdate \/ Visit \/ \E c \in Given : GivenCommand(c)

EventsSpec == EventsInit /\ [][EventsNext]_eventsVars

-----------------------------------------------------------------------------
Event == [command : EventCommands, wait : Intervals, left : Nat,
          times : Repeats \cup Nat \cup {-1, CanceledTimes}, id : UserIds, asked : UserIds, age : Nat]
EventsTypeOK ==
  /\ events \in Seq(Event) /\ Len(events) <= MaxEvents
  /\ given \in 0..MaxGiven /\ cur \in 0..Len(events)
  /\ freed \in Seq(Event) /\ (freed # <<>> => cur = 0)
  /\ ended \subseteq UserIds /\ peak \in [EventCommands -> 0..MaxEvents]

\* However commands change the list during an update, the update skips no
\* event: when it is over every active event has run within its interval, and
\* at most one update too early. (RepeatingEvents_RunUpdate)
Punctual ==
  cur = 0 => \A i \in DOMAIN events : LET e == events[i] IN
    Active(e) => e.left > 0 /\ e.left + e.age \in {e.wait - 1, e.wait}

\* An event that is over is used again before memory is taken for another of
\* its command: one that adds itself again for ever takes no more memory.
\* (RepeatingEvents_AddRepeatingEvent)
NoLeak ==
  \A c \in EventCommands :
    Cardinality({i \in DOMAIN events : events[i].command = c}) <= peak[c]

\* cancelRepeatingEvent stops the events that were added under the ID.  Refuted: a
\* reused event keeps the ID of its former owner (cmd_repeatingEvents.c:57-63).
CancelStops == \A i \in DOMAIN events : Active(events[i]) => events[i].asked \notin ended

\* However commands change the list that runs them, each event keeps its times and
\* none takes more memory than it must.  (RepeatingEvents_RunUpdate)
EventsSound == Punctual /\ NoLeak
=============================================================================
