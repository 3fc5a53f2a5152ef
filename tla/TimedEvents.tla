---------------------------- MODULE TimedEvents ----------------------------
(***************************************************************************)
(* Commands at a time of day, or at the sun's rise or set, on some days of *)
(* the week (src/src/driver/drv_timed_events.c), under a clock that is set *)
(* late and is put forward and back (TIME_setDeviceTime).                  *)
(***************************************************************************)
EXTENDS Integers

CONSTANTS
  DayLength,   \* seconds of a day (86400)
  WeekLength,  \* days of a week (7)
  CatchUp,     \* seconds that are made up for at most (100)
  ClockEvents, \* addClockEvent commands: [sun, at, days]
  Suns,        \* the suns there may be: the second of its rise, per day
  Corrections, \* what the clock is put forward or back by
  LastSecond,  \* bound: where the clock ends
  MaxCorrections \* bound

ASSUME TimedAssumption ==
  /\ DayLength \in Nat \ {0} /\ WeekLength \in Nat \ {0} /\ CatchUp \in Nat \ {0}
  /\ \A e \in ClockEvents : e.at \in 0..(DayLength - 1) /\ e.days \subseteq 0..(WeekLength - 1)
  /\ Corrections \subseteq Int /\ LastSecond \in Nat /\ MaxCorrections \in Nat
  /\ \A s \in Suns : \A d \in 0..(LastSecond \div DayLength + WeekLength) : s[d] \in 0..(DayLength - 1)

VARIABLES
  clock,      \* TIME_GetCurrentTime, 0 until the time is known
  eventsTime, \* clock_eventsTime, 0 when there is none
  clockEvents, \* clock_events: the events added, with time, last day and history
  sun,        \* environment: the sun there is
  corrections \* bound: how often the clock was set again

timedVars == <<clock, eventsTime, clockEvents, sun, corrections>>

WeekDay(t) == (t \div DayLength) % WeekLength
NoDay == -1
Repeated == -2

\* Days from weekday d to the next of the days; a week when there is none (calc_day_offset).
DayOffset(d, days) ==
  LET late == {n \in 0..(WeekLength - 1) : (d + n) % WeekLength \in days}
  IN  IF late = {} THEN WeekLength ELSE CHOOSE n \in late : \A k \in late : n <= k

\* dusk2Dawn: the sun of the day of the clock and so many days on.
SunIn(now, n) == sun[(now \div DayLength) + n]

\* CMD_TIME_AddEvent.  The rest of the record is history: how often the event ran on
\* the day at hand, whether all of that day was seen, whether it last ran on that day
\* of the week when it began, how often it ran on the last day it was due and all of
\* which was seen (NoDay: there was none; Repeated: not at all, on the day of the week
\* it had run on before), and how many of those in a row it did not run on.
Added(e) ==
  [at |-> IF e.sun THEN SunIn(clock, DayOffset(WeekDay(eventsTime), e.days)) ELSE e.at,
   lastDay |-> NoDay, runs |-> 0, whole |-> FALSE, again |-> FALSE, ran |-> NoDay, missed |-> 0]

TimedInit ==
  /\ clock = 0 /\ eventsTime = 0 /\ corrections = 0
  /\ sun \in Suns
  /\ clockEvents = [e \in {} |-> Added(e)]

AddClockEvent(e) ==
  /\ e \notin DOMAIN clockEvents
  /\ clockEvents' = [f \in DOMAIN clockEvents \cup {e} |-> IF f = e THEN Added(e) ELSE clockEvents[f]]
  /\ UNCHANGED <<clock, eventsTime, sun, corrections>>
RemoveClockEvent(e) ==
  /\ e \in DOMAIN clockEvents /\ corrections < MaxCorrections
  /\ corrections' = corrections + 1
  /\ clockEvents' = [f \in DOMAIN clockEvents \ {e} |-> clockEvents[f]]
  /\ UNCHANGED <<clock, eventsTime, sun>>

\* The history, when a day is over.
DayOver(e, s, t) ==
  IF t % DayLength # 0 THEN s
  ELSE LET due == s.whole /\ WeekDay(t - 1) \in e.days
           ran == IF s.runs = 0 /\ s.again THEN Repeated ELSE s.runs
       IN  [s EXCEPT !.runs = 0, !.whole = TRUE, !.again = s.lastDay = WeekDay(t),
              !.ran = IF due THEN ran ELSE @,
              !.missed = IF s.runs > 0 THEN 0 ELSE IF due THEN @ + 1 ELSE @]

DueAt(e, s, t) == s.at = t % DayLength /\ WeekDay(t) \in e.days
Rescheduled(e, s, t, now) ==
  [s EXCEPT !.runs = @ + 1, !.lastDay = WeekDay(t),
            !.at = SunIn(now, DayOffset((WeekDay(t) + 1) % WeekLength, e.days))]

\* TIME_RunEventsForSecond, for one event and the second t of the past, at the time now.
RanNoMore(e, s, t, now) ==
  IF ~DueAt(e, s, t) THEN s
  ELSE IF ~e.sun THEN [s EXCEPT !.runs = @ + 1]
  ELSE IF s.lastDay # WeekDay(t) THEN Rescheduled(e, s, t, now)
  ELSE s
Ran(e, s, t, now) ==
  IF ~DueAt(e, s, t) THEN s
  ELSE IF ~e.sun THEN [s EXCEPT !.runs = @ + 1]
  ELSE IF s.lastDay # WeekDay(t) THEN Rescheduled(e, s, t, now)
  ELSE [s EXCEPT !.lastDay = NoDay]

\* TIME_RunEvents: the seconds from the last time up to now, which is left to the
\* next call; a jump is made up for by its first seconds only.
Behind(now) == LET delta == now - eventsTime IN IF delta > CatchUp THEN CatchUp ELSE delta
RunSeconds(e, now) ==
  LET after[n \in 0..Behind(now)] ==
        IF n = 0 THEN clockEvents[e]
        ELSE LET t == eventsTime + n - 1 IN Ran(e, DayOver(e, after[n - 1], t), t, now)
  IN  after[Behind(now)]

\* TIME_OnEverySecond.  A day is not seen as a whole when the clock was set back over
\* it, or so far forward that not all is made up for.
EverySecond ==
  /\ clock \in 1..(LastSecond - 1)
  /\ clock' = clock + 1
  /\ eventsTime' = clock'
  /\ clockEvents' =
       [e \in DOMAIN clockEvents |->
          IF eventsTime = 0 \/ clock' < eventsTime THEN [clockEvents[e] EXCEPT !.whole = FALSE]
          ELSE [RunSeconds(e, clock') EXCEPT !.whole = @ /\ clock' - eventsTime <= CatchUp]]
  /\ UNCHANGED <<sun, corrections>>

\* TIME_setDeviceTime, by NTP, an RTC or a command.
SetDeviceTime(d) ==
  /\ clock # 0 => corrections < MaxCorrections
  /\ clock + d \in 1..LastSecond
  /\ clock' = clock + d
  /\ corrections' = IF clock = 0 THEN corrections ELSE corrections + 1
  /\ UNCHANGED <<eventsTime, clockEvents, sun>>

TimedNext ==
  \/ EverySecond
  \/ \E e \in ClockEvents : AddClockEvent(e) \/ RemoveClockEvent(e)
  \/ \E d \in Corrections : SetDeviceTime(d)

TimedSpec == TimedInit /\ [][TimedNext]_timedVars

\* The state has the shape declared above; only an event of the sun is moved.
TimedTypeOK ==
  /\ clock \in 0..LastSecond /\ eventsTime \in 0..LastSecond
  /\ DOMAIN clockEvents \subseteq ClockEvents
  /\ \A e \in DOMAIN clockEvents :
       /\ clockEvents[e].at \in 0..(DayLength - 1)
       /\ clockEvents[e].lastDay \in (0..(WeekLength - 1)) \cup {NoDay}
       /\ e.sun \/ clockEvents[e].at = e.at

\* On each of its days that was seen as a whole, put forward and back as the clock may
\* be before and after, a command for a time of day runs exactly once.
RunsOnceADay ==
  \A e \in DOMAIN clockEvents : ~e.sun => clockEvents[e].ran \in {1, NoDay}

\* A command for the sun runs once on such a day, wherever its time moves, unless that
\* is the day of the week it ran on the last time.
SunOnceADay ==
  \A e \in DOMAIN clockEvents : e.sun => clockEvents[e].ran \in {1, NoDay, Repeated}

\* ... and it misses no two of its days in a row: the match that is taken for a second
\* one on the same day makes it forget that day.
SunMissesNoTwo ==
  \A e \in DOMAIN clockEvents : e.sun => clockEvents[e].missed <= 1

\* However the clock and the sun move, a command runs once on each of its days, but for
\* one of the sun on the day of the week it last ran on, which it misses once.
\* (TIME_RunEvents, TIME_RunEventsForSecond)
OnceADay == RunsOnceADay /\ SunOnceADay /\ SunMissesNoTwo

\* "do event every Wednesday at sunrise": a command for the sun runs on each of its
\* days.  (the example of addClockEvent)
SunEveryWeek ==
  \A e \in DOMAIN clockEvents : e.sun => clockEvents[e].ran \in {1, NoDay}
=============================================================================
