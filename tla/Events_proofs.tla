---------------------------- MODULE Events_proofs ----------------------------
(***************************************************************************)
(* Repeating events and clock events for all values of the constants: each *)
(* repeating event keeps its times and none takes more memory than it must,*)
(* whatever commands do to the list while it is walked; each clock event   *)
(* runs once on its days, wherever the clock is put.                       *)
(***************************************************************************)
EXTENDS RepeatingEvents, TimedEvents, FiniteSetTheorems, SequenceTheorems, TLAPS

\* No command asks for -999 repeats, which would add an event that is already over.
NoneAddedCanceled == CanceledTimes \notin Repeats

\* A set of numbers up to a bound that is not empty has a greatest one.
LEMMA HasMax ==
  ASSUME NEW n \in Nat, NEW T, T \subseteq 0 .. n, T # {}
  PROVE  Max(T) \in T /\ \A y \in T : y <= Max(T)
<1>1. \A x, y \in Nat : <<y, x>> \in OpToRel(<, Nat) <=> y < x
  BY DEF OpToRel
<1>2. \E R : IsWellFoundedOn(R, Nat) /\ \A x, y \in Nat : <<y, x>> \in R <=> y < x
  BY <1>1, NatLessThanWellFounded, Zenon
<1>3. PICK R : IsWellFoundedOn(R, Nat) /\ \A x, y \in Nat : <<y, x>> \in R <=> y < x
  BY <1>2
<1> DEFINE D == {d \in Nat : n - d \in T}
<1>4. D # {} /\ D \subseteq Nat
  <2>1. PICK t \in T : t \in 0 .. n
    OBVIOUS
  <2>2. n - t \in Nat /\ n - (n - t) = t
    BY <2>1
  <2> QED
    BY <2>1, <2>2
<1> HIDE DEF D
<1>5. \E x \in D : \A y \in D : ~ (<<y, x>> \in R)
  BY <1>3, <1>4, WFMin
<1>6. PICK x \in D : \A y \in D : ~ (<<y, x>> \in R)
  BY <1>5
<1>7. x \in Nat /\ n - x \in T
  BY DEF D
<1>8. ASSUME NEW t \in T PROVE t <= n - x
  <2>1. t \in 0 .. n /\ n - t \in Nat /\ n - (n - t) = t
    OBVIOUS
  <2>2. n - t \in D
    BY <2>1 DEF D
  <2>3. ~ (<<n - t, x>> \in R)
    BY <2>2, <1>6
  <2>4. ~ (n - t < x)
    BY <2>1, <2>3, <1>3, <1>7
  <2> QED
    BY <2>1, <2>4, <1>7
<1>9. \E z \in T : \A y \in T : z >= y
  <2>1. \A y \in T : n - x >= y
    BY <1>7, <1>8
  <2> QED
    BY <2>1, <1>7
<1>10. Max(T) \in T /\ \A y \in T : Max(T) >= y
  BY <1>9 DEF Max
<1> QED
  BY <1>10

LEMMA MaxOfTwo ==
  ASSUME NEW a \in Nat, NEW b \in Nat
  PROVE  Max({a, b}) \in {a, b} /\ Max({a, b}) >= a /\ Max({a, b}) >= b
<1>1. \E z \in {a, b} : \A y \in {a, b} : z >= y
  <2>1. CASE a >= b
    BY <2>1
  <2>2. CASE b >= a
    BY <2>2
  <2> QED
    BY <2>1, <2>2
<1> QED
  BY <1>1 DEF Max

\* The positions of a list are few, and so are those of a command in it.
LEMMA FewPositions ==
  ASSUME NEW es \in Seq(Event), NEW I, I \subseteq DOMAIN es
  PROVE  IsFiniteSet(I) /\ Cardinality(I) \in Nat /\ Cardinality(I) <= Len(es)
<1>1. DOMAIN es = 1 .. Len(es) /\ Len(es) \in Nat
  BY LenProperties
<1>2. IsFiniteSet(1 .. Len(es)) /\ Cardinality(1 .. Len(es)) = Len(es)
  <2>1. /\ IsFiniteSet(1 .. Len(es))
        /\ Cardinality(1 .. Len(es)) = IF 1 > Len(es) THEN 0 ELSE Len(es) - 1 + 1
    BY <1>1, FS_Interval
  <2> QED
    BY <2>1, <1>1
<1>3. IsFiniteSet(I) /\ Cardinality(I) <= Cardinality(1 .. Len(es))
  BY <1>1, <1>2, FS_Subset
<1> QED
  BY <1>2, <1>3, FS_CardinalityType

-----------------------------------------------------------------------------
(* The times of the events *)

\* An event that an update has not come to yet (ahead) is one update older than its
\* count says.
OnTime(e, ahead) ==
  Active(e) =>
    /\ e.left > 0
    /\ e.left + e.age \in (IF ahead THEN {e.wait, e.wait + 1} ELSE {e.wait - 1, e.wait})

\* A list of which an update has yet to visit the first n events.
Timely(es, n) ==
  /\ es \in Seq(Event) /\ Len(es) <= MaxEvents
  /\ \A i \in 1 .. Len(es) : OnTime(es[i], i <= n)

LEMMA CommandKinds ==
  ASSUME NEW c \in ListCommands
  PROVE  \/ c \in Adds /\ c.what = "add"
         \/ c \in Adds /\ c.what = "addUID"
         \/ c.what = "cancel" /\ c.id \in UserIds
         \/ c.what = "clear"
         \/ c.what = "other"
BY DEF ListCommands, Adds

\* What an addRepeatingEvent command carries.
LEMMA AddedFields ==
  ASSUME NEW c \in Adds
  PROVE  /\ c.command \in EventCommands /\ c.wait \in Intervals /\ c.wait \in Nat /\ c.wait > 0
         /\ c.times \in Repeats /\ c.id \in UserIds
<1>1. c.command \in EventCommands /\ c.wait \in Intervals /\ c.times \in Repeats /\ c.id \in UserIds
  BY DEF Adds
<1>2. Intervals \subseteq Nat \ {0}
  BY EventsAssumption
<1>3. c.wait \in Nat /\ c.wait # 0
  BY <1>1, <1>2
<1>4. \A x \in Nat : x # 0 => x > 0
  OBVIOUS
<1>5. c.wait > 0
  BY <1>3, <1>4, Zenon
<1> QED
  BY <1>1, <1>3, <1>5, Zenon

\* Canceling changes no event but makes some inactive.
LEMMA CancelKeepsTimes ==
  ASSUME NEW es, NEW n, Timely(es, n), NEW id
  PROVE  Timely(Cancel(es, id), n) /\ Len(Cancel(es, id)) = Len(es)
<1>1. es \in Seq(Event) /\ DOMAIN es = 1 .. Len(es) /\ Len(es) \in Nat /\ Len(es) <= MaxEvents
  BY LenProperties DEF Timely
<1> DEFINE E(i) == IF es[i].id = id THEN [es[i] EXCEPT !.times = CanceledTimes, !.age = 0] ELSE es[i]
<1>2. ASSUME NEW i \in 1 .. Len(es) PROVE E(i) \in Event /\ OnTime(E(i), i <= n)
  <2>1. es[i] \in Event /\ OnTime(es[i], i <= n)
    BY <1>1 DEF Timely
  <2>2. CASE es[i].id = id
    <3> DEFINE e == [es[i] EXCEPT !.times = CanceledTimes, !.age = 0]
    <3>1. e \in Event /\ e.times = CanceledTimes
      BY <2>1 DEF Event
    <3>2. ~Active(e)
      BY <3>1 DEF Active, CanceledTimes
    <3> QED
      BY <2>2, <3>1, <3>2 DEF OnTime
  <2>3. CASE es[i].id # id
    BY <2>1, <2>3
  <2> QED
    BY <2>2, <2>3
<1>3. Cancel(es, id) = [i \in 1 .. Len(es) |-> E(i)]
  BY <1>1 DEF Cancel
<1> HIDE DEF E
<1>4. Cancel(es, id) \in Seq(Event) /\ Len(Cancel(es, id)) = Len(es)
  BY <1>1, <1>2, <1>3
<1> QED
  BY <1>1, <1>2, <1>3, <1>4 DEF Timely

\* The event that is used again, if there is one.
LEMMA Reused ==
  ASSUME NEW es \in Seq(Event), NEW c, ReusableEvents(es, c) # {}
  PROVE  LET j == Max(ReusableEvents(es, c)) IN
         j \in 1 .. Len(es) /\ es[j] \in Event /\ Canceled(es[j]) /\ es[j].command = c.command
<1>1. Len(es) \in Nat /\ DOMAIN es = 1 .. Len(es)
  BY LenProperties
<1>2. ReusableEvents(es, c) \subseteq 0 .. Len(es)
  BY <1>1 DEF ReusableEvents
<1>3. Max(ReusableEvents(es, c)) \in ReusableEvents(es, c)
  BY <1>1, <1>2, HasMax
<1> QED
  BY <1>1, <1>3, ElementOfSeq DEF ReusableEvents

\* The event that an add command makes of a canceled one, and the one it makes anew.
Again(e, c) ==
  [e EXCEPT !.wait = c.wait, !.left = c.wait, !.times = c.times, !.asked = c.id, !.age = 0]
Anew(c) ==
  [command |-> c.command, wait |-> c.wait, left |-> c.wait, times |-> c.times,
   id |-> c.id, asked |-> c.id, age |-> 0]

LEMMA AddIs ==
  ASSUME NEW es, NEW c
  PROVE  /\ ReusableEvents(es, c) # {} =>
              AddEvent(es, c) = [es EXCEPT ![Max(ReusableEvents(es, c))] = Again(@, c)]
         /\ ReusableEvents(es, c) = {} /\ Len(es) < MaxEvents =>
              AddEvent(es, c) = Append(es, Anew(c))
         /\ ReusableEvents(es, c) = {} /\ ~(Len(es) < MaxEvents) => AddEvent(es, c) = es
BY DEF AddEvent, Again, Anew

LEMMA AddKeepsTimes ==
  ASSUME NEW es, NEW n \in Nat, Timely(es, n), n <= Len(es), NEW c \in Adds
  PROVE  Timely(AddEvent(es, c), n) /\ n <= Len(AddEvent(es, c))
<1>1. /\ es \in Seq(Event) /\ Len(es) \in Nat /\ Len(es) <= MaxEvents
      /\ MaxEvents \in Nat /\ \A i \in 1 .. Len(es) : OnTime(es[i], i <= n)
  BY LenProperties, EventsAssumption DEF Timely
<1>2. /\ c.command \in EventCommands /\ c.wait \in Intervals /\ c.wait \in Nat /\ c.wait > 0
      /\ c.times \in Repeats /\ c.id \in UserIds
  BY AddedFields
<1>3. CASE ReusableEvents(es, c) # {}
  <2> DEFINE j == Max(ReusableEvents(es, c))  e == Again(es[j], c)
  <2>1. j \in 1 .. Len(es) /\ es[j] \in Event
    BY <1>1, <1>3, Reused
  <2>2. AddEvent(es, c) = [es EXCEPT ![j] = e]
    BY <1>3, AddIs
  <2> HIDE DEF j
  <2>3. e \in Event /\ e.wait = c.wait /\ e.left = c.wait /\ e.age = 0
    BY <2>1, <1>2 DEF Event, Again
  <2> HIDE DEF e
  <2>4. \A i \in 1 .. Len(es) + 1 : OnTime(e, i <= n)
    BY <2>3, <1>2 DEF OnTime
  <2>5. /\ [es EXCEPT ![j] = e] \in Seq(Event) /\ Len([es EXCEPT ![j] = e]) = Len(es)
        /\ \A i \in 1 .. Len(es) : [es EXCEPT ![j] = e][i] = IF i = j THEN e ELSE es[i]
    BY <2>1, <2>3, <1>1, ExceptSeq
  <2>6. \A i \in 1 .. Len(es) : OnTime([es EXCEPT ![j] = e][i], i <= n)
    BY <2>4, <2>5, <1>1
  <2> QED
    BY <2>2, <2>5, <2>6, <1>1 DEF Timely
<1>4. CASE ReusableEvents(es, c) = {} /\ Len(es) < MaxEvents
  <2> DEFINE e == Anew(c)
  <2>1. e \in Event /\ e.wait = c.wait /\ e.left = c.wait /\ e.age = 0
    BY <1>2 DEF Event, Anew
  <2> HIDE DEF e
  <2>2. \A i \in 1 .. Len(es) + 1 : OnTime(e, i <= n)
    BY <2>1, <1>2 DEF OnTime
  <2>3. AddEvent(es, c) = Append(es, e)
    BY <1>4, AddIs DEF e
  <2>4. /\ Append(es, e) \in Seq(Event) /\ Len(Append(es, e)) = Len(es) + 1
        /\ \A i \in 1 .. Len(es) : Append(es, e)[i] = es[i]
        /\ Append(es, e)[Len(es) + 1] = e
    BY <1>1, <2>1, AppendProperties
  <2>5. ASSUME NEW i \in 1 .. Len(es) + 1 PROVE OnTime(Append(es, e)[i], i <= n)
    <3>1. CASE i = Len(es) + 1
      BY <3>1, <2>2, <2>4
    <3>2. CASE i # Len(es) + 1
      BY <3>2, <2>4, <1>1
    <3> QED
      BY <3>1, <3>2
  <2> QED
    BY <2>3, <2>4, <2>5, <1>1, <1>4 DEF Timely
<1>5. CASE ReusableEvents(es, c) = {} /\ ~(Len(es) < MaxEvents)
  BY <1>5, AddIs
<1> QED
  BY <1>3, <1>4, <1>5

\* Whatever a command does to the list, the events on it keep their times.
LEMMA CommandKeepsTimes ==
  ASSUME NEW es, NEW n \in Nat, Timely(es, n), n <= Len(es), NEW c \in ListCommands
  PROVE  IF c.what = "clear" THEN ListAfter(es, c) = <<>>
         ELSE Timely(ListAfter(es, c), n) /\ n <= Len(ListAfter(es, c))
<1>1. CASE c \in Adds /\ c.what = "add"
  BY <1>1, AddKeepsTimes DEF ListAfter
<1>2. CASE c \in Adds /\ c.what = "addUID"
  <2>1. Timely(Cancel(es, c.id), n) /\ n <= Len(Cancel(es, c.id))
    BY CancelKeepsTimes
  <2>2. ListAfter(es, c) = AddEvent(Cancel(es, c.id), c)
    BY <1>2 DEF ListAfter
  <2> QED
    BY <1>2, <2>1, <2>2, AddKeepsTimes
<1>3. CASE c.what = "cancel"
  BY <1>3, CancelKeepsTimes DEF ListAfter
<1>4. CASE c.what = "clear"
  BY <1>4 DEF ListAfter
<1>5. CASE c.what = "other"
  BY <1>5 DEF ListAfter
<1> QED
  BY <1>1, <1>2, <1>3, <1>4, <1>5, CommandKinds

-----------------------------------------------------------------------------
(* The memory of the events *)

OfCommand(es, k) == {i \in DOMAIN es : es[i].command = k}

\* Two lists with the same commands at the same positions.
LEMMA SameCommands ==
  ASSUME NEW es \in Seq(Event), NEW new \in Seq(Event), Len(new) = Len(es),
         \A i \in 1 .. Len(es) : new[i].command = es[i].command
  PROVE  \A k : OfCommand(new, k) = OfCommand(es, k)
<1>1. DOMAIN es = 1 .. Len(es) /\ DOMAIN new = 1 .. Len(es)
  BY LenProperties
<1> QED
  BY <1>1 DEF OfCommand

LEMMA CancelTakesNoMore ==
  ASSUME NEW es \in Seq(Event), NEW id
  PROVE  Cancel(es, id) \in Seq(Event) /\ \A k : OfCommand(Cancel(es, id), k) = OfCommand(es, k)
<1>1. DOMAIN es = 1 .. Len(es) /\ Len(es) \in Nat
  BY LenProperties
<1> DEFINE E(i) == IF es[i].id = id THEN [es[i] EXCEPT !.times = CanceledTimes, !.age = 0] ELSE es[i]
<1>2. ASSUME NEW i \in 1 .. Len(es) PROVE E(i) \in Event /\ E(i).command = es[i].command
  <2>1. es[i] \in Event
    BY <1>1
  <2>2. CASE es[i].id = id
    <3> DEFINE e == [es[i] EXCEPT !.times = CanceledTimes, !.age = 0]
    <3>1. e \in Event /\ e.command = es[i].command
      BY <2>1 DEF Event
    <3> QED
      BY <2>2, <3>1
  <2>3. CASE es[i].id # id
    BY <2>1, <2>3
  <2> QED
    BY <2>2, <2>3
<1>3. Cancel(es, id) = [i \in 1 .. Len(es) |-> E(i)]
  BY <1>1 DEF Cancel
<1> HIDE DEF E
<1>4. /\ Cancel(es, id) \in Seq(Event) /\ Len(Cancel(es, id)) = Len(es)
      /\ \A i \in 1 .. Len(es) : Cancel(es, id)[i].command = es[i].command
  BY <1>1, <1>2, <1>3
<1> QED
  BY <1>4, SameCommands, Zenon

\* Memory is taken for an event only if all others of its command are in use.
LEMMA AddTakesNoMore ==
  ASSUME NoneAddedCanceled, NEW es \in Seq(Event), NEW c \in Adds, NEW k
  PROVE  \/ OfCommand(AddEvent(es, c), k) = OfCommand(es, k)
         \/ Cardinality(OfCommand(AddEvent(es, c), k)) = InUse(AddEvent(es, c), k)
<1>1. Len(es) \in Nat /\ DOMAIN es = 1 .. Len(es) /\ \A i \in 1 .. Len(es) : es[i] \in Event
  BY LenProperties, ElementOfSeq
<1>2. /\ c.command \in EventCommands /\ c.wait \in Intervals /\ c.wait \in Nat
      /\ c.times \in Repeats /\ c.id \in UserIds
  BY AddedFields
<1>3. CASE ReusableEvents(es, c) # {}
  <2> DEFINE j == Max(ReusableEvents(es, c))  e == Again(es[j], c)
  <2>1. j \in 1 .. Len(es) /\ es[j] \in Event
    BY <1>3, Reused
  <2>2. AddEvent(es, c) = [es EXCEPT ![j] = e]
    BY <1>3, AddIs
  <2> HIDE DEF j
  <2>3. e \in Event /\ e.command = es[j].command
    BY <2>1, <1>2 DEF Event, Again
  <2> HIDE DEF e
  <2>4. /\ [es EXCEPT ![j] = e] \in Seq(Event) /\ Len([es EXCEPT ![j] = e]) = Len(es)
        /\ \A i \in 1 .. Len(es) : [es EXCEPT ![j] = e][i] = IF i = j THEN e ELSE es[i]
    BY <2>1, <2>3, <1>1, ExceptSeq
  <2>5. \A i \in 1 .. Len(es) : [es EXCEPT ![j] = e][i].command = es[i].command
    BY <2>3, <2>4
  <2> QED
    BY <2>2, <2>4, <2>5, SameCommands, ZenonT(30)
<1>4. CASE ReusableEvents(es, c) = {} /\ Len(es) < MaxEvents
  <2> DEFINE e == Anew(c)  new == Append(es, e)
  <2>1. e \in Event /\ e.command = c.command /\ e.times \in Repeats
    BY <1>2 DEF Event, Anew
  <2>2. AddEvent(es, c) = new
    BY <1>4, AddIs DEF e
  <2> HIDE DEF e
  <2>3. /\ new \in Seq(Event) /\ Len(new) = Len(es) + 1
        /\ \A i \in 1 .. Len(es) : new[i] = es[i]
        /\ new[Len(es) + 1] = e
    BY <1>1, <2>1, AppendProperties
  <2> HIDE DEF new
  <2>4. DOMAIN new = 1 .. Len(es) + 1
    BY <2>3, LenProperties
  <2>5. CASE k = c.command
    <3>1. ASSUME NEW i \in DOMAIN new, new[i].command = k PROVE ~Canceled(new[i])
      <4>1. CASE i = Len(es) + 1
        BY <4>1, <2>1, <2>3 DEF NoneAddedCanceled, Canceled
      <4>2. CASE i # Len(es) + 1
        <5>1. i \in DOMAIN es /\ new[i] = es[i]
          BY <4>2, <2>3, <2>4, <1>1
        <5> QED
          BY <5>1, <3>1, <2>5, <1>4 DEF ReusableEvents
      <4> QED
        BY <4>1, <4>2
    <3>2. OfCommand(new, k) = {i \in DOMAIN new : new[i].command = k /\ ~Canceled(new[i])}
      BY <3>1 DEF OfCommand
    <3> QED
      BY <2>2, <3>2 DEF InUse
  <2>6. CASE k # c.command
    <3>1. ASSUME NEW i PROVE i \in OfCommand(new, k) <=> i \in OfCommand(es, k)
      <4>1. CASE i = Len(es) + 1
        BY <4>1, <2>1, <2>3, <2>4, <2>6, <1>1 DEF OfCommand
      <4>2. CASE i # Len(es) + 1
        <5>1. (i \in DOMAIN new <=> i \in DOMAIN es) /\ (i \in DOMAIN es => new[i] = es[i])
          BY <4>2, <2>3, <2>4, <1>1
        <5> QED
          BY <5>1 DEF OfCommand
      <4> QED
        BY <4>1, <4>2
    <3> QED
      BY <2>2, <3>1
  <2> QED
    BY <2>5, <2>6
<1>5. CASE ReusableEvents(es, c) = {} /\ ~(Len(es) < MaxEvents)
  BY <1>5, AddIs
<1> QED
  BY <1>3, <1>4, <1>5

LEMMA CommandTakesNoMore ==
  ASSUME NoneAddedCanceled, NEW es \in Seq(Event), NEW c \in ListCommands, NEW k
  PROVE  \/ ListAfter(es, c) = <<>>
         \/ OfCommand(ListAfter(es, c), k) = OfCommand(es, k)
         \/ Cardinality(OfCommand(ListAfter(es, c), k)) = InUse(ListAfter(es, c), k)
<1>1. CASE c \in Adds /\ c.what = "add"
  <2>1. ListAfter(es, c) = AddEvent(es, c)
    BY <1>1 DEF ListAfter
  <2> QED
    BY <2>1, <1>1, AddTakesNoMore
<1>2. CASE c \in Adds /\ c.what = "addUID"
  <2>1. ListAfter(es, c) = AddEvent(Cancel(es, c.id), c)
    BY <1>2 DEF ListAfter
  <2>2. Cancel(es, c.id) \in Seq(Event) /\ OfCommand(Cancel(es, c.id), k) = OfCommand(es, k)
    BY CancelTakesNoMore
  <2> QED
    BY <1>2, <2>1, <2>2, AddTakesNoMore
<1>3. CASE c.what = "cancel"
  <2>1. ListAfter(es, c) = Cancel(es, c.id)
    BY <1>3 DEF ListAfter
  <2> QED
    BY <2>1, CancelTakesNoMore
<1>4. CASE c.what = "clear"
  BY <1>4 DEF ListAfter
<1>5. CASE c.what = "other"
  BY <1>5 DEF ListAfter
<1> QED
  BY <1>1, <1>2, <1>3, <1>4, <1>5, CommandKinds

-----------------------------------------------------------------------------
(* The inductive invariant *)

Kept == \A k \in EventCommands : Cardinality(OfCommand(events, k)) <= peak[k]

Observed ==
  /\ given \in 0 .. MaxGiven /\ ended \subseteq UserIds
  /\ peak \in [EventCommands -> 0 .. MaxEvents]

Walk ==
  /\ cur \in 0 .. Len(events)
  /\ freed \in Seq(Event) /\ (freed # <<>> => cur = 0)

EventsInv == Timely(events, cur) /\ Walk /\ Observed /\ Kept

LEMMA EmptyList ==
  ASSUME NEW n
  PROVE  Timely(<<>>, n) /\ \A k : OfCommand(<<>>, k) = {} /\ Cardinality(OfCommand(<<>>, k)) = 0
<1>1. <<>> \in Seq(Event) /\ Len(<<>>) = 0 /\ DOMAIN <<>> = {}
  OBVIOUS
<1>2. Timely(<<>>, n)
  BY <1>1, EventsAssumption DEF Timely
<1>3. \A k : OfCommand(<<>>, k) = {}
  BY <1>1 DEF OfCommand
<1> QED
  BY <1>2, <1>3, FS_EmptySet

LEMMA EventsInvInit == EventsInit => EventsInv
<1> SUFFICES ASSUME EventsInit PROVE EventsInv
  OBVIOUS
<1>1. /\ events = <<>> /\ cur = 0 /\ freed = <<>> /\ given = MaxGiven /\ ended = {}
      /\ peak = [c \in EventCommands |-> 0]
  BY DEF EventsInit
<1>2. Timely(events, cur)
  BY <1>1, EmptyList
<1>3. Walk
  BY <1>1 DEF Walk
<1>4. Observed
  BY <1>1, EventsAssumption DEF Observed
<1>5. Kept
  BY <1>1, EmptyList DEF Kept
<1> QED
  BY <1>2, <1>3, <1>4, <1>5 DEF EventsInv

\* A command on a list es, of which the update has n events to visit.
LEMMA Executed ==
  ASSUME NoneAddedCanceled, Observed, Kept,
         NEW es, NEW n \in Nat, Timely(es, n), n <= Len(es),
         \A k : OfCommand(es, k) = OfCommand(events, k),
         NEW c \in ListCommands, ExecuteOnList(es, c), given' \in 0 .. MaxGiven
  PROVE  /\ Observed' /\ Kept'
         /\ c.what = "clear" => Timely(events', 0) /\ Len(events') = 0
         /\ c.what # "clear" => Timely(events', n) /\ n <= Len(events')
<1>1. /\ events' = ListAfter(es, c)
      /\ ended' = IF c.what = "cancel" THEN ended \cup {c.id}
                  ELSE IF c \in Adds THEN ended \ {c.id} ELSE ended
      /\ peak' = [k \in EventCommands |-> Max({peak[k], InUse(events', k)})]
  BY DEF ExecuteOnList
<1>2. c.what = "clear" => Timely(events', 0) /\ Len(events') = 0
  BY <1>1, CommandKeepsTimes, EmptyList
<1>3. c.what # "clear" => Timely(events', n) /\ n <= Len(events')
  BY <1>1, CommandKeepsTimes
<1>4. events' \in Seq(Event) /\ Len(events') <= MaxEvents /\ Len(events') \in Nat
  BY <1>2, <1>3, LenProperties DEF Timely
<1>5. ASSUME NEW k \in EventCommands
      PROVE  /\ InUse(events', k) \in 0 .. MaxEvents
             /\ Cardinality(OfCommand(events', k)) \in Nat
  <2>1. {i \in DOMAIN events' : events'[i].command = k /\ ~Canceled(events'[i])} \subseteq DOMAIN events'
    OBVIOUS
  <2>2. InUse(events', k) \in Nat /\ InUse(events', k) <= Len(events')
    BY <2>1, <1>4, FewPositions DEF InUse
  <2>3. OfCommand(events', k) \subseteq DOMAIN events'
    BY DEF OfCommand
  <2>4. Cardinality(OfCommand(events', k)) \in Nat
    BY <2>3, <1>4, FewPositions
  <2>5. MaxEvents \in Nat
    BY EventsAssumption
  <2> QED
    BY <2>2, <2>4, <2>5, <1>4
<1>6. ASSUME NEW k \in EventCommands
      PROVE  /\ peak'[k] \in 0 .. MaxEvents
             /\ peak'[k] >= peak[k] /\ peak'[k] >= InUse(events', k) /\ peak[k] \in 0 .. MaxEvents
  <2>1. peak[k] \in 0 .. MaxEvents
    BY DEF Observed
  <2> DEFINE a == peak[k]  b == InUse(events', k)
  <2>2. a \in 0 .. MaxEvents /\ b \in 0 .. MaxEvents /\ peak'[k] = Max({a, b})
    BY <2>1, <1>1, <1>5
  <2> HIDE DEF a, b
  <2>3. a \in Nat /\ b \in Nat
    BY <2>2
  <2>4. Max({a, b}) \in {a, b} /\ Max({a, b}) >= a /\ Max({a, b}) >= b
    BY <2>3, MaxOfTwo
  <2>5. peak'[k] \in 0 .. MaxEvents /\ peak'[k] >= a /\ peak'[k] >= b
    BY <2>2, <2>4
  <2> QED
    BY <2>1, <2>5 DEF a, b
<1>7. peak' \in [EventCommands -> 0 .. MaxEvents]
  BY <1>1, <1>6
<1>8. ended' \subseteq UserIds
  <2>1. CASE c.what = "cancel"
    <3>1. c.id \in UserIds
      BY <2>1, CommandKinds
    <3> QED
      BY <2>1, <3>1, <1>1 DEF Observed
  <2>2. CASE c.what # "cancel"
    BY <2>2, <1>1 DEF Observed
  <2> QED
    BY <2>1, <2>2
<1>9. Kept'
  <2>1. ASSUME NEW k \in EventCommands PROVE Cardinality(OfCommand(events', k)) <= peak'[k]
    <3>1. CASE events' = <<>>
      BY <3>1, <1>6, EmptyList
    <3>2. CASE OfCommand(events', k) = OfCommand(es, k)
      <4>1. Cardinality(OfCommand(events', k)) <= peak[k]
        BY <3>2 DEF Kept
      <4> QED
        BY <4>1, <1>5, <1>6
    <3>3. CASE Cardinality(OfCommand(events', k)) = InUse(events', k)
      BY <3>3, <1>6
    <3>4. es \in Seq(Event)
      BY DEF Timely
    <3> QED
      BY <3>1, <3>2, <3>3, <3>4, <1>1, CommandTakesNoMore
  <2> QED
    BY <2>1 DEF Kept
<1>10. Observed'
  BY <1>7, <1>8 DEF Observed
<1> QED
  BY <1>2, <1>3, <1>9, <1>10

\* One event of the list changes, the event the update goes on behind.
LEMMA OneVisited ==
  ASSUME Timely(events, cur), cur \in 1 .. Len(events), NEW e \in Event,
         e.command = events[cur].command, OnTime(e, FALSE)
  PROVE  LET new == [events EXCEPT ![cur] = e] IN
         /\ Timely(new, cur - 1) /\ Len(new) = Len(events)
         /\ \A k : OfCommand(new, k) = OfCommand(events, k)
<1> DEFINE new == [events EXCEPT ![cur] = e]
<1>1. /\ events \in Seq(Event) /\ Len(events) \in Nat /\ Len(events) <= MaxEvents
      /\ \A i \in 1 .. Len(events) : OnTime(events[i], i <= cur)
  BY LenProperties DEF Timely
<1>2. /\ new \in Seq(Event) /\ Len(new) = Len(events)
      /\ \A i \in 1 .. Len(events) : new[i] = IF i = cur THEN e ELSE events[i]
  BY <1>1, ExceptSeq
<1> HIDE DEF new
<1>3. \A i \in 1 .. Len(events) : new[i].command = events[i].command
  BY <1>2
<1>4. \A k : OfCommand(new, k) = OfCommand(events, k)
  BY <1>1, <1>2, <1>3, SameCommands, Zenon
<1>5. ASSUME NEW i \in 1 .. Len(events) PROVE OnTime(new[i], i <= cur - 1)
  <2>1. CASE i = cur
    <3>1. ~(i <= cur - 1) /\ new[i] = e
      BY <2>1, <1>1, <1>2
    <3> QED
      BY <3>1 DEF OnTime
  <2>2. CASE i # cur
    <3>1. (i <= cur - 1 <=> i <= cur) /\ new[i] = events[i] /\ OnTime(events[i], i <= cur)
      BY <2>2, <1>1, <1>2
    <3> QED
      BY <3>1 DEF OnTime
  <2> QED
    BY <2>1, <2>2
<1>6. Timely(new, cur - 1)
  BY <1>1, <1>2, <1>5 DEF Timely
<1> QED
  BY <1>2, <1>4, <1>6 DEF new

\* An update starts with every event one update older.
LEMMA StartStep == ASSUME EventsInv, StartUpdate PROVE EventsInv'
<1>1. /\ events \in Seq(Event) /\ Len(events) \in Nat /\ Len(events) <= MaxEvents /\ cur = 0
      /\ DOMAIN events = 1 .. Len(events)
      /\ \A i \in 1 .. Len(events) : OnTime(events[i], i <= cur)
  BY LenProperties DEF EventsInv, Timely, StartUpdate
<1> DEFINE E(i) == IF Active(events[i]) THEN [events[i] EXCEPT !.age = @ + 1] ELSE events[i]
<1>2. /\ events' = [i \in 1 .. Len(events) |-> E(i)] /\ cur' = Len(events)
      /\ UNCHANGED <<freed, given, ended, peak>> /\ freed = <<>>
  BY <1>1 DEF StartUpdate, Aged
<1>3. ASSUME NEW i \in 1 .. Len(events)
      PROVE  E(i) \in Event /\ E(i).command = events[i].command /\ OnTime(E(i), TRUE)
  <2>1. events[i] \in Event /\ ~(i <= cur) /\ OnTime(events[i], i <= cur)
    BY <1>1
  <2>2. CASE Active(events[i])
    <3> DEFINE e == events[i]  f == [e EXCEPT !.age = @ + 1]
    <3>1. e.left > 0 /\ e.left + e.age \in {e.wait - 1, e.wait} /\ e \in Event
      BY <2>1, <2>2 DEF OnTime
    <3>2. e.left \in Nat /\ e.age \in Nat /\ e.wait \in Intervals
      BY <3>1 DEF Event
    <3>3. e.wait \in Nat
      BY <3>2, EventsAssumption
    <3> HIDE DEF e
    <3>4. f \in Event /\ f.command = e.command /\ f.left = e.left /\ f.wait = e.wait /\ f.age = e.age + 1
      BY <3>1, <3>2 DEF Event
    <3> HIDE DEF f
    <3>5. \A l, a, w \in Nat : l + a \in {w - 1, w} => l + (a + 1) \in {w, w + 1}
      OBVIOUS
    <3>6. f.left > 0 /\ f.left + f.age \in {f.wait, f.wait + 1}
      BY <3>1, <3>2, <3>3, <3>4, <3>5, ZenonT(30)
    <3>7. E(i) = f
      BY <2>2 DEF f, e
    <3> QED
      BY <3>4, <3>6, <3>7 DEF OnTime, e
  <2>3. CASE ~Active(events[i])
    BY <2>1, <2>3 DEF OnTime
  <2> QED
    BY <2>2, <2>3
<1> HIDE DEF E
<1>4. events' \in Seq(Event) /\ Len(events') = Len(events) /\ \A i \in 1 .. Len(events) : events'[i] = E(i)
  <2>1. events' = [i \in 1 .. Len(events) |-> E(i)] /\ Len(events) \in Nat
    BY <1>1, <1>2
  <2>2. \A i \in 1 .. Len(events) : E(i) \in Event
    BY <1>3
  <2> QED
    BY <2>1, <2>2
<1>5. Timely(events', cur')
  <2>1. ASSUME NEW i \in 1 .. Len(events) PROVE OnTime(events'[i], i <= cur')
    <3>1. i <= cur' /\ OnTime(events'[i], TRUE)
      <4>1. i <= cur'
        BY <1>1, <1>2
      <4>2. events'[i] = E(i)
        BY <1>4
      <4>3. OnTime(E(i), TRUE)
        BY <1>3
      <4> QED
        BY <4>1, <4>2, <4>3
    <3> QED
      BY <3>1 DEF OnTime
  <2> QED
    BY <2>1, <1>1, <1>4 DEF Timely
<1>6. Walk'
  BY <1>1, <1>2, <1>4 DEF Walk, EventsInv
<1>7. \A i \in 1 .. Len(events) : events'[i].command = events[i].command
  BY <1>3, <1>4
<1>8. \A k : OfCommand(events', k) = OfCommand(events, k)
  BY <1>1, <1>4, <1>7, SameCommands, Zenon
<1>9. Kept' /\ Observed'
  BY <1>2, <1>8 DEF EventsInv, Kept, Observed
<1> QED
  BY <1>5, <1>6, <1>9 DEF EventsInv

\* The update goes past an event that is not due.
LEMMA PassStep == ASSUME EventsInv, Pass PROVE EventsInv'
<1> DEFINE e == events[cur]  f == Waited(e)
<1>1. /\ Timely(events, cur) /\ cur \in 1 .. Len(events) /\ Len(events) \in Nat /\ ~Due(e)
      /\ events \in Seq(Event) /\ e \in Event /\ OnTime(e, cur <= cur)
  <2>1. events \in Seq(Event) /\ Len(events) \in Nat /\ cur \in 1 .. Len(events) /\ Timely(events, cur)
    BY LenProperties DEF EventsInv, Walk, Timely, Pass
  <2> QED
    BY <2>1, ElementOfSeq DEF Timely, Pass
<1>2. /\ events' = [events EXCEPT ![cur] = f] /\ cur' = cur - 1
      /\ UNCHANGED <<freed, given, ended, peak>>
  BY DEF Pass
<1>3. f \in Event /\ f.command = e.command /\ OnTime(f, FALSE)
  <2>1. CASE Active(e)
    <3>1. e.left \in Nat /\ e.age \in Nat /\ e.wait \in Intervals
      BY <1>1 DEF Event
    <3>2. e.wait \in Nat
      BY <3>1, EventsAssumption
    <3>3. cur <= cur
      BY <1>1
    <3>4. e.left + e.age \in {e.wait, e.wait + 1} /\ ~(e.left - 1 <= 0)
      BY <1>1, <2>1, <3>3 DEF OnTime, Due
    <3>5. f = [e EXCEPT !.left = @ - 1]
      BY <2>1 DEF Waited
    <3> HIDE DEF e, f
    <3>6. e.left - 1 \in Nat
      BY <3>1, <3>4
    <3>7. /\ f \in Event /\ f.command = e.command /\ f.left = e.left - 1
          /\ f.wait = e.wait /\ f.age = e.age
      BY <3>5, <3>6, <1>1 DEF Event
    <3>8. f.left > 0 /\ f.left + f.age \in {f.wait - 1, f.wait}
      BY <3>1, <3>2, <3>4, <3>7
    <3> QED
      BY <3>7, <3>8 DEF OnTime
  <2>2. CASE ~Active(e)
    BY <2>2, <1>1 DEF Waited, OnTime
  <2> QED
    BY <2>1, <2>2
<1> HIDE DEF e, f
<1>4. /\ Timely(events', cur') /\ Len(events') = Len(events)
      /\ \A k : OfCommand(events', k) = OfCommand(events, k)
  BY <1>1, <1>2, <1>3, OneVisited DEF e
<1>5. Walk'
  BY <1>1, <1>2, <1>4 DEF Walk, EventsInv
<1>6. Kept' /\ Observed'
  BY <1>2, <1>4 DEF EventsInv, Kept, Observed
<1> QED
  BY <1>4, <1>5, <1>6 DEF EventsInv

\* An event that is due starts over, or is over, before its command runs.
LEMMA SpentKeepsTimes ==
  ASSUME NEW e \in Event
  PROVE  Spent(e) \in Event /\ Spent(e).command = e.command /\ OnTime(Spent(e), FALSE)
<1> DEFINE t == IF e.times = -1 THEN -1 ELSE IF e.times <= 1 THEN CanceledTimes ELSE e.times - 1
           f == Spent(e)
<1>1. e.times \in Repeats \cup Nat \cup {-1, CanceledTimes} /\ e.wait \in Intervals
  BY DEF Event
<1>2. e.times \in Int /\ e.wait \in Nat /\ e.wait # 0
  <2>1. Repeats \subseteq Int /\ Intervals \subseteq Nat \ {0}
    BY EventsAssumption
  <2>2. e.times \in Int
    <3> HIDE DEF t, f
    <3>1. -1 \in Int /\ CanceledTimes \in Int
      BY DEF CanceledTimes
    <3>2. Repeats \cup Nat \cup {-1, CanceledTimes} \subseteq Int
      BY <2>1, <3>1
    <3> QED
      BY <1>1, <3>2, Zenon
  <2>3. e.wait \in Nat \ {0}
    BY <1>1, <2>1
  <2> QED
    BY <2>2, <2>3
<1>3. t \in Nat \cup {-1, CanceledTimes}
  BY <1>2
<1>4. f = [e EXCEPT !.times = t, !.left = e.wait, !.age = 0]
  BY DEF Spent
<1> HIDE DEF t, f
<1>5. /\ f \in Event /\ f.command = e.command /\ f.left = e.wait /\ f.wait = e.wait
      /\ f.age = 0
  BY <1>2, <1>3, <1>4 DEF Event
<1>6. OnTime(f, FALSE)
  BY <1>2, <1>5 DEF OnTime
<1> QED
  BY <1>5, <1>6 DEF f

\* The update runs the command of an event that is due.
LEMMA RunStep ==
  ASSUME NoneAddedCanceled, EventsInv, NEW c \in ListCommands, Run(c)
  PROVE  EventsInv'
<1> DEFINE e == events[cur]  es == [events EXCEPT ![cur] = Spent(e)]
<1>1. /\ Timely(events, cur) /\ cur \in 1 .. Len(events) /\ Len(events) \in Nat
      /\ events \in Seq(Event) /\ freed = <<>>
  BY LenProperties DEF EventsInv, Walk, Timely, Run
<1>2. e \in Event
  BY <1>1, ElementOfSeq
<1>3. /\ ExecuteOnList(es, c)
      /\ c.what = "clear" => cur' = 0 /\ freed' = Before(cur - 1)
      /\ c.what # "clear" => cur' = cur - 1 /\ freed' = freed
      /\ given' = given
  BY DEF Run
<1>4. /\ Timely(es, cur - 1) /\ Len(es) = Len(events)
      /\ \A k : OfCommand(es, k) = OfCommand(events, k)
  BY <1>1, <1>2, SpentKeepsTimes, OneVisited
<1>5. cur - 1 \in Nat /\ cur - 1 <= Len(es)
  BY <1>1, <1>4
<1>6. Observed /\ Kept /\ given' \in 0 .. MaxGiven
  BY <1>3 DEF EventsInv, Observed
<1> HIDE DEF e, es
<1>7. /\ Observed' /\ Kept'
      /\ c.what = "clear" => Timely(events', 0) /\ Len(events') = 0
      /\ c.what # "clear" => Timely(events', cur - 1) /\ cur - 1 <= Len(events')
  BY <1>3, <1>4, <1>5, <1>6, Executed
<1>8. CASE c.what = "clear"
  <2>1. Before(cur - 1) \in Seq(Event)
    <3>1. \A i \in 1 .. cur - 1 : events[i] \in Event
      BY <1>1, ElementOfSeq
    <3> QED
      BY <3>1, <1>1, SubSeqProperties DEF Before
  <2> QED
    BY <2>1, <1>3, <1>7, <1>8 DEF EventsInv, Walk
<1>9. CASE c.what # "clear"
  <2>1. Walk'
    <3>1. Len(events') \in Nat
      BY <1>7, <1>9, LenProperties DEF Timely
    <3>2. cur' = cur - 1 /\ freed' = <<>> /\ cur - 1 <= Len(events')
      BY <1>1, <1>3, <1>7, <1>9
    <3>3. cur' \in 0 .. Len(events') /\ freed' \in Seq(Event)
      BY <3>1, <3>2, <1>5
    <3> QED
      BY <3>2, <3>3 DEF Walk
  <2> QED
    BY <2>1, <1>3, <1>7, <1>9 DEF EventsInv
<1> QED
  BY <1>8, <1>9

\* After clearRepeatingEvents the update goes on in the memory of the events freed.
LEMMA WalkFreedStep ==
  ASSUME NoneAddedCanceled, EventsInv, NEW c \in ListCommands, WalkFreed(c)
  PROVE  EventsInv'
<1>1. /\ Timely(events, 0) /\ cur = 0 /\ Len(events) \in Nat /\ freed # <<>>
      /\ events \in Seq(Event) /\ freed \in Seq(Event)
  BY LenProperties DEF EventsInv, Walk, Timely, WalkFreed
<1>2. /\ ExecuteOnList(events, c) /\ freed' = SubSeq(freed, 1, Len(freed) - 1)
      /\ cur' = cur /\ given' = given
  <2>1. LET e == freed[Len(freed)] IN
        IF Due(e) THEN c \in Does[e.command] /\ ExecuteOnList(events, c)
        ELSE c = [what |-> "other"] /\ ExecuteOnList(events, c)
    BY DEF WalkFreed
  <2> QED
    BY <2>1 DEF WalkFreed
<1>3. Observed /\ Kept /\ given' \in 0 .. MaxGiven
  BY <1>2 DEF EventsInv, Observed
<1>4. /\ Observed' /\ Kept'
      /\ c.what = "clear" => Timely(events', 0) /\ Len(events') = 0
      /\ c.what # "clear" => Timely(events', 0) /\ 0 <= Len(events')
  BY <1>1, <1>2, <1>3, Executed
<1>5. freed' \in Seq(Event)
  <2>1. Len(freed) \in Nat /\ \A i \in 1 .. Len(freed) - 1 : freed[i] \in Event
    BY <1>1, LenProperties, ElementOfSeq
  <2> QED
    BY <2>1, <1>2, SubSeqProperties
<1>6. Timely(events', 0) /\ Len(events') \in Nat
  BY <1>4, LenProperties DEF Timely
<1>7. Walk'
  BY <1>1, <1>2, <1>5, <1>6 DEF Walk
<1> QED
  BY <1>1, <1>2, <1>4, <1>6, <1>7 DEF EventsInv

\* A command from elsewhere comes in, between updates or while one walks the list.
LEMMA GivenStep ==
  ASSUME NoneAddedCanceled, EventsInv, NEW c \in ListCommands, GivenCommand(c)
  PROVE  EventsInv'
<1>1. /\ Timely(events, cur) /\ cur \in 0 .. Len(events) /\ Len(events) \in Nat
      /\ events \in Seq(Event) /\ freed \in Seq(Event) /\ (freed # <<>> => cur = 0)
  BY LenProperties DEF EventsInv, Walk, Timely
<1>2. /\ ExecuteOnList(events, c) /\ given > 0 /\ given' = given - 1
      /\ c.what = "clear" /\ cur > 0 => cur' = 0 /\ freed' = Before(cur)
      /\ ~(c.what = "clear" /\ cur > 0) => cur' = cur /\ freed' = freed
  BY DEF GivenCommand
<1>3. Observed /\ Kept /\ given' \in 0 .. MaxGiven
  <2>1. Observed /\ Kept /\ given \in 0 .. MaxGiven /\ MaxGiven \in Nat
    BY EventsAssumption DEF EventsInv, Observed
  <2> QED
    BY <2>1, <1>2
<1>4. cur \in Nat /\ cur <= Len(events)
  BY <1>1
<1>5. /\ Observed' /\ Kept'
      /\ c.what = "clear" => Timely(events', 0) /\ Len(events') = 0
      /\ c.what # "clear" => Timely(events', cur) /\ cur <= Len(events')
  BY <1>1, <1>2, <1>3, <1>4, Executed
<1>6. CASE c.what = "clear" /\ cur > 0
  <2>1. Before(cur) \in Seq(Event)
    <3>1. \A i \in 1 .. cur : events[i] \in Event
      BY <1>1, ElementOfSeq
    <3> QED
      BY <3>1, <1>1, SubSeqProperties DEF Before
  <2> QED
    BY <2>1, <1>2, <1>5, <1>6 DEF EventsInv, Walk
<1>7. CASE c.what = "clear" /\ ~(cur > 0)
  <2>1. cur = 0 /\ cur' = 0 /\ freed' = freed
    BY <1>2, <1>4, <1>7
  <2> QED
    BY <2>1, <1>1, <1>5, <1>7 DEF EventsInv, Walk
<1>8. CASE c.what # "clear"
  <2>1. cur' = cur /\ freed' = freed /\ Len(events') \in Nat
    BY <1>2, <1>5, <1>8, LenProperties DEF Timely
  <2> QED
    BY <2>1, <1>1, <1>5, <1>8 DEF EventsInv, Walk
<1> QED
  BY <1>6, <1>7, <1>8

LEMMA EventsStep ==
  ASSUME NoneAddedCanceled, EventsInv, [EventsNext]_eventsVars
  PROVE  EventsInv'
<1>1. CASE StartUpdate
  BY <1>1, StartStep
<1>2. CASE Pass
  BY <1>2, PassStep
<1>3. CASE LoseFreed
  <2>1. freed' = <<>> /\ UNCHANGED <<events, cur, given, ended, peak>>
    BY <1>3 DEF LoseFreed
  <2> QED
    BY <2>1 DEF EventsInv, Timely, Walk, Observed, Kept
<1>4. ASSUME NEW c \in ListCommands, Run(c) PROVE EventsInv'
  BY <1>4, RunStep
<1>5. ASSUME NEW c \in ListCommands, WalkFreed(c) PROVE EventsInv'
  BY <1>5, WalkFreedStep
<1>6. ASSUME NEW c \in Given, GivenCommand(c) PROVE EventsInv'
  BY <1>6, GivenStep, EventsAssumption
<1>7. CASE UNCHANGED eventsVars
  BY <1>7 DEF eventsVars, EventsInv, Timely, Walk, Observed, Kept
<1> QED
  BY <1>1, <1>2, <1>3, <1>4, <1>5, <1>6, <1>7 DEF EventsNext, Visit

LEMMA EventsAlways == ASSUME NoneAddedCanceled PROVE EventsSpec => []EventsInv
<1>1. EventsInv /\ [EventsNext]_eventsVars => EventsInv'
  BY EventsStep
<1> QED
  BY <1>1, EventsInvInit, PTL DEF EventsSpec

\* The list of repeating events and the walk of RepeatingEvents_RunUpdate over it keep
\* their shape: what the walk goes to next is on the list, and memory that was freed
\* under it is read only once it is done with the list.
THEOREM EventsTyped == ASSUME NoneAddedCanceled PROVE EventsSpec => []EventsTypeOK
<1>1. EventsInv => EventsTypeOK
  BY DEF EventsInv, Timely, Walk, Observed, EventsTypeOK
<1> QED
  BY <1>1, EventsAlways, PTL

\* For all commands, intervals and numbers of repeats: however the commands of its events
\* and those of other threads add, cancel and clear while RepeatingEvents_RunUpdate walks
\* the list, no event is skipped or counted twice, and an event that is over is used
\* again before RepeatingEvents_AddRepeatingEvent takes memory for another of its command.
THEOREM EventsKeepTheirTimes == ASSUME NoneAddedCanceled PROVE EventsSpec => []EventsSound
<1>1. EventsInv => Punctual
  <2> SUFFICES ASSUME EventsInv, cur = 0, NEW i \in DOMAIN events, Active(events[i])
               PROVE  /\ events[i].left > 0
                      /\ events[i].left + events[i].age \in {events[i].wait - 1, events[i].wait}
    BY DEF Punctual
  <2>1. i \in 1 .. Len(events) /\ OnTime(events[i], i <= cur) /\ ~(i <= cur)
    BY LenProperties DEF EventsInv, Timely
  <2> QED
    BY <2>1 DEF OnTime
<1>2. EventsInv => NoLeak
  BY DEF EventsInv, Kept, NoLeak, OfCommand
<1>3. EventsInv => EventsSound
  BY <1>1, <1>2 DEF EventsSound
<1> QED
  BY <1>3, EventsAlways, PTL

(***************************************************************************)
(* Clock events                                                            *)
(***************************************************************************)
\* Division by a number that is not 0.
LEMMA DivisionBy ==
  ASSUME NEW t \in Nat, NEW d \in Nat \ {0}
  PROVE  /\ t \div d \in Nat /\ t % d \in 0 .. (d - 1)
         /\ t = d * (t \div d) + (t % d)
OBVIOUS

USE TimedAssumption DEF TimedAssumption

\* A set of numbers that is not empty has a least one; one that has 0 and with each
\* number up to k the next has all up to k.
LEMMA HasLeast ==
  ASSUME NEW S, S \subseteq Nat, S # {}
  PROVE  \E x \in S : \A y \in S : x <= y
<1>1. \A x, y \in Nat : <<y, x>> \in OpToRel(<, Nat) <=> y < x
  BY DEF OpToRel
<1>2. \E R : IsWellFoundedOn(R, Nat) /\ \A x, y \in Nat : <<y, x>> \in R <=> y < x
  BY <1>1, NatLessThanWellFounded, Zenon
<1>3. PICK R : IsWellFoundedOn(R, Nat) /\ \A x, y \in Nat : <<y, x>> \in R <=> y < x
  BY <1>2
<1>4. \E x \in S : \A y \in S : ~(<<y, x>> \in R)
  BY <1>3, WFMin
<1>5. PICK x \in S : \A y \in S : ~(<<y, x>> \in R)
  BY <1>4
<1>6. ASSUME NEW y \in S PROVE x <= y
  <2>1. x \in Nat /\ y \in Nat /\ ~(<<y, x>> \in R)
    BY <1>5
  <2>2. ~(y < x)
    BY <1>3, <2>1
  <2> QED BY <2>1, <2>2
<1> QED BY <1>6

LEMMA StepByStep ==
  ASSUME NEW k \in Nat, NEW S, 0 \in S, \A n \in 0 .. (k - 1) : n \in S => n + 1 \in S
  PROVE  k \in S
<1> DEFINE Left == {n \in 0 .. k : n \notin S}
<1>1. ASSUME k \notin S PROVE FALSE
  <2>1. Left \subseteq Nat /\ Left # {}
    BY <1>1
  <2>2. PICK x \in Left : \A y \in Left : x <= y
    BY <2>1, HasLeast
  <2>3. x # 0 /\ x - 1 \in 0 .. (k - 1) /\ x - 1 \notin Left /\ (x - 1) + 1 = x
    BY <2>2
  <2> QED BY <2>2, <2>3
<1> QED BY <1>1

\* RunSeconds does what the loop of TIME_RunEvents does, one second after the other.
RunsBySecond(f, e, now) ==
  /\ f[0] = clockEvents[e]
  /\ \A n \in 1 .. Behind(now) :
       f[n] = Ran(e, DayOver(e, f[n - 1], eventsTime + n - 1), eventsTime + n - 1, now)

LEMMA SecondsAreRun ==
  ASSUME NEW e, NEW now, Behind(now) \in Nat
  PROVE  \E f : RunsBySecond(f, e, now) /\ RunSeconds(e, now) = f[Behind(now)]
<1> DEFINE Goes(s, n) == Ran(e, DayOver(e, s, eventsTime + n - 1), eventsTime + n - 1, now)
           IsRun(f, k) == f = [n \in 0 .. k |-> IF n = 0 THEN clockEvents[e] ELSE Goes(f[n - 1], n)]
           S == {k \in Nat : \E f : IsRun(f, k)}
           K == Behind(now)
<1>1. RunSeconds(e, now) = (CHOOSE f : IsRun(f, K))[K]
  BY DEF RunSeconds
<1> HIDE DEF Goes
<1>2. 0 \in S
  <2> DEFINE f == [n \in 0 .. 0 |-> clockEvents[e]]
  <2>1. IsRun(f, 0)
    OBVIOUS
  <2> QED BY <2>1
<1>3. ASSUME NEW k \in Nat, k \in S PROVE k + 1 \in S
  <2>1. PICK f : IsRun(f, k)
    BY <1>3
  <2> DEFINE h == [n \in 0 .. (k + 1) |-> IF n = 0 THEN clockEvents[e] ELSE Goes(f[n - 1], n)]
  <2>2. ASSUME NEW n \in 0 .. (k + 1), n # 0 PROVE h[n - 1] = f[n - 1]
    <3>1. n - 1 \in 0 .. k /\ n - 1 \in 0 .. (k + 1)
      BY <2>2
    <3>2. f[n - 1] = IF n - 1 = 0 THEN clockEvents[e] ELSE Goes(f[(n - 1) - 1], n - 1)
      BY <2>1, <3>1
    <3>3. h[n - 1] = IF n - 1 = 0 THEN clockEvents[e] ELSE Goes(f[(n - 1) - 1], n - 1)
      BY <3>1
    <3> QED BY <3>2, <3>3
  <2>3. h = [n \in 0 .. (k + 1) |-> IF n = 0 THEN clockEvents[e] ELSE Goes(h[n - 1], n)]
    <3> DEFINE g == [n \in 0 .. (k + 1) |-> IF n = 0 THEN clockEvents[e] ELSE Goes(h[n - 1], n)]
    <3>1. ASSUME NEW n \in 0 .. (k + 1) PROVE h[n] = g[n]
      BY <2>2, <3>1
    <3> QED BY <3>1
  <2>4. IsRun(h, k + 1)
    BY <2>3
  <2> HIDE DEF h
  <2> QED BY <2>4
<1>4. K \in S
  <2> HIDE DEF S, K
  <2> QED BY <1>2, <1>3, StepByStep DEF K
<1>5. \E f : IsRun(f, K)
  BY <1>4
<1> DEFINE run == CHOOSE f : IsRun(f, K)
<1>6. IsRun(run, K)
  <2> HIDE DEF IsRun
  <2> QED BY <1>5, Zenon
<1> HIDE DEF run
<1>7. run[0] = clockEvents[e] /\ \A n \in 1 .. K : run[n] = Goes(run[n - 1], n)
  <2>1. K \in Nat
    OBVIOUS
  <2> HIDE DEF K
  <2>2. \A n \in 0 .. K : run[n] = IF n = 0 THEN clockEvents[e] ELSE Goes(run[n - 1], n)
    <3> DEFINE r == [n \in 0 .. K |-> IF n = 0 THEN clockEvents[e] ELSE Goes(run[n - 1], n)]
    <3>1. run = r
      BY <1>6
    <3>2. \A n \in 0 .. K : r[n] = IF n = 0 THEN clockEvents[e] ELSE Goes(run[n - 1], n)
      OBVIOUS
    <3> HIDE DEF r
    <3> QED BY <3>1, <3>2
  <2> QED BY <2>1, <2>2
<1> QED BY <1>1, <1>7 DEF run, RunsBySecond, Goes

\* A second is on the day of the one before, or the first of a day.
LEMMA DivisionOf ==
  ASSUME NEW t \in Nat
  PROVE  /\ t \div DayLength \in Nat /\ t % DayLength \in 0 .. (DayLength - 1)
         /\ t = DayLength * (t \div DayLength) + (t % DayLength)
BY DivisionBy

LEMMA DivisionIsUnique ==
  ASSUME NEW p \in Nat, NEW q \in Nat, NEW r \in 0 .. (DayLength - 1), NEW u \in 0 .. (DayLength - 1),
         DayLength * p + r = DayLength * q + u
  PROVE  p = q /\ r = u
<1>1. ASSUME NEW a \in Nat, NEW b \in Nat, NEW c \in 0 .. (DayLength - 1), NEW d \in 0 .. (DayLength - 1),
             a < b, DayLength * a + c = DayLength * b + d
      PROVE  FALSE
  <2>1. DayLength * b = DayLength * a + DayLength * (b - a) /\ b - a >= 1
    BY <1>1
  <2>2. DayLength * (b - a) >= DayLength
    BY <2>1
  <2> QED BY <1>1, <2>1, <2>2
<1>2. ~(p < q) /\ ~(q < p)
  BY <1>1
<1> QED BY <1>2

LEMMA NextSecond ==
  ASSUME NEW t \in Nat \ {0}
  PROVE  \/ t % DayLength = 0 /\ (t - 1) % DayLength = DayLength - 1
         \/ t % DayLength = ((t - 1) % DayLength) + 1 /\ WeekDay(t) = WeekDay(t - 1)
<1> DEFINE q == (t - 1) \div DayLength
           r == (t - 1) % DayLength
<1>1. /\ q \in Nat /\ r \in 0 .. (DayLength - 1) /\ t - 1 = DayLength * q + r
      /\ t \div DayLength \in Nat /\ t % DayLength \in 0 .. (DayLength - 1)
      /\ t = DayLength * (t \div DayLength) + (t % DayLength)
  BY DivisionOf
<1> HIDE DEF q, r
<1>2. CASE r = DayLength - 1
  <2>1. t = DayLength * (q + 1) + 0 /\ q + 1 \in Nat /\ 0 \in 0 .. (DayLength - 1)
    BY <1>1, <1>2
  <2>2. t % DayLength = 0
    BY <1>1, <2>1, DivisionIsUnique
  <2> QED BY <1>2, <2>2 DEF r
<1>3. CASE r # DayLength - 1
  <2>1. t = DayLength * q + (r + 1) /\ r + 1 \in 0 .. (DayLength - 1)
    BY <1>1, <1>3
  <2>2. t % DayLength = r + 1 /\ t \div DayLength = q
    BY <1>1, <2>1, DivisionIsUnique
  <2> QED BY <2>2 DEF WeekDay, q, r
<1> QED BY <1>2, <1>3

LEMMA WeekDayTyped ==
  ASSUME NEW t \in Nat PROVE WeekDay(t) \in 0 .. (WeekLength - 1)
<1>1. t \div DayLength \in Nat
  BY DivisionOf
<1>2. ASSUME NEW d \in Nat PROVE d % WeekLength \in 0 .. (WeekLength - 1)
  OBVIOUS
<1> QED BY <1>1, <1>2 DEF WeekDay

LEMMA DayOffsetTyped ==
  ASSUME NEW d \in Nat, NEW days PROVE DayOffset(d, days) \in 0 .. WeekLength
<1> DEFINE late == {n \in 0 .. (WeekLength - 1) : (d + n) % WeekLength \in days}
<1>1. DayOffset(d, days) = IF late = {} THEN WeekLength ELSE CHOOSE n \in late : \A k \in late : n <= k
  BY DEF DayOffset
<1>2. late \subseteq 0 .. (WeekLength - 1) /\ late \subseteq Nat
  OBVIOUS
<1> HIDE DEF late
<1>3. ASSUME late # {} PROVE (CHOOSE n \in late : \A k \in late : n <= k) \in late
  <2>1. \E n \in late : \A k \in late : n <= k
    BY <1>2, <1>3, HasLeast
  <2> QED BY <2>1
<1>4. CASE late = {}
  BY <1>1, <1>4
<1>5. CASE late # {}
  <2>1. DayOffset(d, days) \in late
    BY <1>1, <1>3, <1>5
  <2>2. 0 .. (WeekLength - 1) \subseteq 0 .. WeekLength
    OBVIOUS
  <2> QED BY <1>2, <2>1, <2>2
<1> QED BY <1>4, <1>5

\* The sun of any day that the clock and an offset come to is one of a day.
LEMMA SunTyped ==
  ASSUME sun \in Suns, NEW now \in 0 .. LastSecond, NEW n \in 0 .. WeekLength
  PROVE  SunIn(now, n) \in 0 .. (DayLength - 1)
<1> DEFINE p == now \div DayLength
           q == LastSecond \div DayLength
<1>1. /\ p \in Nat /\ q \in Nat
      /\ now = DayLength * p + (now % DayLength) /\ now % DayLength \in 0 .. (DayLength - 1)
      /\ LastSecond = DayLength * q + (LastSecond % DayLength) /\ LastSecond % DayLength \in 0 .. (DayLength - 1)
  BY DivisionOf
<1>s. SunIn(now, n) = sun[p + n]
  BY DEF SunIn
<1>d. \A d \in 0 .. (q + WeekLength) : sun[d] \in 0 .. (DayLength - 1)
  OBVIOUS
<1> HIDE DEF p, q
<1>2. p <= q
  <2>1. ASSUME q < p PROVE FALSE
    <3>1. DayLength * p = DayLength * q + DayLength * (p - q) /\ p - q >= 1
      BY <1>1, <2>1
    <3>2. DayLength * (p - q) >= DayLength
      BY <3>1, <1>1
    <3> QED BY <1>1, <3>1, <3>2
  <2> QED BY <1>1, <2>1
<1>3. p + n \in 0 .. (q + WeekLength)
  BY <1>1, <1>2
<1> QED BY <1>s, <1>d, <1>3

\* What is known of an event when the second t is the next to be run.  On a day that is
\* seen as a whole, so far a command for a time of day has run as often as it should
\* (OfTime); one for the sun at most once, and if it did not run though its second has
\* passed, then because it matched on the day of the week it had last run on when the
\* day began, which it has forgotten now (OfSun): it will run on the next of its days
\* (MissedOnce).
EventState ==
  [at : 0 .. (DayLength - 1), lastDay : (0 .. (WeekLength - 1)) \cup {NoDay}, runs : Nat,
   whole : BOOLEAN, again : BOOLEAN, ran : {NoDay, 1, Repeated}, missed : Nat]
IsDay(e, t) == WeekDay(t - 1) \in e.days
Passed(s, t) == s.at <= (t - 1) % DayLength
OfTime(e, s, t) ==
  ~e.sun =>
    /\ s.at = e.at /\ s.ran # Repeated
    /\ s.whole => s.runs = IF IsDay(e, t) /\ Passed(s, t) THEN 1 ELSE 0
OfSun(e, s, t) ==
  e.sun /\ s.whole =>
    /\ s.runs <= 1
    /\ s.runs = 1 => s.lastDay = WeekDay(t - 1) \/ (s.lastDay = NoDay /\ Passed(s, t))
    /\ s.runs = 0 /\ s.lastDay = WeekDay(t - 1) => s.again
    /\ s.runs = 0 /\ IsDay(e, t) /\ Passed(s, t) => s.again /\ s.lastDay = NoDay /\ s.missed = 0
MissedOnce(e, s) ==
  e.sun => s.missed <= 1 /\ (s.missed = 1 => s.lastDay = NoDay \/ s.runs > 0)
EventAt(e, s, t) == s \in EventState /\ OfTime(e, s, t) /\ OfSun(e, s, t) /\ MissedOnce(e, s)

\* The end of a day judges it, and the next begins with nothing run.
LEMMA DayEnds ==
  ASSUME NEW e \in ClockEvents, NEW t \in Nat \ {0}, NEW s, EventAt(e, s, t), t % DayLength = 0,
         (t - 1) % DayLength = DayLength - 1
  PROVE  /\ DayOver(e, s, t) \in EventState /\ MissedOnce(e, DayOver(e, s, t))
         /\ DayOver(e, s, t).runs = 0
         /\ DayOver(e, s, t).lastDay = WeekDay(t) => DayOver(e, s, t).again
         /\ ~e.sun => DayOver(e, s, t).at = e.at /\ DayOver(e, s, t).ran # Repeated
<1> DEFINE due == s.whole /\ IsDay(e, t)
           again == s.lastDay = WeekDay(t)
           judged == IF due THEN IF s.runs = 0 /\ s.again THEN Repeated ELSE s.runs ELSE s.ran
           missed == IF s.runs > 0 THEN 0 ELSE IF due THEN s.missed + 1 ELSE s.missed
           z == DayOver(e, s, t)
<1>1. z = [s EXCEPT !.runs = 0, !.whole = TRUE, !.again = again, !.ran = judged, !.missed = missed]
  BY DEF DayOver, IsDay
<1>2. s \in EventState
  BY DEF EventAt
<1>3. Passed(s, t)
  BY <1>2 DEF Passed, EventState
<1>4. due => s.runs \in {0, 1}
  BY <1>2 DEF EventAt, OfTime, OfSun, EventState
<1>j. judged \in {NoDay, 1, Repeated} /\ missed \in Nat /\ again \in BOOLEAN
  <2>1. due => s.runs = 1 \/ (s.runs = 0 /\ s.again)
    BY <1>2, <1>3, <1>4 DEF EventAt, OfTime, OfSun, EventState
  <2> QED BY <1>2, <2>1 DEF EventState
<1>0. due /\ ~e.sun => s.runs = 1
  BY <1>2, <1>3 DEF EventAt, OfTime
<1>r. ~e.sun => judged # Repeated
  <2>1. Repeated # 1 /\ (~e.sun => s.ran # Repeated)
    BY DEF Repeated, EventAt, OfTime
  <2> QED BY <1>0, <2>1
<1>a. again => s.lastDay = WeekDay(t)
  OBVIOUS
<1>b. s.lastDay = WeekDay(t) => again
  OBVIOUS
<1> HIDE DEF judged, missed, z, again
<1>5. /\ z.runs = 0 /\ z.whole = TRUE /\ z.at = s.at /\ z.lastDay = s.lastDay
      /\ z.ran = judged /\ z.missed = missed /\ z.again = again
  BY <1>1, <1>2 DEF EventState
<1>6. z \in EventState
  BY <1>1, <1>2, <1>j DEF EventState
<1>7. ~e.sun => z.at = e.at /\ z.ran # Repeated
  BY <1>5, <1>r DEF EventAt, OfTime
<1>8. MissedOnce(e, z)
  <2> SUFFICES ASSUME e.sun PROVE z.missed <= 1 /\ (z.missed = 1 => z.lastDay = NoDay)
    BY DEF MissedOnce
  <2>1. s.runs \in Nat /\ s.missed \in Nat /\ s.missed <= 1 /\ (s.missed = 1 => s.lastDay = NoDay \/ s.runs > 0)
    BY <1>2 DEF EventAt, MissedOnce, EventState
  <2>2. due /\ s.runs = 0 => s.lastDay = NoDay /\ s.missed = 0
    BY <1>3 DEF EventAt, OfSun
  <2> QED BY <1>5, <2>1, <2>2 DEF missed
<1> QED BY <1>5, <1>6, <1>7, <1>8, <1>b DEF z

\* One second of the past is run.
LEMMA SecondKeeps ==
  ASSUME sun \in Suns, NEW e \in ClockEvents, NEW t \in Nat \ {0}, NEW now \in 0 .. LastSecond,
         NEW s, EventAt(e, s, t)
  PROVE  EventAt(e, Ran(e, DayOver(e, s, t), t, now), t + 1)
<1> DEFINE z == DayOver(e, s, t)
           y == Ran(e, z, t, now)
           r == t % DayLength
<1> SUFFICES EventAt(e, y, t + 1)
  OBVIOUS
<1>1. /\ WeekDay(t) \in 0 .. (WeekLength - 1) /\ r \in 0 .. (DayLength - 1) /\ (t + 1) - 1 = t
      /\ (t - 1) % DayLength \in 0 .. (DayLength - 1)
  BY WeekDayTyped, DivisionOf
\* What the day's beginning, or the second before, has left.
<1>2. /\ z \in EventState /\ MissedOnce(e, z)
      /\ ~e.sun => z.at = e.at /\ z.ran # Repeated
      /\ ~e.sun /\ z.whole => z.runs = IF WeekDay(t) \in e.days /\ z.at < r THEN 1 ELSE 0
      /\ e.sun /\ z.whole =>
           /\ z.runs <= 1
           /\ z.runs = 1 => z.lastDay = WeekDay(t) \/ (z.lastDay = NoDay /\ z.at < r)
           /\ z.runs = 0 /\ z.lastDay = WeekDay(t) => z.again
           /\ z.runs = 0 /\ WeekDay(t) \in e.days /\ z.at < r => z.again /\ z.lastDay = NoDay /\ z.missed = 0
  <2>1. CASE r = 0 /\ (t - 1) % DayLength = DayLength - 1
    <3>1. z \in EventState /\ MissedOnce(e, z) /\ z.runs = 0 /\ (~e.sun => z.at = e.at /\ z.ran # Repeated)
          /\ (z.lastDay = WeekDay(t) => z.again)
      BY <2>1, DayEnds
    <3>2. ~(z.at < r)
      BY <2>1, <3>1 DEF EventState
    <3> QED BY <3>1, <3>2
  <2>2. CASE r = ((t - 1) % DayLength) + 1 /\ WeekDay(t) = WeekDay(t - 1)
    <3>1. z = s
      BY <1>1, <2>2 DEF DayOver
    <3>2. s \in EventState /\ (Passed(s, t) <=> s.at < r) /\ (IsDay(e, t) <=> WeekDay(t) \in e.days)
      BY <1>1, <2>2 DEF EventAt, Passed, IsDay, EventState
    <3> HIDE DEF z, r
    <3> QED BY <2>2, <3>1, <3>2 DEF EventAt, OfTime, OfSun
  <2> QED BY <2>1, <2>2, NextSecond
<1>y. y = Ran(e, z, t, now)
  OBVIOUS
<1> HIDE DEF y, z, r
<1>3. DueAt(e, z, t) <=> z.at = r /\ WeekDay(t) \in e.days
  BY DEF DueAt, r
<1>4. SunIn(now, DayOffset((WeekDay(t) + 1) % WeekLength, e.days)) \in 0 .. (DayLength - 1)
  <2>1. (WeekDay(t) + 1) % WeekLength \in Nat
    BY <1>1
  <2> QED BY <2>1, DayOffsetTyped, SunTyped
<1>5. ASSUME NEW x \in EventState, x.at <= r <=> x.at < r \/ x.at = r
      PROVE  Passed(x, t + 1) <=> x.at < r \/ x.at = r
  BY <1>1, <1>5 DEF Passed, r
<1>6. ASSUME NEW x \in EventState PROVE Passed(x, t + 1) <=> x.at < r \/ x.at = r
  BY <1>1, <1>5, <1>6 DEF EventState
<1>7. IsDay(e, t + 1) <=> WeekDay(t) \in e.days
  BY <1>1 DEF IsDay
<1>w. WeekDay((t + 1) - 1) = WeekDay(t)
  BY <1>1
<1>8. CASE ~DueAt(e, z, t)
  <2>1. y = z /\ ~(z.at = r /\ WeekDay(t) \in e.days)
    BY <1>3, <1>8, <1>y DEF Ran
  <2>2. Passed(z, t + 1) <=> z.at < r \/ z.at = r
    BY <1>2, <1>6
  <2> QED BY <1>2, <1>7, <1>w, <2>1, <2>2 DEF EventAt, OfTime, OfSun
<1>9. CASE DueAt(e, z, t) /\ ~e.sun
  <2>1. y = [z EXCEPT !.runs = @ + 1]
    BY <1>9, <1>y DEF Ran
  <2>2. /\ y \in EventState /\ y.runs = z.runs + 1 /\ y.at = z.at /\ y.ran = z.ran /\ y.whole = z.whole /\ y.again = z.again
    BY <1>2, <2>1 DEF EventState
  <2>3. Passed(y, t + 1) /\ IsDay(e, t + 1) /\ ~(z.at < r)
    BY <1>1, <1>2, <1>3, <1>6, <1>7, <1>9, <2>2 DEF EventState
  <2> QED BY <1>2, <1>9, <2>2, <2>3 DEF EventAt, OfTime, OfSun, MissedOnce
<1>10. CASE DueAt(e, z, t) /\ e.sun /\ z.lastDay # WeekDay(t)
  <2>1. y = [z EXCEPT !.runs = @ + 1, !.lastDay = WeekDay(t),
               !.at = SunIn(now, DayOffset((WeekDay(t) + 1) % WeekLength, e.days))]
    BY <1>10, <1>y DEF Ran, Rescheduled
  <2>2. y \in EventState /\ y.runs = z.runs + 1 /\ y.lastDay = WeekDay(t) /\ y.missed = z.missed /\ y.whole = z.whole
    <3> DEFINE n == SunIn(now, DayOffset((WeekDay(t) + 1) % WeekLength, e.days))
               w == WeekDay(t)
    <3>1. n \in 0 .. (DayLength - 1) /\ w \in 0 .. (WeekLength - 1)
      BY <1>1, <1>4
    <3> HIDE DEF n, w
    <3>2. y = [z EXCEPT !.runs = @ + 1, !.lastDay = w, !.at = n]
      BY <2>1 DEF n, w
    <3>3. y.lastDay = w /\ y.runs = z.runs + 1 /\ y.missed = z.missed /\ y.whole = z.whole
      BY <1>2, <3>2 DEF EventState
    <3>4. w \in (0 .. (WeekLength - 1)) \cup {NoDay} /\ z.runs + 1 \in Nat
      BY <1>2, <3>1 DEF EventState
    <3>5. y \in EventState
      BY <1>2, <3>1, <3>2, <3>4 DEF EventState
    <3> QED BY <3>3, <3>5 DEF w
  <2>3. z.whole => z.runs = 0
    <3>1. ~(z.at < r) /\ z.runs \in Nat
      BY <1>1, <1>2, <1>3, <1>10 DEF EventState
    <3> QED BY <1>2, <1>10, <3>1
  <2>4. z.runs \in Nat
    BY <1>2 DEF EventState
  <2> QED BY <1>2, <1>10, <1>w, <2>2, <2>3, <2>4 DEF EventAt, OfTime, OfSun, MissedOnce
<1>11. CASE DueAt(e, z, t) /\ e.sun /\ z.lastDay = WeekDay(t)
  <2>1. y = [z EXCEPT !.lastDay = NoDay]
    BY <1>11, <1>y DEF Ran
  <2>2. /\ y \in EventState /\ y.runs = z.runs /\ y.lastDay = NoDay /\ y.missed = z.missed /\ y.whole = z.whole
        /\ y.at = z.at /\ y.again = z.again
    BY <1>2, <2>1 DEF EventState
  <2>3. Passed(y, t + 1)
    BY <1>3, <1>6, <1>11, <2>2
  <2>4. z.lastDay # NoDay
    BY <1>1, <1>11 DEF NoDay
  <2>5. z.runs = 0 => z.missed = 0
    BY <1>2, <1>11, <2>4 DEF MissedOnce, EventState
  <2> QED BY <1>2, <1>11, <2>2, <2>3, <2>5 DEF EventAt, OfTime, OfSun, MissedOnce
<1> QED BY <1>8, <1>9, <1>10, <1>11

\* A day of which something was not seen says nothing of the second that comes next.
LEMMA WholeOrNot ==
  ASSUME NEW e, NEW s, NEW t, NEW u, NEW b \in BOOLEAN, EventAt(e, s, t), b => s.whole /\ u = t
  PROVE  EventAt(e, [s EXCEPT !.whole = b], u)
<1> DEFINE z == [s EXCEPT !.whole = b]
<1>1. /\ z \in EventState /\ z.whole = b /\ z.at = s.at /\ z.lastDay = s.lastDay
      /\ z.runs = s.runs /\ z.ran = s.ran /\ z.missed = s.missed /\ z.again = s.again
  BY DEF EventAt, EventState
<1> HIDE DEF z
<1>2. EventAt(e, z, u)
  BY <1>1 DEF EventAt, OfTime, OfSun, MissedOnce, Passed
<1> QED BY <1>2 DEF z

\* All the seconds that are made up for are run.
LEMMA RunSecondsKeeps ==
  ASSUME sun \in Suns, NEW e \in ClockEvents, NEW now \in 0 .. LastSecond,
         eventsTime \in Nat \ {0}, now >= eventsTime, EventAt(e, clockEvents[e], eventsTime)
  PROVE  /\ Behind(now) \in Nat /\ (now - eventsTime <= CatchUp => eventsTime + Behind(now) = now)
         /\ EventAt(e, RunSeconds(e, now), eventsTime + Behind(now))
<1> DEFINE K == Behind(now)
<1>1. K \in Nat /\ (now - eventsTime <= CatchUp => eventsTime + K = now)
  BY DEF Behind
<1>2. PICK f : RunsBySecond(f, e, now) /\ RunSeconds(e, now) = f[K]
  BY <1>1, SecondsAreRun
<1>3. /\ f[0] = clockEvents[e]
      /\ \A n \in 1 .. K : f[n] = Ran(e, DayOver(e, f[n - 1], eventsTime + n - 1), eventsTime + n - 1, now)
  BY <1>2 DEF RunsBySecond
<1> HIDE DEF K
<1> DEFINE S == {n \in 0 .. K : EventAt(e, f[n], eventsTime + n)}
<1>4. 0 \in S
  <2>1. eventsTime + 0 = eventsTime /\ 0 \in 0 .. K
    BY <1>1
  <2> QED BY <1>3, <2>1
<1>5. ASSUME NEW n \in 0 .. (K - 1), n \in S PROVE n + 1 \in S
  <2>1. /\ n + 1 \in 1 .. K /\ (n + 1) - 1 = n /\ eventsTime + (n + 1) - 1 = eventsTime + n
        /\ eventsTime + n \in Nat \ {0} /\ (eventsTime + n) + 1 = eventsTime + (n + 1) /\ n + 1 \in 0 .. K
    BY <1>1
  <2>2. f[n + 1] = Ran(e, DayOver(e, f[n], eventsTime + n), eventsTime + n, now)
    BY <1>3, <2>1
  <2>3. EventAt(e, f[n], eventsTime + n)
    BY <1>5
  <2>4. EventAt(e, f[n + 1], (eventsTime + n) + 1)
    BY <2>1, <2>2, <2>3, SecondKeeps
  <2> QED BY <2>1, <2>4
<1> HIDE DEF S
<1>6. K \in S
  BY <1>1, <1>4, <1>5, StepByStep
<1>7. EventAt(e, f[K], eventsTime + K)
  BY <1>6 DEF S
<1> QED BY <1>1, <1>2, <1>7 DEF K

TimedInv ==
  /\ clock \in 0 .. LastSecond /\ eventsTime \in 0 .. LastSecond /\ sun \in Suns
  /\ DOMAIN clockEvents \subseteq ClockEvents
  /\ \A e \in DOMAIN clockEvents : EventAt(e, clockEvents[e], eventsTime)

LEMMA AddedKeeps ==
  ASSUME TimedInv, NEW e \in ClockEvents
  PROVE  EventAt(e, Added(e), eventsTime)
<1>1. WeekDay(eventsTime) \in Nat
  BY WeekDayTyped DEF TimedInv
<1>2. SunIn(clock, DayOffset(WeekDay(eventsTime), e.days)) \in 0 .. (DayLength - 1)
  BY <1>1, DayOffsetTyped, SunTyped DEF TimedInv
<1> DEFINE a == IF e.sun THEN SunIn(clock, DayOffset(WeekDay(eventsTime), e.days)) ELSE e.at
<1>3. a \in 0 .. (DayLength - 1) /\ (~e.sun => a = e.at)
  BY <1>2
<1>4. Added(e) = [at |-> a, lastDay |-> NoDay, runs |-> 0, whole |-> FALSE, again |-> FALSE, ran |-> NoDay, missed |-> 0]
  BY DEF Added
<1> HIDE DEF a
<1>5. NoDay # Repeated /\ Added(e) \in EventState
  BY <1>3, <1>4 DEF EventState, NoDay, Repeated
<1> QED BY <1>3, <1>4, <1>5 DEF EventAt, OfTime, OfSun, MissedOnce

LEMMA TimedStep == ASSUME TimedInv, [TimedNext]_timedVars PROVE TimedInv'
<1>1. /\ clock \in 0 .. LastSecond /\ eventsTime \in 0 .. LastSecond /\ sun \in Suns
      /\ DOMAIN clockEvents \subseteq ClockEvents
      /\ \A e \in DOMAIN clockEvents : EventAt(e, clockEvents[e], eventsTime)
  BY DEF TimedInv
<1>2. CASE EverySecond
  <2> DEFINE now == clock + 1
             Of(e) == IF eventsTime = 0 \/ now < eventsTime THEN [clockEvents[e] EXCEPT !.whole = FALSE]
                      ELSE [RunSeconds(e, now) EXCEPT !.whole = RunSeconds(e, now).whole /\ now - eventsTime <= CatchUp]
  <2>1. /\ clock' = now /\ eventsTime' = now /\ sun' = sun /\ now \in 0 .. LastSecond
        /\ clockEvents' = [e \in DOMAIN clockEvents |-> Of(e)]
    BY <1>2 DEF EverySecond
  <2>2. ASSUME NEW e \in DOMAIN clockEvents PROVE EventAt(e, Of(e), now)
    <3>0. e \in ClockEvents /\ EventAt(e, clockEvents[e], eventsTime)
      BY <1>1
    <3>1. CASE eventsTime = 0 \/ now < eventsTime
      <4>1. EventAt(e, [clockEvents[e] EXCEPT !.whole = FALSE], now)
        BY <3>0, WholeOrNot
      <4> QED BY <3>1, <4>1
    <3>2. CASE ~(eventsTime = 0 \/ now < eventsTime)
      <4> DEFINE z == RunSeconds(e, now)
                 b == z.whole /\ now - eventsTime <= CatchUp
      <4>1. eventsTime \in Nat \ {0} /\ now >= eventsTime
        BY <1>1, <2>1, <3>2
      <4>2. /\ now - eventsTime <= CatchUp => eventsTime + Behind(now) = now
            /\ EventAt(e, z, eventsTime + Behind(now))
        BY <1>1, <2>1, <3>0, <4>1, RunSecondsKeeps
      <4>3. b \in BOOLEAN
        BY <4>2 DEF EventAt, EventState
      <4>4. Of(e) = [z EXCEPT !.whole = b]
        BY <3>2
      <4> HIDE DEF z, Of
      <4>5. EventAt(e, [z EXCEPT !.whole = b], now)
        BY <4>2, <4>3, WholeOrNot
      <4> QED BY <4>4, <4>5
    <3> QED BY <3>1, <3>2
  <2> HIDE DEF Of, now
  <2>3. DOMAIN clockEvents' = DOMAIN clockEvents /\ \A e \in DOMAIN clockEvents' : clockEvents'[e] = Of(e)
    BY <2>1
  <2>4. \A e \in DOMAIN clockEvents' : EventAt(e, clockEvents'[e], eventsTime')
    BY <2>1, <2>2, <2>3
  <2> QED BY <1>1, <2>1, <2>3, <2>4 DEF TimedInv, EventAt, OfTime, OfSun, IsDay, Passed, MissedOnce, WeekDay
<1>3. ASSUME UNCHANGED <<clock, eventsTime, sun>>,
             NEW D, DOMAIN clockEvents' = D, D \subseteq ClockEvents,
             \A e \in D : clockEvents'[e] = Added(e) \/ (e \in DOMAIN clockEvents /\ clockEvents'[e] = clockEvents[e])
      PROVE  TimedInv'
  <2>1. ASSUME NEW e \in D PROVE EventAt(e, clockEvents'[e], eventsTime)
    <3>1. e \in ClockEvents
      BY <1>3
    <3>2. EventAt(e, Added(e), eventsTime)
      BY <3>1, AddedKeeps
    <3> QED BY <1>1, <1>3, <3>2
  <2> QED BY <1>1, <1>3, <2>1 DEF TimedInv, EventAt, OfTime, OfSun, IsDay, Passed, MissedOnce, WeekDay
<1>4. ASSUME NEW e \in ClockEvents, AddClockEvent(e) PROVE TimedInv'
  <2>1. /\ UNCHANGED <<clock, eventsTime, sun>>
        /\ clockEvents' = [f \in DOMAIN clockEvents \cup {e} |-> IF f = e THEN Added(e) ELSE clockEvents[f]]
    BY <1>4 DEF AddClockEvent
  <2> QED BY <1>1, <1>3, <2>1
<1>5. ASSUME NEW e \in ClockEvents, RemoveClockEvent(e) PROVE TimedInv'
  <2>1. /\ UNCHANGED <<clock, eventsTime, sun>>
        /\ clockEvents' = [f \in DOMAIN clockEvents \ {e} |-> clockEvents[f]]
    BY <1>5 DEF RemoveClockEvent
  <2> QED BY <1>1, <1>3, <2>1
<1>6. ASSUME NEW d \in Corrections, SetDeviceTime(d) PROVE TimedInv'
  <2>1. clock' \in 0 .. LastSecond /\ UNCHANGED <<eventsTime, clockEvents, sun>>
    BY <1>6 DEF SetDeviceTime
  <2> QED BY <1>1, <2>1 DEF TimedInv, EventAt, OfTime, OfSun, IsDay, Passed, MissedOnce, WeekDay
<1>7. CASE UNCHANGED timedVars
  BY <1>1, <1>7 DEF timedVars, TimedInv, EventAt, OfTime, OfSun, IsDay, Passed, MissedOnce, WeekDay
<1> QED BY <1>2, <1>4, <1>5, <1>6, <1>7 DEF TimedNext

LEMMA TimedInvAlways == TimedSpec => []TimedInv
<1>1. TimedInit => TimedInv
  BY DEF TimedInit, TimedInv
<1> QED BY <1>1, TimedStep, PTL DEF TimedSpec

\* The clock and the events keep their ranges, wherever the clock is put; only an event
\* of the sun is moved (TIME_setDeviceTime, TIME_RunEventsForSecond).
THEOREM TimedTyped == TimedSpec => []TimedTypeOK
<1>1. TimedInv => TimedTypeOK
  BY DEF TimedInv, TimedTypeOK, EventAt, OfTime, EventState
<1> QED BY <1>1, TimedInvAlways, PTL

\* However long days, weeks and what is made up for are, wherever the clock is put and
\* whatever the sun does: on its days that were seen as a whole a command for a time of
\* day runs once, and so does one for the sun unless that is the day of the week it ran
\* on the last time, of which it misses no two in a row (TIME_RunEvents, TIME_RunEventsForSecond).
THEOREM EventsRunOnceADay == TimedSpec => []OnceADay
<1>1. TimedInv => OnceADay
  <2> SUFFICES ASSUME TimedInv, NEW e \in DOMAIN clockEvents
               PROVE  /\ ~e.sun => clockEvents[e].ran \in {1, NoDay}
                      /\ e.sun => clockEvents[e].ran \in {1, NoDay, Repeated}
                      /\ e.sun => clockEvents[e].missed <= 1
    BY DEF OnceADay, RunsOnceADay, SunOnceADay, SunMissesNoTwo
  <2> QED BY DEF TimedInv, EventAt, OfTime, MissedOnce, EventState
<1> QED BY <1>1, TimedInvAlways, PTL
=============================================================================
