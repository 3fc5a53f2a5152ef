---------------------------- MODULE Rings_proofs ----------------------------
(***************************************************************************)
(* The ring of the log and the ring of the UART, for all their sizes: to   *)
(* each reader they are the queue LossyFifo, what is read from the log are *)
(* whole lines, and what is found in the UART's bytes are the packets that *)
(* were sent.  All rest on two lemmas about rings, RingPut and RingTake,   *)
(* and on invariants that relate what a reader has before it to what the   *)
(* writers and the parser are about to do.                                 *)
(***************************************************************************)
EXTENDS LogRing, TuyaFrames, SequenceTheorems, WellFoundedInduction, TLAPS

(***************************************************************************)
(* Rings in general                                                        *)
(***************************************************************************)

Place(N, x) == x % N

\* The n items of a ring of N places from t on.
Content(N, ring, t, n) == [i \in 1 .. n |-> ring[Place(N, t + i - 1)]]

LastOf(s, n) == SubSeq(s, IF Len(s) > n THEN Len(s) - n + 1 ELSE 1, Len(s))

LEMMA ModIs ==
  ASSUME NEW N \in Nat, N > 1
  PROVE  /\ \A x \in 0 .. 2 * N - 1 : Place(N, x) = IF x < N THEN x ELSE x - N
         /\ \A x \in 1 - N .. -1 : Place(N, x) = x + N
BY DEF Place

\* Places that are less than N steps apart.
LEMMA ModTwice ==
  ASSUME NEW N \in Nat, N > 1, NEW t \in 0 .. N - 1, NEW a \in 0 .. N, NEW b \in Nat, a + b <= N
  PROVE  /\ Place(N, t + a) \in 0 .. N - 1
         /\ Place(N, Place(N, t + a) + b) = Place(N, t + (a + b))
BY ModIs

LEMMA Distance ==
  ASSUME NEW N \in Nat, N > 1, NEW t \in 0 .. N - 1, NEW n \in 0 .. N - 1
  PROVE  /\ Place(N, Place(N, t + n) - t) = n
         /\ (Place(N, t + n) = t <=> n = 0)
         /\ (Place(N, Place(N, t + n) + 1) = t <=> n = N - 1)
         /\ \A i \in 0 .. N - 1 : Place(N, t + i) = Place(N, t + n) <=> i = n
BY ModIs

\* An item is put behind the others; if the ring is full the first one gives way.
PutLast(N, S, ring, t, n, x, h, new, t2, n2) ==
  /\ h \in 0 .. N - 1 /\ new \in [0 .. N - 1 -> S]
  /\ t2 \in 0 .. N - 1 /\ n2 \in 0 .. N - 1 /\ Place(N, h + 1) = Place(N, t2 + n2)
  /\ Content(N, new, t2, n2) = LastOf(Append(Content(N, ring, t, n), x), N - 1)

LEMMA RingPut ==
  ASSUME NEW N \in Nat, N > 1, NEW S, NEW ring \in [0 .. N - 1 -> S],
         NEW t \in 0 .. N - 1, NEW n \in 0 .. N - 1, NEW x \in S,
         NEW h, h = Place(N, t + n), NEW new, new = [ring EXCEPT ![h] = x],
         NEW t2, t2 = IF Place(N, h + 1) = t THEN Place(N, t + 1) ELSE t,
         NEW n2, n2 = IF n = N - 1 THEN n ELSE n + 1
  PROVE  PutLast(N, S, ring, t, n, x, h, new, t2, n2)
<1> DEFINE c == Content(N, ring, t, n)  all == Append(c, x)  d == Content(N, new, t2, n2)
<1>1. h \in 0 .. N - 1 /\ (Place(N, h + 1) = t <=> n = N - 1)
  <2> HIDE DEF c, all, d
  <2>1. n \in 0 .. N /\ 0 \in Nat /\ n + 0 <= N
    OBVIOUS
  <2>2. Place(N, t + n) \in 0 .. N - 1
    BY <2>1, ModTwice
  <2>3. Place(N, Place(N, t + n) + 1) = t <=> n = N - 1
    BY Distance, Zenon
  <2> QED
    BY <2>2, <2>3
<1>2. new \in [0 .. N - 1 -> S] /\ \A p \in 0 .. N - 1 : new[p] = IF p = h THEN x ELSE ring[p]
  BY <1>1
<1>3. t2 \in 0 .. N - 1 /\ n2 \in 0 .. N - 1
  BY <1>1, ModIs
<1>4. Place(N, h + 1) = Place(N, t2 + n2)
  <2>1. CASE n = N - 1
    <3>1. t2 = Place(N, t + 1) /\ n2 = N - 1 /\ Place(N, h + 1) = t
      BY <2>1, <1>1
    <3> QED
      BY <3>1, ModIs
  <2>2. CASE n # N - 1
    <3>1. t2 = t /\ n2 = n + 1
      BY <2>2, <1>1
    <3> QED
      BY <2>2, <3>1, ModIs
  <2> QED
    BY <2>1, <2>2
<1>5. ASSUME NEW i \in 0 .. N - 1
      PROVE  Place(N, t + i) \in 0 .. N - 1 /\ new[Place(N, t + i)] = IF i = n THEN x ELSE ring[Place(N, t + i)]
  <2>1. Place(N, t + i) \in 0 .. N - 1 /\ (Place(N, t + i) = h <=> i = n)
    BY ModIs, SMTT(30)
  <2> QED
    BY <2>1, <1>2
<1>6. /\ c \in Seq(S) /\ Len(c) = n /\ \A i \in 1 .. n : c[i] = ring[Place(N, t + i - 1)]
  <2>1. ASSUME NEW i \in 1 .. n PROVE ring[Place(N, t + i - 1)] \in S
    <3>1. i - 1 \in 0 .. N - 1 /\ t + i - 1 = t + (i - 1)
      OBVIOUS
    <3> QED
      BY <3>1, <1>5
  <2> QED
    BY <2>1 DEF Content
<1> HIDE DEF c
<1>7. /\ all \in Seq(S) /\ Len(all) = n + 1 /\ \A i \in 1 .. n : all[i] = c[i]
      /\ all[n + 1] = x
  BY <1>6, AppendProperties
<1> HIDE DEF all
<1>8. ASSUME NEW i \in 1 .. n + 1 PROVE all[i] = new[Place(N, t + (i - 1))]
  <2>1. i - 1 \in 0 .. N - 1 /\ t + (i - 1) = t + i - 1 /\ (i - 1 = n <=> i = n + 1)
    OBVIOUS
  <2>2. CASE i = n + 1
    BY <2>1, <2>2, <1>5, <1>7
  <2>3. CASE i # n + 1
    <3>1. i \in 1 .. n
      BY <2>3
    <3>2. all[i] = ring[Place(N, t + (i - 1))]
      BY <3>1, <2>1, <1>6, <1>7
    <3> QED
      BY <3>2, <2>1, <2>3, <1>5
  <2> QED
    BY <2>2, <2>3
<1>9. CASE n # N - 1
  <2>1. t2 = t /\ n2 = n + 1
    BY <1>9, <1>1
  <2>2. \A i \in 1 .. n2 : new[Place(N, t2 + i - 1)] = all[i]
    <3> SUFFICES ASSUME NEW i \in 1 .. n2 PROVE new[Place(N, t2 + i - 1)] = all[i]
      OBVIOUS
    <3>1. i \in 1 .. n + 1 /\ t2 + i - 1 = t + (i - 1)
      BY <2>1
    <3> QED
      BY <3>1, <1>8
  <2>3. LastOf(all, N - 1) = SubSeq(all, 1, Len(all))
    BY <1>7, <1>9 DEF LastOf
  <2>4. LastOf(all, N - 1) = all
    BY <2>3, <1>7, SubSeqFull
  <2>5. all = [i \in 1 .. n + 1 |-> all[i]]
    BY <1>7
  <2>6. d = all
    BY <2>1, <2>2, <2>5 DEF Content
  <2> QED
    BY <2>4, <2>6, <1>1, <1>2, <1>3, <1>4 DEF all, c, PutLast
<1>10. CASE n = N - 1
  <2>1. t2 = Place(N, t + 1) /\ n2 = N - 1
    BY <1>10, <1>1
  <2>2. \A i \in 1 .. n2 : new[Place(N, t2 + i - 1)] = all[i + 1]
    <3> SUFFICES ASSUME NEW i \in 1 .. n2 PROVE new[Place(N, t2 + i - 1)] = all[i + 1]
      OBVIOUS
    <3>1. i + 1 \in 1 .. n + 1 /\ i - 1 \in Nat /\ 1 + (i - 1) <= N /\ 1 \in 0 .. N
          /\ 1 + (i - 1) = (i + 1) - 1
      BY <2>1, <1>10
    <3>2. Place(N, Place(N, t + 1) + (i - 1)) = Place(N, t + (1 + (i - 1)))
      BY <3>1, ModTwice
    <3>3. t2 + i - 1 = Place(N, t + 1) + (i - 1)
      BY <2>1, <1>3
    <3>4. all[i + 1] = new[Place(N, t + ((i + 1) - 1))]
      BY <3>1, <1>8
    <3> QED
      BY <3>1, <3>2, <3>3, <3>4
  <2>3. LastOf(all, N - 1) = SubSeq(all, 2, Len(all)) /\ Len(all) = N
    <3>1. Len(all) = N /\ (IF Len(all) > N - 1 THEN Len(all) - (N - 1) + 1 ELSE 1) = 2
      BY <1>7, <1>10
    <3> QED
      BY <3>1 DEF LastOf
  <2>4. SubSeq(all, 2, N) = [i \in 1 .. N - 1 |-> all[i + 1]]
    BY <1>7, <2>3
  <2>5. d = [i \in 1 .. N - 1 |-> all[i + 1]]
    BY <2>1, <2>2 DEF Content
  <2> QED
    BY <2>3, <2>4, <2>5, <1>1, <1>2, <1>3, <1>4 DEF all, c, PutLast
<1> QED
  BY <1>9, <1>10

\* A reader takes the first k items.
TakenFirst(N, ring, t, n, k) ==
  /\ Place(N, t + k) \in 0 .. N - 1 /\ n - k \in 0 .. N - 1
  /\ Place(N, Place(N, t + k) + (n - k)) = Place(N, t + n)
  /\ Len(Content(N, ring, t, n)) = n
  /\ Content(N, ring, Place(N, t + k), n - k) = LastOf(Content(N, ring, t, n), n - k)

LEMMA RingTake ==
  ASSUME NEW N \in Nat, N > 1, NEW S, NEW ring \in [0 .. N - 1 -> S],
         NEW t \in 0 .. N - 1, NEW n \in 0 .. N - 1, NEW k \in 0 .. n
  PROVE  TakenFirst(N, ring, t, n, k)
<1> DEFINE c == Content(N, ring, t, n)  u == Place(N, t + k)
<1>1. u \in 0 .. N - 1 /\ n - k \in 0 .. N - 1 /\ Place(N, u + (n - k)) = Place(N, t + n)
  <2>1. /\ k \in 0 .. N /\ n - k \in Nat /\ k + (n - k) <= N /\ k + (n - k) = n
        /\ n - k \in 0 .. N - 1
    OBVIOUS
  <2>2. Place(N, t + k) \in 0 .. N - 1
    BY <2>1, ModTwice
  <2>3. Place(N, Place(N, t + k) + (n - k)) = Place(N, t + (k + (n - k)))
    BY <2>1, ModTwice
  <2> QED
    BY <2>1, <2>2, <2>3
<1>2. c \in Seq(S) /\ Len(c) = n /\ \A i \in 1 .. n : c[i] = ring[Place(N, t + i - 1)]
  <2>1. ASSUME NEW i \in 1 .. n PROVE ring[Place(N, t + i - 1)] \in S
    <3>1. t + i - 1 \in 0 .. 2 * N - 1
      OBVIOUS
    <3>2. Place(N, t + i - 1) \in 0 .. N - 1
      BY <3>1, ModIs
    <3> QED
      BY <3>2
  <2> QED
    BY <2>1 DEF Content
<1>3. ASSUME NEW i \in 1 .. n - k PROVE ring[Place(N, u + i - 1)] = c[k + i]
  <2>1. /\ i - 1 \in Nat /\ k + (i - 1) <= N /\ k \in 0 .. N /\ k + i \in 1 .. n
        /\ t + (k + (i - 1)) = t + (k + i) - 1
    OBVIOUS
  <2>2. Place(N, Place(N, t + k) + (i - 1)) = Place(N, t + (k + (i - 1)))
    BY <2>1, ModTwice
  <2>3. u + i - 1 = u + (i - 1)
    BY <1>1
  <2> QED
    BY <2>1, <2>2, <2>3, <1>2
<1> HIDE DEF c, u
<1>4. LastOf(c, n - k) = SubSeq(c, k + 1, n)
  <2>1. (IF Len(c) > n - k THEN Len(c) - (n - k) + 1 ELSE 1) = k + 1
    BY <1>2
  <2> QED
    BY <2>1, <1>2 DEF LastOf
<1>5. SubSeq(c, k + 1, n) = [i \in 1 .. n - k |-> c[k + i]]
  BY <1>2
<1>6. Content(N, ring, u, n - k) = [i \in 1 .. n - k |-> c[k + i]]
  BY <1>3 DEF Content
<1> QED
  BY <1>1, <1>2, <1>4, <1>5, <1>6 DEF c, u, TakenFirst

(***************************************************************************)
(* The log                                                                 *)
(***************************************************************************)

LogPlaces == 0 .. LogSize - 1
Stored == Character \cup {NoCharacter}

RingTyped ==
  /\ log \in [LogPlaces -> Stored] /\ head \in LogPlaces /\ tail \in [Readers -> LogPlaces]

LEMMA LogSizes ==
  /\ LogSize \in Nat /\ LogSize > 1 /\ Chunk \in Nat /\ Chunk > 0
  /\ FifoSize \in Nat /\ FifoSize > 0 /\ Unheld \notin Writers
  /\ \A w \in Writers : LineOf[w] \in 1 .. LogSize
<1>1. {Chunk, FifoSize} \subseteq Nat \ {0} /\ LineOf \in [Writers -> 1 .. LogSize]
  BY LogAssumption
<1>2. Chunk \in Nat \ {0} /\ FifoSize \in Nat \ {0}
  BY <1>1
<1> QED
  BY <1>1, <1>2, LogAssumption

\* What a reader has before it is the content of the ring from its tail on.
LEMMA ReaderSees ==
  ASSUME RingTyped, NEW r \in Readers
  PROVE  /\ Filled(r) \in LogPlaces /\ tail[r] \in LogPlaces
         /\ head = Place(LogSize, tail[r] + Filled(r))
         /\ Unread(r) = Content(LogSize, log, tail[r], Filled(r))
<1>1. tail[r] \in 0 .. LogSize - 1 /\ head \in 0 .. LogSize - 1
  BY DEF RingTyped, LogPlaces
<1>2. Filled(r) = Place(LogSize, head - tail[r])
  BY DEF Filled, Place
<1>3. /\ Place(LogSize, head - tail[r]) \in 0 .. LogSize - 1
      /\ head = Place(LogSize, tail[r] + Place(LogSize, head - tail[r]))
  BY <1>1, LogSizes, ModIs
<1>4. Unread(r) = Content(LogSize, log, tail[r], Filled(r))
  BY DEF Unread, Content, Place
<1> QED
  BY <1>1, <1>2, <1>3, <1>4 DEF LogPlaces

\* A character that is logged comes last for every reader.
LEMMA CopyUnread ==
  ASSUME RingTyped, NEW x \in Character,
         log' = [log EXCEPT ![head] = x], head' = Step(head),
         tail' = [r \in Readers |-> MovedOn(r, Step(head))]
  PROVE  /\ RingTyped'
         /\ \A r \in Readers : Unread(r)' = LastOf(Append(Unread(r), x), LogSize - 1)
<1>1. Step(head) = Place(LogSize, head + 1)
  BY DEF Step, Place
<1>2. ASSUME NEW r \in Readers
      PROVE  /\ tail'[r] \in LogPlaces /\ head' \in LogPlaces /\ log' \in [LogPlaces -> Stored]
             /\ Unread(r)' = LastOf(Append(Unread(r), x), LogSize - 1)
  <2> DEFINE n == Filled(r)  t == tail[r]
             t2 == IF Place(LogSize, head + 1) = t THEN Place(LogSize, t + 1) ELSE t
             n2 == IF n = LogSize - 1 THEN n ELSE n + 1
  <2>1. /\ n \in 0 .. LogSize - 1 /\ t \in 0 .. LogSize - 1 /\ head = Place(LogSize, t + n)
        /\ Unread(r) = Content(LogSize, log, t, n)
    BY ReaderSees DEF LogPlaces
  <2>2. /\ head' = Place(LogSize, head + 1) /\ x \in Stored
        /\ log \in [0 .. LogSize - 1 -> Stored]
    BY <1>1 DEF RingTyped, LogPlaces, Stored
  <2>3. tail'[r] = t2
    BY <1>1 DEF MovedOn, Step, Place
  <2> HIDE DEF n, t, t2, n2
  <2>4. /\ head \in 0 .. LogSize - 1 /\ log' \in [0 .. LogSize - 1 -> Stored]
        /\ t2 \in 0 .. LogSize - 1 /\ n2 \in 0 .. LogSize - 1
        /\ Place(LogSize, head + 1) = Place(LogSize, t2 + n2)
        /\ Content(LogSize, log', t2, n2)
             = LastOf(Append(Content(LogSize, log, t, n), x), LogSize - 1)
    <3>1. /\ t2 = IF Place(LogSize, head + 1) = t THEN Place(LogSize, t + 1) ELSE t
          /\ n2 = IF n = LogSize - 1 THEN n ELSE n + 1
      BY DEF t2, n2
    <3>2. LogSize \in Nat /\ LogSize > 1 /\ log' = [log EXCEPT ![head] = x]
      BY LogSizes
    <3>3. PutLast(LogSize, Stored, log, t, n, x, head, log', t2, n2)
      BY <2>1, <2>2, <3>1, <3>2, RingPut
    <3> QED
      BY <3>3 DEF PutLast
  <2>5. Place(LogSize, Place(LogSize, t2 + n2) - t2) = n2 /\ head' \in 0 .. LogSize - 1
    <3>1. Place(LogSize, Place(LogSize, t2 + n2) - t2) = n2
      BY <2>4, LogSizes, Distance
    <3>2. Place(LogSize, t2 + n2) \in 0 .. LogSize - 1
      BY <2>4, LogSizes, ModIs
    <3> QED
      BY <3>1, <3>2, <2>2, <2>4
  <2>6. Filled(r)' = n2
    BY <2>2, <2>3, <2>4, <2>5 DEF Filled, Place
  <2>7. Unread(r)' = Content(LogSize, log', t2, n2)
    BY <2>3, <2>6 DEF Unread, Content, Place
  <2> QED
    BY <2>1, <2>3, <2>4, <2>5, <2>7 DEF LogPlaces
<1>3. "tcp" \in Readers
  BY DEF Readers
<1>4. RingTyped'
  BY <1>2, <1>3 DEF RingTyped
<1> QED
  BY <1>2, <1>4

\* A reader takes k characters, and the others see what they saw.
LEMMA TakeUnread ==
  ASSUME RingTyped, NEW r \in Readers, NEW k \in 0 .. Filled(r),
         tail' = [tail EXCEPT ![r] = (@ + k) % LogSize], log' = log, head' = head
  PROVE  /\ RingTyped'
         /\ Unread(r)' = LastOf(Unread(r), Filled(r) - k) /\ Len(Unread(r)) = Filled(r)
         /\ \A q \in Readers : q # r => Unread(q)' = Unread(q)
<1> DEFINE n == Filled(r)  t == tail[r]  u == Place(LogSize, t + k)
<1>1. /\ n \in 0 .. LogSize - 1 /\ t \in 0 .. LogSize - 1 /\ head = Place(LogSize, t + n)
      /\ Unread(r) = Content(LogSize, log, t, n) /\ log \in [0 .. LogSize - 1 -> Stored]
      /\ k \in 0 .. n
  BY ReaderSees DEF LogPlaces, RingTyped
<1>2. /\ tail'[r] = u /\ \A q \in Readers : q # r => tail'[q] = tail[q]
      /\ tail' = [tail EXCEPT ![r] = u]
  BY DEF RingTyped, Place
<1> HIDE DEF n, t, u
<1>3. /\ u \in 0 .. LogSize - 1 /\ n - k \in 0 .. LogSize - 1
      /\ Place(LogSize, u + (n - k)) = Place(LogSize, t + n)
      /\ Len(Content(LogSize, log, t, n)) = n
      /\ Content(LogSize, log, u, n - k) = LastOf(Content(LogSize, log, t, n), n - k)
  <2>1. TakenFirst(LogSize, log, t, n, k)
    BY <1>1, LogSizes, RingTake
  <2> QED
    BY <2>1 DEF TakenFirst, u
<1>4. Place(LogSize, Place(LogSize, u + (n - k)) - u) = n - k
  BY <1>3, LogSizes, Distance
<1>5. Filled(r)' = n - k
  BY <1>1, <1>2, <1>3, <1>4 DEF Filled, Place
<1>6. Unread(r)' = Content(LogSize, log, u, n - k)
  BY <1>2, <1>5 DEF Unread, Content, Place
<1>7. RingTyped'
  BY <1>2, <1>3 DEF RingTyped, LogPlaces
<1>8. ASSUME NEW q \in Readers, q # r PROVE Unread(q)' = Unread(q)
  BY <1>2, <1>8 DEF Unread, Filled
<1> QED
  BY <1>1, <1>3, <1>6, <1>7, <1>8 DEF n

\* The rest of the state, and how a loss shows: the ring stays full until the serial
\* port is sent something.
WritersTyped ==
  /\ mutex \in Writers \cup {Unheld} /\ buffer \in Writers
  /\ at \in [Writers -> {"idle", "copy", "trigger"}]
  /\ pos \in [Writers -> Nat] /\ \A w \in Writers : pos[w] <= LineOf[w]
  /\ written \in Nat /\ client \in BOOLEAN

TimerTyped ==
  /\ pended \in BOOLEAN /\ timerCalls \in 0 .. 1 /\ (timerCalls = 1 => pended)
  /\ fifo \in 0 .. FifoSize

LossShows == lost \in BOOLEAN /\ marked /\ (lost => Overflowed("serial"))

LogInv == RingTyped /\ WritersTyped /\ TimerTyped /\ LossShows

\* getSerial2 takes no more than there is and no more than the UART has room for.
LEMMA RoomIs ==
  ASSUME LogInv
  PROVE  /\ Room \in 0 .. Filled("serial") /\ Filled("serial") \in LogPlaces
         /\ fifo + Room \in 0 .. FifoSize
<1>1. "serial" \in Readers /\ RingTyped
  BY DEF Readers, LogInv
<1>2. Filled("serial") \in 0 .. LogSize - 1
  BY <1>1, ReaderSees DEF LogPlaces
<1>3. fifo \in 0 .. FifoSize /\ FifoSize \in Nat /\ LogSize \in Nat
  BY LogSizes DEF LogInv, TimerTyped
<1> QED
  BY <1>2, <1>3 DEF Room, LogPlaces

\* getData takes no more than there is.
LEMMA ChunkIs ==
  ASSUME RingTyped, NEW r \in Readers
  PROVE  /\ (IF Filled(r) < Chunk THEN Filled(r) ELSE Chunk) \in 0 .. Filled(r)
         /\ Filled(r) \in LogPlaces
BY ReaderSees, LogSizes DEF LogPlaces

LEMMA PendTyped ==
  ASSUME TimerTyped, Pend, fifo' \in 0 .. FifoSize
  PROVE  TimerTyped'
<1>1. CASE pended
  BY <1>1 DEF TimerTyped, Pend, PendOnce
<1>2. CASE ~pended
  <2>1. timerCalls = 0
    BY <1>2 DEF TimerTyped
  <2>2. timerCalls' \in {1} \cup {0}
    BY <2>1, <1>2 DEF Pend, PendOnce
  <2> QED
    BY <2>2 DEF TimerTyped, Pend
<1> QED
  BY <1>1, <1>2

LEMMA LogStarts == LogInit => LogInv
<1> SUFFICES ASSUME LogInit PROVE LogInv
  OBVIOUS
<1>1. RingTyped
  BY LogSizes DEF LogInit, RingTyped, LogPlaces, Stored
<1>2. WritersTyped
  <2>1. client \in BOOLEAN
    BY DEF LogInit
  <2>2. pos = [w \in Writers |-> 0] /\ at = [w \in Writers |-> "idle"] /\ written = 0
    BY DEF LogInit
  <2>3. mutex \in Writers \cup {Unheld} /\ buffer \in Writers
    BY DEF LogInit
  <2> QED
    BY <2>1, <2>2, <2>3, LogSizes DEF WritersTyped
<1>3. TimerTyped
  <2>1. pended \in BOOLEAN /\ timerCalls = 0
    BY DEF LogInit
  <2>2. fifo \in 0 .. FifoSize
    BY LogSizes DEF LogInit
  <2> QED
    BY <2>1, <2>2 DEF TimerTyped
<1>4. LossShows
  BY DEF LogInit, LossShows
<1> QED
  BY <1>1, <1>2, <1>3, <1>4 DEF LogInv

LEMMA LogGoesOn ==
  ASSUME LogInv, [LogNext]_logVars
  PROVE  LogInv'
<1> USE DEF LogInv
<1>0. \A r \in Readers : tail[r] \in LogPlaces
  BY DEF RingTyped
<1>1. ASSUME NEW w \in Writers, TakeMutex(w) PROVE LogInv'
  <2>1. RingTyped' /\ TimerTyped' /\ LossShows'
    BY <1>1 DEF TakeMutex, RingTyped, TimerTyped, LossShows, Overflowed, Step
  <2>2. WritersTyped'
    BY <1>1, LogSizes DEF TakeMutex, WritersTyped
  <2> QED
    BY <2>1, <2>2
<1>2. ASSUME NEW w \in Writers, CopyCharacter(w) PROVE LogInv'
  <2>1. <<buffer, pos[w] + 1>> \in Character
    BY <1>2, LogSizes DEF CopyCharacter, WritersTyped, Character
  <2>2. RingTyped'
    BY <1>2, <2>1, CopyUnread DEF CopyCharacter
  <2>3. WritersTyped'
    <3>1. pos[w] + 1 <= LineOf[w] /\ pos[w] \in Nat
      BY <1>2, LogSizes DEF CopyCharacter, WritersTyped
    <3> QED
      BY <3>1, <1>2 DEF CopyCharacter, WritersTyped
  <2>4. TimerTyped'
    BY <1>2 DEF CopyCharacter, TimerTyped
  <2>5. LossShows'
    <3>1. lost' = (lost \/ tail["serial"] = Step(head)) /\ marked' = marked
      BY <1>2 DEF CopyCharacter
    <3>2. lost' => tail["serial"] = Step(head)
      BY <3>1 DEF LossShows, Overflowed
    <3>3. tail["serial"] = Step(head) => tail'["serial"] = Step(head')
      BY <1>2 DEF CopyCharacter, MovedOn, Readers
    <3> QED
      BY <3>1, <3>2, <3>3 DEF LossShows, Overflowed
  <2> QED
    BY <2>2, <2>3, <2>4, <2>5
<1>3. ASSUME NEW w \in Writers, GiveMutex(w) \/ Trigger(w) PROVE LogInv'
  <2>1. RingTyped' /\ LossShows'
    <3>1. UNCHANGED <<log, head, tail, lost, marked>>
      BY <1>3 DEF GiveMutex, Trigger
    <3> QED
      BY <3>1 DEF RingTyped, LossShows, Overflowed, Step
  <2>2. WritersTyped'
    BY <1>3 DEF GiveMutex, Trigger, WritersTyped
  <2>3. TimerTyped'
    <3>1. CASE GiveMutex(w)
      BY <3>1 DEF GiveMutex, TimerTyped
    <3>2. CASE Trigger(w)
      BY <3>2, PendTyped DEF Trigger, TimerTyped
    <3> QED
      BY <1>3, <3>1, <3>2
  <2> QED
    BY <2>1, <2>2, <2>3
<1>4. ASSUME TimerCallback PROVE LogInv'
  <2>1. RingTyped' /\ WritersTyped' /\ LossShows'
    BY <1>4 DEF TimerCallback, RingTyped, WritersTyped, LossShows, Overflowed, Step
  <2>2. TimerTyped'
    <3>1. pended' \in BOOLEAN
      BY <1>4 DEF TimerCallback
    <3>2. timerCalls' = 0 /\ fifo' = fifo
      BY <1>4 DEF TimerCallback, TimerTyped
    <3> QED
      BY <3>1, <3>2 DEF TimerTyped
  <2> QED
    BY <2>1, <2>2
<1>5. ASSUME RunSerialLog PROVE LogInv'
  <2> DEFINE k == Room
  <2>1. "serial" \in Readers /\ k \in 0 .. Filled("serial")
    BY RoomIs DEF Readers
  <2>2. tail' = [tail EXCEPT !["serial"] = (@ + k) % LogSize] /\ log' = log /\ head' = head
    BY <1>5 DEF RunSerialLog
  <2>3. lost' = (lost /\ k = 0) /\ marked' = (marked /\ (lost /\ k > 0 => Overflowed("serial")))
    BY <1>5 DEF RunSerialLog
  <2>4. fifo' \in 0 .. FifoSize
    BY <1>5, RoomIs DEF RunSerialLog
  <2> HIDE DEF k
  <2>5. RingTyped'
    BY <2>1, <2>2, TakeUnread
  <2>6. WritersTyped'
    BY <1>5 DEF RunSerialLog, WritersTyped
  <2>7. TimerTyped'
    <3>1. CASE Remains
      BY <3>1, <2>4, <1>5, PendTyped DEF RunSerialLog
    <3>2. CASE ~Remains
      BY <3>2, <2>4, <1>5 DEF RunSerialLog, TimerTyped
    <3> QED
      BY <3>1, <3>2
  <2>8. LossShows'
    <3>1. CASE k = 0
      <4>1. tail["serial"] % LogSize = tail["serial"] /\ tail["serial"] + 0 = tail["serial"]
        BY <1>0, <2>1, LogSizes DEF LogPlaces
      <4>2. tail'["serial"] = tail["serial"]
        BY <2>1, <2>2, <3>1, <4>1 DEF RingTyped
      <4> QED
        BY <2>2, <2>3, <3>1, <4>2 DEF LossShows, Overflowed, Step
    <3>2. CASE k # 0
      BY <2>3, <3>2 DEF LossShows
    <3> QED
      BY <3>1, <3>2
  <2> QED
    BY <2>5, <2>6, <2>7, <2>8
<1>6. ASSUME NEW r \in {"tcp", "http"}, GetData(r),
             UNCHANGED <<log, head, mutex, at, pos, buffer, pended, timerCalls, fifo, written,
                         lost, marked>>,
             client' \in {client, FALSE}
      PROVE  LogInv'
  <2> DEFINE k == IF Filled(r) < Chunk THEN Filled(r) ELSE Chunk
  <2>1. r \in Readers /\ r # "serial" /\ "serial" \in Readers
    BY DEF Readers
  <2>2. k \in 0 .. Filled(r)
    BY <2>1, ChunkIs
  <2>3. tail' = [tail EXCEPT ![r] = (@ + k) % LogSize] /\ log' = log /\ head' = head
    BY <1>6 DEF GetData
  <2> HIDE DEF k
  <2>4. RingTyped'
    BY <2>1, <2>2, <2>3, TakeUnread
  <2>5. tail'["serial"] = tail["serial"]
    BY <2>1, <2>3 DEF RingTyped
  <2>6. LossShows'
    BY <1>6, <2>5 DEF LossShows, Overflowed, Step
  <2>7. WritersTyped' /\ TimerTyped'
    BY <1>6 DEF WritersTyped, TimerTyped
  <2> QED
    BY <2>4, <2>6, <2>7
<1>7. ASSUME SendToTcp PROVE LogInv'
  <2>1. CASE GetData("tcp")
    BY <1>6, <1>7, <2>1 DEF SendToTcp
  <2>2. CASE ~GetData("tcp")
    BY <1>7, <2>2 DEF SendToTcp, RingTyped, WritersTyped, TimerTyped, LossShows, Overflowed, Step
  <2> QED
    BY <2>1, <2>2
<1>8. ASSUME HttpGetLog PROVE LogInv'
  BY <1>6, <1>8 DEF HttpGetLog
<1>11. ASSUME TcpConnects PROVE LogInv'
  BY <1>11 DEF TcpConnects, RingTyped, WritersTyped, TimerTyped, LossShows, Overflowed, Step
<1>9. ASSUME UartSends PROVE LogInv'
  <2>1. RingTyped' /\ WritersTyped' /\ LossShows'
    BY <1>9 DEF UartSends, RingTyped, WritersTyped, LossShows, Overflowed, Step
  <2>2. TimerTyped'
    BY <1>9, LogSizes DEF UartSends, TimerTyped
  <2> QED
    BY <2>1, <2>2
<1>10. ASSUME UNCHANGED logVars PROVE LogInv'
  BY <1>10 DEF logVars, RingTyped, WritersTyped, TimerTyped, LossShows, Overflowed, Step
<1> QED
  BY <1>1, <1>2, <1>3, <1>4, <1>5, <1>7, <1>8, <1>9, <1>10, <1>11 DEF LogNext, TimerThread, Writes

\* The positions stay inside the ring, the timer thread never has more than one call of
\* log_timer_cb before it, and the UART is never given more than it takes.
THEOREM LogTyped == LogSpec => []LogTypeOK
<1>1. LogInv => LogTypeOK
  BY DEF LogInv, RingTyped, WritersTyped, TimerTyped, LogTypeOK, LogPlaces, Stored
<1> QED
  BY <1>1, LogStarts, LogGoesOn, PTL DEF LogSpec

-----------------------------------------------------------------------------
(* For each of its readers the log is a queue *)

\* One step as a reader sees it: a character more, some characters taken, or nothing.
SeesPut(r) ==
  /\ written' = written + 1
  /\ \E x \in Character : Unread(r)' = LastOf(Append(Unread(r), x), LogSize - 1)
SeesTake(r) ==
  /\ written' = written
  /\ \E n \in 1 .. Len(Unread(r)) : Unread(r)' = LastOf(Unread(r), Len(Unread(r)) - n)
SeesNothing(r) == written' = written /\ Unread(r)' = Unread(r)
SeesStep(r) == SeesPut(r) \/ SeesTake(r) \/ SeesNothing(r)

\* A reader that takes nothing sees nothing, and the others never do.
LEMMA TakeIsSeen ==
  ASSUME RingTyped, NEW r \in Readers, NEW k \in 0 .. Filled(r),
         tail' = [tail EXCEPT ![r] = (@ + k) % LogSize], log' = log, head' = head,
         written' = written
  PROVE  \A q \in Readers : SeesStep(q)
<1>1. /\ Unread(r)' = LastOf(Unread(r), Filled(r) - k) /\ Len(Unread(r)) = Filled(r)
      /\ \A q \in Readers : q # r => Unread(q)' = Unread(q)
  BY TakeUnread
<1>2. CASE k = 0
  <2>1. tail[r] \in 0 .. LogSize - 1
    BY DEF RingTyped, LogPlaces
  <2>2. (tail[r] + 0) % LogSize = tail[r]
    BY <2>1, LogSizes
  <2>3. tail'[r] = tail[r]
    BY <1>2, <2>2 DEF RingTyped
  <2>4. Unread(r)' = Unread(r)
    BY <2>3 DEF Unread, Filled
  <2> QED
    BY <1>1, <2>4 DEF SeesStep, SeesNothing
<1>3. CASE k # 0
  <2>1. Filled(r) \in Nat
    BY ReaderSees, LogSizes DEF LogPlaces
  <2>2. k \in 1 .. Len(Unread(r))
    BY <1>1, <1>3, <2>1
  <2>3. SeesTake(r)
    BY <1>1, <2>2 DEF SeesTake
  <2> QED
    BY <1>1, <2>3 DEF SeesStep, SeesNothing
<1> QED
  BY <1>2, <1>3

LEMMA ReadersSeeSteps ==
  ASSUME LogInv, [LogNext]_logVars
  PROVE  \A r \in Readers : SeesStep(r)
<1>1. ASSUME UNCHANGED <<log, head, tail, written>> PROVE \A r \in Readers : SeesStep(r)
  BY <1>1 DEF SeesStep, SeesNothing, Unread, Filled
<1>2. ASSUME NEW w \in Writers, CopyCharacter(w) PROVE \A r \in Readers : SeesStep(r)
  <2>1. <<buffer, pos[w] + 1>> \in Character
    BY <1>2, LogSizes DEF LogInv, CopyCharacter, WritersTyped, Character
  <2>2. /\ log' = [log EXCEPT ![head] = <<buffer, pos[w] + 1>>] /\ head' = Step(head)
        /\ tail' = [r \in Readers |-> MovedOn(r, Step(head))] /\ written' = written + 1
    BY <1>2 DEF CopyCharacter
  <2>3. \A r \in Readers :
          Unread(r)' = LastOf(Append(Unread(r), <<buffer, pos[w] + 1>>), LogSize - 1)
    BY <2>1, <2>2, CopyUnread DEF LogInv
  <2> QED
    BY <2>1, <2>2, <2>3 DEF SeesStep, SeesPut
<1>3. ASSUME NEW r \in Readers, GetData(r), UNCHANGED <<log, head, written>>
      PROVE  \A q \in Readers : SeesStep(q)
  <2> DEFINE k == IF Filled(r) < Chunk THEN Filled(r) ELSE Chunk
  <2>1. k \in 0 .. Filled(r)
    BY ChunkIs DEF LogInv
  <2>2. tail' = [tail EXCEPT ![r] = (@ + k) % LogSize]
    BY <1>3 DEF GetData
  <2> HIDE DEF k
  <2> QED
    BY <1>3, <2>1, <2>2, TakeIsSeen DEF LogInv
<1>4. ASSUME RunSerialLog PROVE \A r \in Readers : SeesStep(r)
  <2> DEFINE k == Room
  <2>1. "serial" \in Readers /\ k \in 0 .. Filled("serial")
    BY RoomIs DEF Readers
  <2>2. /\ tail' = [tail EXCEPT !["serial"] = (@ + k) % LogSize]
        /\ log' = log /\ head' = head /\ written' = written
    BY <1>4 DEF RunSerialLog
  <2> HIDE DEF k
  <2> QED
    BY <2>1, <2>2, TakeIsSeen DEF LogInv
<1>5. ASSUME SendToTcp PROVE \A r \in Readers : SeesStep(r)
  <2>1. CASE GetData("tcp")
    BY <2>1, <1>3, <1>5 DEF SendToTcp, Readers
  <2>2. CASE ~GetData("tcp")
    BY <2>2, <1>1, <1>5 DEF SendToTcp
  <2> QED
    BY <2>1, <2>2
<1>6. ASSUME HttpGetLog PROVE \A r \in Readers : SeesStep(r)
  BY <1>3, <1>6 DEF HttpGetLog, Readers
<1>7. ASSUME NEW w \in Writers, TakeMutex(w) \/ GiveMutex(w) \/ Trigger(w)
      PROVE  \A r \in Readers : SeesStep(r)
  BY <1>1, <1>7 DEF TakeMutex, GiveMutex, Trigger
<1>8. ASSUME TimerCallback \/ TcpConnects \/ UartSends \/ UNCHANGED logVars
      PROVE  \A r \in Readers : SeesStep(r)
  BY <1>1, <1>8 DEF TimerCallback, TcpConnects, UartSends, logVars
<1> QED
  BY <1>2, <1>4, <1>5, <1>6, <1>7, <1>8 DEF LogNext, TimerThread, Writes

\* Whatever the threads do, and even if one of them writes without the mutex, the serial
\* port, the TCP clients and the web page get the last characters logged that they did not take yet, in
\* their order: moving a tail on in addLogAdv loses the oldest character and no other.
THEOREM LogIsAFifo == LogSpec => ReadersSeeAFifo
<1>1. LogInit => Serial!Init /\ Tcp!Init /\ Http!Init
  <2> SUFFICES ASSUME LogInit PROVE \A r \in Readers : Unread(r) = <<>> /\ written = 0
    BY DEF Serial!Init, Tcp!Init, Http!Init, Readers
  <2> TAKE r \in Readers
  <2>1. tail[r] = 0 /\ head = 0 /\ written = 0
    BY DEF LogInit
  <2>2. Filled(r) = 0
    BY <2>1, LogSizes DEF Filled
  <2> QED
    BY <2>1, <2>2 DEF Unread
<1>2. LogInv /\ [LogNext]_logVars => [Serial!Next]_<<Unread("serial"), written>>
  <2> SUFFICES ASSUME LogInv, [LogNext]_logVars
               PROVE  [Serial!Next]_<<Unread("serial"), written>>
    OBVIOUS
  <2>1. SeesStep("serial")
    BY ReadersSeeSteps DEF Readers
  <2> QED
    BY <2>1 DEF SeesStep, SeesPut, SeesTake, SeesNothing, LastOf,
                Serial!Next, Serial!Put, Serial!Take, Serial!Last
<1>3. LogInv /\ [LogNext]_logVars => [Http!Next]_<<Unread("http"), written>>
  <2> SUFFICES ASSUME LogInv, [LogNext]_logVars
               PROVE  [Http!Next]_<<Unread("http"), written>>
    OBVIOUS
  <2>1. SeesStep("http")
    BY ReadersSeeSteps DEF Readers
  <2> QED
    BY <2>1 DEF SeesStep, SeesPut, SeesTake, SeesNothing, LastOf,
                Http!Next, Http!Put, Http!Take, Http!Last
<1>4. LogInv /\ [LogNext]_logVars => [Tcp!Next]_<<Unread("tcp"), written>>
  <2> SUFFICES ASSUME LogInv, [LogNext]_logVars
               PROVE  [Tcp!Next]_<<Unread("tcp"), written>>
    OBVIOUS
  <2>1. SeesStep("tcp")
    BY ReadersSeeSteps DEF Readers
  <2> QED
    BY <2>1 DEF SeesStep, SeesPut, SeesTake, SeesNothing, LastOf,
                Tcp!Next, Tcp!Put, Tcp!Take, Tcp!Last
<1> QED
  BY <1>1, <1>2, <1>3, <1>4, LogStarts, LogGoesOn, PTL
     DEF LogSpec, ReadersSeeAFifo, Serial!Spec, Tcp!Spec, Http!Spec

-----------------------------------------------------------------------------
(* The log holds whole lines *)

\* What comes behind a character, and how the characters of a sequence follow each other.
Follows(c, d) == IF c[2] = LineOf[c[1]] THEN d[2] = 1 ELSE d = <<c[1], c[2] + 1>>
WholeLines(s) == \A i \in 1 .. Len(s) - 1 : Follows(s[i], s[i + 1])

\* The last character is the one that the thread w copied last, if it copied one of its
\* line, or the end of a line.
EndsRight(s, w, p) ==
  Len(s) > 0 => IF w \in Writers /\ p[w] > 0 THEN s[Len(s)] = <<w, p[w]>>
                                               ELSE s[Len(s)][2] = LineOf[s[Len(s)][1]]

\* Who copies has the mutex, and g_loggingBuffer holds its line.
OneCopies ==
  /\ \A w \in Writers : at[w] = "copy" <=> mutex = w
  /\ mutex \in Writers => buffer = mutex

LinesInv ==
  /\ LogInv /\ OneCopies
  /\ \A r \in Readers : WholeLines(Unread(r)) /\ EndsRight(Unread(r), mutex, pos)

LEMMA UnreadIs ==
  ASSUME RingTyped, NEW r \in Readers
  PROVE  Unread(r) \in Seq(Stored) /\ Len(Unread(r)) = Filled(r) /\ Filled(r) \in Nat
<1> DEFINE n == Filled(r)  t == tail[r]
<1>1. /\ n \in 0 .. LogSize - 1 /\ t \in 0 .. LogSize - 1
      /\ Unread(r) = Content(LogSize, log, t, n) /\ log \in [0 .. LogSize - 1 -> Stored]
  BY ReaderSees DEF LogPlaces, RingTyped
<1> HIDE DEF n, t
<1>2. ASSUME NEW i \in 1 .. n PROVE log[Place(LogSize, t + i - 1)] \in Stored
  <2>1. t + i - 1 \in 0 .. 2 * LogSize - 1
    BY <1>1, LogSizes
  <2>2. Place(LogSize, t + i - 1) \in 0 .. LogSize - 1
    BY <1>1, <2>1, LogSizes, ModIs
  <2> QED
    BY <1>1, <2>2
<1>3. n \in Nat
  BY <1>1, LogSizes
<1>4. Content(LogSize, log, t, n) \in Seq(Stored) /\ Len(Content(LogSize, log, t, n)) = n
  BY <1>2, <1>3 DEF Content
<1> QED
  BY <1>1, <1>3, <1>4 DEF n

LEMMA LastIsEnd ==
  ASSUME NEW S, NEW s \in Seq(S), NEW n \in Nat
  PROVE  \E k \in 0 .. Len(s) :
           /\ Len(LastOf(s, n)) = Len(s) - k
           /\ \A i \in 1 .. Len(s) - k : LastOf(s, n)[i] = s[i + k]
<1> DEFINE k == IF Len(s) > n THEN Len(s) - n ELSE 0
<1>1. Len(s) \in Nat /\ k \in 0 .. Len(s)
  BY LenProperties
<1>2. LastOf(s, n) = SubSeq(s, k + 1, Len(s))
  BY <1>1 DEF LastOf
<1> HIDE DEF k
<1>3. SubSeq(s, k + 1, Len(s)) = [i \in 1 .. Len(s) - k |-> s[i + k]]
  BY <1>1
<1> QED
  BY <1>1, <1>2, <1>3

\* The end of whole lines is whole and ends alike.
LEMMA EndIsWhole ==
  ASSUME NEW s \in Seq(Stored), NEW n \in Nat
  PROVE  /\ WholeLines(s) => WholeLines(LastOf(s, n))
         /\ \A w, p : EndsRight(s, w, p) => EndsRight(LastOf(s, n), w, p)
<1> DEFINE t == LastOf(s, n)
<1>1. PICK k \in 0 .. Len(s) : Len(t) = Len(s) - k /\ \A i \in 1 .. Len(s) - k : t[i] = s[i + k]
  BY LastIsEnd
<1> HIDE DEF t
<1>2. Len(s) \in Nat
  BY LenProperties
<1>3. ASSUME WholeLines(s), NEW i \in 1 .. Len(t) - 1 PROVE Follows(t[i], t[i + 1])
  <2>1. /\ i + k \in 1 .. Len(s) - 1 /\ i + 1 + k = i + k + 1
        /\ i \in 1 .. Len(s) - k /\ i + 1 \in 1 .. Len(s) - k
    BY <1>1, <1>2
  <2>2. t[i] = s[i + k] /\ t[i + 1] = s[i + 1 + k]
    BY <1>1, <2>1
  <2> QED
    BY <1>3, <2>1, <2>2 DEF WholeLines
<1>4. Len(t) > 0 => Len(s) > 0 /\ t[Len(t)] = s[Len(s)]
  BY <1>1, <1>2
<1> QED
  BY <1>3, <1>4 DEF WholeLines, EndsRight, t

\* A character that follows the last one keeps the lines whole.
LEMMA AppendIsWhole ==
  ASSUME NEW s \in Seq(Stored), WholeLines(s), NEW x \in Stored,
         Len(s) > 0 => Follows(s[Len(s)], x)
  PROVE  WholeLines(Append(s, x))
<1>1. /\ Len(s) \in Nat /\ Len(Append(s, x)) = Len(s) + 1 /\ Append(s, x)[Len(s) + 1] = x
      /\ \A i \in 1 .. Len(s) : Append(s, x)[i] = s[i]
  BY AppendProperties, LenProperties
<1> DEFINE a == Append(s, x)
<1> HIDE DEF a
<1>2. ASSUME NEW i \in 1 .. Len(s) PROVE Follows(a[i], a[i + 1])
  <2>1. CASE i = Len(s)
    BY <1>1, <2>1 DEF a
  <2>2. CASE i # Len(s)
    <3>1. i \in 1 .. Len(s) - 1 /\ i + 1 \in 1 .. Len(s)
      BY <1>1, <2>2
    <3> QED
      BY <1>1, <3>1 DEF a, WholeLines
  <2> QED
    BY <2>1, <2>2
<1> QED
  BY <1>1, <1>2 DEF a, WholeLines

\* Taking characters leaves the lines whole.
LEMMA TakingKeepsLines ==
  ASSUME LinesInv, NEW r \in Readers, SeesTake(r) \/ SeesNothing(r)
  PROVE  WholeLines(Unread(r)') /\ EndsRight(Unread(r)', mutex, pos)
<1>1. /\ Unread(r) \in Seq(Stored) /\ Len(Unread(r)) \in Nat
      /\ WholeLines(Unread(r)) /\ EndsRight(Unread(r), mutex, pos)
  BY UnreadIs DEF LinesInv, LogInv
<1>2. CASE SeesNothing(r)
  <2>1. Unread(r)' = Unread(r)
    BY <1>2 DEF SeesNothing
  <2> QED
    BY <1>1, <2>1 DEF EndsRight
<1>3. CASE SeesTake(r)
  <2>1. PICK n \in 1 .. Len(Unread(r)) : Unread(r)' = LastOf(Unread(r), Len(Unread(r)) - n)
    BY <1>3 DEF SeesTake
  <2> DEFINE rest == Len(Unread(r)) - n
  <2>2. rest \in Nat
    BY <1>1
  <2> HIDE DEF rest
  <2>3. WholeLines(LastOf(Unread(r), rest)) /\ EndsRight(LastOf(Unread(r), rest), mutex, pos)
    BY <1>1, <2>2, EndIsWhole
  <2>4. Unread(r)' = LastOf(Unread(r), rest)
    BY <2>1 DEF rest
  <2> QED
    BY <2>3, <2>4 DEF EndsRight
<1> QED
  BY <1>2, <1>3

LEMMA LinesGoOn ==
  ASSUME ~Hurry, LinesInv, [LogNext]_logVars
  PROVE  LinesInv'
<1>1. LogInv /\ LogInv'
  BY LogGoesOn DEF LinesInv
<1>2. /\ RingTyped /\ OneCopies /\ mutex \in Writers \cup {Unheld} /\ Unheld \notin Writers
      /\ at \in [Writers -> {"idle", "copy", "trigger"}] /\ pos \in [Writers -> Nat]
      /\ \A w \in Writers : LineOf[w] \in Nat /\ LineOf[w] > 0
  BY LogSizes DEF LogInv, LinesInv, WritersTyped
<1>3. \A r \in Readers : WholeLines(Unread(r)) /\ EndsRight(Unread(r), mutex, pos)
  BY DEF LinesInv
<1>4. ASSUME NEW w \in Writers, TakeMutex(w) PROVE LinesInv'
  <2>1. mutex = Unheld /\ mutex' = w /\ buffer' = w
    BY <1>4 DEF TakeMutex, LineTakes
  <2>2. at' = [at EXCEPT ![w] = "copy"] /\ pos' = [pos EXCEPT ![w] = 0]
    BY <1>4 DEF TakeMutex
  <2>3. OneCopies'
    BY <1>2, <2>1, <2>2 DEF OneCopies
  <2>4. ASSUME NEW r \in Readers
        PROVE  WholeLines(Unread(r)') /\ EndsRight(Unread(r)', mutex', pos')
    <3>1. Unread(r)' = Unread(r)
      BY <1>4 DEF TakeMutex, Unread, Filled
    <3>2. pos'[w] = 0
      BY <1>2, <2>2
    <3> QED
      BY <1>2, <1>3, <2>1, <3>1, <3>2 DEF EndsRight
  <2> QED
    BY <1>1, <2>3, <2>4 DEF LinesInv
<1>5. ASSUME NEW w \in Writers, CopyCharacter(w) PROVE LinesInv'
  <2> DEFINE x == <<w, pos[w] + 1>>
  <2>1. /\ at[w] = "copy" /\ pos[w] \in Nat /\ pos[w] < LineOf[w] /\ LineOf[w] \in Nat
        /\ pos' = [pos EXCEPT ![w] = @ + 1] /\ UNCHANGED <<mutex, at, buffer>>
    BY <1>2, <1>5 DEF CopyCharacter
  <2>2. mutex = w /\ buffer = w
    BY <1>2, <2>1 DEF OneCopies
  <2>3. pos'[w] = pos[w] + 1 /\ pos[w] # LineOf[w]
    BY <1>2, <2>1
  <2>4. OneCopies'
    BY <1>2, <2>1 DEF OneCopies
  <2>5. x \in Character /\ x \in Stored
    BY <2>1, LogSizes DEF Character, Stored
  <2>6. ASSUME NEW r \in Readers
        PROVE  WholeLines(Unread(r)') /\ EndsRight(Unread(r)', mutex', pos')
    <3> DEFINE s == Unread(r)
    <3>1. s \in Seq(Stored) /\ WholeLines(s) /\ EndsRight(s, w, pos)
      BY <1>2, <1>3, <2>2, UnreadIs
    <3>2. Unread(r)' = LastOf(Append(s, x), LogSize - 1)
      BY <1>2, <1>5, <2>2, <2>5, CopyUnread DEF CopyCharacter
    <3> HIDE DEF s
    <3>3. Len(s) > 0 => Follows(s[Len(s)], x)
      <4>1. CASE pos[w] > 0
        BY <2>3, <3>1, <4>1 DEF EndsRight, Follows
      <4>2. CASE ~(pos[w] > 0)
        BY <2>1, <3>1, <4>2 DEF EndsRight, Follows
      <4> QED
        BY <4>1, <4>2
    <3> HIDE DEF x
    <3>4. WholeLines(Append(s, x))
      BY <2>5, <3>1, <3>3, AppendIsWhole
    <3>5. Append(s, x) \in Seq(Stored) /\ Append(s, x)[Len(Append(s, x))] = x
      BY <2>5, <3>1, AppendProperties
    <3>6. EndsRight(Append(s, x), w, pos')
      BY <2>1, <2>3, <3>5 DEF EndsRight, x
    <3>7. LogSize - 1 \in Nat
      BY LogSizes
    <3>8. /\ WholeLines(LastOf(Append(s, x), LogSize - 1))
          /\ EndsRight(LastOf(Append(s, x), LogSize - 1), w, pos')
      BY <3>4, <3>5, <3>6, <3>7, EndIsWhole
    <3> QED
      BY <2>1, <2>2, <3>2, <3>8
  <2> QED
    BY <1>1, <2>4, <2>6 DEF LinesInv
<1>6. ASSUME NEW w \in Writers, GiveMutex(w) PROVE LinesInv'
  <2>1. /\ at[w] = "copy" /\ pos[w] = LineOf[w] /\ UNCHANGED <<pos, buffer>>
        /\ at' = [at EXCEPT ![w] = "trigger"] /\ mutex' = IF mutex = w THEN Unheld ELSE mutex
    BY <1>6 DEF GiveMutex
  <2>2. mutex = w /\ mutex' = Unheld
    BY <1>2, <2>1 DEF OneCopies
  <2>3. OneCopies'
    BY <1>2, <2>1, <2>2 DEF OneCopies
  <2>4. ASSUME NEW r \in Readers
        PROVE  WholeLines(Unread(r)') /\ EndsRight(Unread(r)', mutex', pos')
    <3>1. Unread(r)' = Unread(r)
      BY <1>6 DEF GiveMutex, Unread, Filled
    <3> DEFINE s == Unread(r)
    <3>2. WholeLines(s) /\ EndsRight(s, w, pos)
      BY <1>3, <2>2
    <3> HIDE DEF s
    <3>3. EndsRight(s, Unheld, pos)
      BY <1>2, <2>1, <3>2 DEF EndsRight
    <3> QED
      BY <2>1, <2>2, <3>1, <3>2, <3>3 DEF s
  <2> QED
    BY <1>1, <2>3, <2>4 DEF LinesInv
<1>7. ASSUME UNCHANGED <<mutex, pos, buffer>>,
             \A w \in Writers : at'[w] = "copy" <=> at[w] = "copy",
             \A r \in Readers : SeesTake(r) \/ SeesNothing(r)
      PROVE  LinesInv'
  <2>1. OneCopies'
    BY <1>2, <1>7 DEF OneCopies
  <2>2. \A r \in Readers : WholeLines(Unread(r)') /\ EndsRight(Unread(r)', mutex, pos)
    BY <1>7, TakingKeepsLines
  <2> QED
    BY <1>1, <1>7, <2>1, <2>2 DEF LinesInv
<1>8. ASSUME written' = written PROVE \A r \in Readers : SeesTake(r) \/ SeesNothing(r)
  <2>1. written \in Nat
    BY <1>1 DEF LogInv, WritersTyped
  <2>2. \A r \in Readers : ~SeesPut(r)
    BY <1>8, <2>1 DEF SeesPut
  <2> QED
    BY <1>1, <2>2, ReadersSeeSteps DEF SeesStep
<1>9. ASSUME NEW w \in Writers, Trigger(w) PROVE LinesInv'
  <2>1. /\ at[w] = "trigger" /\ at' = [at EXCEPT ![w] = "idle"]
        /\ UNCHANGED <<mutex, pos, buffer, written>>
    BY <1>9 DEF Trigger
  <2>2. \A v \in Writers : at'[v] = "copy" <=> at[v] = "copy"
    BY <1>2, <2>1
  <2> QED
    BY <1>7, <1>8, <2>1, <2>2
<1>10. ASSUME TimerThread \/ TcpConnects \/ HttpGetLog \/ UartSends \/ UNCHANGED logVars PROVE LinesInv'
  <2>1. UNCHANGED <<mutex, at, pos, buffer, written>>
    BY <1>10 DEF TimerThread, TimerCallback, RunSerialLog, SendToTcp, TcpConnects, HttpGetLog, UartSends, logVars
  <2> QED
    BY <1>7, <1>8, <2>1
<1> QED
  BY <1>4, <1>5, <1>6, <1>9, <1>10 DEF LogNext, Writes

\* If no thread gives up waiting for the mutex, every reader of the log gets whole lines,
\* one behind the other (the mutex of addLogAdv, g_loggingBuffer under it), except that
\* lines which were not read in time are missing; and whenever the serial port missed
\* something the first character it gets after that is '^' (getSerial2).
THEOREM LogIsSound == ASSUME ~Hurry PROVE LogSpec => []LogSound
<1>1. LogInit => LinesInv
  <2> SUFFICES ASSUME LogInit PROVE LinesInv
    OBVIOUS
  <2>1. OneCopies
    <3>1. ASSUME NEW w \in Writers PROVE at[w] # "copy" /\ mutex # w
      <4>1. mutex # w
        BY LogSizes DEF LogInit
      <4>2. at[w] = "idle"
        BY DEF LogInit
      <4> QED
        BY <4>1, <4>2
    <3>2. mutex \notin Writers
      BY LogSizes DEF LogInit
    <3> QED
      BY <3>1, <3>2 DEF OneCopies
  <2>2. ASSUME NEW r \in Readers PROVE Len(Unread(r)) = 0
    <3>1. tail[r] = 0 /\ head = 0
      BY DEF LogInit
    <3>2. Filled(r) = 0
      BY <3>1, LogSizes DEF Filled
    <3> QED
      BY <3>2 DEF Unread
  <2> QED
    BY <2>1, <2>2, LogStarts DEF LinesInv, WholeLines, EndsRight
<1>2. LinesInv /\ [LogNext]_logVars => LinesInv'
  BY LinesGoOn
<1>3. LinesInv => LogSound
  <2> SUFFICES ASSUME LinesInv PROVE LogSound
    OBVIOUS
  <2>1. ASSUME NEW r \in Readers, NEW i \in 1 .. Filled(r) - 1
        PROVE  Follows(Unread(r)[i], Unread(r)[i + 1])
    BY UnreadIs DEF LinesInv, LogInv, WholeLines
  <2>2. LinesWhole
    BY <2>1 DEF LinesWhole, Follows
  <2> QED
    BY <2>2 DEF LogSound, LossIsMarked, LinesInv, LogInv, LossShows
<1> QED
  BY <1>1, <1>2, <1>3, PTL DEF LogSpec

(***************************************************************************)
(* The UART                                                                *)
(***************************************************************************)

BufPlaces == 0 .. RingSize - 1

BufTyped ==
  /\ recvBuf \in [BufPlaces -> UartByte] /\ recvBufIn \in BufPlaces /\ recvBufOut \in BufPlaces

\* UART_TryToGetNextTuyaPacket counts on no more bytes than the buffer holds: the
\* interrupt may push out the oldest byte, but only to put another one in.
UartInv ==
  /\ BufTyped /\ Wire \in Seq(UartByte) /\ arrived \in 0 .. Len(Wire)
  /\ parserAt \in {"idle", "skip", "take"}
  /\ parserSize \in 0 .. RingSize - 1 /\ overrun \in BOOLEAN
  /\ parserAt # "idle" => parserSize <= GetDataSize
  /\ parserAt = "take" => parserSize >= MinPacket

LEMMA UartSizes ==
  /\ RingSize \in Nat /\ RingSize > 1 /\ 0 \in UartByte
  /\ ByteBase \in Nat /\ ByteBase > 3 /\ UartByte = 0 .. ByteBase - 1
BY UartAssumption, FramesAssumption

\* A set of numbers that is not empty has a least one; one that has 0 and with each
\* number up to k the next has all up to k.
LEMMA LeastOfNumbers ==
  ASSUME NEW S, S \subseteq Nat, S # {}
  PROVE  \E x \in S : \A y \in S : x <= y
<1>1. \A x, y \in Nat : <<y, x>> \in OpToRel(<, Nat) <=> y < x
  BY DEF OpToRel
<1>2. \E R : IsWellFoundedOn(R, Nat) /\ \A x, y \in Nat : <<y, x>> \in R <=> y < x
  BY <1>1, NatLessThanWellFounded, Zenon
<1>3. PICK R : IsWellFoundedOn(R, Nat) /\ \A x, y \in Nat : <<y, x>> \in R <=> y < x
  BY <1>2
<1>4. \E x \in S : \A y \in S : ~(<<y, x>> \in R)
  BY <1>3, WFMin
<1>5. PICK x \in S : \A y \in S : ~(<<y, x>> \in R)
  BY <1>4
<1>6. ASSUME NEW y \in S PROVE x <= y
  <2>1. x \in Nat /\ y \in Nat /\ ~(<<y, x>> \in R)
    BY <1>5
  <2>2. ~(y < x)
    BY <1>3, <2>1
  <2> QED BY <2>1, <2>2
<1> QED BY <1>6

LEMMA CountedUpTo ==
  ASSUME NEW k \in Nat, NEW S, 0 \in S, \A n \in 0 .. (k - 1) : n \in S => n + 1 \in S
  PROVE  k \in S
<1> DEFINE Left == {n \in 0 .. k : n \notin S}
<1>1. ASSUME k \notin S PROVE FALSE
  <2>1. Left \subseteq Nat /\ Left # {}
    BY <1>1
  <2>2. PICK x \in Left : \A y \in Left : x <= y
    BY <2>1, LeastOfNumbers
  <2>3. x # 0 /\ x - 1 \in 0 .. (k - 1) /\ x - 1 \notin Left /\ (x - 1) + 1 = x
    BY <2>2
  <2> QED BY <2>2, <2>3
<1> QED BY <1>1

\* A recursive function over the first numbers, as its step is a function.
CountedBy(f, K, z, step) == f[0] = z /\ \A i \in 1 .. K : f[i] = step[<<f[i - 1], i>>]

LEMMA CountsAlong ==
  ASSUME NEW K \in Nat, NEW S, NEW z \in S, NEW step \in [S \X (1 .. K) -> S]
  PROVE  \E f \in [0 .. K -> S] : CountedBy(f, K, z, step)
<1> DEFINE Goes(f, k) == f[0] = z /\ \A i \in 1 .. k : f[i] = step[<<f[i - 1], i>>]
           T == {k \in 0 .. K : \E f \in [0 .. K -> S] : Goes(f, k)}
<1>1. 0 \in T
  <2> DEFINE f == [i \in 0 .. K |-> z]
  <2>1. f \in [0 .. K -> S] /\ f[0] = z
    OBVIOUS
  <2>2. Goes(f, 0)
    BY <2>1
  <2> HIDE DEF f, Goes
  <2> QED BY <2>1, <2>2
<1>2. ASSUME NEW k \in 0 .. K - 1, k \in T PROVE k + 1 \in T
  <2>1. PICK f \in [0 .. K -> S] : Goes(f, k)
    BY <1>2
  <2> DEFINE e == step[<<f[k], k + 1>>]  g == [f EXCEPT ![k + 1] = e]
  <2>2. k \in 0 .. K /\ k + 1 \in 1 .. K /\ k + 1 \in 0 .. K
    OBVIOUS
  <2>3. e \in S
    <3>1. <<f[k], k + 1>> \in S \X (1 .. K)
      BY <2>2
    <3> QED BY <3>1
  <2> HIDE DEF e
  <2>4. g \in [0 .. K -> S] /\ g[k + 1] = e /\ \A i \in 0 .. k : g[i] = f[i]
    BY <2>2, <2>3
  <2> HIDE DEF g
  <2>5. g[0] = z
    BY <2>1, <2>4
  <2>6. ASSUME NEW i \in 1 .. k + 1 PROVE g[i] = step[<<g[i - 1], i>>]
    <3>1. i - 1 \in 0 .. k /\ g[i - 1] = f[i - 1]
      BY <2>4
    <3>2. CASE i = k + 1
      BY <2>4, <3>1, <3>2 DEF e
    <3>3. CASE i # k + 1
      <4>1. i \in 1 .. k /\ i \in 0 .. k
        BY <3>3
      <4> QED BY <2>1, <2>4, <3>1, <4>1
    <3> QED BY <3>2, <3>3
  <2>7. Goes(g, k + 1)
    BY <2>5, <2>6
  <2> HIDE DEF Goes
  <2> QED BY <2>2, <2>4, <2>7
<1>3. K \in T
  <2> HIDE DEF T
  <2> QED BY <1>1, <1>2, CountedUpTo
<1> QED BY <1>3 DEF CountedBy

\* What a checksum adds up.
LEMMA ChecksumIs ==
  ASSUME NEW s \in Seq(UartByte)
  PROVE  Checksum(s) \in UartByte
<1> DEFINE Goes(sum, i) == sum + s[i]  K == Len(s)
<1>1. K \in Nat
  OBVIOUS
<1>2. ASSUME NEW sum \in Nat, NEW i \in 1 .. K PROVE Goes(sum, i) \in Nat
  <2>1. s[i] \in UartByte
    BY ElementOfSeq
  <2> QED BY <2>1, UartSizes
<1> DEFINE IsWalk(f) == f = [i \in 0 .. K |-> IF i = 0 THEN 0 ELSE Goes(f[i - 1], i)]
           step == [x \in Nat \X (1 .. K) |-> Goes(x[1], x[2])]
<1>3. step \in [Nat \X (1 .. K) -> Nat] /\ 0 \in Nat
  <2>1. ASSUME NEW x \in Nat \X (1 .. K) PROVE Goes(x[1], x[2]) \in Nat
    <3>1. x[1] \in Nat /\ x[2] \in 1 .. K
      BY <2>1
    <3> HIDE DEF Goes
    <3> QED BY <1>2, <3>1
  <2> HIDE DEF Goes
  <2> QED BY <2>1
<1>4. PICK f \in [0 .. K -> Nat] : CountedBy(f, K, 0, step)
  <2> HIDE DEF step, K
  <2> QED BY <1>1, <1>3, CountsAlong
<1> HIDE DEF Goes
<1>5. IsWalk(f)
  <2>1. ASSUME NEW i \in 1 .. K PROVE f[i] = Goes(f[i - 1], i)
    <3>1. i - 1 \in 0 .. K
      BY <1>1
    <3>2. f[i - 1] \in Nat
      BY <1>4, <3>1
    <3>3. <<f[i - 1], i>> \in Nat \X (1 .. K)
      BY <3>2
    <3> QED BY <1>4, <3>3 DEF CountedBy
  <2> HIDE DEF K, step
  <2> QED BY <1>1, <1>4, <2>1 DEF CountedBy
<1> DEFINE walk == CHOOSE g : IsWalk(g)
<1>6. IsWalk(walk)
  <2> HIDE DEF IsWalk
  <2> QED BY <1>5, Zenon
<1> HIDE DEF walk, K, step
<1>7. walk[0] = 0 /\ \A i \in 1 .. K : walk[i] = Goes(walk[i - 1], i)
  <2> DEFINE r == [i \in 0 .. K |-> IF i = 0 THEN 0 ELSE Goes(walk[i - 1], i)]
  <2>1. walk = r
    BY <1>6
  <2>2. r[0] = 0 /\ \A i \in 1 .. K : r[i] = Goes(walk[i - 1], i)
    BY <1>1
  <2> HIDE DEF r
  <2> QED BY <2>1, <2>2
<1>8. \A n \in 0 .. K : walk[n] \in Nat
  <2> DEFINE T == {m \in 0 .. K : walk[m] \in Nat}
  <2>1. 0 \in T
    <3>1. 0 \in 0 .. K
      BY <1>1
    <3>2. walk[0] \in Nat
      BY <1>3, <1>7, Zenon
    <3> QED BY <3>1, <3>2
  <2>2. ASSUME NEW m \in 0 .. K - 1, m \in T PROVE m + 1 \in T
    <3>1. m + 1 \in 1 .. K /\ m + 1 \in 0 .. K /\ (m + 1) - 1 = m
      BY <1>1
    <3>2. walk[m + 1] = Goes(walk[m], m + 1)
      BY <1>7, <3>1
    <3> QED BY <1>2, <2>2, <3>1, <3>2
  <2>3. ASSUME NEW n \in 0 .. K PROVE n \in T
    <3>1. \A m \in 0 .. n - 1 : m \in T => m + 1 \in T
      BY <1>1, <2>2
    <3> HIDE DEF T
    <3> QED BY <2>1, <3>1, CountedUpTo
  <2> QED BY <2>3
<1>9. walk[K] \in Nat
  BY <1>1, <1>8
<1>10. Checksum(s) = walk[K] % ByteBase
  BY DEF Checksum, walk, Goes, K
<1>11. \A m \in Nat : m % ByteBase \in 0 .. ByteBase - 1
  BY UartSizes
<1> QED BY <1>9, <1>10, <1>11, UartSizes

\* Wire and Packets, of the first i pieces of the stream.
WireTo ==
  CHOOSE f : f = [i \in 0 .. Len(stream) |-> IF i = 0 THEN <<>> ELSE f[i - 1] \o Sends(stream[i])]
Found(found, item) ==
  IF item.what = "packet" /\ FitsBuffer(item.bytes) THEN Append(found, item.bytes) ELSE found
PacketsTo ==
  CHOOSE f : f = [i \in 0 .. Len(stream) |->
    IF i = 0 THEN <<>>
    ELSE IF stream[i].what = "packet" /\ FitsBuffer(stream[i].bytes)
         THEN Append(f[i - 1], stream[i].bytes) ELSE f[i - 1]]

LEMMA StreamIs ==
  ASSUME stream \in Streams
  PROVE  /\ Len(stream) \in Nat /\ DOMAIN stream = 1 .. Len(stream)
         /\ \A i \in 1 .. Len(stream) :
              /\ stream[i].what \in {"packet", "garbage"} /\ stream[i].bytes \in Seq(UartByte)
              /\ Len(stream[i].bytes) < ByteBase * ByteBase
<1>1. stream \in Seq([what : {"packet", "garbage"}, bytes : Seq(UartByte)])
  BY FramesAssumption
<1>2. Len(stream) \in Nat /\ DOMAIN stream = 1 .. Len(stream)
  BY <1>1, LenProperties
<1>3. ASSUME NEW i \in 1 .. Len(stream)
      PROVE  stream[i] \in [what : {"packet", "garbage"}, bytes : Seq(UartByte)]
  BY <1>1, ElementOfSeq
<1> QED BY <1>2, <1>3, FramesAssumption

LEMMA SendsBytes ==
  ASSUME stream \in Streams, NEW i \in 1 .. Len(stream)
  PROVE  Sends(stream[i]) \in Seq(UartByte)
<1> DEFINE p == stream[i].bytes
<1>2. p \in Seq(UartByte) /\ Len(p) \in Nat /\ Len(p) < ByteBase * ByteBase
  BY StreamIs, LenProperties
<1>3. Len(p) \div ByteBase \in UartByte /\ Len(p) % ByteBase \in UartByte
  <2>1. \A m \in Nat : m < ByteBase * ByteBase => m \div ByteBase \in 0 .. ByteBase - 1
    BY UartSizes
  <2>2. \A m \in Nat : m % ByteBase \in 0 .. ByteBase - 1
    BY UartSizes
  <2> QED BY <1>2, <2>1, <2>2, UartSizes
<1> HIDE DEF p
<1> DEFINE body == <<H1, H2, Len(p) \div ByteBase, Len(p) % ByteBase>> \o p
<1>4. body \in Seq(UartByte)
  <2>1. H1 \in UartByte /\ H2 \in UartByte
    BY UartSizes DEF H1, H2
  <2>2. <<H1, H2, Len(p) \div ByteBase, Len(p) % ByteBase>> \in Seq(UartByte)
    BY <1>3, <2>1
  <2> QED BY <1>2, <2>2, ConcatProperties
<1> HIDE DEF body
<1>5. Append(body, Checksum(body)) \in Seq(UartByte)
  BY <1>4, ChecksumIs, AppendProperties
<1>6. FramedPacket(p) = Append(body, Checksum(body))
  BY DEF FramedPacket, body
<1> QED BY <1>2, <1>5, <1>6 DEF Sends, p

LEMMA WireToIs ==
  ASSUME stream \in Streams
  PROVE  /\ WireTo[0] = <<>> /\ Wire = WireTo[Len(stream)]
         /\ \A i \in 0 .. Len(stream) : WireTo[i] \in Seq(UartByte)
         /\ \A i \in 1 .. Len(stream) : WireTo[i] = WireTo[i - 1] \o Sends(stream[i])
<1> DEFINE Goes(wire, i) == wire \o Sends(stream[i])  K == Len(stream)
<1>1. K \in Nat
  BY StreamIs
<1>2. ASSUME NEW wire \in Seq(UartByte), NEW i \in 1 .. K PROVE Goes(wire, i) \in Seq(UartByte)
  BY SendsBytes, ConcatProperties
<1> DEFINE IsWalk(f) == f = [i \in 0 .. K |-> IF i = 0 THEN <<>> ELSE Goes(f[i - 1], i)]
           step == [x \in Seq(UartByte) \X (1 .. K) |-> Goes(x[1], x[2])]
<1>3. step \in [Seq(UartByte) \X (1 .. K) -> Seq(UartByte)] /\ <<>> \in Seq(UartByte)
  <2>1. ASSUME NEW x \in Seq(UartByte) \X (1 .. K) PROVE Goes(x[1], x[2]) \in Seq(UartByte)
    <3>1. x[1] \in Seq(UartByte) /\ x[2] \in 1 .. K
      BY <2>1
    <3> HIDE DEF Goes
    <3> QED BY <1>2, <3>1
  <2> HIDE DEF Goes
  <2> QED BY <2>1, EmptySeq
<1>4. PICK f \in [0 .. K -> Seq(UartByte)] : CountedBy(f, K, <<>>, step)
  <2> HIDE DEF step, K
  <2> QED BY <1>1, <1>3, CountsAlong
<1> HIDE DEF Goes
<1>5. IsWalk(f)
  <2>1. ASSUME NEW i \in 1 .. K PROVE f[i] = Goes(f[i - 1], i)
    <3>1. i - 1 \in 0 .. K
      BY <1>1
    <3>2. f[i - 1] \in Seq(UartByte)
      BY <1>4, <3>1
    <3>3. <<f[i - 1], i>> \in Seq(UartByte) \X (1 .. K)
      BY <3>2
    <3> QED BY <1>4, <3>3 DEF CountedBy
  <2> HIDE DEF K, step
  <2> QED BY <1>1, <1>4, <2>1 DEF CountedBy
<1> DEFINE walk == CHOOSE g : IsWalk(g)
<1>6. IsWalk(walk)
  <2> HIDE DEF IsWalk
  <2> QED BY <1>5, Zenon
<1> HIDE DEF walk, K, step
<1>7. walk[0] = <<>> /\ \A i \in 1 .. K : walk[i] = Goes(walk[i - 1], i)
  <2> DEFINE r == [i \in 0 .. K |-> IF i = 0 THEN <<>> ELSE Goes(walk[i - 1], i)]
  <2>1. walk = r
    BY <1>6
  <2>2. r[0] = <<>> /\ \A i \in 1 .. K : r[i] = Goes(walk[i - 1], i)
    BY <1>1
  <2> HIDE DEF r
  <2> QED BY <2>1, <2>2
<1>8. \A n \in 0 .. K : walk[n] \in Seq(UartByte)
  <2> DEFINE T == {m \in 0 .. K : walk[m] \in Seq(UartByte)}
  <2>1. 0 \in T
    <3>1. 0 \in 0 .. K
      BY <1>1
    <3>2. walk[0] \in Seq(UartByte)
      BY <1>3, <1>7, Zenon
    <3> QED BY <3>1, <3>2
  <2>2. ASSUME NEW m \in 0 .. K - 1, m \in T PROVE m + 1 \in T
    <3>1. m + 1 \in 1 .. K /\ m + 1 \in 0 .. K /\ (m + 1) - 1 = m
      BY <1>1
    <3>2. walk[m + 1] = Goes(walk[m], m + 1)
      BY <1>7, <3>1
    <3> QED BY <1>2, <2>2, <3>1, <3>2
  <2>3. ASSUME NEW n \in 0 .. K PROVE n \in T
    <3>1. \A m \in 0 .. n - 1 : m \in T => m + 1 \in T
      BY <1>1, <2>2
    <3> HIDE DEF T
    <3> QED BY <2>1, <3>1, CountedUpTo
  <2> QED BY <2>3
<1>9. walk = WireTo /\ Wire = walk[K]
  BY DEF Wire, WireTo, walk, Goes, K
<1> QED BY <1>7, <1>8, <1>9 DEF Goes, K

LEMMA PacketsToIs ==
  ASSUME stream \in Streams
  PROVE  /\ PacketsTo[0] = <<>> /\ Packets = PacketsTo[Len(stream)]
         /\ \A i \in 0 .. Len(stream) : PacketsTo[i] \in Seq(Seq(UartByte))
         /\ \A i \in 1 .. Len(stream) : PacketsTo[i] = Found(PacketsTo[i - 1], stream[i])
<1> DEFINE Goes(found, i) ==
             IF stream[i].what = "packet" /\ FitsBuffer(stream[i].bytes)
             THEN Append(found, stream[i].bytes) ELSE found
           K == Len(stream)
<1>1. K \in Nat
  BY StreamIs
<1>2. ASSUME NEW found \in Seq(Seq(UartByte)), NEW i \in 1 .. K
      PROVE  Goes(found, i) \in Seq(Seq(UartByte))
  BY StreamIs, AppendProperties
<1> DEFINE IsWalk(f) == f = [i \in 0 .. K |-> IF i = 0 THEN <<>> ELSE Goes(f[i - 1], i)]
           step == [x \in Seq(Seq(UartByte)) \X (1 .. K) |-> Goes(x[1], x[2])]
<1>3. step \in [Seq(Seq(UartByte)) \X (1 .. K) -> Seq(Seq(UartByte))] /\ <<>> \in Seq(Seq(UartByte))
  <2>1. ASSUME NEW x \in Seq(Seq(UartByte)) \X (1 .. K) PROVE Goes(x[1], x[2]) \in Seq(Seq(UartByte))
    <3>1. x[1] \in Seq(Seq(UartByte)) /\ x[2] \in 1 .. K
      BY <2>1
    <3> HIDE DEF Goes
    <3> QED BY <1>2, <3>1
  <2> HIDE DEF Goes
  <2> QED BY <2>1, EmptySeq
<1>4. PICK f \in [0 .. K -> Seq(Seq(UartByte))] : CountedBy(f, K, <<>>, step)
  <2> HIDE DEF step, K
  <2> QED BY <1>1, <1>3, CountsAlong
<1> HIDE DEF Goes
<1>5. IsWalk(f)
  <2>1. ASSUME NEW i \in 1 .. K PROVE f[i] = Goes(f[i - 1], i)
    <3>1. i - 1 \in 0 .. K
      BY <1>1
    <3>2. f[i - 1] \in Seq(Seq(UartByte))
      BY <1>4, <3>1
    <3>3. <<f[i - 1], i>> \in Seq(Seq(UartByte)) \X (1 .. K)
      BY <3>2
    <3> QED BY <1>4, <3>3 DEF CountedBy
  <2> HIDE DEF K, step
  <2> QED BY <1>1, <1>4, <2>1 DEF CountedBy
<1> DEFINE walk == CHOOSE g : IsWalk(g)
<1>6. IsWalk(walk)
  <2> HIDE DEF IsWalk
  <2> QED BY <1>5, Zenon
<1> HIDE DEF walk, K, step
<1>7. walk[0] = <<>> /\ \A i \in 1 .. K : walk[i] = Goes(walk[i - 1], i)
  <2> DEFINE r == [i \in 0 .. K |-> IF i = 0 THEN <<>> ELSE Goes(walk[i - 1], i)]
  <2>1. walk = r
    BY <1>6
  <2>2. r[0] = <<>> /\ \A i \in 1 .. K : r[i] = Goes(walk[i - 1], i)
    BY <1>1
  <2> HIDE DEF r
  <2> QED BY <2>1, <2>2
<1>8. \A n \in 0 .. K : walk[n] \in Seq(Seq(UartByte))
  <2> DEFINE T == {m \in 0 .. K : walk[m] \in Seq(Seq(UartByte))}
  <2>1. 0 \in T
    <3>1. 0 \in 0 .. K
      BY <1>1
    <3>2. walk[0] \in Seq(Seq(UartByte))
      BY <1>3, <1>7, Zenon
    <3> QED BY <3>1, <3>2
  <2>2. ASSUME NEW m \in 0 .. K - 1, m \in T PROVE m + 1 \in T
    <3>1. m + 1 \in 1 .. K /\ m + 1 \in 0 .. K /\ (m + 1) - 1 = m
      BY <1>1
    <3>2. walk[m + 1] = Goes(walk[m], m + 1)
      BY <1>7, <3>1
    <3> QED BY <1>2, <2>2, <3>1, <3>2
  <2>3. ASSUME NEW n \in 0 .. K PROVE n \in T
    <3>1. \A m \in 0 .. n - 1 : m \in T => m + 1 \in T
      BY <1>1, <2>2
    <3> HIDE DEF T
    <3> QED BY <2>1, <3>1, CountedUpTo
  <2> QED BY <2>3
<1>9. walk = PacketsTo /\ Packets = walk[K]
  BY DEF Packets, PacketsTo, walk, Goes, K
<1> QED BY <1>7, <1>8, <1>9 DEF Goes, K, Found

LEMMA SizeIs ==
  ASSUME NEW i \in 0 .. RingSize - 1, NEW o \in 0 .. RingSize - 1
  PROVE  (IF i >= o THEN i - o ELSE i + (RingSize - o)) = Place(RingSize, i - o)
BY UartSizes, ModIs

LEMMA UartSees ==
  ASSUME BufTyped
  PROVE  /\ GetDataSize \in BufPlaces /\ GetDataSize = Place(RingSize, recvBufIn - recvBufOut)
         /\ recvBufIn = Place(RingSize, recvBufOut + GetDataSize)
         /\ UartUnread = Content(RingSize, recvBuf, recvBufOut, GetDataSize)
         /\ Len(UartUnread) = GetDataSize
<1>1. recvBufIn \in 0 .. RingSize - 1 /\ recvBufOut \in 0 .. RingSize - 1
  BY DEF BufTyped, BufPlaces
<1>2. /\ GetDataSize = Place(RingSize, recvBufIn - recvBufOut)
      /\ GetDataSize \in 0 .. RingSize - 1
      /\ recvBufIn = Place(RingSize, recvBufOut + GetDataSize)
  BY <1>1, UartSizes, ModIs DEF GetDataSize
<1>3. \A i \in 1 .. GetDataSize : recvBufOut + (i - 1) = recvBufOut + i - 1
  BY <1>1, <1>2
<1>4. UartUnread = Content(RingSize, recvBuf, recvBufOut, GetDataSize)
  BY <1>3 DEF UartUnread, GetBytes, GetByte, Content, Place
<1>5. Len(UartUnread) = GetDataSize
  <2>1. GetDataSize \in Nat
    BY <1>2, UartSizes
  <2> QED
    BY <2>1 DEF UartUnread, GetBytes
<1> QED
  BY <1>2, <1>4, <1>5 DEF BufPlaces

\* The byte that arrives comes last; a full buffer stays full.
LEMMA AppendUnread ==
  ASSUME BufTyped, NEW b \in UartByte, AppendByte(b)
  PROVE  /\ BufTyped' /\ UartUnread' = LastOf(Append(UartUnread, b), RingSize - 1)
         /\ GetDataSize' >= GetDataSize
<1> DEFINE n == GetDataSize  t == recvBufOut
           t2 == IF Place(RingSize, recvBufIn + 1) = t THEN Place(RingSize, t + 1) ELSE t
           n2 == IF n = RingSize - 1 THEN n ELSE n + 1
<1>1. /\ n \in 0 .. RingSize - 1 /\ t \in 0 .. RingSize - 1 /\ recvBufIn = Place(RingSize, t + n)
      /\ UartUnread = Content(RingSize, recvBuf, t, n)
      /\ recvBuf \in [0 .. RingSize - 1 -> UartByte]
  BY UartSees DEF BufPlaces, BufTyped
<1>2. /\ recvBuf' = [recvBuf EXCEPT ![recvBufIn] = b] /\ recvBufIn' = Place(RingSize, recvBufIn + 1)
      /\ recvBufOut' = t2
  BY DEF AppendByte, OutMovesOn, Place
<1> HIDE DEF n, t, t2, n2
<1>3. PutLast(RingSize, UartByte, recvBuf, t, n, b, recvBufIn, recvBuf', t2, n2)
  <2>1. /\ t2 = IF Place(RingSize, recvBufIn + 1) = t THEN Place(RingSize, t + 1) ELSE t
        /\ n2 = IF n = RingSize - 1 THEN n ELSE n + 1
    BY DEF t2, n2
  <2>2. recvBuf' = [recvBuf EXCEPT ![recvBufIn] = b]
    BY <1>2
  <2> QED
    BY <1>1, <2>1, <2>2, UartSizes, RingPut
<1>4. /\ recvBufIn \in 0 .. RingSize - 1 /\ recvBuf' \in [0 .. RingSize - 1 -> UartByte]
      /\ t2 \in 0 .. RingSize - 1 /\ n2 \in 0 .. RingSize - 1
      /\ Place(RingSize, recvBufIn + 1) = Place(RingSize, t2 + n2)
      /\ Content(RingSize, recvBuf', t2, n2)
           = LastOf(Append(Content(RingSize, recvBuf, t, n), b), RingSize - 1)
  BY <1>3 DEF PutLast
<1>5. Place(RingSize, Place(RingSize, t2 + n2) - t2) = n2
  BY <1>4, UartSizes, Distance
<1>6. Place(RingSize, t2 + n2) \in 0 .. RingSize - 1
  <2>1. t2 + n2 \in 0 .. 2 * RingSize - 1
    BY <1>4, UartSizes
  <2> QED
    BY <2>1, UartSizes, ModIs
<1>7. BufTyped'
  BY <1>2, <1>4, <1>6 DEF BufTyped, BufPlaces
<1>8. GetDataSize' = Place(RingSize, recvBufIn' - recvBufOut')
  BY <1>7, SizeIs DEF GetDataSize, BufTyped, BufPlaces
<1>9. GetDataSize' = n2
  BY <1>2, <1>4, <1>5, <1>8
<1>10. UartUnread' = Content(RingSize, recvBuf', t2, n2)
  <2>1. \A i \in 1 .. n2 : t2 + (i - 1) = t2 + i - 1
    BY <1>4, UartSizes
  <2> QED
    BY <1>2, <1>9, <2>1 DEF UartUnread, GetBytes, GetByte, Content, Place
<1>11. n2 >= n
  BY <1>1, UartSizes DEF n2
<1> QED
  BY <1>1, <1>4, <1>7, <1>9, <1>10, <1>11 DEF n

\* Consuming takes the first bytes.
LEMMA ConsumeUnread ==
  ASSUME BufTyped, NEW k \in 0 .. GetDataSize, ConsumeBytes(k)
  PROVE  /\ BufTyped' /\ UartUnread' = LastOf(UartUnread, Len(UartUnread) - k)
         /\ GetDataSize' = GetDataSize - k
<1> DEFINE n == GetDataSize  t == recvBufOut  u == Place(RingSize, t + k)
<1>1. /\ n \in 0 .. RingSize - 1 /\ t \in 0 .. RingSize - 1 /\ recvBufIn = Place(RingSize, t + n)
      /\ UartUnread = Content(RingSize, recvBuf, t, n) /\ Len(UartUnread) = n
      /\ recvBuf \in [0 .. RingSize - 1 -> UartByte] /\ k \in 0 .. n
      /\ recvBufIn \in 0 .. RingSize - 1
  BY UartSees DEF BufPlaces, BufTyped
<1>2. recvBufOut' = u /\ recvBuf' = recvBuf /\ recvBufIn' = recvBufIn
  BY DEF ConsumeBytes, Advanced, Place
<1> HIDE DEF n, t, u
<1>3. /\ u \in 0 .. RingSize - 1 /\ n - k \in 0 .. RingSize - 1
      /\ Place(RingSize, u + (n - k)) = Place(RingSize, t + n)
      /\ Content(RingSize, recvBuf, u, n - k) = LastOf(Content(RingSize, recvBuf, t, n), n - k)
  <2>1. TakenFirst(RingSize, recvBuf, t, n, k)
    BY <1>1, UartSizes, RingTake
  <2> QED
    BY <2>1 DEF TakenFirst, u
<1>4. Place(RingSize, Place(RingSize, u + (n - k)) - u) = n - k
  BY <1>3, UartSizes, Distance
<1>5. BufTyped'
  BY <1>1, <1>2, <1>3 DEF BufTyped, BufPlaces
<1>6. GetDataSize' = Place(RingSize, recvBufIn' - recvBufOut')
  <2>1. recvBufIn' \in 0 .. RingSize - 1 /\ recvBufOut' \in 0 .. RingSize - 1
    BY <1>5 DEF BufTyped, BufPlaces
  <2> QED
    BY <2>1, SizeIs, Zenon DEF GetDataSize
<1>7. GetDataSize' = n - k
  BY <1>1, <1>2, <1>3, <1>4, <1>6
<1>8. UartUnread' = Content(RingSize, recvBuf, u, n - k)
  <2>1. \A i \in 1 .. n - k : u + (i - 1) = u + i - 1
    BY <1>3, UartSizes
  <2> QED
    BY <1>2, <1>7, <2>1 DEF UartUnread, GetBytes, GetByte, Content, Place
<1> QED
  BY <1>1, <1>3, <1>5, <1>7, <1>8 DEF n

\* The length of a packet is at least that of an empty one.
LEMMA PacketLength ==
  ASSUME BufTyped
  PROVE  /\ LengthOf(GetBytes(MinPacket)) + MinPacket \in Nat
         /\ LengthOf(GetBytes(MinPacket)) + MinPacket >= MinPacket
<1>1. ASSUME NEW i \in 0 .. 4 PROVE GetByte(i) \in 0 .. ByteBase - 1
  <2>1. (recvBufOut + i) % RingSize \in 0 .. RingSize - 1
    BY UartSizes DEF BufTyped, BufPlaces
  <2>2. recvBuf[(recvBufOut + i) % RingSize] \in UartByte
    BY <2>1 DEF BufTyped, BufPlaces
  <2> QED
    BY <2>2, UartSizes DEF GetByte
<1> DEFINE s == GetBytes(MinPacket)
<1>2. s[3] = GetByte(2) /\ s[4] = GetByte(3)
  BY DEF GetBytes, MinPacket
<1>3. s[3] \in 0 .. ByteBase - 1 /\ s[4] \in 0 .. ByteBase - 1
  BY <1>1, <1>2
<1> HIDE DEF s
<1> DEFINE x == s[3]
<1>4. x \div ByteBase \in Nat /\ s[4] \in Nat
  <2>1. x \in 0 .. ByteBase - 1
    BY <1>3
  <2> HIDE DEF x
  <2>2. x \div ByteBase \in Nat
    BY <2>1, UartSizes
  <2> QED
    BY <1>3, <2>2, UartSizes
<1>5. LengthOf(s) \in Nat
  BY <1>4 DEF LengthOf
<1> QED
  BY <1>5 DEF s, MinPacket

\* One step as the reader of the buffer sees it.
UartStep ==
  \/ /\ arrived' = arrived + 1
     /\ \E b \in UartByte : UartUnread' = LastOf(Append(UartUnread, b), RingSize - 1)
  \/ /\ arrived' = arrived
     /\ \E n \in 1 .. Len(UartUnread) : UartUnread' = LastOf(UartUnread, Len(UartUnread) - n)
  \/ arrived' = arrived /\ UartUnread' = UartUnread

LEMMA UartStarts == FramesInit => UartInv
<1> SUFFICES ASSUME FramesInit PROVE UartInv
  OBVIOUS
<1>0. Wire \in Seq(UartByte)
  BY WireToIs, StreamIs DEF FramesInit
<1>1. /\ recvBuf = [i \in 0 .. RingSize - 1 |-> 0] /\ recvBufIn = 0 /\ recvBufOut = 0
      /\ arrived = 0 /\ parserAt = "idle" /\ parserSize = 0
  BY DEF FramesInit, RingInit
<1>2. BufTyped
  BY <1>1, UartSizes DEF BufTyped, BufPlaces
<1>3. overrun \in BOOLEAN
  BY DEF FramesInit
<1>4. arrived \in 0 .. Len(Wire) /\ parserSize \in 0 .. RingSize - 1
  BY <1>0, <1>1, UartSizes, LenProperties
<1> QED
  BY <1>0, <1>1, <1>2, <1>3, <1>4 DEF UartInv

LEMMA UartGoesOn ==
  ASSUME UartInv, [FramesNext]_frameVars
  PROVE  UartInv' /\ UartStep
<1>1. /\ BufTyped /\ Wire \in Seq(UartByte) /\ arrived \in 0 .. Len(Wire) /\ Len(Wire) \in Nat
      /\ parserAt \in {"idle", "skip", "take"} /\ parserSize \in 0 .. RingSize - 1
      /\ parserAt # "idle" => parserSize <= GetDataSize
      /\ parserAt = "take" => parserSize >= MinPacket
  BY LenProperties DEF UartInv
<1>2. overrun \in BOOLEAN
  BY DEF UartInv
<1>3. /\ GetDataSize \in 0 .. RingSize - 1 /\ Len(UartUnread) = GetDataSize
      /\ RingSize \in Nat /\ RingSize > 1
  BY <1>1, UartSees, UartSizes DEF BufPlaces
<1>4. Wire' = Wire
  <2>1. stream' = stream
    BY DEF FramesNext, Arrive, Parse, TryToGetNext, Skip, TakePacket, frameVars
  <2> QED
    BY <2>1 DEF Wire
<1>5. ASSUME UNCHANGED ringVars PROVE BufTyped' /\ UartUnread' = UartUnread /\ GetDataSize' = GetDataSize
  BY <1>1, <1>5 DEF ringVars, BufTyped, UartUnread, GetBytes, GetByte, GetDataSize
<1>6. CASE Arrive
  <2>1. /\ arrived < Len(Wire) /\ arrived' = arrived + 1 /\ AppendByte(Wire[arrived + 1])
        /\ parserAt' = parserAt /\ parserSize' = parserSize
    BY <1>6 DEF Arrive, parserVars
  <2>2. overrun' \in BOOLEAN
    BY <1>2, <1>6 DEF Arrive
  <2>3. arrived + 1 \in 1 .. Len(Wire)
    BY <1>1, <2>1
  <2>4. Wire[arrived + 1] \in UartByte
    BY <1>1, <2>3, ElementOfSeq
  <2> DEFINE b == Wire[arrived + 1]
  <2> HIDE DEF b
  <2>5. /\ BufTyped' /\ UartUnread' = LastOf(Append(UartUnread, b), RingSize - 1)
        /\ GetDataSize' >= GetDataSize
    BY <1>1, <2>1, <2>4, AppendUnread DEF b
  <2>6. GetDataSize' \in Int
    BY <2>5, UartSizes DEF GetDataSize, BufTyped, BufPlaces
  <2>7. parserAt # "idle" => parserSize <= GetDataSize'
    BY <1>1, <1>3, <2>5, <2>6
  <2>8. UartInv'
    <3>1. arrived' \in 0 .. Len(Wire)
      BY <1>1, <2>1
    <3> QED
      BY <1>1, <1>4, <2>1, <2>2, <2>5, <2>7, <3>1 DEF UartInv
  <2>9. UartStep
    BY <2>1, <2>4, <2>5 DEF UartStep, b
  <2> QED
    BY <2>8, <2>9
<1>7. CASE TryToGetNext
  <2>1. /\ UNCHANGED <<ringVars, arrived, overrun>> /\ parserSize' = GetDataSize /\ parserAt' = "skip"
    BY <1>7 DEF TryToGetNext
  <2>2. UartInv'
    BY <1>1, <1>2, <1>3, <1>4, <1>5, <2>1 DEF UartInv
  <2> QED
    BY <1>5, <2>1, <2>2 DEF UartStep
<1>8. CASE Skip
  <2>1. parserAt = "skip" /\ UNCHANGED <<arrived, overrun>>
    BY <1>8 DEF Skip
  <2>2. CASE parserSize > 0 /\ ~HeaderAt0
    <3>1. ConsumeBytes(1) /\ parserSize' = parserSize - 1 /\ parserAt' = parserAt
      BY <1>8, <2>2 DEF Skip
    <3>2. 1 \in 0 .. GetDataSize /\ 1 \in 1 .. Len(UartUnread)
      BY <1>1, <1>3, <2>1, <2>2
    <3>3. /\ BufTyped' /\ UartUnread' = LastOf(UartUnread, Len(UartUnread) - 1)
          /\ GetDataSize' = GetDataSize - 1
      BY <1>1, <3>1, <3>2, ConsumeUnread
    <3>4. parserSize' \in 0 .. RingSize - 1 /\ parserSize' <= GetDataSize'
      BY <1>1, <1>3, <2>1, <2>2, <3>1, <3>3
    <3>5. UartInv'
      BY <1>1, <1>2, <1>4, <2>1, <3>1, <3>3, <3>4 DEF UartInv
    <3> QED
      BY <2>1, <3>2, <3>3, <3>5 DEF UartStep
  <2>3. CASE ~(parserSize > 0 /\ ~HeaderAt0)
    <3>1. /\ UNCHANGED <<ringVars, parserSize>>
          /\ parserAt' = IF parserSize < MinPacket THEN "idle" ELSE "take"
      BY <1>8, <2>3 DEF Skip
    <3>2. parserSize <= GetDataSize /\ (parserAt' = "take" => parserSize >= MinPacket)
      BY <1>1, <2>1, <3>1 DEF MinPacket
    <3>3. UartInv'
      BY <1>1, <1>2, <1>4, <1>5, <2>1, <3>1, <3>2 DEF UartInv
    <3> QED
      BY <1>5, <2>1, <3>1, <3>3 DEF UartStep
  <2> QED
    BY <2>2, <2>3
<1>9. CASE TakePacket
  <2> DEFINE n == LengthOf(GetBytes(MinPacket)) + MinPacket
  <2>1. n \in Nat /\ n >= 5
    BY <1>1, PacketLength DEF MinPacket
  <2>2. /\ parserAt = "take" /\ parserAt' = "idle" /\ UNCHANGED <<parserSize, arrived, overrun>>
        /\ IF HeaderAt0 /\ parserSize >= n THEN ConsumeBytes(n) ELSE UNCHANGED ringVars
    BY <1>9 DEF TakePacket, Takes
  <2> HIDE DEF n
  <2>3. CASE HeaderAt0 /\ parserSize >= n
    <3>1. n \in 0 .. GetDataSize /\ n \in 1 .. Len(UartUnread)
      BY <1>1, <1>3, <2>1, <2>2, <2>3
    <3>2. BufTyped' /\ UartUnread' = LastOf(UartUnread, Len(UartUnread) - n)
      BY <1>1, <2>2, <2>3, <3>1, ConsumeUnread
    <3>3. UartInv'
      BY <1>1, <1>2, <1>4, <2>2, <3>2 DEF UartInv
    <3> QED
      BY <2>2, <3>1, <3>2, <3>3 DEF UartStep
  <2>4. CASE ~(HeaderAt0 /\ parserSize >= n)
    <3>1. UNCHANGED ringVars
      BY <2>2, <2>4
    <3>2. UartInv'
      BY <1>1, <1>2, <1>4, <1>5, <2>2, <3>1 DEF UartInv
    <3> QED
      BY <1>5, <2>2, <3>1, <3>2 DEF UartStep
  <2> QED
    BY <2>3, <2>4
<1>10. CASE UNCHANGED frameVars
  <2>1. UNCHANGED <<ringVars, arrived, parserAt, parserSize, overrun>>
    BY <1>10 DEF frameVars, ringVars
  <2>2. UartInv'
    BY <1>1, <1>2, <1>4, <1>5, <2>1 DEF UartInv
  <2> QED
    BY <1>5, <2>1, <2>2 DEF UartStep
<1> QED
  BY <1>6, <1>7, <1>8, <1>9, <1>10 DEF FramesNext, Parse

(***************************************************************************)
(* What the parser finds in the stream                                     *)
(***************************************************************************)

Off(i) == Len(WireTo[i])
Begins(s, t) == Len(s) <= Len(t) /\ \A j \in 1 .. Len(s) : t[j] = s[j]

\* Where the i-th piece of the stream stands on the wire.
LEMMA PieceIs ==
  ASSUME stream \in Streams, NEW i \in 1 .. Len(stream)
  PROVE  /\ Off(i - 1) \in Nat /\ Off(i) \in Nat /\ Off(i) = Off(i - 1) + Len(Sends(stream[i]))
         /\ Off(i) <= Len(Wire)
         /\ \A j \in 1 .. Len(Sends(stream[i])) : Wire[Off(i - 1) + j] = Sends(stream[i])[j]
<1> DEFINE K == Len(stream)  w == WireTo[i]  p == Sends(stream[i])
           T == {m \in 0 .. K : m >= i => Begins(w, WireTo[m])}
<1>1. K \in Nat /\ i \in 1 .. K /\ i \in 0 .. K /\ i - 1 \in 0 .. K
  BY StreamIs
<1>2. /\ \A m \in 0 .. K : WireTo[m] \in Seq(UartByte)
      /\ \A m \in 1 .. K : WireTo[m] = WireTo[m - 1] \o Sends(stream[m])
      /\ Wire = WireTo[K]
  BY WireToIs
<1>3. w \in Seq(UartByte) /\ Len(w) \in Nat
  BY <1>1, <1>2, LenProperties
<1>4. ASSUME NEW m \in 0 .. K - 1, m \in T PROVE m + 1 \in T
  <2>1. m + 1 \in 1 .. K /\ m + 1 \in 0 .. K /\ (m + 1) - 1 = m /\ m \in 0 .. K
    BY <1>1
  <2> DEFINE u == WireTo[m]  v == Sends(stream[m + 1])
  <2>2. WireTo[m + 1] = u \o v /\ u \in Seq(UartByte) /\ v \in Seq(UartByte)
    BY <1>2, <2>1, SendsBytes
  <2> HIDE DEF u, v
  <2>3. /\ Len(u) \in Nat /\ Len(v) \in Nat /\ Len(u \o v) = Len(u) + Len(v)
        /\ \A j \in 1 .. Len(u) : (u \o v)[j] = u[j]
    BY <2>2, ConcatProperties, LenProperties
  <2>4. CASE m >= i
    <3>1. Begins(w, u)
      BY <1>4, <2>4 DEF u
    <3>2. Begins(w, u \o v)
      BY <1>3, <2>3, <3>1 DEF Begins
    <3> QED BY <2>1, <2>2, <3>2
  <2>5. CASE m + 1 = i
    <3>1. Begins(w, WireTo[m + 1])
      BY <1>3, <2>5 DEF Begins
    <3> QED BY <2>1, <3>1
  <2>6. CASE m + 1 < i
    BY <2>1, <2>6
  <2> QED BY <1>1, <2>1, <2>4, <2>5, <2>6
<1>5. 0 \in T
  BY <1>1
<1>6. Begins(w, Wire)
  <2>1. K \in T
    <3> HIDE DEF T, K
    <3> QED BY <1>1, <1>4, <1>5, CountedUpTo
  <2> QED BY <1>1, <1>2, <2>1
<1> DEFINE u == WireTo[i - 1]
<1>7. w = u \o p /\ u \in Seq(UartByte) /\ p \in Seq(UartByte)
  BY <1>1, <1>2, SendsBytes
<1> HIDE DEF u, p, w
<1>8. /\ Len(u) \in Nat /\ Len(p) \in Nat /\ Len(w) = Len(u) + Len(p)
      /\ \A j \in 1 .. Len(u) + Len(p) : w[j] = IF j <= Len(u) THEN u[j] ELSE p[j - Len(u)]
  BY <1>7, ConcatProperties, LenProperties
<1>9. ASSUME NEW j \in 1 .. Len(p) PROVE Wire[Len(u) + j] = p[j]
  <2>1. Len(u) + j \in 1 .. Len(w) /\ ~(Len(u) + j <= Len(u)) /\ (Len(u) + j) - Len(u) = j
    BY <1>8
  <2>2. w[Len(u) + j] = p[j]
    BY <1>8, <2>1
  <2> QED BY <1>6, <2>1, <2>2 DEF Begins
<1> QED BY <1>3, <1>6, <1>8, <1>9 DEF Off, u, w, p, Begins

LEMMA OffEnds ==
  ASSUME stream \in Streams
  PROVE  Off(0) = 0 /\ Off(Len(stream)) = Len(Wire) /\ Len(Wire) \in Nat
<1>1. Len(WireTo[0]) = 0
  BY WireToIs, EmptySeq
<1>2. Len(stream) \in 0 .. Len(stream)
  BY StreamIs
<1> QED BY <1>1, <1>2, WireToIs, LenProperties DEF Off

\* What was found in the first pieces is what is found in all of them, as far as it goes.
LEMMA FoundFirst ==
  ASSUME stream \in Streams, NEW i \in 0 .. Len(stream)
  PROVE  IsPrefix(PacketsTo[i], Packets)
<1> DEFINE K == Len(stream)  w == PacketsTo[i]  S == Seq(UartByte)
           T == {m \in 0 .. K : m >= i => Begins(w, PacketsTo[m])}
<1>1. K \in Nat /\ i \in 0 .. K
  BY StreamIs
<1>2. /\ \A m \in 0 .. K : PacketsTo[m] \in Seq(S)
      /\ \A m \in 1 .. K : PacketsTo[m] = Found(PacketsTo[m - 1], stream[m])
      /\ Packets = PacketsTo[K]
  BY PacketsToIs
<1>3. w \in Seq(S) /\ Len(w) \in Nat
  BY <1>1, <1>2, LenProperties
<1> HIDE DEF w
<1>4. ASSUME NEW m \in 0 .. K - 1, m \in T PROVE m + 1 \in T
  <2>1. m + 1 \in 1 .. K /\ m + 1 \in 0 .. K /\ (m + 1) - 1 = m /\ m \in 0 .. K
    BY <1>1
  <2> DEFINE u == PacketsTo[m]  v == PacketsTo[m + 1]
  <2>2. u \in Seq(S) /\ (v = u \/ \E e \in S : v = Append(u, e))
    <3>1. v = Found(u, stream[m + 1])
      BY <1>2, <2>1
    <3>2. stream[m + 1].bytes \in S
      BY <2>1, StreamIs
    <3> QED BY <1>2, <2>1, <3>1, <3>2 DEF Found
  <2>3. Begins(u, v)
    <3> HIDE DEF u, v, S
    <3>1. Len(u) \in Nat
      BY <2>2, LenProperties
    <3>2. CASE v = u
      BY <3>1, <3>2 DEF Begins
    <3>3. ASSUME NEW e \in S, v = Append(u, e) PROVE Begins(u, v)
      BY <2>2, <3>1, <3>3, AppendProperties DEF Begins
    <3> QED BY <2>2, <3>2, <3>3
  <2>4. Len(u) \in Nat /\ Len(v) \in Nat
    BY <1>2, <2>1, LenProperties
  <2> HIDE DEF u, v
  <2>5. CASE m >= i
    <3>1. Begins(w, u)
      BY <1>4, <2>5 DEF u
    <3>2. Begins(w, v)
      BY <1>3, <2>3, <2>4, <3>1 DEF Begins
    <3> QED BY <2>1, <3>2 DEF v
  <2>6. CASE m + 1 = i
    <3>1. Begins(w, w)
      BY <1>3 DEF Begins
    <3> QED BY <2>1, <2>6, <3>1 DEF w
  <2>7. CASE m + 1 < i
    BY <2>1, <2>7
  <2> QED BY <1>1, <2>1, <2>5, <2>6, <2>7
<1>5. 0 \in T
  <2>1. Begins(w, w)
    BY <1>3 DEF Begins
  <2>2. 0 >= i => i = 0
    BY <1>1
  <2> QED BY <1>1, <2>1, <2>2 DEF w
<1>6. Begins(w, Packets)
  <2>1. K \in T
    <3> HIDE DEF T, K
    <3> QED BY <1>1, <1>4, <1>5, CountedUpTo
  <2> QED BY <1>1, <1>2, <2>1
<1>7. Packets \in Seq(S) /\ Len(Packets) \in Nat
  BY <1>1, <1>2, LenProperties
<1>8. SubSeq(w, 1, Len(w)) = SubSeq(Packets, 1, Len(w))
  <2>1. \A j \in 1 .. Len(w) : w[j] \in S /\ Packets[j] = w[j] /\ Packets[j] \in S
    BY <1>3, <1>6, ElementOfSeq DEF Begins
  <2> HIDE DEF S
  <2>2. /\ SubSeq(w, 1, Len(w)) \in Seq(S) /\ Len(SubSeq(w, 1, Len(w))) = Len(w)
        /\ \A j \in 1 .. Len(w) : SubSeq(w, 1, Len(w))[j] = w[j]
    BY <1>3, <2>1, SubSeqProperties
  <2>3. /\ SubSeq(Packets, 1, Len(w)) \in Seq(S) /\ Len(SubSeq(Packets, 1, Len(w))) = Len(w)
        /\ \A j \in 1 .. Len(w) : SubSeq(Packets, 1, Len(w))[j] = Packets[j]
    BY <1>3, <2>1, SubSeqProperties
  <2> QED BY <2>1, <2>2, <2>3, SeqEqual
<1> QED BY <1>6, <1>8 DEF IsPrefix, Begins, w

\* A packet whose length has one byte.
LEMMA PacketIs ==
  ASSUME NEW p \in Seq(UartByte), Len(p) < ByteBase
  PROVE  LET s == FramedPacket(p) IN
         /\ s \in Seq(UartByte) /\ Len(p) \in Nat /\ Len(s) = Len(p) + MinPacket
         /\ s[1] = H1 /\ s[2] = H2 /\ LengthOf(s) = Len(p)
         /\ Accepted(s) /\ SubSeq(s, 5, Len(s) - 1) = p
<1> DEFINE h == <<H1, H2, Len(p) \div ByteBase, Len(p) % ByteBase>>  body == h \o p
           c == Checksum(body)  s == Append(body, c)  n == Len(p)
<1>1. n \in Nat /\ n < ByteBase /\ n \div ByteBase = 0 /\ n % ByteBase = n
  <2>1. n \in Nat /\ n < ByteBase
    BY LenProperties
  <2>2. \A m \in Nat : m < ByteBase => m \div ByteBase = 0 /\ m % ByteBase = m
    BY UartSizes
  <2> QED BY <2>1, <2>2
<1>2. h = <<H1, H2, 0, n>>
  BY <1>1
<1>3. /\ h \in Seq(UartByte) /\ Len(h) = 4 /\ h[1] = H1 /\ h[2] = H2 /\ h[3] = 0 /\ h[4] = n
  <2>1. H1 \in UartByte /\ H2 \in UartByte /\ 0 \in UartByte /\ n \in UartByte
    BY <1>1, UartSizes DEF H1, H2
  <2> QED BY <1>2, <2>1
<1> HIDE DEF h
<1>4. /\ body \in Seq(UartByte) /\ Len(body) = n + 4
      /\ \A j \in 1 .. n + 4 : body[j] = IF j <= 4 THEN h[j] ELSE p[j - 4]
  <2>1. /\ body \in Seq(UartByte) /\ Len(body) = Len(h) + Len(p)
        /\ \A j \in 1 .. Len(h) + Len(p) : body[j] = IF j <= Len(h) THEN h[j] ELSE p[j - Len(h)]
    BY <1>3, ConcatProperties
  <2> QED BY <1>1, <1>3, <2>1
<1>5. c \in UartByte
  BY <1>4, ChecksumIs
<1> HIDE DEF body, c
<1>6. /\ s \in Seq(UartByte) /\ Len(s) = n + 5
      /\ \A j \in 1 .. n + 4 : s[j] = body[j]
      /\ s[n + 5] = c
  <2>1. /\ s \in Seq(UartByte) /\ Len(s) = Len(body) + 1
        /\ \A j \in 1 .. Len(body) : s[j] = body[j]
        /\ s[Len(body) + 1] = c
    BY <1>4, <1>5, AppendProperties
  <2> QED BY <1>1, <1>4, <2>1
<1>7. FramedPacket(p) = s
  BY DEF FramedPacket, s, body, h, c
<1> HIDE DEF s, n
<1>8. s[1] = H1 /\ s[2] = H2 /\ s[3] = 0 /\ s[4] = n
  <2>1. \A j \in 1 .. 4 : s[j] = h[j]
    BY <1>1, <1>4, <1>6
  <2> QED BY <1>3, <2>1
<1>9. LengthOf(s) = n
  <2>1. 0 \div ByteBase = 0
    BY UartSizes
  <2> QED BY <1>1, <1>8, <2>1 DEF LengthOf
<1>10. SubSeq(s, 1, n + 4) = body
  <2>1. \A j \in 1 .. n + 4 : s[j] \in UartByte
    BY <1>1, <1>6, ElementOfSeq
  <2>2. /\ SubSeq(s, 1, n + 4) \in Seq(UartByte) /\ Len(SubSeq(s, 1, n + 4)) = n + 4
        /\ \A j \in 1 .. n + 4 : SubSeq(s, 1, n + 4)[j] = s[j]
    BY <1>1, <2>1, SubSeqProperties
  <2> QED BY <1>4, <1>6, <2>2, SeqEqual
<1>11. SubSeq(s, 5, n + 4) = p
  <2>1. \A j \in 5 .. n + 4 : s[j] \in UartByte
    BY <1>1, <1>6, ElementOfSeq
  <2>2. /\ SubSeq(s, 5, n + 4) \in Seq(UartByte) /\ Len(SubSeq(s, 5, n + 4)) = n
        /\ \A j \in 1 .. n : SubSeq(s, 5, n + 4)[j] = s[j + 4]
    <3>1. 5 \in Int /\ n + 4 \in Int /\ (n + 4) - 5 + 1 = n /\ \A j \in 1 .. n : 5 + j - 1 = j + 4
      BY <1>1
    <3>2. /\ SubSeq(s, 5, n + 4) \in Seq(UartByte)
          /\ Len(SubSeq(s, 5, n + 4)) = IF 5 <= n + 4 THEN (n + 4) - 5 + 1 ELSE 0
          /\ \A j \in 1 .. (n + 4) - 5 + 1 : SubSeq(s, 5, n + 4)[j] = s[5 + j - 1]
      BY <2>1, <3>1, SubSeqProperties
    <3> QED BY <1>1, <3>1, <3>2
  <2>3. \A j \in 1 .. n : s[j + 4] = p[j]
    BY <1>1, <1>4, <1>6
  <2>4. Len(p) = n
    BY DEF n
  <2> QED BY <2>2, <2>3, <2>4, SeqEqual
<1>12. Accepted(s)
  <2>1. Len(s) = n + 5 /\ Len(s) - 1 = n + 4
    BY <1>1, <1>6
  <2>2. s[Len(s)] = c /\ Checksum(SubSeq(s, 1, Len(s) - 1)) = c
    BY <1>6, <1>10, <2>1, Zenon DEF c
  <2> QED BY <2>2 DEF Accepted
<1>13. Len(p) = n /\ Len(s) - 1 = n + 4
  BY <1>1, <1>6 DEF n
<1> QED BY <1>1, <1>6, <1>7, <1>8, <1>9, <1>11, <1>12, <1>13 DEF MinPacket

\* How far the parser is: the first i pieces are behind it, and what is unread begins with
\* the piece after them or in the midst of it, if that is garbage.  When it starts to look
\* for a header it sees the first two bytes of the next packet, for all the garbage that
\* can lie before them: it never compares a header with a byte that has not come.
At == arrived - Len(UartUnread)
IsGarbage(i) == i < Len(stream) /\ stream[i + 1].what = "garbage"
IsPacket(i) == i < Len(stream) /\ stream[i + 1].what = "packet"
Header(i) == IF IsGarbage(i) THEN Off(i + 1) ELSE Off(i)
Done(i) ==
  /\ delivered = PacketsTo[i]
  /\ IF IsGarbage(i) THEN Off(i) <= At /\ At < Off(i + 1) ELSE At = Off(i)
  /\ parserAt = "skip" => At + parserSize >= Header(i) + 2
  /\ parserAt = "take" => IsPacket(i)
UnreadIsLast == \A j \in 1 .. Len(UartUnread) : UartUnread[j] = Wire[At + j]
FollowInv ==
  /\ stream \in Streams
  /\ Sendable(stream) /\ ~overrun => UnreadIsLast /\ \E i \in 0 .. Len(stream) : Done(i)

LEMMA FollowStarts == FramesInit => FollowInv
<1> SUFFICES ASSUME FramesInit, Sendable(stream)
             PROVE  UnreadIsLast /\ \E i \in 0 .. Len(stream) : Done(i)
  BY DEF FollowInv, FramesInit
<1>1. /\ stream \in Streams /\ arrived = 0 /\ recvBufIn = 0 /\ recvBufOut = 0
      /\ delivered = <<>> /\ parserAt = "idle"
  BY DEF FramesInit, RingInit
<1>2. BufTyped
  BY UartStarts DEF UartInv
<1>3. Len(UartUnread) = 0
  BY <1>1, <1>2, UartSees DEF GetDataSize
<1>4. At = 0 /\ UnreadIsLast
  BY <1>1, <1>3 DEF At, UnreadIsLast
<1>5. Len(stream) \in Nat /\ Off(0) = 0 /\ delivered = PacketsTo[0]
  BY <1>1, StreamIs, OffEnds, PacketsToIs
<1>6. ASSUME IsGarbage(0) PROVE At < Off(1)
  <2>1. /\ 1 \in 1 .. Len(stream) /\ 1 \in DOMAIN stream /\ 0 + 1 = 1
        /\ stream[1].what # "packet"
    BY <1>1, <1>5, <1>6, StreamIs DEF IsGarbage
  <2>2. Len(stream[1].bytes) \in 1 .. MinPacket - 2 /\ Sends(stream[1]) = stream[1].bytes
    BY <2>1 DEF Sendable, Sends
  <2>3. Off(1) = Off(1 - 1) + Len(Sends(stream[1]))
    BY <1>1, <2>1, PieceIs
  <2>4. Off(1 - 1) = 0
    BY <1>5
  <2>5. Len(Sends(stream[1])) \in 1 .. 3
    BY <2>2 DEF MinPacket
  <2>6. Off(1) = Len(Sends(stream[1]))
    BY <2>3, <2>4, <2>5
  <2> QED BY <1>4, <2>5, <2>6
<1>7. Done(0)
  BY <1>1, <1>4, <1>5, <1>6 DEF Done
<1> QED BY <1>4, <1>5, <1>7

\* What Sendable says of the piece after the first i, and where it stands.
LEMMA NextPiece ==
  ASSUME stream \in Streams, Sendable(stream), NEW i \in 0 .. Len(stream)
  PROVE  /\ Off(i) \in Nat /\ Off(i) <= Len(Wire) /\ Len(Wire) \in Nat
         /\ IsPacket(i) =>
              LET p == stream[i + 1].bytes  s == FramedPacket(p) IN
              /\ p \in Seq(UartByte) /\ Len(p) < ByteBase
              /\ Off(i + 1) = Off(i) + Len(s) /\ Off(i + 1) <= Len(Wire)
              /\ \A j \in 1 .. Len(s) : Wire[Off(i) + j] = s[j]
              /\ PacketsTo[i + 1] =
                   IF FitsBuffer(p) THEN Append(PacketsTo[i], p) ELSE PacketsTo[i]
         /\ IsGarbage(i) =>
              LET g == stream[i + 1].bytes IN
              /\ Len(g) \in 1 .. 3 /\ Off(i + 1) = Off(i) + Len(g) /\ Off(i + 1) <= Len(Wire)
              /\ \A j \in 1 .. Len(g) : Wire[Off(i) + j] = g[j]
              /\ \A j \in 1 .. Len(g) - 1 : ~(g[j] = H1 /\ g[j + 1] = H2)
              /\ PacketsTo[i + 1] = PacketsTo[i]
              /\ ~IsGarbage(i + 1)
         /\ ~IsPacket(i) /\ ~IsGarbage(i) => i = Len(stream) /\ Off(i) = Len(Wire)
<1>1. Len(stream) \in Nat /\ DOMAIN stream = 1 .. Len(stream) /\ Len(Wire) \in Nat
  BY StreamIs, OffEnds
<1>2. Off(i) \in Nat /\ Off(i) <= Len(Wire)
  <2>1. CASE i = 0
    BY <1>1, <2>1, OffEnds
  <2>2. CASE i # 0
    <3>1. i \in 1 .. Len(stream)
      BY <2>2
    <3> QED BY <3>1, PieceIs
  <2> QED BY <2>1, <2>2
<1>3. ASSUME i < Len(stream)
      PROVE  /\ i + 1 \in 1 .. Len(stream) /\ i + 1 \in DOMAIN stream
             /\ stream[i + 1].what \in {"packet", "garbage"}
             /\ stream[i + 1].bytes \in Seq(UartByte)
             /\ Off(i + 1) = Off(i) + Len(Sends(stream[i + 1])) /\ Off(i + 1) <= Len(Wire)
             /\ \A j \in 1 .. Len(Sends(stream[i + 1])) :
                  Wire[Off(i) + j] = Sends(stream[i + 1])[j]
             /\ PacketsTo[i + 1] = Found(PacketsTo[i], stream[i + 1])
  <2>1. i + 1 \in 1 .. Len(stream) /\ i + 1 \in DOMAIN stream /\ (i + 1) - 1 = i
    BY <1>1, <1>3
  <2>2. stream[i + 1].what \in {"packet", "garbage"} /\ stream[i + 1].bytes \in Seq(UartByte)
    BY <2>1, StreamIs
  <2>3. PacketsTo[i + 1] = Found(PacketsTo[(i + 1) - 1], stream[i + 1])
    BY <2>1, PacketsToIs
  <2> DEFINE k == i + 1
  <2>4. /\ Off(k) = Off(k - 1) + Len(Sends(stream[k])) /\ Off(k) <= Len(Wire)
        /\ \A j \in 1 .. Len(Sends(stream[k])) : Wire[Off(k - 1) + j] = Sends(stream[k])[j]
    BY <2>1, PieceIs
  <2> QED BY <2>1, <2>2, <2>3, <2>4
<1>4. ASSUME IsPacket(i)
      PROVE  LET p == stream[i + 1].bytes  s == FramedPacket(p) IN
             /\ p \in Seq(UartByte) /\ Len(p) < ByteBase
             /\ Off(i + 1) = Off(i) + Len(s) /\ Off(i + 1) <= Len(Wire)
             /\ \A j \in 1 .. Len(s) : Wire[Off(i) + j] = s[j]
             /\ PacketsTo[i + 1] =
                  IF FitsBuffer(p) THEN Append(PacketsTo[i], p) ELSE PacketsTo[i]
  <2>1. i < Len(stream) /\ stream[i + 1].what = "packet"
    BY <1>4 DEF IsPacket
  <2>2. Sends(stream[i + 1]) = FramedPacket(stream[i + 1].bytes)
    BY <2>1 DEF Sends
  <2>3. Len(stream[i + 1].bytes) < ByteBase
    BY <1>3, <2>1 DEF Sendable
  <2>4. PacketsTo[i + 1] = IF FitsBuffer(stream[i + 1].bytes)
          THEN Append(PacketsTo[i], stream[i + 1].bytes) ELSE PacketsTo[i]
    BY <1>3, <2>1 DEF Found
  <2> QED BY <1>3, <2>1, <2>2, <2>3, <2>4
<1>5. ASSUME IsGarbage(i)
      PROVE  LET g == stream[i + 1].bytes IN
             /\ Len(g) \in 1 .. 3 /\ Off(i + 1) = Off(i) + Len(g) /\ Off(i + 1) <= Len(Wire)
             /\ \A j \in 1 .. Len(g) : Wire[Off(i) + j] = g[j]
             /\ \A j \in 1 .. Len(g) - 1 : ~(g[j] = H1 /\ g[j + 1] = H2)
             /\ PacketsTo[i + 1] = PacketsTo[i]
             /\ ~IsGarbage(i + 1)
  <2>1. i < Len(stream) /\ stream[i + 1].what = "garbage" /\ stream[i + 1].what # "packet"
    BY <1>5 DEF IsGarbage
  <2>2. Sends(stream[i + 1]) = stream[i + 1].bytes
    BY <2>1 DEF Sends
  <2>3. /\ Len(stream[i + 1].bytes) \in 1 .. MinPacket - 2
        /\ \A j \in 1 .. Len(stream[i + 1].bytes) - 1 :
             ~(stream[i + 1].bytes[j] = H1 /\ stream[i + 1].bytes[j + 1] = H2)
        /\ i + 1 < Len(stream) => stream[(i + 1) + 1].what = "packet"
    BY <1>3, <2>1 DEF Sendable
  <2>4. ~IsGarbage(i + 1)
    BY <2>3 DEF IsGarbage
  <2>5. PacketsTo[i + 1] = PacketsTo[i]
    BY <1>3, <2>1 DEF Found
  <2>6. MinPacket - 2 = 3
    BY DEF MinPacket
  <2> QED BY <1>3, <2>1, <2>2, <2>3, <2>4, <2>5, <2>6
<1>6. ASSUME ~IsPacket(i), ~IsGarbage(i) PROVE i = Len(stream) /\ Off(i) = Len(Wire)
  <2>1. ~(i < Len(stream))
    <3> SUFFICES ASSUME i < Len(stream) PROVE FALSE
      OBVIOUS
    <3>1. stream[i + 1].what \in {"packet", "garbage"}
      BY <1>3
    <3>2. stream[i + 1].what # "packet" /\ stream[i + 1].what # "garbage"
      BY <1>6 DEF IsPacket, IsGarbage
    <3> QED BY <3>1, <3>2
  <2>2. i = Len(stream)
    <3>1. Len(stream) \in Nat
      BY <1>1
    <3>2. i \in Nat /\ i <= Len(stream)
      BY <3>1
    <3> QED BY <3>1, <3>2, <2>1
  <2> QED BY <2>2, OffEnds
<1> QED BY <1>1, <1>2, <1>4, <1>5, <1>6

\* What the parser sees.
LEMMA SeesBytes ==
  ASSUME UartInv
  PROVE  /\ Len(UartUnread) = GetDataSize /\ Len(UartUnread) \in 0 .. RingSize - 1
         /\ UartUnread \in Seq(UartByte)
         /\ \A j \in 1 .. Len(UartUnread) : UartUnread[j] = GetByte(j - 1)
         /\ At + Len(UartUnread) = arrived /\ At \in Int
         /\ arrived \in 0 .. Len(Wire) /\ Len(Wire) \in Nat
<1>1. BufTyped /\ arrived \in 0 .. Len(Wire) /\ Len(Wire) \in Nat
  BY LenProperties DEF UartInv
<1> DEFINE n == GetDataSize
<1>2. n \in 0 .. RingSize - 1 /\ Len(UartUnread) = n /\ n \in Nat
  BY <1>1, UartSees, UartSizes DEF BufPlaces
<1>3. ASSUME NEW j \in 1 .. n PROVE GetByte(j - 1) \in UartByte
  <2>1. recvBufOut + (j - 1) \in Nat
    BY <1>1, <1>2, UartSizes DEF BufTyped, BufPlaces
  <2>2. \A m \in Nat : m % RingSize \in 0 .. RingSize - 1
    BY UartSizes
  <2> QED BY <1>1, <2>1, <2>2 DEF GetByte, BufTyped, BufPlaces
<1>4. UartUnread = [j \in 1 .. n |-> GetByte(j - 1)]
  BY DEF UartUnread, GetBytes
<1> HIDE DEF n
<1>5. UartUnread \in Seq(UartByte) /\ \A j \in 1 .. n : UartUnread[j] = GetByte(j - 1)
  BY <1>2, <1>3, <1>4
<1> QED BY <1>1, <1>2, <1>5 DEF n, At

\* What is consumed is taken off the front.
LEMMA ConsumeSeen ==
  ASSUME UartInv, NEW k \in 0 .. Len(UartUnread), ConsumeBytes(k), arrived' = arrived, Wire' = Wire
  PROVE  At' = At + k /\ (UnreadIsLast => UnreadIsLast')
<1> DEFINE u == UartUnread  n == Len(u)
<1>1. /\ n = GetDataSize /\ n \in Nat /\ u \in Seq(UartByte) /\ At + n = arrived /\ At \in Int
      /\ arrived \in Nat
  BY SeesBytes, UartSizes
<1>2. u' = LastOf(u, n - k)
  <2>1. k \in 0 .. GetDataSize /\ BufTyped
    BY <1>1 DEF UartInv
  <2> QED BY <2>1, ConsumeUnread
<1> HIDE DEF u, n
<1>3. LastOf(u, n - k) = SubSeq(u, k + 1, n)
  <2>1. n > n - k => n - (n - k) + 1 = k + 1
    BY <1>1
  <2>2. ~(n > n - k) => k + 1 = 1
    BY <1>1 DEF n, u
  <2>3. Len(u) = n
    BY DEF n
  <2> QED BY <2>1, <2>2, <2>3 DEF LastOf
<1>4. Len(u') = n - k /\ \A j \in 1 .. n - k : u'[j] = u[k + j]
  <2>1. k + 1 \in Int /\ n \in Int /\ n - (k + 1) + 1 = n - k /\ k \in 0 .. n
    BY <1>1 DEF n, u
  <2>2. \A j \in k + 1 .. n : u[j] \in UartByte
    <3>1. \A j \in k + 1 .. n : j \in 1 .. Len(u)
      BY <1>1, <2>1 DEF n
    <3> QED BY <1>1, <3>1, ElementOfSeq
  <2>3. /\ Len(SubSeq(u, k + 1, n)) = IF k + 1 <= n THEN n - (k + 1) + 1 ELSE 0
        /\ \A j \in 1 .. n - (k + 1) + 1 : SubSeq(u, k + 1, n)[j] = u[k + 1 + j - 1]
    BY <2>1, <2>2, SubSeqProperties
  <2>4. Len(SubSeq(u, k + 1, n)) = n - k
    BY <1>1, <2>1, <2>3
  <2>5. \A j \in 1 .. n - k : SubSeq(u, k + 1, n)[j] = u[k + j]
    <3>1. \A j \in 1 .. n - k : k + 1 + j - 1 = k + j
      BY <2>1
    <3> QED BY <2>1, <2>3, <3>1
  <2> QED BY <1>2, <1>3, <2>4, <2>5
<1>5. At = arrived - n /\ At' = arrived - Len(u')
  BY DEF At, u, n
<1>6. At' = At + k
  BY <1>1, <1>4, <1>5
<1>7. ASSUME UnreadIsLast PROVE UnreadIsLast'
  <2>1. \A j \in 1 .. n : u[j] = Wire[At + j]
    BY <1>7 DEF UnreadIsLast, u, n
  <2>2. ASSUME NEW j \in 1 .. n - k PROVE u'[j] = Wire'[At' + j]
    <3>1. k + j \in 1 .. n /\ At' + j = At + (k + j)
      BY <1>1, <1>6
    <3> QED BY <1>4, <2>1, <3>1
  <2>3. \A j \in 1 .. Len(u') : u'[j] = Wire'[At' + j]
    BY <1>4, <2>2
  <2> QED BY <2>3 DEF UnreadIsLast, u
<1> QED BY <1>6, <1>7

LEMMA FollowGoesOn ==
  ASSUME UartInv, FollowInv, [FramesNext]_frameVars
  PROVE  FollowInv'
<1>1. stream' = stream /\ stream \in Streams
  BY DEF FramesNext, Arrive, Parse, TryToGetNext, Skip, TakePacket, frameVars, FollowInv
<1>2. /\ Wire' = Wire /\ WireTo' = WireTo /\ PacketsTo' = PacketsTo /\ Len(stream)' = Len(stream)
      /\ Sendable(stream)' = Sendable(stream)
  BY <1>1 DEF Wire, WireTo, PacketsTo
<1>3. overrun => overrun'
  BY DEF FramesNext, Arrive, Parse, TryToGetNext, Skip, TakePacket, frameVars
<1> SUFFICES ASSUME Sendable(stream), ~overrun, ~overrun'
             PROVE  UnreadIsLast' /\ \E i \in 0 .. Len(stream) : Done(i)'
  BY <1>1, <1>2, <1>3 DEF FollowInv
<1>4. UnreadIsLast /\ \E i \in 0 .. Len(stream) : Done(i)
  BY DEF FollowInv
<1>5. PICK i \in 0 .. Len(stream) : Done(i)
  BY <1>4
<1> DEFINE n == Len(UartUnread)
<1>6. /\ n = GetDataSize /\ n \in Nat /\ n <= RingSize - 1 /\ UartUnread \in Seq(UartByte)
      /\ \A j \in 1 .. n : UartUnread[j] = GetByte(j - 1)
      /\ At + n = arrived /\ At \in Int /\ arrived \in Nat
      /\ arrived <= Len(Wire) /\ Len(Wire) \in Nat
  BY SeesBytes, UartSizes
<1>7. /\ parserSize \in Nat /\ (parserAt # "idle" => parserSize <= n)
      /\ (parserAt = "take" => parserSize >= MinPacket)
      /\ BufTyped /\ Wire \in Seq(UartByte)
  BY <1>6, UartSizes DEF UartInv
<1>8. /\ Off(i) \in Nat /\ Off(i) <= Len(Wire) /\ delivered = PacketsTo[i]
      /\ IF IsGarbage(i) THEN Off(i) <= At /\ At < Off(i + 1) ELSE At = Off(i)
      /\ parserAt = "skip" => At + parserSize >= Header(i) + 2
      /\ parserAt = "take" => IsPacket(i)
  BY <1>1, <1>5, NextPiece DEF Done
<1>9. \A k : Off(k)' = Off(k) /\ IsGarbage(k)' = IsGarbage(k) /\ IsPacket(k)' = IsPacket(k) /\ Header(k)' = Header(k)
  BY <1>1, <1>2 DEF Off, IsGarbage, IsPacket, Header
<1>10. \A j \in 1 .. n : GetByte(j - 1) = Wire[At + j]
  BY <1>4, <1>6 DEF UnreadIsLast
\* The piece that the parser is in.
<1>11. ASSUME IsGarbage(i)
       PROVE  LET g == stream[i + 1].bytes IN
              /\ Len(g) \in 1 .. 3 /\ Off(i + 1) = Off(i) + Len(g) /\ Off(i + 1) <= Len(Wire)
              /\ \A j \in 1 .. Len(g) : Wire[Off(i) + j] = g[j]
              /\ \A j \in 1 .. Len(g) - 1 : ~(g[j] = H1 /\ g[j + 1] = H2)
              /\ PacketsTo[i + 1] = PacketsTo[i]
              /\ ~IsGarbage(i + 1) /\ i + 1 \in 0 .. Len(stream)
  <2>1. i + 1 \in 0 .. Len(stream)
    BY <1>1, <1>11, StreamIs DEF IsGarbage
  <2> QED BY <1>1, <1>11, <2>1, NextPiece
<1>12. ASSUME NEW k \in 0 .. Len(stream), IsPacket(k)
       PROVE  LET p == stream[k + 1].bytes  s == FramedPacket(p) IN
              /\ s \in Seq(UartByte) /\ Len(p) \in Nat /\ Len(s) = Len(p) + 5
              /\ s[1] = H1 /\ s[2] = H2 /\ LengthOf(s) = Len(p)
              /\ Accepted(s) /\ SubSeq(s, 5, Len(s) - 1) = p
              /\ Off(k + 1) = Off(k) + Len(s) /\ Off(k + 1) <= Len(Wire)
              /\ \A j \in 1 .. Len(s) : Wire[Off(k) + j] = s[j]
              /\ PacketsTo[k + 1] = IF FitsBuffer(p) THEN Append(PacketsTo[k], p) ELSE PacketsTo[k]
              /\ k + 1 \in 0 .. Len(stream)
              /\ Wire[Off(k) + 1] = H1 /\ Wire[Off(k) + 2] = H2
  <2>1. k + 1 \in 0 .. Len(stream)
    BY <1>1, <1>12, StreamIs DEF IsPacket
  <2>2. LET p == stream[k + 1].bytes  s == FramedPacket(p) IN
        /\ p \in Seq(UartByte) /\ Len(p) < ByteBase
        /\ Off(k + 1) = Off(k) + Len(s) /\ Off(k + 1) <= Len(Wire)
        /\ \A j \in 1 .. Len(s) : Wire[Off(k) + j] = s[j]
        /\ PacketsTo[k + 1] = IF FitsBuffer(p) THEN Append(PacketsTo[k], p) ELSE PacketsTo[k]
    BY <1>1, <1>12, NextPiece
  <2> DEFINE p == stream[k + 1].bytes
  <2>3. p \in Seq(UartByte) /\ Len(p) < ByteBase
    BY <2>2
  <2> HIDE DEF p
  <2>4. LET s == FramedPacket(p) IN
        /\ s \in Seq(UartByte) /\ Len(p) \in Nat /\ Len(s) = Len(p) + 5
        /\ s[1] = H1 /\ s[2] = H2 /\ LengthOf(s) = Len(p)
        /\ Accepted(s) /\ SubSeq(s, 5, Len(s) - 1) = p
    BY <2>3, PacketIs DEF MinPacket
  <2>5. Wire[Off(k) + 1] = H1 /\ Wire[Off(k) + 2] = H2
    <3> DEFINE s == FramedPacket(p)
    <3>1. Len(s) = Len(p) + 5 /\ Len(p) \in Nat
      BY <2>4
    <3>2. 1 \in 1 .. Len(s) /\ 2 \in 1 .. Len(s)
      BY <3>1
    <3>3. Wire[Off(k) + 1] = s[1] /\ Wire[Off(k) + 2] = s[2]
      BY <2>2, <3>2 DEF p
    <3> QED BY <2>4, <3>3
  <2> QED BY <2>1, <2>2, <2>4, <2>5 DEF p
<1>13. ASSUME UNCHANGED <<ringVars, arrived>>
       PROVE  At' = At /\ UnreadIsLast' /\ UartUnread' = UartUnread
  <2>1. UartUnread' = UartUnread
    BY <1>13 DEF ringVars, UartUnread, GetBytes, GetByte, GetDataSize
  <2> QED BY <1>2, <1>4, <1>13, <2>1 DEF At, UnreadIsLast
<1> HIDE DEF n
<1>14. CASE Arrive
  <2>1. /\ arrived < Len(Wire) /\ arrived' = arrived + 1 /\ AppendByte(Wire[arrived + 1])
        /\ parserAt' = parserAt /\ parserSize' = parserSize /\ delivered' = delivered
        /\ GetDataSize # RingSize - 1
    BY <1>14 DEF Arrive, parserVars
  <2>2. arrived + 1 \in 1 .. Len(Wire)
    BY <1>6, <2>1
  <2> DEFINE b == Wire[arrived + 1]
  <2>3. b \in UartByte /\ AppendByte(b)
    BY <1>7, <2>1, <2>2, ElementOfSeq
  <2> HIDE DEF b
  <2>4. UartUnread' = LastOf(Append(UartUnread, b), RingSize - 1)
    BY <1>7, <2>3, AppendUnread
  <2> DEFINE t == Append(UartUnread, b)
  <2>5. /\ t \in Seq(UartByte) /\ Len(t) = n + 1 /\ t[n + 1] = b
        /\ \A j \in 1 .. n : t[j] = UartUnread[j]
    BY <1>6, <2>3, AppendProperties DEF n
  <2>6. UartUnread' = t
    <3> HIDE DEF t
    <3>1. n + 1 <= RingSize - 1 /\ ~(Len(t) > RingSize - 1)
      BY <1>6, <2>1, <2>5, UartSizes
    <3>2. UartUnread' = SubSeq(t, 1, Len(t))
      BY <2>4, <3>1 DEF LastOf, t
    <3> QED BY <2>5, <3>2, SubSeqFull
  <2> HIDE DEF t
  <2>7. At' = At
    <3>1. At = arrived - n /\ At' = arrived' - Len(t) /\ Len(t) = n + 1 /\ arrived' = arrived + 1
      BY <2>1, <2>5, <2>6 DEF At, n
    <3>2. n \in Nat /\ arrived \in Nat
      BY <1>6
    <3> QED BY <3>1, <3>2
  <2>8. UnreadIsLast'
    <3>1. ASSUME NEW j \in 1 .. n + 1 PROVE t[j] = Wire[At + j]
      <4>1. CASE j \in 1 .. n
        BY <1>4, <2>5, <4>1 DEF UnreadIsLast, n
      <4>2. CASE j = n + 1
        <5>1. At + j = arrived + 1
          BY <1>6, <4>2
        <5> QED BY <2>5, <4>2, <5>1 DEF b
      <4> QED BY <1>6, <4>1, <4>2
    <3> QED BY <1>2, <2>5, <2>6, <2>7, <3>1 DEF UnreadIsLast
  <2>9. Done(i)'
    BY <1>2, <1>5, <1>9, <2>1, <2>7 DEF Done
  <2> QED BY <2>8, <2>9
<1>15. CASE TryToGetNext
  <2>1. /\ UNCHANGED <<ringVars, arrived, delivered>> /\ parserSize' = n /\ parserAt' = "skip" /\ n >= 5
    BY <1>6, <1>15 DEF TryToGetNext, MinPacket
  <2>2. At' = At /\ UnreadIsLast'
    BY <1>13, <2>1
  <2>3. At + n >= Header(i) + 2
    <3>1. CASE IsGarbage(i)
      <4> DEFINE l == Len(stream[i + 1].bytes)
      <4>0. l \in 1 .. 3 /\ Off(i + 1) = Off(i) + l
        BY <1>11, <3>1
      <4> HIDE DEF l
      <4>1. Off(i + 1) <= Off(i) + 3 /\ Off(i + 1) \in Nat
        BY <1>8, <4>0
      <4>2. Header(i) = Off(i + 1) /\ Off(i) <= At /\ Off(i) \in Nat /\ At \in Int /\ n \in Nat
        BY <1>6, <1>8, <3>1 DEF Header
      <4> QED BY <2>1, <4>1, <4>2
    <3>2. CASE ~IsGarbage(i)
      BY <1>6, <1>8, <2>1, <3>2 DEF Header
    <3> QED BY <3>1, <3>2
  <2>4. Done(i)'
    BY <1>2, <1>8, <1>9, <2>1, <2>2, <2>3 DEF Done
  <2> QED BY <2>2, <2>4
<1>16. CASE Skip
  <2>1. /\ parserAt = "skip" /\ parserSize <= n /\ arrived' = arrived /\ delivered' = delivered
        /\ At + parserSize >= Header(i) + 2
    BY <1>7, <1>8, <1>16 DEF Skip
  <2>2. Header(i) >= At /\ Header(i) \in Nat
    BY <1>6, <1>8, <1>11 DEF Header
  <2>3. parserSize >= 2 /\ n >= 2 /\ At + 2 <= Len(Wire)
    BY <1>6, <1>7, <2>1, <2>2
  <2>4. HeaderAt0 <=> Wire[At + 1] = H1 /\ Wire[At + 2] = H2
    <3>1. 1 \in 1 .. n /\ 2 \in 1 .. n /\ 1 - 1 = 0 /\ 2 - 1 = 1
      BY <1>6, <2>3
    <3>2. GetByte(1 - 1) = Wire[At + 1] /\ GetByte(2 - 1) = Wire[At + 2]
      BY <1>10, <3>1
    <3> QED BY <3>1, <3>2 DEF HeaderAt0
  <2>5. CASE IsPacket(i)
    <3>1. ~IsGarbage(i) /\ At = Off(i)
      BY <1>8, <2>5 DEF IsPacket, IsGarbage
    <3>2. HeaderAt0
      <4>1. Wire[Off(i) + 1] = H1 /\ Wire[Off(i) + 2] = H2
        BY <1>12, <2>5
      <4> QED BY <2>4, <3>1, <4>1
    <3>3. UNCHANGED <<ringVars, parserSize>> /\ parserAt' \in {"idle", "take"}
      BY <1>16, <3>2 DEF Skip
    <3>4. At' = At /\ UnreadIsLast'
      BY <1>13, <2>1, <3>3
    <3>5. Done(i)'
      BY <1>2, <1>8, <1>9, <2>1, <2>5, <3>3, <3>4 DEF Done
    <3> QED BY <3>4, <3>5
  <2>6. CASE IsGarbage(i)
    <3> DEFINE g == stream[i + 1].bytes  k == At + 1 - Off(i)
    <3>1. /\ Len(g) \in 1 .. 3 /\ Off(i + 1) = Off(i) + Len(g)
          /\ \A j \in 1 .. Len(g) : Wire[Off(i) + j] = g[j]
          /\ \A j \in 1 .. Len(g) - 1 : ~(g[j] = H1 /\ g[j + 1] = H2)
          /\ PacketsTo[i + 1] = PacketsTo[i] /\ ~IsGarbage(i + 1) /\ i + 1 \in 0 .. Len(stream)
      BY <1>11, <2>6
    <3>2. Off(i) <= At /\ At < Off(i + 1) /\ Header(i) = Off(i + 1)
      BY <1>8, <2>6 DEF Header
    <3> DEFINE l == Len(g)
    <3> HIDE DEF g
    <3>a. l \in 1 .. 3 /\ Off(i + 1) = Off(i) + l /\ Off(i) \in Nat /\ At \in Int
      BY <1>6, <1>8, <3>1
    <3>3. /\ k \in 1 .. Len(g) /\ Off(i) + k = At + 1 /\ Off(i) + (k + 1) = At + 2
          /\ (k # Len(g) => k \in 1 .. Len(g) - 1 /\ k + 1 \in 1 .. Len(g))
          /\ (k = Len(g) => At + 1 = Off(i + 1))
      <4>1. /\ k \in 1 .. l /\ Off(i) + k = At + 1 /\ Off(i) + (k + 1) = At + 2
            /\ (k # l => k \in 1 .. l - 1 /\ k + 1 \in 1 .. l)
            /\ (k = l => At + 1 = Off(i + 1))
        <5> DEFINE x == Off(i)  y == Off(i + 1)
        <5>1. /\ l \in Int /\ x \in Int /\ At \in Int /\ l >= 1 /\ y = x + l
              /\ x <= At /\ At < y /\ k = At + 1 - x
          BY <3>a, <3>2
        <5> HIDE DEF l, x, y, k
        <5>2. k \in Int /\ 1 <= k /\ k <= l /\ x + k = At + 1 /\ x + (k + 1) = At + 2
          BY <5>1
        <5>3. (k # l => k <= l - 1 /\ k + 1 <= l) /\ (k = l => At + 1 = y)
          BY <5>1, <5>2
        <5>4. k \in 1 .. l /\ x + k = At + 1 /\ x + (k + 1) = At + 2
          BY <5>1, <5>2
        <5>5. k # l => k \in 1 .. l - 1 /\ k + 1 \in 1 .. l
          BY <5>1, <5>2, <5>3
        <5> QED BY <5>3, <5>4, <5>5 DEF x, y
      <4> QED BY <4>1
    <3> HIDE DEF k, l
    <3>4. ~HeaderAt0
      <4>1. CASE k # Len(g)
        <5>1. Wire[At + 1] = g[k] /\ Wire[At + 2] = g[k + 1]
          BY <3>1, <3>3, <4>1
        <5> QED BY <2>4, <3>1, <3>3, <4>1, <5>1
      <4>2. CASE k = Len(g)
        <5>1. At + 1 = Off(i + 1) /\ Off(i + 1) # Len(Wire)
          BY <1>6, <2>3, <3>3, <4>2
        <5>2. IsPacket(i + 1)
          BY <1>1, <3>1, <5>1, NextPiece
        <5>3. Wire[Off(i + 1) + 1] = H1
          BY <1>12, <3>1, <5>2
        <5>4. Off(i + 1) + 1 = At + 2
          BY <1>6, <5>1
        <5> QED BY <2>4, <5>3, <5>4 DEF H1, H2
      <4> QED BY <4>1, <4>2
    <3>5. ConsumeBytes(1) /\ parserSize' = parserSize - 1 /\ parserAt' = parserAt
      BY <1>7, <1>16, <2>1, <2>3, <3>4 DEF Skip
    <3>6. At' = At + 1 /\ UnreadIsLast'
      <4>1. 1 \in 0 .. Len(UartUnread)
        BY <1>6, <2>3 DEF n
      <4> QED BY <1>2, <1>4, <2>1, <3>5, <4>1, ConsumeSeen
    <3>7. At' + parserSize' >= Off(i + 1) + 2
      BY <1>6, <1>7, <2>1, <3>2, <3>5, <3>6
    <3>8. CASE At + 1 < Off(i + 1)
      <4>1. Off(i) <= At' /\ At' < Off(i + 1)
        BY <1>6, <1>8, <3>2, <3>6, <3>8
      <4>2. Done(i)'
        BY <1>2, <1>8, <1>9, <2>1, <2>6, <3>2, <3>5, <3>7, <4>1 DEF Done
      <4> QED BY <3>6, <4>2
    <3>9. CASE ~(At + 1 < Off(i + 1))
      <4>1. At' = Off(i + 1)
        BY <1>6, <1>8, <3>1, <3>2, <3>6, <3>9
      <4>2. Header(i + 1) = Off(i + 1)
        BY <3>1 DEF Header
      <4>3. delivered' = PacketsTo'[i + 1]
        BY <1>2, <1>8, <2>1, <3>1
      <4>4. Done(i + 1)'
        BY <1>9, <2>1, <3>1, <3>5, <3>7, <4>1, <4>2, <4>3 DEF Done
      <4> QED BY <3>1, <3>6, <4>4
    <3> QED BY <3>8, <3>9
  <2>7. CASE ~IsPacket(i) /\ ~IsGarbage(i)
    <3>1. Off(i) = Len(Wire) /\ At = Off(i)
      BY <1>1, <1>8, <2>7, NextPiece
    <3> QED BY <1>6, <2>3, <3>1
  <2> QED BY <2>5, <2>6, <2>7
<1>17. CASE TakePacket
  <2> DEFINE p == stream[i + 1].bytes  s == FramedPacket(p)
             m == LengthOf(GetBytes(MinPacket)) + MinPacket
  <2>1. /\ parserAt = "take" /\ parserAt' = "idle" /\ arrived' = arrived /\ IsPacket(i)
        /\ parserSize >= 5 /\ parserSize <= n
    BY <1>7, <1>8, <1>17 DEF TakePacket, MinPacket
  <2>2. ~IsGarbage(i) /\ At = Off(i)
    BY <1>8, <2>1 DEF IsPacket, IsGarbage
  <2>3. /\ s \in Seq(UartByte) /\ Len(p) \in Nat /\ Len(s) = Len(p) + 5
        /\ s[1] = H1 /\ s[2] = H2 /\ LengthOf(s) = Len(p)
        /\ Accepted(s) /\ SubSeq(s, 5, Len(s) - 1) = p
        /\ Off(i + 1) = Off(i) + Len(s)
        /\ \A j \in 1 .. Len(s) : Wire[Off(i) + j] = s[j]
        /\ PacketsTo[i + 1] = IF FitsBuffer(p) THEN Append(PacketsTo[i], p) ELSE PacketsTo[i]
        /\ i + 1 \in 0 .. Len(stream)
    BY <1>12, <2>1
  <2> HIDE DEF p, s
  <2>4. ASSUME NEW j \in 1 .. Len(s), j <= n PROVE GetByte(j - 1) = s[j]
    <3>1. n \in Nat /\ j \in 1 .. n
      BY <1>6, <2>3, <2>4
    <3>2. GetByte(j - 1) = Wire[At + j] /\ Wire[Off(i) + j] = s[j]
      BY <1>10, <2>3, <2>4, <3>1
    <3> QED BY <2>2, <3>2
  <2>a. Len(s) \in Nat /\ Len(s) >= 5 /\ n \in Nat /\ n >= 5
    BY <1>6, <1>7, <2>1, <2>3
  <2>5. HeaderAt0
    <3>1. 1 \in 1 .. Len(s) /\ 2 \in 1 .. Len(s) /\ 1 <= n /\ 2 <= n /\ 1 - 1 = 0 /\ 2 - 1 = 1
      BY <2>a
    <3>2. GetByte(1 - 1) = s[1] /\ GetByte(2 - 1) = s[2]
      BY <2>4, <3>1
    <3> QED BY <2>3, <3>1, <3>2 DEF HeaderAt0
  <2>6. m = Len(s)
    <3>1. 3 \in 1 .. Len(s) /\ 4 \in 1 .. Len(s) /\ 3 <= n /\ 4 <= n
      BY <2>a
    <3>2. GetByte(3 - 1) = s[3] /\ GetByte(4 - 1) = s[4]
      BY <2>4, <3>1
    <3>3. GetBytes(MinPacket)[3] = GetByte(3 - 1) /\ GetBytes(MinPacket)[4] = GetByte(4 - 1)
      BY DEF GetBytes, MinPacket
    <3>4. LengthOf(GetBytes(MinPacket)) = LengthOf(s)
      BY <3>2, <3>3 DEF LengthOf
    <3> QED BY <2>3, <3>4 DEF MinPacket
  <2>7. /\ HeaderAt0 /\ parserSize >= m =>
             /\ ConsumeBytes(m)
             /\ delivered' = IF m <= MaxPacket /\ Accepted(GetBytes(m))
                             THEN Append(delivered, SubSeq(GetBytes(m), 5, m - 1)) ELSE delivered
        /\ ~(parserSize >= m) => UNCHANGED <<ringVars, delivered>>
    BY <1>17 DEF TakePacket, Takes
  <2> HIDE DEF m
  <2>8. CASE parserSize >= m
    <3>1. Len(s) <= n /\ m \in 0 .. Len(UartUnread)
      BY <1>6, <1>7, <2>1, <2>3, <2>6, <2>8 DEF n
    <3>2. GetBytes(m) = s
      <4>1. \A j \in 1 .. Len(s) : GetByte(j - 1) = s[j] /\ s[j] \in UartByte
        BY <1>6, <2>3, <2>4, <3>1, ElementOfSeq
      <4>2. s = [j \in 1 .. Len(s) |-> s[j]]
        BY <2>3
      <4> QED BY <2>6, <4>1, <4>2 DEF GetBytes
    <3>3. delivered' = IF FitsBuffer(p) THEN Append(delivered, p) ELSE delivered
      <4>1. m <= MaxPacket <=> FitsBuffer(p)
        BY <2>3, <2>6 DEF FitsBuffer, MinPacket
      <4> QED BY <2>3, <2>5, <2>6, <2>7, <2>8, <3>2, <4>1
    <3>4. delivered' = PacketsTo'[i + 1]
      BY <1>2, <1>8, <2>3, <3>3
    <3>5. At' = Off(i + 1) /\ UnreadIsLast'
      <4>1. At' = At + m /\ UnreadIsLast'
        BY <1>2, <1>4, <2>1, <2>5, <2>7, <2>8, <3>1, ConsumeSeen
      <4> QED BY <2>2, <2>3, <2>6, <4>1
    <3>6. ASSUME IsGarbage(i + 1) PROVE Off(i + 1) <= At' /\ At' < Off((i + 1) + 1)
      <4> DEFINE k == i + 1  l == Len(stream[k + 1].bytes)
      <4>1. k \in 0 .. Len(stream) /\ IsGarbage(k)
        BY <2>3, <3>6
      <4> HIDE DEF k
      <4>2. Off(k) \in Nat /\ l \in 1 .. 3 /\ Off(k + 1) = Off(k) + l
        BY <1>1, <4>1, NextPiece
      <4> HIDE DEF l
      <4>3. Off(k) < Off(k + 1)
        BY <4>2
      <4> QED BY <3>5, <4>2, <4>3 DEF k
    <3>7. Done(i + 1)'
      BY <1>9, <2>1, <3>4, <3>5, <3>6 DEF Done
    <3> QED BY <2>3, <3>5, <3>7
  <2>9. CASE ~(parserSize >= m)
    <3>1. UNCHANGED <<ringVars, delivered>>
      BY <2>7, <2>9
    <3>2. At' = At /\ UnreadIsLast'
      BY <1>13, <2>1, <3>1 DEF ringVars
    <3>3. Done(i)'
      BY <1>2, <1>8, <1>9, <2>1, <3>1, <3>2 DEF Done
    <3> QED BY <3>2, <3>3
  <2> QED BY <2>8, <2>9
<1>18. CASE UNCHANGED frameVars
  <2>1. UNCHANGED <<ringVars, arrived, parserAt, parserSize, delivered>>
    BY <1>18 DEF frameVars, ringVars
  <2>2. At' = At /\ UnreadIsLast'
    BY <1>13, <2>1
  <2>3. Done(i)'
    BY <1>2, <1>5, <1>9, <2>1, <2>2 DEF Done
  <2> QED BY <2>2, <2>3
<1> QED BY <1>14, <1>15, <1>16, <1>17, <1>18 DEF FramesNext, Parse

LEMMA FollowedIsDelivered == UartInv /\ FollowInv => EveryPacketDelivered
<1> SUFFICES ASSUME UartInv, FollowInv, Sendable(stream), ~overrun
             PROVE  /\ IsPrefix(delivered, Packets)
                    /\ arrived = Len(Wire) /\ parserAt = "idle" /\ GetDataSize < MinPacket
                         => delivered = Packets
  BY DEF EveryPacketDelivered
<1>1. stream \in Streams /\ \E i \in 0 .. Len(stream) : Done(i)
  BY DEF FollowInv
<1>2. PICK i \in 0 .. Len(stream) : Done(i)
  BY <1>1
<1>3. /\ delivered = PacketsTo[i]
      /\ IF IsGarbage(i) THEN Off(i) <= At /\ At < Off(i + 1) ELSE At = Off(i)
  BY <1>2 DEF Done
<1>4. IsPrefix(delivered, Packets)
  BY <1>1, <1>3, FoundFirst
<1>5. ASSUME NEW k \in 0 .. Len(stream), IsPacket(k) PROVE Off(k) + 5 <= Len(Wire)
  <2> DEFINE p == stream[k + 1].bytes
  <2>1. /\ p \in Seq(UartByte) /\ Len(p) < ByteBase /\ Off(k) \in Nat /\ Len(Wire) \in Nat
        /\ Off(k + 1) = Off(k) + Len(FramedPacket(p)) /\ Off(k + 1) <= Len(Wire)
    BY <1>1, <1>5, NextPiece
  <2> HIDE DEF p
  <2>2. Len(p) \in Nat /\ Len(FramedPacket(p)) = Len(p) + 5
    BY <2>1, PacketIs DEF MinPacket
  <2> QED BY <2>1, <2>2
<1>6. ASSUME arrived = Len(Wire), GetDataSize < MinPacket PROVE delivered = Packets
  <2>1. At + 5 > Len(Wire) /\ At \in Int /\ Len(Wire) \in Nat
    BY <1>6, SeesBytes, UartSizes DEF MinPacket
  <2>2. Packets = PacketsTo[Len(stream)]
    BY <1>1, PacketsToIs
  <2>3. CASE IsPacket(i)
    <3>1. ~IsGarbage(i)
      BY <2>3 DEF IsPacket, IsGarbage
    <3>2. At = Off(i)
      BY <1>3, <3>1
    <3>3. Off(i) + 5 <= Len(Wire)
      BY <1>5, <2>3
    <3> QED BY <2>1, <3>2, <3>3
  <2>4. CASE IsGarbage(i)
    <3>1. i + 1 \in 0 .. Len(stream)
      BY <1>1, <2>4, StreamIs DEF IsGarbage
    <3>2. PacketsTo[i + 1] = PacketsTo[i] /\ ~IsGarbage(i + 1)
      BY <1>1, <2>4, NextPiece
    <3>3. Off(i + 1) \in Nat
      BY <1>1, <3>1, NextPiece
    <3>4. ~IsPacket(i + 1)
      <4>1. ASSUME IsPacket(i + 1) PROVE FALSE
        <5>1. Off(i + 1) + 5 <= Len(Wire)
          BY <1>5, <3>1, <4>1
        <5> QED BY <1>3, <2>1, <2>4, <3>3, <5>1
      <4> QED BY <4>1
    <3>5. i + 1 = Len(stream)
      BY <1>1, <3>1, <3>2, <3>4, NextPiece
    <3> QED BY <1>3, <2>2, <3>2, <3>5
  <2>5. CASE ~IsPacket(i) /\ ~IsGarbage(i)
    <3>1. i = Len(stream)
      BY <1>1, <2>5, NextPiece
    <3> QED BY <1>3, <2>2, <3>1
  <2> QED BY <2>3, <2>4, <2>5
<1> QED BY <1>4, <1>6

\* The parser never looks at more bytes than a buffer can hold, and the positions stay
\* inside the buffer, whatever bytes the MCU sends.
THEOREM FramesTyped == FramesSpec => []FramesTypeOK
<1>1. UartInv => FramesTypeOK
  BY DEF UartInv, BufTyped, BufPlaces, FramesTypeOK, RingTypeOK
<1> QED
  BY <1>1, UartStarts, UartGoesOn, PTL DEF FramesSpec

\* With the interrupt appending between any two steps of UART_TryToGetNextTuyaPacket, the
\* receive buffer is a queue that forgets its oldest bytes and no others: the parser
\* never consumes a byte that was not there when it asked for the buffer's size.
THEOREM UartIsAFifo == FramesSpec => KeepsLastBytes
<1>1. FramesInit => UartFifo!Init
  <2> SUFFICES ASSUME FramesInit PROVE UartFifo!Init
    OBVIOUS
  <2>1. recvBufIn = 0 /\ recvBufOut = 0 /\ arrived = 0
    BY DEF FramesInit, RingInit
  <2>2. GetDataSize = 0
    BY <2>1 DEF GetDataSize
  <2>3. UartUnread = <<>>
    BY <2>2 DEF UartUnread, GetBytes
  <2> QED
    BY <2>1, <2>3 DEF UartFifo!Init
<1>2. UartInv /\ [FramesNext]_frameVars => [UartFifo!Next]_<<UartUnread, arrived>>
  <2> SUFFICES ASSUME UartInv, [FramesNext]_frameVars PROVE [UartFifo!Next]_<<UartUnread, arrived>>
    OBVIOUS
  <2>1. UartStep
    BY UartGoesOn
  <2> QED
    BY <2>1 DEF UartStep, LastOf, UartFifo!Next, UartFifo!Put, UartFifo!Take, UartFifo!Last
<1> QED
  BY <1>1, <1>2, UartStarts, UartGoesOn, PTL DEF FramesSpec, KeepsLastBytes, UartFifo!Spec

\* UART_TryToGetNextTuyaPacket finds every packet of a stream that it can make sense of,
\* whole and in order, with the interrupt appending between any two of its steps, as long
\* as no byte is pushed out of the buffer: for all sizes of the buffer and all streams.
THEOREM EveryPacketIsDelivered == FramesSpec => []EveryPacketDelivered
<1>1. UartInv /\ FollowInv /\ [FramesNext]_frameVars => FollowInv'
  BY FollowGoesOn
<1> QED
  BY <1>1, UartStarts, UartGoesOn, FollowStarts, FollowedIsDelivered, PTL DEF FramesSpec
=============================================================================
