---------------------------- MODULE DeviceGroups ----------------------------
(***************************************************************************)
(* Members of a Tasmota device group that tell each other of their relay   *)
(* (src/src/driver/drv_tasmotaDeviceGroups.c).  A change makes a packet on *)
(* the thread that brought it; the quick tick of the main thread sends     *)
(* what is queued and takes what the others sent.  The multicast may lose  *)
(* packets.  All members share the power item and are each other's peers.  *)
(***************************************************************************)
EXTENDS Integers, Sequences, FiniteSets

CONSTANTS
  Members,
  Senders,     \* per member, the threads that change its relay
  Ticker,      \* the main thread, which runs the quick tick
  SeqMod,      \* values of a sequence number (2^16)
  HardReset,   \* how far back a number starts the sequence again (16)
  QueueSize,   \* MAX_DGR_QUEUE_SIZE (8)
  MaxMembers,  \* MAX_DGR_MEMBERS (32)
  Starts,      \* the sequence numbers the members may have come to
  MaxChanges,  \* bound: changes that are not due to a packet
  MaxFaults    \* bound: packets lost and restarts

ASSUME GroupAssumption ==
  /\ IsFiniteSet(Members) /\ DOMAIN Senders = Members
  /\ SeqMod \in Nat \ {0} /\ HardReset \in 0..(SeqMod - 1)
  /\ QueueSize \in Nat \ {0} /\ MaxMembers \in Nat \ {0}
  /\ Starts \subseteq [Members -> 0..(SeqMod - 1)]
  /\ MaxChanges \in Nat /\ MaxFaults \in Nat

VARIABLES
  relay,      \* the channel the members share
  sendSeq,    \* g_dgr_send_seq
  slots,      \* dgr_pending from its head: packets, Free where the length is 0
  mutexKept,  \* g_mutex was taken and never given back
  last,       \* g_dgrMembers: lastSeq of the members known
  sockets,    \* whether the sockets were created
  formatted,  \* per thread, the packet it has formatted and not queued yet
  ticking,    \* DRV_DGR_RunQuickTick is receiving
  parsed,     \* the packet DGR_ProcessIncomingPacket is at: g_inCmdProcessing
  air,        \* the datagrams on their way to a member, in its socket at last
  changes, faults,  \* bounds
  taken,      \* observer: the last packet of each other that a member took
  excused,    \* observer: something happened after which members may differ
  outrun      \* observer: a packet was queued that others, still waiting, seem a reset to

groupVars ==
  <<relay, sendSeq, slots, mutexKept, last, sockets, formatted, ticking, parsed, air,
    changes, faults, taken, excused, outrun>>

\* No packet.  "made" numbers the changes, for the properties alone.
Free == [made |-> 0, seq |-> 0, from |-> Ticker, val |-> 0]
Others(m) == Members \ {m}

GroupInit ==
  /\ relay = [m \in Members |-> 0]
  /\ sendSeq \in Starts
  /\ last = [m \in Members |->
               [o \in {p \in Others(m) : sendSeq[p] > 0} |-> sendSeq[o] - 1]]
  /\ slots = [m \in Members |-> <<>>]
  /\ mutexKept = [m \in Members |-> FALSE]
  /\ sockets = [m \in Members |-> FALSE]
  /\ formatted = [m \in Members |-> [t \in Senders[m] |-> Free]]
  /\ ticking = [m \in Members |-> FALSE]
  /\ parsed = [m \in Members |-> Free]
  /\ air = [m \in Members |-> <<>>]
  /\ changes = 0 /\ faults = 0
  /\ taken = [m \in Members |-> [o \in Others(m) |-> Free]]
  /\ excused = FALSE /\ outrun = FALSE

Processing(m) == parsed[m] # Free  \* g_inCmdProcessing

\* Whether a packet of another member may still meet what m does now.
Crossing(m) ==
  \/ air[m] # <<>> \/ Processing(m)
  \/ \E o \in Others(m) : \/ \E i \in DOMAIN slots[o] : slots[o][i] # Free
                          \/ \E t \in Senders[o] : formatted[o][t] # Free

Packet(m, v) == [made |-> changes + 1, seq |-> sendSeq[m], from |-> m, val |-> v]

\* DRV_DGR_OnChannelChanged: nothing is formatted while a packet is processed.
Formatted(m, t, v) ==
  IF Processing(m) THEN formatted ELSE [formatted EXCEPT ![m][t] = Packet(m, v)]

\* A channel is set to another value.
Change(m, t) ==
  /\ changes < MaxChanges /\ formatted[m][t] = Free
  /\ t = Ticker => ~ticking[m]
  /\ relay' = [relay EXCEPT ![m] = 1 - @]
  /\ changes' = changes + 1
  /\ formatted' = Formatted(m, t, 1 - relay[m])
  /\ excused' = (excused \/ Crossing(m))
  /\ UNCHANGED <<sendSeq, slots, mutexKept, last, sockets, ticking, parsed, air, faults, taken,
                 outrun>>

\* The list with p: in the first entry that is free, else in a new one at its head.
Queued(s, p) ==
  LET free == {i \in DOMAIN s : s[i] = Free}
  IN  IF free = {} THEN <<p>> \o s
      ELSE [s EXCEPT ![CHOOSE i \in free : \A j \in free : i <= j] = p]
Overruns(s) == Len(s) >= QueueSize /\ \A i \in DOMAIN s : s[i] # Free

\* Some packet that still waits, in the list or in another thread, has a number that
\* far behind the one of p that it is no older one to who has taken p: CheckSequence.
Outruns(m, t) ==
  \E q \in {slots[m][i] : i \in DOMAIN slots[m]} \cup {formatted[m][u] : u \in Senders[m] \ {t}} :
    q # Free /\ q.seq + HardReset < formatted[m][t].seq

\* DRV_DGR_Send_Generic of what Change has formatted.  A list that is full keeps
\* DGR_AddToSendQueue from giving the mutex back, and without it nothing is queued.
Enqueue(m, t) ==
  LET p == formatted[m][t]
  IN  /\ p # Free
      /\ t = Ticker => ~ticking[m]
      /\ formatted' = [formatted EXCEPT ![m][t] = Free]
      /\ \/ /\ Processing(m) /\ excused' = TRUE
            /\ UNCHANGED <<sendSeq, slots, mutexKept, outrun>>
         \/ /\ ~Processing(m)
            /\ sendSeq' = [sendSeq EXCEPT ![m] = (@ + 1) % SeqMod]
            /\ \/ /\ ~mutexKept[m] /\ ~Overruns(slots[m])
                  /\ slots' = [slots EXCEPT ![m] = Queued(@, p)]
                  /\ outrun' = (outrun \/ Outruns(m, t))
                  /\ UNCHANGED <<mutexKept, excused>>
               \/ /\ mutexKept[m] \/ Overruns(slots[m])
                  /\ mutexKept' = [mutexKept EXCEPT ![m] = TRUE]
                  /\ excused' = TRUE /\ UNCHANGED <<slots, outrun>>
      /\ UNCHANGED <<relay, last, sockets, ticking, parsed, air, changes, faults, taken>>

\* ... and the mutex is not to be had within 10 ticks, while the list is sent.
MutexTimesOut(m, t) ==
  /\ formatted[m][t] # Free /\ t # Ticker
  /\ sockets[m] /\ ~ticking[m] /\ faults < MaxFaults
  /\ formatted' = [formatted EXCEPT ![m][t] = Free]
  /\ sendSeq' = [sendSeq EXCEPT ![m] = (@ + 1) % SeqMod]
  /\ faults' = faults + 1 /\ excused' = TRUE
  /\ UNCHANGED <<relay, slots, mutexKept, last, sockets, ticking, parsed, air, changes,
                 taken, outrun>>

\* The packets of a list from its head.
Used(s) ==
  LET used[i \in 0..Len(s)] ==
        IF i = 0 THEN <<>> ELSE IF s[i] = Free THEN used[i - 1] ELSE Append(used[i - 1], s[i])
  IN  used[Len(s)]

SentFirst(m) == IF mutexKept[m] \/ slots[m] = <<>> THEN <<>> ELSE Used(SubSeq(slots[m], 1, 1))

\* DGR_FlushSendQueue: the list, to all that listen.
Sent(m) == IF mutexKept[m] THEN <<>> ELSE Used(slots[m])
NotEmptied(m) == slots[m]
Emptied(m) == IF mutexKept[m] THEN slots[m] ELSE [i \in DOMAIN slots[m] |-> Free]

\* DRV_DGR_RunQuickTick, up to what it receives.
QuickTick(m) ==
  /\ sockets[m] /\ ~ticking[m]
  /\ Ticker \in Senders[m] => formatted[m][Ticker] = Free
  /\ Sent(m) # <<>> \/ air[m] # <<>>
  /\ air' = [o \in Members |-> IF o # m /\ sockets[o] THEN air[o] \o Sent(m) ELSE air[o]]
  /\ slots' = [slots EXCEPT ![m] = Emptied(m)]
  /\ ticking' = [ticking EXCEPT ![m] = TRUE]
  /\ excused' = (excused \/ (Sent(m) # <<>> /\ \E o \in Others(m) : ~sockets[o]))
  /\ UNCHANGED <<relay, sendSeq, mutexKept, last, sockets, formatted, parsed, changes,
                 faults, taken, outrun>>

\* The next of the packets it receives, ten at most in one tick.
Receive(m) ==
  /\ ticking[m] /\ ~Processing(m) /\ air[m] # <<>>
  /\ parsed' = [parsed EXCEPT ![m] = Head(air[m])]
  /\ air' = [air EXCEPT ![m] = Tail(@)]
  /\ UNCHANGED <<relay, sendSeq, slots, mutexKept, last, sockets, formatted, ticking,
                 changes, faults, taken, excused, outrun>>
TickEnds(m) ==
  /\ ticking[m] /\ ~Processing(m) /\ air[m] = <<>>
  /\ ticking' = [ticking EXCEPT ![m] = FALSE]
  /\ UNCHANGED <<relay, sendSeq, slots, mutexKept, last, sockets, formatted, parsed,
                 air, changes, faults, taken, excused, outrun>>

\* lastSeq of a member, which is new with 0 while there is room for it.
LastOf(m, o) == IF o \in DOMAIN last[m] THEN last[m][o] ELSE 0
Known(m, o) == o \in DOMAIN last[m] \/ Cardinality(DOMAIN last[m]) < MaxMembers

\* DGR_CheckSequence
AnySequence(m, p) == Known(m, p.from)
CheckSequence(m, p) ==
  Known(m, p.from) /\ (p.seq > LastOf(m, p.from) \/ p.seq + HardReset < LastOf(m, p.from))

\* Sent newest first, the last number before the wrap comes after the first past it.
PastWrap(was, p) == p.made < was.made /\ p.seq > was.seq

\* The rest of DGR_ProcessIncomingPacket: DRV_DGR_processPower sets the
\* channel, which calls DRV_DGR_OnChannelChanged.
Parsed(m) ==
  LET p == parsed[m] o == p.from
      ok == CheckSequence(m, p)
  IN  /\ Processing(m)
      /\ relay' = IF ok THEN [relay EXCEPT ![m] = p.val] ELSE relay
      /\ formatted' = IF relay' = relay THEN formatted ELSE Formatted(m, Ticker, p.val)
      /\ last' = IF Known(m, o)
                 THEN [last EXCEPT ![m] = [n \in DOMAIN @ \cup {o} |->
                                             IF n = o /\ ok THEN p.seq ELSE LastOf(m, n)]]
                 ELSE last
      /\ parsed' = [parsed EXCEPT ![m] = Free]
      /\ taken' = IF ok THEN [taken EXCEPT ![m][o] = p] ELSE taken
      /\ excused' = (excused \/ (~ok /\ p.made > taken[m][o].made) \/ PastWrap(taken[m][o], p))
      /\ UNCHANGED <<sendSeq, slots, mutexKept, sockets, ticking, air,
                     changes, faults, outrun>>

\* DRV_DGR_Init, or DRV_DGR_RunEverySecond later, creates the sockets.
CreateSockets(m) ==
  /\ ~sockets[m]
  /\ sockets' = [sockets EXCEPT ![m] = TRUE]
  /\ UNCHANGED <<relay, sendSeq, slots, mutexKept, last, formatted, ticking, parsed,
                 air, changes, faults, taken, excused, outrun>>

\* The driver is stopped and started, which keeps the list, or the device reboots.
Restart(m) ==
  /\ faults < MaxFaults /\ ~ticking[m]
  /\ faults' = faults + 1 /\ excused' = TRUE
  /\ sendSeq' = [sendSeq EXCEPT ![m] = 0]
  /\ last' = [last EXCEPT ![m] = <<>>]
  /\ sockets' = [sockets EXCEPT ![m] = FALSE]
  /\ air' = [air EXCEPT ![m] = <<>>]
  /\ \/ UNCHANGED <<slots, mutexKept, formatted>>
     \/ /\ slots' = [slots EXCEPT ![m] = <<>>]
        /\ mutexKept' = [mutexKept EXCEPT ![m] = FALSE]
        /\ formatted' = [formatted EXCEPT ![m] = [t \in Senders[m] |-> Free]]
  /\ taken' = [taken EXCEPT ![m] = [o \in Others(m) |-> Free]]
  /\ UNCHANGED <<relay, ticking, parsed, changes, outrun>>

Lose(m) ==
  /\ faults < MaxFaults /\ air[m] # <<>>
  /\ air' = [air EXCEPT ![m] = Tail(@)]
  /\ faults' = faults + 1 /\ excused' = TRUE
  /\ UNCHANGED <<relay, sendSeq, slots, mutexKept, last, sockets, formatted, ticking,
                 parsed, changes, taken, outrun>>

Driver(m) ==
  \/ \E t \in Senders[m] : Enqueue(m, t)
  \/ QuickTick(m) \/ Receive(m) \/ Parsed(m) \/ TickEnds(m) \/ CreateSockets(m)

GroupNext ==
  \E m \in Members :
    \/ Driver(m) \/ Restart(m) \/ Lose(m)
    \/ \E t \in Senders[m] : Change(m, t) \/ MutexTimesOut(m, t)

\* The quick tick comes every 25 ms, a command ends, and the network comes up.
GroupFairness == \A m \in Members : WF_groupVars(Driver(m))
GroupSpec == GroupInit /\ [][GroupNext]_groupVars /\ GroupFairness

Packets == [made : Nat, seq : 0..(SeqMod - 1), from : Members \cup {Ticker}, val : {0, 1}]

\* The state has the shape declared above.
GroupTypeOK ==
  /\ relay \in [Members -> {0, 1}] /\ sendSeq \in [Members -> 0..(SeqMod - 1)]
  /\ \A m \in Members :
       /\ \A i \in DOMAIN slots[m] : slots[m][i] \in Packets
       /\ \A i \in DOMAIN air[m] : air[m][i] \in Packets
       /\ Len(slots[m]) <= QueueSize /\ parsed[m] \in Packets
       /\ DOMAIN last[m] \subseteq Others(m)
       /\ Processing(m) => ticking[m]

\* A member takes an older packet in the place of a newer one only past the wrap of the
\* numbers or a restart, where its number is larger, or when the older one waited while
\* more changes passed it than a hard reset is far: DGR_CheckSequence puts right what
\* the list sends newest first.
OlderNeverTaken ==
  [][\A m \in Members : \A o \in Others(m) :
       LET was == taken[m][o] is == taken'[m][o]
       IN  is # Free /\ is.made < was.made => is.seq > was.seq \/ outrun]_groupVars

\* No packet is taken in the place of a newer one: "ignoring message from duplicate or
\* older sequence" (deviceGroups_read.c), "make it work past wrap" (DGR_CheckSequence).
OlderIgnored ==
  [][\A m \in Members : \A o \in Others(m) :
       taken'[m][o] # Free => taken'[m][o].made >= taken[m][o].made]_groupVars

\* No packet is refused that is newer than all that were taken, of a member that
\* began its numbers again either: "Seq Hard reset" (DGR_CheckSequence).  Refuted: too
\* few packets were sent before the restart.
NewerNeverRefused ==
  [][\A m \in Members : Parsed(m) /\ Known(m, parsed[m].from)
       => CheckSequence(m, parsed[m]) \/ parsed[m].made < taken[m][parsed[m].from].made]_groupVars

Still ==
  \A m \in Members :
    /\ air[m] = <<>> /\ ~Processing(m)
    /\ \A t \in Senders[m] : formatted[m][t] = Free
    /\ \A i \in DOMAIN slots[m] : slots[m][i] = Free

\* When nothing is on its way, all members agree, unless a packet was lost, refused or
\* not made (to the mutex, the first number, a restart, a packet in processing), two
\* members changed at the same time, or a packet was outrun.
MembersAgree ==
  Still /\ ~excused /\ ~outrun => \A m, o \in Members : relay[m] = relay[o]

\* A group comes to rest: no member answers a packet with one of its own, which two
\* crossing changes would keep going for ever.
GroupRests == <>[](Still \/ \E m \in Members : mutexKept[m])

\* ... and with a full list as well, of which no more than a packet is dropped: "DGR
\* queue grew to big, will drop packet" (DGR_AddToSendQueue).  Refuted: the mutex is kept.
FullListRests == <>[]Still
=============================================================================
