---------------------------- MODULE TuyaMapping ----------------------------
(***************************************************************************)
(* One data point of a TuyaMCU that linkTuyaMCUOutputToChannel maps to a   *)
(* channel (src/src/driver/drv_tuyaMCU.c): TuyaMCU_ApplyMapping takes what *)
(* the MCU reports to the channel, TuyaMCU_OnChannelChanged a change of    *)
(* the channel to the MCU.  The MCU takes what it is sent and reports it.  *)
(***************************************************************************)
EXTENDS Integers, Sequences

CONSTANTS
  Mappings,     \* the mappings there may be: see Mapping
  DimmerMin, DimmerMax,  \* g_dimmerRangeMin, g_dimmerRangeMax
  PointValues,  \* values the MCU takes by itself
  UserValues,   \* values the user sets the channel to
  MaxMoves,     \* bound: commands of the user and changes of the MCU itself
  MaxPackets    \* bound: packets on their way, in each direction

\* A mapping to a channel: top is the end of the channel's range when its type is a
\* dimmer's (100, 256 or 1000) and 0 for other types, mult is mul / by, delta is whole.
Mapping == [inv : BOOLEAN, top : Nat, delta : Int, mul : Int, by : Nat \ {0},
            noRead : BOOLEAN, dpCache : BOOLEAN, dpType : {"bool", "value", "string"}]

ASSUME MappingAssumption ==
  /\ Mappings \subseteq Mapping /\ PointValues \subseteq Int /\ UserValues \subseteq Int
  /\ DimmerMin \in Int /\ DimmerMax \in Int /\ DimmerMin < DimmerMax
  /\ MaxMoves \in Nat /\ MaxPackets \in Nat

VARIABLES
  map,        \* the mapping
  prevValue,  \* its prevValue
  channel,    \* value of the channel
  point,      \* environment: value of the data point in the MCU
  toMcu,      \* packets to the MCU: <<v>> to set v, or the query
  reports,    \* packets from the MCU: values
  reported,   \* observer: whether the MCU has reported since the mapping was made
  wanted,     \* observer: <<the user's last command>>, <<>> if it need not be what the channel ends with
  moves       \* bound: moves that are left

mappingVars == <<map, prevValue, channel, point, toMcu, reports, reported, wanted, moves>>

Query == <<>>
Inverted(v) == IF v = 0 THEN 1 ELSE 0

\* Division of C.
Quotient(a, b) == IF a >= 0 THEN a \div b ELSE -((-a) \div b)

\* The value of the data point as prevValue keeps it, and as the channel gets it.
InRange(v) == IF map.top = 0 THEN v ELSE Quotient((v - DimmerMin) * map.top, DimmerMax - DimmerMin)
Mapped(v) == IF map.inv THEN Inverted(InRange(v)) ELSE InRange(v)
Scaled(v) == Quotient((v + map.delta) * map.mul, map.by)

\* TuyaMCU_OnChannelChanged inverts the channel's value and compares that; a channel
\* that is no dimmer is sent as it is, others as the inverted value in the MCU's range.
Seen(v) == IF map.inv THEN Inverted(v) ELSE v
Ranged(v) == IF map.top = 0 THEN v ELSE Quotient((DimmerMax - DimmerMin) * Seen(v), map.top) + DimmerMin
Pointed(v) == IF map.dpType # "bool" THEN Ranged(v) ELSE IF Ranged(v) # 0 THEN 1 ELSE 0
Tells == ~map.dpCache /\ map.dpType # "string"
Sent(v, prev) == IF Seen(v) = prev \/ ~Tells THEN <<>> ELSE <<<<Pointed(v)>>>>

\* CHANNEL_Set, which tells the driver of a change
SetsChannel(v, prev) ==
  /\ channel' = v
  /\ toMcu' = IF v = channel THEN toMcu ELSE toMcu \o Sent(v, prev)

\* The channel starts with a value of its own, which the MCU does not know.
MappingInit ==
  /\ map \in Mappings /\ channel \in UserValues /\ point \in PointValues
  /\ prevValue = 0 /\ toMcu = <<>> /\ reports = <<>>
  /\ reported = FALSE /\ wanted = <<>> /\ moves = MaxMoves

User(v) ==
  /\ moves > 0 /\ moves' = moves - 1 /\ Len(toMcu) < MaxPackets
  /\ SetsChannel(v, prevValue)
  /\ wanted' = IF reported /\ reports = <<>> /\ Seen(v) # prevValue THEN <<v>> ELSE <<>>
  /\ UNCHANGED <<map, prevValue, point, reports, reported>>

QueryPoint ==
  /\ ~reported /\ toMcu = <<>> /\ reports = <<>>
  /\ toMcu' = <<Query>>
  /\ UNCHANGED <<map, prevValue, channel, point, reports, reported, wanted, moves>>

\* prevValue is set before the channel is.
ComparesBefore(v) == prevValue
Compares(v) == v
ApplyMapping ==
  /\ reports # <<>> /\ reports' = Tail(reports)
  /\ LET v == Mapped(Head(reports)) IN
       IF map.noRead THEN UNCHANGED <<prevValue, channel, toMcu>>
       ELSE prevValue' = v /\ SetsChannel(Scaled(v), Compares(v))
  /\ reported' = TRUE
  /\ UNCHANGED <<map, point, wanted, moves>>

\* The MCU answers whatever it is sent with a report.
McuTakes ==
  /\ toMcu # <<>> /\ Len(reports) < MaxPackets
  /\ toMcu' = Tail(toMcu)
  /\ point' = IF Head(toMcu) = Query THEN point ELSE Head(toMcu)[1]
  /\ reports' = Append(reports, point')
  /\ UNCHANGED <<map, prevValue, channel, reported, wanted, moves>>

McuMoves(v) ==
  /\ moves > 0 /\ moves' = moves - 1 /\ v # point /\ Len(reports) < MaxPackets
  /\ point' = v /\ reports' = Append(reports, v) /\ wanted' = <<>>
  /\ UNCHANGED <<map, prevValue, channel, toMcu, reported>>

MappingNext ==
  \/ QueryPoint \/ ApplyMapping \/ McuTakes
  \/ \E v \in UserValues : User(v)
  \/ \E v \in PointValues : McuMoves(v)
MappingSpec == MappingInit /\ [][MappingNext]_mappingVars

-----------------------------------------------------------------------------
MappingTypeOK ==
  /\ map \in Mappings /\ prevValue \in Int /\ channel \in Int /\ point \in Int
  /\ toMcu \in Seq(Seq(Int)) /\ reports \in Seq(Int)
  /\ reported \in BOOLEAN /\ wanted \in Seq(Int) /\ moves \in 0..MaxMoves

Quiet == toMcu = <<>> /\ reports = <<>> /\ reported

\* What prevValue holds is not what the channel is set to, or not what it is compared with.
Converted == map.inv \/ map.delta # 0 \/ map.mul # map.by
BothWays == ~Converted /\ Tells /\ ~map.noRead

\* However commands and the MCU's own changes cross on the line, once nothing
\* is on its way the channel and the data point agree.
InSync == Quiet => channel = Mapped(point)

\* What the MCU reports is never sent back to it. (the comparison with prevValue)
NoEcho == [][ApplyMapping => toMcu' = toMcu]_mappingVars

\* The user's last command is what the channel ends with, as near to it as the data
\* point can be, however many came before it at once, unless a report crossed it or the
\* device itself was moved after it.  One that goes back to the value the MCU reported
\* last while another is on its way is excepted: the comparison with prevValue keeps it
\* from the MCU.  (TuyaMCU_OnChannelChanged)
LastCommandWins == Quiet /\ wanted # <<>> => channel = Mapped(Pointed(wanted[1]))

\* A data point mapped in both directions and its channel end in agreement, with the
\* value of the user where the user was last, and whatever the directions, no report is
\* answered.  Of mappings with a factor, an offset or an inversion nothing is said:
\* they are answered (the run of NoEcho).
MappingFaithful ==
  /\ [](BothWays => InSync /\ LastCommandWins)
  /\ [][ApplyMapping /\ ~Converted => toMcu' = toMcu]_mappingVars
=============================================================================
