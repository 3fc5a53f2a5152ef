------------------------------ MODULE MCLocal ------------------------------
(***************************************************************************)
(* Side by side, MQTT's receive ring and callback table, what makes the    *)
(* device act by itself (scripts, repeating events, events of a clock,     *)
(* handlers of channel changes, a button), a TuyaMCU's packets and data    *)
(* points, and the log.  A behaviour is one of the part that was chosen at *)
(* its start, while the others rest in an initial state.                   *)
(***************************************************************************)
EXTENDS MqttRxRing, MCMqttCallbacks, MCRepeatingEvents, TuyaFrames, MCTuyaMapping,
        MCScriptEngine, Channels, PinButton, LogRing, MCTimedEvents, TLC

CONSTANTS main, w1, w2
VARIABLE part

\* Lengths up to 3 need both length bytes of one bit each.
MCMessage == [topic : {<<1>>, <<0, 1>>}, data : {<<>>, <<1>>, <<0, 1, 1>>}]

\* Packets, one of them larger than the caller's buffer, around garbage that starts like a
\* packet; and as much garbage as hides a packet.
P(bytes) == [what |-> "packet", bytes |-> bytes]
G(bytes) == [what |-> "garbage", bytes |-> bytes]
MCStreams ==
  { <<P(<<>>), P(<<3, 1, 2>>), P(<<0, 3>>)>>,
    <<P(<<2>>), G(<<2>>), P(<<>>), G(<<0, 1>>), P(<<1, 3>>)>>,
    <<G(<<3, 0, 1>>), P(<<>>), P(<<3>>)>>,
    <<G(<<3, 0, 3, 3>>), P(<<1>>)>> }

\* Channel 1 takes back its own change to 2 at once, channel 2 follows it, and
\* channel 3 counts the changes of channel 2 and starts over.
Set(c, v) == [what |-> "set", ch |-> c, val |-> v]
On(k, c, a, d) == [on |-> k, ch |-> c, arg |-> a, does |-> d]
MCHandlers ==
  << On("greater", 1, 0, Set(2, 1)), On("atMost", 1, 0, Set(2, 0)),
     On("onChange", 2, 0, [what |-> "clamp", ch |-> 3, val |-> 1, min |-> 0, max |-> 2]),
     On("not", 2, 0, [what |-> "toggle", ch |-> 3]), On("less", 2, 1, [Set(3, 1) EXCEPT !.what = "force"]),
     On("atLeast", 3, 2, Set(3, 0)), On("equals", 1, 2, Set(3, 1)),
     On("onChange", 1, 0, [what |-> "clamp", ch |-> 1, val |-> 0, min |-> 0, max |-> 1]) >>
MCChannelCmds ==
  [what : {"set"}, ch : {1, 2, 3}, val : 0..2] \cup [what : {"toggle"}, ch : {1, 2}]
  \cup [what : {"wrap", "clamp"}, ch : {1}, val : {-1, 1}, min : {0}, max : {2}]
MCMaxOf == [c \in {1, 2, 3} |-> IF c = 1 THEN 2 ELSE 1]

\* Scans one and two steps apart.
MCLates == {1, 2}

MCWriters == {w1, w2}
MCLineOf == w1 :> 2 @@ w2 :> 3

allVars == <<part, rxRingVars, cbVars, eventsVars, frameVars, mappingVars,
             scriptVars, channelVars, buttonVars, logVars, timedVars>>

Init ==
  /\ part \in {"ring", "callbacks", "events", "frames", "mapping",
              "scripts", "channels", "button", "log", "timed"}
  /\ RxRingInit /\ CallbacksInit /\ EventsInit /\ FramesInit /\ MappingInit
  /\ ScriptInit /\ ChannelsInit /\ ButtonInit /\ LogInit /\ TimedInit
  /\ part # "callbacks" => ~conf.group /\ ~conf.tele
  /\ part # "frames" => Len(stream) = 5
  /\ part # "mapping" => map = Plain /\ channel = 0 /\ point = 0
  /\ part # "log" => buffer = w1
  /\ part # "timed" => sun[0] = 2

Ring ==
  /\ part = "ring" /\ RxRingNext
  /\ UNCHANGED <<part, cbVars, eventsVars, frameVars, mappingVars, scriptVars,
                 channelVars, buttonVars, logVars, timedVars>>
Callbacks ==
  /\ part = "callbacks" /\ CallbacksNext
  /\ UNCHANGED <<part, rxRingVars, eventsVars, frameVars, mappingVars, scriptVars,
                 channelVars, buttonVars, logVars, timedVars>>
Events ==
  /\ part = "events" /\ EventsNext
  /\ UNCHANGED <<part, rxRingVars, cbVars, frameVars, mappingVars, scriptVars,
                 channelVars, buttonVars, logVars, timedVars>>
Frames ==
  /\ part = "frames" /\ FramesNext
  /\ UNCHANGED <<part, rxRingVars, cbVars, eventsVars, mappingVars, scriptVars,
                 channelVars, buttonVars, logVars, timedVars>>
OfMapping ==
  /\ part = "mapping" /\ MappingNext
  /\ UNCHANGED <<part, rxRingVars, cbVars, eventsVars, frameVars, scriptVars,
                 channelVars, buttonVars, logVars, timedVars>>
Scripts ==
  /\ part = "scripts" /\ ScriptNext
  /\ UNCHANGED <<part, rxRingVars, cbVars, eventsVars, frameVars, mappingVars,
                 channelVars, buttonVars, logVars, timedVars>>
OfChannels ==
  /\ part = "channels" /\ ChannelsNext
  /\ UNCHANGED <<part, rxRingVars, cbVars, eventsVars, frameVars, mappingVars,
                 scriptVars, buttonVars, logVars, timedVars>>
Button ==
  /\ part = "button" /\ ButtonNext
  /\ UNCHANGED <<part, rxRingVars, cbVars, eventsVars, frameVars, mappingVars,
                 scriptVars, channelVars, logVars, timedVars>>
Logging ==
  /\ part = "log" /\ LogNext
  /\ UNCHANGED <<part, rxRingVars, cbVars, eventsVars, frameVars, mappingVars,
                 scriptVars, channelVars, buttonVars, timedVars>>
Timed ==
  /\ part = "timed" /\ TimedNext
  /\ UNCHANGED <<part, rxRingVars, cbVars, eventsVars, frameVars, mappingVars,
                 scriptVars, channelVars, buttonVars, logVars>>

Next ==
  \/ Ring \/ Callbacks \/ Events \/ Frames \/ OfMapping
  \/ Scripts \/ OfChannels \/ Button \/ Logging \/ Timed

\* These have no property that needs a step to be taken.
Fairness ==
  \/ part \in {"ring", "callbacks", "events", "frames", "mapping", "timed"}
  \/ part = "scripts" /\ ScriptFairness
  \/ part = "channels" /\ ChannelsFairness
  \/ part = "button" /\ ButtonFairness
  \/ part = "log" /\ LogFairness

Spec == Init /\ [][Next]_allVars /\ Fairness

\* The type invariants of the parts.
TypeOK ==
  /\ RxRingTypeOK /\ CallbacksTypeOK /\ EventsTypeOK /\ FramesTypeOK /\ MappingTypeOK
  /\ ScriptTypeOK /\ ChannelsTypeOK /\ ButtonTypeOK /\ LogTypeOK /\ TimedTypeOK

\* What was begun comes to an end: a button is ready for the next gesture, handlers
\* that change one another's channels stop doing so, and the serial port gets the log.
\* (PIN_Input_Handler, Channel_OnChanged, log_timer_cb)
LocalRests == ButtonRests /\ Settles /\ SerialDrains
=============================================================================
