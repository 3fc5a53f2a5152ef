--------------------------- MODULE MqttCallbacks ---------------------------
(***************************************************************************)
(* The table of topic callbacks of src/src/mqtt/new_mqtt.c.  The main      *)
(* thread rebuilds it when the topics of the configuration change; lwIP's  *)
(* thread looks an incoming topic up in it and queues the message, which   *)
(* the main thread looks up again.                                         *)
(***************************************************************************)
EXTENDS Integers, Sequences, SequencesExt

CONSTANTS
  MaxCallbacks,  \* MAX_MQTT_CALLBACKS
  Configs,       \* configurations: [group, tele]
  ChangesTo,     \* what each may be changed to
  Overlapping,   \* whether lwIP's thread may run while the table is rebuilt
  MaxMessages    \* bound: messages that come, and changes of the configuration

ASSUME CallbacksAssumption ==
  /\ MaxCallbacks \in Nat \ {0} /\ Configs \subseteq [group : BOOLEAN, tele : BOOLEAN]
  /\ ChangesTo \in [Configs -> SUBSET Configs] /\ Overlapping \in BOOLEAN /\ MaxMessages \in Nat

VARIABLES
  callbacks,     \* callbacks: the topic of each entry, Empty for NULL
  numCallbacks,  \* numCallbacks
  conf,          \* the topics in the configuration
  built,         \* observer: the configuration of the last rebuilding
  topicDirty,    \* g_mqtt_bBaseTopicDirty
  toRegister,    \* MQTT_InitCallbacks: what it has still to register
  subscribed,    \* environment: the topics the broker sends
  request,       \* g_mqtt_request.topic
  waiting,       \* messages between lwIP's thread and the main thread
  readNull,      \* observer: an empty entry was taken for a callback
  messagesLeft         \* bound: messages and changes that are left

tableVars == <<callbacks, numCallbacks, conf, built, topicDirty, toRegister>>
cbVars == <<tableVars, subscribed, request, waiting, readNull, messagesLeft>>

Empty == "empty"
Optional(b, topics) == IF b THEN topics ELSE <<>>

\* The subscriptions of MQTT_InitCallbacks in its order.
TopicsOf(c) ==
  <<"set">> \o Optional(c.group, <<"groupSet">>) \o <<"cmnd">>
  \o Optional(c.group, <<"groupCmnd">>) \o <<"get">>
  \o Optional(c.tele, <<"tele", "stat">>) \o <<"hass">>
AllTopics == {"set", "groupSet", "cmnd", "groupCmnd", "get", "tele", "stat", "hass"}
\* Entries are compared by the start of the topic, which two of them share.
BaseTopic(t) == IF t = "get" THEN "set" ELSE t

CallbacksInit ==
  /\ conf \in Configs /\ built = conf
  /\ numCallbacks = Len(TopicsOf(conf))
  /\ callbacks = [i \in 1..MaxCallbacks |-> IF i <= numCallbacks THEN TopicsOf(conf)[i] ELSE Empty]
  /\ topicDirty = FALSE /\ toRegister = <<>> /\ subscribed = ToSet(TopicsOf(conf))
  /\ request = Empty /\ waiting = <<>> /\ readNull = FALSE /\ messagesLeft = MaxMessages

Spend == messagesLeft > 0 /\ messagesLeft' = messagesLeft - 1
Rebuilding == toRegister # <<>>

-----------------------------------------------------------------------------
(* The main thread and the web server *)

\* A flag of the configuration is changed without marking the topics.
ChangeConf(c) ==
  /\ Spend /\ c \in ChangesTo[conf] /\ conf' = c
  /\ topicDirty' = (topicDirty \/ c.group # conf.group)
  /\ UNCHANGED <<built, callbacks, numCallbacks, toRegister, subscribed, request, waiting, readNull>>

\* MQTT_ClearCallbacks; numCallbacks stays as it is.
ClearCallbacks ==
  /\ topicDirty /\ ~Rebuilding
  /\ callbacks' = [i \in 1..MaxCallbacks |-> Empty]
  /\ topicDirty' = FALSE /\ toRegister' = TopicsOf(conf) /\ built' = conf
  /\ UNCHANGED <<numCallbacks, conf, subscribed, request, waiting, readNull, messagesLeft>>

\* MQTT_RegisterCallback takes the first empty entry.  No entry is found by its ID, which
\* is never set.
FreeEntry ==
  SelectInSubSeq(callbacks, 1, numCallbacks, LAMBDA t : t = Empty)
EntryAtEnd == numCallbacks + 1
Entry == IF FreeEntry = 0 THEN numCallbacks + 1 ELSE FreeEntry
Counted == IF Entry = numCallbacks + 1 THEN Entry ELSE numCallbacks
RegisterCallback ==
  /\ Rebuilding /\ toRegister' = Tail(toRegister)
  /\ IF Entry > MaxCallbacks THEN UNCHANGED <<callbacks, numCallbacks>>
     ELSE /\ callbacks' = [callbacks EXCEPT ![Entry] = Head(toRegister)]
          /\ numCallbacks' = Counted
  /\ UNCHANGED <<conf, built, topicDirty, subscribed, request, waiting, readNull, messagesLeft>>

\* The forced reconnect subscribes to what is in the table.
Reconnect ==
  /\ ~Rebuilding /\ subscribed' = {callbacks[i] : i \in 1..numCallbacks} \ {Empty}
  /\ subscribed' # subscribed /\ request' = Empty
  /\ UNCHANGED <<tableVars, waiting, readNull, messagesLeft>>

Matches(i, t) == callbacks[i] # Empty /\ BaseTopic(callbacks[i]) = BaseTopic(t)

\* MQTT_process_received: each callback whose topic matches is called until one takes the
\* message; every entry before that one is read.
ProcessReceived ==
  /\ waiting # <<>> /\ (Rebuilding => Overlapping) /\ waiting' = Tail(waiting)
  /\ \E stop \in {i \in 1..numCallbacks : Matches(i, Head(waiting))} \cup {numCallbacks + 1} :
       readNull' = (readNull \/ \E i \in 1..stop - 1 : callbacks[i] = Empty)
  /\ UNCHANGED <<tableVars, subscribed, request, messagesLeft>>

-----------------------------------------------------------------------------
(* lwIP's thread *)

\* mqtt_incoming_publish_cb stops at the first entry that matches, reading every one before.
StopsAt(t) ==
  SelectInSubSeq(callbacks, 1, numCallbacks, LAMBDA c : c = Empty \/ BaseTopic(c) = BaseTopic(t))
IncomingPublish(t) ==
  /\ Spend /\ request = Empty /\ t \in subscribed /\ (Rebuilding => Overlapping)
  /\ request' = IF StopsAt(t) # 0 /\ Matches(StopsAt(t), t) THEN t ELSE Empty
  /\ readNull' = (readNull \/ (StopsAt(t) # 0 /\ ~Matches(StopsAt(t), t)))
  /\ UNCHANGED <<tableVars, subscribed, waiting>>

\* mqtt_incoming_data_cb passes over empty entries.
HasCallback(t) == \E i \in 1..numCallbacks : Matches(i, t)
IncomingData ==
  /\ request # Empty /\ request' = Empty /\ (Rebuilding => Overlapping)
  /\ waiting' = IF HasCallback(request) THEN Append(waiting, request) ELSE waiting
  /\ UNCHANGED <<tableVars, subscribed, readNull, messagesLeft>>

CallbacksNext ==
  \/ \E c \in Configs : ChangeConf(c)
  \/ ClearCallbacks \/ RegisterCallback \/ Reconnect \/ ProcessReceived
  \/ \E t \in AllTopics : IncomingPublish(t)
  \/ IncomingData
CallbacksSpec == CallbacksInit /\ [][CallbacksNext]_cbVars

-----------------------------------------------------------------------------
CallbacksTypeOK ==
  /\ callbacks \in [1..MaxCallbacks -> AllTopics \cup {Empty}] /\ numCallbacks \in 0..MaxCallbacks
  /\ {conf, built} \subseteq Configs /\ subscribed \subseteq AllTopics /\ request \in AllTopics \cup {Empty}
  /\ waiting \in Seq(AllTopics) /\ messagesLeft \in 0..MaxMessages

\* However often the topics change, the table ends with every topic of the configuration,
\* each once, and with no other; a flag alone counts from the next rebuilding on.
\* (MQTT_InitCallbacks)
TableMatchesConf ==
  ~Rebuilding /\ ~topicDirty =>
    LET full == {i \in 1..numCallbacks : callbacks[i] # Empty} IN
    /\ {callbacks[i] : i \in full} = ToSet(TopicsOf(built)) /\ built.group = conf.group
    /\ \A i, j \in full : callbacks[i] = callbacks[j] => i = j

\* No search takes an empty entry for a callback.
NullNeverRead == ~readNull

\* Whatever the changes of the topics, the table is right for its readers: the topics
\* of the configuration, and no hole that a search would read.
TableSound == TableMatchesConf /\ NullNeverRead
=============================================================================
