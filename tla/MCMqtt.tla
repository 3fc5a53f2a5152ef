------------------------------- MODULE MCMqtt -------------------------------
(***************************************************************************)
(* The parts of the MQTT client that work from second to second, side by   *)
(* side: a behaviour is one of the part that was chosen at its start,      *)
(* while the others rest in an initial state.  They share no state.        *)
(***************************************************************************)
EXTENDS MCMqttDeduper, MCMqttPublishQueue, MCMqttConnection, MCMqttRxTask

VARIABLE part

allVars == <<part, dedupVars, publishVars, connVars, rxTaskVars>>

Init ==
  /\ part \in {"deduper", "queue", "connection", "task"}
  /\ DedupInit /\ PublishInit /\ ConnInit /\ RxTaskInit
  /\ part # "connection" => config = a
  /\ part # "task" => board.beken

Deduper ==
  /\ part = "deduper" /\ DedupNext
  /\ UNCHANGED <<part, publishVars, connVars, rxTaskVars>>
Queue ==
  /\ part = "queue" /\ PublishNext
  /\ UNCHANGED <<part, dedupVars, connVars, rxTaskVars>>
Connection ==
  /\ part = "connection" /\ ConnNext
  /\ UNCHANGED <<part, dedupVars, publishVars, rxTaskVars>>
RxTask ==
  /\ part = "task" /\ RxTaskNext
  /\ UNCHANGED <<part, dedupVars, publishVars, connVars>>

Next == Deduper \/ Queue \/ Connection \/ RxTask

Fairness ==
  \/ part = "deduper" /\ DedupFairness
  \/ part = "queue" /\ PublishFairness
  \/ part = "connection" /\ ConnFairness
  \/ part = "task" /\ RxTaskFairness

Spec == Init /\ [][Next]_allVars /\ Fairness

\* Recovers, of the behaviours in which the connection runs.
ConnectionRecovers == part = "connection" => Recovers

\* The type invariants of the parts but the queue's, whose bound of the broadcast's
\* index is a property of its own.
TypeOK == DedupTypeOK /\ ConnTypeOK /\ RxTaskTypeOK
=============================================================================
