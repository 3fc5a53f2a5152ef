---------------------------- MODULE MCMqttRxTask ----------------------------
(* Up to four messages: enough for one to be handled, one to be waiting,   *)
(* one to arrive during the clearing of the bit and one after it.          *)
EXTENDS MqttRxTask
Polling == [beken |-> FALSE, busy |-> TRUE]
OneShot == [beken |-> TRUE, busy |-> FALSE]
OneShotBusy == [beken |-> TRUE, busy |-> TRUE]
MCBoards  == {Polling, OneShot, OneShotBusy}
MCOneShot == {OneShot}
=============================================================================
