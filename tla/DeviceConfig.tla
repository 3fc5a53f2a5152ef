---------------------------- MODULE DeviceConfig ----------------------------
(***************************************************************************)
(* The configuration of the device, g_cfg of src/src/new_cfg.c, and the    *)
(* flash sector it is saved in (hal/bk7231/hal_flashConfig_bk7231.c).      *)
(*                                                                         *)
(* The main thread saves every second, the web thread at the end of a      *)
(* page, and any command changes a setting; nothing but the flash driver   *)
(* is locked.  The checksum is taken in RAM, the sector is erased, and     *)
(* what RAM holds then is written.  A checksum is the value it was taken   *)
(* of: two settings with one checksum are not modelled.                    *)
(***************************************************************************)
EXTENDS Integers

CONSTANTS
  Threads,   \* those that save: Main and the web thread
  Main,
  Settings,  \* what a configuration says
  Default,   \* CFG_SetDefaultConfig
  Preempt    \* whether a thread runs while another is saving

ASSUME ConfigAssumption ==
  /\ Main \in Threads /\ Default \in Settings /\ Preempt \in BOOLEAN

VARIABLES
  cfg,      \* g_cfg
  crc,      \* g_cfg.crc: the settings it was computed from
  pending,  \* g_cfg_pendingChanges > 0
  sector,   \* what the flash holds
  saver     \* where each thread is in CFG_Save_IfThereArePendingChanges

configVars == <<cfg, crc, pending, sector, saver>>

Erased == [value |-> "blank", sum |-> "none"]
Holding(v, c) == [value |-> v, sum |-> c]
Valid(s) == s.sum = s.value

ConfigInit ==
  /\ cfg = Default /\ crc = Default /\ pending = FALSE
  /\ sector = Erased /\ saver = [t \in Threads |-> "idle"]

Saving == {t \in Threads : saver[t] # "idle"}
MayRun(t) == Preempt \/ Saving \subseteq {t}
At(t, from, to) == saver[t] = from /\ saver' = [saver EXCEPT ![t] = to]

\* Any CFG_Set...: a change is counted, and nothing else.
SetConfig(t) ==
  /\ MayRun(t) /\ saver[t] = "idle"
  /\ \E v \in Settings \ {cfg} : cfg' = v
  /\ pending' = TRUE
  /\ UNCHANGED <<crc, sector, saver>>

\* CFG_Save_IfThereArePendingChanges
SumStale(t) == crc' = crc
SumTaken(t) == crc' = cfg

SaveBegins(t) ==
  /\ MayRun(t) /\ pending /\ At(t, "idle", "summed")
  /\ SumTaken(t)
  /\ UNCHANGED <<cfg, pending, sector>>

\* HAL_Configuration_SaveConfigMemory, under the lock of the flash.
SaveErases(t) ==
  /\ \A u \in Threads : saver[u] # "erased"
  /\ At(t, "summed", "erased")
  /\ sector' = Erased
  /\ UNCHANGED <<cfg, crc, pending>>

SaveWrites(t) ==
  /\ At(t, "erased", "written")
  /\ sector' = Holding(cfg, crc)
  /\ UNCHANGED <<cfg, crc, pending>>

SaveEnds(t) ==
  /\ At(t, "written", "idle")
  /\ pending' = FALSE
  /\ UNCHANGED <<cfg, crc, sector>>

Save(t) == SaveBegins(t) \/ SaveErases(t) \/ SaveWrites(t) \/ SaveEnds(t)

\* CFG_InitAndLoad, up to the save at its end.
LoadChecked ==
  /\ cfg' = IF Valid(sector) THEN sector.value ELSE Default
  /\ pending' = ~Valid(sector)

InitAndLoad ==
  /\ LoadChecked
  /\ crc' = IF Valid(sector) THEN sector.sum ELSE Default
  /\ UNCHANGED <<sector, saver>>

\* The program ends: RAM is gone, the sector stays as it is.
ConfigLost ==
  /\ cfg' = Default /\ crc' = Default /\ pending' = FALSE
  /\ saver' = [t \in Threads |-> "idle"]
  /\ UNCHANGED sector

-----------------------------------------------------------------------------
ConfigTypeOK ==
  /\ cfg \in Settings /\ crc \in Settings /\ pending \in BOOLEAN
  /\ sector \in [value : Settings, sum : Settings] \union {Erased}
  /\ saver \in [Threads -> {"idle", "summed", "erased", "written"}]

\* What the sector holds is one configuration with its own checksum, or it is
\* erased: a restart never finds settings of two moments in it.
\* (CFG_Save_IfThereArePendingChanges, when one thread runs at a time.)
SectorNeverMixed == Valid(sector) \/ sector = Erased

\* Whatever is not on its way to flash is in it: a change that no save is
\* pending for, and no thread about to write, is what a restart would load.
NothingForgotten == ~pending /\ Saving = {} => sector = Holding(cfg, cfg)
=============================================================================
