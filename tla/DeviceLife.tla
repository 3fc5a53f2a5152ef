----------------------------- MODULE DeviceLife -----------------------------
(***************************************************************************)
(* From power to power: the boot counter, the configuration and the main   *)
(* loop of src/src/user_main.c that ties them together, with everything    *)
(* that ends the program: a scheduled reset, which saves first, a          *)
(* configuration that brings the device down, and the loss of power        *)
(* between any two steps.                                                  *)
(***************************************************************************)
EXTENDS BootGuard, DeviceConfig

CONSTANTS
  Bad,      \* settings that bring the device down before its boot is complete
  MaxStops  \* bound: resets and losses of power

ASSUME LifeAssumption == Bad \subseteq Settings \ {Default} /\ MaxStops \in Nat

VARIABLES
  running,  \* the settings the device was started with
  reset,    \* g_reset: "no", "scheduled", "last" second, "saved"
  asked,    \* observer: the SafeMode command scheduled the next reset
  stops     \* bound: resets and losses of power so far

lifeOnly == <<running, reset, asked, stops>>
lifeVars == <<bootVars, configVars, lifeOnly>>

LifeInit ==
  /\ BootInit /\ ConfigInit
  /\ running = Default /\ reset = "no" /\ asked = FALSE /\ stops = 0

\* The main thread is not in its last second, after which nothing runs.
MainFree == reset \in {"no", "scheduled"}
Calm == Preempt \/ MainFree
ComesDown == ~safeMode /\ running \in Bad /\ marking = "no"

BootStep == UNCHANGED <<configVars, lifeOnly>>
Starting == BootStep /\ (PowerOn \/ BootCounted)
Marking ==
  /\ MainFree /\ ~ComesDown /\ BootStep
  /\ BootComplete \/ BootCompleteSaved
Keeping == Calm /\ BootStep /\ (SaveChannel \/ SaveChannelSaved)

PowerIs(p) ==
  power' = p /\ UNCHANGED <<fv, fvFlash, safeMode, marking, keeping, keptMay>>

\* Main_Init_Before_Delay: the configuration is loaded, the defaults are saved
\* if it was not there, and the rest starts with it.
Load == power = "loading" /\ PowerIs("storing") /\ InitAndLoad /\ UNCHANGED lifeOnly
Store == power = "storing" /\ Save(Main) /\ UNCHANGED <<bootVars, lifeOnly>>
Start ==
  /\ power = "storing" /\ saver[Main] = "idle" /\ ~pending
  /\ PowerIs("up") /\ running' = cfg /\ asked' = FALSE
  /\ UNCHANGED <<configVars, reset, stops>>

Changes(t) ==
  /\ Up /\ Calm /\ (t = Main => MainFree)
  /\ SetConfig(t)
  /\ UNCHANGED <<bootVars, lifeOnly>>

Saves(t) ==
  /\ Up /\ Calm /\ (t = Main => MainFree)
  /\ Save(t)
  /\ UNCHANGED <<bootVars, lifeOnly>>

\* RESET_ScheduleModuleReset
ScheduleReset ==
  /\ Up /\ Calm /\ reset = "no" /\ stops < MaxStops
  /\ reset' = "scheduled" /\ stops' = stops + 1
  /\ UNCHANGED <<bootVars, configVars, running, asked>>

SafeModeCommand ==
  /\ Calm /\ reset = "no" /\ stops < MaxStops
  /\ SafeModeCounts /\ asked' = TRUE
  /\ reset' = "scheduled" /\ stops' = stops + 1
  /\ UNCHANGED <<configVars, running>>

\* The second in which g_reset comes to 0: what is pending is saved, and the
\* module reboots.
ResetDue ==
  /\ Up /\ reset = "scheduled" /\ saver[Main] = "idle" /\ marking # "marked"
  /\ MayRun(Main)
  /\ reset' = "last"
  /\ UNCHANGED <<bootVars, configVars, running, asked, stops>>

LastSaveSkipped == saver[Main] = "idle" /\ UNCHANGED configVars
LastSaveDone == saver[Main] = "idle" /\ ~pending /\ UNCHANGED configVars
LastSave ==
  /\ Up /\ reset = "last"
  /\ \/ Save(Main) /\ reset' = IF saver'[Main] = "idle" THEN "saved" ELSE reset
     \/ LastSaveDone /\ reset' = "saved"
  /\ UNCHANGED <<bootVars, running, asked, stops>>

Stopped == BootStops /\ ConfigLost /\ reset' = "no" /\ UNCHANGED <<running, asked>>

Reboot == reset = "saved" /\ Stopped /\ UNCHANGED stops
Crash == Up /\ ComesDown /\ Stopped /\ UNCHANGED stops
PowerCut == stops < MaxStops /\ stops' = stops + 1 /\ Stopped

LifeNext ==
  \/ Starting \/ Marking \/ Keeping \/ Load \/ Store \/ Start
  \/ \E t \in Threads : Changes(t) \/ Saves(t)
  \/ ScheduleReset \/ SafeModeCommand \/ ResetDue \/ LastSave \/ Reboot
  \/ Crash \/ PowerCut

\* The device starts as long as it has power, its threads go on with what they
\* began, and settings that bring it down do so.
LifeFairness ==
  /\ WF_lifeVars(Starting) /\ WF_lifeVars(Load) /\ WF_lifeVars(Store)
  /\ WF_lifeVars(Start) /\ WF_lifeVars(Marking)
  /\ WF_lifeVars(ResetDue) /\ WF_lifeVars(LastSave) /\ WF_lifeVars(Reboot)
  /\ WF_lifeVars(Crash)
  /\ \A t \in Threads : WF_lifeVars(Saves(t))

LifeSpec == LifeInit /\ [][LifeNext]_lifeVars /\ LifeFairness

-----------------------------------------------------------------------------
LifeTypeOK ==
  /\ BootTypeOK /\ ConfigTypeOK
  /\ running \in Settings /\ reset \in {"no", "scheduled", "last", "saved"}
  /\ asked \in BOOLEAN /\ stops \in 0..MaxStops

\* A scheduled reset loses no change of the configuration: the sector holds it
\* when the module reboots ("ensure any config changes are saved before reboot",
\* user_main.c).
ResetKeepsConfig == [][Reboot => sector = Holding(cfg, cfg)]_lifeVars

\* A running device has in flash what it will not save again.
ConfigKept == Up => NothingForgotten /\ SectorNeverMixed

\* Settings that bring the device down before its boot is complete lead to safe
\* mode, in which they can be changed, whatever else stops the device meanwhile.
\* (Main_Init_Before_Delay)
SafeModeComes ==
  Up /\ running \in Bad /\ ~safeMode ~> Up /\ (safeMode \/ running \notin Bad)

\* A device restarted by the SafeMode command starts in safe mode.
\* (docs/commands.md: "Forces device reboot into safe mode")  Refuted: the increments
\* after the first begin with a cleared structure (hal_flashVars_bk7231.c:68).
SafeModeObeyed == [][Start => (asked => safeMode)]_lifeVars

\* Nothing that was kept is lost by any restart: values in the flash variables, and
\* the configuration.
NothingLost == KeptSurvives /\ ConfigKept
=============================================================================
