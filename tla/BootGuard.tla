------------------------------ MODULE BootGuard ------------------------------
(***************************************************************************)
(* The boot counter and the values kept over a restart: the flash          *)
(* variables of src/src/hal/bk7231/hal_flashVars_bk7231.c, and safe mode,  *)
(* which Main_Init_Before_Delay (src/src/user_main.c) decides from them.   *)
(*                                                                         *)
(* One structure is kept in RAM and written to flash as a whole, which is  *)
(* one step, for the flash library writes a new copy before it gives up    *)
(* the old one; between a change in RAM and its writing the power may fail *)
(* or another thread write.                                                *)
(***************************************************************************)
EXTENDS Integers

CONSTANTS
  Threshold,  \* RESTARTS_REQUIRED_FOR_SAFE_MODE
  Width,      \* values of an unsigned short
  Kept        \* values a channel may have, 0 among them

ASSUME BootAssumption ==
  Threshold \in Nat /\ Width \in Nat /\ Threshold + 1 < Width /\ 0 \in Kept

VARIABLES
  power,     \* "off"; "counting", "loading" and "storing" in Main_Init_Before_Delay; "up"
  fv,        \* flash_vars: boot_count, boot_success_count, one savedValue
  fvFlash,   \* what the flash holds of it
  safeMode,  \* bSafeMode
  marking,   \* the second that completes the boot: "no", "marked" in RAM, "done"
  keeping,   \* a thread in HAL_FlashVars_SaveChannel: "no", "changed" in RAM
  keptMay    \* observer: the value last saved, and one on its way to flash

bootVars == <<power, fv, fvFlash, safeMode, marking, keeping, keptMay>>

FlashVars == [boots : 0..Width - 1, ok : 0..Width - 1, kept : Kept]
Blank == [boots |-> 0, ok |-> 0, kept |-> 0]

BootInit ==
  /\ power = "off" /\ fv = Blank /\ fvFlash = Blank /\ safeMode = FALSE
  /\ marking = "no" /\ keeping = "no" /\ keptMay = {0}

Up == power = "up"

\* HAL_FlashVars_GetBootFailures: the difference is an int.
Failures(v) == v.boots - v.ok

\* HAL_FlashVars_IncreaseBootCount: the structure is cleared, and read if it was
\* never read since the power came.
Increased(loaded) ==
  [(IF loaded THEN Blank ELSE fvFlash) EXCEPT !.boots = (@ + 1) % Width]

PowerOn ==
  /\ power = "off" /\ power' = "counting"
  /\ fv' = Increased(FALSE)
  /\ UNCHANGED <<fvFlash, safeMode, marking, keeping, keptMay>>

SafeFrom(failures) == failures >= Threshold
SafeAfter(failures) == failures > Threshold

BootCounted ==
  /\ power = "counting" /\ power' = "loading"
  /\ fvFlash' = fv
  /\ safeMode' = SafeAfter(Failures(fv))
  /\ UNCHANGED <<fv, marking, keeping, keptMay>>

\* HAL_FlashVars_SaveBootComplete, called by Main_OnEverySecond after
\* CFG_GetBootOkSeconds seconds, in safe mode too.
BootComplete ==
  /\ Up /\ marking = "no" /\ marking' = "marked"
  /\ fv' = [fv EXCEPT !.ok = fv.boots]
  /\ UNCHANGED <<power, fvFlash, safeMode, keeping, keptMay>>

BootCompleteSaved ==
  /\ Up /\ marking = "marked" /\ marking' = "done"
  /\ fvFlash' = fv
  /\ UNCHANGED <<power, fv, safeMode, keeping, keptMay>>

\* HAL_FlashVars_SaveChannel, on any thread.
SaveChannel ==
  /\ Up /\ keeping = "no" /\ keeping' = "changed"
  /\ \E v \in Kept :
       /\ v # fv.kept /\ fv' = [fv EXCEPT !.kept = v]
       /\ keptMay' = keptMay \union {v}
  /\ UNCHANGED <<power, fvFlash, safeMode, marking>>

SaveChannelSaved ==
  /\ Up /\ keeping = "changed" /\ keeping' = "no"
  /\ fvFlash' = fv /\ keptMay' = {fv.kept}
  /\ UNCHANGED <<power, fv, safeMode, marking>>

\* The SafeMode command increases the count Threshold + 1 times, each time from
\* a cleared structure; DeviceLife schedules the restart it asks for.
SafeModeCounts ==
  /\ Up /\ marking # "marked" /\ keeping = "no"
  /\ fv' = Increased(TRUE) /\ fvFlash' = Increased(TRUE)
  /\ keptMay' = {fv'.kept}
  /\ UNCHANGED <<power, safeMode, marking, keeping>>

\* Whatever ends the program: what RAM held is gone.
BootStops ==
  /\ power # "off" /\ power' = "off"
  /\ fv' = Blank /\ safeMode' = FALSE /\ marking' = "no" /\ keeping' = "no"
  /\ UNCHANGED <<fvFlash, keptMay>>

-----------------------------------------------------------------------------
BootTypeOK ==
  /\ power \in {"off", "counting", "loading", "storing", "up"}
  /\ fv \in FlashVars /\ fvFlash \in FlashVars /\ safeMode \in BOOLEAN
  /\ marking \in {"no", "marked", "done"} /\ keeping \in {"no", "changed"}
  /\ keptMay \subseteq Kept

Promise == INSTANCE BootPromise WITH
  failed <- Failures(fvFlash),
  mode <- IF power \in {"off", "counting"} THEN "off" ELSE IF safeMode THEN "safe" ELSE "normal"

\* Safe mode comes after more than Threshold boots in a row that failed, and
\* only then: the two counters of the flash implement what BootPromise says.
SafeModeKept == Promise!PromiseSpec

\* A value that HAL_FlashVars_SaveChannel stored is there after every restart
\* (unless the SafeMode command cleared it), whenever the power fails, although
\* every boot and every completed boot writes the whole structure from RAM.
KeptSurvives ==
  /\ fvFlash.kept \in keptMay
  /\ power # "off" => fv.kept \in keptMay
=============================================================================
