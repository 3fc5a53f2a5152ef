----------------------------- MODULE BootPromise -----------------------------
(***************************************************************************)
(* What safe mode promises, whatever a device counts with: a boot after    *)
(* more than Threshold boots in a row that never got far enough is in safe *)
(* mode, and no other boot is.                                             *)
(***************************************************************************)
EXTENDS Naturals

CONSTANT Threshold  \* RESTARTS_REQUIRED_FOR_SAFE_MODE

VARIABLES
  failed,  \* boots since the last one that got far enough
  mode     \* "off", "normal", "safe"

promiseVars == <<failed, mode>>

PromiseInit == failed = 0 /\ mode = "off"

StartsUp ==
  /\ mode = "off"
  /\ failed' = failed + 1
  /\ mode' = IF failed' > Threshold THEN "safe" ELSE "normal"

GetsFarEnough == mode # "off" /\ failed' = 0 /\ UNCHANGED mode

Stops == mode # "off" /\ mode' = "off" /\ UNCHANGED failed

\* The SafeMode command counts this boot as the first.
StartsOver == mode # "off" /\ failed' = 1 /\ UNCHANGED mode

PromiseNext == StartsUp \/ GetsFarEnough \/ Stops \/ StartsOver

PromiseSpec == PromiseInit /\ [][PromiseNext]_promiseVars
=============================================================================
