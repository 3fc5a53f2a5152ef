--------------------------- MODULE Device_proofs ---------------------------
(***************************************************************************)
(* What a device comes back to, for every number of restarts, threads and  *)
(* settings: its kept values, its configuration and safe mode over any     *)
(* sequence of crashes, resets and losses of power (DeviceLife), its next  *)
(* attempt at a network (WifiLink), the relay it shares with a group of    *)
(* any size (DeviceGroups) and the handshake with an MCU (TuyaPairing).    *)
(***************************************************************************)
EXTENDS DeviceLife, WifiLink, TuyaPairing, DeviceGroups, SequenceTheorems, FiniteSetTheorems,
        WellFoundedInduction, TLAPS

\* A set of numbers that is not empty has a least one; one that has 0 and with each
\* number up to k the next has all up to k.
LEMMA LeastOfNumbers ==
  ASSUME NEW S, S \subseteq Nat, S # {}
  PROVE  \E x \in S : \A y \in S : x <= y
<1>1. \A x, y \in Nat : <<y, x>> \in OpToRel(<, Nat) <=> y < x
  BY DEF OpToRel
<1>2. \E R : IsWellFoundedOn(R, Nat) /\ \A x, y \in Nat : <<y, x>> \in R <=> y < x
  BY <1>1, NatLessThanWellFounded, Zenon
<1>3. PICK R : IsWellFoundedOn(R, Nat) /\ \A x, y \in Nat : <<y, x>> \in R <=> y < x
  BY <1>2
<1>4. \E x \in S : \A y \in S : ~(<<y, x>> \in R)
  BY <1>3, WFMin
<1>5. PICK x \in S : \A y \in S : ~(<<y, x>> \in R)
  BY <1>4
<1>6. ASSUME NEW y \in S PROVE x <= y
  <2>1. x \in Nat /\ y \in Nat /\ ~(<<y, x>> \in R)
    BY <1>5
  <2>2. ~(y < x)
    BY <1>3, <2>1
  <2> QED BY <2>1, <2>2
<1> QED BY <1>6

LEMMA CountedUpTo ==
  ASSUME NEW k \in Nat, NEW S, 0 \in S, \A n \in 0 .. (k - 1) : n \in S => n + 1 \in S
  PROVE  k \in S
<1> DEFINE Left == {n \in 0 .. k : n \notin S}
<1>1. ASSUME k \notin S PROVE FALSE
  <2>1. Left \subseteq Nat /\ Left # {}
    BY <1>1
  <2>2. PICK x \in Left : \A y \in Left : x <= y
    BY <2>1, LeastOfNumbers
  <2>3. x # 0 /\ x - 1 \in 0 .. (k - 1) /\ x - 1 \notin Left /\ (x - 1) + 1 = x
    BY <2>2
  <2> QED BY <2>2, <2>3
<1> QED BY <1>1

USE BootAssumption, ConfigAssumption, LifeAssumption
    DEF BootAssumption, ConfigAssumption, LifeAssumption

(***************************************************************************)
(* Types                                                                   *)
(***************************************************************************)
LEMMA BlankType == Blank \in FlashVars
BY DEF Blank, FlashVars

LEMMA IncreasedType ==
  ASSUME BootTypeOK, NEW loaded \in BOOLEAN
  PROVE  /\ Increased(loaded) \in FlashVars
         /\ Increased(loaded).ok = IF loaded THEN 0 ELSE fvFlash.ok
         /\ Increased(loaded).kept = IF loaded THEN 0 ELSE fvFlash.kept
         /\ Increased(loaded).boots =
              IF loaded THEN 1 ELSE IF fvFlash.boots = Width - 1 THEN 0 ELSE fvFlash.boots + 1
<1>1. Blank \in FlashVars
  BY BlankType
<1>2. \A n \in 0..Width - 1 : (n + 1) % Width = IF n = Width - 1 THEN 0 ELSE n + 1
  OBVIOUS
<1> DEFINE v == IF loaded THEN Blank ELSE fvFlash
           w == [v EXCEPT !.boots = (@ + 1) % Width]
<1>3. v \in FlashVars /\ v.boots \in 0..Width - 1
  BY <1>1 DEF BootTypeOK, FlashVars
<1>4. (v.boots + 1) % Width \in 0..Width - 1
  BY <1>2, <1>3
<1> HIDE DEF v
<1>5. w \in FlashVars /\ w.ok = v.ok /\ w.kept = v.kept /\ w.boots = (v.boots + 1) % Width
  BY <1>3, <1>4 DEF FlashVars
<1>6. Increased(loaded) = w
  BY DEF Increased, v
<1> HIDE DEF w
<1>7. loaded => v = Blank
  BY DEF v
<1>8. ~loaded => v = fvFlash
  BY DEF v
<1>9. Blank.boots = 0 /\ Blank.ok = 0 /\ Blank.kept = 0
  BY DEF Blank
<1> QED BY <1>2, <1>3, <1>5, <1>6, <1>7, <1>8, <1>9

LEMMA SmallModWidth == \A n \in Nat : n < Width => n % Width = n
OBVIOUS

\* The two structures that it makes.
LEMMA CountedUp ==
  ASSUME BootTypeOK, fv = Increased(FALSE), fvFlash.boots + 1 < Width
  PROVE  fv.boots = fvFlash.boots + 1 /\ fv.ok = fvFlash.ok
<1>1. fv.boots = (fvFlash.boots + 1) % Width /\ fv.ok = fvFlash.ok
  BY DEF Increased, BootTypeOK, FlashVars
<1>2. fvFlash.boots \in Nat
  BY DEF BootTypeOK, FlashVars
<1>3. fvFlash.boots + 1 \in Nat /\ (fvFlash.boots + 1) % Width = fvFlash.boots + 1
  BY <1>2, SmallModWidth
<1> QED BY <1>1, <1>3

LEMMA CountedAnew ==
  ASSUME NEW v, v = Increased(TRUE)
  PROVE  v.boots = 1 /\ v.ok = 0 /\ v.kept = 0
<1>1. v.boots = (0 + 1) % Width /\ v.ok = 0 /\ v.kept = 0
  BY DEF Increased, Blank
<1>2. 0 + 1 \in Nat /\ 0 + 1 < Width /\ 0 + 1 = 1
  OBVIOUS
<1>3. (0 + 1) % Width = 1
  BY <1>2, SmallModWidth
<1> QED BY <1>1, <1>3

LEMMA BootTypes ==
  ASSUME BootTypeOK,
         \/ PowerOn \/ BootCounted \/ BootComplete \/ BootCompleteSaved
         \/ SaveChannel \/ SaveChannelSaved \/ SafeModeCounts \/ BootStops
  PROVE  BootTypeOK'
<1>1. Increased(FALSE) \in FlashVars /\ Increased(TRUE) \in FlashVars
  BY IncreasedType
<1>2. CASE PowerOn
  BY <1>1, <1>2 DEF PowerOn, BootTypeOK
<1>3. CASE BootCounted
  BY <1>3 DEF BootCounted, SafeAfter, Failures, BootTypeOK
<1>4. CASE BootComplete
  BY <1>4 DEF BootComplete, BootTypeOK, FlashVars
<1>5. CASE BootCompleteSaved
  BY <1>5 DEF BootCompleteSaved, BootTypeOK
<1>6. CASE SaveChannel
  BY <1>6 DEF SaveChannel, BootTypeOK, FlashVars
<1>7. CASE SaveChannelSaved
  BY <1>7 DEF SaveChannelSaved, BootTypeOK, FlashVars
<1>8. CASE SafeModeCounts
  BY <1>1, <1>8 DEF SafeModeCounts, BootTypeOK, FlashVars
<1>9. CASE BootStops
  BY <1>9, BlankType DEF BootStops, BootTypeOK
<1> QED BY <1>2, <1>3, <1>4, <1>5, <1>6, <1>7, <1>8, <1>9

\* A sector that passes the check holds one configuration and its checksum.
LEMMA ValidSector ==
  ASSUME ConfigTypeOK, Valid(sector)
  PROVE  sector.value \in Settings /\ sector.sum = sector.value /\ sector = Holding(sector.value, sector.value)
<1>1. sector # Erased
  BY DEF Valid, Erased
<1> QED BY <1>1 DEF ConfigTypeOK, Valid, Holding

LEMMA ConfigTypes ==
  ASSUME ConfigTypeOK,
         (\E t \in Threads : SetConfig(t) \/ Save(t)) \/ InitAndLoad \/ ConfigLost
  PROVE  ConfigTypeOK'
<1>1. ASSUME NEW t \in Threads, NEW st \in {"idle", "summed", "erased", "written"}
      PROVE  [saver EXCEPT ![t] = st] \in [Threads -> {"idle", "summed", "erased", "written"}]
  BY DEF ConfigTypeOK
<1>2. ASSUME NEW t \in Threads, SetConfig(t) PROVE ConfigTypeOK'
  BY <1>2 DEF SetConfig, ConfigTypeOK
<1>3. ASSUME NEW t \in Threads, SaveBegins(t) PROVE ConfigTypeOK'
  BY <1>1, <1>3 DEF SaveBegins, At, SumTaken, ConfigTypeOK
<1>4. ASSUME NEW t \in Threads, SaveErases(t) PROVE ConfigTypeOK'
  BY <1>1, <1>4 DEF SaveErases, At, ConfigTypeOK
<1>5. ASSUME NEW t \in Threads, SaveWrites(t) PROVE ConfigTypeOK'
  BY <1>1, <1>5 DEF SaveWrites, At, Holding, ConfigTypeOK
<1>6. ASSUME NEW t \in Threads, SaveEnds(t) PROVE ConfigTypeOK'
  BY <1>1, <1>6 DEF SaveEnds, At, ConfigTypeOK
<1>7. CASE InitAndLoad
  BY <1>7, ValidSector DEF InitAndLoad, LoadChecked, ConfigTypeOK
<1>8. CASE ConfigLost
  BY <1>8 DEF ConfigLost, ConfigTypeOK
<1> QED BY <1>2, <1>3, <1>4, <1>5, <1>6, <1>7, <1>8 DEF Save

\* What a step of the device is to the counters and to the configuration.
BootSteps ==
  \/ PowerOn \/ BootCounted \/ BootComplete \/ BootCompleteSaved
  \/ SaveChannel \/ SaveChannelSaved \/ SafeModeCounts \/ BootStops
ConfigSteps ==
  (\E t \in Threads : SetConfig(t) \/ Save(t)) \/ InitAndLoad \/ ConfigLost

LEMMA LifeTypes == LifeTypeOK /\ [LifeNext]_lifeVars => LifeTypeOK'
<1> SUFFICES ASSUME LifeTypeOK, [LifeNext]_lifeVars PROVE LifeTypeOK'
  OBVIOUS
<1>1. BootTypeOK /\ ConfigTypeOK
  BY DEF LifeTypeOK
<1>2. ASSUME BootSteps \/ UNCHANGED bootVars PROVE BootTypeOK'
  <2>1. CASE BootSteps
    BY <1>1, <2>1, BootTypes DEF BootSteps
  <2>2. CASE UNCHANGED bootVars
    BY <1>1, <2>2 DEF BootTypeOK, bootVars
  <2> QED BY <1>2, <2>1, <2>2
<1>3. ASSUME ConfigSteps \/ UNCHANGED configVars PROVE ConfigTypeOK'
  <2>1. CASE ConfigSteps
    BY <1>1, <2>1, ConfigTypes DEF ConfigSteps
  <2>2. CASE UNCHANGED configVars
    BY <1>1, <2>2 DEF ConfigTypeOK, configVars
  <2> QED BY <1>3, <2>1, <2>2
<1>4. CASE UNCHANGED lifeVars
  BY <1>2, <1>3, <1>4 DEF LifeTypeOK, lifeVars, lifeOnly
<1>5. CASE Starting \/ Marking \/ Keeping
  BY <1>2, <1>3, <1>5 DEF Starting, Marking, Keeping, BootStep, BootSteps, LifeTypeOK, lifeOnly
<1>6. CASE Load
  <2>1. BootTypeOK'
    BY <1>1, <1>6 DEF Load, PowerIs, BootTypeOK
  <2> QED BY <1>3, <1>6, <2>1 DEF Load, ConfigSteps, LifeTypeOK, lifeOnly
<1>7. CASE Store
  BY <1>2, <1>3, <1>7 DEF Store, ConfigSteps, LifeTypeOK, lifeOnly
<1>8. CASE Start
  <2>1. BootTypeOK'
    BY <1>1, <1>8 DEF Start, PowerIs, BootTypeOK
  <2> QED BY <1>1, <1>3, <1>8, <2>1 DEF Start, ConfigTypeOK, LifeTypeOK, lifeOnly
<1>9. ASSUME NEW t \in Threads, Changes(t) \/ Saves(t) PROVE LifeTypeOK'
  BY <1>2, <1>3, <1>9 DEF Changes, Saves, ConfigSteps, LifeTypeOK, lifeOnly
<1>10. CASE ScheduleReset \/ ResetDue
  BY <1>2, <1>3, <1>10 DEF ScheduleReset, ResetDue, LifeTypeOK
<1>11. CASE SafeModeCommand
  BY <1>2, <1>3, <1>11 DEF SafeModeCommand, BootSteps, LifeTypeOK
<1>12. CASE LastSave
  BY <1>2, <1>3, <1>12 DEF LastSave, LastSaveDone, ConfigSteps, LifeTypeOK
<1>13. CASE Reboot \/ Crash \/ PowerCut
  <2>1. Stopped /\ stops' \in 0..MaxStops
    BY <1>13 DEF Reboot, Crash, PowerCut, LifeTypeOK
  <2> QED BY <1>2, <1>3, <2>1 DEF Stopped, BootSteps, ConfigSteps, LifeTypeOK
<1> QED
  BY <1>4, <1>5, <1>6, <1>7, <1>8, <1>9, <1>10, <1>11, <1>12, <1>13 DEF LifeNext

(***************************************************************************)
(* The inductive invariants                                                *)
(***************************************************************************)

\* The boots that so many restarts account for: after each of them the device
\* may come down Threshold + 1 times by itself, and then is in safe mode.
Allowed(n) == n * (Threshold + 2)

\* A device without safe mode has not come down oftener than it counted failures.
Few ==
  \/ fvFlash.boots <= Allowed(stops)
  \/ Failures(fvFlash) <= Threshold /\ fvFlash.boots <= Allowed(stops) + Failures(fvFlash)

\* In RAM the counters are those of the flash, but for the boot being counted and
\* the one being completed.
CountersAgree ==
  /\ fvFlash.ok <= fvFlash.boots
  /\ power # "up" => marking = "no" /\ keeping = "no"
  /\ power = "counting" => fv = Increased(FALSE)
  /\ power \in {"loading", "storing", "up"} =>
       /\ fv.boots = fvFlash.boots /\ fv.ok <= fv.boots
       /\ IF marking = "marked" THEN fv.ok = fv.boots ELSE fv.ok = fvFlash.ok

\* The counter stays below what the restarts account for; a scheduled reset is
\* accounted for already.
CounterBounded ==
  /\ power \in {"off", "counting"} => Few
  /\ power \in {"loading", "storing", "up"} =>
       /\ fvFlash.boots <= Allowed(stops) + Threshold + 1
       /\ ~safeMode /\ marking = "no" => Few
  /\ reset # "no" => power = "up" /\ fvFlash.boots <= Allowed(stops)

BootInv == LifeTypeOK /\ CountersAgree /\ CounterBounded

\* One thread saves at a time; what it is about to write has the checksum it took,
\* and what it has written is the configuration.
OneSaves ==
  /\ \A t, u \in Threads : saver[t] # "idle" /\ saver[u] # "idle" => t = u
  /\ \A t \in Threads :
       /\ saver[t] # "idle" => pending /\ power \in {"storing", "up"}
       /\ saver[t] \in {"summed", "erased"} => crc = cfg
       /\ saver[t] = "written" => sector = Holding(cfg, cfg)

\* In the last second before a reset nothing changes any more.
LastSecond ==
  /\ reset # "no" => power = "up"
  /\ reset \in {"last", "saved"} => Saving \subseteq {Main}
  /\ reset = "saved" => Saving = {} /\ sector = Holding(cfg, cfg)

SaveInv ==
  /\ LifeTypeOK /\ OneSaves /\ LastSecond /\ SectorNeverMixed
  /\ power \in {"storing", "up"} => NothingForgotten

(***************************************************************************)
(* Safe mode                                                               *)
(***************************************************************************)

\* The counter has room for every boot that the restarts account for.
CounterWide == Allowed(MaxStops + 1) <= Width

LEMMA AllowedNext ==
  ASSUME NEW n \in Nat
  PROVE  Allowed(n) \in Nat /\ Allowed(n + 1) = Allowed(n) + Threshold + 2
BY DEF Allowed

LEMMA AllowedGrows ==
  ASSUME NEW m \in Nat, NEW n \in 0..m
  PROVE  Allowed(n) <= Allowed(m)
<1>1. (m - n) * (Threshold + 2) >= 0 /\ m * (Threshold + 2) = n * (Threshold + 2) + (m - n) * (Threshold + 2)
  OBVIOUS
<1>2. Allowed(n) \in Nat /\ Allowed(m) \in Nat
  BY AllowedNext
<1> QED BY <1>1, <1>2 DEF Allowed

\* A device that counts a boot has room for it.
LEMMA RoomToCount ==
  ASSUME CounterWide, BootInv, power \in {"off", "counting"}
  PROVE  fvFlash.boots + 1 < Width
<1>1. Allowed(stops) <= Allowed(MaxStops) /\ stops \in Nat /\ MaxStops \in Nat
  BY AllowedGrows DEF BootInv, LifeTypeOK
<1>2. Allowed(MaxStops) + Threshold + 2 <= Width /\ Allowed(MaxStops) \in Nat /\ Allowed(stops) \in Nat
  BY <1>1, AllowedNext DEF CounterWide
<1>3. fvFlash.boots \in Nat /\ fvFlash.ok \in Nat
  BY DEF BootInv, LifeTypeOK, BootTypeOK, FlashVars
<1>4. fvFlash.boots <= Allowed(stops) + Threshold
  BY <1>1, <1>2, <1>3 DEF BootInv, CounterBounded, Few, Failures
<1> QED BY <1>1, <1>2, <1>3, <1>4

LEMMA BootInvStep == CounterWide /\ BootInv /\ [LifeNext]_lifeVars => BootInv'
<1> SUFFICES ASSUME CounterWide, BootInv, [LifeNext]_lifeVars
             PROVE  CountersAgree' /\ CounterBounded'
  BY LifeTypes DEF BootInv
<1>t. LifeTypeOK /\ LifeTypeOK' /\ BootTypeOK /\ BootTypeOK'
  BY LifeTypes DEF BootInv, LifeTypeOK
<1>n. /\ fv.boots \in Nat /\ fv.ok \in Nat /\ fvFlash.boots \in Nat /\ fvFlash.ok \in Nat
      /\ stops \in Nat /\ Allowed(stops) \in Nat
      /\ Allowed(stops + 1) = Allowed(stops) + Threshold + 2
  BY <1>t, AllowedNext DEF LifeTypeOK, BootTypeOK, FlashVars
<1>i. CountersAgree /\ CounterBounded
  BY DEF BootInv
<1>1. ASSUME UNCHANGED bootVars, UNCHANGED stops, reset' \in {reset, "last", "saved"},
             reset' # reset => reset # "no"
      PROVE  CountersAgree' /\ CounterBounded'
  <2>1. CountersAgree'
    BY <1>i, <1>1 DEF CountersAgree, bootVars, Increased
  <2>2. CounterBounded'
    BY <1>i, <1>1 DEF CounterBounded, Few, Failures, Allowed, bootVars
  <2> QED BY <2>1, <2>2
<1>2. CASE UNCHANGED lifeVars
  BY <1>1, <1>2 DEF lifeVars, lifeOnly
<1>3. CASE Starting
  <2>1. CASE PowerOn
    <3>1. CountersAgree'
      BY <1>i, <1>3, <2>1 DEF PowerOn, CountersAgree, Increased
    <3>2. CounterBounded'
      BY <1>i, <1>3, <2>1 DEF PowerOn, Starting, BootStep, lifeOnly, CounterBounded, Few, Failures, Allowed
    <3> QED BY <3>1, <3>2
  <2>2. CASE BootCounted
    <3>0. power = "counting" /\ fv = Increased(FALSE)
      BY <1>i, <2>2 DEF BootCounted, CountersAgree
    <3>r. fvFlash.boots + 1 < Width
      BY <3>0, RoomToCount
    <3>1. /\ fv.boots = fvFlash.boots + 1 /\ fv.ok = fvFlash.ok
      BY <1>t, <1>n, <3>0, <3>r, CountedUp
    <3>2. CountersAgree'
      BY <1>i, <1>n, <1>3, <2>2, <3>1 DEF BootCounted, CountersAgree
    <3>3. /\ fvFlash' = fv /\ fv' = fv /\ power' = "loading" /\ marking' = marking
          /\ safeMode' = (Failures(fv) > Threshold) /\ stops' = stops /\ reset' = reset
          /\ Failures(fv) = Failures(fvFlash) + 1 /\ Failures(fvFlash) \in Nat
          /\ Allowed(stops)' = Allowed(stops) /\ Few
      BY <1>i, <1>n, <1>3, <2>2, <3>1
         DEF BootCounted, SafeAfter, Starting, BootStep, lifeOnly, Failures, CounterBounded, CountersAgree, Allowed
    <3>4. fvFlash'.boots <= Allowed(stops)' + Threshold + 1
      BY <1>n, <3>1, <3>3 DEF Few
    <3>5. ~safeMode' => Few'
      <4>1. fv.boots - fv.ok <= Threshold => fv.boots <= Allowed(stops) + (fv.boots - fv.ok)
        BY <1>n, <3>1, <3>3 DEF Few, Failures
      <4>2. ~safeMode' => fv.boots - fv.ok <= Threshold
        <5>1. ~safeMode' => ~ (Failures(fv) > Threshold)
          BY <2>2 DEF BootCounted, SafeAfter
        <5> QED BY <1>n, <5>1 DEF Failures
      <4> QED BY <3>3, <4>1, <4>2 DEF Few, Failures
    <3> QED BY <1>i, <3>0, <3>2, <3>3, <3>4, <3>5 DEF CounterBounded
  <2> QED BY <1>3, <2>1, <2>2 DEF Starting
<1>4. CASE Marking
  <2>1. /\ fvFlash'.boots = fvFlash.boots /\ stops' = stops /\ reset' = reset /\ power' = power
        /\ power = "up" /\ marking' # "no" /\ safeMode' = safeMode /\ keeping' = keeping
    BY <1>t, <1>i, <1>4 DEF Marking, BootStep, lifeOnly, BootComplete, BootCompleteSaved, Up, CountersAgree
  <2>2. CountersAgree'
    BY <1>t, <1>i, <1>n, <1>4, <2>1
       DEF Marking, BootComplete, BootCompleteSaved, CountersAgree, BootTypeOK, FlashVars
  <2>3. CounterBounded'
    BY <1>i, <2>1 DEF CounterBounded, Allowed
  <2> QED BY <2>2, <2>3
<1>5. CASE Keeping
  <2>1. /\ fvFlash'.boots = fvFlash.boots /\ stops' = stops /\ reset' = reset /\ power' = power
        /\ power = "up" /\ marking' = marking /\ safeMode' = safeMode
        /\ marking # "marked" => fvFlash'.ok = fvFlash.ok
        /\ fv'.boots = fv.boots /\ fv'.ok = fv.ok
        /\ fvFlash'.ok \in {fvFlash.ok, fv.ok}
    BY <1>t, <1>i, <1>5
       DEF Keeping, BootStep, lifeOnly, SaveChannel, SaveChannelSaved, Up, CountersAgree, BootTypeOK, FlashVars
  <2>2. CountersAgree'
    BY <1>i, <1>n, <2>1 DEF CountersAgree
  <2>3. CounterBounded'
    BY <1>i, <2>1 DEF CounterBounded, Few, Failures, Allowed
  <2> QED BY <2>2, <2>3
<1>6. ASSUME Load \/ Start, NEW p \in {"storing", "up"}, PowerIs(p) PROVE CountersAgree' /\ CounterBounded'
  <2>1. power \in {"loading", "storing"} /\ stops' = stops /\ reset' = reset
    BY <1>6 DEF Load, Start, lifeOnly
  <2>2. CountersAgree'
    BY <1>i, <1>6, <2>1 DEF PowerIs, CountersAgree
  <2>3. CounterBounded'
    BY <1>i, <1>6, <2>1 DEF PowerIs, CounterBounded, CountersAgree, Few, Failures, Allowed
  <2> QED BY <2>2, <2>3
<1>7. CASE Store
  BY <1>1, <1>7 DEF Store, lifeOnly
<1>8. ASSUME NEW t \in Threads, Changes(t) \/ Saves(t) PROVE CountersAgree' /\ CounterBounded'
  BY <1>1, <1>8 DEF Changes, Saves, lifeOnly
<1>9. CASE ScheduleReset
  <2>1. CountersAgree'
    BY <1>i, <1>9 DEF ScheduleReset, CountersAgree, bootVars, Increased
  <2>2. /\ stops' = stops + 1 /\ power = "up" /\ UNCHANGED bootVars
        /\ Allowed(stops)' = Allowed(stops + 1)
    BY <1>9 DEF ScheduleReset, Up, Allowed
  <2>3. fvFlash.boots <= Allowed(stops + 1)
    BY <1>i, <1>n, <2>2 DEF CounterBounded
  <2>4. CounterBounded'
    BY <1>n, <2>2, <2>3 DEF CounterBounded, Few, bootVars
  <2> QED BY <2>1, <2>4
<1>10. CASE SafeModeCommand
  <2>1. /\ power = "up" /\ power' = "up" /\ stops' = stops + 1 /\ Allowed(stops)' = Allowed(stops + 1)
        /\ marking' = marking /\ marking # "marked" /\ keeping' = keeping
    BY <1>10 DEF SafeModeCommand, SafeModeCounts, Up, Allowed
  <2>2. fv'.boots = 1 /\ fv'.ok = 0 /\ fvFlash'.boots = 1 /\ fvFlash'.ok = 0
    BY <1>10, CountedAnew DEF SafeModeCommand, SafeModeCounts
  <2>3. CountersAgree'
    BY <2>1, <2>2 DEF CountersAgree
  <2>4. CounterBounded'
    BY <1>n, <2>1, <2>2 DEF CounterBounded, Few
  <2> QED BY <2>3, <2>4
<1>11. CASE ResetDue \/ LastSave
  BY <1>1, <1>11 DEF ResetDue, LastSave
<1>12. ASSUME Stopped, stops' \in {stops, stops + 1}, stops' = stops => Few PROVE CountersAgree' /\ CounterBounded'
  <2>1. /\ power' = "off" /\ marking' = "no" /\ keeping' = "no" /\ reset' = "no" /\ fvFlash' = fvFlash
        /\ power # "off"
    BY <1>12 DEF Stopped, BootStops
  <2>2. CountersAgree'
    BY <1>i, <2>1 DEF CountersAgree
  <2>3. CASE stops' = stops
    <3>1. Few'
      BY <1>12, <2>1, <2>3 DEF Few, Failures, Allowed
    <3> QED BY <2>1, <3>1, <2>2 DEF CounterBounded
  <2>4. CASE stops' = stops + 1
    <3>1. Allowed(stops)' = Allowed(stops + 1)
      BY <2>4 DEF Allowed
    <3>2. fvFlash.boots <= Allowed(stops) + Threshold + 1
      BY <1>t, <1>i, <1>n, <2>1 DEF CounterBounded, Few, Failures, BootTypeOK
    <3>3. Few'
      BY <1>n, <2>1, <3>1, <3>2 DEF Few
    <3> QED BY <2>1, <2>2, <3>3 DEF CounterBounded
  <2> QED BY <1>12, <2>2, <2>3, <2>4
<1>13. CASE Reboot
  BY <1>i, <1>12, <1>13 DEF Reboot, CounterBounded, Few
<1>14. CASE Crash
  BY <1>i, <1>12, <1>14 DEF Crash, ComesDown, Up, CounterBounded
<1>15. CASE PowerCut
  BY <1>n, <1>12, <1>15 DEF PowerCut
<1> QED
  BY <1>2, <1>3, <1>4, <1>5, <1>6, <1>7, <1>8, <1>9, <1>10, <1>11, <1>13, <1>14, <1>15
     DEF LifeNext, Load, Start

LEMMA LifeTypesFirst == LifeInit => LifeTypeOK
<1> SUFFICES ASSUME LifeInit PROVE LifeTypeOK
  OBVIOUS
<1>1. Erased \in {Erased} /\ Default \in Settings /\ 0 \in 0..MaxStops
  OBVIOUS
<1>0. running = Default /\ reset = "no" /\ asked = FALSE /\ stops = 0
  BY DEF LifeInit
<1>2. BootTypeOK
  BY BlankType DEF LifeInit, BootInit, BootTypeOK
<1>3. ConfigTypeOK
  BY <1>1 DEF LifeInit, ConfigInit, ConfigTypeOK
<1> QED BY <1>0, <1>1, <1>2, <1>3 DEF LifeTypeOK

LEMMA BootInvAlways ==
  ASSUME CounterWide
  PROVE  LifeSpec => []BootInv
<1>1. LifeInit => BootInv
  <2> SUFFICES ASSUME LifeInit PROVE BootInv
    OBVIOUS
  <2>1. LifeTypeOK
    BY LifeTypesFirst
  <2>2. Allowed(stops) = 0
    BY DEF LifeInit, Allowed
  <2>3. fvFlash.boots = 0 /\ fvFlash.ok = 0
    BY DEF LifeInit, BootInit, Blank
  <2> QED BY <2>1, <2>2, <2>3 DEF LifeInit, BootInit, BootInv, CountersAgree, CounterBounded, Few
<1>2. BootInv /\ [LifeNext]_lifeVars => BootInv'
  BY BootInvStep
<1> QED BY <1>1, <1>2, PTL DEF LifeSpec

\* What a step of the device is to the flash variables.
LEMMA BootView ==
  [LifeNext]_lifeVars =>
    \/ BootSteps \/ UNCHANGED bootVars
    \/ \E p \in {"storing", "up"} : PowerIs(p) /\ power \in {"loading", "storing"}
BY DEF LifeNext, lifeVars, Starting, Marking, Keeping, Load, Store, Start, Changes, Saves, ScheduleReset,
       SafeModeCommand, ResetDue, LastSave, Reboot, Crash, PowerCut, Stopped, BootSteps

Mode == IF power \in {"off", "counting"} THEN "off" ELSE IF safeMode THEN "safe" ELSE "normal"

\* The steps of the promise that the steps of the device are.
LEMMA PromiseStep ==
  ASSUME CounterWide, BootInv, BootInv', [LifeNext]_lifeVars
  PROVE  [Promise!PromiseNext]_(Promise!promiseVars)
<1>t. BootTypeOK /\ CountersAgree
  BY DEF BootInv, LifeTypeOK
<1>n. /\ fv.boots \in Nat /\ fv.ok \in Nat /\ fvFlash.boots \in Nat /\ fvFlash.ok \in Nat
  BY <1>t DEF BootTypeOK, FlashVars
<1> DEFINE F == Failures(fvFlash)
           Stutters == F' = F /\ Mode' = Mode
           Works(n) == Mode # "off" /\ F' = n /\ Mode' = Mode
           Ends == Mode # "off" /\ Mode' = "off" /\ F' = F
           Begins == Mode = "off" /\ F' = F + 1 /\ Mode' = IF F' > Threshold THEN "safe" ELSE "normal"
<1>p. Stutters \/ Works(0) \/ Works(1) \/ Ends \/ Begins => [Promise!PromiseNext]_(Promise!promiseVars)
  BY DEF Promise!PromiseNext, Promise!StartsUp, Promise!GetsFarEnough, Promise!Stops, Promise!StartsOver,
         Promise!promiseVars, Mode
<1>1. ASSUME UNCHANGED bootVars PROVE Stutters
  BY <1>1 DEF bootVars, Mode, Failures
<1>2. ASSUME PowerOn PROVE Stutters
  BY <1>2 DEF PowerOn, Mode, Failures
<1>3. ASSUME BootCounted PROVE Begins
  <2>0. power = "counting" /\ fv = Increased(FALSE)
    BY <1>t, <1>3 DEF BootCounted, CountersAgree
  <2>1. fv.boots = fvFlash.boots + 1 /\ fv.ok = fvFlash.ok
    BY <1>t, <2>0, RoomToCount, CountedUp
  <2>2. F' = F + 1 /\ F' = Failures(fv)
    BY <1>n, <1>3, <2>1 DEF BootCounted, Failures
  <2>3. safeMode' <=> Failures(fv) > Threshold
    BY <1>3 DEF BootCounted, SafeAfter
  <2> QED BY <1>3, <2>0, <2>2, <2>3 DEF BootCounted, Mode
<1>4. ASSUME BootComplete PROVE Stutters
  BY <1>4 DEF BootComplete, Mode, Failures
<1>5. ASSUME BootCompleteSaved \/ SaveChannelSaved PROVE Stutters \/ Works(0)
  <2>1. /\ power = "up" /\ fvFlash' = fv /\ power' = power /\ safeMode' = safeMode
        /\ fv.boots = fvFlash.boots
        /\ fv.ok = fv.boots \/ fv.ok = fvFlash.ok
    BY <1>t, <1>5 DEF BootCompleteSaved, SaveChannelSaved, Up, CountersAgree
  <2>2. Mode' = Mode /\ Mode # "off"
    BY <2>1 DEF Mode
  <2>3. F' = 0 \/ F' = F
    BY <1>n, <2>1 DEF Failures
  <2> QED BY <2>2, <2>3
<1>6. ASSUME SaveChannel PROVE Stutters
  BY <1>6 DEF SaveChannel, Mode, Failures
<1>7. ASSUME SafeModeCounts PROVE Works(1)
  <2>1. fvFlash'.boots = 1 /\ fvFlash'.ok = 0
    BY <1>7, CountedAnew DEF SafeModeCounts
  <2>2. F' = 1
    BY <2>1 DEF Failures
  <2> QED BY <1>7, <2>2 DEF SafeModeCounts, Up, Mode
<1>8. ASSUME BootStops PROVE Stutters \/ Ends
  BY <1>8 DEF BootStops, Mode, Failures
<1>9. ASSUME NEW p \in {"storing", "up"}, PowerIs(p), power \in {"loading", "storing"} PROVE Stutters
  BY <1>9 DEF PowerIs, Mode, Failures
<1> QED
  BY <1>p, <1>1, <1>2, <1>3, <1>4, <1>5, <1>6, <1>7, <1>8, <1>9, BootView DEF BootSteps

\* Safe mode comes after more than Threshold failed boots in a row and never else,
\* over every sequence of crashes, resets and losses of power that the counters
\* have room for (HAL_FlashVars_IncreaseBootCount, Main_Init_Before_Delay).
THEOREM SafeModePromised ==
  ASSUME CounterWide
  PROVE  LifeSpec => SafeModeKept
<1>1. LifeInit => Promise!PromiseInit
  BY DEF LifeInit, BootInit, Blank, Failures, Promise!PromiseInit
<1>2. BootInv /\ BootInv' /\ [LifeNext]_lifeVars => [Promise!PromiseNext]_(Promise!promiseVars)
  BY PromiseStep
<1> QED BY <1>1, <1>2, BootInvAlways, PTL DEF LifeSpec, SafeModeKept, Promise!PromiseSpec

(***************************************************************************)
(* What is kept over a restart                                             *)
(***************************************************************************)
LEMMA LifeTypesAlways == LifeSpec => []LifeTypeOK
<1>1. LifeInit => LifeTypeOK
  BY LifeTypesFirst
<1>2. LifeTypeOK /\ [LifeNext]_lifeVars => LifeTypeOK'
  BY LifeTypes
<1> QED BY <1>1, <1>2, PTL DEF LifeSpec

\* The value in flash is the one last saved, or one on its way there.
LEMMA KeptStep == LifeTypeOK /\ KeptSurvives /\ [LifeNext]_lifeVars => KeptSurvives'
<1> SUFFICES ASSUME LifeTypeOK, KeptSurvives, [LifeNext]_lifeVars PROVE KeptSurvives'
  OBVIOUS
<1>t. BootTypeOK
  BY DEF LifeTypeOK
<1>1. CASE UNCHANGED bootVars
  BY <1>1 DEF bootVars, KeptSurvives
<1>2. CASE PowerOn
  <2>1. fv'.kept = fvFlash.kept
    BY <1>t, <1>2 DEF PowerOn, Increased, BootTypeOK, FlashVars
  <2> QED BY <1>2, <2>1 DEF PowerOn, KeptSurvives
<1>3. CASE BootCounted \/ BootCompleteSaved
  BY <1>3 DEF BootCounted, BootCompleteSaved, Up, KeptSurvives
<1>4. CASE BootComplete
  BY <1>t, <1>4 DEF BootComplete, Up, KeptSurvives, BootTypeOK, FlashVars
<1>5. CASE SaveChannel
  BY <1>t, <1>5 DEF SaveChannel, Up, KeptSurvives, BootTypeOK, FlashVars
<1>6. CASE SaveChannelSaved
  BY <1>6 DEF SaveChannelSaved, KeptSurvives
<1>7. CASE SafeModeCounts
  BY <1>7 DEF SafeModeCounts, KeptSurvives
<1>8. CASE BootStops
  BY <1>8 DEF BootStops, KeptSurvives
<1>9. CASE \E p \in {"storing", "up"} : PowerIs(p) /\ power \in {"loading", "storing"}
  BY <1>9 DEF PowerIs, KeptSurvives
<1> QED
  BY <1>1, <1>2, <1>3, <1>4, <1>5, <1>6, <1>7, <1>8, <1>9, BootView DEF BootSteps

\* The parts of SaveInv that are not types.
SaveParts ==
  /\ OneSaves /\ LastSecond /\ SectorNeverMixed
  /\ power \in {"storing", "up"} => NothingForgotten

\* One step of a save, by a thread that may take it now.
LEMMA SaveAdvances ==
  ASSUME ~Preempt, SaveInv, NEW t \in Threads, Save(t),
         power \in {"storing", "up"}, power' = power,
         \/ reset' = reset /\ reset \in {"no", "scheduled"}
         \/ t = Main /\ reset = "last" /\ reset' = IF saver'[Main] = "idle" THEN "saved" ELSE reset
  PROVE  SaveParts'
<1>t. /\ OneSaves /\ LastSecond /\ SectorNeverMixed /\ NothingForgotten /\ Main \in Threads
      /\ saver \in [Threads -> {"idle", "summed", "erased", "written"}]
  BY DEF SaveInv, LifeTypeOK, ConfigTypeOK
<1>r. /\ reset' # "no" => power' = "up"
      /\ reset' # "saved" \/ saver'[Main] = "idle"
      /\ reset' \in {"last", "saved"} => t = Main
  BY <1>t DEF LastSecond
<1>1. ASSUME NEW from \in {"idle", "summed", "erased", "written"},
             NEW to \in {"idle", "summed", "erased", "written"}, At(t, from, to),
             from = "idle" => Saving \subseteq {t}
      PROVE  /\ \A u \in Threads \ {t} : saver[u] = "idle" /\ saver'[u] = "idle"
             /\ saver[t] = from /\ saver'[t] = to
             /\ Saving' = IF to = "idle" THEN {} ELSE {t}
  <2>1. saver[t] = from /\ saver'[t] = to /\ \A u \in Threads \ {t} : saver'[u] = saver[u]
    BY <1>t, <1>1 DEF At
  <2>2. \A u \in Threads \ {t} : saver[u] = "idle"
    BY <1>t, <1>1, <2>1 DEF OneSaves, Saving
  <2> QED BY <2>1, <2>2 DEF Saving
<1>2. CASE SaveBegins(t)
  <2>0. Saving \subseteq {t} /\ At(t, "idle", "summed")
    BY <1>2 DEF SaveBegins, MayRun
  <2>1. /\ \A u \in Threads \ {t} : saver'[u] = "idle"
        /\ saver'[t] = "summed" /\ Saving' = {t}
    BY <1>1, <2>0
  <2>2. pending' /\ crc' = cfg' /\ sector' = sector
    BY <1>2 DEF SaveBegins, SumTaken
  <2> QED BY <1>t, <1>r, <2>1, <2>2
    DEF SaveParts, OneSaves, LastSecond, SectorNeverMixed, NothingForgotten, Valid
<1>3. CASE SaveErases(t)
  <2>0. At(t, "summed", "erased")
    BY <1>3 DEF SaveErases
  <2>1. /\ \A u \in Threads \ {t} : saver'[u] = "idle"
        /\ saver[t] = "summed" /\ saver'[t] = "erased" /\ Saving' = {t}
    BY <1>1, <2>0
  <2>2. pending' /\ crc' = cfg' /\ sector' = Erased
    BY <1>3, <1>t, <2>1 DEF SaveErases, OneSaves
  <2> QED BY <1>t, <1>r, <2>1, <2>2
    DEF SaveParts, OneSaves, LastSecond, SectorNeverMixed, NothingForgotten
<1>4. CASE SaveWrites(t)
  <2>0. At(t, "erased", "written")
    BY <1>4 DEF SaveWrites
  <2>1. /\ \A u \in Threads \ {t} : saver'[u] = "idle"
        /\ saver[t] = "erased" /\ saver'[t] = "written" /\ Saving' = {t}
    BY <1>1, <2>0
  <2>2. pending' /\ crc' = cfg' /\ sector' = Holding(cfg', cfg')
    BY <1>4, <1>t, <2>1 DEF SaveWrites, OneSaves
  <2> QED BY <1>t, <1>r, <2>1, <2>2
    DEF SaveParts, OneSaves, LastSecond, SectorNeverMixed, NothingForgotten, Valid, Holding
<1>5. CASE SaveEnds(t)
  <2>0. At(t, "written", "idle")
    BY <1>5 DEF SaveEnds
  <2>1. /\ \A u \in Threads : saver'[u] = "idle"
        /\ saver[t] = "written" /\ Saving' = {}
    BY <1>1, <2>0
  <2>2. sector' = Holding(cfg', cfg')
    BY <1>5, <1>t, <2>1 DEF SaveEnds, OneSaves
  <2> QED BY <1>t, <1>r, <2>1, <2>2
    DEF SaveParts, OneSaves, LastSecond, SectorNeverMixed, NothingForgotten, Valid, Holding
<1> QED BY <1>2, <1>3, <1>4, <1>5 DEF Save

LEMMA SaveStep == ~Preempt /\ SaveInv /\ [LifeNext]_lifeVars => SaveInv'
<1> SUFFICES ASSUME ~Preempt, SaveInv, [LifeNext]_lifeVars PROVE SaveParts'
  BY LifeTypes DEF SaveInv, SaveParts
<1>t. /\ OneSaves /\ LastSecond /\ SectorNeverMixed /\ (power \in {"storing", "up"} => NothingForgotten)
      /\ Main \in Threads /\ saver \in [Threads -> {"idle", "summed", "erased", "written"}]
      /\ ConfigTypeOK /\ reset \in {"no", "scheduled", "last", "saved"}
  BY DEF SaveInv, LifeTypeOK, ConfigTypeOK
<1>1. ASSUME UNCHANGED configVars, power' \in {"storing", "up"} <=> power \in {"storing", "up"},
             power = "up" => power' = "up",
             reset' = reset \/ (reset' = "scheduled" /\ power = "up")
      PROVE  SaveParts'
  <2>1. Saving' = Saving
    BY <1>1 DEF Saving, configVars
  <2> QED BY <1>t, <1>1, <2>1
    DEF SaveParts, OneSaves, LastSecond, SectorNeverMixed, NothingForgotten, configVars, Valid
<1>2. CASE UNCHANGED lifeVars
  BY <1>1, <1>2 DEF lifeVars, lifeOnly, bootVars
<1>3. CASE Starting \/ Marking \/ Keeping
  BY <1>1, <1>3 DEF Starting, Marking, Keeping, BootStep, lifeOnly, PowerOn, BootCounted, BootComplete,
    BootCompleteSaved, SaveChannel, SaveChannelSaved
<1>4. CASE Start \/ ScheduleReset \/ SafeModeCommand
  BY <1>1, <1>4 DEF Start, PowerIs, ScheduleReset, SafeModeCommand, SafeModeCounts, bootVars, Up
<1>5. CASE Load
  <2>1. /\ power = "loading" /\ power' = "storing" /\ InitAndLoad /\ reset' = reset
    BY <1>5 DEF Load, PowerIs, lifeOnly
  <2>2. reset' = "no" /\ Saving = {} /\ saver' = saver /\ sector' = sector
    BY <1>t, <2>1 DEF LastSecond, OneSaves, Saving, InitAndLoad
  <2>3. \A t \in Threads : saver'[t] = "idle"
    BY <1>t, <2>2 DEF Saving
  <2>4. pending' \/ sector' = Holding(cfg', cfg')
    BY <1>t, <2>1, ValidSector DEF InitAndLoad, LoadChecked
  <2> QED BY <1>t, <2>1, <2>2, <2>3, <2>4
    DEF SaveParts, OneSaves, LastSecond, SectorNeverMixed, NothingForgotten, Valid
<1>6. CASE Store
  <2>1. /\ power = "storing" /\ Save(Main) /\ power' = power /\ reset' = reset
    BY <1>6 DEF Store, bootVars, lifeOnly
  <2> QED BY <1>t, <2>1, SaveAdvances DEF LastSecond
<1>7. ASSUME NEW t \in Threads, Changes(t) PROVE SaveParts'
  <2>1. /\ SetConfig(t) /\ Saving \subseteq {t} /\ saver[t] = "idle"
        /\ reset \in {"no", "scheduled"} /\ reset' = reset /\ power = "up" /\ power' = "up"
    BY <1>t, <1>7 DEF Changes, Calm, MainFree, Up, SetConfig, MayRun, bootVars, lifeOnly
  <2>2. Saving = {} /\ saver' = saver /\ pending' /\ sector' = sector
    BY <1>t, <2>1 DEF Saving, SetConfig
  <2>3. \A u \in Threads : saver'[u] = "idle"
    BY <1>t, <2>2 DEF Saving
  <2> QED BY <1>t, <2>1, <2>2, <2>3
    DEF SaveParts, OneSaves, LastSecond, SectorNeverMixed, NothingForgotten, Valid
<1>8. ASSUME NEW t \in Threads, Saves(t) PROVE SaveParts'
  <2>1. /\ Save(t) /\ reset \in {"no", "scheduled"} /\ reset' = reset /\ power = "up" /\ power' = power
    BY <1>t, <1>8 DEF Saves, Calm, MainFree, Up, bootVars, lifeOnly
  <2> QED BY <2>1, SaveAdvances
<1>9. CASE ResetDue
  <2>1. /\ Saving = {} /\ power = "up" /\ power' = "up" /\ reset' = "last" /\ UNCHANGED configVars
    BY <1>t, <1>9 DEF ResetDue, MayRun, Saving, Up, bootVars
  <2>2. Saving' = {}
    BY <2>1 DEF Saving, configVars
  <2> QED BY <1>t, <2>1, <2>2
    DEF SaveParts, OneSaves, LastSecond, SectorNeverMixed, NothingForgotten, configVars, Valid
<1>10. CASE LastSave
  <2>1. power = "up" /\ power' = power /\ reset = "last"
    BY <1>10 DEF LastSave, Up, bootVars
  <2>2. CASE Save(Main) /\ reset' = IF saver'[Main] = "idle" THEN "saved" ELSE reset
    BY <1>t, <2>1, <2>2, SaveAdvances
  <2>3. CASE LastSaveDone /\ reset' = "saved"
    <3>1. Saving = {} /\ ~pending /\ UNCHANGED configVars
      BY <1>t, <2>1, <2>3 DEF LastSaveDone, LastSecond, Saving
    <3>2. Saving' = {} /\ sector = Holding(cfg, cfg)
      BY <1>t, <2>1, <3>1 DEF Saving, configVars, NothingForgotten
    <3> QED BY <1>t, <2>1, <2>3, <3>1, <3>2
      DEF SaveParts, OneSaves, LastSecond, SectorNeverMixed, NothingForgotten, configVars, Valid
  <2> QED BY <1>10, <2>2, <2>3 DEF LastSave
<1>11. CASE Reboot \/ Crash \/ PowerCut
  <2>1. /\ power' = "off" /\ reset' = "no" /\ sector' = sector
        /\ \A t \in Threads : saver'[t] = "idle"
    BY <1>11 DEF Reboot, Crash, PowerCut, Stopped, BootStops, ConfigLost
  <2> QED BY <1>t, <2>1 DEF SaveParts, OneSaves, LastSecond, SectorNeverMixed, Valid
<1> QED
  BY <1>2, <1>3, <1>4, <1>5, <1>6, <1>7, <1>8, <1>9, <1>10, <1>11 DEF LifeNext

LEMMA SaveInvAlways ==
  ASSUME ~Preempt
  PROVE  LifeSpec => []SaveInv
<1>1. LifeInit => SaveInv
  <2> SUFFICES ASSUME LifeInit PROVE SaveInv
    OBVIOUS
  <2>1. LifeTypeOK
    BY LifeTypesFirst
  <2>2. \A t \in Threads : saver[t] = "idle"
    BY DEF LifeInit, ConfigInit
  <2> QED BY <2>1, <2>2 DEF LifeInit, BootInit, ConfigInit, SaveInv, OneSaves, LastSecond, SectorNeverMixed
<1>2. SaveInv /\ [LifeNext]_lifeVars => SaveInv'
  BY SaveStep
<1> QED BY <1>1, <1>2, PTL DEF LifeSpec

\* The variables of a device keep their types over every restart.
THEOREM LifeTyped == LifeSpec => []LifeTypeOK
BY LifeTypesAlways

\* Nothing that was kept is lost by any restart, as long as one thread runs at a
\* time: the value that HAL_FlashVars_SaveChannel stored is in flash, and so is the
\* configuration that CFG_Save_IfThereArePendingChanges has no save pending for.
THEOREM NothingIsLost ==
  ASSUME ~Preempt
  PROVE  LifeSpec => []NothingLost
<1>1. LifeInit => KeptSurvives
  BY DEF LifeInit, BootInit, Blank, KeptSurvives
<1>2. LifeTypeOK /\ KeptSurvives /\ [LifeNext]_lifeVars => KeptSurvives'
  BY KeptStep
<1>3. KeptSurvives /\ SaveInv => NothingLost
  BY DEF SaveInv, NothingLost, ConfigKept, Up
<1>4. LifeSpec => []SaveInv
  BY SaveInvAlways
<1> QED BY <1>1, <1>2, <1>3, <1>4, LifeTypesAlways, PTL DEF LifeSpec

\* A reset that was scheduled takes along what was changed before it: when the
\* module reboots the sector holds the configuration of that moment, whoever was
\* saving it (Main_OnEverySecond, "ensure any config changes are saved").
THEOREM ResetTakesAlong ==
  ASSUME ~Preempt
  PROVE  LifeSpec => ResetKeepsConfig
<1>1. SaveInv /\ [LifeNext]_lifeVars => [Reboot => sector = Holding(cfg, cfg)]_lifeVars
  BY DEF SaveInv, LastSecond, Reboot
<1>2. LifeSpec => []SaveInv
  BY SaveInvAlways
<1> QED BY <1>1, <1>2, PTL DEF LifeSpec, ResetKeepsConfig

(***************************************************************************)
(* The next attempt at a network                                           *)
(***************************************************************************)
USE WifiAssumption DEF WifiAssumption

\* Only an access point, or a station that is or was in a network, has a connection:
\* the countdown to the next attempt never ends without one while it is held up.
Connected == hasWifi => apMode \/ station \in {"up", "dead"}

WifiInv == WifiTypeOK /\ Connected /\ NeverStranded

LEMMA SpendTypes ==
  ASSUME WifiTypeOK, NEW what \in {"changes", "deaths", "opens", "guests", "lates"}, Spend(what)
  PROVE  /\ left'.changes \in 0..MaxLinkChanges /\ left'.deaths \in 0..MaxDeaths
         /\ left'.opens \in 0..MaxOpens /\ left'.guests \in 0..MaxGuests /\ left'.lates \in 0..MaxLates
BY DEF WifiTypeOK, Spend

LEMMA WifiStep == WifiInv /\ [WifiNext]_wifiVars => WifiInv'
<1> SUFFICES ASSUME WifiInv, [WifiNext]_wifiVars PROVE WifiTypeOK' /\ Connected' /\ NeverStranded'
  BY DEF WifiInv
<1>t. WifiTypeOK /\ Connected /\ NeverStranded
  BY DEF WifiInv
<1>c. /\ Again \in 0..Patience /\ Again > 0 /\ Patience \in 0..Patience /\ Patience > 0
      /\ 0 \in 0..Tries /\ -1 \in -1..Unanswered
  OBVIOUS
<1>1. CASE UNCHANGED wifiVars
  BY <1>t, <1>1 DEF wifiVars, wifiTimers, WifiTypeOK, Connected, NeverStranded
<1>2. CASE SecondPing
  <2>1. CASE sincePing = -1
    BY <1>t, <1>2, <2>1 DEF SecondPing, WifiTypeOK, Connected, NeverStranded
  <2>2. CASE sincePing # -1 /\ TooLong(sincePing + 1) /\ hasWifi
    <3>1. connectIn' = Again /\ sincePing' = -1 /\ ~hasWifi' /\ station' = "stopping"
      BY <1>2, <2>2 DEF SecondPing
    <3>2. WifiTypeOK'
      BY <1>t, <1>c, <1>2, <3>1 DEF SecondPing, WifiTypeOK
    <3> QED BY <3>1, <3>2 DEF Connected, NeverStranded
  <2>3. CASE sincePing # -1 /\ ~(TooLong(sincePing + 1) /\ hasWifi)
    <3>1. sincePing' \in -1..Unanswered
      BY <1>t, <1>2, <2>3 DEF SecondPing, TooLong, WifiTypeOK
    <3> QED BY <1>t, <1>2, <2>3, <3>1 DEF SecondPing, WifiTypeOK, Connected, NeverStranded
  <2> QED BY <2>1, <2>2, <2>3
<1>3. CASE SecondAP
  <2>1. openAP' \in 0..OpenDelay /\ watchIn' \in 0..WatchAfter
    BY <1>t, <1>3 DEF SecondAP, Less, WifiTypeOK
  <2>2. WifiTypeOK'
    BY <1>t, <1>3, <2>1 DEF SecondAP, WifiTypeOK
  <2>3. ASSUME station' = "down", ~apMode', openAP' = 0 PROVE connectIn' > 0
    <3>1. ~apMode /\ openAP # 1 /\ connectIn' = connectIn /\ openAP' = Less(openAP)
      BY <1>3, <2>3, Zenon DEF SecondAP
    <3>2. openAP = 0
      BY <1>t, <2>3, <3>1 DEF Less, WifiTypeOK
    <3>3. station = "down"
      BY <1>3, <2>3, <3>2 DEF SecondAP
    <3> QED BY <1>t, <3>1, <3>2, <3>3 DEF NeverStranded
  <2>4. NeverStranded'
    BY <2>3 DEF NeverStranded
  <2>5. Connected'
    BY <1>t, <1>3 DEF SecondAP, WifiTypeOK, Connected
  <2> QED BY <2>2, <2>4, <2>5
<1>4. CASE SecondConnect
  <2>1. connectIn' \in 0..Patience /\ (connectIn > 1 => connectIn' > 0)
    BY <1>t, <1>4 DEF SecondConnect, Less, WifiTypeOK
  <2>2. CASE connectIn = 1 /\ ~hasWifi
    <3>1. ssid' \in Networks /\ tried' \in 0..Tries
      BY <1>t, <1>4, <2>2 DEF SecondConnect, ConnectToWiFiNow, SwitchSSID, WifiTypeOK
    <3> QED BY <1>t, <1>4, <2>1, <2>2, <3>1
      DEF SecondConnect, ConnectToWiFiNow, WifiTypeOK, Connected, NeverStranded
  <2>3. CASE ~(connectIn = 1 /\ ~hasWifi)
    BY <1>t, <1>4, <2>1, <2>3 DEF SecondConnect, WifiTypeOK, Connected, NeverStranded
  <2> QED BY <2>2, <2>3
<1>5. CASE StaConnecting \/ StaConnected
  <2>1. CASE StaConnecting
    BY <1>t, <1>c, <1>5, <2>1 DEF StaConnecting, WifiTypeOK, Connected, NeverStranded
  <2>2. CASE StaConnected
    <3>1. WifiTypeOK'
      BY <1>t, <1>c, <2>2 DEF StaConnected, wifiTimers, WifiTypeOK
    <3> QED BY <2>2, <3>1 DEF StaConnected, Connected, NeverStranded
  <2> QED BY <1>5, <2>1, <2>2
<1>6. CASE StaAuthFailed \/ StaDisconnected \/ StaStopped
  <2>1. connectIn' = Again /\ Again \in 1..Patience /\ ~hasWifi' /\ sincePing' \in {sincePing, -1}
        /\ station' = "down"
    BY <1>c, <1>6 DEF StaAuthFailed, StaDisconnected, StaStopped, PlansNext
  <2>2. WifiTypeOK'
    BY <1>t, <1>c, <1>6, <2>1 DEF StaAuthFailed, StaDisconnected, StaStopped, WifiTypeOK
  <2> QED BY <2>1, <2>2 DEF Connected, NeverStranded
<1>7. CASE ApConnected \/ ApFailed
  <2>1. hasWifi' \in BOOLEAN /\ apMode /\ apMode' /\ UNCHANGED <<station, ssid, tried, inReach, second, wifiTimers>>
    BY <1>t, <1>7 DEF ApConnected, ApFailed, WifiTypeOK
  <2>2. /\ left'.changes \in 0..MaxLinkChanges /\ left'.deaths \in 0..MaxDeaths
        /\ left'.opens \in 0..MaxOpens /\ left'.guests \in 0..MaxGuests /\ left'.lates \in 0..MaxLates
    BY <1>t, <1>7, SpendTypes DEF ApConnected, ApFailed, WifiTypeOK
  <2> QED BY <1>t, <2>1, <2>2 DEF wifiTimers, WifiTypeOK, Connected, NeverStranded
<1>8. CASE PingReply
  <2>1. /\ left'.changes \in 0..MaxLinkChanges /\ left'.deaths \in 0..MaxDeaths
        /\ left'.opens \in 0..MaxOpens /\ left'.guests \in 0..MaxGuests /\ left'.lates \in 0..MaxLates
    BY <1>t, <1>8, SpendTypes DEF PingReply, WifiTypeOK
  <2>2. /\ sincePing' = 0
        /\ UNCHANGED <<second, hasWifi, connectIn, openAP, apMode, watchIn, ssid, tried, station, inReach, guests>>
    BY <1>8 DEF PingReply
  <2> QED BY <1>t, <2>1, <2>2 DEF WifiTypeOK, Connected, NeverStranded
<1>9. CASE Dies \/ NetworksChange \/ OpenAP
  <2>1. /\ left'.changes \in 0..MaxLinkChanges /\ left'.deaths \in 0..MaxDeaths
        /\ left'.opens \in 0..MaxOpens /\ left'.guests \in 0..MaxGuests /\ left'.lates \in 0..MaxLates
    BY <1>t, <1>9, SpendTypes DEF Dies, NetworksChange, OpenAP
  <2>2. CASE Dies \/ NetworksChange
    <3>1. /\ station' = station \/ (station = "up" /\ station' = "dead")
          /\ inReach' \subseteq Networks
          /\ UNCHANGED <<second, hasWifi, connectIn, openAP, apMode, watchIn, sincePing, ssid, tried>>
      BY <1>t, <2>2 DEF Dies, NetworksChange, wifiTimers, WifiTypeOK
    <3>2. WifiTypeOK'
      BY <1>t, <2>1, <3>1 DEF WifiTypeOK
    <3> QED BY <1>t, <3>1, <3>2 DEF Connected, NeverStranded
  <2>3. CASE OpenAP
    BY <1>t, <2>1, <2>3 DEF OpenAP, WifiTypeOK, Connected, NeverStranded
  <2> QED BY <1>9, <2>2, <2>3
<1> QED BY <1>1, <1>2, <1>3, <1>4, <1>5, <1>6, <1>7, <1>8, <1>9 DEF WifiNext, Second

\* A device in no network always has its next attempt planned, or its access point
\* open: whatever the events of the driver find the countdowns of
\* Main_OnEverySecond at, no order of them strands it.
THEOREM NeverIsStranded == WifiSpec => []NeverStranded
<1>1. WifiInit => WifiInv
  <2> SUFFICES ASSUME WifiInit PROVE WifiInv
    OBVIOUS
  <2>1. /\ left.changes \in 0..MaxLinkChanges /\ left.deaths \in 0..MaxDeaths
        /\ left.opens \in 0..MaxOpens /\ left.guests \in 0..MaxGuests /\ left.lates \in 0..MaxLates
    BY DEF WifiInit
  <2>2. 1 \in Networks /\ -1 \in -1..Unanswered /\ 0 \in 0..Tries /\ Again \in 0..Patience
    OBVIOUS
  <2>3. WifiTypeOK
    <3>1. /\ second = "ping" /\ hasWifi = FALSE /\ apMode = FALSE /\ station = "down" /\ inReach \subseteq Networks
          /\ connectIn = Again /\ openAP = 0 /\ watchIn = WatchAfter /\ sincePing = -1 /\ ssid = 1 /\ tried = 0
      BY DEF WifiInit
    <3>2. 0 \in 0..OpenDelay /\ WatchAfter \in 0..WatchAfter
      OBVIOUS
    <3> QED BY <2>1, <2>2, <3>1, <3>2 DEF WifiTypeOK
  <2> QED BY <2>3 DEF WifiInit, WifiInv, Connected, NeverStranded
<1>2. WifiInv /\ [WifiNext]_wifiVars => WifiInv'
  BY WifiStep
<1>3. WifiInv => NeverStranded
  BY DEF WifiInv
<1> QED BY <1>1, <1>2, <1>3, PTL DEF WifiSpec

(***************************************************************************)
(* Device groups                                                           *)
(***************************************************************************)
HIDE WifiAssumption DEF WifiAssumption
USE GroupAssumption DEF GroupAssumption

\* A packet of the first n changes, which member o has made.
Made(p, o, n) == p \in Packets /\ p.from = o /\ p.made \in 1 .. n
FreeOrMade(p, o, n) == p = Free \/ Made(p, o, n)

MembersTyped ==
  /\ relay \in [Members -> {0, 1}] /\ sendSeq \in [Members -> 0..(SeqMod - 1)]
  /\ mutexKept \in [Members -> BOOLEAN] /\ sockets \in [Members -> BOOLEAN]
  /\ ticking \in [Members -> BOOLEAN] /\ changes \in 0..MaxChanges /\ excused \in BOOLEAN
  /\ slots \in [Members -> Seq(Packets)] /\ parsed \in [Members -> Packets]
  /\ air \in [Members -> Seq(Packets)]
  /\ DOMAIN formatted = Members /\ DOMAIN last = Members /\ DOMAIN taken = Members

\* Whose the packets are, wherever they are; a number that was taken is remembered.
SentTyped(m) ==
  /\ formatted[m] \in [Senders[m] -> Packets]
  /\ \A t \in Senders[m] : FreeOrMade(formatted[m][t], m, changes)
  /\ Len(slots[m]) <= QueueSize
  /\ \A i \in DOMAIN slots[m] : FreeOrMade(slots[m][i], m, changes)
TakenTyped(m) ==
  /\ \A i \in DOMAIN air[m] : air[m][i].from \in Others(m) /\ Made(air[m][i], air[m][i].from, changes)
  /\ Processing(m) => ticking[m] /\ parsed[m].from \in Others(m) /\ Made(parsed[m], parsed[m].from, changes)
  /\ DOMAIN last[m] \subseteq Others(m)
  /\ last[m] \in [DOMAIN last[m] -> 0..(SeqMod - 1)]
  /\ taken[m] \in [Others(m) -> Packets]
  /\ \A o \in Others(m) :
       /\ FreeOrMade(taken[m][o], o, changes)
       /\ taken[m][o] # Free => LastOf(m, o) = taken[m][o].seq
GroupTyped == MembersTyped /\ \A m \in Members : SentTyped(m) /\ TakenTyped(m)

LEMMA FreeIsNone ==
  /\ Free.made = 0 /\ Free \in Packets
  /\ \A p, o, n : Made(p, o, n) => p # Free
  /\ \A p, o, n : FreeOrMade(p, o, n) => p \in Packets
<1>1. Free.made = 0 /\ Free \in Packets
  BY DEF Free, Packets
<1> QED BY <1>1 DEF Made, FreeOrMade, Packets

LEMMA MadeStays ==
  ASSUME changes \in Nat, changes' \in Nat, changes <= changes'
  PROVE  \A p, o : /\ Made(p, o, changes) => Made(p, o, changes')
                   /\ FreeOrMade(p, o, changes) => FreeOrMade(p, o, changes')
BY DEF Made, FreeOrMade

\* What a step leaves alone at member n.
LEMMA SentStays ==
  ASSUME NEW n \in Members, SentTyped(n), changes \in Nat, changes' \in Nat, changes <= changes',
         formatted'[n] = formatted[n], slots'[n] = slots[n]
  PROVE  SentTyped(n)'
BY MadeStays DEF SentTyped

LEMMA TakenStays ==
  ASSUME NEW n \in Members, TakenTyped(n), changes \in Nat, changes' \in Nat, changes <= changes',
         air'[n] = air[n], parsed'[n] = parsed[n], last'[n] = last[n], taken'[n] = taken[n],
         ticking[n] => ticking'[n] \/ parsed[n] = Free
  PROVE  TakenTyped(n)'
BY MadeStays, FreeIsNone DEF TakenTyped, Processing, LastOf

\* Flushing a list sends every packet in it and no other.
UsedOf(u, s, n) ==
  /\ u \in Seq(Packets)
  /\ \A i \in DOMAIN u : u[i] # Free /\ \E j \in 1 .. n : u[i] = s[j]
  /\ \A j \in 1 .. n : s[j] # Free => \E i \in DOMAIN u : u[i] = s[j]

LEMMA OneToMcuUsed ==
  ASSUME NEW s \in Seq(Packets), NEW n \in 1 .. Len(s), NEW u, UsedOf(u, s, n - 1)
  PROVE  UsedOf(IF s[n] = Free THEN u ELSE Append(u, s[n]), s, n)
<1>1. s[n] \in Packets /\ n - 1 \in Nat /\ \A j \in 1 .. n : j = n \/ j \in 1 .. (n - 1)
  OBVIOUS
<1>2. CASE s[n] = Free
  BY <1>1, <1>2 DEF UsedOf
<1>3. CASE s[n] # Free
  <2> DEFINE v == Append(u, s[n])
  <2>1. /\ v \in Seq(Packets) /\ Len(v) = Len(u) + 1 /\ v[Len(u) + 1] = s[n]
        /\ \A i \in 1 .. Len(u) : v[i] = u[i]
    BY <1>1, AppendProperties DEF UsedOf
  <2>2. Len(u) \in Nat /\ DOMAIN u = 1 .. Len(u) /\ DOMAIN v = 1 .. (Len(u) + 1)
    BY <2>1 DEF UsedOf
  <2> HIDE DEF v
  <2>3. ASSUME NEW i \in DOMAIN v PROVE v[i] # Free /\ \E j \in 1 .. n : v[i] = s[j]
    <3>1. CASE i = Len(u) + 1
      BY <1>3, <2>1, <3>1
    <3>2. CASE i \in DOMAIN u
      <4>1. v[i] = u[i] /\ u[i] # Free /\ \E j \in 1 .. (n - 1) : u[i] = s[j]
        BY <2>1, <2>2, <3>2 DEF UsedOf
      <4> QED BY <1>1, <4>1
    <3> QED BY <2>2, <3>1, <3>2
  <2>4. ASSUME NEW j \in 1 .. n, s[j] # Free PROVE \E i \in DOMAIN v : v[i] = s[j]
    <3>1. CASE j = n
      BY <2>1, <2>2, <3>1
    <3>2. CASE j \in 1 .. (n - 1)
      <4>1. \E i \in DOMAIN u : u[i] = s[j]
        BY <2>4, <3>2 DEF UsedOf
      <4> QED BY <2>1, <2>2, <4>1
    <3> QED BY <1>1, <3>1, <3>2
  <2> QED BY <1>3, <2>1, <2>3, <2>4 DEF UsedOf, v
<1> QED BY <1>2, <1>3

LEMMA UsedIs ==
  ASSUME NEW s \in Seq(Packets)
  PROVE  UsedOf(Used(s), s, Len(s))
<1> DEFINE Goes(u, i) == IF s[i] = Free THEN u ELSE Append(u, s[i])
           IsWalk(f, k) == f = [i \in 0 .. k |-> IF i = 0 THEN <<>> ELSE Goes(f[i - 1], i)]
           S == {k \in Nat : \E f : IsWalk(f, k)}
           K == Len(s)
<1>0. K \in Nat
  OBVIOUS
<1>1. Used(s) = (CHOOSE f : IsWalk(f, K))[K]
  BY DEF Used
<1> HIDE DEF Goes
<1>2. 0 \in S
  <2> DEFINE f == [i \in 0 .. 0 |-> <<>>]
  <2>1. IsWalk(f, 0)
    OBVIOUS
  <2> QED BY <2>1
<1>3. ASSUME NEW k \in Nat, k \in S PROVE k + 1 \in S
  <2>1. PICK f : IsWalk(f, k)
    BY <1>3
  <2> DEFINE h == [i \in 0 .. (k + 1) |-> IF i = 0 THEN <<>> ELSE Goes(f[i - 1], i)]
  <2>2. ASSUME NEW i \in 0 .. (k + 1), i # 0 PROVE h[i - 1] = f[i - 1]
    <3>1. i - 1 \in 0 .. k /\ i - 1 \in 0 .. (k + 1)
      BY <2>2
    <3>2. f[i - 1] = IF i - 1 = 0 THEN <<>> ELSE Goes(f[(i - 1) - 1], i - 1)
      BY <2>1, <3>1
    <3>3. h[i - 1] = IF i - 1 = 0 THEN <<>> ELSE Goes(f[(i - 1) - 1], i - 1)
      BY <3>1
    <3> QED BY <3>2, <3>3
  <2>3. h = [i \in 0 .. (k + 1) |-> IF i = 0 THEN <<>> ELSE Goes(h[i - 1], i)]
    <3> DEFINE g == [i \in 0 .. (k + 1) |-> IF i = 0 THEN <<>> ELSE Goes(h[i - 1], i)]
    <3>1. ASSUME NEW i \in 0 .. (k + 1) PROVE h[i] = g[i]
      BY <2>2, <3>1
    <3> QED BY <3>1
  <2>4. IsWalk(h, k + 1)
    BY <2>3
  <2> HIDE DEF h
  <2> QED BY <2>4
<1>4. K \in S
  <2> HIDE DEF S, K
  <2> QED BY <1>0, <1>2, <1>3, CountedUpTo
<1>5. \E f : IsWalk(f, K)
  BY <1>4
<1> DEFINE walk == CHOOSE f : IsWalk(f, K)
<1>6. IsWalk(walk, K)
  <2> HIDE DEF IsWalk
  <2> QED BY <1>5, Zenon
<1> HIDE DEF walk
<1>7. \A i \in 0 .. K : walk[i] = IF i = 0 THEN <<>> ELSE Goes(walk[i - 1], i)
  <2> HIDE DEF K
  <2> DEFINE r == [i \in 0 .. K |-> IF i = 0 THEN <<>> ELSE Goes(walk[i - 1], i)]
  <2>1. walk = r
    BY <1>6
  <2>2. \A i \in 0 .. K : r[i] = IF i = 0 THEN <<>> ELSE Goes(walk[i - 1], i)
    OBVIOUS
  <2> HIDE DEF r
  <2> QED BY <2>1, <2>2
<1> DEFINE T == {n \in 0 .. K : UsedOf(walk[n], s, n)}
<1>8. 0 \in T
  <2>1. walk[0] = <<>> /\ 0 \in 0 .. K
    BY <1>0, <1>7
  <2>2. <<>> \in Seq(Packets) /\ DOMAIN <<>> = {} /\ 1 .. 0 = {}
    OBVIOUS
  <2>3. UsedOf(<<>>, s, 0)
    BY <2>2 DEF UsedOf
  <2> QED BY <2>1, <2>3
<1>9. ASSUME NEW n \in 0 .. (K - 1), n \in T PROVE n + 1 \in T
  <2>1. n + 1 \in 1 .. Len(s) /\ (n + 1) - 1 = n /\ n + 1 \in 0 .. K
    BY <1>0
  <2>2. walk[n + 1] = Goes(walk[n], n + 1)
    BY <1>7, <2>1
  <2>3. UsedOf(walk[n], s, n)
    BY <1>9
  <2>4. UsedOf(Goes(walk[n], n + 1), s, n + 1)
    BY <2>1, <2>3, OneToMcuUsed DEF Goes
  <2> QED BY <2>1, <2>2, <2>4
<1>10. K \in T
  <2> HIDE DEF T, K
  <2> QED BY <1>0, <1>8, <1>9, CountedUpTo
<1> QED BY <1>1, <1>10 DEF walk

\* What a member sends in a quick tick are packets of its list.
LEMMA SentIs ==
  ASSUME GroupTyped, NEW m \in Members
  PROVE  /\ Sent(m) \in Seq(Packets)
         /\ \A i \in DOMAIN Sent(m) : Made(Sent(m)[i], m, changes) /\ \E j \in DOMAIN slots[m] : Sent(m)[i] = slots[m][j]
         /\ ~mutexKept[m] => \A j \in DOMAIN slots[m] : slots[m][j] # Free =>
              \E i \in DOMAIN Sent(m) : Sent(m)[i] = slots[m][j]
<1>1. slots[m] \in Seq(Packets) /\ \A j \in DOMAIN slots[m] : FreeOrMade(slots[m][j], m, changes)
  BY DEF GroupTyped, MembersTyped, SentTyped
<1>2. DOMAIN slots[m] = 1 .. Len(slots[m])
  BY <1>1
<1>3. CASE mutexKept[m]
  <2>1. Sent(m) = <<>> /\ <<>> \in Seq(Packets) /\ DOMAIN <<>> = {}
    BY <1>3 DEF Sent
  <2> QED BY <1>3, <2>1
<1>4. CASE ~mutexKept[m]
  <2>1. Sent(m) = Used(slots[m])
    BY <1>4 DEF Sent
  <2>2. UsedOf(Sent(m), slots[m], Len(slots[m]))
    BY <1>1, <2>1, UsedIs
  <2> QED BY <1>1, <1>2, <2>2 DEF UsedOf, FreeOrMade
<1> QED BY <1>3, <1>4

LEMMA JoinedIs ==
  ASSUME NEW T, NEW s \in Seq(T), NEW t \in Seq(T)
  PROVE  /\ s \o t \in Seq(T) /\ Len(s \o t) = Len(s) + Len(t)
         /\ DOMAIN (s \o t) = 1 .. (Len(s) + Len(t))
         /\ \A i \in 1 .. Len(s) : (s \o t)[i] = s[i]
         /\ \A i \in 1 .. Len(t) : (s \o t)[Len(s) + i] = t[i]
         /\ \A i \in DOMAIN (s \o t) : i \in 1 .. Len(s) \/ i - Len(s) \in 1 .. Len(t)
OBVIOUS

LEMMA JoinedFrom ==
  \A s, t \in Seq(Packets) : \A i \in DOMAIN (s \o t) :
    (\E j \in DOMAIN s : (s \o t)[i] = s[j]) \/ (\E j \in DOMAIN t : (s \o t)[i] = t[j])
<1> SUFFICES ASSUME NEW s \in Seq(Packets), NEW t \in Seq(Packets), NEW i \in DOMAIN (s \o t)
             PROVE  (\E j \in DOMAIN s : (s \o t)[i] = s[j]) \/ (\E j \in DOMAIN t : (s \o t)[i] = t[j])
  OBVIOUS
<1> DEFINE u == s \o t
<1>1. /\ \A k \in 1 .. Len(s) : u[k] = s[k]
      /\ \A k \in 1 .. Len(t) : u[Len(s) + k] = t[k]
      /\ i \in 1 .. Len(s) \/ i - Len(s) \in 1 .. Len(t)
  BY JoinedIs
<1>2. Len(s) \in Nat /\ Len(t) \in Nat /\ DOMAIN s = 1 .. Len(s) /\ DOMAIN t = 1 .. Len(t)
  OBVIOUS
<1>3. i \in Nat
  BY JoinedIs, <1>2
<1> HIDE DEF u
<1>4. CASE i \in 1 .. Len(s)
  BY <1>1, <1>2, <1>4 DEF u
<1>5. CASE i - Len(s) \in 1 .. Len(t)
  <2>1. Len(s) + (i - Len(s)) = i
    BY <1>2, <1>3
  <2> QED BY <1>1, <1>2, <1>5, <2>1 DEF u
<1> QED BY <1>1, <1>4, <1>5

LEMMA RestOf ==
  ASSUME NEW T, NEW s \in Seq(T), s # <<>>
  PROVE  /\ Tail(s) \in Seq(T) /\ Head(s) = s[1] /\ 1 \in DOMAIN s
         /\ \A i \in DOMAIN Tail(s) : i + 1 \in DOMAIN s /\ Tail(s)[i] = s[i + 1]
         /\ \A i \in DOMAIN s : i = 1 \/ (i - 1 \in DOMAIN Tail(s) /\ s[i] = Tail(s)[i - 1])
OBVIOUS

\* Queueing adds p to what is in a list, in a new entry if none is free.
PutInto(q, s, p) ==
  /\ q \in Seq(Packets)
  /\ \A i \in DOMAIN q : q[i] = p \/ \E j \in DOMAIN s : q[i] = s[j]
  /\ \E i \in DOMAIN q : q[i] = p
  /\ \A j \in DOMAIN s : s[j] # Free => \E i \in DOMAIN q : q[i] = s[j]
  /\ (\A i \in DOMAIN s : s[i] # Free) => Len(q) = Len(s) + 1
  /\ ~(\A i \in DOMAIN s : s[i] # Free) => Len(q) = Len(s)

LEMMA QueuedIs == \A s \in Seq(Packets), p \in Packets : PutInto(Queued(s, p), s, p)
<1> SUFFICES ASSUME NEW s \in Seq(Packets), NEW p \in Packets PROVE PutInto(Queued(s, p), s, p)
  OBVIOUS
<1> DEFINE free == {i \in DOMAIN s : s[i] = Free}
           first == CHOOSE i \in free : \A j \in free : i <= j
<1>1. CASE free = {}
  <2>1. Queued(s, p) = <<p>> \o s
    BY <1>1 DEF Queued
  <2>2. <<p>> \in Seq(Packets) /\ Len(<<p>>) = 1 /\ <<p>>[1] = p
    OBVIOUS
  <2> DEFINE q == <<p>> \o s
  <2>3. /\ q \in Seq(Packets) /\ Len(q) = 1 + Len(s) /\ DOMAIN q = 1 .. (1 + Len(s)) /\ q[1] = p
        /\ \A i \in 1 .. Len(s) : q[1 + i] = s[i]
    BY <2>2, JoinedIs
  <2>4. Len(s) \in Nat /\ DOMAIN s = 1 .. Len(s)
    OBVIOUS
  <2> HIDE DEF q
  <2>5. ASSUME NEW i \in DOMAIN q PROVE q[i] = p \/ \E j \in DOMAIN s : q[i] = s[j]
    <3>1. i = 1 \/ (i - 1 \in 1 .. Len(s) /\ 1 + (i - 1) = i)
      BY <2>3, <2>4
    <3> QED BY <2>3, <2>4, <3>1
  <2>6. ASSUME NEW j \in DOMAIN s PROVE \E i \in DOMAIN q : q[i] = s[j]
    <3>1. 1 + j \in DOMAIN q /\ q[1 + j] = s[j]
      BY <2>3, <2>4
    <3> QED BY <3>1
  <2>7. 1 \in DOMAIN q /\ Len(q) = Len(s) + 1
    BY <2>3, <2>4
  <2>8. Queued(s, p) = q /\ \A i \in DOMAIN s : s[i] # Free
    BY <1>1, <2>1 DEF q
  <2>9. PutInto(q, s, p)
    BY <2>3, <2>5, <2>6, <2>7, <2>8 DEF PutInto
  <2> QED BY <2>8, <2>9
<1>2. CASE free # {}
  <2>1. first \in free
    <3>1. free \subseteq Nat
      OBVIOUS
    <3>2. \E i \in free : \A j \in free : i <= j
      <4> HIDE DEF free
      <4> QED BY <1>2, <3>1, LeastOfNumbers
    <3> HIDE DEF free
    <3> QED BY <3>2
  <2>2. Queued(s, p) = [s EXCEPT ![first] = p]
    BY <1>2 DEF Queued
  <2> HIDE DEF first
  <2> DEFINE q == [s EXCEPT ![first] = p]
  <2>3. q \in Seq(Packets) /\ Len(q) = Len(s) /\ DOMAIN q = DOMAIN s /\ q[first] = p
    BY <2>1
  <2>4. \A i \in DOMAIN s : i # first => q[i] = s[i]
    BY <2>1
  <2>5. s[first] = Free /\ first \in DOMAIN s
    BY <2>1
  <2>6. Queued(s, p) = q
    BY <2>2
  <2> HIDE DEF q
  <2>7. ASSUME NEW i \in DOMAIN q PROVE q[i] = p \/ \E j \in DOMAIN s : q[i] = s[j]
    BY <2>3, <2>4
  <2>8. ASSUME NEW j \in DOMAIN s, s[j] # Free PROVE \E i \in DOMAIN q : q[i] = s[j]
    <3>1. j # first
      BY <2>5, <2>8
    <3> QED BY <2>3, <2>4, <3>1
  <2>9. ~(\A i \in DOMAIN s : s[i] # Free) /\ \E i \in DOMAIN q : q[i] = p
    BY <2>3, <2>5
  <2>10. PutInto(q, s, p)
    <3>1. \A i \in DOMAIN q : q[i] = p \/ \E j \in DOMAIN s : q[i] = s[j]
      BY <2>7
    <3>2. \A j \in DOMAIN s : s[j] # Free => \E i \in DOMAIN q : q[i] = s[j]
      BY <2>8
    <3>3. /\ (\A i \in DOMAIN s : s[i] # Free) => Len(q) = Len(s) + 1
          /\ ~(\A i \in DOMAIN s : s[i] # Free) => Len(q) = Len(s)
      BY <2>3, <2>9, Zenon
    <3>4. q \in Seq(Packets) /\ \E i \in DOMAIN q : q[i] = p
      BY <2>3, <2>9
    <3> HIDE DEF Packets
    <3> QED BY <3>1, <3>2, <3>3, <3>4, Zenon DEF PutInto
  <2> QED BY <2>6, <2>10
<1> QED BY <1>1, <1>2

-----------------------------------------------------------------------------
(* The types of a group *)

LEMMA GroupStarts == GroupInit => GroupTyped
<1> SUFFICES ASSUME GroupInit PROVE GroupTyped
  OBVIOUS
<1>1. sendSeq \in [Members -> 0..(SeqMod - 1)]
  BY DEF GroupInit
<1>2. MembersTyped
  <2>1. /\ relay \in [Members -> {0, 1}] /\ mutexKept \in [Members -> BOOLEAN]
        /\ sockets \in [Members -> BOOLEAN] /\ ticking \in [Members -> BOOLEAN]
        /\ changes \in 0..MaxChanges /\ excused \in BOOLEAN
        /\ DOMAIN formatted = Members /\ DOMAIN last = Members /\ DOMAIN taken = Members
    <3>1. relay \in [Members -> {0, 1}] /\ changes \in 0..MaxChanges
      BY DEF GroupInit
    <3>2. /\ mutexKept \in [Members -> BOOLEAN] /\ sockets \in [Members -> BOOLEAN]
          /\ ticking \in [Members -> BOOLEAN] /\ excused \in BOOLEAN
      BY DEF GroupInit
    <3>3. DOMAIN formatted = Members /\ DOMAIN last = Members /\ DOMAIN taken = Members
      BY DEF GroupInit
    <3> QED BY <3>1, <3>2, <3>3
  <2>2. <<>> \in Seq(Packets)
    OBVIOUS
  <2>3. slots \in [Members -> Seq(Packets)] /\ air \in [Members -> Seq(Packets)]
    BY <2>2 DEF GroupInit
  <2>4. parsed \in [Members -> Packets]
    BY FreeIsNone DEF GroupInit
  <2> QED BY <1>1, <2>1, <2>3, <2>4 DEF MembersTyped
<1>3. ASSUME NEW m \in Members PROVE SentTyped(m) /\ TakenTyped(m)
  <2>1. SentTyped(m)
    BY <1>3, FreeIsNone DEF GroupInit, SentTyped, FreeOrMade
  <2>2. /\ last[m] = [o \in {p \in Others(m) : sendSeq[p] > 0} |-> sendSeq[o] - 1]
        /\ air[m] = <<>> /\ ~Processing(m) /\ taken[m] = [o \in Others(m) |-> Free]
    BY <1>3 DEF GroupInit, Processing
  <2>3. /\ DOMAIN last[m] \subseteq Others(m)
        /\ \A o \in DOMAIN last[m] : last[m][o] \in 0..(SeqMod - 1)
    BY <1>1, <2>2 DEF Others
  <2>4. last[m] \in [DOMAIN last[m] -> 0..(SeqMod - 1)]
    BY <2>2, <2>3
  <2> QED BY <2>1, <2>2, <2>3, <2>4, FreeIsNone DEF TakenTyped, FreeOrMade
<1> QED BY <1>2, <1>3 DEF GroupTyped

\* What a change makes a packet of.
LEMMA PacketMade ==
  ASSUME MembersTyped, NEW m \in Members, NEW v \in {0, 1}
  PROVE  /\ Made(Packet(m, v), m, changes + 1) /\ Packet(m, v) \in Packets
         /\ Packet(m, v).made = changes + 1 /\ Packet(m, v).seq = sendSeq[m]
         /\ Packet(m, v).val = v /\ Packet(m, v) # Free
<1>1. changes \in Nat /\ sendSeq[m] \in 0..(SeqMod - 1)
  BY DEF MembersTyped
<1>2. Packet(m, v) \in Packets
  BY <1>1 DEF Packet, Packets
<1>3. Packet(m, v).made = changes + 1 /\ Packet(m, v).from = m
  BY DEF Packet
<1> QED BY <1>1, <1>2, <1>3, FreeIsNone DEF Made, Packet

LEMMA OtherLevel == ASSUME MembersTyped, NEW m \in Members PROVE 1 - relay[m] \in {0, 1}
<1>1. relay[m] = 0 \/ relay[m] = 1
  BY DEF MembersTyped
<1> QED BY <1>1

\* Of the steps of member m, those that send.
LEMMA ChangeTyped ==
  ASSUME GroupTyped, NEW m \in Members, NEW t \in Senders[m], Change(m, t)
  PROVE  GroupTyped'
<1> DEFINE p == Packet(m, 1 - relay[m])
<1>1. MembersTyped
  BY DEF GroupTyped
<1>2. changes' = changes + 1 /\ changes' \in 0 .. MaxChanges /\ changes \in Nat /\ changes' \in Nat
  BY <1>1 DEF Change, MembersTyped
<1>3. Made(p, m, changes')
  <2>1. 1 - relay[m] \in {0, 1}
    BY <1>1, OtherLevel
  <2> QED BY <1>1, <1>2, <2>1, PacketMade
<1>f. formatted' = IF Processing(m) THEN formatted ELSE [formatted EXCEPT ![m][t] = p]
  BY DEF Change, Formatted
<1> HIDE DEF p
<1>4. MembersTyped'
  <2>1. relay' \in [Members -> {0, 1}]
    <3>1. relay' = [relay EXCEPT ![m] = 1 - relay[m]] /\ 1 - relay[m] \in {0, 1}
      BY <1>1, OtherLevel DEF Change
    <3> QED BY <1>1, <3>1 DEF MembersTyped
  <2>2. excused' \in BOOLEAN
    BY DEF Change
  <2>3. DOMAIN formatted' = Members
    BY <1>1, <1>f DEF MembersTyped
  <2> QED BY <1>1, <1>2, <2>1, <2>2, <2>3 DEF MembersTyped, Change
<1>5. ASSUME NEW n \in Members PROVE TakenTyped(n)'
  BY <1>2, <1>5, TakenStays DEF GroupTyped, Change
<1>6. ASSUME NEW n \in Members PROVE SentTyped(n)'
  <2>1. SentTyped(n) /\ slots'[n] = slots[n]
    BY DEF GroupTyped, Change
  <2>2. CASE n # m \/ Processing(m)
    <3>1. formatted'[n] = formatted[n]
      BY <1>1, <1>f, <2>2 DEF MembersTyped
    <3> QED BY <1>2, <2>1, <3>1, SentStays
  <2>3. CASE n = m /\ ~Processing(m)
    <3>1. formatted'[m] = [formatted[m] EXCEPT ![t] = p]
      BY <1>1, <1>f, <2>3 DEF MembersTyped
    <3>2. p \in Packets
      BY <1>3 DEF Made
    <3>3. \A q : FreeOrMade(q, m, changes) => FreeOrMade(q, m, changes')
      BY <1>2, MadeStays
    <3>4. formatted[m] \in [Senders[m] -> Packets] /\ \A u \in Senders[m] : FreeOrMade(formatted[m][u], m, changes)
      BY <2>1, <2>3 DEF SentTyped
    <3>5. formatted'[m] \in [Senders[m] -> Packets]
      BY <3>1, <3>2, <3>4
    <3>6. ASSUME NEW u \in Senders[m] PROVE FreeOrMade(formatted'[m][u], m, changes')
      <4>1. formatted'[m][u] = IF u = t THEN p ELSE formatted[m][u]
        BY <3>1, <3>4
      <4> QED BY <1>3, <3>3, <3>4, <4>1 DEF FreeOrMade
    <3> QED BY <2>1, <2>3, <3>3, <3>5, <3>6 DEF SentTyped
  <2> QED BY <2>2, <2>3
<1> QED BY <1>4, <1>5, <1>6 DEF GroupTyped

\* A thread of member m is done with the packet it has formatted.
LEMMA Unformatted ==
  ASSUME GroupTyped, NEW m \in Members, NEW t \in Senders[m],
         formatted' = [formatted EXCEPT ![m][t] = Free], changes' = changes
  PROVE  /\ DOMAIN formatted' = Members /\ formatted'[m] \in [Senders[m] -> Packets]
         /\ \A u \in Senders[m] : formatted'[m][u] = IF u = t THEN Free ELSE formatted[m][u]
         /\ \A u \in Senders[m] : FreeOrMade(formatted'[m][u], m, changes')
         /\ \A n \in Members : n # m => formatted'[n] = formatted[n]
<1>1. SentTyped(m) /\ DOMAIN formatted = Members
  BY DEF GroupTyped, MembersTyped
<1>2. formatted'[m] = [formatted[m] EXCEPT ![t] = Free]
  BY <1>1
<1>3. formatted[m] \in [Senders[m] -> Packets] /\ \A u \in Senders[m] : FreeOrMade(formatted[m][u], m, changes)
  BY <1>1 DEF SentTyped
<1>4. formatted'[m] \in [Senders[m] -> Packets]
  BY <1>2, <1>3, FreeIsNone
<1>5. \A u \in Senders[m] : formatted'[m][u] = IF u = t THEN Free ELSE formatted[m][u]
  BY <1>2, <1>3
<1>6. DOMAIN formatted' = Members /\ \A n \in Members : n # m => formatted'[n] = formatted[n]
  BY <1>1
<1> QED BY <1>3, <1>4, <1>5, <1>6 DEF FreeOrMade

LEMMA NextNumber ==
  ASSUME NEW n \in 0..(SeqMod - 1)
  PROVE  (n + 1) % SeqMod \in 0..(SeqMod - 1) /\ (n + 1) % SeqMod <= n + 1
OBVIOUS

LEMMA EnqueueTyped ==
  ASSUME GroupTyped, NEW m \in Members, NEW t \in Senders[m], Enqueue(m, t)
  PROVE  GroupTyped'
<1> DEFINE p == formatted[m][t]
<1>1. MembersTyped /\ SentTyped(m)
  BY DEF GroupTyped
<1>2. /\ formatted' = [formatted EXCEPT ![m][t] = Free] /\ changes' = changes /\ changes \in Nat
      /\ UNCHANGED <<relay, last, sockets, ticking, parsed, air, changes, taken>>
  BY <1>1 DEF Enqueue, MembersTyped
<1>3. p \in Packets /\ FreeOrMade(p, m, changes)
  BY <1>1 DEF SentTyped
<1>4. \/ slots' = slots
      \/ ~Overruns(slots[m]) /\ slots' = [slots EXCEPT ![m] = Queued(slots[m], p)]
  BY DEF Enqueue
<1>5. sendSeq' = sendSeq \/ sendSeq' = [sendSeq EXCEPT ![m] = (sendSeq[m] + 1) % SeqMod]
  BY DEF Enqueue
<1>6. mutexKept' = mutexKept \/ mutexKept' = [mutexKept EXCEPT ![m] = TRUE]
  BY DEF Enqueue
<1>7. excused' \in BOOLEAN
  <2>1. excused' = TRUE \/ excused' = excused
    BY DEF Enqueue
  <2> QED BY <1>1, <2>1 DEF MembersTyped
<1> HIDE DEF p
<1>8. slots[m] \in Seq(Packets) /\ Len(slots[m]) <= QueueSize
  BY <1>1 DEF MembersTyped, SentTyped
<1>9. /\ slots' \in [Members -> Seq(Packets)] /\ Len(slots'[m]) <= QueueSize
      /\ \A i \in DOMAIN slots'[m] : FreeOrMade(slots'[m][i], m, changes)
      /\ \A n \in Members : n # m => slots'[n] = slots[n]
  <2>1. CASE slots' = slots
    BY <1>1, <1>8, <2>1 DEF MembersTyped, SentTyped
  <2>2. CASE ~Overruns(slots[m]) /\ slots' = [slots EXCEPT ![m] = Queued(slots[m], p)]
    <3>1. slots'[m] = Queued(slots[m], p) /\ \A n \in Members : n # m => slots'[n] = slots[n]
      BY <1>1, <2>2 DEF MembersTyped
    <3>2. PutInto(Queued(slots[m], p), slots[m], p)
      BY <1>3, <1>8, QueuedIs
    <3>3. Len(slots'[m]) <= QueueSize
      <4>1. Len(slots[m]) \in Nat
        BY <1>8
      <4> QED BY <1>8, <2>2, <3>1, <3>2, <4>1 DEF Overruns, PutInto
    <3>4. slots' \in [Members -> Seq(Packets)]
      BY <1>1, <2>2, <3>2 DEF MembersTyped, PutInto
    <3>5. \A i \in DOMAIN slots'[m] : FreeOrMade(slots'[m][i], m, changes)
      BY <1>1, <1>3, <3>1, <3>2 DEF SentTyped, PutInto
    <3> QED BY <3>1, <3>3, <3>4, <3>5
  <2> QED BY <1>4, <2>1, <2>2
<1>10. sendSeq' \in [Members -> 0..(SeqMod - 1)]
  <2>1. sendSeq[m] \in 0..(SeqMod - 1)
    BY <1>1 DEF MembersTyped
  <2>2. (sendSeq[m] + 1) % SeqMod \in 0..(SeqMod - 1)
    BY <2>1, NextNumber
  <2> QED BY <1>1, <1>5, <2>2 DEF MembersTyped
<1>11. mutexKept' \in [Members -> BOOLEAN]
  BY <1>1, <1>6 DEF MembersTyped
<1>12. MembersTyped'
  BY <1>1, <1>2, <1>7, <1>9, <1>10, <1>11, Unformatted DEF MembersTyped
<1>13. ASSUME NEW n \in Members PROVE SentTyped(n)'
  <2>1. CASE n = m
    <3>1. /\ formatted'[m] \in [Senders[m] -> Packets]
          /\ \A u \in Senders[m] : FreeOrMade(formatted'[m][u], m, changes')
      BY <1>2, Unformatted
    <3> QED BY <1>2, <1>9, <2>1, <3>1 DEF SentTyped
  <2>2. CASE n # m
    <3>1. formatted'[n] = formatted[n]
      BY <1>2, <2>2, Unformatted
    <3> QED BY <1>2, <1>9, <2>2, <3>1, SentStays DEF GroupTyped
  <2> QED BY <2>1, <2>2
<1>14. ASSUME NEW n \in Members PROVE TakenTyped(n)'
  BY <1>2, TakenStays DEF GroupTyped
<1> QED BY <1>12, <1>13, <1>14 DEF GroupTyped

LEMMA MutexTimesOutTyped ==
  ASSUME GroupTyped, NEW m \in Members, NEW t \in Senders[m], MutexTimesOut(m, t)
  PROVE  GroupTyped'
<1>1. MembersTyped
  BY DEF GroupTyped
<1>2. /\ formatted' = [formatted EXCEPT ![m][t] = Free] /\ changes' = changes /\ changes \in Nat
      /\ sendSeq' = [sendSeq EXCEPT ![m] = (sendSeq[m] + 1) % SeqMod] /\ excused' = TRUE
      /\ UNCHANGED <<relay, slots, mutexKept, last, sockets, ticking, parsed, air, taken>>
  BY <1>1 DEF MutexTimesOut, MembersTyped
<1>3. (sendSeq[m] + 1) % SeqMod \in 0..(SeqMod - 1)
  BY <1>1, NextNumber DEF MembersTyped
<1>4. sendSeq' \in [Members -> 0..(SeqMod - 1)] /\ DOMAIN formatted' = Members
  BY <1>1, <1>2, <1>3 DEF MembersTyped
<1>5. MembersTyped'
  BY <1>1, <1>2, <1>4 DEF MembersTyped
<1>6. ASSUME NEW n \in Members PROVE SentTyped(n)'
  <2>1. SentTyped(n)
    BY DEF GroupTyped
  <2>2. CASE n = m
    <3>1. /\ formatted'[m] \in [Senders[m] -> Packets]
          /\ \A u \in Senders[m] : FreeOrMade(formatted'[m][u], m, changes')
      BY <1>2, Unformatted
    <3> QED BY <1>2, <2>1, <2>2, <3>1 DEF SentTyped
  <2>3. CASE n # m
    BY <1>2, <2>1, <2>3, Unformatted, SentStays
  <2> QED BY <2>2, <2>3
<1>7. ASSUME NEW n \in Members PROVE TakenTyped(n)'
  BY <1>2, TakenStays DEF GroupTyped
<1> QED BY <1>5, <1>6, <1>7 DEF GroupTyped

\* ... those of the quick tick, which takes the packets of the others.
LEMMA QuickTickTyped ==
  ASSUME GroupTyped, NEW m \in Members, QuickTick(m)
  PROVE  GroupTyped'
<1>1. MembersTyped /\ SentTyped(m) /\ changes \in Nat
  BY DEF GroupTyped, MembersTyped
<1>2. /\ slots' = [slots EXCEPT ![m] = Emptied(m)] /\ ticking' = [ticking EXCEPT ![m] = TRUE]
      /\ air' = [o \in Members |-> IF o # m /\ sockets[o] THEN air[o] \o Sent(m) ELSE air[o]]
      /\ excused' \in BOOLEAN /\ changes' = changes
      /\ UNCHANGED <<relay, sendSeq, mutexKept, last, sockets, formatted, parsed, taken>>
  BY DEF QuickTick
<1>3. /\ Sent(m) \in Seq(Packets)
      /\ \A i \in DOMAIN Sent(m) : Made(Sent(m)[i], m, changes)
  BY SentIs
<1>4. /\ Emptied(m) \in Seq(Packets) /\ Len(Emptied(m)) <= QueueSize
      /\ \A i \in DOMAIN Emptied(m) : FreeOrMade(Emptied(m)[i], m, changes)
  <2>1. /\ slots[m] \in Seq(Packets) /\ Len(slots[m]) <= QueueSize
        /\ \A i \in DOMAIN slots[m] : FreeOrMade(slots[m][i], m, changes)
    BY <1>1 DEF MembersTyped, SentTyped
  <2>2. CASE mutexKept[m]
    BY <2>1, <2>2 DEF Emptied
  <2>3. CASE ~mutexKept[m]
    <3>1. Emptied(m) = [i \in 1 .. Len(slots[m]) |-> Free] /\ Len(slots[m]) \in Nat
      BY <2>1, <2>3 DEF Emptied
    <3>2. Emptied(m) \in Seq(Packets) /\ Len(Emptied(m)) = Len(slots[m])
      BY <3>1, FreeIsNone
    <3>3. \A i \in DOMAIN Emptied(m) : Emptied(m)[i] = Free
      BY <3>1
    <3> QED BY <2>1, <3>2, <3>3 DEF FreeOrMade
  <2> QED BY <2>2, <2>3
<1>5. slots' \in [Members -> Seq(Packets)] /\ ticking' \in [Members -> BOOLEAN]
  BY <1>1, <1>2, <1>4 DEF MembersTyped
<1>6. ASSUME NEW o \in Members
      PROVE  /\ air'[o] \in Seq(Packets)
             /\ \A i \in DOMAIN air'[o] :
                  air'[o][i].from \in Others(o) /\ Made(air'[o][i], air'[o][i].from, changes)
  <2>1. /\ air[o] \in Seq(Packets)
        /\ \A i \in DOMAIN air[o] : air[o][i].from \in Others(o) /\ Made(air[o][i], air[o][i].from, changes)
    BY <1>1 DEF GroupTyped, MembersTyped, TakenTyped
  <2>2. CASE o # m /\ sockets[o]
    <3>1. air'[o] = air[o] \o Sent(m)
      BY <1>2, <2>2
    <3>2. m \in Others(o)
      BY <2>2 DEF Others
    <3>3. ASSUME NEW i \in DOMAIN (air[o] \o Sent(m))
          PROVE  \/ \E j \in DOMAIN air[o] : (air[o] \o Sent(m))[i] = air[o][j]
                 \/ \E j \in DOMAIN Sent(m) : (air[o] \o Sent(m))[i] = Sent(m)[j]
      BY <1>3, <2>1, JoinedFrom
    <3>4. air[o] \o Sent(m) \in Seq(Packets)
      BY <1>3, <2>1, JoinedIs
    <3>5. ASSUME NEW i \in DOMAIN air'[o]
          PROVE  air'[o][i].from \in Others(o) /\ Made(air'[o][i], air'[o][i].from, changes)
      <4>1. CASE \E j \in DOMAIN air[o] : air'[o][i] = air[o][j]
        BY <2>1, <4>1
      <4>2. CASE \E j \in DOMAIN Sent(m) : air'[o][i] = Sent(m)[j]
        <5>1. Made(air'[o][i], m, changes)
          BY <1>3, <4>2
        <5> QED BY <3>2, <5>1 DEF Made
      <4> QED BY <3>1, <3>3, <4>1, <4>2
    <3> QED BY <3>1, <3>4, <3>5
  <2>3. CASE ~(o # m /\ sockets[o])
    <3>1. air'[o] = air[o]
      BY <1>2, <2>3
    <3> QED BY <2>1, <3>1
  <2> QED BY <2>2, <2>3
<1>7. air' \in [Members -> Seq(Packets)]
  BY <1>2, <1>6
<1>8. MembersTyped'
  BY <1>1, <1>2, <1>5, <1>7 DEF MembersTyped
<1>9. ASSUME NEW n \in Members PROVE SentTyped(n)'
  <2>1. SentTyped(n)
    BY DEF GroupTyped
  <2>2. slots'[n] = IF n = m THEN Emptied(m) ELSE slots[n]
    BY <1>1, <1>2 DEF MembersTyped
  <2> QED BY <1>2, <1>4, <2>1, <2>2 DEF SentTyped
<1>10. ASSUME NEW n \in Members PROVE TakenTyped(n)'
  <2>1. TakenTyped(n) /\ (ticking[n] => ticking'[n])
    BY <1>1, <1>2 DEF GroupTyped, MembersTyped
  <2> QED BY <1>2, <1>6, <2>1 DEF TakenTyped, Processing, LastOf
<1> QED BY <1>8, <1>9, <1>10 DEF GroupTyped

LEMMA ReceiveTyped ==
  ASSUME GroupTyped, NEW m \in Members, Receive(m)
  PROVE  GroupTyped'
<1>1. MembersTyped /\ TakenTyped(m) /\ changes \in Nat
  BY DEF GroupTyped, MembersTyped
<1>2. /\ parsed' = [parsed EXCEPT ![m] = Head(air[m])] /\ air' = [air EXCEPT ![m] = Tail(air[m])]
      /\ changes' = changes /\ ticking[m] /\ air[m] # <<>>
      /\ UNCHANGED <<relay, sendSeq, slots, mutexKept, last, sockets, formatted, ticking, taken, excused>>
  BY DEF Receive
<1>3. /\ Tail(air[m]) \in Seq(Packets) /\ Head(air[m]) = air[m][1] /\ 1 \in DOMAIN air[m]
      /\ \A i \in DOMAIN Tail(air[m]) : i + 1 \in DOMAIN air[m] /\ Tail(air[m])[i] = air[m][i + 1]
  <2>1. air[m] \in Seq(Packets)
    BY <1>1 DEF MembersTyped
  <2> QED BY <1>2, <2>1, RestOf
<1>4. Head(air[m]).from \in Others(m) /\ Made(Head(air[m]), Head(air[m]).from, changes)
  BY <1>1, <1>3 DEF TakenTyped
<1>5. MembersTyped'
  <2>1. Head(air[m]) \in Packets
    BY <1>4 DEF Made
  <2> QED BY <1>1, <1>2, <1>3, <2>1 DEF MembersTyped
<1>6. ASSUME NEW n \in Members PROVE SentTyped(n)'
  BY <1>1, <1>2, SentStays DEF GroupTyped
<1>7. ASSUME NEW n \in Members PROVE TakenTyped(n)'
  <2>1. CASE n = m
    <3>1. air'[m] = Tail(air[m]) /\ parsed'[m] = Head(air[m])
      BY <1>1, <1>2 DEF MembersTyped
    <3>2. \A i \in DOMAIN air'[m] : air'[m][i].from \in Others(m) /\ Made(air'[m][i], air'[m][i].from, changes)
      BY <1>1, <1>3, <3>1 DEF TakenTyped
    <3> QED BY <1>1, <1>2, <1>4, <2>1, <3>1, <3>2 DEF TakenTyped, Processing, LastOf
  <2>2. CASE n # m
    <3>1. air'[n] = air[n] /\ parsed'[n] = parsed[n]
      BY <1>1, <1>2, <2>2 DEF MembersTyped
    <3> QED BY <1>1, <1>2, <3>1, TakenStays DEF GroupTyped
  <2> QED BY <2>1, <2>2
<1> QED BY <1>5, <1>6, <1>7 DEF GroupTyped

LEMMA TickEndsTyped ==
  ASSUME GroupTyped, NEW m \in Members, TickEnds(m)
  PROVE  GroupTyped'
<1>1. MembersTyped /\ changes \in Nat
  BY DEF GroupTyped, MembersTyped
<1>2. /\ ticking' = [ticking EXCEPT ![m] = FALSE] /\ parsed[m] = Free /\ changes' = changes
      /\ UNCHANGED <<relay, sendSeq, slots, mutexKept, last, sockets, formatted, parsed, air, taken, excused>>
  BY DEF TickEnds, Processing
<1>3. MembersTyped'
  BY <1>1, <1>2 DEF MembersTyped
<1>4. ASSUME NEW n \in Members PROVE SentTyped(n)'
  BY <1>1, <1>2, SentStays DEF GroupTyped
<1>5. ASSUME NEW n \in Members PROVE TakenTyped(n)'
  <2>1. ticking[n] => ticking'[n] \/ parsed[n] = Free
    BY <1>1, <1>2 DEF MembersTyped
  <2> QED BY <1>1, <1>2, <2>1, TakenStays DEF GroupTyped
<1> QED BY <1>3, <1>4, <1>5 DEF GroupTyped

\* A packet that is parsed is taken, which puts its number into the table, or refused.
TakesOrRefuses(m, p) ==
  /\ p.from \in Others(m) /\ Made(p, p.from, changes) /\ p # Free
  /\ formatted' = formatted
  /\ \A n \in Members : n # m => last'[n] = last[n] /\ taken'[n] = taken[n] /\ relay'[n] = relay[n]
  /\ DOMAIN taken' = Members /\ DOMAIN last' = Members /\ parsed'[m] = Free
  /\ \A n \in Members : n # m => parsed'[n] = parsed[n]
  /\ \A o \in Others(m) : o # p.from => taken'[m][o] = taken[m][o] /\ LastOf(m, o)' = LastOf(m, o)
  /\ \/ /\ CheckSequence(m, p) /\ relay'[m] = p.val
        /\ taken'[m][p.from] = p /\ LastOf(m, p.from)' = p.seq
     \/ /\ ~CheckSequence(m, p) /\ taken' = taken /\ relay' = relay
        /\ LastOf(m, p.from)' = LastOf(m, p.from)
  /\ DOMAIN last'[m] \subseteq Others(m) /\ last'[m] \in [DOMAIN last'[m] -> 0..(SeqMod - 1)]
  /\ DOMAIN taken'[m] = Others(m)

LEMMA ParsedIs ==
  ASSUME GroupTyped, NEW m \in Members, Parsed(m), NEW p, p = parsed[m]
  PROVE  TakesOrRefuses(m, p)
<1> DEFINE ok == CheckSequence(m, p) o == p.from
<1>1. MembersTyped /\ TakenTyped(m) /\ Processing(m)
  BY DEF GroupTyped, Parsed
<1>2. o \in Others(m) /\ Made(p, o, changes) /\ p # Free
  BY <1>1 DEF TakenTyped, Processing
<1>3. /\ relay' = IF ok THEN [relay EXCEPT ![m] = p.val] ELSE relay
      /\ formatted' = IF relay' = relay THEN formatted ELSE Formatted(m, Ticker, p.val)
      /\ last' = IF Known(m, o)
                 THEN [last EXCEPT ![m] = [n \in DOMAIN last[m] \cup {o} |->
                                             IF n = o /\ ok THEN p.seq ELSE LastOf(m, n)]]
                 ELSE last
      /\ parsed' = [parsed EXCEPT ![m] = Free]
      /\ taken' = IF ok THEN [taken EXCEPT ![m][o] = p] ELSE taken
  BY DEF Parsed
<1>4. formatted' = formatted
  BY <1>1, <1>3 DEF Formatted
<1>5. /\ DOMAIN relay = Members /\ DOMAIN last = Members /\ DOMAIN parsed = Members
      /\ DOMAIN taken = Members /\ DOMAIN taken[m] = Others(m) /\ DOMAIN last[m] \subseteq Others(m)
  BY <1>1 DEF MembersTyped, TakenTyped
<1>6. p.seq \in 0..(SeqMod - 1) /\ \A n \in Others(m) : LastOf(m, n) \in 0..(SeqMod - 1)
  <2>1. p.seq \in 0..(SeqMod - 1)
    BY <1>2 DEF Made, Packets
  <2>2. last[m] \in [DOMAIN last[m] -> 0..(SeqMod - 1)]
    BY <1>1 DEF TakenTyped
  <2>3. 0 \in 0..(SeqMod - 1)
    OBVIOUS
  <2> QED BY <2>1, <2>2, <2>3 DEF LastOf
<1> HIDE DEF ok, o
<1>7. \A n \in Members : n # m => last'[n] = last[n]
  BY <1>3, <1>5
<1>8. \A n \in Members : n # m => taken'[n] = taken[n] /\ relay'[n] = relay[n] /\ parsed'[n] = parsed[n]
  BY <1>3, <1>5
<1>9. DOMAIN taken' = Members /\ DOMAIN last' = Members /\ parsed'[m] = Free
  BY <1>3, <1>5
<1>10. \A n \in Others(m) : n # o => taken'[m][n] = taken[m][n]
  BY <1>3, <1>5
<1>11. DOMAIN taken'[m] = Others(m)
  BY <1>3, <1>5
<1>12. CASE Known(m, o)
  <2> DEFINE D == DOMAIN last[m] \cup {o}
             row == [n \in D |-> IF n = o /\ ok THEN p.seq ELSE LastOf(m, n)]
  <2>1. last'[m] = row
    BY <1>3, <1>5, <1>12
  <2>2. DOMAIN last'[m] = D /\ D \subseteq Others(m) /\ o \in D
    BY <1>2, <1>5, <2>1 DEF o
  <2>3. \A n \in D : last'[m][n] = IF n = o /\ ok THEN p.seq ELSE LastOf(m, n)
    BY <2>1
  <2>4. last'[m] \in [DOMAIN last'[m] -> 0..(SeqMod - 1)]
    BY <1>6, <2>1, <2>2
  <2> HIDE DEF row, D
  <2>5. LastOf(m, o)' = IF ok THEN p.seq ELSE LastOf(m, o)
    BY <2>2, <2>3 DEF LastOf
  <2>6. ASSUME NEW n \in Others(m), n # o PROVE LastOf(m, n)' = LastOf(m, n)
    BY <2>2, <2>3, <2>6 DEF LastOf, D
  <2>7. ok => relay'[m] = p.val /\ taken'[m][o] = p
    BY <1>2, <1>3, <1>5 DEF o
  <2>8. ~ok => relay' = relay /\ taken' = taken
    BY <1>3
  <2> QED BY <1>2, <1>4, <1>7, <1>8, <1>9, <1>10, <1>11, <2>2, <2>4, <2>5, <2>6, <2>7, <2>8 DEF o, ok, TakesOrRefuses
<1>13. CASE ~Known(m, o)
  <2>1. ~ok /\ last' = last
    BY <1>3, <1>13 DEF ok, CheckSequence, o
  <2>2. relay' = relay /\ taken' = taken
    BY <1>3, <2>1
  <2>3. \A n : LastOf(m, n)' = LastOf(m, n)
    BY <2>1 DEF LastOf
  <2> QED BY <1>1, <1>2, <1>4, <1>7, <1>8, <1>9, <1>10, <1>11, <2>1, <2>2, <2>3 DEF o, ok, TakenTyped, TakesOrRefuses
<1> QED BY <1>12, <1>13

LEMMA ParsedTyped ==
  ASSUME GroupTyped, NEW m \in Members, Parsed(m)
  PROVE  GroupTyped'
<1> PICK p : p = parsed[m]
  OBVIOUS
<1>1. MembersTyped /\ TakenTyped(m) /\ changes \in Nat
  BY DEF GroupTyped, MembersTyped
<1>2. TakesOrRefuses(m, p)
  BY ParsedIs
<1>3. /\ changes' = changes /\ excused' \in BOOLEAN /\ parsed' = [parsed EXCEPT ![m] = Free]
      /\ relay' = relay \/ relay' = [relay EXCEPT ![m] = p.val]
      /\ taken' = taken \/ taken' = [taken EXCEPT ![m][p.from] = p]
      /\ UNCHANGED <<sendSeq, slots, mutexKept, sockets, ticking, air>>
  BY DEF Parsed
<1>4. p \in Packets /\ p.val \in {0, 1}
  BY <1>2 DEF Made, Packets, TakesOrRefuses
<1>5. MembersTyped'
  <2>1. relay' \in [Members -> {0, 1}]
    BY <1>1, <1>3, <1>4 DEF MembersTyped
  <2>2. parsed' \in [Members -> Packets]
    BY <1>1, <1>3, FreeIsNone DEF MembersTyped
  <2> QED BY <1>1, <1>2, <1>3, <2>1, <2>2 DEF MembersTyped, TakesOrRefuses
<1>6. ASSUME NEW n \in Members PROVE SentTyped(n)'
  BY <1>1, <1>2, <1>3, SentStays DEF GroupTyped, TakesOrRefuses
<1>7. ASSUME NEW n \in Members PROVE TakenTyped(n)'
  <2>1. CASE n = m
    <3>1. \A o \in Others(m) :
             FreeOrMade(taken[m][o], o, changes) /\ (taken[m][o] # Free => LastOf(m, o) = taken[m][o].seq)
      BY <1>1 DEF TakenTyped
    <3>2. ASSUME NEW o \in Others(m)
          PROVE  /\ FreeOrMade(taken'[m][o], o, changes)
                 /\ taken'[m][o] # Free => LastOf(m, o)' = taken'[m][o].seq
      <4>1. CASE o = p.from /\ CheckSequence(m, p)
        BY <1>2, <4>1 DEF TakesOrRefuses, FreeOrMade
      <4>2. CASE ~(o = p.from /\ CheckSequence(m, p))
        <5>1. taken'[m][o] = taken[m][o] /\ LastOf(m, o)' = LastOf(m, o)
          BY <1>2, <4>2 DEF TakesOrRefuses
        <5> QED BY <3>1, <5>1
      <4> QED BY <4>1, <4>2
    <3>3. taken'[m] \in [Others(m) -> Packets]
      <4>1. taken[m] \in [Others(m) -> Packets]
        BY <1>1 DEF TakenTyped
      <4>2. taken'[m] = taken[m] \/ taken'[m] = [taken[m] EXCEPT ![p.from] = p]
        BY <1>1, <1>3 DEF MembersTyped
      <4> QED BY <1>4, <4>1, <4>2
    <3> QED BY <1>1, <1>2, <1>3, <2>1, <3>2, <3>3 DEF TakenTyped, Processing, TakesOrRefuses
  <2>2. CASE n # m
    BY <1>1, <1>2, <1>3, <2>2, TakenStays DEF GroupTyped, TakesOrRefuses
  <2> QED BY <2>1, <2>2
<1> QED BY <1>5, <1>6, <1>7 DEF GroupTyped

LEMMA CreateSocketsTyped ==
  ASSUME GroupTyped, NEW m \in Members, CreateSockets(m)
  PROVE  GroupTyped'
<1>1. MembersTyped /\ changes \in Nat
  BY DEF GroupTyped, MembersTyped
<1>2. /\ sockets' = [sockets EXCEPT ![m] = TRUE] /\ changes' = changes
      /\ UNCHANGED <<relay, sendSeq, slots, mutexKept, last, formatted, ticking, parsed, air, taken, excused>>
  BY DEF CreateSockets
<1>3. MembersTyped'
  BY <1>1, <1>2 DEF MembersTyped
<1>4. ASSUME NEW n \in Members PROVE SentTyped(n)' /\ TakenTyped(n)'
  BY <1>1, <1>2, SentStays, TakenStays DEF GroupTyped
<1> QED BY <1>3, <1>4 DEF GroupTyped

LEMMA RestartTyped ==
  ASSUME GroupTyped, NEW m \in Members, Restart(m)
  PROVE  GroupTyped'
<1>1. MembersTyped /\ changes \in Nat /\ SentTyped(m) /\ TakenTyped(m)
  BY DEF GroupTyped, MembersTyped
<1>2. /\ sendSeq' = [sendSeq EXCEPT ![m] = 0] /\ last' = [last EXCEPT ![m] = <<>>]
      /\ sockets' = [sockets EXCEPT ![m] = FALSE] /\ air' = [air EXCEPT ![m] = <<>>]
      /\ taken' = [taken EXCEPT ![m] = [o \in Others(m) |-> Free]]
      /\ changes' = changes /\ excused' = TRUE /\ ~ticking[m]
      /\ UNCHANGED <<relay, ticking, parsed>>
  BY DEF Restart
<1>3. \/ UNCHANGED <<slots, mutexKept, formatted>>
      \/ /\ slots' = [slots EXCEPT ![m] = <<>>] /\ mutexKept' = [mutexKept EXCEPT ![m] = FALSE]
         /\ formatted' = [formatted EXCEPT ![m] = [t \in Senders[m] |-> Free]]
  BY DEF Restart
<1>4. <<>> \in Seq(Packets) /\ DOMAIN <<>> = {} /\ Len(<<>>) = 0 /\ 0 \in 0..(SeqMod - 1)
  OBVIOUS
<1>5. MembersTyped'
  <2>1. /\ slots' \in [Members -> Seq(Packets)] /\ mutexKept' \in [Members -> BOOLEAN]
        /\ DOMAIN formatted' = Members
    <3>1. CASE UNCHANGED <<slots, mutexKept, formatted>>
      BY <1>1, <3>1 DEF MembersTyped
    <3>2. CASE /\ slots' = [slots EXCEPT ![m] = <<>>] /\ mutexKept' = [mutexKept EXCEPT ![m] = FALSE]
               /\ formatted' = [formatted EXCEPT ![m] = [t \in Senders[m] |-> Free]]
      <4>1. slots' \in [Members -> Seq(Packets)]
        BY <1>1, <1>4, <3>2 DEF MembersTyped
      <4>2. mutexKept' \in [Members -> BOOLEAN] /\ DOMAIN formatted' = Members
        BY <1>1, <3>2 DEF MembersTyped
      <4> QED BY <4>1, <4>2
    <3> QED BY <1>3, <3>1, <3>2
  <2>2. air' \in [Members -> Seq(Packets)] /\ sendSeq' \in [Members -> 0..(SeqMod - 1)]
    BY <1>1, <1>2, <1>4 DEF MembersTyped
  <2>3. DOMAIN last' = Members /\ DOMAIN taken' = Members /\ sockets' \in [Members -> BOOLEAN]
    BY <1>1, <1>2 DEF MembersTyped
  <2> QED BY <1>1, <1>2, <2>1, <2>2, <2>3 DEF MembersTyped
<1>6. ASSUME NEW n \in Members PROVE SentTyped(n)'
  <2>1. CASE formatted'[n] = formatted[n] /\ slots'[n] = slots[n]
    BY <1>1, <1>2, <2>1, SentStays DEF GroupTyped
  <2>2. CASE n = m /\ slots'[m] = <<>> /\ formatted'[m] = [t \in Senders[m] |-> Free]
    BY <1>4, <2>2, FreeIsNone DEF SentTyped, FreeOrMade
  <2> QED BY <1>1, <1>3, <2>1, <2>2 DEF MembersTyped
<1>7. ASSUME NEW n \in Members PROVE TakenTyped(n)'
  <2>1. CASE n = m
    <3>1. air'[m] = <<>> /\ last'[m] = <<>> /\ taken'[m] = [o \in Others(m) |-> Free] /\ parsed'[m] = Free
      BY <1>1, <1>2 DEF MembersTyped, TakenTyped, Processing
    <3>2. last'[m] \in [DOMAIN last'[m] -> 0..(SeqMod - 1)] /\ DOMAIN last'[m] = {}
      BY <1>4, <3>1
    <3> QED BY <1>4, <2>1, <3>1, <3>2, FreeIsNone DEF TakenTyped, Processing, FreeOrMade
  <2>2. CASE n # m
    <3>1. air'[n] = air[n] /\ last'[n] = last[n] /\ taken'[n] = taken[n]
      BY <1>1, <1>2, <2>2 DEF MembersTyped
    <3> QED BY <1>1, <1>2, <3>1, TakenStays DEF GroupTyped
  <2> QED BY <2>1, <2>2
<1> QED BY <1>5, <1>6, <1>7 DEF GroupTyped

LEMMA LoseTyped ==
  ASSUME GroupTyped, NEW m \in Members, Lose(m)
  PROVE  GroupTyped'
<1>1. MembersTyped /\ changes \in Nat /\ TakenTyped(m)
  BY DEF GroupTyped, MembersTyped
<1>2. /\ air' = [air EXCEPT ![m] = Tail(air[m])] /\ air[m] # <<>> /\ changes' = changes /\ excused' = TRUE
      /\ UNCHANGED <<relay, sendSeq, slots, mutexKept, last, sockets, formatted, ticking, parsed, taken>>
  BY DEF Lose
<1>3. /\ Tail(air[m]) \in Seq(Packets)
      /\ \A i \in DOMAIN Tail(air[m]) : i + 1 \in DOMAIN air[m] /\ Tail(air[m])[i] = air[m][i + 1]
  <2>1. air[m] \in Seq(Packets)
    BY <1>1 DEF MembersTyped
  <2> QED BY <1>2, <2>1, RestOf
<1>4. MembersTyped'
  BY <1>1, <1>2, <1>3 DEF MembersTyped
<1>5. ASSUME NEW n \in Members PROVE SentTyped(n)'
  BY <1>1, <1>2, SentStays DEF GroupTyped
<1>6. ASSUME NEW n \in Members PROVE TakenTyped(n)'
  <2>1. CASE n = m
    <3>1. air'[m] = Tail(air[m])
      BY <1>1, <1>2 DEF MembersTyped
    <3>2. \A i \in DOMAIN air'[m] : air'[m][i].from \in Others(m) /\ Made(air'[m][i], air'[m][i].from, changes)
      BY <1>1, <1>3, <3>1 DEF TakenTyped
    <3> QED BY <1>1, <1>2, <2>1, <3>1, <3>2 DEF TakenTyped, Processing, LastOf
  <2>2. CASE n # m
    <3>1. air'[n] = air[n]
      BY <1>1, <1>2, <2>2 DEF MembersTyped
    <3> QED BY <1>1, <1>2, <3>1, TakenStays DEF GroupTyped
  <2> QED BY <2>1, <2>2
<1> QED BY <1>4, <1>5, <1>6 DEF GroupTyped

LEMMA NothingTyped ==
  ASSUME GroupTyped, UNCHANGED groupVars
  PROVE  GroupTyped'
<1>1. changes \in Nat /\ MembersTyped
  BY DEF GroupTyped, MembersTyped
<1>2. MembersTyped'
  BY <1>1 DEF MembersTyped, groupVars
<1>3. ASSUME NEW n \in Members PROVE SentTyped(n)' /\ TakenTyped(n)'
  BY <1>1, SentStays, TakenStays DEF GroupTyped, groupVars
<1> QED BY <1>2, <1>3 DEF GroupTyped

LEMMA GroupTypedStep == GroupTyped /\ [GroupNext]_groupVars => GroupTyped'
<1> SUFFICES ASSUME GroupTyped, [GroupNext]_groupVars PROVE GroupTyped'
  OBVIOUS
<1>1. ASSUME NEW m \in Members, Driver(m) PROVE GroupTyped'
  BY <1>1, EnqueueTyped, QuickTickTyped, ReceiveTyped, ParsedTyped, TickEndsTyped, CreateSocketsTyped DEF Driver
<1>2. ASSUME NEW m \in Members, Restart(m) \/ Lose(m) PROVE GroupTyped'
  BY <1>2, RestartTyped, LoseTyped
<1>3. ASSUME NEW m \in Members, NEW t \in Senders[m], Change(m, t) \/ MutexTimesOut(m, t) PROVE GroupTyped'
  BY <1>3, ChangeTyped, MutexTimesOutTyped
<1>4. CASE GroupNext
  BY <1>1, <1>2, <1>3, <1>4 DEF GroupNext
<1>5. CASE UNCHANGED groupVars
  BY <1>5, NothingTyped
<1> QED BY <1>4, <1>5

\* The packets are well formed and where they may be, no list outgrows its queue, the
\* table holds other members only, and a packet is parsed in a quick tick only.
THEOREM GroupTypes == GroupSpec => []GroupTypeOK
<1>1. GroupTyped => GroupTypeOK
  <2>1. ASSUME NEW m \in Members, SentTyped(m), TakenTyped(m), MembersTyped
        PROVE  /\ \A i \in DOMAIN slots[m] : slots[m][i] \in Packets
               /\ \A i \in DOMAIN air[m] : air[m][i] \in Packets
               /\ Len(slots[m]) <= QueueSize /\ parsed[m] \in Packets
               /\ DOMAIN last[m] \subseteq Others(m)
               /\ Processing(m) => ticking[m]
    BY <2>1, FreeIsNone DEF SentTyped, TakenTyped, MembersTyped, Made
  <2> QED BY <2>1 DEF GroupTyped, MembersTyped, GroupTypeOK
<1>2. GroupInit => GroupTyped
  BY GroupStarts
<1>3. GroupTyped /\ [GroupNext]_groupVars => GroupTyped'
  BY GroupTypedStep
<1> QED BY <1>1, <1>2, <1>3, PTL DEF GroupSpec

-----------------------------------------------------------------------------
(* The numbers of a group *)

\* The packets there still are: a step makes none but a change's.
Has(m, p) ==
  \/ \E t \in Senders[m] : formatted[m][t] = p
  \/ \E i \in DOMAIN slots[m] : slots[m][i] = p
  \/ \E i \in DOMAIN air[m] : air[m][i] = p
  \/ parsed[m] = p
  \/ \E o \in Others(m) : taken[m][o] = p
Alive(p) == p # Free /\ \E m \in Members : Has(m, p)

LEMMA AliveMade ==
  ASSUME GroupTyped, NEW p, Alive(p)
  PROVE  p.from \in Members /\ Made(p, p.from, changes)
<1>1. PICK m \in Members : Has(m, p)
  BY DEF Alive
<1>2. SentTyped(m) /\ TakenTyped(m) /\ p # Free
  BY DEF GroupTyped, Alive
<1>3. \A o : Made(p, o, changes) => p.from = o
  BY DEF Made
<1>4. \A o \in Others(m) : o \in Members
  BY DEF Others
<1>5. CASE \E t \in Senders[m] : formatted[m][t] = p
  BY <1>2, <1>3, <1>5 DEF SentTyped, FreeOrMade
<1>6. CASE \E i \in DOMAIN slots[m] : slots[m][i] = p
  BY <1>2, <1>3, <1>6 DEF SentTyped, FreeOrMade
<1>7. CASE \E i \in DOMAIN air[m] : air[m][i] = p
  BY <1>2, <1>4, <1>7 DEF TakenTyped
<1>8. CASE parsed[m] = p
  BY <1>2, <1>4, <1>8 DEF TakenTyped, Processing
<1>9. CASE \E o \in Others(m) : taken[m][o] = p
  BY <1>2, <1>3, <1>4, <1>9 DEF TakenTyped, FreeOrMade
<1> QED BY <1>1, <1>5, <1>6, <1>7, <1>8, <1>9 DEF Has

\* Every packet a member has after a step it had before, or one did.
LEMMA NoneMade ==
  ASSUME \A n \in Members : \A p :
           /\ (\E t \in Senders[n] : formatted'[n][t] = p) => p = Free \/ Alive(p)
           /\ (\E i \in DOMAIN slots'[n] : slots'[n][i] = p) => p = Free \/ Alive(p)
           /\ (\E i \in DOMAIN air'[n] : air'[n][i] = p) => p = Free \/ Alive(p)
           /\ parsed'[n] = p => p = Free \/ Alive(p)
           /\ (\E o \in Others(n) : taken'[n][o] = p) => p = Free \/ Alive(p)
  PROVE  \A p : Alive(p)' => Alive(p)
<1> SUFFICES ASSUME NEW p, Alive(p)' PROVE Alive(p)
  OBVIOUS
<1>1. PICK n \in Members : Has(n, p)'
  BY DEF Alive
<1>2. p # Free
  BY DEF Alive
<1>3. \/ \E t \in Senders[n] : formatted'[n][t] = p
      \/ \E i \in DOMAIN slots'[n] : slots'[n][i] = p
      \/ \E i \in DOMAIN air'[n] : air'[n][i] = p
      \/ parsed'[n] = p
      \/ \E o \in Others(n) : taken'[n][o] = p
  BY <1>1 DEF Has
<1> QED BY <1>2, <1>3

\* What is at a member is alive; what a step leaves alone stays alive.
LEMMA Here ==
  ASSUME NEW n \in Members, NEW p
  PROVE  /\ (\E t \in Senders[n] : formatted[n][t] = p) => p = Free \/ Alive(p)
         /\ (\E i \in DOMAIN slots[n] : slots[n][i] = p) => p = Free \/ Alive(p)
         /\ (\E i \in DOMAIN air[n] : air[n][i] = p) => p = Free \/ Alive(p)
         /\ parsed[n] = p => p = Free \/ Alive(p)
         /\ (\E o \in Others(n) : taken[n][o] = p) => p = Free \/ Alive(p)
BY DEF Alive, Has

LEMMA EnqueueMakesNone ==
  ASSUME GroupTyped, NEW m \in Members, NEW t \in Senders[m], Enqueue(m, t) \/ MutexTimesOut(m, t)
  PROVE  \A p : Alive(p)' => Alive(p)
<1>1. /\ formatted' = [formatted EXCEPT ![m][t] = Free] /\ changes' = changes
      /\ UNCHANGED <<parsed, air, taken>>
  BY DEF Enqueue, MutexTimesOut
<1>2. slots' = slots \/ slots' = [slots EXCEPT ![m] = Queued(slots[m], formatted[m][t])]
  BY DEF Enqueue, MutexTimesOut
<1>3. formatted[m][t] \in Packets /\ slots[m] \in Seq(Packets) /\ slots \in [Members -> Seq(Packets)]
  BY DEF GroupTyped, MembersTyped, SentTyped
<1>4. ASSUME NEW n \in Members, NEW u \in Senders[n]
      PROVE  formatted'[n][u] = Free \/ Alive(formatted'[n][u])
  <2>1. formatted'[n][u] = Free \/ formatted'[n][u] = formatted[n][u]
    BY <1>1, Unformatted
  <2> QED BY <2>1, Here
<1>5. ASSUME NEW n \in Members, NEW i \in DOMAIN slots'[n]
      PROVE  slots'[n][i] = Free \/ Alive(slots'[n][i])
  <2>1. CASE slots'[n] = slots[n]
    BY <1>5, <2>1, Here
  <2>2. CASE n = m /\ slots'[m] = Queued(slots[m], formatted[m][t])
    <3>1. slots'[n][i] = formatted[m][t] \/ \E j \in DOMAIN slots[m] : slots'[n][i] = slots[m][j]
      BY <1>3, <1>5, <2>2, QueuedIs DEF PutInto
    <3> QED BY <3>1, Here
  <2> QED BY <1>2, <1>3, <2>1, <2>2
<1>6. \A n \in Members : \A p :
        /\ (\E i \in DOMAIN air'[n] : air'[n][i] = p) => p = Free \/ Alive(p)
        /\ parsed'[n] = p => p = Free \/ Alive(p)
        /\ (\E o \in Others(n) : taken'[n][o] = p) => p = Free \/ Alive(p)
  BY <1>1, Here
<1> QED BY <1>4, <1>5, <1>6, NoneMade

LEMMA TickMakesNone ==
  ASSUME GroupTyped, NEW m \in Members, QuickTick(m)
  PROVE  \A p : Alive(p)' => Alive(p)
<1>1. /\ slots' = [slots EXCEPT ![m] = Emptied(m)]
      /\ air' = [o \in Members |-> IF o # m /\ sockets[o] THEN air[o] \o Sent(m) ELSE air[o]]
      /\ UNCHANGED <<formatted, parsed, taken>>
  BY DEF QuickTick
<1>2. slots \in [Members -> Seq(Packets)] /\ air \in [Members -> Seq(Packets)]
  BY DEF GroupTyped, MembersTyped
<1>3. ASSUME NEW n \in Members, NEW i \in DOMAIN slots'[n]
      PROVE  slots'[n][i] = Free \/ Alive(slots'[n][i])
  <2>1. slots'[n] = IF n = m THEN Emptied(m) ELSE slots[n]
    BY <1>1, <1>2
  <2>2. CASE slots'[n] = slots[n]
    BY <1>3, <2>2, Here
  <2>3. CASE n = m /\ ~mutexKept[m]
    BY <1>3, <2>1, <2>3 DEF Emptied
  <2> QED BY <2>1, <2>2, <2>3 DEF Emptied
<1>4. ASSUME NEW n \in Members, NEW i \in DOMAIN air'[n]
      PROVE  air'[n][i] = Free \/ Alive(air'[n][i])
  <2>1. CASE air'[n] = air[n]
    BY <1>4, <2>1, Here
  <2>2. CASE air'[n] = air[n] \o Sent(m)
    <3>1. Sent(m) \in Seq(Packets) /\ \A j \in DOMAIN Sent(m) : \E k \in DOMAIN slots[m] : Sent(m)[j] = slots[m][k]
      BY SentIs
    <3>2. (\E j \in DOMAIN air[n] : air'[n][i] = air[n][j]) \/ \E j \in DOMAIN Sent(m) : air'[n][i] = Sent(m)[j]
      <4>1. air[n] \in Seq(Packets)
        BY <1>2
      <4>2. ASSUME NEW k \in DOMAIN (air[n] \o Sent(m))
            PROVE  \/ \E j \in DOMAIN air[n] : (air[n] \o Sent(m))[k] = air[n][j]
                   \/ \E j \in DOMAIN Sent(m) : (air[n] \o Sent(m))[k] = Sent(m)[j]
        <5>1. Sent(m) \in Seq(Packets)
          BY <3>1
        <5> QED BY <4>1, <5>1, JoinedFrom
      <4> QED BY <1>4, <2>2, <4>2
    <3> QED BY <3>1, <3>2, Here
  <2> QED BY <1>1, <2>1, <2>2
<1>5. \A n \in Members : \A p :
        /\ (\E t \in Senders[n] : formatted'[n][t] = p) => p = Free \/ Alive(p)
        /\ parsed'[n] = p => p = Free \/ Alive(p)
        /\ (\E o \in Others(n) : taken'[n][o] = p) => p = Free \/ Alive(p)
  BY <1>1, Here
<1> QED BY <1>3, <1>4, <1>5, NoneMade

LEMMA ReceiveMakesNone ==
  ASSUME GroupTyped, NEW m \in Members, Receive(m) \/ Lose(m)
  PROVE  \A p : Alive(p)' => Alive(p)
<1>1. /\ parsed' = parsed \/ parsed' = [parsed EXCEPT ![m] = Head(air[m])]
      /\ air' = [air EXCEPT ![m] = Tail(air[m])] /\ air[m] # <<>>
      /\ UNCHANGED <<slots, formatted, taken>>
  BY DEF Receive, Lose
<1>2. air \in [Members -> Seq(Packets)] /\ parsed \in [Members -> Packets]
  BY DEF GroupTyped, MembersTyped
<1>3. /\ Head(air[m]) = air[m][1] /\ 1 \in DOMAIN air[m]
      /\ \A i \in DOMAIN Tail(air[m]) : i + 1 \in DOMAIN air[m] /\ Tail(air[m])[i] = air[m][i + 1]
  <2>1. air[m] \in Seq(Packets)
    BY <1>2
  <2> QED BY <1>1, <2>1, RestOf
<1>4. ASSUME NEW n \in Members, NEW i \in DOMAIN air'[n]
      PROVE  air'[n][i] = Free \/ Alive(air'[n][i])
  <2>1. CASE air'[n] = air[n]
    BY <1>4, <2>1, Here
  <2>2. CASE n = m /\ air'[m] = Tail(air[m])
    <3>1. i + 1 \in DOMAIN air[m] /\ air'[m][i] = air[m][i + 1]
      BY <1>3, <1>4, <2>2
    <3> QED BY <2>2, <3>1, Here
  <2> QED BY <1>1, <1>2, <2>1, <2>2
<1>5. ASSUME NEW n \in Members PROVE parsed'[n] = Free \/ Alive(parsed'[n])
  <2>1. parsed'[n] = parsed[n] \/ (n = m /\ parsed'[m] = air[m][1])
    BY <1>1, <1>2, <1>3
  <2> QED BY <1>3, <2>1, Here
<1>6. \A n \in Members : \A p :
        /\ (\E t \in Senders[n] : formatted'[n][t] = p) => p = Free \/ Alive(p)
        /\ (\E i \in DOMAIN slots'[n] : slots'[n][i] = p) => p = Free \/ Alive(p)
        /\ (\E o \in Others(n) : taken'[n][o] = p) => p = Free \/ Alive(p)
  BY <1>1, Here
<1> QED BY <1>4, <1>5, <1>6, NoneMade

LEMMA ParsedMakesNone ==
  ASSUME GroupTyped, NEW m \in Members, Parsed(m)
  PROVE  \A p : Alive(p)' => Alive(p)
<1> PICK q : q = parsed[m]
  OBVIOUS
<1>1. TakesOrRefuses(m, q)
  BY ParsedIs
<1>2. UNCHANGED <<slots, air>>
  BY DEF Parsed
<1>3. ASSUME NEW n \in Members PROVE parsed'[n] = Free \/ Alive(parsed'[n])
  <2>1. parsed'[n] = Free \/ parsed'[n] = parsed[n]
    BY <1>1 DEF TakesOrRefuses
  <2> QED BY <2>1, Here
<1>4. ASSUME NEW n \in Members, NEW o \in Others(n) PROVE taken'[n][o] = Free \/ Alive(taken'[n][o])
  <2>1. taken'[n][o] = taken[n][o] \/ taken'[n][o] = q
    BY <1>1, <1>4 DEF TakesOrRefuses
  <2> QED BY <2>1, Here
<1>5. \A n \in Members : \A p :
        /\ (\E t \in Senders[n] : formatted'[n][t] = p) => p = Free \/ Alive(p)
        /\ (\E i \in DOMAIN slots'[n] : slots'[n][i] = p) => p = Free \/ Alive(p)
        /\ (\E i \in DOMAIN air'[n] : air'[n][i] = p) => p = Free \/ Alive(p)
  BY <1>1, <1>2, Here DEF TakesOrRefuses
<1> QED BY <1>3, <1>4, <1>5, NoneMade

LEMMA RestartMakesNone ==
  ASSUME GroupTyped, NEW m \in Members, Restart(m)
  PROVE  \A p : Alive(p)' => Alive(p)
<1>1. /\ air' = [air EXCEPT ![m] = <<>>] /\ parsed' = parsed
      /\ taken' = [taken EXCEPT ![m] = [o \in Others(m) |-> Free]]
      /\ slots' = slots \/ slots' = [slots EXCEPT ![m] = <<>>]
      /\ formatted' = formatted \/ formatted' = [formatted EXCEPT ![m] = [t \in Senders[m] |-> Free]]
  BY DEF Restart
<1>2. /\ DOMAIN air = Members /\ DOMAIN slots = Members /\ DOMAIN taken = Members
      /\ DOMAIN formatted = Members /\ DOMAIN <<>> = {}
  BY DEF GroupTyped, MembersTyped
<1>3. ASSUME NEW n \in Members, NEW t \in Senders[n]
      PROVE  formatted'[n][t] = Free \/ Alive(formatted'[n][t])
  <2>1. formatted'[n][t] = Free \/ formatted'[n][t] = formatted[n][t]
    BY <1>1, <1>2
  <2> QED BY <2>1, Here
<1>4. ASSUME NEW n \in Members, NEW o \in Others(n) PROVE taken'[n][o] = Free \/ Alive(taken'[n][o])
  <2>1. taken'[n][o] = Free \/ taken'[n][o] = taken[n][o]
    BY <1>1, <1>2
  <2> QED BY <2>1, Here
<1>5. ASSUME NEW n \in Members, NEW p
      PROVE  /\ (\E i \in DOMAIN slots'[n] : slots'[n][i] = p) => p = Free \/ Alive(p)
             /\ (\E i \in DOMAIN air'[n] : air'[n][i] = p) => p = Free \/ Alive(p)
             /\ parsed'[n] = p => p = Free \/ Alive(p)
  <2>1. slots'[n] = slots[n] \/ slots'[n] = <<>>
    BY <1>1, <1>2
  <2>2. air'[n] = air[n] \/ air'[n] = <<>>
    BY <1>1, <1>2
  <2> QED BY <1>1, <1>2, <2>1, <2>2, Here
<1> QED BY <1>3, <1>4, <1>5, NoneMade

LEMMA NothingMakesNone ==
  ASSUME UNCHANGED <<formatted, slots, air, parsed, taken>>
  PROVE  \A p : Alive(p)' => Alive(p)
BY DEF Alive, Has

LEMMA ChangeMakesOne ==
  ASSUME GroupTyped, NEW m \in Members, NEW t \in Senders[m], Change(m, t),
         NEW q, q = Packet(m, 1 - relay[m])
  PROVE  \A p : Alive(p)' => Alive(p) \/ p = q
<1> SUFFICES ASSUME NEW p, Alive(p)', p # q PROVE Alive(p)
  OBVIOUS
<1>1. UNCHANGED <<slots, air, parsed, taken>> /\ p # Free
  BY DEF Change, Alive
<1>2. PICK n \in Members : Has(n, p)'
  BY DEF Alive
<1>3. CASE \E u \in Senders[n] : formatted'[n][u] = p
  <2>1. PICK u \in Senders[n] : formatted'[n][u] = p
    BY <1>3
  <2>2. SentTyped(n) /\ DOMAIN formatted = Members
    BY DEF GroupTyped, MembersTyped
  <2>3. formatted' = formatted \/ formatted' = [formatted EXCEPT ![m][t] = q]
    BY DEF Change, Formatted
  <2>4. formatted'[n][u] = formatted[n][u] \/ formatted'[n][u] = q
    <3>1. DOMAIN formatted[n] = Senders[n]
      BY <2>2 DEF SentTyped
    <3>2. ASSUME formatted' = [formatted EXCEPT ![m][t] = q]
          PROVE  formatted'[n][u] = formatted[n][u] \/ formatted'[n][u] = q
      BY <2>2, <3>1, <3>2
    <3> QED BY <2>3, <3>2
  <2> QED BY <1>1, <2>1, <2>4, Here
<1>4. CASE ~(\E u \in Senders[n] : formatted'[n][u] = p)
  <2>1. \/ \E i \in DOMAIN slots[n] : slots[n][i] = p
        \/ \E i \in DOMAIN air[n] : air[n][i] = p
        \/ parsed[n] = p
        \/ \E o \in Others(n) : taken[n][o] = p
    BY <1>1, <1>2, <1>4 DEF Has
  <2> QED BY <1>1, <2>1, Here
<1> QED BY <1>3, <1>4

\* A change makes one packet, so a member's packets are told apart by the change.
OneEach ==
  \A p, q : Alive(p) /\ Alive(q) /\ p.from = q.from /\ p.made = q.made => p = q

LEMMA ChangeKeepsOneEach ==
  ASSUME GroupTyped, OneEach, NEW m \in Members, NEW t \in Senders[m], Change(m, t)
  PROVE  OneEach'
<1> PICK q : q = Packet(m, 1 - relay[m])
  OBVIOUS
<1>1. MembersTyped /\ 1 - relay[m] \in {0, 1}
  BY OtherLevel DEF GroupTyped
<1>2. q.made = changes + 1 /\ changes \in Nat
  BY <1>1, PacketMade DEF MembersTyped
<1>3. \A p : Alive(p)' => Alive(p) \/ p = q
  BY ChangeMakesOne
<1>4. ASSUME NEW p, Alive(p) PROVE p.made # q.made
  <2>1. Made(p, p.from, changes)
    BY <1>4, AliveMade
  <2> QED BY <1>2, <2>1 DEF Made
<1> QED BY <1>3, <1>4 DEF OneEach

LEMMA OneEachStep == GroupTyped /\ OneEach /\ [GroupNext]_groupVars => OneEach'
<1> SUFFICES ASSUME GroupTyped, OneEach, [GroupNext]_groupVars PROVE OneEach'
  OBVIOUS
<1>1. ASSUME \A p : Alive(p)' => Alive(p) PROVE OneEach'
  BY <1>1 DEF OneEach
<1>2. ASSUME NEW m \in Members, NEW t \in Senders[m], Enqueue(m, t) \/ MutexTimesOut(m, t) PROVE OneEach'
  BY <1>1, <1>2, EnqueueMakesNone
<1>3. ASSUME NEW m \in Members, QuickTick(m) PROVE OneEach'
  BY <1>1, <1>3, TickMakesNone
<1>4. ASSUME NEW m \in Members, Receive(m) \/ Lose(m) PROVE OneEach'
  BY <1>1, <1>4, ReceiveMakesNone
<1>5. ASSUME NEW m \in Members, Parsed(m) PROVE OneEach'
  BY <1>1, <1>5, ParsedMakesNone
<1>6. ASSUME NEW m \in Members, TickEnds(m) \/ CreateSockets(m) PROVE OneEach'
  BY <1>1, <1>6, NothingMakesNone DEF TickEnds, CreateSockets
<1>7. ASSUME NEW m \in Members, Restart(m) PROVE OneEach'
  BY <1>1, <1>7, RestartMakesNone
<1>8. ASSUME NEW m \in Members, NEW t \in Senders[m], Change(m, t) PROVE OneEach'
  BY <1>8, ChangeKeepsOneEach
<1>9. CASE UNCHANGED groupVars
  BY <1>1, <1>9, NothingMakesNone DEF groupVars
<1> QED BY <1>2, <1>3, <1>4, <1>5, <1>6, <1>7, <1>8, <1>9 DEF GroupNext, Driver

LEMMA OneEachStarts == GroupInit => OneEach
<1> SUFFICES ASSUME GroupInit PROVE OneEach
  OBVIOUS
<1>1. ASSUME NEW p PROVE ~Alive(p)
  <2>1. ASSUME NEW m \in Members, Has(m, p) PROVE p = Free
    <3>1. /\ formatted[m] = [t \in Senders[m] |-> Free] /\ slots[m] = <<>> /\ air[m] = <<>>
          /\ parsed[m] = Free /\ taken[m] = [o \in Others(m) |-> Free]
      BY DEF GroupInit
    <3> QED BY <2>1, <3>1 DEF Has
  <2> QED BY <2>1 DEF Alive
<1> QED BY <1>1 DEF OneEach

-----------------------------------------------------------------------------
(* The order of a group's packets *)

\* p, if it is the older of the two, is no hard reset behind q.
Near(p, q) == p.made < q.made => q.seq <= p.seq + HardReset

\* What a member has still to send, and what of it has come to m.
InList(o, p) == p # Free /\ \E i \in DOMAIN slots[o] : slots[o][i] = p
Formed(o, p) == p # Free /\ \E t \in Senders[o] : formatted[o][t] = p
Came(m, o, p) ==
  /\ p # Free /\ p.from = o
  /\ taken[m][o] = p \/ parsed[m] = p \/ \E j \in DOMAIN air[m] : air[m][j] = p
WasQueued(o, p) == InList(o, p) \/ \E m \in Members : o \in Others(m) /\ Came(m, o, p)

\* p is taken by m after q, if they are taken.
Follows(m, o, p, q) ==
  /\ p # Free /\ p.from = o /\ q # Free /\ q.from = o
  /\ \/ \E i, j \in DOMAIN air[m] : i < j /\ air[m][i] = q /\ air[m][j] = p
     \/ (\E j \in DOMAIN air[m] : air[m][j] = p) /\ (parsed[m] = q \/ taken[m][o] = q)
     \/ parsed[m] = p /\ taken[m][o] = q

\* What waits is near all that was queued before it goes, so what is sent is near all
\* that it follows.
WaitsNear(o) == \A p, q : (InList(o, p) \/ Formed(o, p)) /\ WasQueued(o, q) => Near(p, q)
FlightNear(m, o) == \A p, q : Follows(m, o, p, q) => Near(p, q)
InOrder ==
  \A o \in Members : WaitsNear(o) /\ \A m \in Members : o \in Others(m) => FlightNear(m, o)

LEMMA WaitsMade ==
  ASSUME GroupTyped, NEW o \in Members
  PROVE  \A p : InList(o, p) \/ Formed(o, p) => Made(p, o, changes) /\ p.seq \in Nat /\ p.made \in 1 .. changes
<1>1. ASSUME NEW p, InList(o, p) \/ Formed(o, p) PROVE Made(p, o, changes)
  BY <1>1 DEF GroupTyped, SentTyped, FreeOrMade, InList, Formed
<1> QED BY <1>1 DEF Made, Packets

LEMMA CameMade ==
  ASSUME GroupTyped, NEW m \in Members, NEW o \in Others(m)
  PROVE  \A p : Came(m, o, p) => Made(p, o, changes) /\ p.seq \in Nat /\ p.made \in 1 .. changes
<1>1. ASSUME NEW p, Came(m, o, p) PROVE Made(p, o, changes)
  <2>1. TakenTyped(m) /\ p # Free /\ p.from = o
    BY <1>1 DEF GroupTyped, Came
  <2>2. CASE taken[m][o] = p
    BY <2>1, <2>2 DEF TakenTyped, FreeOrMade
  <2>3. CASE parsed[m] = p
    BY <2>1, <2>3 DEF TakenTyped, Processing
  <2>4. CASE \E j \in DOMAIN air[m] : air[m][j] = p
    BY <2>1, <2>4 DEF TakenTyped
  <2> QED BY <1>1, <2>2, <2>3, <2>4 DEF Came
<1> QED BY <1>1 DEF Made, Packets

LEMMA QueuedMade ==
  ASSUME GroupTyped, NEW o \in Members
  PROVE  \A p : WasQueued(o, p) => p.made \in 1 .. changes
BY WaitsMade, CameMade DEF WasQueued

\* What a step leaves in order.
LEMMA WaitsStay ==
  ASSUME NEW o \in Members, WaitsNear(o),
         \A p : InList(o, p)' \/ Formed(o, p)' => InList(o, p) \/ Formed(o, p),
         \A m \in Members : o \in Others(m) =>
           \A p : Came(m, o, p)' => Came(m, o, p) \/ InList(o, p),
         \A p : InList(o, p)' => InList(o, p)
  PROVE  WaitsNear(o)'
<1>1. \A q : WasQueued(o, q)' => WasQueued(o, q)
  BY DEF WasQueued
<1> QED BY <1>1 DEF WaitsNear, Near

LEMMA FlightStays ==
  ASSUME NEW m \in Members, NEW o \in Others(m), FlightNear(m, o),
         \A p, q : Follows(m, o, p, q)' => Follows(m, o, p, q)
  PROVE  FlightNear(m, o)'
BY DEF FlightNear, Near

LEMMA SameCame ==
  ASSUME NEW m \in Members, NEW o \in Others(m),
         air'[m] = air[m], parsed'[m] = parsed[m], taken'[m] = taken[m]
  PROVE  /\ \A p, q : Follows(m, o, p, q)' <=> Follows(m, o, p, q)
         /\ \A p : Came(m, o, p)' <=> Came(m, o, p)
BY DEF Follows, Came

LEMMA SameWaits ==
  ASSUME NEW o \in Members, slots'[o] = slots[o], formatted'[o] = formatted[o]
  PROVE  \A p : (InList(o, p)' <=> InList(o, p)) /\ (Formed(o, p)' <=> Formed(o, p))
BY DEF InList, Formed

\* A step after which nothing waits, came or follows that did not before.
LEMMA StaysInOrder ==
  ASSUME InOrder,
         \A o \in Members : \A p : /\ InList(o, p)' => InList(o, p)
                                   /\ Formed(o, p)' => Formed(o, p),
         \A m \in Members : \A o \in Others(m) :
           /\ \A p : Came(m, o, p)' => Came(m, o, p)
           /\ \A p, q : Follows(m, o, p, q)' => Follows(m, o, p, q)
  PROVE  InOrder'
<1>1. ASSUME NEW o \in Members PROVE WaitsNear(o)'
  BY WaitsStay DEF InOrder
<1>2. ASSUME NEW o \in Members, NEW m \in Members, o \in Others(m) PROVE FlightNear(m, o)'
  BY <1>2, FlightStays DEF InOrder
<1> QED BY <1>1, <1>2 DEF InOrder

LEMMA ChangeInOrder ==
  ASSUME GroupTyped, InOrder, NEW n \in Members, NEW t \in Senders[n], Change(n, t)
  PROVE  InOrder'
<1>1. /\ changes' = changes + 1 /\ formatted' = Formatted(n, t, 1 - relay[n])
      /\ UNCHANGED <<slots, parsed, air, taken>>
  BY DEF Change
<1>2. changes \in Nat /\ DOMAIN formatted = Members /\ DOMAIN formatted[n] = Senders[n]
  BY DEF GroupTyped, MembersTyped, SentTyped
<1> DEFINE c == Packet(n, 1 - relay[n])
<1>3. c.made = changes + 1
  BY DEF Packet
<1>4. \A o \in Members : \A p : Formed(o, p)' => Formed(o, p) \/ (o = n /\ p = c)
  <2>1. formatted' = formatted \/ formatted' = [formatted EXCEPT ![n][t] = c]
    BY <1>1 DEF Formatted
  <2>2. ASSUME NEW o \in Members, NEW u \in Senders[o]
        PROVE  formatted'[o][u] = formatted[o][u] \/ (o = n /\ formatted'[o][u] = c)
    <3>1. CASE o # n
      BY <1>2, <2>1, <3>1
    <3>2. CASE o = n
      BY <1>2, <2>1, <3>2
    <3> QED BY <3>1, <3>2
  <2> QED BY <2>2 DEF Formed
<1> HIDE DEF c
<1>5. \A o \in Members : \A p : InList(o, p)' <=> InList(o, p)
  BY <1>1 DEF InList
<1>6. ASSUME NEW m \in Members, NEW o \in Others(m)
      PROVE  /\ \A p, q : Follows(m, o, p, q)' <=> Follows(m, o, p, q)
             /\ \A p : Came(m, o, p)' <=> Came(m, o, p)
  BY <1>1, <1>6, SameCame
<1>7. ASSUME NEW o \in Members PROVE WaitsNear(o)'
  <2>1. \A q : WasQueued(o, q)' => WasQueued(o, q)
    BY <1>5, <1>6 DEF WasQueued
  <2>2. \A q : WasQueued(o, q) => ~(c.made < q.made)
    BY <1>2, <1>3, QueuedMade
  <2>3. WaitsNear(o)
    BY DEF InOrder
  <2> QED BY <1>4, <1>5, <2>1, <2>2, <2>3 DEF WaitsNear, Near
<1>8. ASSUME NEW o \in Members, NEW m \in Members, o \in Others(m) PROVE FlightNear(m, o)'
  BY <1>6, <1>8, FlightStays DEF InOrder
<1> QED BY <1>7, <1>8 DEF InOrder

\* A packet that is queued has outrun none that still waits.
LEMMA EnqueueInOrder ==
  ASSUME GroupTyped, InOrder, NEW n \in Members, NEW t \in Senders[n], Enqueue(n, t), ~outrun'
  PROVE  InOrder'
<1> PICK c : c = formatted[n][t]
  OBVIOUS
<1>1. /\ c # Free /\ formatted' = [formatted EXCEPT ![n][t] = Free] /\ changes' = changes
      /\ UNCHANGED <<parsed, air, taken>>
  BY DEF Enqueue
<1>2. /\ c \in Packets /\ slots \in [Members -> Seq(Packets)] /\ slots[n] \in Seq(Packets)
      /\ DOMAIN formatted = Members /\ DOMAIN formatted[n] = Senders[n]
  BY DEF GroupTyped, MembersTyped, SentTyped
<1>3. \/ slots' = slots
      \/ slots' = [slots EXCEPT ![n] = Queued(slots[n], c)] /\ ~Outruns(n, t)
  BY DEF Enqueue
<1>4. Formed(n, c)
  BY <1>1 DEF Formed
<1>5. \A o \in Members : \A p : Formed(o, p)' => Formed(o, p)
  <2>1. \A o \in Members : \A u \in Senders[o] : formatted'[o][u] = formatted[o][u] \/ formatted'[o][u] = Free
    BY <1>1, Unformatted
  <2> QED BY <2>1 DEF Formed
<1>6. ASSUME NEW m \in Members, NEW o \in Others(m)
      PROVE  /\ \A p, q : Follows(m, o, p, q)' <=> Follows(m, o, p, q)
             /\ \A p : Came(m, o, p)' <=> Came(m, o, p)
  BY <1>1, <1>6, SameCame
<1>7. CASE slots' = slots
  <2>1. \A o \in Members : \A p : InList(o, p)' => InList(o, p)
    BY <1>7 DEF InList
  <2> QED BY <1>5, <1>6, <2>1, StaysInOrder
<1>8. CASE slots' = [slots EXCEPT ![n] = Queued(slots[n], c)] /\ ~Outruns(n, t)
  <2>1. \A o \in Members : \A p : InList(o, p)' => InList(o, p) \/ (o = n /\ p = c)
    <3>1. PutInto(Queued(slots[n], c), slots[n], c)
      BY <1>2, QueuedIs
    <3>2. slots'[n] = Queued(slots[n], c) /\ \A o \in Members \ {n} : slots'[o] = slots[o]
      BY <1>2, <1>8
    <3>3. \A i \in DOMAIN slots'[n] : slots'[n][i] = c \/ \E j \in DOMAIN slots[n] : slots'[n][i] = slots[n][j]
      BY <3>1, <3>2 DEF PutInto
    <3>4. ASSUME NEW o \in Members, NEW p, InList(o, p)' PROVE InList(o, p) \/ (o = n /\ p = c)
      <4>1. CASE o = n
        BY <3>3, <3>4, <4>1 DEF InList
      <4>2. CASE o # n
        <5>1. slots'[o] = slots[o]
          BY <3>2, <4>2
        <5> QED BY <3>4, <5>1 DEF InList
      <4> QED BY <4>1, <4>2
    <3> QED BY <3>4
  <2>2. \A p : (InList(n, p) \/ Formed(n, p)) /\ p # c => ~(p.seq + HardReset < c.seq)
    BY <1>8 DEF Outruns, InList, Formed
  <2>3. \A p : InList(n, p) \/ Formed(n, p) => Near(p, c)
    <3>1. ASSUME NEW p, InList(n, p) \/ Formed(n, p) PROVE Near(p, c)
      <4>1. p.seq \in Nat /\ c.seq \in Nat /\ p.made \in Nat /\ HardReset \in Nat
        BY <1>4, <3>1, WaitsMade
      <4>2. CASE p = c
        BY <4>1, <4>2 DEF Near
      <4>3. CASE p # c
        BY <2>2, <3>1, <4>1, <4>3 DEF Near
      <4> QED BY <4>2, <4>3
    <3> QED BY <3>1
  <2>4. ASSUME NEW o \in Members PROVE WaitsNear(o)'
    <3>1. \A q : WasQueued(o, q)' => WasQueued(o, q) \/ (o = n /\ q = c)
      BY <1>6, <2>1 DEF WasQueued
    <3>2. \A p : InList(o, p)' \/ Formed(o, p)' => InList(o, p) \/ Formed(o, p)
      BY <1>4, <1>5, <2>1
    <3>3. WaitsNear(o)
      BY DEF InOrder
    <3> QED BY <2>3, <3>1, <3>2, <3>3 DEF WaitsNear, Near
  <2>5. ASSUME NEW o \in Members, NEW m \in Members, o \in Others(m) PROVE FlightNear(m, o)'
    BY <1>6, <2>5, FlightStays DEF InOrder
  <2> QED BY <2>4, <2>5 DEF InOrder
<1> QED BY <1>3, <1>7, <1>8

\* What a list sends follows what was queued before only.
LEMMA TickInOrder ==
  ASSUME GroupTyped, InOrder, NEW n \in Members, QuickTick(n)
  PROVE  InOrder'
<1>1. /\ slots' = [slots EXCEPT ![n] = Emptied(n)]
      /\ air' = [o \in Members |-> IF o # n /\ sockets[o] THEN air[o] \o Sent(n) ELSE air[o]]
      /\ UNCHANGED <<formatted, parsed, taken>>
  BY DEF QuickTick
<1>2. slots \in [Members -> Seq(Packets)] /\ air \in [Members -> Seq(Packets)]
  BY DEF GroupTyped, MembersTyped
<1>3. /\ Sent(n) \in Seq(Packets)
      /\ \A i \in DOMAIN Sent(n) : InList(n, Sent(n)[i]) /\ Sent(n)[i].from = n
  <2>1. /\ Sent(n) \in Seq(Packets)
        /\ \A i \in DOMAIN Sent(n) : Made(Sent(n)[i], n, changes) /\ \E j \in DOMAIN slots[n] : Sent(n)[i] = slots[n][j]
    BY SentIs
  <2>2. \A p : Made(p, n, changes) => p # Free /\ p.from = n
    BY FreeIsNone DEF Made
  <2> QED BY <2>1, <2>2 DEF InList
<1>4. \A o \in Members : \A p : /\ InList(o, p)' => InList(o, p)
                                /\ Formed(o, p)' => Formed(o, p)
  <2>1. \A o \in Members : slots'[o] = slots[o] \/ \A i \in DOMAIN slots'[o] : slots'[o][i] = Free
    BY <1>1, <1>2 DEF Emptied
  <2> QED BY <1>1, <2>1 DEF InList, Formed
<1>5. ASSUME NEW o \in Members, NEW m \in Members, o \in Others(m)
      PROVE  /\ \A p : Came(m, o, p)' => Came(m, o, p) \/ InList(o, p)
             /\ \A p, q : Follows(m, o, p, q)' =>
                  Follows(m, o, p, q) \/ (InList(o, p) /\ (Came(m, o, q) \/ InList(o, q)))
  <2>1. parsed'[m] = parsed[m] /\ taken'[m] = taken[m]
    BY <1>1
  <2>2. CASE air'[m] = air[m]
    <3>1. /\ \A p, q : Follows(m, o, p, q)' <=> Follows(m, o, p, q)
          /\ \A p : Came(m, o, p)' <=> Came(m, o, p)
      BY <1>5, <2>1, <2>2, SameCame
    <3> QED BY <3>1
  <2>3. CASE air'[m] = air[m] \o Sent(n)
    <3> DEFINE A == air[m] B == Sent(n) C == air[m] \o Sent(n)
    <3>1. A \in Seq(Packets)
      BY <1>2
    <3>2. /\ DOMAIN C = 1 .. (Len(A) + Len(B)) /\ DOMAIN A = 1 .. Len(A) /\ DOMAIN B = 1 .. Len(B)
          /\ Len(A) \in Nat /\ Len(B) \in Nat
          /\ \A i \in 1 .. Len(A) : C[i] = A[i]
          /\ \A i \in 1 .. Len(B) : C[Len(A) + i] = B[i]
      BY <1>3, <3>1, JoinedIs
    <3>3. air'[m] = C /\ air[m] = A
      BY <2>3
    <3>4. \A i \in DOMAIN B : InList(n, B[i]) /\ B[i].from = n
      BY <1>3
    <3> HIDE DEF A, B, C
    <3>5. ASSUME NEW j \in DOMAIN C, C[j].from = o
          PROVE  (j \in DOMAIN A /\ C[j] = A[j]) \/ (j > Len(A) /\ InList(o, C[j]))
      <4>1. CASE j \in DOMAIN A
        BY <3>2, <4>1
      <4>2. CASE j \notin DOMAIN A
        <5>1. j - Len(A) \in DOMAIN B /\ Len(A) + (j - Len(A)) = j /\ j > Len(A)
          BY <3>2, <4>2
        <5> QED BY <3>2, <3>4, <3>5, <5>1
      <4> QED BY <4>1, <4>2
    <3>6. ASSUME NEW p, Came(m, o, p)' PROVE Came(m, o, p) \/ InList(o, p)
      <4>1. p # Free /\ p.from = o
        BY <3>6 DEF Came
      <4>2. taken[m][o] = p \/ parsed[m] = p \/ \E j \in DOMAIN C : C[j] = p
        BY <2>1, <3>3, <3>6 DEF Came
      <4> QED BY <3>3, <3>5, <4>1, <4>2 DEF Came
    <3>7. ASSUME NEW p, NEW q, Follows(m, o, p, q)'
          PROVE  Follows(m, o, p, q) \/ (InList(o, p) /\ (Came(m, o, q) \/ InList(o, q)))
      <4>1. p # Free /\ p.from = o /\ q # Free /\ q.from = o
        BY <3>7 DEF Follows
      <4>2. CASE \E i, j \in DOMAIN C : i < j /\ C[i] = q /\ C[j] = p
        <5>1. PICK i \in DOMAIN C, j \in DOMAIN C : i < j /\ C[i] = q /\ C[j] = p
          BY <4>2
        <5>2. CASE j \in DOMAIN A /\ C[j] = A[j]
          <6>1. i \in DOMAIN A /\ C[i] = A[i]
            BY <3>2, <5>1, <5>2
          <6> QED BY <3>3, <4>1, <5>1, <5>2, <6>1 DEF Follows
        <5>3. CASE InList(o, C[j])
          <6>1. CASE i \in DOMAIN A /\ C[i] = A[i]
            BY <3>3, <4>1, <5>1, <5>3, <6>1 DEF Came
          <6>2. CASE InList(o, C[i])
            BY <5>1, <5>3, <6>2
          <6> QED BY <3>5, <4>1, <5>1, <6>1, <6>2
        <5> QED BY <3>5, <4>1, <5>1, <5>2, <5>3
      <4>3. CASE (\E j \in DOMAIN C : C[j] = p) /\ (parsed[m] = q \/ taken[m][o] = q)
        <5>1. PICK j \in DOMAIN C : C[j] = p
          BY <4>3
        <5>2. Came(m, o, q)
          BY <4>1, <4>3 DEF Came
        <5>3. CASE j \in DOMAIN A /\ C[j] = A[j]
          BY <3>3, <4>1, <4>3, <5>1, <5>3 DEF Follows
        <5> QED BY <3>5, <4>1, <5>1, <5>2, <5>3
      <4>4. CASE parsed[m] = p /\ taken[m][o] = q
        BY <4>1, <4>4 DEF Follows
      <4> QED BY <2>1, <3>3, <3>7, <4>2, <4>3, <4>4 DEF Follows
    <3> QED BY <3>6, <3>7
  <2> QED BY <1>1, <2>2, <2>3
<1>6. ASSUME NEW o \in Members PROVE WaitsNear(o)'
  BY <1>4, <1>5, WaitsStay DEF InOrder
<1>7. ASSUME NEW o \in Members, NEW m \in Members, o \in Others(m) PROVE FlightNear(m, o)'
  <2>1. FlightNear(m, o) /\ WaitsNear(o)
    BY <1>7 DEF InOrder
  <2>2. \A p, q : InList(o, p) /\ (Came(m, o, q) \/ InList(o, q)) => Near(p, q)
    BY <1>7, <2>1 DEF WaitsNear, WasQueued
  <2>3. \A p, q : Follows(m, o, p, q)' => Near(p, q)
    BY <1>5, <1>7, <2>1, <2>2 DEF FlightNear
  <2> QED BY <2>3 DEF FlightNear, Near
<1> QED BY <1>6, <1>7 DEF InOrder

LEMMA ReceiveInOrder ==
  ASSUME GroupTyped, InOrder, NEW n \in Members, Receive(n) \/ Lose(n)
  PROVE  InOrder'
<1>1. /\ air[n] # <<>> /\ air' = [air EXCEPT ![n] = Tail(air[n])]
      /\ UNCHANGED <<slots, formatted, taken>>
      /\ parsed' = parsed \/ (parsed[n] = Free /\ parsed' = [parsed EXCEPT ![n] = Head(air[n])])
  BY DEF Receive, Lose, Processing
<1>2. air \in [Members -> Seq(Packets)] /\ parsed \in [Members -> Packets] /\ air[n] \in Seq(Packets)
  BY DEF GroupTyped, MembersTyped
<1>3. /\ Head(air[n]) = air[n][1] /\ 1 \in DOMAIN air[n]
      /\ \A i \in DOMAIN Tail(air[n]) : i + 1 \in DOMAIN air[n] /\ Tail(air[n])[i] = air[n][i + 1] /\ i \in Nat /\ i > 0
  <2>1. DOMAIN Tail(air[n]) \subseteq Nat \ {0}
    BY <1>1, <1>2
  <2> QED BY <1>1, <1>2, <2>1, RestOf
<1>4. ASSUME NEW m \in Members, NEW o \in Others(m)
      PROVE  /\ \A p : Came(m, o, p)' => Came(m, o, p)
             /\ \A p, q : Follows(m, o, p, q)' => Follows(m, o, p, q)
  <2>3. CASE m # n
    <3>1. air'[m] = air[m] /\ parsed'[m] = parsed[m] /\ taken'[m] = taken[m]
      BY <1>1, <1>2, <2>3
    <3> QED BY <1>4, <3>1, SameCame
  <2>4. CASE m = n
    <3> DEFINE A == air[n] T == Tail(air[n])
    <3>1. air'[n] = T /\ taken'[n] = taken[n]
      BY <1>1, <1>2
    <3>2. parsed'[n] = parsed[n] \/ (parsed[n] = Free /\ parsed'[n] = A[1])
      BY <1>1, <1>2, <1>3
    <3>3. 1 \in DOMAIN A /\ \A i \in DOMAIN T : i + 1 \in DOMAIN A /\ T[i] = A[i + 1] /\ i \in Nat /\ i > 0
      BY <1>3
    <3> HIDE DEF A, T
    <3>4. ASSUME NEW p, Came(m, o, p)' PROVE Came(m, o, p)
      <4>1. p # Free /\ p.from = o
        BY <3>4 DEF Came
      <4>2. taken'[n][o] = p \/ parsed'[n] = p \/ \E j \in DOMAIN T : T[j] = p
        BY <2>4, <3>1, <3>4 DEF Came
      <4> QED BY <2>4, <3>1, <3>2, <3>3, <4>1, <4>2 DEF Came, A
    <3>5. ASSUME NEW p, NEW q, Follows(m, o, p, q)' PROVE Follows(m, o, p, q)
      <4>1. p # Free /\ p.from = o /\ q # Free /\ q.from = o
        BY <3>5 DEF Follows
      <4>2. CASE \E i, j \in DOMAIN T : i < j /\ T[i] = q /\ T[j] = p
        <5>1. PICK i \in DOMAIN T, j \in DOMAIN T : i < j /\ T[i] = q /\ T[j] = p
          BY <4>2
        <5>2. i + 1 \in DOMAIN A /\ j + 1 \in DOMAIN A /\ i + 1 < j + 1 /\ A[i + 1] = q /\ A[j + 1] = p
          BY <3>3, <5>1
        <5> QED BY <2>4, <4>1, <5>2 DEF Follows, A
      <4>3. CASE (\E j \in DOMAIN T : T[j] = p) /\ (parsed'[n] = q \/ taken[n][o] = q)
        <5>1. PICK j \in DOMAIN T : T[j] = p
          BY <4>3
        <5>2. j + 1 \in DOMAIN A /\ 1 < j + 1 /\ A[j + 1] = p
          BY <3>3, <5>1
        <5>3. CASE parsed[n] = q \/ taken[n][o] = q
          BY <2>4, <4>1, <5>2, <5>3 DEF Follows, A
        <5>4. CASE A[1] = q
          BY <2>4, <3>3, <4>1, <5>2, <5>4 DEF Follows, A
        <5> QED BY <3>2, <4>3, <5>3, <5>4
      <4>4. CASE parsed'[n] = p /\ taken[n][o] = q
        BY <2>4, <3>2, <3>3, <4>1, <4>4 DEF Follows, A
      <4> QED BY <2>4, <3>1, <3>5, <4>2, <4>3, <4>4 DEF Follows
    <3> QED BY <3>4, <3>5
  <2> QED BY <2>3, <2>4
<1>5. \A o \in Members : \A p : /\ InList(o, p)' => InList(o, p)
                                /\ Formed(o, p)' => Formed(o, p)
  BY <1>1, SameWaits
<1> QED BY <1>4, <1>5, StaysInOrder

LEMMA ParsedInOrder ==
  ASSUME GroupTyped, InOrder, NEW n \in Members, Parsed(n)
  PROVE  InOrder'
<1> PICK c : c = parsed[n]
  OBVIOUS
<1>1. TakesOrRefuses(n, c)
  BY ParsedIs
<1>2. UNCHANGED <<slots, air>> /\ formatted' = formatted
  BY <1>1 DEF Parsed, TakesOrRefuses
<1>3. \A o \in Members : \A p : /\ InList(o, p)' => InList(o, p)
                                /\ Formed(o, p)' => Formed(o, p)
  BY <1>2, SameWaits
<1>4. ASSUME NEW m \in Members, NEW o \in Others(m)
      PROVE  /\ \A p : Came(m, o, p)' => Came(m, o, p)
             /\ \A p, q : Follows(m, o, p, q)' => Follows(m, o, p, q)
  <2>1. /\ air'[m] = air[m]
        /\ parsed'[m] = parsed[m] \/ parsed'[m] = Free
        /\ taken'[m][o] = taken[m][o] \/ (parsed[m] = taken'[m][o] /\ parsed'[m] = Free)
    BY <1>1, <1>2, <1>4 DEF TakesOrRefuses
  <2>2. \A p : Came(m, o, p)' => Came(m, o, p)
    BY <2>1 DEF Came
  <2>3. \A p, q : Follows(m, o, p, q)' => Follows(m, o, p, q)
    BY <2>1 DEF Follows
  <2> QED BY <2>2, <2>3
<1> QED BY <1>3, <1>4, StaysInOrder

LEMMA RestartInOrder ==
  ASSUME GroupTyped, InOrder, NEW n \in Members, Restart(n)
  PROVE  InOrder'
<1>1. /\ air' = [air EXCEPT ![n] = <<>>] /\ ~ticking[n]
      /\ taken' = [taken EXCEPT ![n] = [o \in Others(n) |-> Free]] /\ parsed' = parsed
      /\ \/ UNCHANGED <<slots, formatted>>
         \/ /\ slots' = [slots EXCEPT ![n] = <<>>]
            /\ formatted' = [formatted EXCEPT ![n] = [t \in Senders[n] |-> Free]]
  BY DEF Restart
<1>2. /\ DOMAIN air = Members /\ DOMAIN taken = Members /\ DOMAIN slots = Members
      /\ DOMAIN formatted = Members
  BY DEF GroupTyped, MembersTyped
<1>3. \A o \in Members : \/ slots'[o] = slots[o] /\ formatted'[o] = formatted[o]
                         \/ slots'[o] = <<>> /\ formatted'[o] = [t \in Senders[o] |-> Free]
  BY <1>1, <1>2
<1>4. \A o \in Members : \A p : (InList(o, p)' => InList(o, p)) /\ (Formed(o, p)' => Formed(o, p))
  <2>1. ASSUME NEW o \in Members, NEW p
        PROVE  (InList(o, p)' => InList(o, p)) /\ (Formed(o, p)' => Formed(o, p))
    <3>1. CASE slots'[o] = slots[o] /\ formatted'[o] = formatted[o]
      BY <3>1 DEF InList, Formed
    <3>2. CASE slots'[o] = <<>> /\ formatted'[o] = [t \in Senders[o] |-> Free]
      BY <3>2 DEF InList, Formed
    <3> QED BY <1>3, <3>1, <3>2
  <2> QED BY <2>1
<1>5. ASSUME NEW m \in Members, NEW o \in Others(m)
      PROVE  /\ \A p : Came(m, o, p)' => Came(m, o, p)
             /\ \A p, q : Follows(m, o, p, q)' => Follows(m, o, p, q)
  <2>1. CASE m # n
    <3>1. air'[m] = air[m] /\ parsed'[m] = parsed[m] /\ taken'[m] = taken[m]
      BY <1>1, <1>2, <2>1
    <3> QED BY <1>5, <3>1, SameCame
  <2>2. CASE m = n
    <3>1. air'[m] = <<>> /\ taken'[m][o] = Free /\ parsed'[m] = Free
      <4>1. parsed[m] = Free
        BY <1>1, <2>2 DEF GroupTyped, TakenTyped, Processing
      <4> QED BY <1>1, <1>2, <1>5, <2>2, <4>1
    <3> QED BY <3>1 DEF Came, Follows
  <2> QED BY <2>1, <2>2
<1> QED BY <1>4, <1>5, StaysInOrder

LEMMA NothingInOrder ==
  ASSUME InOrder, UNCHANGED <<slots, parsed, air, taken>>,
         \A o \in Members : \A p : Formed(o, p)' => Formed(o, p)
  PROVE  InOrder'
<1>1. \A o \in Members : \A p : InList(o, p)' => InList(o, p)
  BY DEF InList
<1>2. ASSUME NEW m \in Members, NEW o \in Others(m)
      PROVE  /\ \A p, q : Follows(m, o, p, q)' <=> Follows(m, o, p, q)
             /\ \A p : Came(m, o, p)' <=> Came(m, o, p)
  BY <1>2, SameCame
<1> QED BY <1>1, <1>2, StaysInOrder

\* In order but for packets that were outrun, and one packet for a change.
OrderInv == OneEach /\ (outrun \/ InOrder)

\* What the observers have seen once stays so.
LEMMA Outlasts ==
  /\ outrun /\ [GroupNext]_groupVars => outrun'
  /\ excused /\ [GroupNext]_groupVars => excused'
<1> SUFFICES ASSUME [GroupNext]_groupVars PROVE (outrun => outrun') /\ (excused => excused')
  OBVIOUS
<1>1. ASSUME NEW m \in Members, NEW t \in Senders[m], Enqueue(m, t)
      PROVE  (outrun => outrun') /\ (excused => excused')
  <2>1. CASE outrun' = (outrun \/ Outruns(m, t)) /\ excused' = excused
    BY <2>1
  <2>2. CASE outrun' = outrun /\ excused' = TRUE
    BY <2>2
  <2> QED BY <1>1, <2>1, <2>2 DEF Enqueue
<1>2. ASSUME NEW m \in Members, NEW t \in Senders[m], Change(m, t) \/ MutexTimesOut(m, t)
      PROVE  (outrun => outrun') /\ (excused => excused')
  <2>1. CASE outrun' = outrun /\ excused' = (excused \/ Crossing(m))
    BY <2>1
  <2>2. CASE outrun' = outrun /\ excused' = TRUE
    BY <2>2
  <2> QED BY <1>2, <2>1, <2>2 DEF Change, MutexTimesOut
<1>3. ASSUME NEW m \in Members, QuickTick(m) \/ Receive(m) \/ TickEnds(m) \/ CreateSockets(m)
      PROVE  (outrun => outrun') /\ (excused => excused')
  <2>1. CASE outrun' = outrun /\ excused' = (excused \/ (Sent(m) # <<>> /\ \E o \in Others(m) : ~sockets[o]))
    BY <2>1
  <2>2. CASE outrun' = outrun /\ excused' = excused
    BY <2>2
  <2> QED BY <1>3, <2>1, <2>2 DEF QuickTick, Receive, TickEnds, CreateSockets
<1>4. ASSUME NEW m \in Members, Parsed(m) PROVE (outrun => outrun') /\ (excused => excused')
  BY <1>4 DEF Parsed
<1>5. ASSUME NEW m \in Members, Restart(m) \/ Lose(m) PROVE (outrun => outrun') /\ (excused => excused')
  BY <1>5 DEF Restart, Lose
<1>6. CASE UNCHANGED groupVars
  BY <1>6 DEF groupVars
<1> QED BY <1>1, <1>2, <1>3, <1>4, <1>5, <1>6 DEF GroupNext, Driver

LEMMA OrderStep == GroupTyped /\ OrderInv /\ [GroupNext]_groupVars => OrderInv'
<1> SUFFICES ASSUME GroupTyped, InOrder, [GroupNext]_groupVars, ~outrun' PROVE InOrder'
  <2>1. OneEach /\ GroupTyped /\ [GroupNext]_groupVars => OneEach'
    BY OneEachStep
  <2>2. outrun /\ [GroupNext]_groupVars => outrun'
    BY Outlasts
  <2> QED BY <2>1, <2>2 DEF OrderInv
<1>1. ASSUME NEW m \in Members, NEW t \in Senders[m], Enqueue(m, t) PROVE InOrder'
  BY <1>1, EnqueueInOrder
<1>2. ASSUME NEW m \in Members, NEW t \in Senders[m], MutexTimesOut(m, t) PROVE InOrder'
  <2>1. /\ formatted' = [formatted EXCEPT ![m][t] = Free] /\ changes' = changes
        /\ UNCHANGED <<slots, parsed, air, taken>>
    BY <1>2 DEF MutexTimesOut
  <2>2. \A o \in Members : \A p : Formed(o, p)' => Formed(o, p)
    <3>1. \A o \in Members : \A u \in Senders[o] : formatted'[o][u] = formatted[o][u] \/ formatted'[o][u] = Free
      BY <2>1, Unformatted
    <3> QED BY <3>1 DEF Formed
  <2> QED BY <2>1, <2>2, NothingInOrder
<1>3. ASSUME NEW m \in Members, QuickTick(m) PROVE InOrder'
  BY <1>3, TickInOrder
<1>4. ASSUME NEW m \in Members, Receive(m) \/ Lose(m) PROVE InOrder'
  BY <1>4, ReceiveInOrder
<1>5. ASSUME NEW m \in Members, Parsed(m) PROVE InOrder'
  BY <1>5, ParsedInOrder
<1>6. ASSUME NEW m \in Members, TickEnds(m) \/ CreateSockets(m) PROVE InOrder'
  BY <1>6, NothingInOrder DEF TickEnds, CreateSockets, Formed
<1>7. ASSUME NEW m \in Members, Restart(m) PROVE InOrder'
  BY <1>7, RestartInOrder
<1>8. ASSUME NEW m \in Members, NEW t \in Senders[m], Change(m, t) PROVE InOrder'
  BY <1>8, ChangeInOrder
<1>9. CASE UNCHANGED groupVars
  BY <1>9, NothingInOrder DEF groupVars, Formed
<1> QED BY <1>1, <1>2, <1>3, <1>4, <1>5, <1>6, <1>7, <1>8, <1>9 DEF GroupNext, Driver

LEMMA OrderStarts == GroupInit => OrderInv
<1> SUFFICES ASSUME GroupInit PROVE InOrder
  BY OneEachStarts DEF OrderInv
<1>1. ASSUME NEW o \in Members PROVE WaitsNear(o)
  <2>1. slots[o] = <<>> /\ formatted[o] = [t \in Senders[o] |-> Free]
    BY DEF GroupInit
  <2> QED BY <2>1 DEF WaitsNear, InList, Formed
<1>2. ASSUME NEW o \in Members, NEW m \in Members, o \in Others(m) PROVE FlightNear(m, o)
  <2>1. air[m] = <<>> /\ parsed[m] = Free /\ taken[m][o] = Free
    BY <1>2 DEF GroupInit
  <2> QED BY <2>1 DEF FlightNear, Follows
<1> QED BY <1>1, <1>2 DEF InOrder

-----------------------------------------------------------------------------
(* Older packets are refused *)

\* An older packet that is parsed is too near to the newer one that was taken for a hard
\* reset, by the order in which they came.
LEMMA OlderIsNear ==
  ASSUME ~outrun, GroupTyped, OrderInv, NEW m \in Members, NEW o \in Others(m),
         NEW p, p = parsed[m], p # Free, p.from = o, NEW q, q = taken[m][o], q # Free, p.made < q.made
  PROVE  q.seq <= p.seq + HardReset
<1>1. FreeOrMade(q, o, changes) /\ o \in Members
  BY DEF GroupTyped, TakenTyped, Others
<1>2. q.from = o
  BY <1>1 DEF FreeOrMade, Made
<1>3. FlightNear(m, o)
  BY <1>1 DEF OrderInv, InOrder
<1>4. Follows(m, o, p, q)
  BY <1>2 DEF Follows
<1> QED BY <1>3, <1>4 DEF FlightNear, Near

\* What a member takes in the place of another packet of the same member has the higher
\* number unless it is the newer: the one it had is still too near for a hard reset.
LEMMA TakenOrder ==
  ASSUME ~outrun, GroupTyped, OrderInv, NEW m \in Members, NEW o \in Others(m),
         GroupNext, NEW was, was = taken[m][o], NEW is, is = taken'[m][o],
         is # Free, is.made < was.made
  PROVE  is.seq > was.seq
<1>1. /\ DOMAIN taken = Members /\ FreeOrMade(was, o, changes) /\ o \in Members
      /\ was # Free => LastOf(m, o) = was.seq /\ Alive(was)
  BY Here DEF GroupTyped, MembersTyped, TakenTyped, Others
<1>2. was # Free /\ was # is
  <2>1. ASSUME was = is PROVE FALSE
    <3>1. was \in Packets /\ was.made \in Nat
      BY <1>1, FreeIsNone DEF Packets
    <3> QED BY <2>1, <3>1
  <2>2. ASSUME was = Free PROVE FALSE
    <3>1. \E n \in Members : Has(n, is)'
      <4>1. Has(m, is)'
        BY DEF Has
      <4> QED BY <4>1
    <3>2. Alive(is)'
      BY <3>1 DEF Alive
    <3>3. GroupTyped'
      BY GroupTypedStep
    <3>4. is.made \in Nat
      BY <3>3 DEF GroupTyped, TakenTyped, Packets
    <3> QED BY <2>2, <3>4, FreeIsNone
  <2> QED BY <2>1, <2>2
<1>3. taken'[m] # taken[m]
  BY <1>2
<1>4. taken' # taken
  BY <1>3
<1>5. PICK n \in Members : Parsed(n) \/ Restart(n)
  BY <1>4 DEF GroupNext, Driver, Enqueue, QuickTick, Receive, TickEnds, CreateSockets, Lose, Change, MutexTimesOut
<1>6. CASE Restart(n)
  <2>1. taken' = [taken EXCEPT ![n] = [p \in Others(n) |-> Free]]
    BY <1>6 DEF Restart
  <2> QED BY <1>1, <1>3, <2>1
<1>7. CASE Parsed(n)
  <2> PICK p : p = parsed[n]
    OBVIOUS
  <2>1. TakesOrRefuses(n, p)
    BY <1>7, ParsedIs
  <2>2. n = m /\ p.from = o /\ p = is /\ CheckSequence(m, p)
    BY <1>1, <1>2, <1>3, <2>1 DEF TakesOrRefuses
  <2>3. p # Free
    BY <2>1, FreeIsNone DEF TakesOrRefuses
  <2>4. was.seq <= is.seq + HardReset
    BY <1>2, <2>2, <2>3, OlderIsNear
  <2>5. is.seq > was.seq \/ is.seq + HardReset < was.seq
    BY <1>1, <1>2, <2>2 DEF CheckSequence
  <2>6. is.seq \in Nat /\ was.seq \in Nat
    BY <1>1, <1>2, <2>1, <2>2 DEF TakesOrRefuses, FreeOrMade, Made, Packets
  <2>7. HardReset \in Nat
    OBVIOUS
  <2> QED BY <2>4, <2>5, <2>6, <2>7
<1> QED BY <1>5, <1>6, <1>7

\* A member never takes an older packet in the place of a newer one but past the wrap of
\* the numbers, or when the older one was outrun while it waited (CheckSequence).
THEOREM OlderIsRefused == GroupSpec => OlderNeverTaken
<1> DEFINE Ordered ==
      \A m \in Members : \A o \in Others(m) :
        LET was == taken[m][o] is == taken'[m][o]
        IN  is # Free /\ is.made < was.made => is.seq > was.seq \/ outrun
<1>1. GroupInit => GroupTyped /\ OrderInv
  BY GroupStarts, OrderStarts
<1>2. GroupTyped /\ OrderInv /\ [GroupNext]_groupVars => GroupTyped' /\ OrderInv'
  BY GroupTypedStep, OrderStep
<1>3. GroupTyped /\ OrderInv /\ [GroupNext]_groupVars => [Ordered]_groupVars
  <2> SUFFICES ASSUME GroupTyped, OrderInv, GroupNext, ~outrun PROVE Ordered
    OBVIOUS
  <2>1. ASSUME NEW m \in Members, NEW o \in Others(m), taken'[m][o] # Free,
               taken'[m][o].made < taken[m][o].made
        PROVE  taken'[m][o].seq > taken[m][o].seq
    <3> PICK was, is : was = taken[m][o] /\ is = taken'[m][o]
      OBVIOUS
    <3>1. is.seq > was.seq
      BY <2>1, TakenOrder
    <3> QED BY <3>1
  <2> QED BY <2>1
<1>4. GroupSpec => [][Ordered]_groupVars
  <2> HIDE DEF Ordered
  <2> QED BY <1>1, <1>2, <1>3, PTL DEF GroupSpec
<1> QED BY <1>4 DEF OlderNeverTaken

-----------------------------------------------------------------------------
(* One thread for each member outruns nothing *)

\* It does not wait with a packet, and the list is as short as the code's.
OneThread == QueueSize <= HardReset /\ \A m \in Members : Senders[m] = {Ticker}

\* A list is filled from its head on, so it holds packets of about as many numbers.
Filled(s, k) == k \in 0 .. Len(s) /\ \A i \in DOMAIN s : s[i] # Free <=> i <= k
ListNear(o) ==
  /\ \A p, q : InList(o, p) /\ Formed(o, q) => q.seq <= p.seq + HardReset
  /\ \A q : Formed(o, q) => sendSeq[o] <= q.seq
  /\ \E k \in Nat : Filled(slots[o], k) /\ \A p : InList(o, p) => sendSeq[o] <= p.seq + k
ListsNear == ~outrun /\ \A o \in Members : ~mutexKept[o] => ListNear(o)

\* The next packet comes behind those in the list, or in front of all if there is no room.
LEMMA QueuedFilled ==
  \A s \in Seq(Packets), p \in Packets, k \in Nat :
    Filled(s, k) /\ p # Free => Filled(Queued(s, p), k + 1)
<1> SUFFICES ASSUME NEW s \in Seq(Packets), NEW p \in Packets, NEW k \in Nat, Filled(s, k), p # Free
             PROVE  Filled(Queued(s, p), k + 1)
  OBVIOUS
<1> DEFINE free == {i \in DOMAIN s : s[i] = Free}
<1>1. DOMAIN s = 1 .. Len(s) /\ Len(s) \in Nat /\ k <= Len(s)
  BY DEF Filled
<1>2. CASE k = Len(s)
  <2>1. free = {}
    BY <1>1, <1>2 DEF Filled
  <2>2. Queued(s, p) = <<p>> \o s
    BY <2>1 DEF Queued
  <2> DEFINE t == <<p>> \o s
  <2>3. /\ t \in Seq(Packets) /\ Len(t) = Len(s) + 1 /\ t[1] = p
        /\ \A i \in DOMAIN t : i = 1 \/ (i - 1 \in DOMAIN s /\ t[i] = s[i - 1])
    OBVIOUS
  <2>4. Filled(t, k + 1)
    <3> HIDE DEF t
    <3>1. DOMAIN t = 1 .. (Len(s) + 1)
      BY <2>3
    <3>2. \A i \in DOMAIN t : t[i] # Free
      BY <1>1, <1>2, <2>3 DEF Filled
    <3> QED BY <1>1, <1>2, <2>3, <3>1, <3>2 DEF Filled
  <2> QED BY <2>2, <2>4
<1>3. CASE k < Len(s)
  <2>1. k + 1 \in free /\ \A i \in free : k + 1 <= i
    BY <1>1, <1>3 DEF Filled
  <2>2. \A i \in free : (\A j \in free : i <= j) => i = k + 1
    BY <1>1, <2>1
  <2>3. (CHOOSE i \in free : \A j \in free : i <= j) = k + 1
    BY <2>1, <2>2
  <2>4. Queued(s, p) = [s EXCEPT ![k + 1] = p]
    BY <2>1, <2>3 DEF Queued
  <2> DEFINE t == [s EXCEPT ![k + 1] = p]
  <2>5. DOMAIN t = DOMAIN s /\ Len(t) = Len(s) /\ \A i \in DOMAIN s : t[i] = IF i = k + 1 THEN p ELSE s[i]
    BY <1>1, <1>3
  <2>6. Filled(t, k + 1)
    <3> HIDE DEF t
    <3> QED BY <1>1, <1>3, <2>5 DEF Filled
  <2> QED BY <2>4, <2>6
<1>4. k = Len(s) \/ k < Len(s)
  <2>1. \A i, j \in Nat : i <= j => i = j \/ i < j
    OBVIOUS
  <2> QED BY <1>1, <2>1, Zenon
<1> QED BY <1>2, <1>3, <1>4

LEMMA ListStays ==
  ASSUME NEW o \in Members, ListNear(o), slots'[o] = slots[o], formatted'[o] = formatted[o],
         sendSeq'[o] = sendSeq[o]
  PROVE  ListNear(o)'
BY DEF ListNear, InList, Formed

LEMMA ChangeKeepsNear ==
  ASSUME OneThread, GroupTyped, ListsNear, NEW n \in Members, NEW t \in Senders[n], Change(n, t)
  PROVE  ListsNear'
<1>1. /\ formatted[n][t] = Free /\ formatted' = Formatted(n, t, 1 - relay[n])
      /\ UNCHANGED <<sendSeq, slots, mutexKept, outrun>> /\ Senders[n] = {t}
  BY DEF Change, OneThread
<1>2. /\ DOMAIN formatted = Members /\ DOMAIN formatted[n] = Senders[n]
      /\ slots[n] \in Seq(Packets) /\ Len(slots[n]) \in Nat /\ Len(slots[n]) <= QueueSize
      /\ sendSeq[n] \in Nat
  BY DEF GroupTyped, MembersTyped, SentTyped
<1> DEFINE c == Packet(n, 1 - relay[n])
<1>3. c.seq = sendSeq[n]
  BY DEF Packet
<1>5. /\ \A o \in Members \ {n} : formatted'[o] = formatted[o]
      /\ \A u \in Senders[n] : formatted'[n][u] = Free \/ formatted'[n][u] = c
  BY <1>1, <1>2 DEF Formatted
<1> HIDE DEF c
<1>6. \A p : Formed(n, p)' => p = c
  BY <1>5 DEF Formed
<1>7. \A o \in Members : \A p : InList(o, p)' <=> InList(o, p)
  BY <1>1 DEF InList
<1>8. ASSUME NEW o \in Members, ~mutexKept'[o] PROVE ListNear(o)'
  <2>1. ListNear(o) /\ slots'[o] = slots[o] /\ sendSeq'[o] = sendSeq[o]
    BY <1>1, <1>8 DEF ListsNear
  <2>2. CASE o # n
    BY <1>5, <2>1, <2>2, ListStays
  <2>3. CASE o = n
    <3>1. PICK k \in Nat : Filled(slots[n], k) /\ \A p : InList(n, p) => sendSeq[n] <= p.seq + k
      BY <2>1, <2>3 DEF ListNear
    <3>2. k <= HardReset /\ HardReset \in Nat
      BY <1>2, <3>1 DEF Filled, OneThread
    <3>3. ASSUME NEW p, InList(n, p) PROVE c.seq <= p.seq + HardReset
      <4>1. p.seq \in Nat /\ sendSeq[n] <= p.seq + k
        BY <3>1, <3>3, WaitsMade
      <4> QED BY <1>2, <1>3, <3>2, <4>1
    <3>4. \A p, q : InList(n, p)' /\ Formed(n, q)' => q.seq <= p.seq + HardReset
      BY <1>6, <1>7, <3>3
    <3>5. \A q : Formed(n, q)' => sendSeq'[n] <= q.seq
      BY <1>2, <1>3, <1>6, <2>1, <2>3
    <3>6. Filled(slots'[n], k) /\ \A p : InList(n, p)' => sendSeq'[n] <= p.seq + k
      BY <1>7, <2>1, <2>3, <3>1
    <3> QED BY <2>3, <3>1, <3>4, <3>5, <3>6 DEF ListNear, Filled
  <2> QED BY <2>2, <2>3
<1> QED BY <1>1, <1>8 DEF ListsNear

LEMMA EnqueueKeepsNear ==
  ASSUME OneThread, GroupTyped, ListsNear, NEW n \in Members, NEW t \in Senders[n], Enqueue(n, t)
  PROVE  ListsNear'
<1> PICK c : c = formatted[n][t]
  OBVIOUS
<1>1. /\ c # Free /\ formatted' = [formatted EXCEPT ![n][t] = Free] /\ ~ticking[n]
      /\ UNCHANGED <<parsed, air, taken, changes>> /\ Senders[n] = {t}
  BY DEF Enqueue, OneThread
<1>2. /\ formatted[n] \in [Senders[n] -> Packets] /\ c \in Packets /\ slots \in [Members -> Seq(Packets)]
      /\ DOMAIN formatted = Members /\ slots[n] \in Seq(Packets) /\ sendSeq \in [Members -> 0..(SeqMod - 1)]
      /\ mutexKept \in [Members -> BOOLEAN]
  BY DEF GroupTyped, MembersTyped, SentTyped
<1>3. /\ sendSeq' = [sendSeq EXCEPT ![n] = (sendSeq[n] + 1) % SeqMod]
      /\ \/ /\ mutexKept' = mutexKept /\ slots' = [slots EXCEPT ![n] = Queued(slots[n], c)]
            /\ ~mutexKept[n] /\ outrun' = (outrun \/ Outruns(n, t))
         \/ slots' = slots /\ mutexKept' = [mutexKept EXCEPT ![n] = TRUE] /\ outrun' = outrun
  <2>1. ~Processing(n)
    BY <1>1 DEF GroupTyped, TakenTyped
  <2> QED BY <2>1 DEF Enqueue
<1>4. sendSeq[n] \in Nat /\ sendSeq'[n] \in Nat /\ sendSeq'[n] <= sendSeq[n] + 1
  <2>1. sendSeq'[n] = (sendSeq[n] + 1) % SeqMod /\ sendSeq[n] \in 0..(SeqMod - 1) /\ SeqMod \in Nat \ {0}
    BY <1>2, <1>3
  <2> QED BY <2>1, NextNumber
<1>5. \A p : ~Formed(n, p)'
  BY <1>1, <1>2 DEF Formed
<1>6. Formed(n, c)
  BY <1>1 DEF Formed
<1>7. \A p : InList(n, p)' => InList(n, p) \/ p = c
  <2>1. PutInto(Queued(slots[n], c), slots[n], c)
    BY <1>2, QueuedIs
  <2> QED BY <1>2, <1>3, <2>1 DEF PutInto, InList
<1>8. \A o \in Members \ {n} : slots'[o] = slots[o] /\ formatted'[o] = formatted[o]
                              /\ sendSeq'[o] = sendSeq[o] /\ mutexKept'[o] = mutexKept[o]
  BY <1>1, <1>2, <1>3
<1>9. ASSUME NEW o \in Members, ~mutexKept'[o] PROVE ListNear(o)'
  <2>1. CASE o # n
    BY <1>8, <1>9, <2>1, ListStays DEF ListsNear
  <2>2. CASE o = n
    <3>1. ~mutexKept[n] /\ slots'[n] = Queued(slots[n], c) /\ ListNear(n)
      <4>1. mutexKept' = mutexKept /\ slots' = [slots EXCEPT ![n] = Queued(slots[n], c)]
        <5>1. CASE mutexKept' = [mutexKept EXCEPT ![n] = TRUE]
          <6>1. mutexKept'[n]
            BY <1>2, <5>1
          <6> QED BY <1>9, <2>2, <6>1
        <5> QED BY <1>3, <5>1
      <4> QED BY <1>2, <1>9, <2>2, <4>1 DEF ListsNear
    <3>2. PICK k \in Nat : Filled(slots[n], k) /\ \A p : InList(n, p) => sendSeq[n] <= p.seq + k
      BY <3>1 DEF ListNear
    <3>3. Filled(Queued(slots[n], c), k + 1) /\ k + 1 \in Nat
      <4>1. slots[n] \in Seq(Packets) /\ c \in Packets /\ c # Free /\ Filled(slots[n], k)
        BY <1>1, <1>2, <3>2
      <4>2. Filled(Queued(slots[n], c), k + 1)
        BY <4>1, QueuedFilled
      <4> QED BY <4>2
    <3>4. ASSUME NEW p, InList(n, p)' PROVE sendSeq'[n] <= p.seq + (k + 1)
      <4>1. p.seq \in Nat
        BY <1>6, <1>7, <3>4, WaitsMade
      <4>2. sendSeq[n] <= p.seq + k
        BY <1>4, <1>6, <1>7, <3>1, <3>2, <3>4, <4>1 DEF ListNear
      <4> QED BY <1>4, <3>2, <4>1, <4>2
    <3>5. Filled(slots'[n], k + 1)
      BY <3>1, <3>3
    <3> QED BY <1>5, <2>2, <3>3, <3>4, <3>5 DEF ListNear, Filled
  <2> QED BY <2>1, <2>2
<1>10. ~outrun'
  <2>1. CASE outrun' = outrun
    BY <2>1 DEF ListsNear
  <2>2. CASE ~mutexKept[n] /\ outrun' = (outrun \/ Outruns(n, t))
    <3>1. ASSUME Outruns(n, t) PROVE FALSE
      <4>1. Senders[n] \ {t} = {}
        BY <1>1
      <4>2. PICK q : InList(n, q) /\ q.seq + HardReset < c.seq
        BY <3>1, <4>1 DEF Outruns, InList
      <4>3. c.seq <= q.seq + HardReset
        BY <1>6, <2>2, <4>2 DEF ListsNear, ListNear
      <4>4. q.seq \in Nat /\ c.seq \in Nat /\ HardReset \in Nat
        BY <1>6, <4>2, WaitsMade
      <4> QED BY <4>2, <4>3, <4>4
    <3> QED BY <2>2, <3>1 DEF ListsNear
  <2> QED BY <1>3, <2>1, <2>2
<1> QED BY <1>9, <1>10 DEF ListsNear

LEMMA TickKeepsNear ==
  ASSUME OneThread, GroupTyped, ListsNear, NEW n \in Members, QuickTick(n)
  PROVE  ListsNear'
<1>1. /\ slots' = [slots EXCEPT ![n] = Emptied(n)]
      /\ \A t \in Senders[n] : formatted[n][t] = Free
      /\ UNCHANGED <<sendSeq, mutexKept, formatted, outrun>>
  BY DEF QuickTick, OneThread
<1>2. /\ slots \in [Members -> Seq(Packets)] /\ slots[n] \in Seq(Packets)
      /\ Len(slots[n]) \in Nat /\ DOMAIN slots[n] = 1 .. Len(slots[n])
  BY DEF GroupTyped, MembersTyped
<1>3. ASSUME NEW o \in Members, ~mutexKept'[o] PROVE ListNear(o)'
  <2>1. ListNear(o) /\ ~mutexKept[o]
    BY <1>1, <1>3 DEF ListsNear
  <2>2. CASE o # n
    <3>1. slots'[o] = slots[o] /\ formatted'[o] = formatted[o] /\ sendSeq'[o] = sendSeq[o]
      BY <1>1, <1>2, <2>2
    <3> QED BY <2>1, <3>1, ListStays
  <2>3. CASE o = n
    <3>1. slots'[n] = [i \in 1 .. Len(slots[n]) |-> Free]
      BY <1>1, <1>2, <2>1, <2>3 DEF Emptied
    <3>2. DOMAIN slots'[n] = 1 .. Len(slots[n]) /\ Len(slots'[n]) = Len(slots[n])
      BY <1>2, <3>1
    <3>3. Filled(slots'[n], 0)
      BY <1>2, <3>1, <3>2 DEF Filled
    <3>4. \A p : ~InList(n, p)' /\ ~Formed(n, p)'
      BY <1>1, <3>1 DEF InList, Formed
    <3> QED BY <2>3, <3>3, <3>4 DEF ListNear, Filled
  <2> QED BY <2>2, <2>3
<1> QED BY <1>1, <1>3 DEF ListsNear

LEMMA RestartKeepsNear ==
  ASSUME GroupTyped, ListsNear, NEW n \in Members, Restart(n)
  PROVE  ListsNear'
<1>1. /\ sendSeq' = [sendSeq EXCEPT ![n] = 0] /\ outrun' = outrun
      /\ \/ UNCHANGED <<slots, mutexKept, formatted>>
         \/ /\ slots' = [slots EXCEPT ![n] = <<>>] /\ mutexKept' = [mutexKept EXCEPT ![n] = FALSE]
            /\ formatted' = [formatted EXCEPT ![n] = [t \in Senders[n] |-> Free]]
  BY DEF Restart
<1>2. /\ DOMAIN sendSeq = Members /\ DOMAIN slots = Members
      /\ DOMAIN mutexKept = Members /\ DOMAIN formatted = Members
  BY DEF GroupTyped, MembersTyped
<1>3. \A o \in Members \ {n} : /\ slots'[o] = slots[o] /\ formatted'[o] = formatted[o]
                               /\ sendSeq'[o] = sendSeq[o] /\ mutexKept'[o] = mutexKept[o]
  BY <1>1, <1>2
<1>4. \/ slots'[n] = slots[n] /\ formatted'[n] = formatted[n] /\ mutexKept'[n] = mutexKept[n]
      \/ slots'[n] = <<>> /\ formatted'[n] = [t \in Senders[n] |-> Free]
  BY <1>1, <1>2
<1>5. \A o \in Members : \A p : (InList(o, p)' => InList(o, p)) /\ (Formed(o, p)' => Formed(o, p))
  BY <1>3, <1>4 DEF InList, Formed
<1>6. ASSUME NEW o \in Members, ~mutexKept'[o] PROVE ListNear(o)'
  <2>1. CASE o # n
    BY <1>3, <1>6, <2>1, ListStays DEF ListsNear
  <2>2. CASE o = n /\ slots'[n] = slots[n] /\ mutexKept'[n] = mutexKept[n]
    <3>1. ListNear(n) /\ sendSeq'[n] = 0
      BY <1>1, <1>2, <1>6, <2>2 DEF ListsNear
    <3>2. PICK k \in Nat : Filled(slots[n], k)
      BY <3>1 DEF ListNear
    <3>3. \A p : InList(n, p) \/ Formed(n, p) => p.seq \in Nat
      BY WaitsMade
    <3>4. Filled(slots'[n], k) /\ \A p : InList(n, p)' => sendSeq'[n] <= p.seq + k
      BY <1>5, <2>2, <3>1, <3>2, <3>3
    <3>5. \A q : Formed(n, q)' => sendSeq'[n] <= q.seq
      BY <1>5, <3>1, <3>3
    <3>6. \A p, q : InList(n, p)' /\ Formed(n, q)' => q.seq <= p.seq + HardReset
      BY <1>5, <3>1 DEF ListNear
    <3> QED BY <2>2, <3>2, <3>4, <3>5, <3>6 DEF ListNear, Filled
  <2>3. CASE o = n /\ slots'[n] = <<>> /\ formatted'[n] = [t \in Senders[n] |-> Free]
    <3>1. \A p : ~InList(n, p)' /\ ~Formed(n, p)'
      BY <2>3 DEF InList, Formed
    <3>2. Filled(slots'[n], 0)
      <4>1. Len(<<>>) = 0 /\ DOMAIN <<>> = {}
        OBVIOUS
      <4> QED BY <2>3, <4>1 DEF Filled
    <3> QED BY <2>3, <3>1, <3>2 DEF ListNear, Filled
  <2> QED BY <1>4, <2>1, <2>2, <2>3
<1> QED BY <1>1, <1>6 DEF ListsNear

LEMMA NothingKeepsNear ==
  ASSUME ListsNear, UNCHANGED <<sendSeq, slots, mutexKept, formatted, outrun>>
  PROVE  ListsNear'
<1>1. ASSUME NEW o \in Members, ~mutexKept'[o] PROVE ListNear(o)'
  BY <1>1, ListStays DEF ListsNear
<1> QED BY <1>1 DEF ListsNear

\* Nothing is outrun in a group whose members are changed by one thread each, with a
\* list as short as the code's: there, no older packet is ever taken before the wrap
\* (DGR_AddToSendQueue, DGR_CheckSequence).
THEOREM NoneIsOutrun ==
  ASSUME OneThread
  PROVE  GroupSpec => []~outrun
<1>1. GroupInit => GroupTyped /\ ListsNear
  <2> SUFFICES ASSUME GroupInit, NEW o \in Members PROVE ListNear(o)
    BY GroupStarts DEF ListsNear, GroupInit
  <2>1. slots[o] = <<>> /\ formatted[o] = [t \in Senders[o] |-> Free]
    BY DEF GroupInit
  <2>2. \A p : ~InList(o, p) /\ ~Formed(o, p)
    BY <2>1 DEF InList, Formed
  <2>3. Filled(slots[o], 0)
    <3>1. Len(<<>>) = 0 /\ DOMAIN <<>> = {}
      OBVIOUS
    <3> QED BY <2>1, <3>1 DEF Filled
  <2> QED BY <2>2, <2>3 DEF ListNear
<1>2. GroupTyped /\ ListsNear /\ [GroupNext]_groupVars => GroupTyped' /\ ListsNear'
  <2> SUFFICES ASSUME GroupTyped, ListsNear, [GroupNext]_groupVars PROVE ListsNear'
    BY GroupTypedStep
  <2>1. ASSUME NEW m \in Members, NEW t \in Senders[m], Enqueue(m, t) PROVE ListsNear'
    BY <2>1, EnqueueKeepsNear
  <2>2. ASSUME NEW m \in Members, NEW t \in Senders[m], MutexTimesOut(m, t) PROVE FALSE
    BY <2>2 DEF MutexTimesOut, OneThread
  <2>3. ASSUME NEW m \in Members, QuickTick(m) PROVE ListsNear'
    BY <2>3, TickKeepsNear
  <2>4. ASSUME NEW m \in Members, Parsed(m) PROVE ListsNear'
    <3> PICK c : c = parsed[m]
      OBVIOUS
    <3>1. TakesOrRefuses(m, c)
      BY <2>4, ParsedIs
    <3> QED BY <2>4, <3>1, NothingKeepsNear DEF Parsed, TakesOrRefuses
  <2>5. ASSUME NEW m \in Members, Receive(m) \/ Lose(m) \/ TickEnds(m) \/ CreateSockets(m) PROVE ListsNear'
    BY <2>5, NothingKeepsNear DEF Receive, Lose, TickEnds, CreateSockets
  <2>6. ASSUME NEW m \in Members, Restart(m) PROVE ListsNear'
    BY <2>6, RestartKeepsNear
  <2>7. ASSUME NEW m \in Members, NEW t \in Senders[m], Change(m, t) PROVE ListsNear'
    BY <2>7, ChangeKeepsNear
  <2>8. CASE UNCHANGED groupVars
    BY <2>8, NothingKeepsNear DEF groupVars
  <2> QED BY <2>1, <2>2, <2>3, <2>4, <2>5, <2>6, <2>7, <2>8 DEF GroupNext, Driver
<1>3. ListsNear => ~outrun
  BY DEF ListsNear
<1> QED BY <1>1, <1>2, <1>3, PTL DEF GroupSpec

-----------------------------------------------------------------------------
(* The agreement of a group *)

\* Where the newest packet c, which s made, is on its way to m: wherever it is, m has
\* packets of s only behind it.
Somewhere(s, c, m) ==
  \/ \E t \in Senders[s] : formatted[s][t] = c
  \/ \E i \in DOMAIN slots[s] : slots[s][i] = c
  \/ \E i \in DOMAIN air[m] : air[m][i] = c
  \/ parsed[m] = c
Followed(s, c, m) ==
  /\ \A i, j \in DOMAIN air[m] : air[m][i] = c /\ j >= i => air[m][j].from = s
  /\ parsed[m] = c => \A j \in DOMAIN air[m] : air[m][j].from = s
Reaching(s, c, m) == taken[m][s] # c /\ Somewhere(s, c, m) /\ Followed(s, c, m)

\* m has taken it, and older packets of s at most are still to come.
Took(s, c, m) ==
  /\ taken[m][s] = c /\ relay[m] = c.val
  /\ parsed[m] = Free \/ parsed[m].from = s
  /\ \A j \in DOMAIN air[m] : air[m][j].from = s

Silent(o) ==
  /\ \A t \in Senders[o] : formatted[o][t] = Free
  /\ \A i \in DOMAIN slots[o] : slots[o][i] = Free

\* The last change is that of s, and every other member has its packet or will.
Spreads(s, c) ==
  /\ Made(c, s, changes) /\ c.made = changes /\ relay[s] = c.val
  /\ air[s] = <<>> /\ parsed[s] = Free
  /\ \A m \in Others(s) : Silent(m) /\ (Reaching(s, c, m) \/ Took(s, c, m))
AllOff == changes = 0 /\ \A m \in Members : relay[m] = 0

\* Not inductive without OrderInv, which has an older packet refused.
AgreeInv == excused \/ outrun \/ AllOff \/ \E s \in Members, c \in Packets : Spreads(s, c)

LEMMA SpreadsOn ==
  ASSUME NEW s \in Members, NEW c, Spreads(s, c), changes' = changes, relay'[s] = relay[s],
         air'[s] = air[s], parsed'[s] = parsed[s],
         \A m \in Others(s) : Silent(m)' /\ (Reaching(s, c, m)' \/ Took(s, c, m)')
  PROVE  Spreads(s, c)'
BY DEF Spreads, Made

LEMMA SpreadStays ==
  ASSUME NEW s \in Members, NEW c, NEW m \in Others(s),
         Silent(m), Reaching(s, c, m) \/ Took(s, c, m),
         formatted'[s] = formatted[s], slots'[s] = slots[s], formatted'[m] = formatted[m], slots'[m] = slots[m],
         air'[m] = air[m], parsed'[m] = parsed[m], taken'[m] = taken[m], relay'[m] = relay[m]
  PROVE  Silent(m)' /\ (Reaching(s, c, m)' \/ Took(s, c, m)')
BY DEF Silent, Reaching, Took, Somewhere, Followed

LEMMA EnqueueSpreads ==
  ASSUME GroupTyped, NEW s \in Members, NEW c, Spreads(s, c),
         NEW o \in Members, NEW t \in Senders[o], Enqueue(o, t), ~excused'
  PROVE  Spreads(s, c)'
<1> PICK p : p = formatted[o][t]
  OBVIOUS
<1>1. /\ p # Free /\ formatted' = [formatted EXCEPT ![o][t] = Free] /\ changes' = changes
      /\ slots' = [slots EXCEPT ![o] = Queued(slots[o], p)]
      /\ UNCHANGED <<relay, parsed, air, taken>>
  BY DEF Enqueue
<1>2. o = s
  BY <1>1 DEF Spreads, Silent, Others
<1>3. /\ DOMAIN formatted = Members /\ DOMAIN slots = Members /\ slots[s] \in Seq(Packets)
      /\ DOMAIN formatted[s] = Senders[s] /\ p \in Packets
  BY <1>2 DEF GroupTyped, MembersTyped, SentTyped
<1>4. c # Free
  BY FreeIsNone DEF Spreads
<1>5. /\ \E i \in DOMAIN slots'[s] : slots'[s][i] = p
      /\ \A j \in DOMAIN slots[s] : slots[s][j] # Free => \E i \in DOMAIN slots'[s] : slots'[s][i] = slots[s][j]
  <2>1. slots'[s] = Queued(slots[s], p)
    BY <1>1, <1>2, <1>3
  <2>2. PutInto(Queued(slots[s], p), slots[s], p)
    BY <1>3, QueuedIs
  <2> QED BY <2>1, <2>2 DEF PutInto
<1>6. \A u \in Senders[s] : formatted'[s][u] = formatted[s][u] \/ formatted[s][u] = p
  BY <1>1, <1>2, <1>3
<1>7. ASSUME NEW m \in Others(s) PROVE Silent(m)' /\ (Reaching(s, c, m)' \/ Took(s, c, m)')
  <2>1. Silent(m) /\ (Reaching(s, c, m) \/ Took(s, c, m)) /\ m \in Members /\ m # s
    BY DEF Spreads, Others
  <2>2. formatted'[m] = formatted[m] /\ slots'[m] = slots[m]
    BY <1>1, <1>2, <1>3, <2>1
  <2>3. Silent(m)'
    BY <2>1, <2>2 DEF Silent
  <2>4. Took(s, c, m) => Took(s, c, m)'
    BY <1>1 DEF Took
  <2>5. ASSUME Somewhere(s, c, m) PROVE Somewhere(s, c, m)'
    <3>1. CASE \E u \in Senders[s] : formatted[s][u] = c
      BY <1>5, <1>6, <3>1 DEF Somewhere
    <3>2. CASE \E i \in DOMAIN slots[s] : slots[s][i] = c
      BY <1>4, <1>5, <3>2 DEF Somewhere
    <3>3. CASE (\E i \in DOMAIN air[m] : air[m][i] = c) \/ parsed[m] = c
      BY <1>1, <3>3 DEF Somewhere
    <3> QED BY <2>5, <3>1, <3>2, <3>3 DEF Somewhere
  <2>6. Reaching(s, c, m) => Reaching(s, c, m)'
    BY <1>1, <2>5 DEF Reaching, Followed
  <2> QED BY <2>1, <2>3, <2>4, <2>6
<1> QED BY <1>1, <1>7, SpreadsOn

LEMMA SilentSendsNone ==
  ASSUME GroupTyped, NEW o \in Members, Silent(o)
  PROVE  Sent(o) = <<>>
<1>1. Sent(o) \in Seq(Packets)
  BY SentIs
<1>2. ASSUME NEW i \in DOMAIN Sent(o) PROVE FALSE
  <2>1. Made(Sent(o)[i], o, changes) /\ \E j \in DOMAIN slots[o] : Sent(o)[i] = slots[o][j]
    BY SentIs
  <2> QED BY <2>1, FreeIsNone DEF Silent
<1>3. Len(Sent(o)) = 0
  <2>1. Len(Sent(o)) \in Nat /\ DOMAIN Sent(o) = 1 .. Len(Sent(o))
    BY <1>1
  <2>2. ~(1 \in DOMAIN Sent(o))
    BY <1>2
  <2> QED BY <2>1, <2>2
<1> QED BY <1>1, <1>3

\* A quick tick of another member sends nothing.
LEMMA OtherTickSpreads ==
  ASSUME GroupTyped, NEW s \in Members, NEW c, Spreads(s, c), NEW o \in Others(s), QuickTick(o)
  PROVE  Spreads(s, c)'
<1>1. /\ slots' = [slots EXCEPT ![o] = Emptied(o)] /\ changes' = changes
      /\ air' = [n \in Members |-> IF n # o /\ sockets[n] THEN air[n] \o Sent(o) ELSE air[n]]
      /\ UNCHANGED <<relay, parsed, formatted, taken>>
  BY DEF QuickTick
<1>2. o \in Members /\ o # s /\ Silent(o)
  BY DEF Others, Spreads
<1>3. \A n \in Members : air'[n] = air[n]
  <2>1. Sent(o) = <<>>
    BY <1>2, SilentSendsNone
  <2>2. \A n \in Members : air[n] \in Seq(Packets) /\ air[n] \o <<>> = air[n]
    <3>1. ASSUME NEW n \in Members PROVE air[n] \in Seq(Packets)
      BY DEF GroupTyped, MembersTyped
    <3>2. \A q \in Seq(Packets) : q \o <<>> = q
      OBVIOUS
    <3> QED BY <3>1, <3>2
  <2> QED BY <1>1, <2>1, <2>2
<1>4. DOMAIN slots = Members
  BY DEF GroupTyped, MembersTyped
<1>5. ASSUME NEW m \in Others(s) PROVE Silent(m)' /\ (Reaching(s, c, m)' \/ Took(s, c, m)')
  <2>1. Silent(m) /\ (Reaching(s, c, m) \/ Took(s, c, m)) /\ m \in Members
    BY DEF Spreads, Others
  <2>2. slots'[s] = slots[s]
    BY <1>1, <1>2, <1>4
  <2>3. Silent(m)'
    <3>1. slots'[m] = IF m = o THEN Emptied(o) ELSE slots[m]
      BY <1>1, <1>4, <2>1
    <3>2. \A i \in DOMAIN Emptied(o) : Emptied(o)[i] = Free
      BY <1>2 DEF Emptied, Silent
    <3> QED BY <1>1, <2>1, <3>1, <3>2 DEF Silent
  <2>4. Reaching(s, c, m)' \/ Took(s, c, m)'
    <3>1. air'[m] = air[m]
      BY <1>3, <2>1
    <3>2. Took(s, c, m) => Took(s, c, m)'
      BY <1>1, <3>1 DEF Took
    <3>3. Reaching(s, c, m) => Reaching(s, c, m)'
      BY <1>1, <2>2, <3>1 DEF Reaching, Somewhere, Followed
    <3> QED BY <2>1, <3>2, <3>3
  <2> QED BY <2>3, <2>4
<1> QED BY <1>1, <1>3, <1>5, SpreadsOn

\* That of s sends c to all, or c is not to be sent.
LEMMA OwnTickSpreads ==
  ASSUME GroupTyped, NEW s \in Members, NEW c, Spreads(s, c), QuickTick(s), ~excused'
  PROVE  Spreads(s, c)'
<1>1. /\ slots' = [slots EXCEPT ![s] = Emptied(s)] /\ changes' = changes
      /\ air' = [n \in Members |-> IF n # s /\ sockets[n] THEN air[n] \o Sent(s) ELSE air[n]]
      /\ Sent(s) = <<>> \/ \A n \in Others(s) : sockets[n]
      /\ UNCHANGED <<relay, parsed, formatted, taken>>
  BY DEF QuickTick
<1>2. /\ Sent(s) \in Seq(Packets)
      /\ \A i \in DOMAIN Sent(s) : Made(Sent(s)[i], s, changes)
      /\ ~mutexKept[s] => \A j \in DOMAIN slots[s] : slots[s][j] # Free => \E i \in DOMAIN Sent(s) : Sent(s)[i] = slots[s][j]
  BY SentIs
<1>3. c # Free /\ DOMAIN slots = Members
  BY FreeIsNone DEF Spreads, GroupTyped, MembersTyped
<1>4. ASSUME NEW m \in Others(s) PROVE Silent(m)' /\ (Reaching(s, c, m)' \/ Took(s, c, m)')
  <2>1. Silent(m) /\ (Reaching(s, c, m) \/ Took(s, c, m)) /\ m \in Members /\ m # s
    BY DEF Spreads, Others
  <2>2. Silent(m)'
    BY <1>1, <1>3, <2>1 DEF Silent
  <2> DEFINE A == air[m] B == Sent(s) C == air[m] \o Sent(s)
  <2>3. A \in Seq(Packets)
    BY <2>1 DEF GroupTyped, MembersTyped
  <2>4. air'[m] = C
    <3>1. A \o <<>> = A
      BY <2>3
    <3> QED BY <1>1, <2>1, <3>1
  <2>5. /\ DOMAIN C = 1 .. (Len(A) + Len(B)) /\ DOMAIN A = 1 .. Len(A) /\ DOMAIN B = 1 .. Len(B)
        /\ Len(A) \in Nat /\ Len(B) \in Nat
        /\ \A i \in 1 .. Len(A) : C[i] = A[i]
        /\ \A i \in 1 .. Len(B) : C[Len(A) + i] = B[i]
    BY <1>2, <2>3, JoinedIs
  <2>6. \A i \in DOMAIN B : B[i].from = s
    BY <1>2 DEF Made
  <2> HIDE DEF A, B, C
  <2>7. ASSUME NEW j \in DOMAIN C
        PROVE  (j \in DOMAIN A /\ C[j] = A[j]) \/ (j > Len(A) /\ C[j].from = s)
    <3>1. CASE j \in DOMAIN A
      BY <2>5, <3>1
    <3>2. CASE j \notin DOMAIN A
      <4>1. j - Len(A) \in DOMAIN B /\ Len(A) + (j - Len(A)) = j /\ j > Len(A)
        BY <2>5, <3>2
      <4> QED BY <2>5, <2>6, <4>1
    <3> QED BY <3>1, <3>2
  <2>8. ASSUME \A j \in DOMAIN A : A[j].from = s PROVE \A j \in DOMAIN air'[m] : air'[m][j].from = s
    BY <2>4, <2>7, <2>8
  <2>9. Took(s, c, m) => Took(s, c, m)'
    BY <1>1, <2>8 DEF Took, A
  <2>10. ASSUME Somewhere(s, c, m) PROVE Somewhere(s, c, m)'
    <3>1. CASE (\E u \in Senders[s] : formatted[s][u] = c) \/ parsed[m] = c
      BY <1>1, <3>1 DEF Somewhere
    <3>2. CASE \E i \in DOMAIN slots[s] : slots[s][i] = c
      <4>1. CASE mutexKept[s]
        <5>1. slots'[s] = slots[s]
          BY <1>1, <1>3, <4>1 DEF Emptied
        <5> QED BY <3>2, <5>1 DEF Somewhere
      <4>2. CASE ~mutexKept[s]
        <5>1. PICK i \in DOMAIN B : B[i] = c
          BY <1>2, <1>3, <3>2, <4>2 DEF B
        <5>2. Len(A) + i \in DOMAIN C /\ C[Len(A) + i] = c
          BY <2>5, <5>1
        <5> QED BY <2>4, <5>2 DEF Somewhere
      <4> QED BY <4>1, <4>2
    <3>3. CASE \E i \in DOMAIN A : A[i] = c
      <4>1. PICK i \in DOMAIN A : A[i] = c
        BY <3>3
      <4>2. i \in DOMAIN C /\ C[i] = c
        BY <2>5, <4>1
      <4> QED BY <2>4, <4>2 DEF Somewhere
    <3> QED BY <2>10, <3>1, <3>2, <3>3 DEF Somewhere, A
  <2>11. ASSUME Followed(s, c, m) PROVE Followed(s, c, m)'
    <3>1. ASSUME NEW i \in DOMAIN C, NEW j \in DOMAIN C, C[i] = c, j >= i PROVE C[j].from = s
      <4>1. CASE j \in DOMAIN A
        <5>1. i \in DOMAIN A
          BY <2>5, <3>1, <4>1
        <5>2. A[i] = c
          BY <2>5, <3>1, <5>1
        <5>3. A[j].from = s
          BY <2>11, <3>1, <4>1, <5>1, <5>2 DEF Followed, A
        <5> QED BY <2>5, <4>1, <5>3
      <4>2. CASE j \notin DOMAIN A
        BY <2>7, <4>2
      <4> QED BY <4>1, <4>2
    <3>2. parsed[m] = c => \A j \in DOMAIN air'[m] : air'[m][j].from = s
      BY <2>8, <2>11 DEF Followed, A
    <3>3. \A i, j \in DOMAIN air'[m] : air'[m][i] = c /\ j >= i => air'[m][j].from = s
      BY <2>4, <3>1
    <3>4. parsed'[m] = parsed[m]
      BY <1>1
    <3> QED BY <3>2, <3>3, <3>4 DEF Followed
  <2>12. Reaching(s, c, m) => Reaching(s, c, m)'
    BY <1>1, <2>10, <2>11 DEF Reaching
  <2> QED BY <2>1, <2>2, <2>9, <2>12
<1>5. air'[s] = air[s]
  BY <1>1
<1> QED BY <1>1, <1>4, <1>5, SpreadsOn

LEMMA ReceiveSpreads ==
  ASSUME GroupTyped, NEW s \in Members, NEW c, Spreads(s, c), NEW o \in Members, Receive(o)
  PROVE  Spreads(s, c)'
<1>1. /\ parsed' = [parsed EXCEPT ![o] = Head(air[o])] /\ air' = [air EXCEPT ![o] = Tail(air[o])]
      /\ parsed[o] = Free /\ air[o] # <<>> /\ changes' = changes
      /\ UNCHANGED <<relay, slots, formatted, taken>>
  BY DEF Receive, Processing
<1>2. o # s /\ DOMAIN air = Members /\ DOMAIN parsed = Members /\ c # Free
  BY <1>1, FreeIsNone DEF Spreads, GroupTyped, MembersTyped
<1>3. ASSUME NEW m \in Others(s) PROVE Silent(m)' /\ (Reaching(s, c, m)' \/ Took(s, c, m)')
  <2>1. Silent(m) /\ (Reaching(s, c, m) \/ Took(s, c, m)) /\ m \in Members
    BY DEF Spreads, Others
  <2>2. CASE m # o
    <3>1. air'[m] = air[m] /\ parsed'[m] = parsed[m]
      BY <1>1, <1>2, <2>2
    <3> QED BY <1>1, <2>1, <3>1, SpreadStays
  <2>3. CASE m = o
    <3> DEFINE A == air[m] B == Tail(air[m])
    <3>1. /\ A \in Seq(Packets) /\ A # <<>>
          /\ parsed'[m] = Head(A) /\ air'[m] = B
      BY <1>1, <1>2, <2>1, <2>3 DEF GroupTyped, MembersTyped
    <3>2. /\ Head(A) = A[1] /\ 1 \in DOMAIN A
          /\ \A i \in DOMAIN B : i + 1 \in DOMAIN A /\ B[i] = A[i + 1]
          /\ \A i \in DOMAIN A : i = 1 \/ (i - 1 \in DOMAIN B /\ A[i] = B[i - 1])
      BY <3>1, RestOf
    <3>3. DOMAIN A \subseteq Nat /\ DOMAIN B \subseteq Nat
      BY <3>1
    <3> HIDE DEF A, B
    <3>4. Silent(m)'
      BY <1>1, <2>1 DEF Silent
    <3>5. ASSUME \A j \in DOMAIN A : A[j].from = s
          PROVE  parsed'[m].from = s /\ \A j \in DOMAIN air'[m] : air'[m][j].from = s
      BY <3>1, <3>2, <3>5
    <3>6. Took(s, c, m) => Took(s, c, m)'
      BY <1>1, <3>5 DEF Took, A
    <3>7. ASSUME Somewhere(s, c, m) PROVE Somewhere(s, c, m)'
      <4>1. CASE (\E u \in Senders[s] : formatted[s][u] = c) \/ \E i \in DOMAIN slots[s] : slots[s][i] = c
        BY <1>1, <4>1 DEF Somewhere
      <4>2. CASE \E i \in DOMAIN A : A[i] = c
        <5>1. PICK i \in DOMAIN A : A[i] = c
          BY <4>2
        <5>2. parsed'[m] = c \/ \E x \in DOMAIN air'[m] : air'[m][x] = c
          BY <3>1, <3>2, <5>1
        <5> QED BY <5>2 DEF Somewhere
      <4> QED BY <1>1, <1>2, <2>3, <3>7, <4>1, <4>2 DEF Somewhere, A
    <3>8. ASSUME Followed(s, c, m) PROVE Followed(s, c, m)'
      <4>1. ASSUME NEW i \in DOMAIN B, NEW j \in DOMAIN B, B[i] = c, j >= i PROVE B[j].from = s
        <5>1. i + 1 \in DOMAIN A /\ j + 1 \in DOMAIN A /\ A[i + 1] = c /\ B[j] = A[j + 1] /\ j + 1 >= i + 1
          BY <3>2, <3>3, <4>1
        <5> QED BY <3>8, <5>1 DEF Followed, A
      <4>2. ASSUME parsed'[m] = c, NEW j \in DOMAIN B PROVE B[j].from = s
        <5>1. A[1] = c /\ 1 \in DOMAIN A /\ j + 1 \in DOMAIN A /\ B[j] = A[j + 1] /\ j + 1 >= 1
          BY <3>1, <3>2, <3>3, <4>2
        <5> QED BY <3>8, <5>1 DEF Followed, A
      <4> QED BY <3>1, <4>1, <4>2 DEF Followed
    <3>9. Reaching(s, c, m) => Reaching(s, c, m)'
      BY <1>1, <3>7, <3>8 DEF Reaching
    <3> QED BY <2>1, <3>4, <3>6, <3>9
  <2> QED BY <2>2, <2>3
<1>4. air'[s] = air[s] /\ parsed'[s] = parsed[s]
  BY <1>1, <1>2
<1> QED BY <1>1, <1>3, <1>4, SpreadsOn

\* c is taken when it is parsed, an older packet of s after it is refused.
LEMMA ParsedSpreads ==
  ASSUME ~outrun, GroupTyped, OrderInv, NEW s \in Members, NEW c, Spreads(s, c),
         NEW o \in Members, Parsed(o), ~excused'
  PROVE  Spreads(s, c)'
<1> PICK p : p = parsed[o]
  OBVIOUS
<1>1. TakesOrRefuses(o, p)
  BY ParsedIs
<1>2. /\ UNCHANGED <<slots, air>> /\ changes' = changes
      /\ CheckSequence(o, p) \/ ~(p.made > taken[o][p.from].made)
      /\ ~PastWrap(taken[o][p.from], p)
  BY DEF Parsed
<1>3. o # s /\ c # Free /\ Made(c, s, changes) /\ c.made = changes
  BY <1>1, FreeIsNone DEF TakesOrRefuses, Spreads
<1>4. Alive(p) /\ p.made \in 1 .. changes /\ changes \in Nat /\ p.seq \in Nat /\ p # Free
  <2>1. Alive(p) /\ p # Free
    BY <1>1, Here DEF TakesOrRefuses
  <2> QED BY <1>1, <2>1 DEF TakesOrRefuses, Made, Packets, GroupTyped, MembersTyped
<1>5. ASSUME NEW m \in Others(s) PROVE Silent(m)' /\ (Reaching(s, c, m)' \/ Took(s, c, m)')
  <2>1. Silent(m) /\ (Reaching(s, c, m) \/ Took(s, c, m)) /\ m \in Members
    BY DEF Spreads, Others
  <2>2. Silent(m)' /\ formatted' = formatted
    BY <1>1, <1>2, <2>1 DEF Silent, TakesOrRefuses
  <2>3. CASE m # o
    <3>1. parsed'[m] = parsed[m] /\ taken'[m] = taken[m] /\ relay'[m] = relay[m]
      BY <1>1, <2>1, <2>3 DEF TakesOrRefuses
    <3> QED BY <1>2, <2>1, <2>2, <3>1, SpreadStays
  <2>4. CASE m = o /\ Took(s, c, m)
    <3>1. p.from = s /\ taken[m][s] = c /\ LastOf(m, s) = c.seq /\ relay[m] = c.val
      <4>1. taken[m][s] = c /\ p.from = s /\ relay[m] = c.val
        BY <1>4, <2>4 DEF Took
      <4>2. s \in Others(m)
        BY <2>1, <2>4, <1>3 DEF Others
      <4>3. LastOf(m, s) = taken[m][s].seq
        BY <1>3, <2>1, <4>1, <4>2 DEF GroupTyped, TakenTyped
      <4> QED BY <4>1, <4>3
    <3>2. ~CheckSequence(m, p)
      <4>1. ASSUME p.made = c.made PROVE ~CheckSequence(m, p)
        <5>1. Alive(c) /\ c.from = s
          <6>1. s \in Others(m)
            BY <1>3, <2>4 DEF Others
          <6> QED BY <1>3, <2>1, <3>1, <6>1, Here DEF Made
        <5>2. p = c
          BY <1>4, <3>1, <4>1, <5>1 DEF OrderInv, OneEach
        <5> QED BY <1>4, <3>1, <5>2 DEF CheckSequence
      <4>2. ASSUME p.made < c.made PROVE ~CheckSequence(m, p)
        <5>1. Alive(c) /\ c.from = s
          <6>1. s \in Others(m)
            BY <1>3, <2>4 DEF Others
          <6> QED BY <1>3, <2>1, <3>1, <6>1, Here DEF Made
        <5>2. c.seq <= p.seq + HardReset
          <6>1. s \in Others(m) /\ p = parsed[m]
            BY <1>3, <2>4 DEF Others
          <6> QED BY <1>3, <1>4, <2>1, <3>1, <4>2, <6>1, OlderIsNear
        <5>3. ~(p.seq > c.seq)
          BY <1>2, <2>4, <3>1, <4>2 DEF PastWrap
        <5>4. c.seq \in Nat
          BY <1>3 DEF Made, Packets
        <5>5. HardReset \in Nat
          OBVIOUS
        <5>6. ~(p.seq + HardReset < c.seq)
          BY <1>4, <5>2, <5>4, <5>5
        <5> QED BY <3>1, <5>3, <5>6 DEF CheckSequence
      <4> QED BY <1>3, <1>4, <4>1, <4>2
    <3>3. taken' = taken /\ relay' = relay /\ parsed'[m] = Free
      BY <1>1, <2>4, <3>2 DEF TakesOrRefuses
    <3>4. Took(s, c, m)'
      BY <1>2, <2>4, <3>3 DEF Took
    <3> QED BY <2>2, <3>4
  <2>5. CASE m = o /\ Reaching(s, c, m) /\ p = c
    <3>1. p.from = s /\ taken[m][s] # c /\ s \in Others(m)
      BY <1>3, <2>5 DEF Reaching, Made, Others
    <3>2. FreeOrMade(taken[m][s], s, changes)
      BY <2>1, <3>1 DEF GroupTyped, TakenTyped
    <3>3. p.made > taken[m][s].made
      <4>1. CASE taken[m][s] = Free
        BY <1>4, <4>1, FreeIsNone
      <4>2. CASE taken[m][s] # Free
        <5>1. Alive(taken[m][s]) /\ taken[m][s].from = s /\ taken[m][s].made \in 1 .. changes
          BY <2>1, <3>1, <3>2, <4>2, Here DEF FreeOrMade, Made
        <5>2. taken[m][s].made # p.made
          BY <1>4, <2>5, <3>1, <5>1 DEF OrderInv, OneEach
        <5> QED BY <1>3, <1>4, <2>5, <5>1, <5>2
      <4> QED BY <4>1, <4>2
    <3>4. CheckSequence(m, p)
      BY <1>2, <2>5, <3>1, <3>3
    <3>5. taken'[m][s] = c /\ relay'[m] = c.val /\ parsed'[m] = Free
      BY <1>1, <2>5, <3>1, <3>4 DEF TakesOrRefuses
    <3>6. \A j \in DOMAIN air[m] : air[m][j].from = s
      BY <2>5 DEF Reaching, Followed
    <3> QED BY <1>2, <2>2, <3>5, <3>6 DEF Took
  <2>6. CASE m = o /\ Reaching(s, c, m) /\ p # c
    <3>1. taken[m][s] # c /\ s \in Others(m)
      BY <1>3, <2>6 DEF Reaching, Others
    <3>2. taken'[m][s] # c
      BY <1>1, <2>6, <3>1 DEF TakesOrRefuses
    <3>3. Somewhere(s, c, m)'
      BY <1>2, <2>2, <2>6 DEF Reaching, Somewhere
    <3>4. Followed(s, c, m)'
      <4>1. parsed'[m] # c
        BY <1>1, <1>3, <2>6 DEF TakesOrRefuses
      <4> QED BY <1>2, <2>6, <4>1 DEF Reaching, Followed
    <3> QED BY <2>2, <3>2, <3>3, <3>4 DEF Reaching
  <2> QED BY <2>1, <2>3, <2>4, <2>5, <2>6
<1>6. relay'[s] = relay[s] /\ parsed'[s] = parsed[s] /\ air'[s] = air[s]
  BY <1>1, <1>2, <1>3 DEF TakesOrRefuses
<1> QED BY <1>2, <1>5, <1>6, SpreadsOn

\* A change that crosses nothing makes the packet the others will take.
LEMMA ChangeSpreads ==
  ASSUME GroupTyped, NEW o \in Members, NEW t \in Senders[o], Change(o, t), ~excused'
  PROVE  \E c \in Packets : Spreads(o, c)'
<1> PICK c : c = Packet(o, 1 - relay[o])
  OBVIOUS
<1>1. MembersTyped /\ 1 - relay[o] \in {0, 1}
  BY OtherLevel DEF GroupTyped
<1>2. /\ Made(c, o, changes + 1) /\ c \in Packets /\ c.made = changes + 1 /\ c.val = 1 - relay[o] /\ c # Free
  BY <1>1, PacketMade
<1>3. /\ relay' = [relay EXCEPT ![o] = 1 - relay[o]] /\ changes' = changes + 1 /\ changes \in Nat
      /\ ~Crossing(o) /\ UNCHANGED <<slots, parsed, air, taken>>
      /\ formatted' = Formatted(o, t, 1 - relay[o])
  <2>1. excused' = (excused \/ Crossing(o))
    BY DEF Change
  <2>2. ~Crossing(o)
    BY <2>1
  <2> QED BY <1>1, <2>2 DEF Change, MembersTyped
<1>4. /\ air[o] = <<>> /\ parsed[o] = Free
      /\ \A m \in Others(o) : Silent(m)
  BY <1>3 DEF Crossing, Processing, Silent
<1>5. formatted' = [formatted EXCEPT ![o][t] = c]
  BY <1>3, <1>4 DEF Formatted, Processing
<1>6. /\ DOMAIN formatted = Members /\ DOMAIN formatted[o] = Senders[o] /\ DOMAIN relay = Members
  BY <1>1 DEF GroupTyped, MembersTyped, SentTyped
<1>7. relay'[o] = c.val
  BY <1>2, <1>3, <1>6
<1>8. ASSUME NEW m \in Others(o) PROVE Silent(m)' /\ Reaching(o, c, m)'
  <2>1. m \in Members /\ m # o /\ o \in Others(m) /\ TakenTyped(m) /\ Silent(m)
    BY <1>4 DEF Others, GroupTyped
  <2>2. Silent(m)'
    <3>1. formatted'[m] = formatted[m]
      BY <1>5, <1>6, <2>1
    <3> QED BY <1>3, <2>1, <3>1 DEF Silent
  <2>3. \A q, n : Made(q, n, changes) => q # c
    BY <1>2, <1>3 DEF Made
  <2>4. taken'[m][o] # c
    BY <1>2, <1>3, <2>1, <2>3 DEF TakenTyped, FreeOrMade
  <2>5. parsed'[m] # c
    BY <1>2, <1>3, <2>1, <2>3 DEF TakenTyped, Processing
  <2>6. \A i \in DOMAIN air'[m] : air'[m][i] # c
    BY <1>3, <2>1, <2>3 DEF TakenTyped
  <2>7. formatted'[o][t] = c
    BY <1>5, <1>6
  <2> QED BY <2>2, <2>4, <2>5, <2>6, <2>7 DEF Reaching, Somewhere, Followed
<1>9. air'[o] = <<>> /\ parsed'[o] = Free
  BY <1>3, <1>4
<1>10. Spreads(o, c)'
  BY <1>2, <1>3, <1>7, <1>8, <1>9 DEF Spreads
<1> QED BY <1>2, <1>10

LEMMA AgreeStep == GroupTyped /\ OrderInv /\ AgreeInv /\ [GroupNext]_groupVars => AgreeInv'
<1> SUFFICES ASSUME GroupTyped, OrderInv, AgreeInv, [GroupNext]_groupVars, ~excused', ~outrun'
             PROVE  AgreeInv'
  BY DEF AgreeInv
<1>e. ~excused /\ ~outrun
  BY Outlasts
<1>1. ASSUME NEW o \in Members, NEW t \in Senders[o], Change(o, t) PROVE AgreeInv'
  <2>1. \E c \in Packets : Spreads(o, c)'
    BY <1>1, ChangeSpreads
  <2> QED BY <2>1 DEF AgreeInv
<1>2. ASSUME NEW o \in Members, NEW t \in Senders[o], MutexTimesOut(o, t) PROVE FALSE
  BY <1>2 DEF MutexTimesOut
<1>3. ASSUME NEW o \in Members, Restart(o) \/ Lose(o) PROVE FALSE
  BY <1>3 DEF Restart, Lose
<1>4. CASE AllOff
  <2>1. ASSUME NEW o \in Members, Parsed(o) PROVE FALSE
    <3>1. Made(parsed[o], parsed[o].from, changes)
      BY <2>1 DEF Parsed, GroupTyped, TakenTyped
    <3>2. changes = 0
      BY <1>4 DEF AllOff
    <3> QED BY <3>1, <3>2 DEF Made
  <2>2. CASE GroupNext /\ \A o \in Members : \A t \in Senders[o] : ~Change(o, t)
    <3>1. changes' = changes /\ relay' = relay
      BY <1>2, <1>3, <2>1, <2>2 DEF GroupNext, Driver, Enqueue, QuickTick, Receive, TickEnds, CreateSockets
    <3> QED BY <1>4, <3>1 DEF AllOff, AgreeInv
  <2>3. CASE UNCHANGED groupVars
    BY <1>4, <2>3 DEF AllOff, AgreeInv, groupVars
  <2> QED BY <1>1, <2>2, <2>3
<1>5. ASSUME NEW s \in Members, NEW c \in Packets, Spreads(s, c) PROVE AgreeInv'
  <2>1. ASSUME NEW o \in Members, Driver(o) PROVE Spreads(s, c)'
    <3>1. ASSUME NEW t \in Senders[o], Enqueue(o, t) PROVE Spreads(s, c)'
      BY <1>5, <3>1, EnqueueSpreads
    <3>2. CASE QuickTick(o)
      <4>1. CASE o = s
        BY <1>5, <3>2, <4>1, OwnTickSpreads
      <4>2. CASE o # s
        <5>1. o \in Others(s)
          BY <4>2 DEF Others
        <5> QED BY <1>5, <3>2, <5>1, OtherTickSpreads
      <4> QED BY <4>1, <4>2
    <3>3. CASE Receive(o)
      BY <1>5, <3>3, ReceiveSpreads
    <3>4. CASE Parsed(o)
      BY <1>e, <1>5, <3>4, ParsedSpreads
    <3>5. CASE TickEnds(o) \/ CreateSockets(o)
      BY <1>5, <3>5 DEF TickEnds, CreateSockets, Spreads, Silent, Reaching, Took, Somewhere, Followed, Made
    <3> QED BY <2>1, <3>1, <3>2, <3>3, <3>4, <3>5 DEF Driver
  <2>2. CASE UNCHANGED groupVars
    <3>1. Spreads(s, c)'
      BY <1>5, <2>2 DEF groupVars, Spreads, Silent, Reaching, Took, Somewhere, Followed, Made
    <3> QED BY <3>1 DEF AgreeInv
  <2>3. CASE GroupNext
    <3>1. Spreads(s, c)' \/ AgreeInv'
      BY <1>1, <1>2, <1>3, <2>1, <2>3 DEF GroupNext
    <3> QED BY <3>1 DEF AgreeInv
  <2> QED BY <2>2, <2>3
<1> QED BY <1>e, <1>4, <1>5 DEF AgreeInv

\* Members of a group agree once nothing is on its way, however many they are and in
\* whatever order packets are sent and taken, unless something happened that "excused"
\* names or a packet was outrun (DGR_AddToSendQueue, DRV_DGR_OnChannelChanged,
\* DGR_FlushSendQueue, DGR_CheckSequence).
THEOREM MembersComeToAgree == GroupSpec => []MembersAgree
<1>1. GroupInit => GroupTyped /\ OrderInv /\ AgreeInv
  <2>1. GroupInit => AllOff
    BY DEF GroupInit, AllOff
  <2> QED BY <2>1, GroupStarts, OrderStarts DEF AgreeInv
<1>2. GroupTyped /\ OrderInv /\ AgreeInv /\ [GroupNext]_groupVars => GroupTyped' /\ OrderInv' /\ AgreeInv'
  BY GroupTypedStep, OrderStep, AgreeStep
<1>3. AgreeInv => MembersAgree
  <2> SUFFICES ASSUME AgreeInv, Still, ~excused, ~outrun PROVE \A m, o \in Members : relay[m] = relay[o]
    BY DEF MembersAgree
  <2>1. CASE AllOff
    BY <2>1 DEF AllOff
  <2>2. ASSUME NEW s \in Members, NEW c \in Packets, Spreads(s, c)
        PROVE  \A m \in Members : relay[m] = c.val
    <3>1. ASSUME NEW m \in Others(s) PROVE relay[m] = c.val
      <4>1. m \in Members /\ (Reaching(s, c, m) \/ Took(s, c, m)) /\ c # Free
        BY <2>2, FreeIsNone DEF Spreads, Others
      <4>2. /\ air[m] = <<>> /\ parsed[m] = Free
            /\ \A t \in Senders[s] : formatted[s][t] = Free
            /\ \A i \in DOMAIN slots[s] : slots[s][i] = Free
        BY <4>1 DEF Still, Processing
      <4>3. ~Somewhere(s, c, m)
        BY <4>1, <4>2 DEF Somewhere
      <4> QED BY <4>1, <4>3 DEF Reaching, Took
    <3> QED BY <2>2, <3>1 DEF Spreads, Others
  <2> QED BY <2>1, <2>2 DEF AgreeInv
<1> QED BY <1>1, <1>2, <1>3, PTL DEF GroupSpec

(***************************************************************************)
(* The pairing with a TuyaMCU                                              *)
(***************************************************************************)
HIDE GroupAssumption DEF GroupAssumption

LEMMA PairingNumbers ==
  /\ HeartbeatPause \in Nat /\ HeartbeatPause > 0 /\ Missed \in Nat /\ Missed > 0
  /\ Resend \in Nat /\ Resend > 0 /\ Backlog \in Nat /\ Backlog > 0
  /\ MaxDisturbed \in Nat /\ MaxDisturbed > 0
  /\ Kinds \subseteq [self : BOOLEAN, needsNetwork : BOOLEAN]
<1>1. \A n \in {HeartbeatPause, Missed, Resend, Backlog, MaxDisturbed} : n \in Nat /\ n > 0
  BY PairingAssumption DEF PairingAssumption
<1> QED BY <1>1, PairingAssumption DEF PairingAssumption

USE PairingNumbers

ToMcu ==
  [cmd : {"heartbeat", "product", "mode", "wifi", "state"}] \cup [cmd : {"network"}, on : BOOLEAN]
FromMcu ==
  [cmd : {"heartbeat", "product", "wifi", "state", "report"}] \cup [cmd : {"mode"}, self : BOOLEAN]

\* What either side is sent it knows; each report leaves room for one packet less.
PairingInv ==
  /\ valid \subseteq Flags /\ selfMode \in BOOLEAN /\ beatTimer \in 0..HeartbeatPause
  /\ beatsMissed \in 0..Missed /\ queries \in 0..3 /\ wifiState \in BOOLEAN
  /\ wifiTimer \in 0..(Resend - 1) /\ online \in BOOLEAN /\ kind \in Kinds
  /\ out \in Seq(ToMcu) /\ in \in Seq(FromMcu) /\ disturbed \in 0..MaxDisturbed
  /\ Len(out) + Len(in) + disturbed <= Backlog + 1 + MaxDisturbed

LEMMA OneToMcu ==
  \A s \in Seq(ToMcu) :
    /\ \A x \in ToMcu : s \o <<x>> \in Seq(ToMcu) /\ Len(s \o <<x>>) = Len(s) + 1
    /\ \A x, y \in ToMcu : s \o <<x, y>> \in Seq(ToMcu) /\ Len(s \o <<x, y>>) = Len(s) + 2
    /\ s \o <<>> = s
<1> SUFFICES ASSUME NEW s \in Seq(ToMcu)
             PROVE  /\ \A x \in ToMcu : s \o <<x>> \in Seq(ToMcu) /\ Len(s \o <<x>>) = Len(s) + 1
                    /\ \A x, y \in ToMcu : s \o <<x, y>> \in Seq(ToMcu) /\ Len(s \o <<x, y>>) = Len(s) + 2
                    /\ s \o <<>> = s
  OBVIOUS
<1>1. ASSUME NEW x \in ToMcu PROVE s \o <<x>> \in Seq(ToMcu) /\ Len(s \o <<x>>) = Len(s) + 1
  OBVIOUS
<1>2. ASSUME NEW x \in ToMcu, NEW y \in ToMcu
      PROVE  s \o <<x, y>> \in Seq(ToMcu) /\ Len(s \o <<x, y>>) = Len(s) + 2
  OBVIOUS
<1>3. s \o <<>> = s
  OBVIOUS
<1> QED BY <1>1, <1>2, <1>3

LEMMA OneFromMcu ==
  \A s \in Seq(FromMcu) :
    /\ \A x \in FromMcu : s \o <<x>> \in Seq(FromMcu) /\ Len(s \o <<x>>) = Len(s) + 1
    /\ s \o <<>> = s
OBVIOUS

\* What the module sends in a second: two packets at most.
SentOn == out' \in Seq(ToMcu) /\ Len(out') \in Len(out) .. (Len(out) + 2)

LEMMA WiFiUpdateSends ==
  ASSUME PairingInv, RunWiFiUpdate
  PROVE  SentOn /\ wifiState' \in BOOLEAN /\ wifiTimer' \in 0..(Resend - 1)
<1>1. Network(online) \in ToMcu /\ out \in Seq(ToMcu) /\ Len(out) \in Nat
  BY DEF PairingInv, Network, ToMcu
<1>2. out' = out \o <<Network(online)>> \/ out' = out \o <<>>
  BY DEF RunWiFiUpdate, Send
<1>3. SentOn
  BY <1>1, <1>2, OneToMcu DEF SentOn
<1>4. wifiTimer' \in 0..(Resend - 1)
  BY DEF RunWiFiUpdate, NextWifiTimer, Counted, PairingInv
<1> QED BY <1>3, <1>4 DEF RunWiFiUpdate, PairingInv

LEMMA SecondPairs == PairingInv /\ RunEverySecond => PairingInv'
<1> SUFFICES ASSUME PairingInv, RunEverySecond PROVE PairingInv'
  OBVIOUS
<1>1. /\ Len(out) + Len(in) < Backlog /\ Len(out) \in Nat /\ Len(in) \in Nat
      /\ UNCHANGED <<kind, up, told, in, online, disturbed>> /\ out \in Seq(ToMcu)
  BY DEF RunEverySecond, mcuVars, PairingInv
<1>2. \A c \in {"heartbeat", "product", "mode", "wifi", "state"} : Ask(c) \in ToMcu
  BY DEF Ask, ToMcu
<1>3. Network(FALSE) \in ToMcu
  BY DEF Network, ToMcu
<1>4. SentOn /\ valid' \subseteq Flags /\ selfMode' \in BOOLEAN /\ beatTimer' \in 0..HeartbeatPause
      /\ beatsMissed' \in 0..Missed /\ queries' \in 0..3 /\ wifiState' \in BOOLEAN /\ wifiTimer' \in 0..(Resend - 1)
  <2>1. CASE Beat
    <3>1. out' = out \o <<Ask("heartbeat")>> /\ Ask("heartbeat") \in ToMcu
      BY <1>2, <2>1 DEF Beat, Send
    <3>2. SentOn
      BY <1>1, <3>1, OneToMcu DEF SentOn
    <3> QED BY <2>1, <3>2 DEF Beat, PairingInv
  <2>2. CASE Proceed /\ beatTimer # 0
    <3>1. /\ UNCHANGED <<valid, selfMode, beatsMissed>> /\ beatTimer' = beatTimer - 1
          /\ beatTimer' \in 0..HeartbeatPause
      <4>1. UNCHANGED <<valid, selfMode, beatsMissed>> /\ beatTimer' = beatTimer - 1
        BY <2>2 DEF Proceed
      <4>2. beatTimer \in 0..HeartbeatPause /\ beatTimer # 0
        BY <2>2 DEF PairingInv
      <4> QED BY <4>1, <4>2
    <3>2. CASE UNCHANGED <<out, queries, wifiState, wifiTimer>>
      BY <1>1, <3>1, <3>2 DEF PairingInv, SentOn
    <3>3. CASE QueryState
      <4>1. queries' \in 0..3
        BY <3>3 DEF QueryState, NextQuery, PairingInv
      <4>2. CASE RunWiFiUpdate
        BY <3>1, <4>1, <4>2, WiFiUpdateSends DEF PairingInv
      <4>3. CASE Send(<<Ask("state")>>) /\ UNCHANGED <<wifiState, wifiTimer>>
        <5>1. Ask("state") \in ToMcu /\ out' = out \o <<Ask("state")>>
          BY <1>2, <4>3 DEF Send
        <5>2. SentOn
          BY <1>1, <5>1, OneToMcu DEF SentOn
        <5> QED BY <3>1, <4>1, <4>3, <5>2 DEF PairingInv
      <4> QED BY <3>3, <4>2, <4>3 DEF QueryState
    <3>4. CASE RunWiFiUpdate /\ UNCHANGED queries
      BY <3>1, <3>4, WiFiUpdateSends DEF PairingInv
    <3>5. CASE /\ \/ Send(<<Ask("product")>>) \/ Send(<<Ask("mode")>>)
                  \/ Send(<<Network(FALSE), Ask("wifi")>>)
               /\ UNCHANGED <<queries, wifiState, wifiTimer>>
      <4>1. SentOn
        <5>1. \/ \E x \in ToMcu : out' = out \o <<x>>
              \/ \E x, y \in ToMcu : out' = out \o <<x, y>>
          BY <1>2, <1>3, <3>5 DEF Send
        <5>2. ASSUME NEW x \in ToMcu, out' = out \o <<x>> PROVE SentOn
          BY <1>1, <5>2, OneToMcu DEF SentOn
        <5>3. ASSUME NEW x \in ToMcu, NEW y \in ToMcu, out' = out \o <<x, y>> PROVE SentOn
          BY <1>1, <5>3, OneToMcu DEF SentOn
        <5> QED BY <5>1, <5>2, <5>3
      <4> QED BY <3>1, <3>5, <4>1 DEF PairingInv
    <3> QED BY <2>2, <3>2, <3>3, <3>4, <3>5 DEF Proceed
  <2> QED BY <2>1, <2>2 DEF RunEverySecond
<1>5. Len(out') + Len(in) + disturbed <= Backlog + 1 + MaxDisturbed
  BY <1>1, <1>4 DEF SentOn, PairingInv
<1> QED BY <1>1, <1>4, <1>5 DEF PairingInv, SentOn

LEMMA PairingStep == PairingInv /\ [PairingNext]_pairVars => PairingInv'
<1> SUFFICES ASSUME PairingInv, [PairingNext]_pairVars PROVE PairingInv'
  OBVIOUS
<1>1. /\ out \in Seq(ToMcu) /\ in \in Seq(FromMcu) /\ Len(out) \in Nat /\ Len(in) \in Nat
      /\ disturbed \in 0..MaxDisturbed /\ kind \in [self : BOOLEAN, needsNetwork : BOOLEAN]
  BY DEF PairingInv
<1>2. out # <<>> => Tail(out) \in Seq(ToMcu) /\ Len(Tail(out)) = Len(out) - 1 /\ Head(out) \in ToMcu
  BY <1>1
<1>3. in # <<>> => Tail(in) \in Seq(FromMcu) /\ Len(Tail(in)) = Len(in) - 1 /\ Head(in) \in FromMcu
  BY <1>1
<1>4. CASE ProcessIncoming
  <2>1. Head(in) \in FromMcu /\ in' = Tail(in) /\ in # <<>>
    BY <1>3, <1>4 DEF ProcessIncoming
  <2>2. Learns(Head(in).cmd) \subseteq Flags
    BY <2>1 DEF FromMcu, Learns, Flags
  <2>3. selfMode' \in BOOLEAN
    BY <1>4, <2>1 DEF ProcessIncoming, FromMcu, PairingInv
  <2>4. valid' \subseteq Flags /\ beatsMissed' \in 0..Missed /\ queries' \in 0..3
    BY <1>4, <2>2 DEF ProcessIncoming, PairingInv
  <2>5. UNCHANGED <<beatTimer, wifiState, wifiTimer, online, kind, up, told, out, disturbed>>
    BY <1>4 DEF ProcessIncoming
  <2> QED BY <1>1, <1>3, <2>1, <2>3, <2>4, <2>5 DEF PairingInv
<1>5. CASE McuAnswers
  <2>1. out # <<>> /\ out' = Tail(out) /\ (in' = in \/ in' = in \o Answer(Head(out)))
        /\ UNCHANGED <<valid, selfMode, beatTimer, beatsMissed, queries, wifiState, wifiTimer,
                       online, kind, up, disturbed>>
    BY <1>5 DEF McuAnswers
  <2>2. Answer(Head(out)) = <<>> \/ \E p \in FromMcu : Answer(Head(out)) = <<p>>
    <3>1. Head(out) \in ToMcu
      BY <1>2, <2>1
    <3>2. CASE Head(out).cmd = "network"
      BY <3>2 DEF Answer, Ask, FromMcu
    <3>3. CASE Head(out).cmd = "mode"
      <4>1. [cmd |-> "mode", self |-> kind.self] \in FromMcu
        BY <1>1 DEF FromMcu
      <4> QED BY <3>3, <4>1 DEF Answer
    <3>4. CASE Head(out).cmd \notin {"network", "mode"}
      <4>1. Head(out) \in FromMcu
        BY <3>1, <3>4 DEF ToMcu, FromMcu
      <4> QED BY <3>4, <4>1 DEF Answer
    <3> QED BY <3>2, <3>3, <3>4
  <2>3. in' \in Seq(FromMcu) /\ Len(in') \in Nat /\ Len(in') <= Len(in) + 1
    <3>1. in' = in \o <<>> \/ in' = in \/ \E p \in FromMcu : in' = in \o <<p>>
      BY <2>1, <2>2
    <3>2. in \o <<>> = in /\ \A p \in FromMcu : in \o <<p>> \in Seq(FromMcu) /\ Len(in \o <<p>>) = Len(in) + 1
      BY <1>1, OneFromMcu
    <3>3. ASSUME NEW p \in FromMcu, in' = in \o <<p>> PROVE in' \in Seq(FromMcu) /\ Len(in') = Len(in) + 1
      BY <3>2, <3>3
    <3>4. in' = in \/ (in' \in Seq(FromMcu) /\ Len(in') = Len(in) + 1)
      BY <3>1, <3>2, <3>3
    <3> QED BY <1>1, <3>4
  <2> QED BY <1>1, <1>2, <2>1, <2>3 DEF PairingInv
<1>6. CASE Disturbance
  <2>1. /\ disturbed' = disturbed - 1 /\ disturbed > 0 /\ disturbed' \in 0..MaxDisturbed
        /\ UNCHANGED <<valid, selfMode, beatTimer, beatsMissed, queries, wifiState, wifiTimer>>
    BY <1>1, <1>6 DEF Disturbance, Disturb, DriverUnchanged
  <2>2. CASE McuReports
    <3>1. Ask("report") \in FromMcu
      BY DEF Ask, FromMcu
    <3>2. Append(in, Ask("report")) \in Seq(FromMcu) /\ Len(Append(in, Ask("report"))) = Len(in) + 1
      BY <1>1, <3>1
    <3> QED BY <1>1, <2>1, <2>2, <3>2 DEF McuReports, PairingInv
  <2>3. CASE LoseOut
    BY <1>1, <1>2, <2>1, <2>3 DEF LoseOut, mcuVars, PairingInv
  <2>4. CASE LoseIn
    BY <1>1, <1>3, <2>1, <2>4 DEF LoseIn, PairingInv
  <2>5. CASE McuStops \/ McuStarts \/ NetworkChanges
    <3>1. UNCHANGED <<kind, out, in>> /\ (UNCHANGED online \/ online' = ~online)
      BY <2>5 DEF McuStops, McuStarts, NetworkChanges, mcuVars
    <3>2. online' \in BOOLEAN
      BY <3>1 DEF PairingInv
    <3> QED BY <1>1, <2>1, <3>1, <3>2 DEF PairingInv
  <2> QED BY <1>6, <2>2, <2>3, <2>4, <2>5 DEF Disturbance
<1>7. CASE UNCHANGED pairVars
  BY <1>7 DEF pairVars, PairingInv
<1> QED BY <1>4, <1>5, <1>6, <1>7, SecondPairs DEF PairingNext

\* The timers and counters of the handshake keep their ranges, an MCU never makes a flag
\* valid that there is none of, and no more packets are on their way than the seconds,
\* the answers and the reports of the MCU account for.
THEOREM PairingTyped == PairingSpec => []PairingTypeOK
<1>1. PairingInit => PairingInv
  <2> SUFFICES ASSUME PairingInit PROVE PairingInv
    OBVIOUS
  <2>1. <<>> \in Seq(ToMcu) /\ <<>> \in Seq(FromMcu) /\ Len(<<>>) = 0
    OBVIOUS
  <2>2. out \in Seq(ToMcu) /\ in \in Seq(FromMcu) /\ Len(out) = 0 /\ Len(in) = 0
    BY <2>1 DEF PairingInit
  <2>3. disturbed \in 0..MaxDisturbed /\ Len(out) + Len(in) + disturbed <= Backlog + 1 + MaxDisturbed
    BY <2>2 DEF PairingInit
  <2>4. beatTimer \in 0..HeartbeatPause /\ beatsMissed \in 0..Missed /\ wifiTimer \in 0..(Resend - 1)
    BY DEF PairingInit
  <2>5. valid \subseteq Flags /\ selfMode \in BOOLEAN /\ wifiState \in BOOLEAN /\ online \in BOOLEAN /\ kind \in Kinds
    BY DEF PairingInit
  <2>6. queries \in 0..3
    BY DEF PairingInit
  <2> QED BY <2>2, <2>3, <2>4, <2>5, <2>6 DEF PairingInv
<1>2. PairingInv /\ [PairingNext]_pairVars => PairingInv'
  BY PairingStep
<1>3. PairingInv => PairingTypeOK
  <2> SUFFICES ASSUME PairingInv PROVE PairingTypeOK
    OBVIOUS
  <2>1. Len(out) \in Nat /\ Len(in) \in Nat
    BY DEF PairingInv
  <2> QED BY <2>1 DEF PairingInv, PairingTypeOK
<1> QED BY <1>1, <1>2, <1>3, PTL DEF PairingSpec
=============================================================================
