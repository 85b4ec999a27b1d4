---------------------------- MODULE SystemProofs ----------------------------
(***************************************************************************)
(* Proofs about System, for every length of the day and the week, every    *)
(* set of schedules and every length of the battery's hold, and about how  *)
(* the launcher reads its input (ModeInput).                               *)
(*                                                                         *)
(* System's inductive invariant says where the boot partition can be       *)
(* switched, how the guard's hold is bounded by the time since a good      *)
(* reading, and that a loop which has looked at the scheduler did not find *)
(* the sleep minute.                                                       *)
(***************************************************************************)
EXTENDS System, ModeInput, TLAPS

\* The boot partition is the other one from the end of an update to the boot.
BootInv == at \notin {"off", "flashed"} => boot = "running"

\* The hold is no longer than the time without a good reading, began with a
\* critical one, and does not outlive power.
HoldInv ==
  /\ crit # None => crit <= sinceOk /\ dipped
  /\ at = "off" => crit = None

\* Only the capture mode has a START pending.
StartInv == autostart => at = "capture"

\* A loop that runs the scheduler and has lapped in this minute goes on.
LookedInv == at \in {"menu", "week"} /\ seen => ~ShouldSleepNow

IInv == TypeOK /\ BootInv /\ BootsWholeImage /\ HoldInv /\ StartInv /\ LookedInv

-----------------------------------------------------------------------------
(* Minutes.                                                                *)

\* A minute of the week is one of a day.
LEMMA MinuteRange ==
  ASSUME clock \in Nat
  PROVE  Minute \in 0 .. DayLen - 1
BY SystemAssumption DEF Minute

\* Looking back from a minute of the day, into the day before if need be.
LEMMA LookingBack ==
  ASSUME NEW m \in 0 .. DayLen - 1, NEW b \in 0 .. DayLen - 1
  PROVE  (m + DayLen - b) % DayLen = IF b <= m THEN m - b ELSE m + DayLen - b
<1>1. DayLen \in Nat /\ DayLen > 0
  BY SystemAssumption
<1>2. CASE b <= m
  <2>1. m - b \in 0 .. DayLen - 1 /\ m + DayLen - b = (m - b) + DayLen
    BY <1>1, <1>2
  <2> QED BY <1>1, <1>2, <2>1
<1>3. CASE b > m
  BY <1>1, <1>3
<1> QED BY <1>1, <1>2, <1>3

\* shouldBeAwakeNow() is the window: the last of the two times to have passed
\* is the time to wake, whether or not the window spans midnight.
LEMMA AwakeIsInWindow ==
  ASSUME TypeOK, ShouldBeAwakeNow
  PROVE  InWindow
<1> DEFINE m    == Minute
           back == IF m >= sched.wake THEN m - sched.wake ELSE m + DayLen - sched.wake
<1>1. /\ DayLen \in Nat /\ DayLen > 0
      /\ sched.sleep \in 0 .. DayLen - 1 /\ sched.wake \in 0 .. DayLen - 1
  BY SystemAssumption DEF TypeOK
<1>2. m \in 0 .. DayLen - 1
  <2>1. clock \in Nat
    BY SystemAssumption DEF TypeOK
  <2> QED BY <2>1, MinuteRange
<1>3. /\ sched.wake # sched.sleep
      /\ \/ sched.wake < sched.sleep /\ m >= sched.wake /\ m < sched.sleep
         \/ sched.wake >= sched.sleep /\ (m >= sched.wake \/ m < sched.sleep)
  BY <1>1, <1>2 DEF ShouldBeAwakeNow
<1> HIDE DEF m
<1>4. back \in 0 .. DayLen - 1
  BY <1>1, <1>2, <1>3
<1>5. (m + DayLen - back) % DayLen = sched.wake
  <2>1. ASSUME NEW b \in 0 .. DayLen - 1, b = back
        PROVE  (m + DayLen - b) % DayLen = sched.wake
    <3>1. (m + DayLen - b) % DayLen = IF b <= m THEN m - b ELSE m + DayLen - b
      BY <1>2, LookingBack
    <3> QED BY <1>1, <1>2, <2>1, <3>1
  <2> QED BY <1>4, <2>1
<1>6. ASSUME NEW b \in 0 .. back
      PROVE  (m + DayLen - b) % DayLen # sched.sleep
  <2>1. b \in 0 .. DayLen - 1
    BY <1>1, <1>4
  <2>2. (m + DayLen - b) % DayLen = IF b <= m THEN m - b ELSE m + DayLen - b
    BY <1>2, <2>1, LookingBack
  <2>3. CASE b <= m
    BY <1>1, <1>2, <1>3, <1>4, <2>1, <2>2, <2>3
  <2>4. CASE b > m
    BY <1>1, <1>2, <1>3, <1>4, <2>1, <2>2, <2>4
  <2> QED BY <1>2, <2>1, <2>3, <2>4
<1> HIDE DEF back
<1> QED BY <1>4, <1>5, <1>6 DEF InWindow, m

-----------------------------------------------------------------------------
(* What the steps share.                                                   *)

\* The flags are Booleans.
LEMMA FlagTypes ==
  ASSUME TypeOK
  PROVE  /\ autostart \in BOOLEAN /\ running \in BOOLEAN
         /\ pending \in BOOLEAN /\ exitReq \in BOOLEAN /\ seen \in BOOLEAN
         /\ dipped \in BOOLEAN
<1>1. {seen, autostart, running, pending, exitReq, dipped} \subseteq BOOLEAN
  BY Zenon DEF TypeOK
<1> QED BY <1>1, Zenon

\* What RAM holds is gone.
LEMMA ForgottenFacts ==
  ASSUME Forgotten
  PROVE  /\ autostart' = FALSE /\ running' = FALSE /\ crit' = None /\ pending' = FALSE
         /\ exitReq' = FALSE /\ sinceOk' = 0 /\ dipped' = FALSE /\ reading' = reading
BY DEF Forgotten

\* A lap of the guard: the hold starts with the time since a good reading no
\* shorter, and a good reading ends both.
LEMMA GuardFacts ==
  ASSUME TypeOK, HoldInv, BatteryGuardTick
  PROVE  /\ reading' \in {"ok", "band", "crit"}
         /\ crit' \in {None} \cup 0 .. CritHold
         /\ sinceOk' \in 0 .. CritHold
         /\ crit' # None => crit' <= sinceOk'
         /\ pending' \in BOOLEAN /\ exitReq' \in BOOLEAN
         /\ pending' /\ ~pending => crit' = CritHold
         /\ dipped' \in BOOLEAN /\ (crit' # None => dipped')
         /\ reading' = "ok" => crit' = None
<1>1. CritHold \in Nat /\ CritHold > 0 /\ 0 \in 0 .. CritHold
  BY SystemAssumption
<1>2. /\ reading \in {"ok", "band", "crit"} /\ crit \in {None} \cup 0 .. CritHold
      /\ sinceOk \in 0 .. CritHold
  BY DEF TypeOK
<1>3. reading' \in {"ok", "band", "crit"}
  BY <1>2 DEF BatteryGuardTick, Sample, Near
<1>4. /\ crit' = CASE reading' = "crit" /\ crit = None -> 0
                   [] reading' = "ok"                  -> None
                   [] OTHER                            -> crit
      /\ sinceOk' = IF reading' = "ok" THEN 0 ELSE sinceOk
  BY DEF BatteryGuardTick, Sample, Sustained
<1>5. crit' \in {None} \cup 0 .. CritHold /\ sinceOk' \in 0 .. CritHold
  BY <1>1, <1>2, <1>3, <1>4
<1>6. crit' # None => crit' <= sinceOk'
  BY <1>1, <1>2, <1>3, <1>4 DEF HoldInv, None
<1>7. pending' \in BOOLEAN /\ exitReq' \in BOOLEAN
  BY DEF BatteryGuardTick
<1>8. pending' /\ ~pending => crit' = CritHold
  BY DEF BatteryGuardTick, Critical
<1>9. dipped' = (reading' # "ok" /\ (dipped \/ reading' = "crit"))
  BY DEF BatteryGuardTick, Sample
<1>10. dipped' \in BOOLEAN
  BY <1>9
<1>11. ASSUME crit' # None PROVE dipped'
  <2>1. reading' # "ok" /\ (crit # None \/ reading' = "crit")
    BY <1>3, <1>4, <1>11
  <2>2. crit # None => dipped
    BY DEF HoldInv
  <2> QED BY <1>9, <2>1, <2>2, Zenon
<1>12. reading' = "ok" => crit' = None
  BY <1>4
<1> QED BY <1>3, <1>5, <1>6, <1>7, <1>8, <1>10, <1>11, <1>12

\* A boot, by whatever cause.
LEMMA SetupKeeps ==
  ASSUME IInv, NEW manual \in BOOLEAN, Setup(manual)
  PROVE  IInv'
<1>1. /\ at' \in {"capture", "menu"} /\ alarm' = None /\ running' = FALSE
      /\ crit' = (IF reading' = "crit" THEN 0 ELSE None) /\ sinceOk' = 0
      /\ dipped' = (reading' = "crit")
      /\ reading' \in {"ok", "band", "crit"}
      /\ pending' = FALSE /\ exitReq' = FALSE /\ seen' = FALSE
      /\ boot' = "running" /\ other' = IF boot = "other" THEN "whole" ELSE other
      /\ UNCHANGED <<clock, sched>>
  BY DEF Setup
<1>2. autostart' \in BOOLEAN /\ (autostart' => at' = "capture")
  <2>1. autostart' = (at' = "capture")
    BY DEF Setup
  <2> QED BY <2>1
<1>3. 0 \in 0 .. CritHold
  BY SystemAssumption
<1>4. TypeOK'
  BY <1>1, <1>2, <1>3 DEF IInv, TypeOK, Guarded, Ota
<1>5. HoldInv'
  <2>1. crit' # None => crit' = 0 /\ reading' = "crit"
    BY <1>1
  <2>2. crit' # None => crit' <= sinceOk'
    BY <1>1, <2>1
  <2>3. crit' # None => dipped'
    BY <1>1, <2>1, Zenon
  <2>4. at' # "off"
    BY <1>1
  <2> QED BY <2>2, <2>3, <2>4, Zenon DEF HoldInv
<1> QED BY <1>1, <1>2, <1>4, <1>5
        DEF IInv, BootInv, BootsWholeImage, StartInv, LookedInv

\* Power goes.
LEMMA OffKeeps ==
  ASSUME IInv, at' = "off", Forgotten, alarm' \in {None} \cup 0 .. DayLen - 1,
         seen' \in BOOLEAN, UNCHANGED <<clock, sched, other, boot>>
  PROVE  IInv'
<1>1. 0 \in 0 .. CritHold
  BY SystemAssumption
<1>2. TypeOK'
  BY <1>1, ForgottenFacts DEF IInv, TypeOK
<1> QED BY <1>2, ForgottenFacts
        DEF IInv, BootInv, BootsWholeImage, HoldInv, StartInv, LookedInv

\* A loop laps where it is, or hands over to _power_off(), and found no sleep
\* minute if it is one that looks for it.
LEMMA LapKeeps ==
  ASSUME IInv, BatteryGuardTick, at \in {"menu"} \cup Guarded,
         at' = at \/ at' = "closing",
         at \in {"menu", "week"} => ~ShouldSleepNow /\ ~autostart',
         autostart' \in BOOLEAN, autostart' => autostart /\ at' = at,
         running' \in BOOLEAN, seen' = TRUE,
         UNCHANGED <<clock, wakeVars, imageVars>>
  PROVE  IInv'
<1>1. /\ UNCHANGED <<clock, sched, alarm, other, boot>>
      /\ at' \in {"menu", "closing"} \cup Guarded
  BY DEF wakeVars, imageVars
<1>2. TypeOK /\ HoldInv
  BY DEF IInv
<1>3. TypeOK'
  BY <1>1, <1>2, GuardFacts DEF TypeOK
<1>4. HoldInv'
  BY <1>1, <1>2, GuardFacts DEF HoldInv, Guarded
<1>5. LookedInv'
  <2>1. at' \in {"menu", "week"} => ~ShouldSleepNow
    OBVIOUS
  <2>2. ShouldSleepNow' = ShouldSleepNow
    BY <1>1 DEF ShouldSleepNow, Day, Minute
  <2> QED BY <2>1, <2>2 DEF LookedInv
<1>6. BootInv' /\ BootsWholeImage' /\ StartInv'
  BY <1>1 DEF IInv, BootInv, BootsWholeImage, StartInv, Guarded
<1> QED BY <1>3, <1>4, <1>5, <1>6 DEF IInv

-----------------------------------------------------------------------------
(* The steps.                                                              *)

\* Booting and turning off.
LEMMA PowerKeeps ==
  ASSUME IInv, AlarmBoot \/ ButtonBoot \/ PlugInBoot \/ Restart \/ PowerOff \/ PowerLoss
  PROVE  IInv'
<1>1. CASE AlarmBoot \/ ButtonBoot \/ PlugInBoot \/ Restart
  BY <1>1, SetupKeeps DEF AlarmBoot, ButtonBoot, PlugInBoot, Restart
<1>2. CASE PowerOff
  <2>1. /\ at' = "off" /\ alarm' = None /\ seen' = TRUE /\ Forgotten
        /\ UNCHANGED <<clock, sched, other, boot>>
    BY <1>2 DEF PowerOff, imageVars
  <2> QED BY <2>1, OffKeeps
<1>3. CASE PowerLoss
  <2>1. /\ at' = "off" /\ seen' = TRUE /\ Forgotten
        /\ UNCHANGED <<clock, sched, alarm, other, boot>>
    BY <1>3 DEF PowerLoss, wakeVars, imageVars
  <2>2. alarm' \in {None} \cup 0 .. DayLen - 1
    BY <2>1 DEF IInv, TypeOK
  <2> QED BY <2>1, <2>2, OffKeeps
<1> QED BY <1>1, <1>2, <1>3

\* The laps of the launcher and of the modes.
LEMMA LoopKeeps ==
  ASSUME IInv, MenuLap \/ WeekLap \/ ModeLap
  PROVE  IInv'
<1>1. CASE (MenuLap \/ WeekLap) /\ ShouldSleepNow
  <2>1. /\ at' = "off" /\ alarm' = sched.wake /\ seen' = TRUE /\ Forgotten
        /\ UNCHANGED <<clock, sched, other, boot>>
    BY <1>1 DEF MenuLap, WeekLap, EnterSleepMode
  <2>2. sched.wake \in 0 .. DayLen - 1
    BY SystemAssumption DEF IInv, TypeOK
  <2> QED BY <2>1, <2>2, OffKeeps
<1>2. CASE (MenuLap \/ WeekLap) /\ ~ShouldSleepNow
  <2>1. /\ BatteryGuardTick /\ at \in {"menu", "week"} /\ (at' = at \/ at' = "closing")
        /\ seen' = TRUE
        /\ UNCHANGED <<clock, wakeVars, autostart, running, imageVars>>
    BY <1>2 DEF MenuLap, WeekLap, modeVars
  <2>2. autostart \in BOOLEAN /\ running \in BOOLEAN
    BY FlagTypes DEF IInv
  <2>3. ~autostart
    BY <2>1 DEF IInv, StartInv
  <2>4. at \in {"menu"} \cup Guarded
    BY <2>1 DEF Guarded
  <2>5. /\ autostart' \in BOOLEAN /\ ~autostart' /\ running' \in BOOLEAN
        /\ UNCHANGED <<clock, wakeVars, imageVars>>
    BY <2>1, <2>2, <2>3
  <2> QED BY <1>2, <2>1, <2>4, <2>5, LapKeeps
<1>3. CASE ModeLap
  <2>1. /\ BatteryGuardTick /\ at \in {"capture", "mode"} /\ at' = at /\ seen' = TRUE
        /\ UNCHANGED <<clock, wakeVars, imageVars>>
        /\ UNCHANGED <<autostart, running>> \/ (autostart' = FALSE /\ running' = TRUE)
    BY <1>3 DEF ModeLap, modeVars
  <2>2. autostart' \in BOOLEAN /\ running' \in BOOLEAN /\ (autostart' => autostart)
    <3>1. autostart \in BOOLEAN /\ running \in BOOLEAN
      BY FlagTypes DEF IInv
    <3>2. CASE UNCHANGED <<autostart, running>>
      BY <3>1, <3>2
    <3>3. CASE autostart' = FALSE /\ running' = TRUE
      BY <3>3
    <3> QED BY <2>1, <3>2, <3>3
  <2> QED BY <2>1, <2>2, LapKeeps DEF Guarded
<1> QED BY <1>1, <1>2, <1>3

\* Opening and leaving modes, and what the user does in them.
LEMMA UserKeeps ==
  ASSUME IInv,
         \/ LeaveMode \/ (\E mode \in Guarded \cup {"ota"} : Open(mode)) \/ LeaveOta
         \/ ChoosePowerOff \/ HoldToLeave \/ StartStop \/ EditSchedule
  PROVE  IInv'
<1>1. CASE LeaveMode
  BY <1>1 DEF IInv, TypeOK, BootInv, BootsWholeImage, HoldInv, StartInv, LookedInv,
              LeaveMode, Left, wakeVars, powerVars, imageVars, Guarded, Ota
<1>2. CASE \E mode \in Guarded \cup {"ota"} : Open(mode)
  <2>1. /\ at = "menu" /\ at' \in Guarded \cup {"ota"} /\ exitReq' = FALSE /\ seen' = FALSE
        /\ UNCHANGED <<clock, sched, alarm, autostart, running, reading, crit, pending, sinceOk, dipped>>
        /\ UNCHANGED <<other, boot>>
    BY <1>2 DEF Open, wakeVars, modeVars, powerVars, imageVars
  <2> QED BY <2>1 DEF IInv, TypeOK, BootInv, BootsWholeImage, HoldInv, StartInv, LookedInv,
                      Guarded, Ota
<1>3. CASE LeaveOta
  BY <1>3 DEF IInv, TypeOK, BootInv, BootsWholeImage, HoldInv, StartInv, LookedInv,
              LeaveOta, wakeVars, modeVars, powerVars, imageVars, Guarded, Ota
<1>4. CASE ChoosePowerOff
  BY <1>4 DEF IInv, TypeOK, BootInv, BootsWholeImage, HoldInv, StartInv, LookedInv,
              ChoosePowerOff, wakeVars, modeVars, powerVars, imageVars, Guarded, Ota
<1>5. CASE HoldToLeave \/ StartStop
  <2>1. /\ exitReq' \in BOOLEAN /\ running' \in BOOLEAN
        /\ UNCHANGED <<at, clock, seen, sched, alarm, autostart, reading, crit, pending, sinceOk, dipped>>
        /\ UNCHANGED <<other, boot>>
    BY <1>5 DEF IInv, TypeOK, HoldToLeave, StartStop, wakeVars, modeVars, powerVars, imageVars
  <2>2. TypeOK'
    BY <2>1 DEF IInv, TypeOK
  <2>3. ShouldSleepNow' = ShouldSleepNow
    BY <2>1 DEF ShouldSleepNow, Day, Minute
  <2> QED BY <2>1, <2>2, <2>3
          DEF IInv, BootInv, BootsWholeImage, HoldInv, StartInv, LookedInv
<1>6. CASE EditSchedule
  BY <1>6 DEF IInv, TypeOK, BootInv, BootsWholeImage, HoldInv, StartInv, LookedInv,
              EditSchedule, modeVars, powerVars, imageVars
<1> QED BY <1>1, <1>2, <1>3, <1>4, <1>5, <1>6

\* The update: the partition is switched when the image is whole.
LEMMA UpdateKeeps ==
  ASSUME IInv, FlashBegins \/ FlashFails \/ FlashEnds
  PROVE  IInv'
<1>1. /\ at \in Ota /\ at' \in Ota
      /\ UNCHANGED <<clock, seen, sched, alarm, autostart, running, reading, crit, pending>>
      /\ UNCHANGED <<exitReq, sinceOk, dipped>>
  BY DEF FlashBegins, FlashFails, FlashEnds, wakeVars, modeVars, powerVars, Ota
<1>2. other' \in {"whole", "partial"} /\ boot' \in {"running", "other"}
  BY DEF IInv, TypeOK, FlashBegins, FlashFails, FlashEnds, imageVars
<1>3. TypeOK'
  BY <1>1, <1>2 DEF IInv, TypeOK
<1>4. BootInv' /\ BootsWholeImage'
  BY DEF IInv, BootInv, BootsWholeImage, FlashBegins, FlashFails, FlashEnds, imageVars
<1> QED BY <1>1, <1>3, <1>4 DEF IInv, HoldInv, StartInv, LookedInv, Ota

\* A minute passes.
LEMMA TickKeeps ==
  ASSUME IInv, Tick
  PROVE  IInv'
<1>1. /\ CritHold \in Nat /\ CritHold > 0 /\ Days * DayLen \in Nat /\ Days * DayLen > 0
  BY SystemAssumption
<1>2. TypeOK
  BY DEF IInv
<1>3. clock' \in 0 .. Days * DayLen - 1
  <2>1. clock \in Nat /\ clock' = (clock + 1) % (Days * DayLen)
    BY <1>1, <1>2 DEF TypeOK, Tick
  <2> QED BY <1>1, <2>1
<1>4. /\ seen' = FALSE
      /\ UNCHANGED <<at, sched, alarm, autostart, running, reading, pending, exitReq>>
      /\ UNCHANGED <<other, boot, dipped>>
  BY DEF Tick, wakeVars, modeVars, imageVars
<1>5. /\ crit \in {None} \cup 0 .. CritHold /\ sinceOk \in 0 .. CritHold
      /\ crit' = (IF crit \in {None, CritHold} THEN crit ELSE crit + 1)
      /\ sinceOk' = IF at = "off" THEN sinceOk
                    ELSE IF sinceOk \in {None, CritHold} THEN sinceOk ELSE sinceOk + 1
      /\ crit # None => crit <= sinceOk
      /\ at = "off" => crit = None
  BY <1>2 DEF TypeOK, Tick, Aged, IInv, HoldInv
<1>6. /\ crit' \in {None} \cup 0 .. CritHold /\ sinceOk' \in 0 .. CritHold
      /\ crit' # None => crit' <= sinceOk'
      /\ at = "off" => crit' = None
  BY <1>1, <1>5 DEF None
<1>7. TypeOK'
  BY <1>2, <1>3, <1>4, <1>6 DEF TypeOK
<1>8. HoldInv'
  <2>1. crit' # None => crit # None
    BY <1>5
  <2>2. crit # None => dipped
    BY DEF IInv, HoldInv
  <2> QED BY <1>4, <1>6, <2>1, <2>2, Zenon DEF HoldInv
<1> QED BY <1>4, <1>7, <1>8
        DEF IInv, BootInv, BootsWholeImage, StartInv, LookedInv

-----------------------------------------------------------------------------
(* The theorems.                                                           *)

LEMMA InitIInv == Init => IInv
<1> SUFFICES ASSUME Init PROVE IInv
  OBVIOUS
<1>1. 0 \in 0 .. CritHold /\ 0 \in 0 .. Days * DayLen - 1
  <2>1. Days * DayLen > 0
    BY SystemAssumption
  <2> QED BY <2>1, SystemAssumption
<1>2. TypeOK
  BY <1>1 DEF Init, TypeOK
<1> QED BY <1>2 DEF Init, IInv, BootInv, BootsWholeImage, HoldInv, StartInv, LookedInv

LEMMA StepIInv == IInv /\ [Next]_vars => IInv'
<1> SUFFICES ASSUME IInv, [Next]_vars PROVE IInv'
  OBVIOUS
<1>1. CASE UNCHANGED vars
  <2>1. /\ UNCHANGED <<at, clock, seen, sched, alarm, autostart, running, reading, crit>>
        /\ UNCHANGED <<pending, exitReq, other, boot, sinceOk, dipped>>
    BY <1>1 DEF vars
  <2>2. TypeOK'
    BY <2>1 DEF IInv, TypeOK
  <2>3. ShouldSleepNow' = ShouldSleepNow
    BY <2>1 DEF ShouldSleepNow, Day, Minute
  <2> QED BY <2>1, <2>2, <2>3
          DEF IInv, BootInv, BootsWholeImage, HoldInv, StartInv, LookedInv
<1>2. CASE AlarmBoot \/ ButtonBoot \/ PlugInBoot \/ Restart \/ PowerOff \/ PowerLoss
  BY <1>2, PowerKeeps
<1>3. CASE MenuLap \/ WeekLap \/ ModeLap
  BY <1>3, LoopKeeps
<1>4. CASE \/ LeaveMode \/ (\E mode \in Guarded \cup {"ota"} : Open(mode)) \/ LeaveOta
           \/ ChoosePowerOff \/ HoldToLeave \/ StartStop \/ EditSchedule
  BY <1>4, UserKeeps
<1>5. CASE FlashBegins \/ FlashFails \/ FlashEnds
  BY <1>5, UpdateKeeps
<1>6. CASE Tick
  BY <1>6, TickKeeps
<1> QED BY <1>1, <1>2, <1>3, <1>4, <1>5, <1>6 DEF Next

\* IInv holds in every state of every behaviour.
THEOREM Invariance == Spec => []IInv
BY InitIInv, StepIInv, PTL DEF Spec

\* Every variable keeps its range.
THEOREM TypeCorrect == Spec => []TypeOK
<1>1. IInv => TypeOK
  BY DEF IInv
<1> QED BY <1>1, Invariance, PTL

\* The partition the next boot takes holds a whole image, whatever download
\* was cut short, refused or resumed before, and wherever power went.
THEOREM WholeImageBoots == Spec => []BootsWholeImage
<1>1. IInv => BootsWholeImage
  BY DEF IInv
<1> QED BY <1>1, Invariance, PTL

\* Whatever it is that lets the clock move, a loop that looks at the scheduler
\* has looked in this minute and was not in the sleep minute.
THEOREM SleepMinuteKept == Spec => SleepMinuteIsKept
<1> DEFINE Kept == clock' # clock /\ at \in {"menu", "week"} => ~ShouldSleepNow
<1>1. IInv /\ [Next]_vars => [Kept]_vars
  <2> SUFFICES ASSUME IInv, Next, clock' # clock, at \in {"menu", "week"}
               PROVE  ~ShouldSleepNow
    OBVIOUS
  <2>1. Tick
    BY DEF Next, AlarmBoot, ButtonBoot, PlugInBoot, Restart, Setup, PowerOff, PowerLoss,
           MenuLap, WeekLap, ModeLap, EnterSleepMode, LeaveMode, Open, ChoosePowerOff,
           HoldToLeave, StartStop, EditSchedule, FlashBegins, FlashFails, FlashEnds, LeaveOta
  <2>2. seen
    BY <2>1 DEF Tick, Looks, Guarded
  <2> QED BY <2>2 DEF IInv, LookedInv
<1> QED BY <1>1, Invariance, PTL DEF Spec, SleepMinuteIsKept

\* A START is armed by a boot inside the awake window alone, for every pair of
\* times and a window across midnight, and goes with the mode it was armed for.
THEOREM ResumesOnlyInWindow == Spec => ResumesInWindow
<1> DEFINE Fine == autostart' => (autostart \/ InWindow) /\ at' = "capture"
<1>1. ASSUME IInv, Next, autostart'
      PROVE  autostart \/ InWindow
  <2>1. CASE \E manual \in BOOLEAN : Setup(manual)
    <3>1. PICK manual \in BOOLEAN : Setup(manual)
      BY <2>1
    <3>2. at' = "capture"
      <4>1. autostart' = (at' = "capture")
        BY <3>1 DEF Setup
      <4> QED BY <1>1, <4>1
    <3>3. ShouldBeAwakeNow
      BY <3>1, <3>2 DEF Setup
    <3> QED BY <1>1, <3>3, AwakeIsInWindow DEF IInv
  <2>2. CASE ~(\E manual \in BOOLEAN : Setup(manual))
    BY <1>1, <2>2
       DEF Next, AlarmBoot, ButtonBoot, PlugInBoot, Restart, PowerOff, PowerLoss, Forgotten,
           MenuLap, WeekLap, ModeLap, EnterSleepMode, LeaveMode, Left, Open, ChoosePowerOff,
           HoldToLeave, StartStop, EditSchedule, FlashBegins, FlashFails, FlashEnds, LeaveOta,
           Tick, modeVars
  <2> QED BY <2>1, <2>2
<1>2. ASSUME IInv, IInv', Next
      PROVE  Fine
  BY <1>1, <1>2 DEF IInv, StartInv
<1>3. IInv /\ IInv' /\ [Next]_vars => [Fine]_vars
  BY <1>2
<1> QED BY <1>3, Invariance, PTL DEF Spec, ResumesInWindow

\* A sag that recovers within the hold cuts nothing: the guard notes a shutdown
\* only when a reading has been critical, none above the hysteresis since, and the
\* hold is over.
THEOREM CutNeedsTheHold == Spec => CutOnlyWhenFlat
<1> DEFINE Fine == pending' /\ ~pending => dipped' /\ reading' # "ok" /\ sinceOk' = CritHold
<1>1. ASSUME IInv, Next, pending', ~pending
      PROVE  dipped' /\ reading' # "ok" /\ sinceOk' = CritHold
  <2>1. BatteryGuardTick
    BY <1>1
       DEF Next, AlarmBoot, ButtonBoot, PlugInBoot, Restart, Setup, PowerOff, PowerLoss,
           Forgotten, MenuLap, WeekLap, ModeLap, EnterSleepMode, LeaveMode, Open,
           ChoosePowerOff, HoldToLeave, StartStop, EditSchedule, FlashBegins, FlashFails,
           FlashEnds, LeaveOta, Tick, powerVars
  <2>2. /\ crit' = CritHold /\ sinceOk' \in 0 .. CritHold
        /\ crit' # None => crit' <= sinceOk'
        /\ crit' # None => dipped'
        /\ reading' = "ok" => crit' = None
    BY <1>1, <2>1, GuardFacts DEF IInv
  <2>3. crit' # None
    BY <2>2, SystemAssumption DEF None
  <2>4. sinceOk' = CritHold
    BY <2>2, <2>3, SystemAssumption
  <2> QED BY <2>2, <2>3, <2>4, Zenon
<1>2. IInv /\ [Next]_vars => [Fine]_vars
  BY <1>1
<1> QED BY <1>2, Invariance, PTL DEF Spec, CutOnlyWhenFlat

-----------------------------------------------------------------------------
(* ModeInput: what lights the launcher's screen does nothing else.         *)

\* What makes it so: in the launcher, a latch that is not waiting for a release
\* and an encoder that is still to be read know nothing of what woke the screen.
Swallowed ==
  place = "menu" => /\ latch # "wait" => "button" \notin woke
                    /\ turned => "encoder" \notin woke

\* The launcher's latch stays honest from whatever lap, mode or wake to the next.
LEMMA SwallowedStep == Swallowed /\ [InputNext]_inputVars => Swallowed'
<1> SUFFICES ASSUME Swallowed, [InputNext]_inputVars PROVE Swallowed'
  OBVIOUS
<1>1. CASE Press
  BY <1>1 DEF Swallowed, Press
<1>2. CASE Release
  BY <1>2 DEF Swallowed, Release
<1>3. CASE Turn
  BY <1>3 DEF Swallowed, Turn, userVars
<1>4. CASE TimePasses
  BY <1>4 DEF Swallowed, TimePasses
<1>5. CASE MenuWakes
  BY <1>5 DEF Swallowed, MenuWakes, Lit, userVars
<1>6. CASE MenuReads
  BY <1>6 DEF Swallowed, MenuReads, userVars
<1>7. CASE ModeWakes
  BY <1>7 DEF Swallowed, ModeWakes, Lit, userVars
<1>8. CASE ModeReads
  BY <1>8 DEF Swallowed, ModeReads, userVars
<1>9. CASE UNCHANGED inputVars
  BY <1>9 DEF Swallowed, inputVars
<1> QED
  BY <1>1, <1>2, <1>3, <1>4, <1>5, <1>6, <1>7, <1>8, <1>9 DEF InputNext

\* Only a lap of the launcher that reads takes input for a click or a turn there.
LEMMA ReadsOnlyFresh ==
  Swallowed /\ [InputNext]_inputVars =>
    [place = "menu" => /\ "click" \in did' => "button" \notin litBy'
                       /\ "turn" \in did' => "encoder" \notin litBy']_inputVars
<1> SUFFICES ASSUME Swallowed, InputNext, place = "menu"
             PROVE  /\ "click" \in did' => "button" \notin litBy'
                    /\ "turn" \in did' => "encoder" \notin litBy'
  OBVIOUS
<1>1. CASE Press \/ Release \/ Turn \/ TimePasses
  BY <1>1 DEF Press, Release, Turn, TimePasses
<1>2. CASE MenuWakes
  BY <1>2 DEF MenuWakes
<1>3. CASE MenuReads
  BY <1>3 DEF Swallowed, MenuReads
<1>4. CASE ModeWakes \/ ModeReads
  BY <1>4 DEF ModeWakes, ModeReads
<1> QED
  BY <1>1, <1>2, <1>3, <1>4 DEF InputNext

\* onReadInput() with DisplayPowerSave: for every dimming time and long press,
\* the input that wakes the launcher is swallowed.
THEOREM WakeIsSwallowed == InputSpec => MenuSwallowsTheWake
<1>1. InputInit => Swallowed
  BY DEF InputInit, Swallowed
<1> QED
  BY <1>1, SwallowedStep, ReadsOnlyFresh, PTL DEF InputSpec, MenuSwallowsTheWake

=============================================================================
