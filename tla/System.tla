------------------------------- MODULE System --------------------------------
(***************************************************************************)
(* The box around its modes: power, the launcher's loop, the SLEEP&WEEK    *)
(* scheduler, the battery guard and the firmware update.                   *)
(*                                                                         *)
(* Time is a minute of a week of Days days of DayLen minutes.  The loops   *)
(* lap many times a minute, so the minute does not turn before the open    *)
(* loop has lapped in it, and input is read by a loop that has: behind the *)
(* scheduler and the guard.  (The scheduler looks once a second; a card    *)
(* clicked within the first second of the sleep minute is left out.)  OTA  *)
(* UPDATE and _power_off() look at neither.                                *)
(*                                                                         *)
(* Off is off in both senses of the code: latch released (battery) or deep *)
(* sleep (external power).  What RAM holds is lost there.                  *)
(***************************************************************************)
EXTENDS Integers

CONSTANTS
  Days, DayLen,    \* the week
  Schedules,       \* the SLEEP&WEEK settings of this instance
  CritHold         \* CRITICAL_HOLD_MS, in minutes

ASSUME SystemAssumption ==
  /\ Days \in Nat \ {0} /\ DayLen \in Nat \ {0} /\ CritHold \in Nat \ {0}
  /\ Schedules \subseteq [on : BOOLEAN, days : SUBSET (0 .. Days - 1),
                          sleep : 0 .. DayLen - 1, wake : 0 .. DayLen - 1, resume : BOOLEAN]

VARIABLES
  at,              \* where control is, "off" included
  clock,           \* the minute of the week, of the RTC and of time()
  seen,            \* the loop, or the alarm comparator, has run in this minute
  sched,           \* sleepWeekScheduler.config; resume: its mode is a capture mode
  alarm,           \* the minute of the day the RTC is to boot the box at, or None
  autostart,       \* _scheduler_autostart_pending
  running,         \* the capture mode has been started
  reading,         \* the smoothed battery voltage, as a class
  crit,            \* time since s_critSince, or None while not s_critActive
  pending,         \* _battery_shutdown_pending
  exitReq,         \* _mode_exit_requested
  other,           \* the firmware image of the inactive partition
  boot,            \* the partition the next boot takes: "running" or "other"
  sinceOk,         \* history: time since the last reading above the hysteresis
  dipped           \* history: a reading since then was critical

vars == <<at, clock, seen, sched, alarm, autostart, running, reading, crit,
          pending, exitReq, other, boot, sinceOk, dipped>>

wakeVars  == <<sched, alarm>>
modeVars  == <<autostart, running>>
powerVars == <<reading, crit, pending, sinceOk, dipped>>
imageVars == <<other, boot>>

None == -1

\* The modes that guard the battery.  "week" is SLEEP&WEEK, "capture" AUTO
\* SHOOT or TIMELAPSE, "mode" any other.
Guarded == {"week", "capture", "mode"}
Ota     == {"ota", "flashing", "flashed"}

TypeOK ==
  /\ at \in {"off", "menu", "closing"} \cup Guarded \cup Ota
  /\ clock \in 0 .. Days * DayLen - 1
  /\ sched \in Schedules
  /\ alarm \in {None} \cup 0 .. DayLen - 1
  /\ {seen, autostart, running, pending, exitReq, dipped} \subseteq BOOLEAN
  /\ reading \in {"ok", "band", "crit"}
  /\ crit \in {None} \cup 0 .. CritHold
  /\ sinceOk \in 0 .. CritHold
  /\ other \in {"whole", "partial"} /\ boot \in {"running", "other"}

Init ==
  /\ at = "off" /\ clock = 0 /\ seen = TRUE
  /\ sched \in Schedules /\ alarm = None
  /\ autostart = FALSE /\ running = FALSE
  /\ reading = "ok" /\ crit = None /\ pending = FALSE /\ exitReq = FALSE
  /\ sinceOk = 0 /\ dipped = FALSE
  /\ other = "whole" /\ boot = "running"

Day    == clock \div DayLen
Minute == clock % DayLen

-----------------------------------------------------------------------------
(* The scheduler.                                                          *)

\* shouldSleepNow(): the sleep minute of an enabled day.  (The key noted for
\* it is lost at once, with RAM.)
ShouldSleepNow == sched.on /\ Day \in sched.days /\ Minute = sched.sleep

\* shouldBeAwakeNow(): [wake, sleep) on a day that is enabled now, a window
\* that spans midnight included.
ShouldBeAwakeNow ==
  /\ sched.on /\ Day \in sched.days /\ sched.wake # sched.sleep
  /\ IF sched.wake < sched.sleep
     THEN Minute >= sched.wake /\ Minute < sched.sleep
     ELSE Minute >= sched.wake \/ Minute < sched.sleep

\* RAM is gone.
Forgotten ==
  /\ autostart' = FALSE /\ running' = FALSE
  /\ crit' = None /\ pending' = FALSE /\ exitReq' = FALSE
  /\ sinceOk' = 0 /\ dipped' = FALSE
  /\ UNCHANGED reading

\* enterSleepMode(): the alarm is set, the capture modes stopped, power cut.
EnterSleepMode ==
  /\ at' = "off"
  /\ alarm' = sched.wake
  /\ Forgotten
  /\ UNCHANGED <<clock, sched, other, boot>>

-----------------------------------------------------------------------------
(* Power.                                                                  *)

\* setup(): the RTC's alarm is cleared and disabled; the next image runs.  A
\* boot the user did not hold the button for resumes the capture mode.
Setup(manual) ==
  /\ alarm' = None
  /\ at' = IF ~manual /\ ShouldBeAwakeNow /\ sched.resume THEN "capture" ELSE "menu"
  /\ autostart' = (at' = "capture")
  /\ running' = FALSE
  /\ reading' \in {"ok", "band", "crit"}           \* the first burst seeds the average
  /\ crit' = IF reading' = "crit" THEN 0 ELSE None
  /\ sinceOk' = 0 /\ dipped' = (reading' = "crit")
  /\ pending' = FALSE /\ exitReq' = FALSE
  /\ seen' = FALSE
  /\ boot' = "running"
  /\ other' = IF boot = "other" THEN "whole" ELSE other
  /\ UNCHANGED <<clock, sched>>

\* The alarm fires as its minute begins.
AlarmBoot == at = "off" /\ alarm = Minute /\ ~seen /\ Setup(FALSE)

\* _power_on(): the button held for two seconds, or external power applied.
ButtonBoot == at = "off" /\ Setup(TRUE)
PlugInBoot == at = "off" /\ Setup(FALSE)

\* _power_off(): the alarm is cleared first, and power goes when the button is
\* released.
PowerOff ==
  /\ at = "closing"
  /\ at' = "off"
  /\ alarm' = None
  /\ seen' = TRUE
  /\ Forgotten
  /\ UNCHANGED <<clock, sched, imageVars>>

\* The battery is pulled, or gives up: in the middle of anything.
PowerLoss ==
  /\ at # "off"
  /\ at' = "off"
  /\ seen' = TRUE
  /\ Forgotten
  /\ UNCHANGED <<clock, wakeVars, imageVars>>

-----------------------------------------------------------------------------
(* The battery guard.                                                      *)

\* The average moves a tenth of the way to a new burst: past no class.
Near(r) == CASE r = "ok"   -> {"ok", "band"}
             [] r = "band" -> {"ok", "band", "crit"}
             [] OTHER      -> {"band", "crit"}

\* Mutant: no reading ends the hold.
HeldForGood(r) == IF r = "crit" /\ crit = None THEN 0 ELSE crit

\* updateSustainedState(): a critical reading starts the hold, one above the
\* hysteresis ends it, one in between leaves it running.
Sustained(r) ==
  CASE r = "crit" /\ crit = None -> 0
    [] r = "ok"                  -> None
    [] OTHER                     -> crit

Sample ==
  /\ reading' \in Near(reading)
  /\ crit' = Sustained(reading')
  /\ sinceOk' = IF reading' = "ok" THEN 0 ELSE sinceOk
  /\ dipped' = (reading' # "ok" /\ (dipped \/ reading' = "crit"))

Critical == crit' = CritHold

\* Mutant: the shutdown is noted and the mode not asked to leave.
GuardWithoutExit ==
  /\ Sample
  /\ pending' = (pending \/ Critical)
  /\ UNCHANGED exitReq

\* _battery_guard_tick(): the first critical tick asks the mode to leave.
BatteryGuardTick ==
  /\ Sample
  /\ pending' = (pending \/ Critical)
  /\ exitReq' = (exitReq \/ (Critical /\ ~pending))

-----------------------------------------------------------------------------
(* The loops.                                                              *)

\* view_update(): the scheduler first, then the guard, and power is cut here.
MenuLap ==
  /\ at = "menu"
  /\ \/ /\ ShouldSleepNow
        /\ EnterSleepMode
     \/ /\ ~ShouldSleepNow
        /\ BatteryGuardTick
        /\ at' = IF pending' THEN "closing" ELSE at
        /\ UNCHANGED <<clock, wakeVars, modeVars, imageVars>>
  /\ seen' = TRUE

\* Mutant: SLEEP&WEEK's loop leaves the scheduler to the launcher.
WeekLapWithoutUpdate ==
  /\ at = "week" /\ ~exitReq
  /\ BatteryGuardTick
  /\ UNCHANGED <<at, clock, wakeVars, modeVars, imageVars>>
  /\ seen' = TRUE

\* _sleep_week_loop()
WeekLap ==
  /\ at = "week" /\ ~exitReq
  /\ \/ /\ ShouldSleepNow
        /\ EnterSleepMode
     \/ /\ ~ShouldSleepNow
        /\ BatteryGuardTick
        /\ UNCHANGED <<at, clock, wakeVars, modeVars, imageVars>>
  /\ seen' = TRUE

\* The other modes' loops do not run the scheduler.  In a capture mode that
\* resumed, the armed START fires once its grace is over.
ModeLap ==
  /\ at \in {"capture", "mode"} /\ ~exitReq
  /\ \/ UNCHANGED modeVars
     \/ autostart /\ autostart' = FALSE /\ running' = TRUE
  /\ BatteryGuardTick
  /\ seen' = TRUE
  /\ UNCHANGED <<at, clock, wakeVars, imageVars>>

\* Mutant: the pending START survives the mode that was to run it.
LeftWithStart == running' = FALSE /\ UNCHANGED autostart

\* What a mode stops as it leaves.
Left == running' = FALSE /\ autostart' = FALSE

LeaveMode ==
  /\ at \in Guarded /\ exitReq
  /\ at' = "menu"
  /\ Left
  /\ seen' = FALSE
  /\ UNCHANGED <<clock, wakeVars, powerVars, exitReq, imageVars>>

-----------------------------------------------------------------------------
(* The user.                                                               *)

\* A card of the launcher, which reads input behind the guard; a mode's entry
\* forgets an exit asked for earlier.
Open(mode) ==
  /\ at = "menu" /\ seen
  /\ at' = mode
  /\ exitReq' = FALSE
  /\ seen' = FALSE
  /\ UNCHANGED <<clock, wakeVars, modeVars, powerVars, imageVars>>

ChoosePowerOff ==
  /\ at = "menu" /\ seen
  /\ at' = "closing"
  /\ UNCHANGED <<clock, seen, wakeVars, modeVars, powerVars, exitReq, imageVars>>

HoldToLeave ==
  /\ at \in Guarded /\ seen /\ ~exitReq
  /\ exitReq' = TRUE
  /\ UNCHANGED <<at, clock, seen, wakeVars, modeVars, powerVars, imageVars>>

StartStop ==
  /\ at = "capture" /\ seen /\ ~exitReq
  /\ running' = ~running
  /\ UNCHANGED <<at, clock, seen, wakeVars, autostart, powerVars, exitReq, imageVars>>

\* SLEEP&WEEK edits one setting at a time, and saves it.
OneEdit(s, t) ==
  \E field \in {"on", "days", "sleep", "wake", "resume"} :
    s[field] # t[field] /\ t = [s EXCEPT ![field] = t[field]]

EditSchedule ==
  /\ at = "week" /\ seen /\ ~exitReq
  /\ sched' \in Schedules /\ OneEdit(sched, sched')
  /\ seen' = FALSE
  /\ UNCHANGED <<at, clock, alarm, modeVars, powerVars, exitReq, imageVars>>

-----------------------------------------------------------------------------
(* OTA UPDATE.                                                             *)

\* Mutant: the boot partition is switched as the download begins.
SwitchedFirst ==
  /\ at = "ota"
  /\ at' = "flashing"
  /\ other' = "partial"
  /\ boot' = "other"
  /\ UNCHANGED <<clock, seen, wakeVars, modeVars, powerVars, exitReq>>

\* flashFromUrl(): Update.begin() overwrites the inactive partition,
FlashBegins ==
  /\ at = "ota"
  /\ at' = "flashing"
  /\ other' = "partial"
  /\ UNCHANGED <<clock, seen, wakeVars, modeVars, powerVars, exitReq, boot>>

\* a stall, a lost connection, a write error or a failed check aborts it,
FlashFails ==
  /\ at = "flashing"
  /\ at' = "ota"
  /\ UNCHANGED <<clock, seen, wakeVars, modeVars, powerVars, exitReq, imageVars>>

\* and Update.end() switches the boot partition once the image is whole.
FlashEnds ==
  /\ at = "flashing"
  /\ at' = "flashed"
  /\ other' = "whole"
  /\ boot' = "other"
  /\ UNCHANGED <<clock, seen, wakeVars, modeVars, powerVars, exitReq>>

Restart == at = "flashed" /\ Setup(FALSE)

LeaveOta ==
  /\ at = "ota"
  /\ at' = "menu"
  /\ exitReq' = FALSE
  /\ seen' = FALSE
  /\ UNCHANGED <<clock, wakeVars, modeVars, powerVars, imageVars>>

-----------------------------------------------------------------------------
(* Time.                                                                   *)

Looks == at \in {"menu"} \cup Guarded \/ (at = "off" /\ alarm = Minute)

Aged(t) == IF t \in {None, CritHold} THEN t ELSE t + 1

Tick ==
  /\ Looks => seen
  /\ clock' = (clock + 1) % (Days * DayLen)
  /\ seen' = FALSE
  /\ crit' = Aged(crit)
  /\ sinceOk' = IF at = "off" THEN sinceOk ELSE Aged(sinceOk)
  /\ UNCHANGED <<at, wakeVars, modeVars, reading, pending, exitReq, dipped, imageVars>>

Next ==
  \/ AlarmBoot
  \/ ButtonBoot
  \/ PlugInBoot
  \/ PowerOff
  \/ PowerLoss
  \/ MenuLap
  \/ WeekLap
  \/ ModeLap
  \/ LeaveMode
  \/ \E mode \in Guarded \cup {"ota"} : Open(mode)
  \/ ChoosePowerOff
  \/ HoldToLeave
  \/ StartStop
  \/ EditSchedule
  \/ FlashBegins
  \/ FlashFails
  \/ FlashEnds
  \/ Restart
  \/ LeaveOta
  \/ Tick

\* Time passes, the open loop laps and leaves when asked, and a button that is
\* held is released.
Fairness ==
  /\ WF_vars(MenuLap) /\ WF_vars(WeekLap) /\ WF_vars(ModeLap)
  /\ WF_vars(LeaveMode) /\ WF_vars(PowerOff) /\ WF_vars(Tick)

Spec == Init /\ [][Next]_vars /\ Fairness

-----------------------------------------------------------------------------
(* Properties.                                                             *)

\* The loops that run the scheduler do not sit through the sleep minute of an
\* enabled day, however late in it they were opened or it was set.
SleepMinuteIsKept ==
  [][clock' # clock /\ at \in {"menu", "week"} => ~ShouldSleepNow]_vars

\* Reference: looking back from now, the last of the two times that passed is
\* the time to wake.
InWindow ==
  \E back \in 0 .. DayLen - 1 :
    /\ (Minute + DayLen - back) % DayLen = sched.wake
    /\ \A b \in 0 .. back : (Minute + DayLen - b) % DayLen # sched.sleep

\* A capture mode resumes by itself only inside the awake window, and its
\* pending START never outlives it: the flag is up in the mode it was armed
\* for and nowhere else.
ResumesInWindow ==
  [][autostart' => (autostart \/ InWindow) /\ at' = "capture"]_vars

\* The guard asks for a shutdown only at the end of a whole hold in which a
\* reading was critical and none was above the hysteresis: a sag that recovers so
\* far within the hold cuts nothing.  It promises no more.  The other readings of
\* the hold may all be in the band, and in OTA UPDATE none is taken.
CutOnlyWhenFlat ==
  [][pending' /\ ~pending => dipped' /\ reading' # "ok" /\ sinceOk' = CritHold]_vars

\* A hold that is over in the launcher or a mode that guards the battery ends in
\* power off, unless the next reading is above the hysteresis; and a shutdown once
\* asked for is not taken back, through the mode's own way out.  OTA UPDATE hears
\* of it when it is left.
FlatBatteryTurnsOff ==
  /\ (at \in {"menu"} \cup Guarded /\ crit = CritHold) ~> (at = "off" \/ crit = None)
  /\ pending ~> at = "off"

\* The battery guard, both ways: not without need, and not without end.
BatteryGuard == CutOnlyWhenFlat /\ FlatBatteryTurnsOff

\* The next boot finds a whole image, wherever an update was interrupted.
BootsWholeImage == boot = "other" => other = "whole"
=============================================================================
