-------------------------- MODULE SleepWeekScreens ---------------------------
(***************************************************************************)
(* SLEEP & WEEK has one screen: the days, the two times, the mode a        *)
(* scheduled wake resumes, and the scheduler's switch.  Everything is      *)
(* saved as it is turned.  What the scheduler does with it is module       *)
(* System.                                                                 *)
(***************************************************************************)
EXTENDS ModeScreen

CONSTANT Days              \* 7

ASSUME SleepWeekScreensAssumption == Days \in Nat

VARIABLE field             \* timeField, while a time is edited

Minutes == [hour : 0 .. HourTop, minute : 0 .. MinuteTop]

\* mode: 0 is Auto Shoot, 1 is Timelapse, 2 is Off.
SleepWeekConfigs ==
  [days : SUBSET (0 .. Days - 1), sleep : Minutes, wake : Minutes, mode : 0 .. 2, on : BOOLEAN]

SleepRow  == Days
WakeRow   == Days + 1
ModeRow   == Days + 2
SwitchRow == Days + 3

\* The whole screen is drawn at once.  A selected day has the colour of an edit.
SleepWeekFrame ==
  FrameOf(0 .. SwitchRow, row, row < SleepRow \/ (editing /\ row \in {SleepRow, WakeRow}))

EnterSleepWeek ==
  /\ Enter("sleep_week", [saved EXCEPT !.mode = AtMost(2, @)])
  /\ field' = "hour"

SleepWeekSelect == Select("sleep_week", "MAIN", SwitchRow) /\ UNCHANGED field

ToggleDay ==
  /\ \E day \in 0 .. Days - 1 :
       Toggle("sleep_week", "MAIN", day,
              [cfg EXCEPT !.days = IF day \in @ THEN @ \ {day} ELSE @ \cup {day}])
  /\ UNCHANGED field

CycleMode ==
  /\ Toggle("sleep_week", "MAIN", ModeRow, [cfg EXCEPT !.mode = Around(0, 2, @ + 1)])
  /\ UNCHANGED field

EnableScheduler ==
  /\ Toggle("sleep_week", "MAIN", SwitchRow, [cfg EXCEPT !.on = ~@])
  /\ UNCHANGED field

BeginTimeEdit ==
  /\ BeginEdit("sleep_week", "MAIN", {SleepRow, WakeRow})
  /\ field' = "hour"

\* The time in hand, one hour or one minute on.
TurnedTime(t, d) ==
  IF field = "hour" THEN [t EXCEPT !.hour   = Around(0, HourTop, @ + d)]
  ELSE                   [t EXCEPT !.minute = Around(0, MinuteTop, @ + d)]

\* Every step of a time is saved, and in force, at once.
TurnTime(d) ==
  /\ Open("sleep_week") /\ editing
  /\ cfg' = IF row = SleepRow THEN [cfg EXCEPT !.sleep = TurnedTime(@, d)]
            ELSE                   [cfg EXCEPT !.wake  = TurnedTime(@, d)]
  /\ saved' = cfg'
  /\ UNCHANGED <<app, open, screenVars, field>>

\* The first press goes on from the hour to the minute, the second ends it.
PressTime ==
  /\ Open("sleep_week") /\ editing
  /\ IF field = "hour"
     THEN field' = "minute" /\ UNCHANGED editing
     ELSE editing' = FALSE /\ UNCHANGED field
  /\ UNCHANGED <<app, open, page, row, cfg, saved>>

HoldSleepWeek ==
  /\ Leave("sleep_week")
  /\ saved' = cfg
  /\ UNCHANGED field

SleepWeekNext ==
  \/ EnterSleepWeek
  \/ SleepWeekSelect
  \/ ToggleDay
  \/ CycleMode
  \/ EnableScheduler
  \/ BeginTimeEdit
  \/ \E d \in {-1, 1} : TurnTime(d)
  \/ PressTime
  \/ HoldSleepWeek

=============================================================================
