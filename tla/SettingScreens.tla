--------------------------- MODULE SettingScreens ----------------------------
(***************************************************************************)
(* SETTINGS.  MAIN is a list of seven rows in a window: the clock, the     *)
(* speaker, the four values of the display, which DisplayMode steps and    *)
(* applies while they are turned, and an information page.  DATETIME edits *)
(* a copy of the clock made when the mode was entered; every long press    *)
(* writes that copy back, saves the display and leaves.                    *)
(***************************************************************************)
EXTENDS ModeScreen, Sequences

CONSTANTS
  BrightnessLow, BrightnessTop, BrightnessStep,   \* 5, 255 and 10
  DimmerSteps,               \* DIMMER_STEPS: seconds to the dimming, 0 is never
  Themes,                    \* UI_THEME_COUNT
  YearLow, YearTop,          \* 2000 and 2099
  DaysTable,                 \* DAYS_TABLE: the days of each month of a common year
  Today                      \* dates and times the chip's clock may show on entry

VARIABLES
  dateTime,        \* Setting::dateTime, the copy of the clock
  rtc              \* what this visit wrote to the clock, NotWritten before

clockVars == <<dateTime, rtc>>

NotWritten == [written |-> FALSE]

SettingConfigs ==
  [speaker : BOOLEAN, brightness : BrightnessLow .. BrightnessTop,
   dimmer : DOMAIN DimmerSteps, theme : 0 .. Themes - 1, rotation : {1, 3}]

-----------------------------------------------------------------------------
(* The calendar.                                                           *)

\* What the copy of the clock may hold; not all of it exists.
Times == [year : YearLow .. YearTop, month : DOMAIN DaysTable, day : Nat \ {0},
          hour : 0 .. HourTop, minute : 0 .. MinuteTop]

Leap(y) == y % 4 = 0 /\ (y % 100 # 0 \/ y % 400 = 0)

DaysInMonth(y, m) == IF m = 2 /\ Leap(y) THEN DaysTable[2] + 1 ELSE DaysTable[m]

IsDate(t) == t.day \in 1 .. DaysInMonth(t.year, t.month)

\* The clock chip counts in the calendar it is set in.
ASSUME SettingScreensAssumption ==
  /\ BrightnessLow \in Nat /\ BrightnessTop \in Nat /\ BrightnessLow <= BrightnessTop
  /\ BrightnessStep \in Nat
  /\ DimmerSteps \in Seq(Nat) /\ DimmerSteps # <<>>
  /\ Themes \in Nat \ {0}
  /\ YearLow \in Nat /\ YearTop \in Nat /\ YearLow <= YearTop
  /\ DaysTable \in Seq(Nat \ {0}) /\ Len(DaysTable) >= 2
  /\ \A t \in Today : t \in Times /\ IsDate(t)

\* Mutant of ClampDateTime: the day is believed.
ClampMonthOnly(t) ==
  [t EXCEPT !.year  = Within(YearLow, YearTop, @),
            !.month = Within(1, Len(DaysTable), @)]

\* clampDateTime()
ClampDateTime(t) ==
  LET c == ClampMonthOnly(t)
  IN  [c EXCEPT !.day    = Within(1, DaysInMonth(c.year, c.month), @),
                !.hour   = IF @ > HourTop THEN 0 ELSE @,
                !.minute = IF @ > MinuteTop THEN 0 ELSE @]

TurnYear(t, d) == [t EXCEPT !.year = Around(YearLow, YearTop, @ + d)]

\* A shorter month takes the day with it; a common year does not, yet.
TurnMonth(t, d) ==
  LET m == Around(1, Len(DaysTable), t.month + d)
  IN  [t EXCEPT !.month = m, !.day = AtMost(DaysInMonth(t.year, m), @)]

TurnDay(t, d)    == [t EXCEPT !.day    = Around(1, DaysInMonth(t.year, t.month), @ + d)]
TurnHour(t, d)   == [t EXCEPT !.hour   = Around(0, HourTop, @ + d)]
TurnMinute(t, d) == [t EXCEPT !.minute = Around(0, MinuteTop, @ + d)]

-----------------------------------------------------------------------------
(* The screens.                                                            *)

SettingInit == dateTime \in Today /\ rtc = NotWritten

\* Setting::init() and readFromRTC().  The display's values were loaded at boot.
EnterSetting ==
  /\ Enter("settings", saved)
  /\ dateTime' \in Today
  /\ rtc' = NotWritten

SettingMainFrame == FrameOf(Drawn(VisibleRows, row, 7), row, editing)
DateTimeFrame    == FrameOf(0 .. 4, row, editing)
InfoFrame        == FrameOf({}, row, FALSE)

SettingFrame ==
  CASE page = "MAIN"     -> SettingMainFrame
    [] page = "DATETIME" -> DateTimeFrame
    [] OTHER             -> InfoFrame

SettingSelect ==
  /\ Select("settings", "MAIN", 6) \/ Select("settings", "DATETIME", 4)
  /\ UNCHANGED clockVars

OpenSettingPage ==
  /\ Open("settings") /\ page = "MAIN" /\ ~editing
  /\ \/ row = 0 /\ Goto("DATETIME", 0)
     \/ row = 6 /\ Goto("INFO", 6)
  /\ UNCHANGED clockVars

CloseInfo ==
  /\ Open("settings") /\ page = "INFO"
  /\ Goto("MAIN", 6)
  /\ UNCHANGED clockVars

ToggleSpeaker ==
  /\ Open("settings") /\ page = "MAIN" /\ ~editing /\ row = 1
  /\ cfg' = [cfg EXCEPT !.speaker = ~@]
  /\ saved' = [saved EXCEPT !.speaker = cfg'.speaker]
  /\ UNCHANGED <<app, open, screenVars, clockVars>>

BeginSettingEdit ==
  /\ BeginEdit("settings", "MAIN", 2 .. 5) \/ BeginEdit("settings", "DATETIME", 0 .. 4)
  /\ UNCHANGED clockVars

\* DisplayMode steps and applies its own values; they are saved on the way out.
TurnDisplay(d) ==
  /\ \/ Turn("settings", "MAIN", 2,
             [cfg EXCEPT !.brightness = Within(BrightnessLow, BrightnessTop, @ + d * BrightnessStep)])
     \/ Turn("settings", "MAIN", 3,
             [cfg EXCEPT !.dimmer = Within(1, Len(DimmerSteps), @ + d)])
     \/ Turn("settings", "MAIN", 4, [cfg EXCEPT !.theme = Around(0, Themes - 1, @ + d)])
     \/ Turn("settings", "MAIN", 5, [cfg EXCEPT !.rotation = IF @ = 3 THEN 1 ELSE 3])
  /\ UNCHANGED clockVars

TurnClock(d) ==
  /\ Open("settings") /\ page = "DATETIME" /\ editing
  /\ dateTime' = CASE row = 0 -> TurnYear(dateTime, d)
                   [] row = 1 -> TurnMonth(dateTime, d)
                   [] row = 2 -> TurnDay(dateTime, d)
                   [] row = 3 -> TurnHour(dateTime, d)
                   [] row = 4 -> TurnMinute(dateTime, d)
  /\ UNCHANGED <<app, open, screenVars, cfg, saved, rtc>>

\* A press ends an edit and saves nothing; DATETIME clamps.
EndSettingEdit ==
  /\ Open("settings") /\ editing
  /\ editing' = FALSE
  /\ dateTime' = IF page = "DATETIME" THEN ClampDateTime(dateTime) ELSE dateTime
  /\ UNCHANGED <<app, open, page, row, cfg, saved, rtc>>

\* Any long press, on any page, saves the display, writes the clock -- the time
\* of entry again if nobody turned it -- and leaves the mode.
HoldSetting ==
  /\ Leave("settings")
  /\ saved' = [cfg EXCEPT !.speaker = saved.speaker]
  /\ dateTime' = ClampDateTime(dateTime)
  /\ rtc' = dateTime'

SettingNext ==
  \/ EnterSetting
  \/ SettingSelect
  \/ OpenSettingPage
  \/ CloseInfo
  \/ ToggleSpeaker
  \/ BeginSettingEdit
  \/ \E d \in {-1, 1} : TurnDisplay(d)
  \/ \E d \in {-1, 1} : TurnClock(d)
  \/ EndSettingEdit
  \/ HoldSetting

\* The year can be turned under a 29 February, the month under a 31st, and a
\* long press comes at any time: the clock is never given a day that its
\* month does not have, and outside an edit none is on the screen.
DateIsValid ==
  /\ rtc # NotWritten => IsDate(rtc)
  /\ open /\ ~editing => IsDate(dateTime)

=============================================================================
