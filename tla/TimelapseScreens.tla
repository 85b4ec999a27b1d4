-------------------------- MODULE TimelapseScreens ---------------------------
(***************************************************************************)
(* TIMELAPSE's two screens.  MAIN is a video calculator: of the shoot's    *)
(* duration, the video's length and its frame rate, none is stored but the *)
(* last; turning one solves for a number of shots and an interval.         *)
(* ADVANCE edits the stored values themselves.  What the sequence does     *)
(* with them, and the START / PAUSE button, is module Timelapse.           *)
(*                                                                         *)
(* All times are in ticks, the code's milliseconds.                        *)
(***************************************************************************)
EXTENDS ModeScreen, Sequences

CONSTANTS
  Second,          \* 1000
  MinRest,         \* 100: the smallest interval, and its step
  MaxRest,         \* 3600000
  DurationStep,    \* 60 s, in seconds
  ShotLimit,       \* 10000
  ExposureTop,     \* 900, in seconds
  SettleTop,       \* 120, in seconds
  Presets,         \* VIDEO_FPS_PRESETS
  SpinCap          \* 30: the most steps one reading of the encoder can turn

ASSUME TimelapseScreensAssumption ==
  /\ Second \in Nat \ {0}
  /\ MinRest \in Nat \ {0} /\ MaxRest \in Nat /\ MinRest <= MaxRest
  /\ DurationStep \in Nat
  /\ ShotLimit \in Nat \ {0} /\ ExposureTop \in Nat \ {0} /\ SettleTop \in Nat
  /\ Presets \in Seq(Nat \ {0}) /\ Presets # <<>>
  /\ SpinCap \in Nat

TimelapseConfigs ==
  [interval : MinRest .. MaxRest, total : 0 .. ShotLimit, bulb : BOOLEAN,
   exposure : 1 .. ExposureTop, settle : 0 .. SettleTop, fps : DOMAIN Presets]

\* validateConfig()
ValidTimelapse(c) ==
  [c EXCEPT !.interval = Within(MinRest, MaxRest, @),
            !.total    = Within(0, ShotLimit, @),
            !.exposure = Within(1, ExposureTop, @),
            !.settle   = Within(0, SettleTop, @)]

-----------------------------------------------------------------------------
(* The video calculator.                                                   *)

BulbTime(c) == IF c.bulb THEN (c.exposure + c.settle) * Second ELSE 0
PerShot(c)  == c.interval + BulbTime(c)

Infinite == -1

\* getEstimatedDurationSec()
Duration(c) == IF c.total = 0 THEN Infinite ELSE (c.total * PerShot(c)) \div Second

\* Infinite sequences start from the duration of one shot.
DurationOrBootstrap(c) ==
  AtLeast(1, IF c.total = 0 THEN PerShot(c) \div Second ELSE Duration(c))

Fps(c) == Presets[c.fps]

\* Mutant of SolveInterval: the exposure is taken for part of the rest.
SolveWithoutBulb(c, seconds, shots) ==
  Within(MinRest, MaxRest, (seconds * Second) \div shots)

\* solveIntervalMs(): the rest that makes `shots' cycles last `seconds'.
SolveInterval(c, seconds, shots) ==
  Within(MinRest, MaxRest, (seconds * Second) \div shots - BulbTime(c))

\* The video's length in seconds is total / Fps, a fraction.  This is the
\* number of shots of a video of (num / den) seconds, rounded; at an exact half
\* the code's float may come out a shot lower.
ShotsFor(num, den, fps) == Within(1, ShotLimit, (2 * num * fps + den) \div (2 * den))

\* The solved sequence; an infinite one had no duration to keep.
Solved(c, was, shots) ==
  [c EXCEPT !.total = shots,
            !.interval = IF was.total = 0 THEN @
                         ELSE SolveInterval(c, DurationOrBootstrap(was), shots)]

\* Row 0: the number of shots is kept, the interval solved.
TurnDuration(c, d) ==
  LET shots == AtLeast(1, c.total)
  IN  [c EXCEPT !.total = shots,
                !.interval = SolveInterval(c, AtLeast(1, DurationOrBootstrap(c) + d * DurationStep), shots)]

\* Row 1: a second of video more or less, at least one.
TurnVideo(c, d) ==
  LET num == AtLeast(Fps(c), c.total + d * Fps(c))      \* the new length times Fps
  IN  Solved(c, c, ShotsFor(num, Fps(c), Fps(c)))

\* Row 2: the video keeps its length at another frame rate.
TurnFps(c, d) ==
  LET next == [c EXCEPT !.fps = Around(1, Len(Presets), @ + d)]
  IN  Solved(next, c, ShotsFor(c.total, Fps(c), Fps(next)))

-----------------------------------------------------------------------------
(* The screens.                                                            *)

\* Both screens draw the row in hand lit, a row that has a value in the colour of
\* an edit while it is edited, and the START button in it whenever it is selected.
TimelapseMainFrame    == FrameOf(0 .. 4, row, (editing /\ row \in 0 .. 2) \/ row = 4)
TimelapseAdvanceFrame == FrameOf(Drawn(VisibleRows, row, 5), row, editing /\ row # 2)

TimelapseFrame == IF page = "MAIN" THEN TimelapseMainFrame ELSE TimelapseAdvanceFrame

TimelapseMainTurn(d) ==
  \/ Turn("timelapse", "MAIN", 0, ValidTimelapse(TurnDuration(cfg, d)))
  \/ Turn("timelapse", "MAIN", 1, ValidTimelapse(TurnVideo(cfg, d)))
  \/ Turn("timelapse", "MAIN", 2, ValidTimelapse(TurnFps(cfg, d)))

\* The interval follows the speed of the turn, the others its direction.
TimelapseAdvanceTurn(d) ==
  \/ \E n \in 1 .. SpinCap + 1 :
       Turn("timelapse", "ADVANCE", 0,
            ValidTimelapse([cfg EXCEPT !.interval = @ + d * AtMost(SpinCap, n) * MinRest]))
  \/ Turn("timelapse", "ADVANCE", 1, ValidTimelapse([cfg EXCEPT !.total = @ + d]))
  \/ Turn("timelapse", "ADVANCE", 3, ValidTimelapse([cfg EXCEPT !.exposure = @ + d]))
  \/ Turn("timelapse", "ADVANCE", 4, ValidTimelapse([cfg EXCEPT !.settle = @ + d]))

OpenTimelapseAdvance ==
  /\ Open("timelapse") /\ page = "MAIN" /\ ~editing /\ row = 3
  /\ Goto("ADVANCE", 0)

\* A long press on ADVANCE goes back to MAIN's row 3 and leaves EDITING as it
\* is; on MAIN it saves and leaves the mode.
HoldTimelapse ==
  \/ /\ Open("timelapse") /\ page = "ADVANCE"
     /\ Goto("MAIN", 3)
  \/ /\ page = "MAIN"
     /\ Leave("timelapse")
     /\ saved' = cfg

EnterTimelapse == Enter("timelapse", ValidTimelapse(saved))

TimelapseSelect == Select("timelapse", "MAIN", 4) \/ Select("timelapse", "ADVANCE", 4)

TimelapsePress ==
  \/ BeginEdit("timelapse", "MAIN", 0 .. 2)
  \/ BeginEdit("timelapse", "ADVANCE", {0, 1, 3, 4})
  \/ EndEdit("timelapse")
  \/ Toggle("timelapse", "ADVANCE", 2, [cfg EXCEPT !.bulb = ~@])

TimelapseNext ==
  \/ EnterTimelapse
  \/ TimelapseSelect
  \/ TimelapsePress
  \/ \E d \in {-1, 1} : TimelapseMainTurn(d)
  \/ \E d \in {-1, 1} : TimelapseAdvanceTurn(d)
  \/ OpenTimelapseAdvance
  \/ HoldTimelapse

-----------------------------------------------------------------------------
(* Properties.                                                             *)

\* An edit whose row is gone: a long press on ADVANCE leaves it running on
\* MAIN's "Advance" row, where turning does nothing and a press ends it.
StrayTimelapseEdit == editing /\ page = "MAIN" /\ row = 3

\* Row 0 keeps the shots, and gets the duration that was asked for; rows 1 and 2
\* keep the whole seconds of duration on the screen (0s counts as 1s), row 2 the
\* video's length too.  Each is kept up to the rounding, and a shoot never gets
\* longer than was asked for or shown -- unless the interval that solves it is out
\* of range.  An infinite sequence shows INF, and nothing is held: it becomes one
\* shot, or at an unchanged interval one second of video or one shot.
CalculatorKeeps(c, n, r) ==
  LET length(a, b)   == a.total * Fps(b)
      clamped        == n.interval \in {MinRest, MaxRest}
      Lasts(seconds) == clamped \/ /\ Duration(n) <= seconds
                                   /\ (seconds - Duration(n) - 1) * Second <= n.total
  IN  /\ r = 0 => /\ n.total = AtLeast(1, c.total)
                  /\ \E d \in {-1, 1} : Lasts(AtLeast(1, DurationOrBootstrap(c) + d * DurationStep))
      /\ r \in {1, 2} /\ c.total # 0 => Lasts(AtLeast(1, Duration(c)))
      /\ r \in {1, 2} /\ c.total = 0 =>
           /\ n.interval = c.interval
           /\ n.total = IF r = 1 THEN AtMost(ShotLimit, Fps(c)) ELSE 1
      /\ r = 2 /\ c.total # 0 /\ n.total \in 2 .. ShotLimit - 1 =>
           /\ 2 * (length(n, c) - length(c, n)) <= Fps(c)
           /\ 2 * (length(c, n) - length(n, c)) <= Fps(c)

=============================================================================
