--------------------------- MODULE DevelopScreens ----------------------------
(***************************************************************************)
(* FOR DEVELOP's four pages.  The interval and the shoot mode are its own; *)
(* the limits of an exposure and of the sensor are MULTI BOX's, edited in  *)
(* place, and the channels are TRIGGER MODE's.  The cycle that the START   *)
(* button runs is module Bench.                                            *)
(***************************************************************************)
EXTENDS ModeScreen

CONSTANTS
  IntervalLow, IntervalTop,  \* 500 and 600000 ms
  IntervalKnee,              \* 10000: from here on a step is twice as long
  BulbTop,                   \* 900 s
  RestTop, RestKnee, RestFactor,  \* 60 s, 2 s and 5, in steps of 100 ms
  DelayTop,                  \* 10 s, in steps of 100 ms
  DetectLow, DetectTop,      \* 1 and 100, in steps of 5 cm
  FarTop                     \* 300, in steps of 10 cm

ASSUME DevelopScreensAssumption ==
  /\ IntervalLow \in Nat /\ IntervalTop \in Nat /\ IntervalLow <= IntervalTop
  /\ IntervalKnee \in Nat
  /\ BulbTop \in Nat \ {0}
  /\ RestTop \in Nat /\ RestKnee \in Nat /\ RestFactor \in Nat
  /\ DelayTop \in Nat /\ FarTop \in Nat
  /\ DetectLow \in Nat /\ DetectTop \in Nat /\ DetectLow <= DetectTop

DevelopConfigs ==
  {c \in [single : BOOLEAN, interval : IntervalLow .. IntervalTop,
          minBulb : 1 .. BulbTop, maxBulb : 1 .. BulbTop + 1, rest : 0 .. RestTop,
          delay : 0 .. DelayTop, detect : DetectLow .. DetectTop,
          filter : BOOLEAN, near : 0 .. FarTop, far : 0 .. FarTop] :
     c.near < c.far /\ c.minBulb <= c.maxBulb}

\* The rows of the three pages, from 0.
AdvanceRow == [shoot |-> 0, interval |-> 1, minBulb |-> 2, maxBulb |-> 3, rest |-> 4,
               delay |-> 5, sensor |-> 6, trigout |-> 7, back |-> 8]
SensorRow  == [detect |-> 0, filter |-> 1, near |-> 2, far |-> 3, back |-> 4]
TrigRow    == [trigger |-> 0, remote |-> 1, ble |-> 2, back |-> 3]

RowCount(p) == CASE p = "MAIN" -> 2 [] p = "ADVANCE" -> 9 [] p = "SENSOR" -> 5 [] p = "TRIGOUT" -> 4

\* MAIN draws its two buttons, the pages a list with a window.
DevelopMainFrame == FrameOf(0 .. 1, row, TRUE)
DevelopListFrame == FrameOf(Drawn(VisibleRows, row, RowCount(page)), row, editing)

DevelopFrame == IF page = "MAIN" THEN DevelopMainFrame ELSE DevelopListFrame

\* saveConfig() and saveParams(); nothing they clamp is out of range by then.
EnterDevelop == Enter("develop", saved)

\* The cursor runs in a circle, here only.
RotateDevelop ==
  /\ Open("develop") /\ ~editing
  /\ \E d \in {-1, 1} : row' = Around(0, RowCount(page) - 1, row + d)
  /\ UNCHANGED <<app, open, page, editing, cfg, saved>>

\* Going to another page saves, going deeper does not.
Deeper(p, r, to) ==
  /\ Open("develop") /\ page = p /\ ~editing /\ row = r
  /\ Goto(to, 0)

OpenDevelopPage ==
  \/ Deeper("MAIN", 1, "ADVANCE")
  \/ Deeper("ADVANCE", AdvanceRow.sensor, "SENSOR")
  \/ Deeper("ADVANCE", AdvanceRow.trigout, "TRIGOUT")

Back(p, to, r) ==
  /\ Open("develop") /\ page = p /\ ~editing
  /\ page' = to /\ row' = r
  /\ saved' = cfg
  /\ UNCHANGED <<app, open, editing, cfg>>

\* The BACK row, or a long press on any row.
DevelopBack ==
  \/ Back("ADVANCE", "MAIN", 0)
  \/ Back("SENSOR", "ADVANCE", AdvanceRow.sensor)
  \/ Back("TRIGOUT", "ADVANCE", AdvanceRow.trigout)

ToggleDevelop ==
  \/ Toggle("develop", "ADVANCE", AdvanceRow.shoot, [cfg EXCEPT !.single = ~@])
  \/ Toggle("develop", "SENSOR", SensorRow.filter, [cfg EXCEPT !.filter = ~@])

\* Pressing a channel turns the encoder by one, while SELECTING: the cursor moves
\* on, and the channel stays as it is.
PressTrigRow ==
  /\ Open("develop") /\ page = "TRIGOUT" /\ row # TrigRow.back
  /\ Goto("TRIGOUT", row + 1)

BeginDevelopEdit ==
  \/ BeginEdit("develop", "ADVANCE", 1 .. 5)
  \/ BeginEdit("develop", "SENSOR", {SensorRow.detect, SensorRow.near, SensorRow.far})

-----------------------------------------------------------------------------
(* What a turn of each row does.                                           *)

TurnInterval(c, d) ==
  [c EXCEPT !.interval = Within(IntervalLow, IntervalTop,
                                @ + d * (IF @ >= IntervalKnee THEN 2 ELSE 1))]

\* The longest exposure is pushed up by the shortest.
TurnMinBulb(c, d) ==
  LET n == [c EXCEPT !.minBulb = Within(1, BulbTop, @ + d)]
  IN  [n EXCEPT !.maxBulb = IF @ <= n.minBulb THEN n.minBulb + 1 ELSE @]

\* ... and stops above it, but for the limit.
TurnMaxBulb(c, d) ==
  [c EXCEPT !.maxBulb = AtMost(BulbTop, AtLeast(c.minBulb + 1, @ + d))]

TurnRest(c, d) ==
  [c EXCEPT !.rest = Within(0, RestTop, @ + d * (IF @ >= RestKnee THEN RestFactor ELSE 1))]

TurnDelay(c, d)  == [c EXCEPT !.delay  = Within(0, DelayTop, @ + d)]
TurnDetect(c, d) == [c EXCEPT !.detect = Within(DetectLow, DetectTop, @ + d)]

\* Mutant of TurnNear: the near edge stops at the sensor's range.
TurnNearPast(c, d) == [c EXCEPT !.near = Within(0, FarTop, @ + d)]

\* The edges of the range stop at each other, a step apart.
TurnNear(c, d) == [c EXCEPT !.near = AtMost(c.far - 1, AtLeast(0, @ + d))]
TurnFar(c, d)  == [c EXCEPT !.far  = AtMost(FarTop, AtLeast(c.near + 1, @ + d))]

TurnDevelop(d) ==
  \/ Turn("develop", "ADVANCE", AdvanceRow.interval, TurnInterval(cfg, d))
  \/ Turn("develop", "ADVANCE", AdvanceRow.minBulb, TurnMinBulb(cfg, d))
  \/ Turn("develop", "ADVANCE", AdvanceRow.maxBulb, TurnMaxBulb(cfg, d))
  \/ Turn("develop", "ADVANCE", AdvanceRow.rest, TurnRest(cfg, d))
  \/ Turn("develop", "ADVANCE", AdvanceRow.delay, TurnDelay(cfg, d))
  \/ Turn("develop", "SENSOR", SensorRow.detect, TurnDetect(cfg, d))
  \/ Turn("develop", "SENSOR", SensorRow.near, TurnNear(cfg, d))
  \/ Turn("develop", "SENSOR", SensorRow.far, TurnFar(cfg, d))

-----------------------------------------------------------------------------

\* A press or a long press ends an edit and saves it.
EndDevelopEdit == EndEdit("develop")

\* A long press on MAIN leaves; teardown() saves.
HoldDevelop ==
  /\ page = "MAIN" /\ ~editing
  /\ Leave("develop")
  /\ saved' = cfg

DevelopNext ==
  \/ EnterDevelop
  \/ RotateDevelop
  \/ OpenDevelopPage
  \/ DevelopBack
  \/ ToggleDevelop
  \/ PressTrigRow
  \/ BeginDevelopEdit
  \/ \E d \in {-1, 1} : TurnDevelop(d)
  \/ EndDevelopEdit
  \/ HoldDevelop

=============================================================================
