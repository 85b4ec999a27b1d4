-------------------------- MODULE AutoShootScreens ---------------------------
(***************************************************************************)
(* AUTO SHOOT's two screens: MAIN with burst, cooldown and the START and   *)
(* STOP buttons, ADVANCE with the range filter and the retrigger distance. *)
(* What a run does with them is module AutoShoot.                          *)
(*                                                                         *)
(* Ranges are in steps of 0.1 m, the cooldown in steps of 10 ms, and the   *)
(* retrigger distance in cm.                                               *)
(***************************************************************************)
EXTENDS ModeScreen

CONSTANTS
  RangeLow, RangeTop,        \* 1 and 80: 0.1 m and 8.0 m
  BurstTop,                  \* 10
  CooldownTop,               \* 500: 5 s
  RetriggerLow, RetriggerTop \* 2 and 100

ASSUME AutoShootScreensAssumption ==
  /\ RangeLow \in Nat /\ RangeTop \in Nat /\ RangeLow <= RangeTop
  /\ BurstTop \in Nat \ {0} /\ CooldownTop \in Nat
  /\ RetriggerLow \in Nat /\ RetriggerTop \in Nat /\ RetriggerLow <= RetriggerTop

AutoShootConfigs ==
  {c \in [filter : BOOLEAN, min : RangeLow .. RangeTop, max : RangeLow .. RangeTop,
          burst : 1 .. BurstTop, cooldown : 0 .. CooldownTop,
          retrigger : RetriggerLow .. RetriggerTop] : c.min <= c.max}

\* Mutant of Swapped: the ends of the range are taken as they are.
Unswapped(c) == c

\* A range turned inside out is turned back.
Swapped(c) == IF c.min > c.max THEN [c EXCEPT !.min = c.max, !.max = c.min] ELSE c

\* validateConfig()
ValidAutoShoot(c) ==
  Swapped([c EXCEPT !.min       = Within(RangeLow, RangeTop, @),
                    !.max       = Within(RangeLow, RangeTop, @),
                    !.burst     = Within(1, BurstTop, @),
                    !.cooldown  = Within(0, CooldownTop, @),
                    !.retrigger = Within(RetriggerLow, RetriggerTop, @)])

\* Advance, and START and STOP in their own colours, are filled only while
\* nothing is edited; the rows that have a value, always.
AutoShootMainFrame ==
  [i \in 0 .. 4 |-> IF i \in {2, 3, 4} /\ editing THEN "plain"
                    ELSE FrameOf(0 .. 4, row, editing \/ row \in {3, 4})[i]]

AutoShootAdvanceFrame == FrameOf(0 .. 3, row, editing /\ row # 0)

AutoShootFrame == IF page = "MAIN" THEN AutoShootMainFrame ELSE AutoShootAdvanceFrame

\* The cooldown is unsigned: a step below 0 wraps, and is clamped from above.
TurnCooldown(c, d) ==
  [c EXCEPT !.cooldown = IF @ + d < 0 THEN CooldownTop ELSE @ + d]

AutoShootTurn(d) ==
  \/ Turn("auto_shoot", "MAIN", 0, ValidAutoShoot([cfg EXCEPT !.burst = @ + d]))
  \/ Turn("auto_shoot", "MAIN", 1, ValidAutoShoot(TurnCooldown(cfg, d)))
  \/ Turn("auto_shoot", "ADVANCE", 1, ValidAutoShoot([cfg EXCEPT !.min = @ + d]))
  \/ Turn("auto_shoot", "ADVANCE", 2, ValidAutoShoot([cfg EXCEPT !.max = @ + d]))
  \/ Turn("auto_shoot", "ADVANCE", 3, ValidAutoShoot([cfg EXCEPT !.retrigger = @ + d]))

AutoShootSelect == Select("auto_shoot", "MAIN", 4) \/ Select("auto_shoot", "ADVANCE", 3)

AutoShootPress ==
  \/ BeginEdit("auto_shoot", "MAIN", {0, 1})
  \/ BeginEdit("auto_shoot", "ADVANCE", {1, 2, 3})
  \/ EndEdit("auto_shoot")
  \/ Toggle("auto_shoot", "ADVANCE", 0, [cfg EXCEPT !.filter = ~@])

OpenAutoShootAdvance ==
  /\ Open("auto_shoot") /\ page = "MAIN" /\ ~editing /\ row = 2
  /\ Goto("ADVANCE", 0)

\* A long press on ADVANCE goes back to MAIN and leaves EDITING as it is; on
\* MAIN it leaves the mode, without saving.
HoldAutoShoot ==
  \/ /\ Open("auto_shoot") /\ page = "ADVANCE"
     /\ Goto("MAIN", 2)
  \/ /\ page = "MAIN"
     /\ Leave("auto_shoot")
     /\ UNCHANGED saved

EnterAutoShoot == Enter("auto_shoot", ValidAutoShoot(saved))

AutoShootNext ==
  \/ EnterAutoShoot
  \/ AutoShootSelect
  \/ AutoShootPress
  \/ \E d \in {-1, 1} : AutoShootTurn(d)
  \/ OpenAutoShootAdvance
  \/ HoldAutoShoot

\* An edit whose row is gone: MAIN's "Advance" row has no value.
StrayAutoShootEdit == editing /\ page = "MAIN" /\ row = 2

=============================================================================
