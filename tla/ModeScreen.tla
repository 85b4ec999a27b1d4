----------------------------- MODULE ModeScreen ------------------------------
(***************************************************************************)
(* What the screens of the launcher's modes have in common.  The launcher  *)
(* runs one mode at a time and the modes share none of this: every mode    *)
(* has its own edit state (a screen, a row, EDITING or not) and its own    *)
(* configuration, in RAM and in flash.  One behaviour is the life of one   *)
(* mode, `app', opened and left many times, so they can share the names.   *)
(***************************************************************************)
EXTENDS Frames, FiniteSets

CONSTANTS
  VisibleRows,               \* 4: rows of settings the screen has room for
  HourTop, MinuteTop         \* 23 and 59

ASSUME ModeScreenAssumption ==
  /\ VisibleRows \in Nat \ {0}
  /\ HourTop \in Nat /\ MinuteTop \in Nat

VARIABLES
  app,             \* the mode of this behaviour
  open,            \* it runs; otherwise the launcher's menu does
  page,            \* editMode.screen
  row,             \* the selected row of that screen, from 0
  editing,         \* editMode.state = EDITING
  cfg,             \* its configuration, in RAM
  saved            \* ... and in flash

screenVars == <<page, row, editing>>

\* The cursor stops at both ends of a list.
Stepped(d, last) == IF row + d \in 0 .. last THEN row + d ELSE row

AtMost(top, n)      == IF n > top THEN top ELSE n
AtLeast(low, n)     == IF n < low THEN low ELSE n
Within(low, top, n) == AtMost(top, AtLeast(low, n))

\* A value that runs in a circle.
Around(low, top, n) == IF n < low THEN top ELSE IF n > top THEN low ELSE n

ScreenInit ==
  /\ open = FALSE
  /\ page = "MAIN" /\ row = 0 /\ editing = FALSE
  /\ cfg = saved

Open(a) == open /\ app = a

\* Entering a mode: init(), loadConfig() and the screen's own init.
Enter(a, loaded) ==
  /\ app = a /\ ~open
  /\ open' = TRUE
  /\ page' = "MAIN" /\ row' = 0 /\ editing' = FALSE
  /\ cfg' = loaded
  /\ UNCHANGED <<app, saved>>

Leave(a) ==
  /\ Open(a)
  /\ open' = FALSE
  /\ page' = "MAIN" /\ row' = 0 /\ editing' = FALSE
  /\ UNCHANGED <<app, cfg>>

\* The cursor moves on a screen whose last row is `last'.
Select(a, p, last) ==
  /\ Open(a) /\ page = p /\ ~editing
  /\ \E d \in {-1, 1} : row' = Stepped(d, last)
  /\ UNCHANGED <<app, open, page, editing, cfg, saved>>

Goto(p, r) ==
  /\ page' = p /\ row' = r
  /\ UNCHANGED <<app, open, editing, cfg, saved>>

BeginEdit(a, p, rows) ==
  /\ Open(a) /\ page = p /\ ~editing /\ row \in rows
  /\ editing' = TRUE
  /\ UNCHANGED <<app, open, page, row, cfg, saved>>

\* Mutant: what was edited stays in RAM.
EndEditUnsaved(a) ==
  /\ Open(a) /\ editing
  /\ editing' = FALSE
  /\ UNCHANGED <<app, open, page, row, cfg, saved>>

\* A press ends an edit and saves it.
EndEdit(a) ==
  /\ Open(a) /\ editing
  /\ editing' = FALSE
  /\ saved' = cfg
  /\ UNCHANGED <<app, open, page, row, cfg>>

\* A row that toggles on a press and is saved at once.
Toggle(a, p, r, toggled) ==
  /\ Open(a) /\ page = p /\ ~editing /\ row = r
  /\ cfg' = toggled /\ saved' = toggled
  /\ UNCHANGED <<app, open, screenVars>>

\* Turning a row that is being edited.
Turn(a, p, r, turned) ==
  /\ Open(a) /\ page = p /\ editing /\ row = r
  /\ cfg' = turned
  /\ UNCHANGED <<app, open, screenVars, saved>>

=============================================================================
