------------------------------- MODULE Frames --------------------------------
(***************************************************************************)
(* A frame is what a render function draws, as far as it says where the    *)
(* user is: the rows and buttons that are drawn, and how each is drawn:    *)
(* "plain", "lit" (filled with COLOR_BORDER: a selected row) or "accent"   *)
(* (filled with COLOR_HIGHLIGHT, green or red: a row being edited, a       *)
(* selected button, key or day).                                           *)
(***************************************************************************)
EXTENDS Integers

\* A list scrolls just as far as it must to keep the selection in sight.
FirstVisible(fits, sel, count) ==
  LET scrolled == IF sel >= fits THEN sel - fits + 1 ELSE 0
      last     == IF count > fits THEN count - fits ELSE 0
  IN  IF scrolled > last THEN last ELSE scrolled

\* Mutant of Drawn: the list does not scroll.
DrawnFromTheTop(fits, sel, count) == {i \in 0 .. count - 1 : i < fits}

\* The rows that are drawn of a list of `count', of which `fits' fit.
Drawn(fits, sel, count) ==
  {i \in 0 .. count - 1 : /\ FirstVisible(fits, sel, count) <= i
                          /\ i < FirstVisible(fits, sel, count) + fits}

\* A frame of rows in which the one in hand stands out.
FrameOf(rows, hand, accented) ==
  [i \in rows |-> CASE i # hand             -> "plain"
                    [] i = hand /\ accented -> "accent"
                    [] OTHER                -> "lit"]

=============================================================================
