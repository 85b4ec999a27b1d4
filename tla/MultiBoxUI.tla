----------------------------- MODULE MultiBoxUI ------------------------------
(***************************************************************************)
(* What MULTI BOX draws: one layout per role on MAIN, the scrolled lists   *)
(* of CONNECTION, the two dialogs, and the status line that puts the       *)
(* session in the words of the role.                                       *)
(***************************************************************************)
EXTENDS ConnectionScreen, Frames

CONSTANT VisibleRows         \* 4: rows of CONNECTION the screen has room for

ASSUME RoomAssumption == VisibleRows \in Nat \ {0}

\* What is drawn at the right of a row: the value an edit changes, a setting
\* that a press toggles, or an arrow.
ShownAs(kind) ==
  CASE kind = "RANGE_ON"        -> "toggle"
    [] kind \in {"PAIR", "NODES"} -> "forward"
    [] kind = "BACK"            -> "backward"
    [] OTHER                    -> "value"

\* CONNECTION, as a list of settings.
ConnectionFrame ==
  FrameOf(Drawn(VisibleRows, cursor, ConnRowCount(role)), cursor, state = "EDITING")

\* A list of boxes and BACK after the last.
BoxesFrame(boxes) ==
  LET count == Len(boxes) + 1
      hand  == IF sel >= count THEN count - 1 ELSE sel
  IN  FrameOf(Drawn(VisibleRows, hand, count), hand, FALSE)

\* While the scan runs there is nothing to choose from.
ScanFrame == IF scan = "on" THEN <<>> ELSE BoxesFrame(found)

PeerFrame == BoxesFrame(peers)

\* CANCEL is button 0; the other is OK or CONTINUE.
ConfirmFrame == FrameOf({0, 1}, IF ok THEN 1 ELSE 0, TRUE)

\* What is drawn on the canvas: a dialog before its screen.
Asking == state \in {"CONFIRM_DISRUPT", "CONFIRM_EXIT"}

View ==
  CASE Asking                                                      -> state
    [] ~Asking /\ screen = "MAIN"                                  -> role
    [] screen = "CONNECTION" /\ state \in {"SCANNING", "PEER_LIST"} -> state
    [] OTHER                                                       -> "CONNECTION"

Frame ==
  CASE Asking              -> ConfirmFrame
    [] View = "SCANNING"   -> ScanFrame
    [] View = "PEER_LIST"  -> PeerFrame
    [] View = "CONNECTION" -> ConnectionFrame
    [] OTHER               -> <<>>

VARIABLE display             \* what the last _canvas_update() put on the screen

Views == Roles \cup States \cup {"CONNECTION", "other"}

\* Elsewhere than in MULTI BOX the screen is another module's.
Picture == IF mode = "multi" THEN [view |-> View, frame |-> Frame]
           ELSE [view |-> "other", frame |-> <<>>]

\* The question whether to end a run is drawn, but not pushed to the screen.
Unseen == mode = "multi" /\ state = "CONFIRM_DISRUPT"

\* Mutant: the lists are not redrawn either while a run is in progress.
RenderWhenIdle == display' = IF Unseen' \/ IsBusy' THEN display ELSE Picture'

\* renderMultiBoxUI(), at the end of every lap.
Render == display' = IF Unseen' THEN display ELSE Picture'

\* The status line of a role.
RoleStatus(captured) ==
  LET watching == IF captured THEN "WATCHING" ELSE "CALIBRATING"
  IN  CASE role = "NONE"                            -> "NO ROLE"
        [] role = "START" /\ session = "READY"      -> watching
        [] role = "START" /\ session = "LOCKED"     -> "SENT"
        [] role = "FLASH" /\ flashing               -> "FIRING"
        [] role = "FLASH" /\ ~flashing /\ ~active   -> "STANDBY"
        [] role = "FLASH" /\ ~flashing /\ active    ->
             IF session = "LOCKED" THEN "FIRED" ELSE watching
        [] role = "MAIN" /\ session = "EXPOSING"    -> "BULB"
        [] role = "MAIN" /\ session = "REARM"       -> "REARM"
        [] role = "MAIN" /\ session = "READY"       -> "ARMED"
        [] OTHER                                    -> "IDLE"

-----------------------------------------------------------------------------

\* The row or button the next press, or the answer that is waited for, is about.
Hand ==
  CASE state = "CONFIRM_EXIT"                                  -> IF ok THEN 1 ELSE 0
    [] state \in {"SCANNING", "PEER_LIST"}                     -> sel
    [] state = "CONFIRM_DISRUPT" /\ pending = "REMOVE_PEER"    -> sel
    [] OTHER                                                   -> cursor

\* The row or button a press acts on is on the screen and stands out there,
\* whichever role gave the list its rows, whatever a scan or a removal made of
\* its length; while "Scanning..." stands there instead, a press picks nothing.
\* Only a row that shows a value is drawn as being edited.  The question
\* whether to end a run never reaches the screen (MultiBoxUI draws it and does
\* not push it): while it waits for its answer, what is seen is the list it was
\* asked from, and there the row stands out that the answer is about -- which
\* answer is chosen, the user cannot see.
CursorIsDrawn ==
  mode = "multi" =>
    /\ Unseen => /\ display.view = (IF pending = "REMOVE_PEER" THEN "PEER_LIST" ELSE "CONNECTION")
                 /\ display.frame # <<>>
    /\ display.frame # <<>> =>
         /\ Hand \in DOMAIN display.frame
         /\ display.frame[Hand] = (IF state \in {"EDITING", "CONFIRM_EXIT"} THEN "accent" ELSE "lit")
    /\ state = "EDITING" => ShownAs(Row) = "value"

\* The status line never hides a run: a shutter that is open or resting, a
\* START box that waits for MAIN and a FLASH box that is armed or has fired are
\* named by it, whatever the radio, the sensor and the edits of the role did to
\* the four fields it is computed from -- but for a role that was not set when
\* MULTI BOX was entered, which the line calls NO ROLE although the node manager
\* may have read MAIN.
SessionIsTold ==
  mode = "multi" /\ role # "NONE" =>
    \A captured \in BOOLEAN :
      /\ session = "EXPOSING" => RoleStatus(captured) = "BULB"
      /\ session = "REARM" => RoleStatus(captured) = "REARM"
      /\ session = "LOCKED" => RoleStatus(captured) \in {"SENT", "FIRING", "FIRED"}
      /\ role = "START" /\ active => RoleStatus(captured) = "SENT"
      /\ flashing => RoleStatus(captured) = "FIRING"

\* A screen shows what there is to show, whatever the radio and the user change
\* under it: rows that exist, dialogs that belong to it, a cursor in
\* sight, a status line that tells the session.
ScreenIsConsistent ==
  /\ CursorOnARow /\ SelectionOnARow /\ DialogsHaveTheirScreen /\ CursorIsDrawn
  /\ SessionIsTold

=============================================================================
