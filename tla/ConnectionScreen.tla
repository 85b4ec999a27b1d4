-------------------------- MODULE ConnectionScreen --------------------------
(***************************************************************************)
(* MULTI BOX's two screens as the user drives them, and the role of the    *)
(* box, which lives in three places: the edit buffer (config.role), the    *)
(* node manager's copy, which the radio advertises and the coordinator     *)
(* obeys, and flash.                                                       *)
(*                                                                         *)
(* The set of rows depends on the role, and the role changes under the     *)
(* cursor: the user edits it, and a scan that ends without finding a MAIN  *)
(* claims it.  Sessions open and close by radio while a screen is open.    *)
(* How they do is the subject of MainCoordinator and SensorNode: here the  *)
(* session is its name, EXPOSING means that the shutter is open, and the   *)
(* sensor and the deadlines act when they like.                            *)
(*                                                                         *)
(* A value the code sets anew before it reads it again (a selection, a     *)
(* dialog's default answer, the results of an old scan) is put back to its *)
(* initial value here as soon as nothing can read it any more; the two     *)
(* lists' selections, of which one is alive at a time, share a variable.   *)
(***************************************************************************)
EXTENDS Integers, Sequences, SequencesExt

CONSTANTS
  Boxes,           \* the boxes a scan can find, by node id
  MaxPeers         \* MB_MAX_PEERS

ASSUME PeersAssumption == Boxes \subseteq Nat /\ MaxPeers \in Nat \ {0}

VARIABLES
  mode,            \* "off", "menu", "multi" (MULTI BOX) or "dev" (FOR DEVELOP)
  role,            \* config.role, the edit buffer
  nmRole,          \* nodeManager's copy
  nvsRole,         \* the copy in flash
  session,         \* state.session
  active,          \* state.sessionActive
  flashing,        \* state.flashPending
  screen,          \* editMode.screen
  state,           \* editMode.state
  cursor,          \* editMode.connIndex, from 0
  sel,             \* editMode.peerSel or scanSel, of the open list, from 0
  ok,              \* editMode.confirmChoice is OK
  pending,         \* editMode.pending
  peers,           \* the ids of the paired boxes, in table order
  scan,            \* "off", "on", or "ended" and not yet noticed
  found            \* scan results, in the order they answered

screenVars == <<screen, state, cursor, sel, ok, pending>>
roleVars   == <<role, nmRole, nvsRole>>
runVars    == <<session, active, flashing>>
radioVars  == <<runVars, peers, scan, found>>

Roles   == {"NONE", "START", "FLASH", "MAIN"}
States  == {"SELECTING", "EDITING", "SCANNING", "PEER_LIST", "CONFIRM_EXIT", "CONFIRM_DISRUPT"}
Tables  == {s \in UNION {[1 .. n -> Boxes] : n \in 0 .. MaxPeers} : IsInjective(s)}

ScreenTypeOK ==
  /\ mode \in {"off", "menu", "multi", "dev"}
  /\ role \in Roles /\ nmRole \in Roles /\ nvsRole \in Roles
  /\ session \in {"IDLE", "READY", "EXPOSING", "LOCKED", "REARM"}
  /\ active \in BOOLEAN /\ flashing \in BOOLEAN
  /\ screen \in {"MAIN", "CONNECTION"}
  /\ state \in States
  /\ cursor \in 0 .. 12
  /\ sel \in 0 .. MaxPeers
  /\ ok \in BOOLEAN
  /\ pending \in {"NONE", "EDIT_ROW", "REMOVE_PEER"}
  /\ peers \in Tables
  /\ scan \in {"off", "on", "ended"}
  /\ found \in Tables

\* Power-up: RAM holds the defaults until a mode is entered.
ScreenInit ==
  /\ mode = "menu"
  /\ role = "NONE" /\ nmRole = "NONE" /\ nvsRole \in Roles
  /\ session = "IDLE" /\ active = FALSE /\ flashing = FALSE
  /\ screen = "MAIN" /\ state = "SELECTING"
  /\ cursor = 0 /\ sel = 0
  /\ ok = FALSE /\ pending = "NONE"
  /\ peers = <<>> /\ scan = "off" /\ found = <<>>

-----------------------------------------------------------------------------
(* Rows.                                                                   *)

\* The rows of a role: identity, the sensor's, the role's own, the trailing ones.
SensorRows == <<"DETECT", "RANGE_ON", "RANGE_MIN", "RANGE_MAX">>
RowsOf(r) ==
  <<"NODE_ID", "ROLE">>
  \o (IF r = "NONE" THEN <<>> ELSE SensorRows)
  \o (CASE r = "FLASH" -> <<"FLASH_DELAY">>
        [] r = "MAIN"  -> <<"MIN_BULB", "MAX_BULB", "REARM", "END_DELAY">>
        [] OTHER       -> <<>>)
  \o <<"PAIR", "NODES", "BACK">>

\* Mutant: START is counted with FLASH's row.
CountedWithTheDelay(r) ==
  CASE r = "NONE" -> 5
    [] r = "MAIN" -> 13
    [] OTHER      -> 10

\* The count is a table of its own, to be changed with the rows.
ConnRowCount(r) ==
  CASE r = "NONE"  -> 5
    [] r = "MAIN"  -> 13
    [] r = "FLASH" -> 10
    [] OTHER       -> 9

\* connRowKind(): an index past the rows is taken for BACK.
ConnRowKind(r, i) == IF i < Len(RowsOf(r)) THEN RowsOf(r)[i + 1] ELSE "BACK"
Row == ConnRowKind(role, cursor)

\* A session is open, the box waits for MAIN, or a flash is armed.
IsBusy == session \in {"EXPOSING", "LOCKED"} \/ active \/ flashing

\* The run is over: the session is where it ends, and nothing is armed.
RunEnds(s) == session' = s /\ active' = FALSE /\ flashing' = FALSE

Wrapped(i, d, n) == (i + d + n) % n

-----------------------------------------------------------------------------
(* Entering and leaving.                                                   *)

\* init(): the role is copied out of the node manager, and only then does the
\* node manager read flash.
EnterMultiBox ==
  /\ mode = "menu"
  /\ mode' = "multi"
  /\ role' = nmRole
  /\ nmRole' = nvsRole
  /\ RunEnds(IF nmRole = "NONE" THEN "IDLE" ELSE "READY")
  /\ screen' = "MAIN" /\ state' = "SELECTING"
  /\ cursor' = 0 /\ sel' = 0
  /\ ok' = FALSE /\ pending' = "NONE"
  /\ UNCHANGED <<nvsRole, peers, scan, found>>

\* Input is read after the lap has noticed the end of a scan.
Reading == mode = "multi" /\ scan # "ended"

LongPressOnTop ==
  /\ Reading /\ screen = "MAIN" /\ state = "SELECTING"
  /\ state' = "CONFIRM_EXIT"
  /\ ok' = FALSE
  /\ UNCHANGED <<mode, screen, cursor, sel, pending, roleVars, radioVars>>

\* OK leaves by requestExit(); CANCEL and a long press stay.
AnswerExit ==
  /\ Reading /\ state = "CONFIRM_EXIT"
  /\ \/ /\ ok
        /\ mode' = "menu"
        /\ RunEnds("IDLE")
     \/ UNCHANGED <<mode, runVars>>
  /\ state' = "SELECTING"
  /\ ok' = FALSE
  /\ UNCHANGED <<screen, cursor, sel, pending, roleVars, peers, scan, found>>

\* saveConfig(): the edit buffer becomes the node manager's role, and flash's.
SaveConfig == nmRole' = role /\ nvsRole' = role /\ UNCHANGED role

-----------------------------------------------------------------------------
(* The encoder.                                                            *)

RotateDialog ==
  /\ Reading /\ state \in {"CONFIRM_EXIT", "CONFIRM_DISRUPT"}
  /\ ok' = ~ok
  /\ UNCHANGED <<mode, screen, state, cursor, sel, pending, roleVars, radioVars>>

RotateList(d) ==
  /\ Reading /\ screen = "CONNECTION"
  /\ \/ /\ state = "SCANNING"
        /\ sel' = Wrapped(sel, d, Len(found) + 1)
        /\ UNCHANGED cursor
     \/ /\ state = "PEER_LIST"
        /\ sel' = Wrapped(sel, d, Len(peers) + 1)
        /\ UNCHANGED cursor
     \/ /\ state = "SELECTING"
        /\ cursor' = Wrapped(cursor, d, ConnRowCount(role))
        /\ UNCHANGED sel
  /\ UNCHANGED <<mode, screen, state, ok, pending, roleVars, radioVars>>

\* The role row runs through NONE, START, FLASH and MAIN and wraps.
NextRole(d) ==
  LET order == <<"NONE", "START", "FLASH", "MAIN">>
      i == CHOOSE k \in 1 .. 4 : order[k] = role
  IN  order[Wrapped(i - 1, d, 4) + 1]

\* The new row set may be shorter than the old one.
ClampedCursor(r) == IF cursor >= ConnRowCount(r) THEN ConnRowCount(r) - 1 ELSE cursor

\* Turning an edited role applies it at once: whatever the old role was doing
\* is over, an open shutter closed, and the new role advertised.
RotateRole(d) ==
  /\ Reading /\ screen = "CONNECTION" /\ state = "EDITING" /\ Row = "ROLE"
  /\ role' = NextRole(d)
  /\ nmRole' = role'
  /\ RunEnds("IDLE")
  /\ cursor' = ClampedCursor(role')
  /\ UNCHANGED <<mode, nvsRole, screen, state, sel, ok, pending, peers, scan, found>>

-----------------------------------------------------------------------------
(* The button.                                                             *)

OpenConnection ==
  /\ Reading /\ screen = "MAIN" /\ state = "SELECTING"
  /\ screen' = "CONNECTION"
  /\ cursor' = 0
  /\ UNCHANGED <<mode, state, sel, ok, pending, roleVars, radioVars>>

Pressing(s) == Reading /\ screen = "CONNECTION" /\ state = s

PressEditing ==
  /\ Pressing("EDITING")
  /\ state' = "SELECTING"
  /\ UNCHANGED <<mode, screen, cursor, sel, ok, pending, roleVars, radioVars>>

\* A press pairs with the box under the cursor once the scan is over, and
\* goes back in any case -- leaving the scan running if it still is.
PressScanning ==
  /\ Pressing("SCANNING")
  /\ state' = "SELECTING"
  /\ sel' = 0
  /\ peers' = IF scan = "off" /\ sel < Len(found) /\ Len(peers) < MaxPeers
                 /\ ~Contains(peers, found[sel + 1])
              THEN Append(peers, found[sel + 1]) ELSE peers
  /\ found' = IF scan = "off" THEN <<>> ELSE found
  /\ UNCHANGED <<mode, screen, cursor, ok, pending, roleVars, runVars, scan>>

\* Mutant: the list stays open on an empty table.
KeepsListOpen(remaining) == "PEER_LIST"

\* removePeer() and what the list shows next.
AfterRemoval(remaining) == IF remaining = <<>> THEN "SELECTING" ELSE "PEER_LIST"

\* After a removal the selection moves up from a row that is gone.
ClampedSel(remaining) ==
  CASE remaining = <<>>                             -> 0
    [] remaining # <<>> /\ sel >= Len(remaining) -> Len(remaining) - 1
    [] OTHER                                       -> sel

RemoveShownPeer ==
  LET remaining == RemoveAt(peers, sel + 1)
  IN  /\ peers' = remaining
      /\ state' = AfterRemoval(remaining)
      /\ sel' = ClampedSel(remaining)

PressPeer ==
  /\ Pressing("PEER_LIST")
  /\ \/ /\ sel >= Len(peers)                       \* BACK
        /\ state' = "SELECTING" /\ sel' = 0
        /\ UNCHANGED <<peers, ok, pending>>
     \/ /\ sel < Len(peers) /\ IsBusy
        /\ pending' = "REMOVE_PEER" /\ ok' = FALSE /\ state' = "CONFIRM_DISRUPT"
        /\ UNCHANGED <<peers, sel>>
     \/ /\ sel < Len(peers) /\ ~IsBusy
        /\ RemoveShownPeer
        /\ UNCHANGED <<ok, pending>>
  /\ UNCHANGED <<mode, screen, cursor, roleVars, runVars, scan, found>>

AnswerDisrupt ==
  /\ Pressing("CONFIRM_DISRUPT")
  /\ pending' = "NONE" /\ ok' = FALSE
  /\ \/ /\ ~ok
        /\ state' = IF pending = "REMOVE_PEER" THEN "PEER_LIST" ELSE "SELECTING"
        /\ UNCHANGED <<peers, sel>>
     \/ /\ ok /\ pending = "REMOVE_PEER"
        /\ RemoveShownPeer
     \/ /\ ok /\ pending # "REMOVE_PEER"
        /\ state' = "EDITING"
        /\ UNCHANGED <<peers, sel>>
  /\ UNCHANGED <<mode, screen, cursor, roleVars, runVars, scan, found>>

Identity == {"NODE_ID", "ROLE"}
Values   == {"DETECT", "RANGE_MIN", "RANGE_MAX", "FLASH_DELAY",
             "MIN_BULB", "MAX_BULB", "REARM", "END_DELAY"}

\* A press on an identity row asks first while a run is in progress; on a
\* value it edits.
PressValueRow ==
  /\ Pressing("SELECTING") /\ Row \in Identity \cup Values
  /\ \/ /\ Row \in Identity /\ IsBusy
        /\ pending' = "EDIT_ROW" /\ ok' = FALSE /\ state' = "CONFIRM_DISRUPT"
     \/ /\ ~(Row \in Identity /\ IsBusy)
        /\ state' = "EDITING"
        /\ UNCHANGED <<ok, pending>>
  /\ UNCHANGED <<mode, screen, cursor, sel, roleVars, radioVars>>

PressPair ==
  /\ Pressing("SELECTING") /\ Row = "PAIR"
  /\ scan' = "on" /\ found' = <<>>
  /\ state' = "SCANNING" /\ sel' = 0
  /\ UNCHANGED <<mode, screen, cursor, sel, ok, pending, roleVars, runVars, peers>>

PressNodes ==
  /\ Pressing("SELECTING") /\ Row = "NODES" /\ peers # <<>>
  /\ state' = "PEER_LIST" /\ sel' = 0
  /\ UNCHANGED <<mode, screen, cursor, sel, ok, pending, roleVars, radioVars>>

\* Leaving the screen, by BACK or by a long press, saves the edit buffer.
PressBack ==
  /\ Pressing("SELECTING") /\ Row = "BACK"
  /\ screen' = "MAIN" /\ cursor' = 0
  /\ SaveConfig
  /\ UNCHANGED <<mode, state, sel, ok, pending, radioVars>>

\* Mutant: the dialog falls through to the screen switch below it.
BackOutExceptDialog ==
  \/ /\ state \in {"EDITING", "SCANNING", "PEER_LIST"}
     /\ state' = "SELECTING"
     /\ UNCHANGED <<screen, cursor, roleVars>>
  \/ /\ state \in {"SELECTING", "CONFIRM_DISRUPT"}
     /\ screen' = "MAIN" /\ cursor' = 0
     /\ UNCHANGED state
     /\ SaveConfig

\* A long press backs out one level; out of the scan it stops the scan.
BackOut ==
  \/ /\ state \in {"EDITING", "SCANNING", "PEER_LIST", "CONFIRM_DISRUPT"}
     /\ state' = "SELECTING"
     /\ UNCHANGED <<screen, cursor, roleVars>>
  \/ /\ state = "SELECTING"
     /\ screen' = "MAIN" /\ cursor' = 0
     /\ UNCHANGED state
     /\ SaveConfig

LongPress ==
  /\ Reading /\ screen = "CONNECTION"
  /\ BackOut
  /\ scan' = IF state = "SCANNING" /\ scan = "on" THEN "ended" ELSE scan
  /\ found' = IF state = "SCANNING" /\ scan = "off" THEN <<>> ELSE found
  /\ pending' = IF state = "CONFIRM_DISRUPT" THEN "NONE" ELSE pending
  /\ sel' = 0 /\ ok' = FALSE
  /\ UNCHANGED <<mode, runVars, peers>>

-----------------------------------------------------------------------------
(* The radio, while a mode that runs the MULTI BOX lap is open.            *)

Running == mode \in {"multi", "dev"}

\* HELLO_ACK: a box answers the scan.
OnDiscovered(b) ==
  /\ Running /\ scan = "on" /\ ~Contains(found, b) /\ Len(found) < MaxPeers
  /\ found' = Append(found, b)
  /\ UNCHANGED <<mode, runVars, peers, scan, screenVars, roleVars>>

\* tick(): the scan's window closes.
ScanWindowEnds ==
  /\ Running /\ scan = "on"
  /\ scan' = "ended"
  /\ UNCHANGED <<mode, runVars, peers, found, screenVars, roleVars>>

\* autoClaimMainIfScanFinished(): a box without a role becomes MAIN unless one
\* of the boxes that answered is MAIN already.
AutoClaimMain ==
  /\ Running /\ scan = "ended"
  /\ scan' = "off"
  /\ \/ /\ role = "NONE"
        /\ role' = "MAIN" /\ nmRole' = "MAIN" /\ nvsRole' = "MAIN"
     \/ /\ role # "NONE" \/ found # <<>>
        /\ UNCHANGED roleVars
  /\ found' = IF state = "SCANNING" THEN found ELSE <<>>
  /\ UNCHANGED <<mode, runVars, peers, screenVars>>

\* What a packet of a paired box, a deadline or the sensor makes of a run in
\* MULTI BOX.  The coordinator's steps hang on the node manager's role, the
\* sensing boxes' on the edit buffer's.
Paired == mode = "multi" /\ peers # <<>>

\* handleIncoming() on MAIN: START, which only a READY one takes, or DISARM.
CenterHears ==
  /\ Paired /\ nmRole = "MAIN"
  /\ \/ session = "READY" /\ session' = "EXPOSING"
     \/ session' = "READY"
  /\ UNCHANGED <<active, flashing>>

\* nodeOnCenterBroadcast() on every other box: MAIN's START, which locks a
\* START box, or its SHOT_DONE or DISARM.  A flash that is armed stays armed.
NodeHears ==
  /\ Paired /\ nmRole # "MAIN"
  /\ \/ active' = TRUE /\ session' = IF role = "START" THEN "LOCKED" ELSE session
     \/ active' = FALSE /\ session' = "READY"
  /\ UNCHANGED flashing

\* centerCloseBulbIfDue(): an exposure ends, and the rest after it.
CenterDeadlines ==
  /\ mode = "multi" /\ nmRole = "MAIN"
  /\ \/ session = "EXPOSING" /\ session' = "REARM"
     \/ session = "REARM" /\ session' = "READY"
  /\ UNCHANGED <<active, flashing>>

\* applyRoleSensorLogic(): a START box sees a runner between runs, a FLASH box
\* in one; it locks itself, and a FLASH box arms its flash.
SensorHit ==
  /\ mode = "multi" /\ session # "LOCKED"
  /\ \/ role = "START" /\ ~active
     \/ role = "FLASH" /\ active
  /\ session' = "LOCKED"
  /\ flashing' = (flashing \/ role = "FLASH")
  /\ UNCHANGED active

\* update(): the delay of the flash has passed, or a locked box stops waiting.
NodeDeadlines ==
  /\ mode = "multi" /\ role # "NONE"
  /\ \/ flashing /\ flashing' = FALSE /\ UNCHANGED <<session, active>>
     \/ role # "MAIN" /\ session = "LOCKED" /\ RunEnds("READY")

SessionMoves ==
  /\ CenterHears \/ NodeHears \/ CenterDeadlines \/ SensorHit \/ NodeDeadlines
  /\ UNCHANGED <<mode, peers, scan, found, screenVars, roleVars>>

\* refreshPeerRole(): a peer heard under a new role is saved -- and with it
\* the node manager's own role, whatever it is just now.
SaveAll ==
  /\ Running /\ peers # <<>>
  /\ nvsRole' = nmRole
  /\ UNCHANGED <<mode, role, nmRole, screenVars, radioVars>>

\* Power goes, from anywhere: RAM with it, flash and nothing else remains.
PowerCut ==
  /\ mode # "off"
  /\ mode' = "off"
  /\ role' = "NONE" /\ nmRole' = "NONE"
  /\ RunEnds("IDLE")
  /\ screen' = "MAIN" /\ state' = "SELECTING"
  /\ cursor' = 0 /\ sel' = 0
  /\ ok' = FALSE /\ pending' = "NONE"
  /\ scan' = "off" /\ found' = <<>>
  /\ UNCHANGED <<nvsRole, peers>>

PowerOn ==
  /\ mode = "off"
  /\ mode' = "menu"
  /\ UNCHANGED <<screenVars, roleVars, radioVars>>

\* PowerCut is composed by the module that knows what else RAM holds.
ScreenNext ==
  \/ EnterMultiBox
  \/ LongPressOnTop
  \/ AnswerExit
  \/ RotateDialog
  \/ \E d \in {-1, 1} : RotateList(d)
  \/ \E d \in {-1, 1} : RotateRole(d)
  \/ OpenConnection
  \/ PressEditing
  \/ PressScanning
  \/ PressPeer
  \/ AnswerDisrupt
  \/ PressValueRow
  \/ PressPair
  \/ PressNodes
  \/ PressBack
  \/ LongPress
  \/ \E b \in Boxes : OnDiscovered(b)
  \/ ScanWindowEnds
  \/ AutoClaimMain
  \/ SessionMoves
  \/ SaveAll
  \/ PowerOn

-----------------------------------------------------------------------------
(* Properties.                                                             *)

\* The cursor never points past the rows of a role that changed under it --
\* the rows and their number are written down in two places -- and what is
\* being edited is a row that has a value, though a scan that ends meanwhile
\* may put another row there.
CursorOnARow ==
  /\ screen = "CONNECTION" => cursor < Len(RowsOf(role))
  /\ state = "EDITING" => Row \in Identity \cup Values
  /\ state = "CONFIRM_DISRUPT" /\ pending = "EDIT_ROW" => Row \in Identity

\* A list shows rows that exist: the selection is an entry or the BACK row
\* after the last, an open list of peers is not empty, and a removal that
\* waits for an answer has a peer to remove.
SelectionOnARow ==
  /\ state = "PEER_LIST" => peers # <<>> /\ sel <= Len(peers)
  /\ state = "SCANNING" => sel <= Len(found)
  /\ pending = "REMOVE_PEER" => sel < Len(peers)

\* The state machine never runs away from its screen: every list and dialog of
\* CONNECTION is on CONNECTION, the exit dialog on MAIN, and an action waits
\* exactly as long as the dialog that decides on it is open.
DialogsHaveTheirScreen ==
  /\ state \in {"EDITING", "SCANNING", "PEER_LIST", "CONFIRM_DISRUPT"} => screen = "CONNECTION"
  /\ state = "CONFIRM_EXIT" => screen = "MAIN"
  /\ pending # "NONE" <=> state = "CONFIRM_DISRUPT"

=============================================================================
