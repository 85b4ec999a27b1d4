------------------------------ MODULE ModeInput ------------------------------
(***************************************************************************)
(* The encoder, the button and the display's power save, as the launcher   *)
(* and the modes read them.                                                *)
(*                                                                         *)
(* The screen goes dark after a time without input, and the input that     *)
(* lights it again is meant for that alone.  The launcher and the modes    *)
(* share the power save and read the encoder and the button each in a way  *)
(* of its own.  A lap reads the level of the button: a press is what two   *)
(* laps make of it.                                                        *)
(***************************************************************************)
EXTENDS Integers

CONSTANTS
  DimAfter,        \* dimmerSec, in ticks; the screen is off OffAfter later
  OffAfter,
  LongPress        \* longPressMs, in ticks

VARIABLES
  place,           \* "menu" or "mode"
  down,            \* the button's level
  held,            \* time since the press, up to LongPress
  turned,          \* the encoder moved since the open loop last read it
  fresh,           \* the encoder moved since the power save last looked
  latch,           \* _mode_btn_pressed; in the launcher "press" or "wait"
  idle,            \* time since s_lastActivity
  dark,            \* "no", "dim" (s_dimmed) or "off" (s_screenOff)
  did,             \* what the last lap took the input for
  woke,            \* history: the press or turn not yet read lit the screen
  litBy             \* history: of these, what was down or turned when it did

inputVars == <<place, down, held, turned, fresh, latch, idle, dark, did, woke, litBy>>
userVars == <<down, held>>

Top == DimAfter + OffAfter

InputInit ==
  /\ place = "menu" /\ latch = "wait"              \* locked until released once
  /\ down \in BOOLEAN /\ held = 0
  /\ turned = FALSE /\ fresh = FALSE
  /\ idle = 0 /\ dark = "no"
  /\ did = {} /\ woke = {} /\ litBy = {}

-----------------------------------------------------------------------------
(* The user and time.                                                      *)

Press ==
  /\ ~down
  /\ down' = TRUE /\ held' = 0
  /\ woke' = woke \ {"button"}
  /\ did' = {}
  /\ UNCHANGED <<place, turned, fresh, latch, idle, dark, litBy>>

Release ==
  /\ down
  /\ down' = FALSE
  /\ did' = {}
  /\ UNCHANGED <<place, held, turned, fresh, latch, idle, dark, woke, litBy>>

Turn ==
  /\ ~turned
  /\ turned' = TRUE /\ fresh' = TRUE
  /\ woke' = woke \ {"encoder"}
  /\ did' = {}
  /\ UNCHANGED <<place, userVars, latch, idle, dark, litBy>>

TimePasses ==
  /\ idle' = IF idle < Top THEN idle + 1 ELSE idle
  /\ held' = IF down /\ held < LongPress THEN held + 1 ELSE held
  /\ <<idle, held>>' # <<idle, held>>
  /\ did' = {}
  /\ UNCHANGED <<place, down, turned, fresh, latch, dark, woke, litBy>>

-----------------------------------------------------------------------------
(* Power save.                                                             *)

\* tick(): one stage a lap.
Dimmed ==
  CASE dark = "no" /\ idle >= DimAfter  -> "dim"
    [] dark = "dim" /\ idle >= Top      -> "off"
    [] OTHER                            -> dark

\* Moved: this loop's own notion of a moved encoder.
Waking(moved) == (moved \/ down) /\ Dimmed # "no"

\* Any input restarts the clock, a waking one lights the screen.
PowerSave(moved) ==
  /\ dark' = IF moved \/ down THEN "no" ELSE Dimmed
  /\ idle' = IF moved \/ down THEN 0 ELSE idle

\* keepAwake(), through a scheduler popup, an armed START or an exposure.
KeepAwake == dark' = "no" /\ idle' = 0

Lit(moved) ==
  woke' = woke \cup (IF down THEN {"button"} ELSE {}) \cup (IF moved THEN {"encoder"} ELSE {})

-----------------------------------------------------------------------------
(* The launcher: onReadInput().                                            *)

\* The waking turn is taken as read, and the waking press waits for its
\* release.
MenuWakes ==
  /\ place = "menu" /\ Waking(turned)
  /\ PowerSave(turned) /\ Lit(turned)
  /\ turned' = FALSE
  /\ latch' = IF down THEN "wait" ELSE latch
  /\ did' = {}
  /\ UNCHANGED <<place, userVars, fresh, litBy>>

\* A card is clicked when a press that was not swallowed is released, and
\* opens with the screen lit (exitPowerSave()).
MenuReads ==
  /\ place = "menu"
  /\ \/ ~Waking(turned) /\ ~(latch = "press" /\ ~down) /\ PowerSave(turned)
     \/ KeepAwake
  /\ turned' = FALSE
  /\ latch' = CASE down /\ latch = "no" -> "press"
                [] ~down                -> "no"
                [] OTHER                -> latch
  /\ did' = (IF turned THEN {"turn"} ELSE {})
            \cup (IF latch = "press" /\ ~down THEN {"click"} ELSE {})
  /\ place' = IF "click" \in did' THEN "mode" ELSE "menu"
  /\ litBy' = woke
  /\ woke' = woke \ ({"encoder"} \cup (IF ~down THEN {"button"} ELSE {}))
  /\ UNCHANGED <<userVars, fresh>>

-----------------------------------------------------------------------------
(* A mode: _display_power_save_tick() and its own input handler.           *)

\* Only this lap's input handler is skipped.
ModeWakes ==
  /\ place = "mode" /\ Waking(fresh)
  /\ PowerSave(fresh) /\ Lit(fresh)
  /\ fresh' = FALSE
  /\ did' = {}
  /\ UNCHANGED <<place, userVars, turned, latch, litBy>>

\* _read_encoder_delta(), then _read_mode_button_event(): a press is noted,
\* and counts when it is released.
ModeReads ==
  /\ place = "mode"
  /\ \/ ~Waking(fresh) /\ PowerSave(fresh)
     \/ KeepAwake
  /\ turned' = FALSE /\ fresh' = FALSE
  /\ latch' = IF down THEN "press" ELSE "no"
  /\ did' = (IF turned THEN {"turn"} ELSE {})
            \cup (IF down \/ latch # "press" THEN {}
                  ELSE IF held >= LongPress THEN {"leave"} ELSE {"command"})
  /\ place' = IF "leave" \in did' THEN "menu" ELSE "mode"
  /\ litBy' = woke
  /\ woke' = woke \ ({"encoder"} \cup (IF ~down THEN {"button"} ELSE {}))
  /\ UNCHANGED userVars

InputNext ==
  \/ Press
  \/ Release
  \/ Turn
  \/ TimePasses
  \/ MenuWakes
  \/ MenuReads
  \/ ModeWakes
  \/ ModeReads

InputSpec == InputInit /\ [][InputNext]_inputVars

-----------------------------------------------------------------------------
(* Properties.                                                             *)

\* What lights the launcher's screen does nothing else: the press that woke it
\* is not a click when it is released, however many laps later, and the turn
\* that woke it moves nothing.  In a mode only one lap is skipped, and the tap
\* that lit the screen is a command when it is released.
MenuSwallowsTheWake ==
  [][place = "menu" => /\ "click" \in did' => "button" \notin litBy'
                       /\ "turn" \in did' => "encoder" \notin litBy']_inputVars

=============================================================================
