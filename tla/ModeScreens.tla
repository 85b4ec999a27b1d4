----------------------------- MODULE ModeScreens -----------------------------
(***************************************************************************)
(* The screens of the seven modes that are screens and settings: what a    *)
(* user sees, turns and presses, what is saved when, and how much of it    *)
(* power may take away at any moment.  A behaviour is the life of one of   *)
(* them, opened and left again and again.                                  *)
(***************************************************************************)
EXTENDS TimelapseScreens, AutoShootScreens, TriggerScreens, SettingScreens,
        OtaScreens, SleepWeekScreens, DevelopScreens

CONSTANT Stored            \* for every mode, the configurations flash may hold

\* Flash holds what the mode once saved, or its defaults.
ASSUME StoredAssumption ==
  /\ Stored["timelapse"] \subseteq TimelapseConfigs
  /\ Stored["auto_shoot"] \subseteq AutoShootConfigs
  /\ Stored["trigger"] \subseteq TriggerConfigs
  /\ Stored["settings"] \subseteq SettingConfigs
  /\ Stored["sleep_week"] \subseteq SleepWeekConfigs
  /\ Stored["develop"] \subseteq DevelopConfigs

Apps == {"timelapse", "auto_shoot", "trigger", "settings", "ota", "sleep_week", "develop"}

vars == <<app, open, screenVars, cfg, saved, btVars, clockVars, otaVars, field>>

Init ==
  /\ app \in Apps
  /\ saved \in Stored[app]
  /\ ScreenInit
  /\ TriggerInit /\ SettingInit /\ OtaInit /\ field = "hour"

\* A flat battery asks the mode to leave, from any page and in any edit, and the
\* launcher turns the power off: what is not in flash is gone.  Three modes
\* save on the way out; OTA UPDATE has no battery guard.
FlatBattery ==
  /\ open /\ app # "ota"
  /\ open' = FALSE
  /\ page' = "MAIN" /\ row' = 0 /\ editing' = FALSE
  /\ saved' = IF app \in {"trigger", "sleep_week", "develop"} THEN cfg ELSE saved
  /\ cfg' = saved'
  /\ notice' = "" /\ asked' = FALSE
  /\ UNCHANGED <<app, brand, paired>>

Next ==
  \/ TimelapseNext /\ UNCHANGED <<btVars, clockVars, otaVars, field>>
  \/ AutoShootNext /\ UNCHANGED <<btVars, clockVars, otaVars, field>>
  \/ TriggerNext   /\ UNCHANGED <<clockVars, otaVars, field>>
  \/ SettingNext   /\ UNCHANGED <<btVars, otaVars, field>>
  \/ OtaNext       /\ UNCHANGED <<btVars, clockVars, field>>
  \/ SleepWeekNext /\ UNCHANGED <<btVars, clockVars, otaVars>>
  \/ DevelopNext   /\ UNCHANGED <<btVars, clockVars, otaVars>> /\ UNCHANGED field
  \/ FlatBattery   /\ UNCHANGED <<clockVars, otaVars, field>>

Spec == Init /\ [][Next]_vars

-----------------------------------------------------------------------------

\* What the open mode draws, and where its cursor is.
Frame ==
  CASE app = "timelapse"  -> TimelapseFrame
    [] app = "auto_shoot" -> AutoShootFrame
    [] app = "trigger"    -> TriggerFrame
    [] app = "settings"   -> SettingFrame
    [] app = "ota"        -> OtaFrame
    [] app = "sleep_week" -> SleepWeekFrame
    [] app = "develop"    -> DevelopFrame

Cursor ==
  IF app = "ota" THEN OtaCursor
  ELSE IF page = "INFO" THEN {} ELSE {row}

\* Where the cursor may stand on a button, a key or a day: they are filled in an
\* accent colour when they are selected, as a row is when it is edited.
Buttons ==
  CASE app = "timelapse" /\ page = "MAIN"  -> {4}
    [] app = "auto_shoot" /\ page = "MAIN" -> {3, 4}
    [] app = "trigger" /\ page = "MAIN"    -> {4}
    [] app = "ota" /\ page = "WIFI_LIST"   -> {Len(wifi)}
    [] app = "ota" /\ page = "PASSWORD"    -> 0 .. 3 + Letters
    [] app = "sleep_week"                  -> 0 .. Days - 1
    [] app = "develop" /\ page = "MAIN"    -> {0, 1}
    [] OTHER                               -> {}

\* Timelapse and Auto Shoot can leave an edit running on a row without a value.
StrayEdit ==
  \/ app = "timelapse" /\ StrayTimelapseEdit
  \/ app = "auto_shoot" /\ StrayAutoShootEdit

\* The row that turning and pressing act on is on the screen, whatever the list,
\* its length and the window it is drawn in, and it is filled (stray edits aside).
\* Nothing but a value is ever edited, and what is not a button has the accent
\* exactly while it is edited: the colour tells whether turning the wheel moves
\* the cursor or changes the value.
RowInHandIsLit ==
  open => \A i \in Cursor :
            /\ i \in DOMAIN Frame
            /\ ~StrayEdit =>
                 /\ Frame[i] # "plain"
                 /\ (editing => i \notin Buttons)
                 /\ (i \notin Buttons => (Frame[i] = "accent" <=> editing))

\* Power may go at any moment: outside an edit flash holds what is in force,
\* what is in force after entering is what flash holds, and a mode that is left
\* with no edit running loses nothing.  SETTINGS keeps its display rows in RAM
\* until a long press leaves it, which saves them in the middle of an edit too;
\* a flat battery takes them.
NothingIsLost ==
  [][ /\ open' /\ ~editing' /\ app # "settings" => saved' = cfg'
      /\ ~open /\ open' => cfg' = saved
      /\ open /\ ~open' /\ (IF app = "settings" THEN rtc' # NotWritten ELSE ~editing)
           => saved' = cfg ]_vars

\* Turning one field of the video calculator keeps the one its comment says is
\* held, never makes the shoot longer than the screen said, and makes an infinite
\* sequence finite.
HeldFieldStays ==
  [][ app = "timelapse" /\ open /\ open' /\ page = "MAIN" /\ cfg' # cfg
        => CalculatorKeeps(cfg, cfg', row) ]_vars

\* Two fields that are turned or drawn one at a time agree whenever they are
\* read: the clock is given days that exist, the ends of a range stand the right
\* way round, no exposure must last longer than it may, and the notice of the
\* Bluetooth screen is about the driver beside it.
FieldsAgree ==
  /\ DateIsValid
  /\ NoticeMatchesStatus
  /\ app = "auto_shoot" => cfg.min <= cfg.max
  /\ app = "develop" => cfg.near < cfg.far /\ cfg.minBulb <= cfg.maxBulb

\* The firmware that is flashed is the one that was confirmed, and a password
\* that locks its network out is never kept.
UpdateIsAgreed == FlashedIsConfirmed /\ SavedPasswordsConnected

=============================================================================
