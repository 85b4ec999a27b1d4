--------------------------- MODULE TriggerScreens ----------------------------
(***************************************************************************)
(* TRIGGER MODE's two screens: the master switches of the shooting         *)
(* channels, and the Bluetooth camera remote.  No row is edited: a press   *)
(* toggles, and every toggle is saved at once.  What the drivers do with a *)
(* camera is module CameraRemote; here a driver has a paired camera in     *)
(* flash or has none, and pairing succeeds or fails.                       *)
(***************************************************************************)
EXTENDS ModeScreen

CONSTANT Brands            \* 4: drivers, in the order the row runs through them

ASSUME TriggerScreensAssumption == Brands \in Nat \ {0}

VARIABLES
  brand,           \* RemoteManager's s_brand, 1 to Brands; 0 is GPIO
  paired,          \* the drivers that have a paired camera in flash
  notice,          \* btStatus: the last action's outcome, or ""
  asked            \* btPairRequested

btVars == <<brand, paired, notice, asked>>

TriggerConfigs == [trigger : BOOLEAN, remote : BOOLEAN, beep : BOOLEAN, bluetooth : BOOLEAN]

TriggerInit == brand = 0 /\ paired = {} /\ notice = "" /\ asked = FALSE

\* loadConfig() has nothing to validate.
EnterTrigger ==
  /\ Enter("trigger", saved)
  /\ notice' = ""
  /\ UNCHANGED <<brand, paired, asked>>

\* Both screens draw all their rows; MAIN's last one, TEST, is a button.
TriggerFrame == FrameOf(0 .. 4, row, page = "MAIN" /\ row = 4)

\* The Bluetooth screen's status line: the connection is not modelled here.
StatusLine ==
  IF brand = 0 THEN "Select driver"
  ELSE IF brand \in paired THEN "Paired" ELSE "Not paired"

\* Input is read behind a pairing that was asked for.
Ready == Open("trigger") /\ ~asked

TriggerSelect ==
  /\ Ready
  /\ Select("trigger", "MAIN", 4) \/ Select("trigger", "BLUETOOTH", 4)
  /\ UNCHANGED btVars

\* MAIN: Trigger, Remote, Beep; its last row fires and changes nothing here.
PressChannel ==
  /\ Ready
  /\ \/ Toggle("trigger", "MAIN", 0, [cfg EXCEPT !.trigger = ~@])
     \/ Toggle("trigger", "MAIN", 1, [cfg EXCEPT !.remote = ~@])
     \/ Toggle("trigger", "MAIN", 2, [cfg EXCEPT !.beep = ~@])
  /\ UNCHANGED btVars

OpenBluetooth ==
  /\ Ready /\ page = "MAIN" /\ row = 3
  /\ Goto("BLUETOOTH", 0)
  /\ notice' = ""
  /\ UNCHANGED <<brand, paired, asked>>

PressEnable ==
  /\ Ready
  /\ Toggle("trigger", "BLUETOOTH", 0, [cfg EXCEPT !.bluetooth = ~@])
  /\ notice' = ""
  /\ UNCHANGED <<brand, paired, asked>>

OnBluetooth(r) == Ready /\ page = "BLUETOOTH" /\ row = r /\ UNCHANGED <<app, open, screenVars, cfg, saved>>

\* Mutant: what happened to the last driver's camera stays on the screen.
NextDriverKeepsNotice ==
  /\ brand' = (brand + 1) % (Brands + 1)
  /\ UNCHANGED notice

\* The next driver, and nothing has happened to its camera yet.
NextDriver ==
  /\ brand' = (brand + 1) % (Brands + 1)
  /\ notice' = ""

PressDriver ==
  /\ OnBluetooth(1)
  /\ NextDriver
  /\ UNCHANGED <<paired, asked>>

\* The scan blocks for ten seconds, so the next lap draws a notice first.
PressPairCamera ==
  /\ OnBluetooth(2) /\ brand # 0
  /\ asked' = TRUE
  /\ UNCHANGED <<brand, paired, notice>>

\* doBtPair(): a driver that fails to pair keeps the camera it had.
DoBtPair ==
  /\ Open("trigger") /\ asked
  /\ asked' = FALSE
  /\ \/ notice' = "Paired!" /\ paired' = paired \cup {brand}
     \/ notice' = "Pair FAILED" /\ UNCHANGED paired
  /\ UNCHANGED <<app, open, screenVars, cfg, saved, brand>>

PressTestShot ==
  /\ OnBluetooth(3) /\ brand # 0
  /\ notice' \in (IF brand \in paired THEN {"Shot OK", "Shot FAILED"} ELSE {"Shot FAILED"})
  /\ UNCHANGED <<brand, paired, asked>>

\* Without a driver there is no camera to forget, and it says it was.
PressForget ==
  /\ OnBluetooth(4)
  /\ paired' = paired \ {brand}
  /\ notice' = "Camera forgotten"
  /\ UNCHANGED <<brand, asked>>

\* A long press goes back from the Bluetooth screen, and out from MAIN; what
\* is in RAM is saved once more on the way out.
HoldTrigger ==
  /\ Ready
  /\ \/ /\ page = "BLUETOOTH"
        /\ Goto("MAIN", 3)
     \/ /\ page = "MAIN"
        /\ Leave("trigger")
        /\ saved' = cfg
  /\ UNCHANGED btVars

TriggerNext ==
  \/ EnterTrigger
  \/ TriggerSelect
  \/ PressChannel
  \/ OpenBluetooth
  \/ PressEnable
  \/ PressDriver
  \/ PressPairCamera
  \/ DoBtPair
  \/ PressTestShot
  \/ PressForget
  \/ HoldTrigger

\* The outcome on the right of the status line is that of the driver on its
\* left: "Paired!" and "Shot OK" stand beside a paired camera, "Camera
\* forgotten" never does.
NoticeMatchesStatus ==
  /\ notice \in {"Paired!", "Shot OK"} => StatusLine = "Paired"
  /\ notice = "Camera forgotten" => StatusLine # "Paired"

=============================================================================
