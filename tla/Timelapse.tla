------------------------------ MODULE Timelapse ------------------------------
(***************************************************************************)
(* The Timelapse mode: a sequence of shots separated by a rest.  A shot is *)
(* a tap of the trigger lines or, in bulb mode, a hold that the loop ends  *)
(* some laps later and that an optional settle pause follows.  The user    *)
(* starts, pauses and stops the sequence and edits it while it runs; after *)
(* a scheduled wake the mode starts it by itself when a countdown ends.    *)
(*                                                                         *)
(* `phase' is the position in a lap of the mode's loop.  A lap handles at  *)
(* most one input that changes state: while a row is being edited a press  *)
(* only ends the edit, and while none is a turn only moves the cursor.     *)
(*                                                                         *)
(* Time is counted in ticks.  It passes between laps, and inside a lap that *)
(* presses the camera over BLE, which blocks; timestamps appear as the time *)
(* elapsed since they were taken.                                           *)
(***************************************************************************)
EXTENDS Integers, FiniteSets

CONSTANTS
  Gpio,            \* the wired trigger lines: {"G1", "G2"}
  MinInterval,     \* smallest editable rest (100 ms in the code)
  IntervalLimit,   \* largest editable rest (1 h)
  ExposureLimit,   \* largest editable exposure (900 s)
  SettleLimit,     \* largest editable settle pause (120 s)
  TotalLimit,      \* largest editable number of shots (10000)
  AutoDelay,       \* countdown after a scheduled wake (5 s)
  MaxLag,          \* longest lap of the loop, in ticks
  PressTime,       \* longest that pressing the camera over BLE blocks
  AgeBound,        \* bound of the model: where the age of a phase saturates
  RestBound        \* bound of the model: where the time since a shot saturates

ASSUME TimelapseAssumption ==
  /\ MinInterval \in Nat
  /\ IntervalLimit \in Nat /\ IntervalLimit >= MinInterval
  /\ ExposureLimit \in Nat \ {0}
  /\ SettleLimit \in Nat
  /\ TotalLimit \in Nat \ {0}
  /\ AutoDelay \in Nat
  /\ MaxLag \in Nat \ {0}
  /\ PressTime \in Nat
  /\ AgeBound \in Nat /\ AgeBound > SettleLimit /\ AgeBound > ExposureLimit + MaxLag
  /\ RestBound \in Nat /\ RestBound >= IntervalLimit

ASSUME LineAssumption == IsFiniteSet(Gpio) /\ "G2" \in Gpio /\ "BLE" \notin Gpio

VARIABLES
  where,           \* the screen that runs: "menu" or "timelapse"
  phase,           \* position in the lap of the mode's loop
  exitReq,         \* _mode_exit_requested
  dying,           \* _battery_shutdown_pending
  autoPending,     \* _scheduler_autostart_pending
  autoLeft,        \* time left until _scheduler_autostart_at
  config,          \* interval, total, bulb, exposure, settle
  enabled,         \* channels switched on in Trigger Mode
  running,         \* isRunning
  paused,          \* isPaused
  exposing,        \* isExposing
  settling,        \* isSettling
  age,             \* time since exposureStartTime or settleStartTime
  rest,            \* time since lastShotTime
  shotCount,       \* shots of this sequence, saturating at TotalLimit
  held,            \* channels whose press was issued and whose release was not
  fired,           \* bulbFiredG1, bulbFiredG2, bulbFiredBLE
  lock,            \* g_triggerLock
  openCap,         \* history: longest exposure in force since the shutter opened
  lineAge,         \* history: time since the lines of the exposure went HIGH
  sinceShot,       \* history: time since the last exposure ended or tap began
  out              \* the shot the last step began: "", "TAP" or "BULB"

loopVars     == <<where, phase, exitReq, dying>>
autoVars     == <<autoPending, autoLeft>>
configVars   == <<config, enabled>>
sequenceVars == <<running, paused, exposing, settling, age, rest, shotCount>>
shutterVars  == <<held, fired, lock>>
historyVars  == <<openCap, lineAge, sinceShot>>
vars == <<loopVars, autoVars, configVars, sequenceVars, shutterVars, historyVars, out>>

Channels == Gpio \cup {"BLE"}

Configs == [interval : MinInterval..IntervalLimit, total : 0..TotalLimit, bulb : BOOLEAN,
            exposure : 1..ExposureLimit, settle : 0..SettleLimit]

AtMost(bound, n)    == IF n > bound THEN bound ELSE n
AtLeast(bound, n)   == IF n < bound THEN bound ELSE n
Clamp(low, high, n) == AtMost(high, AtLeast(low, n))

TypeOK ==
  /\ where \in {"menu", "timelapse"}
  /\ phase \in {"auto", "update", "input", "pause"}
  /\ exitReq \in BOOLEAN /\ dying \in BOOLEAN
  /\ autoPending \in BOOLEAN /\ autoLeft \in 0..AutoDelay
  /\ config \in Configs
  /\ enabled \in SUBSET Channels
  /\ running \in BOOLEAN /\ paused \in BOOLEAN
  /\ exposing \in BOOLEAN /\ settling \in BOOLEAN
  /\ age \in 0..AgeBound /\ rest \in 0..RestBound
  /\ shotCount \in 0..TotalLimit
  /\ held \in SUBSET Channels /\ fired \in SUBSET Channels /\ lock \in BOOLEAN
  /\ openCap \in 0..ExposureLimit /\ lineAge \in 0..(AgeBound + PressTime)
  /\ sinceShot \in 0..RestBound
  /\ out \in {"", "TAP", "BULB"}

Init ==
  /\ where = "menu" /\ phase = "auto"
  /\ exitReq = FALSE /\ dying = FALSE
  /\ autoPending \in BOOLEAN /\ autoLeft = AutoDelay
  /\ config \in Configs
  /\ enabled \in SUBSET Channels
  /\ running = FALSE /\ paused = FALSE /\ exposing = FALSE /\ settling = FALSE
  /\ age = 0 /\ rest = 0 /\ shotCount = 0
  /\ held = {} /\ fired = {} /\ lock = FALSE
  /\ openCap = 0 /\ lineAge = 0 /\ sinceShot = RestBound
  /\ out = ""

-----------------------------------------------------------------------------
(* The shutter.                                                            *)

\* The wired lines a shot uses: those switched on, G2 if no channel is.
Lines == IF enabled = {} THEN {"G2"} ELSE enabled \cap Gpio

\* Pressing BLE may fail; the wired lines never do.
Press ==
  \E ble \in SUBSET (enabled \cap {"BLE"}) :
    /\ held' = held \cup Lines \cup ble
    /\ fired' = Lines \cup ble

\* Mutation of Release: the lock is kept.
ReleaseKeepsLock ==
  /\ held' = held \ fired
  /\ fired' = fired \ {"BLE"}
  /\ UNCHANGED lock

\* What was pressed is released, and the lock with it; only the BLE flag is
\* cleared.
Release ==
  /\ held' = held \ fired
  /\ fired' = fired \ {"BLE"}
  /\ lock' = FALSE

\* How long the press of a shot may block: only BLE does.
PressTimes == IF "BLE" \in enabled THEN 0..PressTime ELSE {0}

ShotEnded == age' = 0 /\ openCap' = 0 /\ lineAge' = 0 /\ sinceShot' = 0

\* forceReleaseBulbIfExposing(): cut short, and not counted.
ForceReleaseBulbIfExposing ==
  /\ exposing' = FALSE
  /\ IF exposing THEN Release /\ ShotEnded
                 ELSE age' = 0 /\ UNCHANGED <<shutterVars, historyVars>>

-----------------------------------------------------------------------------
(* Control of the sequence.                                                *)

StartRun ==
  /\ running' = TRUE /\ paused' = FALSE
  /\ exposing' = FALSE /\ settling' = FALSE /\ age' = 0
  /\ rest' = 0
  /\ shotCount' = 0
  /\ openCap' = 0 /\ lineAge' = 0
  /\ UNCHANGED <<shutterVars, sinceShot>>

StopRun ==
  /\ ForceReleaseBulbIfExposing
  /\ running' = FALSE /\ paused' = FALSE /\ settling' = FALSE
  /\ UNCHANGED <<rest, shotCount>>

\* Mutation of PauseRun: the shutter is left as it is.
PauseUnreleased ==
  /\ running' = FALSE /\ paused' = TRUE /\ settling' = FALSE
  /\ UNCHANGED <<exposing, age, rest, shotCount, shutterVars, historyVars>>

PauseRun ==
  /\ ForceReleaseBulbIfExposing
  /\ running' = FALSE /\ paused' = TRUE /\ settling' = FALSE
  /\ UNCHANGED <<rest, shotCount>>

\* Mutation of ResumeRun: the rest goes on from where it was.
ResumeAtOnce ==
  /\ running' = TRUE /\ paused' = FALSE
  /\ UNCHANGED <<exposing, settling, age, rest, shotCount, shutterVars, historyVars>>

ResumeRun ==
  /\ running' = TRUE /\ paused' = FALSE
  /\ rest' = 0
  /\ UNCHANGED <<exposing, settling, age, shotCount, shutterVars, historyVars>>

\* START / PAUSE / RESUME, one button.
ToggleRunPause ==
  \/ running /\ PauseRun
  \/ ~running /\ paused /\ ResumeRun
  \/ ~running /\ ~paused /\ StartRun

-----------------------------------------------------------------------------
(* A lap of the mode's loop.                                               *)

InLap(p) == where = "timelapse" /\ phase = p

Advance(from, to) ==
  /\ InLap(from)
  /\ phase' = to
  /\ UNCHANGED <<where, dying>>

\* The countdown of a scheduled wake is over: start(), whatever runs.
Autostart ==
  /\ Advance("auto", "update")
  /\ autoPending /\ autoLeft = 0
  /\ autoPending' = FALSE
  /\ StartRun
  /\ out' = ""
  /\ UNCHANGED <<exitReq, autoLeft, configVars>>

NoAutostart ==
  /\ Advance("auto", "update")
  /\ ~autoPending \/ autoLeft > 0
  /\ out' = ""
  /\ UNCHANGED <<exitReq, autoVars, configVars, sequenceVars, shutterVars, historyVars>>

\* Mutation of ExposureDone: off by one.
ExposurePassed == age > config.exposure

ExposureDone == age >= config.exposure

Counted == AtMost(TotalLimit, shotCount + 1)

\* Mutation of EndBulbExposure: the shot is not counted.
EndUncounted ==
  /\ exposing /\ ExposureDone
  /\ Release /\ ShotEnded
  /\ exposing' = FALSE
  /\ settling' = (config.settle > 0)
  /\ rest' = IF config.settle > 0 THEN rest ELSE 0
  /\ out' = ""
  /\ UNCHANGED <<running, paused, shotCount>>

\* endBulbExposure(): the settle pause comes before the rest starts counting.
EndBulbExposure ==
  /\ exposing /\ ExposureDone
  /\ Release /\ ShotEnded
  /\ exposing' = FALSE
  /\ shotCount' = Counted
  /\ settling' = (config.settle > 0)
  /\ rest' = IF config.settle > 0 THEN rest ELSE 0
  /\ out' = ""
  /\ UNCHANGED <<running, paused>>

EndSettle ==
  /\ ~exposing /\ settling
  /\ age >= config.settle
  /\ settling' = FALSE /\ age' = 0
  /\ rest' = 0
  /\ out' = ""
  /\ UNCHANGED <<running, paused, exposing, shotCount, shutterVars, historyVars>>

Rested   == ~exposing /\ ~settling /\ rest >= config.interval
Complete == config.total # 0 /\ shotCount >= config.total

FinishSequence ==
  /\ Rested /\ Complete
  /\ running' = FALSE /\ paused' = FALSE
  /\ out' = ""
  /\ UNCHANGED <<exposing, settling, age, rest, shotCount, shutterVars, historyVars>>

\* startBulbExposure(): without the lock it is tried again in the next lap.  The
\* lines go HIGH, then the press over BLE blocks for `d' ticks, and only then
\* does the timer of the exposure start.
StartBulbExposure(d) ==
  /\ Rested /\ ~Complete /\ config.bulb
  /\ IF lock
       THEN out' = "" /\ UNCHANGED <<exposing, age, openCap, lineAge, autoLeft, shutterVars>>
       ELSE /\ Press
            /\ lock' = TRUE
            /\ exposing' = TRUE /\ age' = 0
            /\ openCap' = config.exposure /\ lineAge' = d
            /\ autoLeft' = AtLeast(0, autoLeft - d)
            /\ out' = "BULB"
  /\ UNCHANGED <<running, paused, settling, rest, shotCount, sinceShot>>

\* triggerCamera(): a tap, counted also when the lock was taken.  lastShotTime is
\* the time the lap began, before the press that blocks for `d' ticks.
TriggerCamera(d) ==
  /\ Rested /\ ~Complete /\ ~config.bulb
  /\ IF lock
       THEN out' = "" /\ rest' = 0 /\ UNCHANGED <<sinceShot, autoLeft>>
       ELSE /\ out' = "TAP"
            /\ rest' = AtMost(RestBound, d) /\ sinceShot' = AtMost(RestBound, d)
            /\ autoLeft' = AtLeast(0, autoLeft - d)
  /\ shotCount' = Counted
  /\ UNCHANGED <<running, paused, exposing, settling, age, shutterVars, openCap, lineAge>>

NothingDue ==
  /\ \/ ~running
     \/ exposing /\ ~ExposureDone
     \/ ~exposing /\ settling /\ age < config.settle
     \/ ~exposing /\ ~settling /\ rest < config.interval
  /\ out' = ""
  /\ UNCHANGED <<sequenceVars, shutterVars, historyVars>>

Update ==
  /\ Advance("update", "input")
  /\ \/ running /\ \E d \in PressTimes : StartBulbExposure(d) \/ TriggerCamera(d)
     \/ /\ \/ running /\ (EndBulbExposure \/ EndSettle \/ FinishSequence)
           \/ NothingDue
        /\ UNCHANGED autoLeft
  /\ UNCHANGED <<exitReq, autoPending, configVars>>

\* _battery_guard_tick(): a flat pack asks the mode to exit.
BatteryCritical ==
  /\ InLap("input")
  /\ ~dying
  /\ dying' = TRUE /\ exitReq' = TRUE
  /\ out' = ""
  /\ UNCHANGED <<where, phase, autoVars, configVars, sequenceVars, shutterVars, historyVars>>

-----------------------------------------------------------------------------
(* The user.                                                               *)

NoInput ==
  /\ Advance("input", "pause")
  /\ out' = ""
  /\ UNCHANGED <<exitReq, autoVars, configVars, sequenceVars, shutterVars, historyVars>>

PressControl ==
  /\ Advance("input", "pause")
  /\ ToggleRunPause
  /\ out' = ""
  /\ UNCHANGED <<exitReq, autoVars, configVars>>

\* Mutation of TurnInterval: no clamp.
TurnUnclamped(d) == [config EXCEPT !.interval = @ + d]

TurnInterval(d) == [config EXCEPT !.interval = Clamp(MinInterval, IntervalLimit, @ + d)]
TurnTotal(d)    == [config EXCEPT !.total = Clamp(0, TotalLimit, @ + d)]
TurnExposure(d) == [config EXCEPT !.exposure = Clamp(1, ExposureLimit, @ + d)]
TurnSettle(d)   == [config EXCEPT !.settle = Clamp(0, SettleLimit, @ + d)]

\* The video calculator solves for a number of shots and a rest between them.
Calculated ==
  UNION {{[config EXCEPT !.total = t, !.interval = i] : i \in MinInterval..IntervalLimit} :
            t \in 1..TotalLimit}

Edited ==
  Calculated \cup
    UNION {{TurnInterval(d), TurnTotal(d), TurnExposure(d), TurnSettle(d)} : d \in {-1, 1}}

\* Any row is editable at any time, a running exposure included.
EditConfig ==
  /\ config' \in Edited \cup {[config EXCEPT !.bulb = ~@]}
  /\ openCap' = IF exposing THEN AtLeast(config'.exposure, openCap) ELSE openCap

EditRow ==
  /\ Advance("input", "pause")
  /\ EditConfig
  /\ out' = ""
  /\ UNCHANGED <<exitReq, autoVars, enabled, sequenceVars, shutterVars, lineAge, sinceShot>>

\* A long press on the main screen: stop() and out, the last edit saved.
LongPress ==
  /\ Advance("input", "pause")
  /\ exitReq' = TRUE
  /\ config' \in Edited \cup {config}
  /\ StopRun
  /\ out' = ""
  /\ UNCHANGED <<autoVars, enabled>>

\* The loop goes round again, `d' ticks later.
Pause(d) ==
  /\ Advance("pause", "auto")
  /\ ~exitReq
  /\ age' = IF exposing \/ settling THEN AtMost(AgeBound, age + d) ELSE age
  /\ rest' = AtMost(RestBound, rest + d)
  /\ lineAge' = IF exposing THEN AtMost(AgeBound + PressTime, lineAge + d) ELSE lineAge
  /\ sinceShot' = IF exposing THEN sinceShot ELSE AtMost(RestBound, sinceShot + d)
  /\ autoLeft' = AtLeast(0, autoLeft - d)
  /\ out' = ""
  /\ UNCHANGED <<exitReq, autoPending, configVars>>
  /\ UNCHANGED <<running, paused, exposing, settling, shotCount, shutterVars, openCap>>

\* Mutation of LeaveLoop: the mode is left without stop().
LeaveUnstopped ==
  /\ InLap("pause") /\ exitReq
  /\ where' = "menu"
  /\ autoPending' = FALSE
  /\ out' = ""
  /\ UNCHANGED <<phase, exitReq, dying, autoLeft, configVars, sequenceVars, shutterVars, historyVars>>

\* ... or the mode is left: the countdown is cancelled and the run stopped.
LeaveLoop ==
  /\ InLap("pause") /\ exitReq
  /\ where' = "menu"
  /\ autoPending' = FALSE
  /\ StopRun
  /\ out' = ""
  /\ UNCHANGED <<phase, exitReq, dying, autoLeft, configVars>>

\* init(): idle, with the configuration and the channels flash holds; the
\* wired lines are driven LOW.
EnterMode ==
  /\ where = "menu" /\ ~dying
  /\ where' = "timelapse" /\ phase' = "auto"
  /\ exitReq' = FALSE
  /\ config' \in Configs
  /\ enabled' \in SUBSET Channels
  /\ running' = FALSE /\ paused' = FALSE /\ exposing' = FALSE /\ settling' = FALSE
  /\ age' = 0 /\ rest' = 0 /\ shotCount' = 0
  /\ held' = held \ Gpio
  /\ openCap' = 0 /\ lineAge' = 0
  /\ out' = ""
  /\ UNCHANGED <<dying, autoVars, fired, lock, sinceShot>>

\* Power is cut, possibly under the loop, and comes back, on the user's button
\* or on the schedule.
PowerCycle ==
  /\ where' = "menu" /\ phase' = "auto"
  /\ exitReq' = FALSE /\ dying' = FALSE
  /\ autoPending' \in BOOLEAN /\ autoLeft' = AutoDelay
  /\ running' = FALSE /\ paused' = FALSE /\ exposing' = FALSE /\ settling' = FALSE
  /\ age' = 0 /\ rest' = 0 /\ shotCount' = 0
  /\ held' = {} /\ fired' = {} /\ lock' = FALSE
  /\ openCap' = 0 /\ lineAge' = 0 /\ sinceShot' = RestBound
  /\ out' = ""
  /\ UNCHANGED configVars

Lap ==
  \/ Autostart \/ NoAutostart
  \/ Update
  \/ NoInput \/ PressControl \/ EditRow \/ LongPress
  \/ \E d \in 1..MaxLag : Pause(d)
  \/ LeaveLoop

Next == Lap \/ BatteryCritical \/ EnterMode \/ PowerCycle

\* The loop never stops turning while the mode runs; the user is not fair.
Spec == Init /\ [][Next]_vars
FairSpec == Spec /\ WF_vars(Lap)

-----------------------------------------------------------------------------
(* The status panel and the button beside it.                              *)

\* Mutation of StatusString: the flags are asked in another order.
StatusRunningFirst ==
  CASE running                        -> IF config.bulb THEN "REST" ELSE "RUNNING"
    [] ~running /\ exposing           -> "BULB"
    [] ~running /\ ~exposing /\ settling -> "SETTLE"
    [] OTHER                          -> "IDLE"

\* getStatusString()
StatusString ==
  LET waiting == ~exposing /\ ~settling
  IN  CASE exposing                          -> "BULB"
        [] ~exposing /\ settling             -> "SETTLE"
        [] waiting /\ running                -> IF config.bulb THEN "REST" ELSE "RUNNING"
        [] waiting /\ ~running /\ paused     -> "PAUSED"
        [] waiting /\ ~running /\ ~paused    -> IF Complete /\ shotCount > 0 THEN "DONE" ELSE "IDLE"

\* getControlLabel(): what a press of the button will do.
ControlLabel ==
  CASE running             -> "PAUSE"
    [] ~running /\ paused  -> "RESUME"
    [] ~running /\ ~paused -> "START"

\* The countdown of the panel: to the end of the exposure or of the settle
\* pause, or to the next shot.
Countdown ==
  CASE exposing                       -> AtLeast(0, config.exposure - age)
    [] ~exposing /\ settling          -> AtLeast(0, config.settle - age)
    [] ~exposing /\ ~settling /\ running -> AtLeast(0, config.interval - rest)
    [] OTHER                          -> 0

-----------------------------------------------------------------------------
(* Properties.                                                             *)

Hold == INSTANCE ShutterHold WITH open <- exposing, lines <- held, locked <- lock

\* A bulb exposure takes the lock and presses once, and whatever ends it, the
\* timer, a pause, a stop or the way out, releases all of it.  Holds as long
\* as no interval is shorter than the countdown of a scheduled wake.
HoldContract == Hold!Spec

\* lastShotTime: a whole interval lies between the end of an exposure, or the
\* beginning of a tap, and the next shot, through settle pauses, edits, PAUSE,
\* RESUME and a restart of the sequence.  (A tap that blocks over BLE for longer
\* than the interval leaves no rest after it: lastShotTime is from before it.)
RestHonoured == [][out' # "" => sinceShot >= config.interval]_vars

\* No exposure holds its lines longer than the longest exposure time in force
\* since it opened, a lap, and the press over BLE that its timer does not see.
ExposureCap == exposing => lineAge < openCap + MaxLag + PressTime

\* "never left open indefinitely just because the user pressed STOP/PAUSE (or
\* exited the mode)": back in the launcher nothing is pressed and the lock is
\* free, a flat battery's exit included.
ShutterReleased == where = "menu" => held = {} /\ ~lock

\* The panel is what the user goes by in the dark: whenever a channel is
\* pressed it says BULB and the button closes the shutter, PAUSE; nothing
\* opens or taps while it still counts down, and BULB goes before its countdown
\* is over only by the user's hand, a restart or the power.
StatusIsTrue ==
  /\ [](held # {} => StatusString = "BULB" /\ ControlLabel = "PAUSE")
  /\ [][out' # "" => Countdown = 0]_vars
  /\ [][StatusString = "BULB" /\ StatusString' \in {"SETTLE", "REST", "RUNNING"} => Countdown = 0]_vars

\* An open shutter closes by itself.
ExposureEnds == exposing ~> ~exposing

\* A sequence of finitely many shots does not run forever: it finishes, or is
\* paused or stopped.
FiniteSequenceEnds == []<>(~running \/ config.total = 0)

SequenceMovesOn == ExposureEnds /\ FiniteSequenceEnds

=============================================================================
