------------------------------ MODULE AutoShoot ------------------------------
(***************************************************************************)
(* The Auto Shoot mode: the LiDAR is polled in every lap, and while the    *)
(* mode runs an object in the zone is photographed in a burst when it      *)
(* enters and whenever it has moved far enough since the last burst, a     *)
(* cool-down apart.  After a scheduled wake the mode starts by itself when *)
(* a countdown ends.                                                       *)
(*                                                                         *)
(* A burst blocks the lap it is fired in.  Which row or submenu the cursor *)
(* is on is left open: any row may be turned, any button pressed.          *)
(* Distances are counted in units of the rows; 0 is no return.             *)
(***************************************************************************)
EXTENDS Integers

CONSTANTS
  Far,             \* the sensor's range (8 m in the code)
  BurstLimit,      \* most shots of a burst (10)
  CooldownLimit,   \* longest cool-down (5 s)
  CooldownMod,     \* values of the cool-down's unsigned type (2^16)
  RetriggerMin,    \* smallest move that counts (2 cm)
  RetriggerLimit,  \* largest move that can be asked for (100 cm)
  AutoDelay,       \* countdown after a scheduled wake (5 s)
  MaxLag           \* longest lap of the loop, in ticks

ASSUME AutoShootAssumption ==
  /\ Far \in Nat \ {0}
  /\ BurstLimit \in Nat \ {0}
  /\ CooldownLimit \in Nat
  /\ CooldownMod \in Nat /\ CooldownMod > CooldownLimit + 1
  /\ RetriggerMin \in Nat \ {0}
  /\ RetriggerLimit \in Nat /\ RetriggerLimit >= RetriggerMin
  /\ AutoDelay \in Nat
  /\ MaxLag \in Nat \ {0}

VARIABLES
  where,           \* the screen that runs: "menu" or "auto_shoot"
  phase,           \* position in the lap of the mode's loop
  exitReq,         \* _mode_exit_requested
  dying,           \* _battery_shutdown_pending
  autoPending,     \* _scheduler_autostart_pending
  autoLeft,        \* time left until _scheduler_autostart_at
  uptime,          \* millis(), saturating at CooldownLimit
  config,          \* filter, rangeMin, rangeMax, burst, cooldown, retrigger
  running,         \* isRunning
  wasInRange,      \* an object was in the zone in the lap before
  since,           \* time since lastTrigger, saturating at CooldownLimit
  distance,        \* the distance the driver holds
  valid,           \* the driver's last read succeeded
  lastDistance,    \* lastTriggerDistance
  left,            \* history: since the last burst the zone was seen empty
  out              \* what the last step fired: "" or "BURST"

loopVars   == <<where, phase, exitReq, dying>>
autoVars   == <<autoPending, autoLeft>>
sensorVars == <<distance, valid>>
shotVars   == <<running, wasInRange, since, lastDistance, left>>
vars == <<loopVars, autoVars, uptime, config, sensorVars, shotVars, out>>

Configs ==
  {c \in [filter : BOOLEAN, rangeMin : 1..Far, rangeMax : 1..Far, burst : 1..BurstLimit,
          cooldown : 0..CooldownLimit, retrigger : RetriggerMin..RetriggerLimit] :
     c.rangeMin <= c.rangeMax}

AtMost(bound, n)    == IF n > bound THEN bound ELSE n
AtLeast(bound, n)   == IF n < bound THEN bound ELSE n
Clamp(low, high, n) == AtMost(high, AtLeast(low, n))

Later(time, d) == AtMost(CooldownLimit, time + d)

TypeOK ==
  /\ where \in {"menu", "auto_shoot"}
  /\ phase \in {"auto", "update", "input", "pause"}
  /\ exitReq \in BOOLEAN /\ dying \in BOOLEAN
  /\ autoPending \in BOOLEAN /\ autoLeft \in 0..AutoDelay
  /\ uptime \in 0..CooldownLimit
  /\ config \in Configs
  /\ running \in BOOLEAN /\ wasInRange \in BOOLEAN
  /\ since \in 0..CooldownLimit
  /\ distance \in 0..Far /\ lastDistance \in 0..Far
  /\ valid \in BOOLEAN /\ left \in BOOLEAN
  /\ out \in {"", "BURST"}

Init ==
  /\ where = "menu" /\ phase = "auto"
  /\ exitReq = FALSE /\ dying = FALSE
  /\ autoPending \in BOOLEAN /\ autoLeft = AutoDelay
  /\ uptime = 0
  /\ config \in Configs
  /\ running = FALSE /\ wasInRange = FALSE /\ since = 0
  /\ distance = 0 /\ valid = FALSE /\ lastDistance = 0
  /\ left = TRUE
  /\ out = ""

-----------------------------------------------------------------------------
(* The zone, the edge and the move.                                        *)

\* hasObject(), inRange()
InZone(ok, d) ==
  /\ ok /\ d > 0
  /\ config.filter => d >= config.rangeMin /\ d <= config.rangeMax

Gap(a, b) == IF a > b THEN a - b ELSE b - a

Moved(d) == Gap(d, lastDistance) >= config.retrigger

CooldownOk == since >= config.cooldown

\* Mutation of Fires: an object that stays in the zone fires once only.
FiresOnEntryOnly(d) == CooldownOk /\ ~wasInRange

Fires(d) == CooldownOk /\ (~wasInRange \/ Moved(d))

\* How long a burst of `n' shots blocks: a tick between two shots, and up to
\* one more in each for the shutter over BLE.
BurstTimes(n) == (n - 1)..(2 * n - 1)

-----------------------------------------------------------------------------
(* A lap of the mode's loop.                                               *)

InLap(p) == where = "auto_shoot" /\ phase = p

Advance(from, to) ==
  /\ InLap(from)
  /\ phase' = to
  /\ UNCHANGED <<where, dying>>

\* lastTrigger = 0: the cool-down is over as soon as the box has been up that
\* long.
StartRun ==
  /\ running' = TRUE /\ wasInRange' = FALSE
  /\ since' = uptime
  /\ left' = TRUE
  /\ UNCHANGED lastDistance

StopRun ==
  /\ running' = FALSE /\ wasInRange' = FALSE
  /\ UNCHANGED <<since, lastDistance, left>>

Autostart ==
  /\ Advance("auto", "update")
  /\ autoPending /\ autoLeft = 0
  /\ autoPending' = FALSE
  /\ StartRun
  /\ out' = ""
  /\ UNCHANGED <<exitReq, autoLeft, uptime, config, sensorVars>>

NoAutostart ==
  /\ Advance("auto", "update")
  /\ ~autoPending \/ autoLeft > 0
  /\ out' = ""
  /\ UNCHANGED <<exitReq, autoVars, uptime, config, sensorVars, shotVars>>

\* tfLuna.update(): not yet due, a frame, or a failed read, after which the
\* driver may start anew.
Poll ==
  \/ UNCHANGED sensorVars
  \/ valid' = TRUE /\ distance' \in 0..Far
  \/ valid' = FALSE /\ distance' \in {0, distance}

\* checkAndTrigger(), an object in the zone: the cool-down counts from before
\* the burst.
Burst ==
  /\ Fires(distance')
  /\ out' = "BURST"
  /\ lastDistance' = distance'
  /\ left' = FALSE
  /\ \E d \in BurstTimes(config.burst) :
       since' = AtMost(CooldownLimit, d) /\ uptime' = Later(uptime, d)

\* Mutation of NoBurst: the cool-down counts from the last time an object was
\* seen.
NoBurstRestarts ==
  /\ ~Fires(distance')
  /\ since' = 0
  /\ out' = ""
  /\ UNCHANGED <<uptime, lastDistance, left>>

NoBurst ==
  /\ ~Fires(distance')
  /\ out' = ""
  /\ UNCHANGED <<uptime, since, lastDistance, left>>

\* Mutation of Tracked: the edge is armed again by every reading.
NeverTracked(detected) == FALSE

\* wasInRange after a lap that saw `detected'.
Tracked(detected) == detected

CheckAndTrigger ==
  LET detected == InZone(valid', distance')
  IN  /\ wasInRange' = Tracked(detected)
      /\ \/ detected /\ (Burst \/ NoBurst)
         \/ /\ ~detected
            /\ left' = TRUE
            /\ out' = ""
            /\ UNCHANGED <<since, lastDistance, uptime>>
      /\ UNCHANGED running

\* update(): the sensor always, the trigger while running.
Update ==
  /\ Advance("update", "input")
  /\ Poll
  /\ \/ running /\ CheckAndTrigger
     \/ ~running /\ out' = "" /\ UNCHANGED <<shotVars, uptime>>
  /\ UNCHANGED <<exitReq, autoVars, config>>

\* _battery_guard_tick(): a flat pack asks the mode to exit.
BatteryCritical ==
  /\ InLap("input")
  /\ ~dying
  /\ dying' = TRUE /\ exitReq' = TRUE
  /\ out' = ""
  /\ UNCHANGED <<where, phase, autoVars, uptime, config, sensorVars, shotVars>>

-----------------------------------------------------------------------------
(* The user.                                                               *)

NoInput ==
  /\ Advance("input", "pause")
  /\ out' = ""
  /\ UNCHANGED <<exitReq, autoVars, uptime, config, sensorVars, shotVars>>

PressStart ==
  /\ Advance("input", "pause")
  /\ StartRun
  /\ out' = ""
  /\ UNCHANGED <<exitReq, autoVars, uptime, config, sensorVars>>

PressStop ==
  /\ Advance("input", "pause")
  /\ StopRun
  /\ out' = ""
  /\ UNCHANGED <<exitReq, autoVars, uptime, config, sensorVars>>

\* validateConfig() swaps the ends of the zone when they have crossed.
Ordered(low, high) ==
  [config EXCEPT !.rangeMin = AtMost(high, low), !.rangeMax = AtLeast(low, high)]

TurnRange(d) ==
  {Ordered(Clamp(1, Far, config.rangeMin + d), config.rangeMax),
   Ordered(config.rangeMin, Clamp(1, Far, config.rangeMax + d))}

TurnBurst(d) == [config EXCEPT !.burst = Clamp(1, BurstLimit, @ + d)]

\* The cool-down is unsigned: one below 0 wraps, and is then clamped from above.
TurnCooldown(d) ==
  [config EXCEPT !.cooldown = AtMost(CooldownLimit, (@ + d) % CooldownMod)]

TurnRetrigger(d) == [config EXCEPT !.retrigger = Clamp(RetriggerMin, RetriggerLimit, @ + d)]

Turned ==
  UNION {TurnRange(d) \cup {TurnBurst(d), TurnCooldown(d), TurnRetrigger(d)} : d \in {-1, 1}}

\* A row is turned, or the range filter switched, also during a run.
EditRow ==
  /\ Advance("input", "pause")
  /\ config' \in Turned \cup {[config EXCEPT !.filter = ~@]}
  /\ out' = ""
  /\ UNCHANGED <<exitReq, autoVars, uptime, sensorVars, shotVars>>

\* A long press on the main screen; in the submenu it only closes the submenu.
LongPress ==
  /\ Advance("input", "pause")
  /\ exitReq' = TRUE
  /\ running' = FALSE
  /\ config' \in Turned \cup {config}
  /\ out' = ""
  /\ UNCHANGED <<autoVars, uptime, sensorVars, wasInRange, since, lastDistance, left>>

Pause(d) ==
  /\ Advance("pause", "auto")
  /\ ~exitReq
  /\ uptime' = Later(uptime, d)
  /\ since' = Later(since, d)
  /\ autoLeft' = AtLeast(0, autoLeft - d)
  /\ out' = ""
  /\ UNCHANGED <<exitReq, autoPending, config, sensorVars>>
  /\ UNCHANGED <<running, wasInRange, lastDistance, left>>

LeaveLoop ==
  /\ InLap("pause") /\ exitReq
  /\ where' = "menu"
  /\ autoPending' = FALSE
  /\ StopRun
  /\ out' = ""
  /\ UNCHANGED <<phase, exitReq, dying, autoLeft, uptime, config, sensorVars>>

\* init(): what flash holds, a driver begun anew; lastTriggerDistance is kept.
\* Time passed in the launcher.
EnterMode ==
  /\ where = "menu" /\ ~dying
  /\ where' = "auto_shoot" /\ phase' = "auto"
  /\ exitReq' = FALSE
  /\ config' \in Configs
  /\ uptime' \in uptime..CooldownLimit
  /\ since' = uptime'
  /\ running' = FALSE /\ wasInRange' = FALSE
  /\ distance' = 0 /\ valid' = FALSE
  /\ out' = ""
  /\ UNCHANGED <<dying, autoVars, lastDistance, left>>

\* Power is cut, possibly under the loop, and comes back, on the user's button
\* or on the schedule.
PowerCycle ==
  /\ where' = "menu" /\ phase' = "auto"
  /\ exitReq' = FALSE /\ dying' = FALSE
  /\ autoPending' \in BOOLEAN /\ autoLeft' = AutoDelay
  /\ uptime' = 0
  /\ running' = FALSE /\ wasInRange' = FALSE /\ since' = 0
  /\ distance' = 0 /\ valid' = FALSE /\ lastDistance' = 0
  /\ left' = TRUE
  /\ out' = ""
  /\ UNCHANGED config

Lap ==
  \/ Autostart \/ NoAutostart
  \/ Update
  \/ NoInput \/ PressStart \/ PressStop \/ EditRow \/ LongPress
  \/ \E d \in 1..MaxLag : Pause(d)
  \/ LeaveLoop

Next == Lap \/ BatteryCritical \/ EnterMode \/ PowerCycle

\* The loop never stops turning while the mode runs; sensor and user are not
\* fair.
Spec == Init /\ [][Next]_vars
FairSpec == Spec /\ WF_vars(Lap)

-----------------------------------------------------------------------------
(* Properties.                                                             *)

\* checkAndTrigger()'s "keeps firing whenever the distance changes meaningfully
\* while still inside the zone": an object in the zone that has moved away from
\* where the last burst was taken is photographed, or it moves back or leaves, or
\* the run ends, whatever cool-down, edits and failed reads held the shot back.
\* (A newcomer whose entry the cool-down swallowed counts as having moved only by
\* its distance from the object photographed before it.)
MovesArePhotographed ==
  [](running /\ wasInRange /\ Moved(distance) =>
       <>(~running \/ ~wasInRange \/ ~Moved(distance)))

\* "a reading change is treated as sensor noise, not real movement": of an
\* object that neither left the zone nor moved by the retrigger distance no
\* second burst is taken in a run.
NoiseIsNotMovement ==
  [][out' # "" => left \/ Gap(distance', lastDistance) >= config.retrigger]_vars

=============================================================================
