--------------------------- MODULE ShootingProofs ---------------------------
(***************************************************************************)
(* Proofs about the shot that is taken by itself and the shot that is sent *)
(* to a camera: AutoShoot, for every range, burst, cool-down and retrigger *)
(* distance the rows allow and every length of a lap, and CameraRemote,    *)
(* for every set of bodies and brands in range.  The two specifications    *)
(* share no variable; each theorem is about one of them.                   *)
(*                                                                         *)
(* NoiseIsNotMovement needs that the edge is armed only when the zone was  *)
(* seen empty or the run began.                                            *)
(*                                                                         *)
(* CameraFollowsBulb needs to know which camera is open: the one in NVS,   *)
(* to which the link, when it comes back for the release, leads again; and *)
(* that no pairing and no row of TRIGGER MODE can change it meanwhile.     *)
(***************************************************************************)
EXTENDS AutoShoot, CameraRemote, TLAPS

-----------------------------------------------------------------------------
(* Auto Shoot.                                                             *)

\* In a run, an object that was photographed and has not left since is
\* remembered as being in the zone.
EdgeInv == running /\ ~left => wasInRange

IInv == TypeOK /\ EdgeInv

-----------------------------------------------------------------------------
(* Rows and times.                                                         *)

\* The fields of a configuration have their types.
LEMMA ConfigFields ==
  ASSUME NEW c \in Configs
  PROVE  /\ c.filter \in BOOLEAN
         /\ c.rangeMin \in 1..Far /\ c.rangeMax \in 1..Far /\ c.rangeMin <= c.rangeMax
         /\ c.burst \in 1..BurstLimit
         /\ c.cooldown \in 0..CooldownLimit
         /\ c.retrigger \in RetriggerMin..RetriggerLimit
BY DEF Configs

\* The ends of the zone come out in order, whichever was turned.
LEMMA OrderedRange ==
  ASSUME config \in Configs, NEW low \in 1..Far, NEW high \in 1..Far
  PROVE  Ordered(low, high) \in Configs
<1> DEFINE a == AtMost(high, low)
           b == AtLeast(low, high)
<1>1. a \in 1..Far /\ b \in 1..Far /\ a <= b
  BY AutoShootAssumption DEF AtMost, AtLeast
<1>2. Ordered(low, high) = [config EXCEPT !.rangeMin = a, !.rangeMax = b]
  BY DEF Ordered
<1> HIDE DEF a, b
<1> QED BY <1>1, <1>2 DEF Configs

\* Every row turned by one click leaves a configuration, the cool-down that
\* wraps below 0 included.
LEMMA TurnedConfigs ==
  ASSUME config \in Configs
  PROVE  Turned \subseteq Configs
<1> SUFFICES ASSUME NEW d \in {-1, 1}
             PROVE  /\ TurnRange(d) \subseteq Configs
                    /\ TurnBurst(d) \in Configs
                    /\ TurnCooldown(d) \in Configs
                    /\ TurnRetrigger(d) \in Configs
  BY DEF Turned
<1>1. /\ config.rangeMin \in 1..Far /\ config.rangeMax \in 1..Far
      /\ config.burst \in 1..BurstLimit /\ config.cooldown \in 0..CooldownLimit
      /\ config.retrigger \in RetriggerMin..RetriggerLimit
  BY ConfigFields
<1>2. /\ Far \in Nat \ {0} /\ BurstLimit \in Nat \ {0} /\ CooldownLimit \in Nat
      /\ CooldownMod \in Nat /\ CooldownMod > CooldownLimit + 1
      /\ RetriggerMin \in Nat \ {0} /\ RetriggerLimit \in Nat /\ RetriggerLimit >= RetriggerMin
  BY AutoShootAssumption
<1>3. TurnRange(d) \subseteq Configs
  <2>1. Clamp(1, Far, config.rangeMin + d) \in 1..Far /\ Clamp(1, Far, config.rangeMax + d) \in 1..Far
    BY <1>1, <1>2 DEF Clamp, AtMost, AtLeast
  <2> QED BY <1>1, <2>1, OrderedRange DEF TurnRange
<1>4. TurnBurst(d) \in Configs
  <2>1. Clamp(1, BurstLimit, config.burst + d) \in 1..BurstLimit
    BY <1>1, <1>2 DEF Clamp, AtMost, AtLeast
  <2> QED BY <2>1 DEF TurnBurst, Configs
<1>5. TurnCooldown(d) \in Configs
  <2>1. (config.cooldown + d) % CooldownMod \in 0..(CooldownMod - 1)
    BY <1>1, <1>2
  <2>2. AtMost(CooldownLimit, (config.cooldown + d) % CooldownMod) \in 0..CooldownLimit
    BY <1>2, <2>1 DEF AtMost
  <2> QED BY <2>2 DEF TurnCooldown, Configs
<1>6. TurnRetrigger(d) \in Configs
  <2>1. Clamp(RetriggerMin, RetriggerLimit, config.retrigger + d) \in RetriggerMin..RetriggerLimit
    BY <1>1, <1>2 DEF Clamp, AtMost, AtLeast
  <2> QED BY <2>1 DEF TurnRetrigger, Configs
<1> QED BY <1>3, <1>4, <1>5, <1>6

\* Time passes, and saturates.
LEMMA LaterTime ==
  ASSUME NEW t \in 0..CooldownLimit, NEW d \in Nat
  PROVE  Later(t, d) \in 0..CooldownLimit
BY AutoShootAssumption DEF Later, AtMost

\* A burst takes some time.
LEMMA BurstTakesTime ==
  ASSUME NEW n \in 1..BurstLimit, NEW d \in BurstTimes(n)
  PROVE  d \in Nat
BY AutoShootAssumption DEF BurstTimes

-----------------------------------------------------------------------------
(* The steps.  Each keeps the types of what it changes; only Update fires. *)

\* What a photograph leaves behind.
LEMMA BurstKeeps ==
  ASSUME TypeOK, distance' \in 0..Far, config' = config, Burst
  PROVE  /\ since' \in 0..CooldownLimit /\ uptime' \in 0..CooldownLimit
         /\ lastDistance' = distance' /\ left' = FALSE /\ out' = "BURST"
<1>1. config \in Configs /\ uptime \in 0..CooldownLimit
  BY DEF TypeOK
<1>2. PICK d \in BurstTimes(config.burst) :
        since' = AtMost(CooldownLimit, d) /\ uptime' = Later(uptime, d)
  BY DEF Burst
<1>3. d \in Nat
  BY <1>1, <1>2, ConfigFields, BurstTakesTime
<1>4. since' \in 0..CooldownLimit
  BY <1>2, <1>3, AutoShootAssumption DEF AtMost
<1>5. uptime' \in 0..CooldownLimit
  BY <1>1, <1>2, <1>3, LaterTime
<1>6. lastDistance' = distance' /\ left' = FALSE /\ out' = "BURST"
  BY DEF Burst
<1> QED BY <1>4, <1>5, <1>6

\* The lap looks at the sensor.
LEMMA UpdateKeeps ==
  ASSUME IInv, Update
  PROVE  IInv'
<1>1. /\ where = "auto_shoot" /\ phase' = "input"
      /\ UNCHANGED <<where, dying, exitReq, autoVars, config>>
  BY DEF Update, Advance, InLap
<1>2. TypeOK /\ 0 \in 0..Far
  BY AutoShootAssumption DEF IInv
<1>3. distance' \in 0..Far /\ valid' \in BOOLEAN
  BY <1>2 DEF Update, Poll, TypeOK, sensorVars
<1>4. CASE ~running /\ out' = "" /\ UNCHANGED <<shotVars, uptime>>
  BY <1>1, <1>2, <1>3, <1>4 DEF IInv, TypeOK, EdgeInv, InLap, shotVars, autoVars
<1>5. CASE running /\ CheckAndTrigger
  <2> DEFINE seen == InZone(valid', distance')
  <2>1. wasInRange' = seen /\ running' = running /\ running
    BY <1>5 DEF CheckAndTrigger, Tracked
  <2>2. wasInRange' \in BOOLEAN
    <3>1. seen \in BOOLEAN
      BY DEF InZone
    <3> QED BY <2>1, <3>1, Zenon
  <2>3. CASE seen /\ Burst
    <3>1. /\ since' \in 0..CooldownLimit /\ uptime' \in 0..CooldownLimit
          /\ lastDistance' = distance' /\ left' = FALSE /\ out' = "BURST"
      BY <1>1, <1>2, <1>3, <2>3, BurstKeeps
    <3>2. wasInRange'
      BY <2>1, <2>3, Zenon
    <3>3. TypeOK'
      BY <1>1, <1>2, <1>3, <2>1, <2>2, <3>1 DEF TypeOK, autoVars
    <3> QED BY <3>1, <3>2, <3>3 DEF IInv, EdgeInv
  <2>4. CASE seen /\ NoBurst
    <3>1. out' = "" /\ UNCHANGED <<uptime, since, lastDistance, left>>
      BY <2>4 DEF NoBurst
    <3>2. wasInRange'
      BY <2>1, <2>4, Zenon
    <3>3. TypeOK'
      BY <1>1, <1>2, <1>3, <2>1, <2>2, <3>1 DEF TypeOK, autoVars
    <3> QED BY <3>2, <3>3 DEF IInv, EdgeInv
  <2>5. CASE ~seen /\ left' = TRUE /\ out' = "" /\ UNCHANGED <<since, lastDistance, uptime>>
    <3>1. ~wasInRange'
      BY <2>1, <2>5, Zenon
    <3>2. TypeOK'
      BY <1>1, <1>2, <1>3, <2>1, <2>2, <2>5 DEF TypeOK, autoVars
    <3> QED BY <2>5, <3>1, <3>2 DEF IInv, EdgeInv
  <2> QED BY <1>5, <2>3, <2>4, <2>5 DEF CheckAndTrigger
<1> QED BY <1>4, <1>5 DEF Update

\* A lap without a look at the sensor: autostart, user, time.
LEMMA OtherLapKeeps ==
  ASSUME IInv,
         \/ Autostart \/ NoAutostart
         \/ NoInput \/ PressStart \/ PressStop \/ EditRow \/ LongPress
         \/ \E d \in 1..MaxLag : Pause(d)
  PROVE  IInv'
<1> DEFINE Rows == Turned \cup {[config EXCEPT !.filter = ~@], config}
<1>1. TypeOK
  BY DEF IInv
<1>2. Rows \subseteq Configs
  <2>1. [config EXCEPT !.filter = ~@] \in Configs
    BY <1>1 DEF TypeOK, Configs
  <2>2. config \in Configs
    BY <1>1 DEF TypeOK
  <2> QED BY <2>1, <2>2, TurnedConfigs
<1> HIDE DEF Rows
<1>3. CASE Autostart \/ PressStart
  <2>1. /\ phase' \in {"update", "pause"} /\ running' = TRUE /\ wasInRange' = FALSE
        /\ since' = uptime /\ left' = TRUE /\ out' = ""
        /\ autoPending' \in {FALSE, autoPending}
        /\ UNCHANGED <<where, dying, exitReq, autoLeft, uptime, config, distance, valid, lastDistance>>
    BY <1>3 DEF Autostart, PressStart, Advance, StartRun, sensorVars, autoVars
  <2> QED BY <1>1, <2>1 DEF IInv, TypeOK, EdgeInv, InLap
<1>4. CASE PressStop
  <2>1. /\ phase' = "pause" /\ running' = FALSE /\ wasInRange' = FALSE /\ out' = ""
        /\ UNCHANGED <<where, dying, exitReq, autoPending, autoLeft, uptime, config, distance, valid>>
        /\ UNCHANGED <<since, lastDistance, left>>
    BY <1>4 DEF PressStop, Advance, StopRun, sensorVars, autoVars
  <2> QED BY <1>1, <2>1 DEF IInv, TypeOK, EdgeInv, InLap
<1>5. CASE NoAutostart \/ NoInput \/ EditRow
  <2>1. /\ phase' \in {"update", "pause"} /\ out' = ""
        /\ UNCHANGED <<where, dying, exitReq, autoPending, autoLeft, uptime, distance, valid>>
        /\ UNCHANGED <<running, wasInRange, since, lastDistance, left>>
    BY <1>5 DEF NoAutostart, NoInput, EditRow, Advance, sensorVars, autoVars, shotVars
  <2>2. config' \in Configs
    BY <1>1, <1>2, <1>5 DEF TypeOK, NoAutostart, NoInput, EditRow, Rows
  <2> QED BY <1>1, <2>1, <2>2 DEF IInv, TypeOK, EdgeInv, InLap
<1>6. CASE LongPress
  <2>1. /\ phase' = "pause" /\ exitReq' = TRUE /\ running' = FALSE /\ out' = ""
        /\ UNCHANGED <<where, dying, autoPending, autoLeft, uptime, distance, valid>>
        /\ UNCHANGED <<wasInRange, since, lastDistance, left>>
    BY <1>6 DEF LongPress, Advance, sensorVars, autoVars
  <2>2. config' \in Configs
    BY <1>2, <1>6 DEF LongPress, Rows
  <2> QED BY <1>1, <2>1, <2>2 DEF IInv, TypeOK, EdgeInv, InLap
<1>7. CASE \E d \in 1..MaxLag : Pause(d)
  <2>1. PICK d \in 1..MaxLag : Pause(d)
    BY <1>7
  <2>2. d \in Nat
    BY AutoShootAssumption
  <2>3. uptime' \in 0..CooldownLimit /\ since' \in 0..CooldownLimit
    <3>1. uptime' = Later(uptime, d) /\ since' = Later(since, d)
      BY <2>1 DEF Pause
    <3> QED BY <1>1, <2>2, <3>1, LaterTime DEF TypeOK
  <2>4. autoLeft' \in 0..AutoDelay
    <3>1. autoLeft' = AtLeast(0, autoLeft - d) /\ autoLeft \in 0..AutoDelay /\ AutoDelay \in Nat
      BY <1>1, <2>1, AutoShootAssumption DEF Pause, TypeOK
    <3> QED BY <2>2, <3>1 DEF AtLeast
  <2>5. /\ phase' = "auto" /\ out' = ""
        /\ UNCHANGED <<where, dying, exitReq, autoPending, config, distance, valid>>
        /\ UNCHANGED <<running, wasInRange, lastDistance, left>>
    BY <2>1 DEF Pause, Advance, sensorVars
  <2> QED BY <1>1, <2>3, <2>4, <2>5 DEF IInv, TypeOK, EdgeInv, InLap
<1> QED BY <1>3, <1>4, <1>5, <1>6, <1>7

\* The way out and in, a flat battery and a cut of power.
LEMMA ModeKeeps ==
  ASSUME IInv, LeaveLoop \/ BatteryCritical \/ EnterMode \/ PowerCycle
  PROVE  IInv'
<1>1. TypeOK
  BY DEF IInv
<1>2. 0 \in 0..CooldownLimit /\ 0 \in 0..Far /\ AutoDelay \in 0..AutoDelay
  BY AutoShootAssumption
<1>3. CASE LeaveLoop
  BY <1>1, <1>3
     DEF IInv, TypeOK, EdgeInv, InLap, LeaveLoop, StopRun, sensorVars
<1>4. CASE BatteryCritical
  <2>1. UNCHANGED <<where, phase, autoPending, autoLeft, uptime, config, distance, valid,
                    running, wasInRange, since, lastDistance, left>>
    BY <1>4 DEF BatteryCritical, autoVars, sensorVars, shotVars
  <2>2. TypeOK'
    BY <1>1, <1>4, <2>1 DEF TypeOK, BatteryCritical
  <2> QED BY <2>1, <2>2 DEF IInv, EdgeInv
<1>5. CASE EnterMode
  <2>1. uptime' \in 0..CooldownLimit
    <3>1. uptime \in 0..CooldownLimit /\ uptime' \in uptime..CooldownLimit
      BY <1>1, <1>5 DEF EnterMode, TypeOK
    <3> QED BY <3>1, AutoShootAssumption
  <2> QED BY <1>1, <1>2, <1>5, <2>1
          DEF IInv, TypeOK, EdgeInv, InLap, EnterMode, autoVars
<1>6. CASE PowerCycle
  BY <1>1, <1>2, <1>6 DEF IInv, TypeOK, EdgeInv, InLap, PowerCycle
<1> QED BY <1>3, <1>4, <1>5, <1>6

-----------------------------------------------------------------------------
(* The theorems.                                                           *)

LEMMA InitIInv == Init => IInv
<1> SUFFICES ASSUME Init PROVE IInv
  OBVIOUS
<1>1. 0 \in 0..CooldownLimit /\ 0 \in 0..Far /\ AutoDelay \in 0..AutoDelay
  BY AutoShootAssumption
<1> QED BY <1>1 DEF Init, IInv, TypeOK, EdgeInv, InLap

LEMMA StepIInv == IInv /\ [Next]_vars => IInv'
<1> SUFFICES ASSUME IInv, [Next]_vars PROVE IInv'
  OBVIOUS
<1>1. CASE UNCHANGED vars
  <2>1. /\ UNCHANGED <<where, phase, exitReq, dying, autoPending, autoLeft, uptime, config>>
        /\ UNCHANGED <<distance, valid, running, wasInRange, since, lastDistance, left, out>>
    BY <1>1 DEF vars, loopVars, autoVars, sensorVars, shotVars
  <2>2. TypeOK'
    BY <2>1 DEF IInv, TypeOK
  <2> QED BY <2>1, <2>2 DEF IInv, EdgeInv
<1>2. CASE Update
  BY <1>2, UpdateKeeps
<1>3. CASE \/ Autostart \/ NoAutostart
           \/ NoInput \/ PressStart \/ PressStop \/ EditRow \/ LongPress
           \/ \E d \in 1..MaxLag : Pause(d)
  BY <1>3, OtherLapKeeps
<1>4. CASE LeaveLoop \/ BatteryCritical \/ EnterMode \/ PowerCycle
  BY <1>4, ModeKeeps
<1> QED BY <1>1, <1>2, <1>3, <1>4 DEF Next, Lap

\* IInv holds in every state of every behaviour.
THEOREM Invariance == Spec => []IInv
BY InitIInv, StepIInv, PTL DEF Spec

\* Every variable keeps its range: the rows of a configuration stay within
\* their limits and in order, the cool-down that wraps below 0 included.
THEOREM TypeCorrect == Spec => []TypeOK
<1>1. IInv => TypeOK
  BY DEF IInv
<1> QED BY <1>1, Invariance, PTL

\* A second burst is taken only of an object that moved or came back.
THEOREM NoiseTakesNoShot == Spec => NoiseIsNotMovement
<1> DEFINE Fine == out' # "" => left \/ Gap(distance', lastDistance) >= config.retrigger
<1>1. IInv /\ [Next]_vars => [Fine]_vars
  <2> SUFFICES ASSUME IInv, Next PROVE Fine
    OBVIOUS
  <2>1. CASE Update
    <3>1. CASE ~running
      BY <2>1, <3>1 DEF Update
    <3>2. CASE running /\ out' # ""
      <4>1. Fires(distance')
        BY <2>1, <3>2 DEF Update, CheckAndTrigger, Burst, NoBurst
      <4>2. CASE ~wasInRange
        BY <3>2, <4>2 DEF IInv, EdgeInv
      <4>3. CASE Moved(distance')
        BY <4>3 DEF Moved
      <4> QED BY <4>1, <4>2, <4>3 DEF Fires
    <3> QED BY <3>1, <3>2
  <2>2. CASE ~Update
    <3>1. out' = ""
      BY <2>2 DEF Next, Lap, Autostart, NoAutostart, NoInput, PressStart, PressStop,
                  EditRow, LongPress, Pause, LeaveLoop, BatteryCritical, EnterMode, PowerCycle
    <3> QED BY <3>1
  <2> QED BY <2>1, <2>2
<1> QED BY <1>1, Invariance, PTL DEF Spec, NoiseIsNotMovement

-----------------------------------------------------------------------------
(* The camera over Bluetooth.                                              *)

\* A shutter is held during an exposure only, an exposure is one of the modes
\* that hold, and a pairing is asked for in TRIGGER MODE, of a driver.
HeldInBulbMode ==
  /\ held => bulb
  /\ bulb => mode = "bulb"
  /\ pairReq => mode = "trigger" /\ brand \in Brands

\* The shutter held is that of the camera in NVS, and the link, while it is
\* up, leads there; otherwise nothing stands open, after a crash included.
HeldIsTheSavedOne ==
  lost = "no" =>
    IF held
    THEN /\ Alive
         /\ brand \in Brands
         /\ saved[brand] \in Cameras
         /\ exposing = {saved[brand]}
         /\ link[brand] \in Cameras => link[brand] = saved[brand]
    ELSE exposing = {}

CameraInv ==
  /\ RemoteTypeOK
  /\ LinkIsTheChosenOne
  /\ HeldInBulbMode
  /\ HeldIsTheSavedOne

-----------------------------------------------------------------------------
(* The drivers' calls.                                                     *)

Worlds == [link : [Brands -> Cameras \cup {"down", "closing"}], exposing : SUBSET Cameras]

\* What every outcome of a connection is, from world w, of driver b.
Reached(w, r, b) ==
  /\ r.w \in Worlds
  /\ r.ok \in BOOLEAN /\ r.lost = ~r.ok /\ r.panic = "no"
  /\ r.w.exposing = w.exposing
  /\ \A o \in Brands \ {b} : r.w.link[o] = w.link[o]

\* What every outcome of a command is: the driver's own link alone is touched,
\* and leads where it did or to the camera in NVS; a command that was lost
\* changed no shutter, one that was not did what it does, at a camera.
Done(w, r, b, command) ==
  /\ r.w \in Worlds
  /\ r.ok \in BOOLEAN /\ r.lost \in BOOLEAN /\ r.panic \in {"no", "race", "blind"}
  /\ \A o \in Brands \ {b} : r.w.link[o] = w.link[o]
  /\ r.w.link[b] \in Cameras => r.w.link[b] \in {w.link[b], saved[b]}
  /\ r.panic = "blind" => b = "Sony"
  /\ r.panic # "no" => r.lost
  /\ ~r.ok => r.lost
  /\ r.lost => r.w.exposing = w.exposing
  /\ ~r.lost => r.w.link[b] \in Cameras /\ r.w.exposing = After(command, w.exposing, r.w.link[b])

\* A link is to a camera or has one of two names that no camera has.
LEMMA NamesApart ==
  "down" \notin Cameras /\ "closing" \notin Cameras /\ NoCamera \notin Cameras
BY CameraAssumption

\* Plain GPIO is no brand.
LEMMA BrandsNotNone == "None" \notin Brands
BY DEF Brands

\* A link changed leaves a world.
LEMMA LinkedWorld ==
  ASSUME NEW w \in Worlds, NEW b \in Brands, NEW to \in Cameras \cup {"down", "closing"}
  PROVE  /\ Linked(w, b, to) \in Worlds
         /\ Linked(w, b, to).exposing = w.exposing
         /\ Linked(w, b, to).link[b] = to
         /\ \A o \in Brands \ {b} : Linked(w, b, to).link[o] = w.link[o]
BY DEF Linked, Worlds

\* An attempt leaves the link as it was, or on its way down, or to the camera,
\* where one that succeeds leads.
LEMMA Attempted ==
  ASSUME NEW w \in Worlds, NEW b \in Brands, NEW cam \in Cameras, NEW r \in Attempts(w, b, cam)
  PROVE  /\ Reached(w, r, b)
         /\ r.w.link[b] \in {w.link[b], "closing", cam}
         /\ r.ok => r.w.link[b] = cam
<1> DEFINE kept == IF IsConnected(w, b) THEN {w.link[b], cam} ELSE {}
<1>1. CASE r = Outcome(w, FALSE)
  BY <1>1 DEF Outcome, Reached
<1>2. ASSUME NEW to \in kept \cup {"closing"}, r = Outcome(Linked(w, b, to), FALSE)
      PROVE  /\ Reached(w, r, b)
             /\ r.w.link[b] \in {w.link[b], "closing", cam}
             /\ ~r.ok
  <2>1. to \in Cameras \cup {"closing"} /\ to \in {w.link[b], "closing", cam}
    BY DEF IsConnected
  <2>2. r.w = Linked(w, b, to) /\ r.ok = FALSE /\ r.lost = TRUE /\ r.panic = "no"
    BY <1>2 DEF Outcome
  <2>3. /\ r.w \in Worlds /\ r.w.exposing = w.exposing /\ r.w.link[b] = to
        /\ \A o \in Brands \ {b} : r.w.link[o] = w.link[o]
    BY <2>1, <2>2, LinkedWorld
  <2>4. Reached(w, r, b)
    BY <2>2, <2>3 DEF Reached
  <2> QED BY <2>1, <2>2, <2>3, <2>4
<1>3. CASE r = Outcome(Linked(w, b, cam), TRUE)
  BY <1>3, LinkedWorld DEF Outcome, Reached
<1>4. \/ r = Outcome(w, FALSE)
      \/ r = Outcome(Linked(w, b, cam), TRUE)
      \/ \E to \in kept \cup {"closing"} : r = Outcome(Linked(w, b, to), FALSE)
  BY DEF Attempts
<1> HIDE DEF kept
<1> QED BY <1>1, <1>2, <1>3, <1>4

\* A connection made by any driver; Sony's over a live one stays where it leads.
LEMMA Connected ==
  ASSUME NEW w \in Worlds, NEW b \in Brands, NEW cam \in Cameras, NEW r \in ConnectTo(w, b, cam)
  PROVE  /\ Reached(w, r, b)
         /\ r.w.link[b] \in {w.link[b], "closing", cam}
         /\ r.ok /\ (b # "Sony" \/ w.link[b] = "down") => r.w.link[b] = cam
<1>1. CASE b = "Sony"
  <2>1. r \in SonyConnectTo(w, cam)
    BY <1>1 DEF ConnectTo
  <2>2. CASE w.link["Sony"] # "down"
    <3>1. r = Outcome(w, TRUE)
      BY <2>1, <2>2 DEF SonyConnectTo
    <3>2. r.w = w /\ r.ok = TRUE /\ r.lost = FALSE /\ r.panic = "no"
      BY <3>1 DEF Outcome
    <3> QED BY <1>1, <2>2, <3>2 DEF Reached
  <2>3. CASE w.link["Sony"] = "down"
    <3>1. r \in Attempts(w, b, cam)
      BY <1>1, <2>1, <2>3 DEF SonyConnectTo
    <3> QED BY <3>1, Attempted
  <2> QED BY <2>2, <2>3
<1>2. CASE b # "Sony"
  <2>1. r \in Attempts(w, b, cam)
    BY <1>2 DEF Brands, ConnectTo, CanonConnectTo, NikonConnectTo, FujiConnectTo
  <2> QED BY <2>1, Attempted
<1> QED BY <1>1, <1>2

\* A link made sure of leads where it did or to the camera in NVS; a command
\* that goes on without one is Sony's.
LEMMA Ensured ==
  ASSUME RemoteTypeOK, NEW w \in Worlds, NEW b \in Brands, NEW r \in EnsureConnected(w, b)
  PROVE  /\ Reached(w, r, b)
         /\ r.w.link[b] \in Cameras => r.w.link[b] \in {w.link[b], saved[b]}
         /\ r.ok /\ b # "Sony" => r.w.link[b] \in Cameras
<1>1. CASE IsConnected(w, b)
  <2>1. r = Outcome(w, TRUE)
    BY <1>1 DEF EnsureConnected
  <2> QED BY <1>1, <2>1 DEF Outcome, Reached, IsConnected
<1>2. CASE ~IsConnected(w, b) /\ saved[b] = NoCamera
  <2>1. r = Outcome(w, FALSE)
    BY <1>2 DEF EnsureConnected
  <2> QED BY <2>1 DEF Outcome, Reached
<1>3. CASE ~IsConnected(w, b) /\ saved[b] # NoCamera
  <2>1. saved[b] \in Cameras
    BY <1>3 DEF RemoteTypeOK
  <2>2. r \in ConnectTo(w, b, saved[b])
    BY <1>3 DEF EnsureConnected
  <2> QED BY <2>1, <2>2, Connected, NamesApart
<1> QED BY <1>1, <1>2, <1>3

\* Whatever a command does, it does to cameras.
LEMMA AfterCameras ==
  ASSUME NEW command \in {"open", "close", "press"}, NEW open \in SUBSET Cameras, NEW cam \in Cameras
  PROVE  After(command, open, cam) \in SUBSET Cameras
BY DEF After

\* Every outcome of every command.
LEMMA SentIsDone ==
  ASSUME RemoteTypeOK, NEW w \in Worlds, NEW b \in Brands,
         NEW command \in {"open", "close", "press"}, NEW r \in Sent(w, b, command)
  PROVE  Done(w, r, b, command)
<1>1. PICK e \in EnsureConnected(w, b) :
        r \in IF e.ok THEN Written(e.w, b, After(command, e.w.exposing, e.w.link[b])) ELSE {e}
  BY DEF Sent
<1>2. /\ Reached(w, e, b)
      /\ e.w.link[b] \in Cameras => e.w.link[b] \in {w.link[b], saved[b]}
      /\ e.ok /\ b # "Sony" => e.w.link[b] \in Cameras
  BY Ensured
<1>3. CASE ~e.ok
  BY <1>1, <1>2, <1>3 DEF Reached, Done
<1>4. CASE e.ok /\ ~IsConnected(e.w, b)
  <2>1. r = [Outcome(e.w, TRUE) EXCEPT !.panic = "blind", !.lost = TRUE]
    BY <1>1, <1>4 DEF Written
  <2>2. r.w = e.w /\ r.ok = TRUE /\ r.panic = "blind" /\ r.lost = TRUE
    BY <2>1 DEF Outcome
  <2> QED BY <1>2, <1>4, <2>2 DEF Reached, Done, IsConnected
<1>5. CASE e.ok /\ IsConnected(e.w, b)
  <2> DEFINE after == After(command, e.w.exposing, e.w.link[b])
  <2>1. after \in SUBSET Cameras /\ e.w \in Worlds
    BY <1>2, <1>5, AfterCameras DEF Reached, IsConnected, Worlds
  <2>2. CASE r = Outcome([e.w EXCEPT !.exposing = after], TRUE)
    <3>1. r.w = [e.w EXCEPT !.exposing = after] /\ r.ok = TRUE /\ r.panic = "no" /\ r.lost = FALSE
      BY <2>2 DEF Outcome
    <3>2. r.w \in Worlds /\ r.w.link = e.w.link /\ r.w.exposing = after
      BY <2>1, <3>1 DEF Worlds
    <3> QED BY <1>2, <1>5, <3>1, <3>2 DEF Reached, Done, IsConnected
  <2>3. CASE r = [Outcome(e.w, TRUE) EXCEPT !.lost = TRUE]
    <3>1. r.w = e.w /\ r.ok = TRUE /\ r.panic = "no" /\ r.lost = TRUE
      BY <2>3 DEF Outcome
    <3> QED BY <1>2, <3>1 DEF Reached, Done
  <2>4. CASE r = [Outcome(Linked(e.w, b, "down"), TRUE) EXCEPT !.panic = "race", !.lost = TRUE]
    <3>1. r.w = Linked(e.w, b, "down") /\ r.ok = TRUE /\ r.panic = "race" /\ r.lost = TRUE
      BY <2>4 DEF Outcome
    <3>2. /\ r.w \in Worlds /\ r.w.exposing = e.w.exposing /\ r.w.link[b] = "down"
          /\ \A o \in Brands \ {b} : r.w.link[o] = e.w.link[o]
      BY <2>1, <3>1, LinkedWorld
    <3> QED BY <1>2, <3>1, <3>2, NamesApart DEF Reached, Done
  <2> QED BY <1>1, <1>5, <2>2, <2>3, <2>4 DEF Written
<1> QED BY <1>3, <1>4, <1>5

-----------------------------------------------------------------------------
(* What RemoteManager makes of a command, by the brand in use.             *)

Opening(b) == IF b = "Sony" THEN "press" ELSE "open"
Closing(b) == IF b = "Sony" THEN "press" ELSE "close"

\* A press is refused, or sent to the driver of the brand in use.
LEMMA Pressed ==
  ASSUME RemoteTypeOK, NEW w \in Worlds, NEW r \in PressShutter(w)
  PROVE  \/ r = Outcome(w, FALSE)
         \/ brand \in Brands /\ saved[brand] \in Cameras /\ Done(w, r, brand, Opening(brand))
<1>1. CASE Unpaired
  BY <1>1 DEF PressShutter, Refused
<1>2. CASE ~Unpaired
  <2>1. brand \in Brands /\ saved[brand] \in Cameras
    BY <1>2 DEF Unpaired, RemoteTypeOK
  <2>2. r \in Sent(w, brand, Opening(brand))
    BY <1>2, <2>1 DEF Brands, PressShutter, SonyPress, CanonPress, NikonPress, FujiPress, Opening
  <2>3. Opening(brand) \in {"open", "close", "press"}
    BY DEF Opening
  <2> QED BY <2>1, <2>2, <2>3, SentIsDone
<1> QED BY <1>1, <1>2

\* So is a single shot.
LEMMA Triggered ==
  ASSUME RemoteTypeOK, NEW w \in Worlds, NEW r \in TriggerPhoto(w)
  PROVE  \/ r = Outcome(w, FALSE)
         \/ brand \in Brands /\ Done(w, r, brand, Closing(brand))
<1>1. CASE Unpaired
  BY <1>1 DEF TriggerPhoto, Refused
<1>2. CASE ~Unpaired
  <2>1. brand \in Brands
    BY <1>2 DEF Unpaired, RemoteTypeOK
  <2>2. r \in Sent(w, brand, Closing(brand))
    BY <1>2, <2>1 DEF Brands, TriggerPhoto, SonyTrigger, CanonTrigger, NikonTrigger, FujiTrigger, Closing
  <2>3. Closing(brand) \in {"open", "close", "press"}
    BY DEF Closing
  <2> QED BY <2>1, <2>2, <2>3, SentIsDone
<1> QED BY <1>1, <1>2

\* A release is sent to the driver of the brand in use.
LEMMA Released ==
  ASSUME RemoteTypeOK, brand \in Brands, NEW w \in Worlds, NEW r \in ReleaseShutter(w)
  PROVE  Done(w, r, brand, Closing(brand))
<1>1. r \in Sent(w, brand, Closing(brand))
  BY DEF Brands, ReleaseShutter, SonyRelease, CanonRelease, NikonRelease, FujiRelease, Closing
<1>2. Closing(brand) \in {"open", "close", "press"}
  BY DEF Closing
<1> QED BY <1>1, <1>2, SentIsDone

\* A release that is tried again as a full press is one release.
LEMMA ReleasedInTheEnd ==
  ASSUME RemoteTypeOK, NEW w \in Worlds, NEW r \in ReleaseBluetoothShutterIfEnabled(w)
  PROVE  \/ r = Outcome(w, FALSE)
         \/ brand \in Brands /\ Done(w, r, brand, Closing(brand))
<1>1. CASE ~enabled \/ brand = "None"
  BY <1>1 DEF ReleaseBluetoothShutterIfEnabled, Refused
<1>2. CASE ~(~enabled \/ brand = "None")
  <2>1. brand \in Brands
    BY <1>2 DEF RemoteTypeOK
  <2>2. PICK q \in ReleaseShutter(w) : r \in IF q.ok THEN {q} ELSE TriggerPhoto(q.w)
    BY <1>2 DEF ReleaseBluetoothShutterIfEnabled
  <2>3. Done(w, q, brand, Closing(brand))
    BY <2>1, Released
  <2>4. CASE q.ok
    BY <2>1, <2>2, <2>3, <2>4
  <2>5. CASE ~q.ok
    <3>1. q.w \in Worlds /\ r \in TriggerPhoto(q.w) /\ q.w.exposing = w.exposing
      BY <2>2, <2>3, <2>5 DEF Done
    <3>2. CASE r = Outcome(q.w, FALSE)
      <4>1. r.w = q.w /\ r.ok = FALSE /\ r.lost = TRUE /\ r.panic = "no"
        BY <3>2 DEF Outcome
      <4> QED BY <2>1, <2>3, <3>1, <4>1 DEF Done
    <3>3. CASE Done(q.w, r, brand, Closing(brand))
      BY <2>1, <2>3, <3>1, <3>3 DEF Done
    <3> QED BY <3>1, <3>2, <3>3, Triggered
  <2> QED BY <2>4, <2>5
<1> QED BY <1>1, <1>2

\* The driver row steps to a brand or to plain GPIO.
LEMMA BrandSteps ==
  ASSUME RemoteTypeOK
  PROVE  NextBrand \in Brands \cup {"None"}
<1>1. \E i \in 1..5 : Order[i] = brand
  <2>1. /\ 1 \in 1..5 /\ 2 \in 1..5 /\ 3 \in 1..5 /\ 4 \in 1..5 /\ 5 \in 1..5
        /\ Order[1] = "None" /\ Order[2] = "Sony" /\ Order[3] = "Canon"
        /\ Order[4] = "Nikon" /\ Order[5] = "Fuji"
    BY DEF Order
  <2>2. brand \in {"None", "Sony", "Canon", "Nikon", "Fuji"}
    BY DEF RemoteTypeOK, Brands
  <2> QED BY <2>1, <2>2
<1>2. Place \in 1..5 /\ Order[Place] = brand
  BY <1>1 DEF Place
<1>3. Place \in {1, 2, 3, 4, 5}
  BY <1>2
<1> QED BY <1>2, <1>3 DEF NextBrand, Order, Brands

-----------------------------------------------------------------------------
(* The steps.                                                              *)

\* The state of the links and shutters is a world.
LEMMA ThisWorld ==
  ASSUME RemoteTypeOK
  PROVE  World \in Worlds /\ World.link = link /\ World.exposing = exposing
BY DEF RemoteTypeOK, World, Worlds

\* A command that was sent, or refused, keeps types and the link of the
\* driver in use the only one.
LEMMA CommandKeeps ==
  ASSUME CameraInv, Alive, NEW r, NEW command \in {"open", "close", "press"}, Take(r),
         \/ r = Outcome(World, FALSE)
         \/ brand \in Brands /\ Done(World, r, brand, command),
         UNCHANGED <<brand, saved>>, Stray
  PROVE  /\ strayed' \in BOOLEAN
         /\ link' \in [Brands -> Cameras \cup {"down", "closing"}]
         /\ panicked' \in {"no", "race", "blind"}
         /\ exposing' \in SUBSET Cameras
         /\ LinkIsTheChosenOne'
<1>1. World \in Worlds /\ World.link = link /\ World.exposing = exposing
  BY ThisWorld DEF CameraInv
<1>2. link' = r.w.link /\ exposing' = r.w.exposing /\ panicked' = r.panic
  BY DEF Take
<1>3. CASE r = Outcome(World, FALSE)
  <2>1. link' = link /\ exposing' = exposing /\ panicked' = "no"
    BY <1>1, <1>2, <1>3 DEF Outcome
  <2>2. strayed' \in BOOLEAN
    BY DEF Stray
  <2>3. ASSUME NEW b \in Brands, link'[b] \in Cameras
        PROVE  b = brand /\ (strayed' \/ link'[b] = saved[b])
    BY <2>1, <2>3, BrandsNotNone DEF CameraInv, LinkIsTheChosenOne, Stray
  <2> QED BY <2>1, <2>2, <2>3 DEF CameraInv, RemoteTypeOK, LinkIsTheChosenOne
<1>4. CASE brand \in Brands /\ Done(World, r, brand, command)
  <2>1. /\ link' \in [Brands -> Cameras \cup {"down", "closing"}]
        /\ panicked' \in {"no", "race", "blind"}
        /\ exposing' \in SUBSET Cameras
    BY <1>2, <1>4 DEF Done, Worlds
  <2>2. /\ \A o \in Brands \ {brand} : link'[o] = link[o]
        /\ link'[brand] \in Cameras => link'[brand] \in {link[brand], saved[brand]}
        /\ panicked' = "blind" => brand = "Sony"
    BY <1>1, <1>2, <1>4 DEF Done
  <2>3. ASSUME NEW b \in Brands, link'[b] \in Cameras
        PROVE  b = brand /\ (strayed' \/ link'[b] = saved[b])
    <3>1. b = brand
      BY <2>2, <2>3 DEF CameraInv, LinkIsTheChosenOne
    <3>2. CASE link'[b] = link[b]
      BY <2>3, <3>1, <3>2, BrandsNotNone DEF CameraInv, LinkIsTheChosenOne, Stray
    <3> QED BY <2>2, <2>3, <3>1, <3>2
  <2>4. strayed' \in BOOLEAN
    BY DEF Stray
  <2> QED BY <2>1, <2>2, <2>3, <2>4 DEF LinkIsTheChosenOne
<1> QED BY <1>3, <1>4

\* A press that was told sent and was not lost opened the camera in NVS, if its
\* shutter was closed.
LEMMA OpenBulbKeeps ==
  ASSUME CameraInv, OpenBulb
  PROVE  CameraInv'
<1>1. PICK r \in PressBluetoothShutterIfEnabled(World) :
        /\ Take(r)
        /\ held' = r.ok
        /\ lost' = IF exposing # {} THEN "left"
                   ELSE IF r.ok /\ (r.lost \/ r.w.link[brand] # saved[brand]) THEN "air"
                   ELSE "no"
  BY DEF OpenBulb
<1>2. /\ RemoteTypeOK /\ Alive /\ mode = "bulb" /\ bulb' = TRUE
      /\ UNCHANGED <<mode, enabled, brand, saved, pairReq>> /\ Stray
  BY DEF OpenBulb, CameraInv
<1>3. World \in Worlds /\ World.link = link /\ World.exposing = exposing
  BY <1>2, ThisWorld
<1>4. \/ r = Outcome(World, FALSE)
      \/ brand \in Brands /\ saved[brand] \in Cameras /\ Done(World, r, brand, Opening(brand))
  <2>1. r = Outcome(World, FALSE) \/ r \in PressShutter(World)
    BY DEF PressBluetoothShutterIfEnabled, Refused
  <2> QED BY <1>2, <1>3, <2>1, Pressed
<1>5. /\ strayed' \in BOOLEAN
      /\ link' \in [Brands -> Cameras \cup {"down", "closing"}]
      /\ panicked' \in {"no", "race", "blind"}
      /\ exposing' \in SUBSET Cameras
      /\ LinkIsTheChosenOne'
  <2>1. Opening(brand) \in {"open", "close", "press"}
    BY DEF Opening
  <2>2. \/ r = Outcome(World, FALSE)
        \/ brand \in Brands /\ Done(World, r, brand, Opening(brand))
    BY <1>4
  <2> QED BY <1>1, <1>2, <2>1, <2>2, CommandKeeps
<1>6. r.ok \in BOOLEAN
  <2>1. CASE r = Outcome(World, FALSE)
    BY <2>1 DEF Outcome
  <2>2. CASE Done(World, r, brand, Opening(brand))
    BY <2>2 DEF Done
  <2> QED BY <1>4, <2>1, <2>2
<1>7. RemoteTypeOK'
  BY <1>1, <1>2, <1>5, <1>6 DEF RemoteTypeOK
<1>8. HeldInBulbMode'
  BY <1>2 DEF CameraInv, HeldInBulbMode
<1>9. HeldIsTheSavedOne'
  <2>0. CASE exposing # {}
    BY <1>1, <2>0 DEF HeldIsTheSavedOne
  <2> SUFFICES ASSUME exposing = {} PROVE HeldIsTheSavedOne'
    BY <2>0
  <2>1. /\ link' = r.w.link /\ exposing' = r.w.exposing /\ panicked' = r.panic
    BY <1>1 DEF Take
  <2>2. CASE r = Outcome(World, FALSE)
    <3>1. exposing' = {} /\ ~held'
      BY <1>1, <1>2, <1>3, <2>1, <2>2 DEF Outcome
    <3> QED BY <3>1 DEF HeldIsTheSavedOne
  <2>3. CASE brand \in Brands /\ saved[brand] \in Cameras /\ Done(World, r, brand, Opening(brand))
    <3>1. CASE ~r.ok
      <4>1. exposing' = {} /\ ~held'
        BY <1>1, <1>2, <1>3, <2>1, <2>3, <3>1 DEF Done
      <4> QED BY <4>1 DEF HeldIsTheSavedOne
    <3>2. CASE r.ok /\ (r.lost \/ r.w.link[brand] # saved[brand])
      BY <1>1, <3>2 DEF HeldIsTheSavedOne
    <3>3. CASE r.ok /\ ~r.lost /\ r.w.link[brand] = saved[brand]
      <4>1. exposing' = After(Opening(brand), {}, saved[brand])
        BY <1>2, <1>3, <2>1, <2>3, <3>3 DEF Done
      <4>2. exposing' = {saved[brand]}
        BY <1>2, <4>1 DEF After, Opening
      <4>3. panicked' = "no" /\ held' /\ link'[brand] = saved[brand]
        BY <1>1, <2>1, <2>3, <3>3 DEF Done
      <4> QED BY <1>2, <2>3, <4>2, <4>3 DEF HeldIsTheSavedOne, Alive
    <3> QED BY <2>3, <3>1, <3>2, <3>3 DEF Done
  <2> QED BY <1>4, <2>2, <2>3
<1> QED BY <1>5, <1>7, <1>8, <1>9 DEF CameraInv

\* A release that was not lost reached the camera that is held.
LEMMA CloseBulbKeeps ==
  ASSUME CameraInv, CloseBulb
  PROVE  CameraInv'
<1>1. /\ RemoteTypeOK /\ Alive /\ mode = "bulb" /\ bulb' = FALSE /\ held' = FALSE
      /\ UNCHANGED <<mode, enabled, brand, saved, pairReq>> /\ Stray
  BY DEF CloseBulb, CameraInv, HeldInBulbMode
<1>2. HeldInBulbMode'
  BY <1>1 DEF CameraInv, HeldInBulbMode
<1>3. CASE ~held
  <2>1. UNCHANGED <<link, exposing, panicked, lost>>
    BY <1>3 DEF CloseBulb
  <2>2. LinkIsTheChosenOne' /\ strayed' \in BOOLEAN
    BY <1>1, <2>1, BrandsNotNone DEF CameraInv, LinkIsTheChosenOne, Stray
  <2>3. RemoteTypeOK'
    BY <1>1, <2>1, <2>2 DEF RemoteTypeOK
  <2>4. HeldIsTheSavedOne'
    BY <1>1, <1>3, <2>1 DEF CameraInv, HeldIsTheSavedOne
  <2> QED BY <1>2, <2>2, <2>3, <2>4 DEF CameraInv
<1>4. CASE held
  <2>1. PICK r \in ReleaseBluetoothShutterIfEnabled(World) :
          Take(r) /\ lost' = IF r.lost THEN "air" ELSE lost
    BY <1>4 DEF CloseBulb
  <2>2. World \in Worlds /\ World.link = link /\ World.exposing = exposing
    BY <1>1, ThisWorld
  <2>3. \/ r = Outcome(World, FALSE)
        \/ brand \in Brands /\ Done(World, r, brand, Closing(brand))
    BY <1>1, <2>2, ReleasedInTheEnd
  <2>4. /\ strayed' \in BOOLEAN
        /\ link' \in [Brands -> Cameras \cup {"down", "closing"}]
        /\ panicked' \in {"no", "race", "blind"}
        /\ exposing' \in SUBSET Cameras
        /\ LinkIsTheChosenOne'
    <3>1. Closing(brand) \in {"open", "close", "press"}
      BY DEF Closing
    <3> QED BY <1>1, <2>1, <2>3, <3>1, CommandKeeps
  <2>5. RemoteTypeOK'
    BY <1>1, <2>1, <2>4 DEF RemoteTypeOK
  <2>6. HeldIsTheSavedOne'
    <3>1. CASE r.lost
      BY <2>1, <3>1 DEF HeldIsTheSavedOne
    <3>2. CASE ~r.lost /\ lost # "no"
      BY <2>1, <3>2 DEF HeldIsTheSavedOne
    <3>3. CASE ~r.lost /\ lost = "no"
      <4>1. /\ saved[brand] \in Cameras /\ exposing = {saved[brand]}
            /\ link[brand] \in Cameras => link[brand] = saved[brand]
        BY <1>1, <1>4, <3>3 DEF CameraInv, HeldIsTheSavedOne
      <4>2. Done(World, r, brand, Closing(brand))
        <5>1. CASE r = Outcome(World, FALSE)
          <6>1. r.lost = TRUE
            BY <5>1 DEF Outcome
          <6> QED BY <3>3, <6>1
        <5> QED BY <2>3, <5>1
      <4>3. r.w.link[brand] = saved[brand]
        BY <2>2, <3>3, <4>1, <4>2 DEF Done
      <4>4. exposing' = After(Closing(brand), {saved[brand]}, saved[brand])
        BY <2>1, <2>2, <3>3, <4>1, <4>2, <4>3 DEF Done, Take
      <4>5. exposing' = {}
        BY <1>1, <4>4 DEF After, Closing
      <4> QED BY <1>1, <4>5 DEF HeldIsTheSavedOne
    <3> QED BY <3>1, <3>2, <3>3
  <2> QED BY <1>2, <2>4, <2>5, <2>6 DEF CameraInv
<1> QED BY <1>3, <1>4

\* A single shot in TRIGGER MODE leaves no shutter open that was not.
LEMMA ShotKeeps ==
  ASSUME CameraInv, TestShot \/ FireBluetoothIfEnabled
  PROVE  CameraInv'
<1>1. /\ RemoteTypeOK /\ Alive /\ mode = "trigger" /\ brand # "None"
      /\ UNCHANGED <<mode, enabled, brand, saved, pairReq, bulb, held, lost>> /\ Stray
  BY DEF CameraInv, TestShot, FireBluetoothIfEnabled, Browsing
<1>2. PICK r \in TriggerPhoto(World) : Take(r)
  BY DEF TestShot, FireBluetoothIfEnabled
<1>3. World \in Worlds /\ World.link = link /\ World.exposing = exposing
  BY <1>1, ThisWorld
<1>4. \/ r = Outcome(World, FALSE)
      \/ brand \in Brands /\ Done(World, r, brand, Closing(brand))
  BY <1>1, <1>3, Triggered
<1>5. /\ strayed' \in BOOLEAN
      /\ link' \in [Brands -> Cameras \cup {"down", "closing"}]
      /\ panicked' \in {"no", "race", "blind"}
      /\ exposing' \in SUBSET Cameras
      /\ LinkIsTheChosenOne'
  <2>1. Closing(brand) \in {"open", "close", "press"}
    BY DEF Closing
  <2> QED BY <1>1, <1>2, <1>4, <2>1, CommandKeeps
<1>6. RemoteTypeOK'
  BY <1>1, <1>5 DEF RemoteTypeOK
<1>7. HeldInBulbMode'
  BY <1>1 DEF CameraInv, HeldInBulbMode
<1>8. ~held
  BY <1>1 DEF CameraInv, HeldInBulbMode
<1>9. HeldIsTheSavedOne'
  <2> SUFFICES ASSUME lost = "no" PROVE exposing' = {}
    BY <1>1, <1>8 DEF HeldIsTheSavedOne
  <2>1. exposing = {}
    BY <1>8 DEF CameraInv, HeldIsTheSavedOne
  <2>2. exposing' = r.w.exposing
    BY <1>2 DEF Take
  <2>3. CASE r = Outcome(World, FALSE) \/ r.lost
    BY <1>3, <1>4, <2>1, <2>2, <2>3 DEF Outcome, Done
  <2>4. CASE ~r.lost /\ Done(World, r, brand, Closing(brand))
    <3>1. exposing' = After(Closing(brand), {}, r.w.link[brand])
      BY <1>3, <2>1, <2>2, <2>4 DEF Done
    <3> QED BY <1>1, <3>1 DEF After, Closing
  <2> QED BY <1>4, <2>3, <2>4
<1> QED BY <1>5, <1>6, <1>7, <1>9 DEF CameraInv

\* A pairing leaves the link as it was, on its way down, cleared, or at the
\* camera that was found, where one that succeeds leads; Sony's over a live
\* connection keeps the old camera's.
LEMMA Paired ==
  ASSUME RemoteTypeOK, brand \in Brands, NEW cam \in Cameras, NEW r \in Pairings(cam)
  PROVE  /\ r.w \in Worlds /\ r.ok \in BOOLEAN
         /\ \A o \in Brands \ {brand} : r.w.link[o] = link[o]
         /\ r.ok /\ (brand # "Sony" \/ link[brand] = "down") => r.w.link[brand] = cam
<1>1. World \in Worlds /\ World.link = link
  BY ThisWorld
<1>2. CASE brand # "Canon"
  <2>1. r \in ConnectTo(World, brand, cam)
    BY <1>2 DEF Pairings
  <2> QED BY <1>1, <2>1, Connected DEF Reached
<1>3. CASE brand = "Canon"
  <2>1. PICK q \in CanonConnectTo(World, cam) :
          r \in IF q.ok
                THEN UNION { CanonConnectTo(Linked(q.w, "Canon", now), cam) : now \in {cam, "down"} }
                ELSE {q}
    BY <1>3 DEF Pairings
  <2>2. Reached(World, q, brand)
    BY <1>1, <1>3, Attempted DEF CanonConnectTo
  <2>3. CASE ~q.ok
    BY <1>1, <1>3, <2>1, <2>2, <2>3 DEF Reached
  <2>4. CASE q.ok
    <3>1. PICK now \in {cam, "down"} : r \in CanonConnectTo(Linked(q.w, "Canon", now), cam)
      BY <2>1, <2>4
    <3> DEFINE again == Linked(q.w, brand, now)
    <3>2. /\ again \in Worlds
          /\ \A o \in Brands \ {brand} : again.link[o] = link[o]
      BY <1>1, <2>2, LinkedWorld DEF Reached
    <3>3. r \in Attempts(again, brand, cam)
      BY <1>3, <3>1 DEF CanonConnectTo
    <3> HIDE DEF again
    <3>4. Reached(again, r, brand) /\ (r.ok => r.w.link[brand] = cam)
      BY <3>2, <3>3, Attempted
    <3> QED BY <3>2, <3>4 DEF Reached
  <2> QED BY <2>3, <2>4
<1> QED BY <1>2, <1>3

\* A pairing changes the identity in NVS only to the camera connected, or to
\* Sony's found over a live connection.
LEMMA PairKeeps ==
  ASSUME CameraInv, DoBtPair
  PROVE  CameraInv'
<1>1. /\ RemoteTypeOK /\ Alive /\ brand \in Brands /\ mode = "trigger" /\ pairReq' = FALSE
      /\ UNCHANGED <<mode, enabled, brand, bulb, held, panicked, exposing, lost>>
  BY DEF CameraInv, HeldInBulbMode, DoBtPair
<1>2. ~held /\ ~bulb
  BY <1>1 DEF CameraInv, HeldInBulbMode
<1>3. HeldInBulbMode' /\ HeldIsTheSavedOne'
  BY <1>1, <1>2 DEF CameraInv, HeldInBulbMode, HeldIsTheSavedOne
<1>4. CASE UNCHANGED <<saved, link, strayed>>
  BY <1>1, <1>3, <1>4 DEF CameraInv, RemoteTypeOK, LinkIsTheChosenOne
<1>5. CASE ~(UNCHANGED <<saved, link, strayed>>)
  <2>1. PICK cam \in Cameras : \E r \in Pairings(cam) :
          /\ link' = r.w.link
          /\ saved' = IF r.ok THEN [saved EXCEPT ![brand] = cam] ELSE saved
          /\ strayed' = /\ link'[brand] \in Cameras
                        /\ ~r.ok \/ (brand = "Sony" /\ link[brand] # "down")
    BY <1>5 DEF DoBtPair
  <2>2. PICK r \in Pairings(cam) :
          /\ link' = r.w.link
          /\ saved' = IF r.ok THEN [saved EXCEPT ![brand] = cam] ELSE saved
          /\ strayed' = /\ link'[brand] \in Cameras
                        /\ ~r.ok \/ (brand = "Sony" /\ link[brand] # "down")
    BY <2>1
  <2>3. /\ r.w \in Worlds /\ r.ok \in BOOLEAN
        /\ \A o \in Brands \ {brand} : link'[o] = link[o]
        /\ r.ok /\ (brand # "Sony" \/ link[brand] = "down") => link'[brand] = cam
    BY <1>1, <2>2, Paired
  <2>4. saved' \in [Brands -> Cameras \cup {NoCamera}]
    BY <1>1, <2>2 DEF RemoteTypeOK
  <2>5. RemoteTypeOK'
    <3>1. strayed' \in BOOLEAN
      BY <2>2, Zenon
    <3> QED BY <1>1, <2>2, <2>3, <2>4, <3>1 DEF RemoteTypeOK, Worlds
  <2>6. LinkIsTheChosenOne'
    <3>1. \A o \in Brands \ {brand} : link'[o] \notin Cameras
      BY <2>3 DEF CameraInv, LinkIsTheChosenOne
    <3>2. ASSUME link'[brand] \in Cameras, ~strayed'
          PROVE  link'[brand] = saved'[brand]
      <4>1. r.ok /\ (brand # "Sony" \/ link[brand] = "down")
        BY <2>2, <3>2, Zenon
      <4> QED BY <1>1, <2>2, <2>3, <4>1 DEF RemoteTypeOK
    <3> QED BY <1>1, <3>1, <3>2 DEF CameraInv, LinkIsTheChosenOne
  <2> QED BY <1>3, <2>5, <2>6 DEF CameraInv
<1> QED BY <1>4, <1>5

\* A driver asked to disconnect has no link to a camera, and the others have
\* what they had.
LEMMA AsksToDisconnect ==
  ASSUME RemoteTypeOK, NEW b \in Brands
  PROVE  /\ Disconnected(link, b) \in [Brands -> Cameras \cup {"down", "closing"}]
         /\ Disconnected(link, b)[b] \notin Cameras
         /\ \A o \in Brands \ {b} : Disconnected(link, b)[o] = link[o]
BY NamesApart DEF RemoteTypeOK, Disconnected

\* The rows of TRIGGER MODE.
LEMMA RowKeeps ==
  ASSUME CameraInv, ToggleBluetooth \/ SetBrand \/ RequestPair \/ ForgetCamera
  PROVE  CameraInv'
<1>1. /\ RemoteTypeOK /\ Alive /\ mode = "trigger"
      /\ UNCHANGED <<mode, bulb, held, panicked, exposing, lost>>
      /\ pairReq' \in BOOLEAN /\ enabled' \in BOOLEAN
      /\ Stray \/ strayed' = strayed
  BY DEF CameraInv, RemoteTypeOK, ToggleBluetooth, SetBrand, RequestPair, ForgetCamera, Browsing
<1>0. strayed' \in BOOLEAN
  BY <1>1 DEF Stray, RemoteTypeOK
<1>2. ~held /\ ~bulb
  BY <1>1 DEF CameraInv, HeldInBulbMode
<1>3. HeldIsTheSavedOne'
  BY <1>1, <1>2 DEF CameraInv, HeldIsTheSavedOne
<1>4. \A o \in Brands : o # brand => link[o] \notin Cameras
  BY DEF CameraInv, LinkIsTheChosenOne
<1>5. panicked = "no" /\ panicked' = "no"
  BY <1>1 DEF Alive
<1>6. CASE ToggleBluetooth
  <2>1. UNCHANGED <<brand, saved, pairReq>> /\ Stray
    BY <1>6 DEF ToggleBluetooth
  <2>2. /\ link' \in [Brands -> Cameras \cup {"down", "closing"}]
        /\ \A o \in Brands : link'[o] = link[o] \/ link'[o] \notin Cameras
    BY <1>1, <1>6, AsksToDisconnect DEF ToggleBluetooth, RemoteTypeOK
  <2>3. LinkIsTheChosenOne'
    <3> SUFFICES ASSUME NEW b \in Brands, link'[b] \in Cameras
                 PROVE  b = brand /\ (strayed' \/ link'[b] = saved[b])
      BY <1>5, <2>1 DEF LinkIsTheChosenOne
    <3>1. link'[b] = link[b]
      BY <2>2
    <3> QED BY <2>1, <3>1, BrandsNotNone DEF CameraInv, LinkIsTheChosenOne, Stray
  <2> QED BY <1>0, <1>1, <1>2, <1>3, <2>1, <2>2, <2>3 DEF CameraInv, RemoteTypeOK, HeldInBulbMode
<1>7. CASE SetBrand
  <2>1. UNCHANGED <<enabled, saved, pairReq>> /\ ~pairReq /\ brand' = NextBrand
    BY <1>7 DEF SetBrand, Browsing
  <2>2. /\ link' \in [Brands -> Cameras \cup {"down", "closing"}]
        /\ \A o \in Brands : link'[o] \notin Cameras
    <3>1. CASE brand = "None"
      <4>1. link' = link /\ brand \notin Brands
        BY <1>7, <3>1 DEF SetBrand, Brands
      <4> QED BY <1>1, <1>4, <4>1 DEF RemoteTypeOK
    <3>2. CASE brand # "None"
      <4>1. link' = Disconnected(link, brand) /\ brand \in Brands
        BY <1>1, <1>7, <3>2 DEF SetBrand, RemoteTypeOK
      <4> QED BY <1>1, <1>4, <4>1, AsksToDisconnect
    <3> QED BY <3>1, <3>2
  <2>3. LinkIsTheChosenOne'
    BY <1>5, <2>2 DEF LinkIsTheChosenOne
  <2>4. brand' \in Brands \cup {"None"}
    BY <1>1, <2>1, BrandSteps
  <2> QED BY <1>0, <1>1, <1>2, <1>3, <2>1, <2>2, <2>3, <2>4 DEF CameraInv, RemoteTypeOK, HeldInBulbMode
<1>8. CASE RequestPair
  <2>1. UNCHANGED <<enabled, brand, saved, link, strayed>> /\ brand \in Brands
    BY <1>1, <1>8 DEF RequestPair, RemoteTypeOK
  <2> QED BY <1>1, <1>2, <1>3, <1>5, <2>1
          DEF CameraInv, RemoteTypeOK, HeldInBulbMode, LinkIsTheChosenOne
<1>9. CASE ForgetCamera
  <2>1. /\ UNCHANGED <<enabled, brand, pairReq>> /\ brand \in Brands
        /\ link' = Disconnected(link, brand) /\ saved' = [saved EXCEPT ![brand] = NoCamera]
    BY <1>1, <1>9 DEF ForgetCamera, RemoteTypeOK
  <2>2. /\ link' \in [Brands -> Cameras \cup {"down", "closing"}]
        /\ \A o \in Brands : link'[o] \notin Cameras
    BY <1>1, <1>4, <2>1, AsksToDisconnect
  <2>3. LinkIsTheChosenOne'
    BY <1>5, <2>2 DEF LinkIsTheChosenOne
  <2>4. saved' \in [Brands -> Cameras \cup {NoCamera}]
    BY <1>1, <2>1 DEF RemoteTypeOK
  <2> QED BY <1>0, <1>1, <1>2, <1>3, <2>1, <2>2, <2>3, <2>4 DEF CameraInv, RemoteTypeOK, HeldInBulbMode
<1> QED BY <1>6, <1>7, <1>8, <1>9

\* The modes that hold, the stack, the crash and the photographer.
LEMMA AroundKeeps ==
  ASSUME CameraInv, SwitchMode \/ Reset \/ CloseByHand \/ (\E b \in Brands : OnDisconnect(b))
  PROVE  CameraInv'
<1>1. RemoteTypeOK
  BY DEF CameraInv
<1>2. CASE SwitchMode
  <2>1. /\ UNCHANGED <<enabled, brand, saved, link, pairReq, bulb, held, panicked, exposing, lost,
                     strayed>>
        /\ mode' \in {"trigger", "bulb"} /\ ~bulb /\ ~pairReq
    BY <1>2 DEF SwitchMode
  <2> QED BY <1>1, <2>1
          DEF CameraInv, RemoteTypeOK, LinkIsTheChosenOne, HeldInBulbMode, HeldIsTheSavedOne, Alive
<1>3. CASE Reset
  <2>1. /\ UNCHANGED <<enabled, brand, saved, pairReq, exposing, lost>>
        /\ mode' = "trigger" /\ link' = [b \in Brands |-> "down"]
        /\ bulb' = FALSE /\ held' = FALSE /\ panicked' = "no" /\ ~Alive
        /\ strayed' = FALSE
    BY <1>3 DEF Reset
  <2>2. RemoteTypeOK'
    BY <1>1, <2>1 DEF RemoteTypeOK
  <2>3. LinkIsTheChosenOne'
    BY <2>1, NamesApart DEF LinkIsTheChosenOne
  <2> QED BY <2>1, <2>2, <2>3 DEF CameraInv, HeldInBulbMode, HeldIsTheSavedOne
<1>4. CASE CloseByHand
  <2>1. /\ UNCHANGED <<mode, enabled, brand, saved, link, pairReq, bulb, held, panicked, strayed>>
        /\ exposing' = {} /\ lost' = IF bulb THEN "hand" ELSE "no"
    BY <1>4 DEF CloseByHand
  <2>2. RemoteTypeOK'
    BY <1>1, <2>1 DEF RemoteTypeOK
  <2> QED BY <2>1, <2>2 DEF CameraInv, LinkIsTheChosenOne, HeldInBulbMode, HeldIsTheSavedOne
<1>5. CASE \E b \in Brands : OnDisconnect(b)
  <2>1. PICK b \in Brands : OnDisconnect(b)
    BY <1>5
  <2>2. /\ UNCHANGED <<mode, enabled, brand, saved, pairReq, bulb, held, panicked, exposing, lost>>
        /\ link' = [link EXCEPT ![b] = "down"] /\ Stray
    BY <2>1 DEF OnDisconnect
  <2>3. /\ link' \in [Brands -> Cameras \cup {"down", "closing"}]
        /\ \A o \in Brands : link'[o] \in {link[o], "down"}
    BY <1>1, <2>2 DEF RemoteTypeOK
  <2>4. RemoteTypeOK'
    <3>1. strayed' \in BOOLEAN
      BY <2>2 DEF Stray
    <3> QED BY <1>1, <2>2, <2>3, <3>1 DEF RemoteTypeOK
  <2>5. LinkIsTheChosenOne'
    <3> SUFFICES ASSUME NEW o \in Brands, link'[o] \in Cameras
                 PROVE  o = brand /\ (strayed' \/ link'[o] = saved[o])
      BY <2>2 DEF CameraInv, LinkIsTheChosenOne
    <3>1. link'[o] = link[o]
      BY <2>3, NamesApart
    <3> QED BY <2>2, <3>1, BrandsNotNone DEF CameraInv, LinkIsTheChosenOne, Stray
  <2>6. HeldIsTheSavedOne'
    BY <2>2, <2>3, NamesApart DEF CameraInv, HeldIsTheSavedOne, Alive
  <2> QED BY <2>2, <2>4, <2>5, <2>6 DEF CameraInv, HeldInBulbMode
<1> QED BY <1>2, <1>3, <1>4, <1>5

LEMMA RemoteInitInv == RemoteInit => CameraInv
<1> SUFFICES ASSUME RemoteInit PROVE CameraInv
  OBVIOUS
<1>1. RemoteTypeOK
  BY DEF RemoteInit, RemoteTypeOK
<1>2. LinkIsTheChosenOne
  BY NamesApart DEF RemoteInit, LinkIsTheChosenOne
<1> QED BY <1>1, <1>2 DEF RemoteInit, CameraInv, HeldInBulbMode, HeldIsTheSavedOne

LEMMA RemoteStepInv == CameraInv /\ [RemoteNext]_remoteVars => CameraInv'
<1> SUFFICES ASSUME CameraInv, [RemoteNext]_remoteVars PROVE CameraInv'
  OBVIOUS
<1>1. CASE UNCHANGED remoteVars
  BY <1>1 DEF remoteVars, CameraInv, RemoteTypeOK, LinkIsTheChosenOne, HeldInBulbMode,
              HeldIsTheSavedOne, Alive
<1>2. CASE OpenBulb
  BY <1>2, OpenBulbKeeps
<1>3. CASE CloseBulb
  BY <1>3, CloseBulbKeeps
<1>4. CASE TestShot \/ FireBluetoothIfEnabled
  BY <1>4, ShotKeeps
<1>5. CASE DoBtPair
  BY <1>5, PairKeeps
<1>6. CASE ToggleBluetooth \/ SetBrand \/ RequestPair \/ ForgetCamera
  BY <1>6, RowKeeps
<1>7. CASE SwitchMode \/ Reset \/ CloseByHand \/ (\E b \in Brands : OnDisconnect(b))
  BY <1>7, AroundKeeps
<1> QED BY <1>1, <1>2, <1>3, <1>4, <1>5, <1>6, <1>7 DEF RemoteNext

\* The camera invariant holds in every state of every behaviour of the
\* Bluetooth channel.
THEOREM RemoteInvariance == RemoteSpec => []CameraInv
BY RemoteInitInv, RemoteStepInv, PTL DEF RemoteSpec

\* Every variable of the Bluetooth channel keeps its range.
THEOREM RemoteTypeCorrect == RemoteSpec => []RemoteTypeOK
<1>1. CameraInv => RemoteTypeOK
  BY DEF CameraInv
<1> QED BY <1>1, RemoteInvariance, PTL

\* Whatever cameras answer, drop or are paired, only the driver in use has a
\* command handle, to the very camera in NVS unless it was left by a pairing that
\* failed or ran over a live connection; and only Sony's ever writes without one.
THEOREM LinkStaysTheChosenOne == RemoteSpec => []LinkIsTheChosenOne
<1>1. CameraInv => LinkIsTheChosenOne
  BY DEF CameraInv
<1> QED BY <1>1, RemoteInvariance, PTL

\* Through links that drop, releases tried again and resets, the camera's
\* shutter stands open exactly while the firmware believes that it holds it,
\* unless a command of the exposure was lost on the air, or the shutter stood
\* open when it began or was closed by hand.
THEOREM CameraKeepsStep == RemoteSpec => []CameraFollowsBulb
<1>1. CameraInv => CameraFollowsBulb
  BY DEF CameraInv, HeldIsTheSavedOne, CameraFollowsBulb
<1> QED BY <1>1, RemoteInvariance, PTL

=============================================================================
