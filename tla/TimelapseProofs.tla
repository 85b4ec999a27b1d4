--------------------------- MODULE TimelapseProofs ---------------------------
(***************************************************************************)
(* Proofs about Timelapse, for every value of its constants that satisfies *)
(* TimelapseAssumption and LineAssumption.                                 *)
(*                                                                         *)
(* Type correctness needs no more.  The other results are about every      *)
(* behaviour that no autostart can surprise (Calm): the wake was not a     *)
(* scheduled one, or the countdown ends before the first shot is due.      *)
(***************************************************************************)
EXTENDS Timelapse, TLAPS

(* No interval is shorter than the countdown of a scheduled wake. *)
QuietWake == AutoDelay <= MinInterval

(* No countdown runs, or none that a shot can come due under. *)
Calm == ~autoPending \/ QuietWake

(* Only a running sequence has an exposure open; what its press flags name is
   what it holds, and without one nothing is held and the lock is free. *)
HoldInv ==
  /\ exposing => running /\ where = "timelapse" /\ held = fired
  /\ ~exposing => held = {}
  /\ lock <=> exposing

(* While the countdown of a scheduled wake runs, no shot has come due. *)
CountdownInv ==
  autoPending =>
    /\ ~exposing
    /\ where = "timelapse" =>
         /\ autoLeft = 0 \/ rest + autoLeft <= AutoDelay
         /\ phase # "auto" => autoLeft > 0

(* From update() to the end of the lap the shutter has been open for less than
   the longest exposure time in force, which the row never exceeds. *)
CapInv ==
  exposing =>
    /\ config.exposure <= openCap
    /\ age < openCap + MaxLag
    /\ phase \in {"input", "pause"} => age < openCap

(* The timer of an exposure starts when its press over BLE returns: its lines
   are ahead of it by no more than that press can block. *)
LineInv == exposing => lineAge <= age + PressTime

(* Where the next shot waits for its rest, lastShotTime is no older than the
   end of the last exposure or the beginning of the last tap. *)
RestInv == running /\ ~exposing /\ ~settling => rest <= sinceShot

(* The inductive invariant. *)
IInv == TypeOK /\ HoldInv /\ CountdownInv /\ CapInv /\ LineInv /\ RestInv

-----------------------------------------------------------------------------
(* Type correctness, in three parts.                                       *)

(* The switches, and the values drawn from small sets. *)
FlagsOK ==
  /\ where \in {"menu", "timelapse"}
  /\ phase \in {"auto", "update", "input", "pause"}
  /\ exitReq \in BOOLEAN /\ dying \in BOOLEAN /\ autoPending \in BOOLEAN
  /\ running \in BOOLEAN /\ paused \in BOOLEAN
  /\ exposing \in BOOLEAN /\ settling \in BOOLEAN /\ lock \in BOOLEAN
  /\ out \in {"", "TAP", "BULB"}

(* The channels. *)
ChannelsOK ==
  enabled \in SUBSET Channels /\ held \in SUBSET Channels /\ fired \in SUBSET Channels

(* The times and the count. *)
NumbersOK ==
  /\ autoLeft \in 0..AutoDelay
  /\ age \in 0..AgeBound /\ rest \in 0..RestBound
  /\ shotCount \in 0..TotalLimit
  /\ openCap \in 0..ExposureLimit /\ sinceShot \in 0..RestBound
  /\ lineAge \in 0..(AgeBound + PressTime)

(* The parts make up the type invariant. *)
LEMMA TypeParts == TypeOK <=> FlagsOK /\ ChannelsOK /\ NumbersOK /\ config \in Configs
BY DEF TypeOK, FlagsOK, ChannelsOK, NumbersOK

(* Each field of the configuration lies within its limits. *)
LEMMA ConfigFields ==
  ASSUME config \in Configs
  PROVE  /\ config.interval \in MinInterval..IntervalLimit /\ config.total \in 0..TotalLimit
         /\ config.bulb \in BOOLEAN
         /\ config.exposure \in 1..ExposureLimit /\ config.settle \in 0..SettleLimit
BY DEF Configs

(* Whether a settle pause follows a shot is a truth value. *)
LEMMA SettleFlag ==
  ASSUME config \in Configs
  PROVE  (config.settle > 0) \in BOOLEAN
BY ConfigFields, TimelapseAssumption DEF TimelapseAssumption

(* The initial state is typed. *)
LEMMA InitType ==
  ASSUME Init
  PROVE  TypeOK
<1>1. FlagsOK /\ ChannelsOK
  BY Zenon DEF Init, FlagsOK, ChannelsOK
<1>2. NumbersOK
  <2>1. /\ autoLeft = AutoDelay /\ age = 0 /\ rest = 0 /\ shotCount = 0
        /\ openCap = 0 /\ lineAge = 0 /\ sinceShot = RestBound
    BY Zenon DEF Init
  <2>2. QED
    BY <2>1, TimelapseAssumption DEF TimelapseAssumption, NumbersOK
<1>3. QED
  BY <1>1, <1>2, TypeParts DEF Init

(* Whatever row is turned or solved for, the configuration keeps its limits. *)
LEMMA EditedTyped ==
  ASSUME config \in Configs, NEW new \in Edited \cup {[config EXCEPT !.bulb = ~@]}
  PROVE  new \in Configs
<1>1. /\ config = [interval |-> config.interval, total |-> config.total, bulb |-> config.bulb,
                   exposure |-> config.exposure, settle |-> config.settle]
      /\ config.interval \in MinInterval..IntervalLimit /\ config.total \in 0..TotalLimit
      /\ config.bulb \in BOOLEAN
      /\ config.exposure \in 1..ExposureLimit /\ config.settle \in 0..SettleLimit
  BY DEF Configs
<1>2. CASE new \in Calculated
  <2>1. PICK t \in 1..TotalLimit :
          new \in {[config EXCEPT !.total = t, !.interval = i] : i \in MinInterval..IntervalLimit}
    BY <1>2, Zenon DEF Calculated
  <2>2. PICK i \in MinInterval..IntervalLimit : new = [config EXCEPT !.total = t, !.interval = i]
    BY <2>1, Zenon
  <2>3. new = [interval |-> i, total |-> t, bulb |-> config.bulb,
               exposure |-> config.exposure, settle |-> config.settle]
    BY <1>1, <2>2
  <2>4. QED
    BY <1>1, <2>3, TimelapseAssumption DEF TimelapseAssumption, Configs
<1>3. CASE new = [config EXCEPT !.bulb = ~@]
  BY <1>1, <1>3 DEF Configs
<1>4. ASSUME NEW d \in {-1, 1},
             new \in {TurnInterval(d), TurnTotal(d), TurnExposure(d), TurnSettle(d)}
      PROVE  new \in Configs
  <2>1. /\ Clamp(MinInterval, IntervalLimit, config.interval + d) \in MinInterval..IntervalLimit
        /\ Clamp(0, TotalLimit, config.total + d) \in 0..TotalLimit
        /\ Clamp(1, ExposureLimit, config.exposure + d) \in 1..ExposureLimit
        /\ Clamp(0, SettleLimit, config.settle + d) \in 0..SettleLimit
    BY <1>1, TimelapseAssumption DEF TimelapseAssumption, Clamp, AtMost, AtLeast
  <2>2. QED
    BY <1>1, <1>4, <2>1 DEF TurnInterval, TurnTotal, TurnExposure, TurnSettle, Configs
<1>5. QED
  BY <1>2, <1>3, <1>4 DEF Edited

(* Every step keeps the configuration within its limits. *)
LEMMA ConfigStep ==
  ASSUME TypeOK, [Next]_vars
  PROVE  config' \in Configs
<1>1. config \in Configs
  BY DEF TypeOK
<1>2. CASE EditRow
  BY <1>1, <1>2, EditedTyped DEF EditRow, EditConfig
<1>3. CASE LongPress
  BY <1>1, <1>3, EditedTyped DEF LongPress
<1>4. CASE EnterMode
  BY <1>4 DEF EnterMode
<1>5. CASE UNCHANGED config
  BY <1>1, <1>5
<1>6. QED
  BY <1>2, <1>3, <1>4, <1>5
     DEF Next, Lap, Autostart, NoAutostart, Update, NoInput, PressControl, Pause, LeaveLoop,
         BatteryCritical, PowerCycle, vars, configVars

(* Every step keeps the switches typed. *)
LEMMA FlagsStep ==
  ASSUME TypeOK, [Next]_vars
  PROVE  FlagsOK'
<1> USE DEF TypeOK, FlagsOK
<1>1. CASE Autostart \/ NoAutostart
  BY <1>1, Zenon
     DEF Autostart, NoAutostart, Advance, InLap, StartRun, autoVars, sequenceVars, shutterVars
<1>2. CASE Update
  <2>1. where' \in {"menu", "timelapse"} /\ phase' = "input"
    BY <1>2, Zenon DEF Update, Advance
  <2>2. exitReq' \in BOOLEAN /\ dying' \in BOOLEAN /\ autoPending' \in BOOLEAN
    BY <1>2, Zenon DEF Update, Advance
  <2>3. /\ running' \in BOOLEAN /\ paused' \in BOOLEAN
        /\ exposing' \in BOOLEAN /\ settling' \in BOOLEAN /\ lock' \in BOOLEAN
        /\ out' \in {"", "TAP", "BULB"}
    <3>1. CASE EndBulbExposure
      <4>1. settling' \in BOOLEAN
        <5>1. settling' = (config.settle > 0)
          BY <3>1, Zenon DEF EndBulbExposure
        <5>2. QED
          BY <5>1, SettleFlag, Zenon
      <4>2. QED
        BY <3>1, <4>1, Zenon DEF EndBulbExposure, Release
    <3>2. CASE EndSettle \/ FinishSequence
      BY <3>2, Zenon DEF EndSettle, FinishSequence, shutterVars
    <3>3. CASE \E d \in PressTimes : StartBulbExposure(d)
      BY <3>3, Zenon DEF StartBulbExposure, shutterVars
    <3>4. CASE \E d \in PressTimes : TriggerCamera(d)
      BY <3>4, Zenon DEF TriggerCamera, shutterVars
    <3>5. CASE NothingDue
      BY <3>5, Zenon DEF NothingDue, sequenceVars, shutterVars
    <3>6. QED
      BY <1>2, <3>1, <3>2, <3>3, <3>4, <3>5, Zenon DEF Update
  <2>4. QED
    BY <2>1, <2>2, <2>3, Zenon
<1>3. CASE NoInput \/ PressControl \/ EditRow \/ LongPress
  BY <1>3, Zenon
     DEF NoInput, PressControl, EditRow, LongPress, Advance, ToggleRunPause, StartRun, StopRun,
         PauseRun, ResumeRun, ForceReleaseBulbIfExposing, Release, autoVars, sequenceVars,
         shutterVars
<1>4. CASE (\E d \in 1..MaxLag : Pause(d)) \/ LeaveLoop
  BY <1>4, Zenon
     DEF Pause, LeaveLoop, Advance, StopRun, ForceReleaseBulbIfExposing, Release, shutterVars
<1>5. CASE BatteryCritical \/ EnterMode \/ PowerCycle
  BY <1>5, Zenon DEF BatteryCritical, EnterMode, PowerCycle, autoVars, sequenceVars, shutterVars
<1>6. CASE UNCHANGED vars
  <2>1. /\ where' = where /\ phase' = phase /\ out' = out
        /\ exitReq' = exitReq /\ dying' = dying /\ autoPending' = autoPending
        /\ running' = running /\ paused' = paused
        /\ exposing' = exposing /\ settling' = settling /\ lock' = lock
    BY <1>6 DEF vars, loopVars, autoVars, sequenceVars, shutterVars
  <2>2. /\ where' \in {"menu", "timelapse"} /\ phase' \in {"auto", "update", "input", "pause"}
        /\ out' \in {"", "TAP", "BULB"}
    BY <2>1
  <2>3. exitReq' \in BOOLEAN /\ dying' \in BOOLEAN /\ autoPending' \in BOOLEAN
    BY <2>1, Zenon
  <2>4. running' \in BOOLEAN /\ paused' \in BOOLEAN
    BY <2>1, Zenon
  <2>5. exposing' \in BOOLEAN /\ settling' \in BOOLEAN /\ lock' \in BOOLEAN
    BY <2>1, Zenon
  <2>6. QED
    BY <2>2, <2>3, <2>4, <2>5, Zenon
<1>7. QED
  BY <1>1, <1>2, <1>3, <1>4, <1>5, <1>6, Zenon DEF Next, Lap

(* Every step keeps the channels within those there are. *)
LEMMA ChannelsStep ==
  ASSUME TypeOK, [Next]_vars
  PROVE  ChannelsOK'
<1> USE DEF TypeOK, ChannelsOK
<1>1. ASSUME Press
      PROVE  held' \in SUBSET Channels /\ fired' \in SUBSET Channels
  <2>1. Lines \in SUBSET Channels
    BY LineAssumption DEF LineAssumption, Lines, Channels
  <2>2. QED
    BY <1>1, <2>1 DEF Press
<1>2. ASSUME Release
      PROVE  held' \in SUBSET Channels /\ fired' \in SUBSET Channels
  BY <1>2 DEF Release
<1>3. CASE UNCHANGED <<enabled, held, fired>>
  BY <1>3
<1>4. CASE Autostart \/ NoAutostart \/ NoInput \/ EditRow \/ (\E d \in 1..MaxLag : Pause(d))
           \/ BatteryCritical
  BY <1>4, <1>3
     DEF Autostart, NoAutostart, StartRun, NoInput, EditRow, Pause, BatteryCritical, configVars,
         shutterVars
<1>5. CASE Update
  BY <1>5, <1>1, <1>2, <1>3
     DEF Update, EndBulbExposure, EndSettle, FinishSequence, StartBulbExposure, TriggerCamera,
         NothingDue, configVars, shutterVars
<1>6. CASE PressControl \/ LongPress \/ LeaveLoop
  BY <1>6, <1>2, <1>3
     DEF PressControl, LongPress, LeaveLoop, ToggleRunPause, StartRun, StopRun, PauseRun,
         ResumeRun, ForceReleaseBulbIfExposing, configVars, shutterVars
<1>7. CASE EnterMode \/ PowerCycle
  BY <1>7 DEF EnterMode, PowerCycle, configVars
<1>8. CASE UNCHANGED vars
  BY <1>8 DEF vars, configVars, shutterVars
<1>9. QED
  BY <1>4, <1>5, <1>6, <1>7, <1>8 DEF Next, Lap

(* Every step keeps the times and the count within their bounds. *)
LEMMA NumbersStep ==
  ASSUME TypeOK, [Next]_vars
  PROVE  NumbersOK'
<1>1. NumbersOK /\ config \in Configs
  BY TypeParts
<1>2. /\ AutoDelay \in Nat /\ AgeBound \in Nat /\ RestBound \in Nat
      /\ TotalLimit \in Nat \ {0} /\ ExposureLimit \in Nat \ {0} /\ MaxLag \in Nat \ {0}
      /\ PressTime \in Nat
  BY TimelapseAssumption DEF TimelapseAssumption
<1>3. config.exposure \in 0..ExposureLimit /\ config'.exposure \in 0..ExposureLimit
  <2>1. config'.exposure \in 1..ExposureLimit
    BY ConfigStep DEF Configs
  <2>2. config.exposure \in 1..ExposureLimit
    BY <1>1, ConfigFields
  <2>3. QED
    BY <1>2, <2>1, <2>2
<1>4. Counted \in 0..TotalLimit
  BY <1>1, <1>2 DEF NumbersOK, Counted, AtMost
<1> USE DEF NumbersOK
<1>5. CASE UNCHANGED <<autoLeft, age, rest, shotCount, openCap, lineAge, sinceShot>>
  BY <1>1, <1>5
<1>6. ASSUME ForceReleaseBulbIfExposing
      PROVE  /\ age' \in 0..AgeBound
             /\ openCap' \in 0..ExposureLimit /\ sinceShot' \in 0..RestBound
             /\ lineAge' \in 0..(AgeBound + PressTime)
  BY <1>1, <1>2, <1>6 DEF ForceReleaseBulbIfExposing, ShotEnded, historyVars
<1>7. ASSUME StartRun, UNCHANGED autoLeft
      PROVE  NumbersOK'
  BY <1>1, <1>2, <1>7 DEF StartRun
<1>8. ASSUME StopRun \/ PauseRun, UNCHANGED autoLeft
      PROVE  NumbersOK'
  BY <1>1, <1>2, <1>6, <1>8 DEF StopRun, PauseRun
<1>9. ASSUME ResumeRun, UNCHANGED autoLeft
      PROVE  NumbersOK'
  BY <1>1, <1>2, <1>9 DEF ResumeRun, historyVars
<1>10. CASE Update
  <2>1. CASE UNCHANGED autoLeft /\ (EndBulbExposure \/ EndSettle \/ FinishSequence)
    <3>1. /\ age' \in {0, age} /\ rest' \in {0, rest} /\ shotCount' \in {shotCount, Counted}
          /\ openCap' \in {0, openCap} /\ sinceShot' \in {0, sinceShot}
          /\ lineAge' \in {0, lineAge}
      <4>1. CASE EndBulbExposure
        BY <4>1, Zenon DEF EndBulbExposure, ShotEnded
      <4>2. CASE EndSettle \/ FinishSequence
        BY <4>2, Zenon DEF EndSettle, FinishSequence, historyVars
      <4>3. QED
        BY <2>1, <4>1, <4>2
    <3>2. QED
      BY <1>1, <1>2, <1>4, <2>1, <3>1
  <2>2. ASSUME NEW d \in PressTimes, StartBulbExposure(d) \/ TriggerCamera(d)
        PROVE  NumbersOK'
    <3>1. d \in 0..PressTime
      BY <1>2, <2>2 DEF PressTimes
    <3>2. d \in 0..(AgeBound + PressTime)
      BY <1>2, <3>1
    <3>3. AtMost(RestBound, d) \in 0..RestBound /\ AtLeast(0, autoLeft - d) \in 0..AutoDelay
      BY <1>1, <1>2, <3>1 DEF AtMost, AtLeast
    <3>4. CASE StartBulbExposure(d)
      <4>1. /\ age' \in {0, age} /\ rest' = rest /\ shotCount' = shotCount
            /\ openCap' \in {config.exposure, openCap} /\ sinceShot' = sinceShot
            /\ lineAge' \in {d, lineAge} /\ autoLeft' \in {AtLeast(0, autoLeft - d), autoLeft}
        BY <3>4, Zenon DEF StartBulbExposure
      <4>2. QED
        BY <1>1, <1>2, <1>3, <3>2, <3>3, <4>1
    <3>5. CASE TriggerCamera(d)
      <4>1. /\ age' = age /\ rest' \in {0, AtMost(RestBound, d)} /\ shotCount' = Counted
            /\ openCap' = openCap /\ sinceShot' \in {AtMost(RestBound, d), sinceShot}
            /\ lineAge' = lineAge /\ autoLeft' \in {AtLeast(0, autoLeft - d), autoLeft}
        BY <3>5, Zenon DEF TriggerCamera
      <4>2. QED
        BY <1>1, <1>2, <1>4, <3>3, <4>1
    <3>6. QED
      BY <2>2, <3>4, <3>5
  <2>3. CASE UNCHANGED autoLeft /\ NothingDue
    BY <1>1, <2>3 DEF NothingDue, sequenceVars, historyVars
  <2>4. QED
    BY <1>10, <2>1, <2>2, <2>3, Zenon DEF Update
<1>11. ASSUME NEW d \in 1..MaxLag, Pause(d)
       PROVE  NumbersOK'
  <2>1. /\ age' \in {AtMost(AgeBound, age + d), age} /\ rest' = AtMost(RestBound, rest + d)
        /\ sinceShot' \in {AtMost(RestBound, sinceShot + d), sinceShot}
        /\ autoLeft' = AtLeast(0, autoLeft - d)
        /\ shotCount' = shotCount /\ openCap' = openCap
        /\ lineAge' \in {AtMost(AgeBound + PressTime, lineAge + d), lineAge}
    BY <1>11, Zenon DEF Pause
  <2>2. QED
    BY <1>1, <1>2, <2>1 DEF AtMost, AtLeast
<1>12. CASE EditRow
  <2>1. openCap' \in 0..ExposureLimit
    BY <1>1, <1>2, <1>3, <1>12 DEF EditRow, EditConfig, AtLeast
  <2>2. UNCHANGED <<autoLeft, age, rest, shotCount, lineAge, sinceShot>>
    BY <1>12 DEF EditRow, autoVars, sequenceVars
  <2>3. QED
    BY <1>1, <2>1, <2>2
<1>13. CASE Autostart \/ PressControl \/ LongPress \/ LeaveLoop
  BY <1>13, <1>7, <1>8, <1>9
     DEF Autostart, PressControl, LongPress, LeaveLoop, ToggleRunPause, autoVars
<1>14. CASE EnterMode \/ PowerCycle
  <2>1. /\ autoLeft' \in {AutoDelay, autoLeft} /\ sinceShot' \in {RestBound, sinceShot}
        /\ age' = 0 /\ rest' = 0 /\ shotCount' = 0 /\ openCap' = 0 /\ lineAge' = 0
    BY <1>14 DEF EnterMode, PowerCycle, autoVars
  <2>2. QED
    BY <1>1, <1>2, <2>1
<1>15. CASE NoAutostart \/ NoInput \/ BatteryCritical \/ UNCHANGED vars
  BY <1>15, <1>5
     DEF NoAutostart, NoInput, BatteryCritical, vars, autoVars, sequenceVars, historyVars
<1>16. QED
  BY <1>10, <1>11, <1>12, <1>13, <1>14, <1>15 DEF Next, Lap

(* Every step keeps the type invariant. *)
LEMMA TypeStep ==
  ASSUME TypeOK, [Next]_vars
  PROVE  TypeOK'
<1>1. FlagsOK' /\ ChannelsOK' /\ NumbersOK' /\ config' \in Configs
  BY FlagsStep, ChannelsStep, NumbersStep, ConfigStep
<1>2. QED
  BY <1>1 DEF TypeOK, FlagsOK, ChannelsOK, NumbersOK

(* Type correctness, whatever the autostart does. *)
THEOREM TypeCorrect == Spec => []TypeOK
<1>1. TypeOK /\ [Next]_vars => TypeOK'
  BY TypeStep
<1>2. QED
  BY InitType, <1>1, PTL DEF Spec

-----------------------------------------------------------------------------
(* Every step keeps the other parts of the invariant.                      *)

(* The initial state satisfies the invariant. *)
LEMMA InitInv ==
  ASSUME Init
  PROVE  IInv
<1>1. HoldInv /\ CapInv /\ LineInv /\ RestInv
  BY Zenon DEF Init, HoldInv, CapInv, LineInv, RestInv
<1>2. CountdownInv
  BY Zenon DEF Init, CountdownInv
<1>3. QED
  BY InitType, <1>1, <1>2 DEF IInv

(* A close releases everything an exposure pressed. *)
LEMMA ReleaseAll ==
  ASSUME HoldInv, exposing, Release
  PROVE  held' = {} /\ lock' = FALSE
<1>1. held = fired
  BY Zenon DEF HoldInv
<1>2. held' = held \ fired
  BY Zenon DEF Release
<1>3. QED
  BY <1>1, <1>2, Zenon DEF Release

(* Control that cuts an exposure short leaves nothing held. *)
LEMMA ForceRelease ==
  ASSUME HoldInv, TypeOK, ForceReleaseBulbIfExposing
  PROVE  exposing' = FALSE /\ held' = {} /\ lock' = FALSE
<1>1. CASE exposing
  BY <1>1, ReleaseAll, Zenon DEF ForceReleaseBulbIfExposing
<1>2. CASE ~exposing
  <2>1. held = {} /\ lock = FALSE /\ held' = held /\ lock' = lock
    BY <1>2, Zenon DEF ForceReleaseBulbIfExposing, shutterVars, HoldInv, TypeOK
  <2>2. QED
    BY <2>1, Zenon DEF ForceReleaseBulbIfExposing
<1>3. QED
  BY <1>1, <1>2, Zenon

(* A running sequence holds what it pressed, and nothing is held without it. *)
LEMMA HoldStep ==
  ASSUME IInv, [Next]_vars
  PROVE  HoldInv'
<1>1. HoldInv /\ TypeOK /\ exposing \in BOOLEAN /\ lock \in BOOLEAN
  BY DEF IInv, TypeOK
<1>2. ASSUME exposing' = FALSE, held' = {}, lock' = FALSE
      PROVE  HoldInv'
  BY <1>2, Zenon DEF HoldInv
<1>3. ASSUME ~exposing, exposing' = FALSE, held' = held, lock' = lock
      PROVE  HoldInv'
  BY <1>1, <1>2, <1>3, Zenon DEF HoldInv
<1>4. ASSUME exposing' = exposing, held' = held, lock' = lock, fired' = fired,
             exposing => running' = running, where' = where
      PROVE  HoldInv'
  BY <1>1, <1>4, Zenon DEF HoldInv
<1>5. CASE Autostart
  <2>1. ~exposing
    BY <1>5, Zenon DEF Autostart, IInv, CountdownInv
  <2>2. QED
    BY <1>5, <2>1, <1>3, Zenon DEF Autostart, StartRun, shutterVars
<1>6. CASE Update
  <2>1. where' = where /\ where = "timelapse"
    BY <1>6 DEF Update, Advance, InLap
  <2>2. CASE EndBulbExposure
    <3>1. exposing /\ Release /\ exposing' = FALSE
      BY <2>2, Zenon DEF EndBulbExposure
    <3>2. QED
      BY <1>1, <3>1, <1>2, ReleaseAll, Zenon
  <2>3. CASE EndSettle \/ FinishSequence \/ (\E d \in PressTimes : TriggerCamera(d))
    <3>1. ~exposing /\ exposing' = exposing /\ held' = held /\ lock' = lock
      BY <2>3, Zenon DEF EndSettle, FinishSequence, TriggerCamera, Rested, shutterVars
    <3>2. QED
      BY <1>1, <3>1, <1>3, Zenon
  <2>4. CASE running /\ \E d \in PressTimes : StartBulbExposure(d)
    <3>1. ~exposing /\ ~lock /\ held = {}
      BY <1>1, <2>4, Zenon DEF StartBulbExposure, Rested, HoldInv
    <3>2. Press /\ lock' = TRUE /\ exposing' = TRUE /\ running' = running
      BY <2>4, <3>1, Zenon DEF StartBulbExposure
    <3>3. held' = fired'
      BY <3>1, <3>2 DEF Press
    <3>4. QED
      BY <2>1, <2>4, <3>2, <3>3, Zenon DEF HoldInv
  <2>5. CASE NothingDue
    <3>1. exposing' = exposing /\ held' = held /\ lock' = lock /\ fired' = fired
          /\ running' = running
      BY <2>5 DEF NothingDue, sequenceVars, shutterVars
    <3>2. QED
      BY <2>1, <3>1, <1>4, Zenon
  <2>6. QED
    BY <1>6, <2>2, <2>3, <2>4, <2>5, Zenon DEF Update
<1>7. CASE PressControl
  <2>1. where' = where
    BY <1>7 DEF PressControl, Advance
  <2>2. CASE running /\ PauseRun
    BY <1>1, <1>2, <2>2, ForceRelease, Zenon DEF PauseRun
  <2>3. CASE ~running /\ ResumeRun
    <3>1. ~exposing
      BY <1>1, <2>3, Zenon DEF HoldInv
    <3>2. exposing' = exposing /\ held' = held /\ lock' = lock
      BY <2>3 DEF ResumeRun, shutterVars
    <3>3. QED
      BY <1>1, <1>3, <3>1, <3>2, Zenon
  <2>4. CASE ~running /\ StartRun
    <3>1. ~exposing
      BY <1>1, <2>4, Zenon DEF HoldInv
    <3>2. exposing' = FALSE /\ held' = held /\ lock' = lock
      BY <2>4, Zenon DEF StartRun, shutterVars
    <3>3. QED
      BY <1>3, <3>1, <3>2, Zenon
  <2>5. QED
    BY <1>7, <2>2, <2>3, <2>4, Zenon DEF PressControl, ToggleRunPause
<1>8. CASE LongPress \/ LeaveLoop
  <2>1. ForceReleaseBulbIfExposing
    BY <1>8, Zenon DEF LongPress, LeaveLoop, StopRun
  <2>2. QED
    BY <1>1, <1>2, <2>1, ForceRelease, Zenon
<1>9. CASE EnterMode
  <2>1. ~exposing /\ held = {} /\ lock = FALSE
    <3>1. ~exposing
      <4>1. where # "timelapse"
        BY <1>9 DEF EnterMode
      <4>2. QED
        BY <1>1, <4>1, Zenon DEF HoldInv
    <3>2. QED
      BY <1>1, <3>1, Zenon DEF HoldInv
  <2>2. held' = held \ Gpio
    BY <1>9, Zenon DEF EnterMode
  <2>3. held' = {}
    BY <2>1, <2>2
  <2>4. QED
    BY <1>2, <1>9, <2>1, <2>3, Zenon DEF EnterMode
<1>10. CASE PowerCycle
  BY <1>2, <1>10, Zenon DEF PowerCycle
<1>11. CASE NoAutostart \/ NoInput \/ EditRow \/ (\E d \in 1..MaxLag : Pause(d))
            \/ BatteryCritical \/ UNCHANGED vars
  <2>1. exposing' = exposing /\ held' = held /\ lock' = lock /\ fired' = fired
        /\ running' = running /\ where' = where
    BY <1>11
       DEF NoAutostart, NoInput, EditRow, Pause, BatteryCritical, Advance, vars, loopVars,
           sequenceVars, shutterVars
  <2>2. QED
    BY <1>4, <2>1, Zenon
<1>12. QED
  BY <1>5, <1>6, <1>7, <1>8, <1>9, <1>10, <1>11, Zenon DEF Next, Lap

(* The numbers an arithmetic step is about. *)
LEMMA Ranges ==
  ASSUME TypeOK
  PROVE  /\ autoLeft \in Nat /\ autoLeft <= AutoDelay
         /\ age \in Nat /\ rest \in Nat /\ sinceShot \in Nat /\ openCap \in Nat
         /\ config.interval \in Nat /\ MinInterval <= config.interval
         /\ config.exposure \in Nat \ {0}
         /\ AutoDelay \in Nat /\ MinInterval \in Nat /\ MaxLag \in Nat \ {0}
         /\ AgeBound \in Nat /\ RestBound \in Nat /\ PressTime \in Nat /\ lineAge \in Nat
<1>1. NumbersOK /\ config \in Configs
  BY TypeParts
<1>2. QED
  BY <1>1, ConfigFields, TimelapseAssumption DEF TimelapseAssumption, NumbersOK

(* The countdown of a scheduled wake ends before the first shot is due. *)
LEMMA QuietStep ==
  ASSUME QuietWake, IInv, [Next]_vars
  PROVE  CountdownInv'
<1>1. CountdownInv /\ TypeOK
  BY DEF IInv
<1>2. ASSUME autoPending' = FALSE
      PROVE  CountdownInv'
  BY <1>2, Zenon DEF CountdownInv
<1>3. ASSUME ~autoPending, autoPending' = autoPending
      PROVE  CountdownInv'
  BY <1>3, Zenon DEF CountdownInv
<1>4. ASSUME autoPending' = autoPending, autoLeft' = autoLeft, where' = where,
             phase # "auto", rest' \in {0, rest}, autoPending => exposing' = FALSE
      PROVE  CountdownInv'
  <2>1. autoLeft \in Nat /\ rest \in Nat /\ autoLeft <= AutoDelay /\ AutoDelay \in Nat
    BY <1>1, Ranges
  <2>2. rest + autoLeft <= AutoDelay => rest' + autoLeft <= AutoDelay
    <3>1. rest' = 0 \/ rest' = rest
      BY <1>4, Zenon
    <3>2. QED
      BY <2>1, <3>1
  <2>3. autoLeft' = 0 \/ rest + autoLeft <= AutoDelay => autoLeft' = 0 \/ rest' + autoLeft' <= AutoDelay
    BY <1>4, <2>2
  <2>4. CASE ~autoPending
    BY <1>3, <1>4, <2>4
  <2>5. CASE autoPending /\ where = "timelapse"
    <3>1. autoLeft' > 0 /\ (autoLeft' = 0 \/ rest + autoLeft <= AutoDelay)
      BY <1>1, <1>4, <2>5 DEF CountdownInv
    <3>2. QED
      BY <1>4, <2>3, <2>5, <3>1, Zenon DEF CountdownInv
  <2>6. CASE autoPending /\ where # "timelapse"
    BY <1>4, <2>6, Zenon DEF CountdownInv
  <2>7. QED
    BY <2>4, <2>5, <2>6, Zenon
<1>5. CASE Autostart \/ LeaveLoop
  BY <1>2, <1>5, Zenon DEF Autostart, LeaveLoop
<1>6. CASE NoAutostart
  <2>1. /\ autoPending' = autoPending /\ autoLeft' = autoLeft /\ rest' = rest
        /\ exposing' = exposing /\ where' = where
    BY <1>6 DEF NoAutostart, Advance, autoVars, sequenceVars
  <2>2. autoPending => autoLeft > 0
    <3>1. ~autoPending \/ autoLeft > 0
      BY <1>6, Zenon DEF NoAutostart
    <3>2. QED
      BY <3>1, Zenon
  <2>3. QED
    BY <1>1, <2>1, <2>2, Zenon DEF CountdownInv
<1>7. CASE Update
  <2>1. /\ where = "timelapse" /\ phase = "update"
        /\ autoPending' = autoPending /\ where' = where
    BY <1>7 DEF Update, Advance, InLap
  <2>2. CASE autoPending
    <3>1. exposing = FALSE
      BY <1>1, <2>2, Zenon DEF CountdownInv, TypeOK
    <3>2. ~Rested
      <4>1. autoLeft > 0 /\ (autoLeft = 0 \/ rest + autoLeft <= AutoDelay)
        BY <1>1, <2>1, <2>2 DEF CountdownInv
      <4>2. ~(rest >= config.interval)
        BY <1>1, <4>1, Ranges DEF QuietWake
      <4>3. QED
        BY <4>2, Zenon DEF Rested
    <3>3. UNCHANGED autoLeft /\ (EndBulbExposure \/ EndSettle \/ NothingDue)
      BY <1>7, <3>2, Zenon DEF Update, FinishSequence, StartBulbExposure, TriggerCamera
    <3>4. exposing' = FALSE /\ rest' \in {0, rest}
      BY <3>1, <3>3, Zenon DEF EndBulbExposure, EndSettle, NothingDue, sequenceVars
    <3>5. QED
      BY <1>4, <2>1, <3>3, <3>4
  <2>3. QED
    BY <1>3, <2>1, <2>2
<1>8. CASE PressControl \/ EditRow \/ LongPress \/ NoInput \/ BatteryCritical
  <2>1. phase # "auto" /\ autoPending' = autoPending /\ autoLeft' = autoLeft /\ where' = where
    BY <1>8
       DEF PressControl, EditRow, LongPress, NoInput, BatteryCritical, Advance, InLap, autoVars
  <2>2. rest' \in {0, rest}
    BY <1>8, Zenon
       DEF PressControl, EditRow, LongPress, NoInput, BatteryCritical, ToggleRunPause, StartRun,
           StopRun, PauseRun, ResumeRun, sequenceVars
  <2>3. exposing' = FALSE \/ exposing' = exposing
    BY <1>8, Zenon
       DEF PressControl, EditRow, LongPress, NoInput, BatteryCritical, ToggleRunPause, StartRun,
           StopRun, PauseRun, ResumeRun, ForceReleaseBulbIfExposing, sequenceVars
  <2>4. autoPending => exposing = FALSE
    BY <1>1, Zenon DEF CountdownInv, TypeOK
  <2>5. autoPending => exposing' = FALSE
    BY <2>3, <2>4, Zenon
  <2>6. QED
    BY <1>4, <2>1, <2>2, <2>5
<1>9. ASSUME NEW d \in 1..MaxLag, Pause(d)
      PROVE  CountdownInv'
  <2>1. /\ where = "timelapse" /\ phase = "pause" /\ phase' = "auto"
        /\ autoPending' = autoPending /\ exposing' = exposing
        /\ autoLeft' = AtLeast(0, autoLeft - d) /\ rest' = AtMost(RestBound, rest + d)
    BY <1>9, Zenon DEF Pause, Advance, InLap
  <2>2. d \in Nat
    BY Ranges, <1>1
  <2>3. autoLeft > 0 /\ rest + autoLeft <= AutoDelay => autoLeft' = 0 \/ rest' + autoLeft' <= AutoDelay
    BY <1>1, <2>1, <2>2, Ranges DEF AtMost, AtLeast
  <2>4. autoPending => ~exposing /\ autoLeft > 0 /\ (autoLeft = 0 \/ rest + autoLeft <= AutoDelay)
    BY <1>1, <2>1, Zenon DEF CountdownInv
  <2>5. autoLeft \in Nat
    BY <1>1, Ranges
  <2>6. autoLeft > 0 => autoLeft # 0
    BY <2>5
  <2>7. QED
    BY <2>1, <2>3, <2>4, <2>6, Zenon DEF CountdownInv
<1>10. CASE EnterMode
  <2>1. /\ phase' = "auto" /\ exposing' = FALSE /\ rest' = 0 /\ autoLeft' = autoLeft
    BY <1>10, Zenon DEF EnterMode, autoVars
  <2>2. rest' + autoLeft' <= AutoDelay
    BY <1>1, <2>1, Ranges
  <2>3. QED
    BY <2>1, <2>2, Zenon DEF CountdownInv
<1>11. CASE PowerCycle
  BY <1>11, Zenon DEF PowerCycle, CountdownInv
<1>12. CASE UNCHANGED vars
  <2>1. /\ where' = where /\ phase' = phase /\ exposing' = exposing /\ rest' = rest
        /\ autoPending' = autoPending /\ autoLeft' = autoLeft
    BY <1>12 DEF vars, loopVars, autoVars, sequenceVars
  <2>2. QED
    BY <1>1, <2>1, Zenon DEF CountdownInv
<1>13. QED
  BY <1>5, <1>6, <1>7, <1>8, <1>9, <1>10, <1>11, <1>12, Zenon DEF Next, Lap

(* ... and where none runs there is nothing to keep. *)
LEMMA CountdownStep ==
  ASSUME Calm', IInv, [Next]_vars
  PROVE  CountdownInv'
<1>1. CASE QuietWake
  BY <1>1, QuietStep
<1>2. CASE ~autoPending'
  BY <1>2, Zenon DEF CountdownInv
<1>3. QED
  BY <1>1, <1>2, Zenon DEF Calm, QuietWake

(* An exposure is closed before it can outlast its cap by a lap, also while
   its row is edited. *)
LEMMA CapStep ==
  ASSUME IInv, [Next]_vars
  PROVE  CapInv'
<1>1. CapInv /\ HoldInv /\ TypeOK
  BY DEF IInv
<1>2. ASSUME exposing' = FALSE
      PROVE  CapInv'
  BY <1>2, Zenon DEF CapInv
<1>3. ASSUME exposing' = exposing, age' = age, openCap' = openCap,
             config'.exposure = config.exposure,
             phase' \notin {"input", "pause"} \/ phase \in {"input", "pause"}
      PROVE  CapInv'
  BY <1>1, <1>3, Zenon DEF CapInv
<1>4. CASE EndBulbExposure \/ StopRun \/ PauseRun \/ StartRun
  BY <1>2, <1>4, Zenon
     DEF EndBulbExposure, StopRun, PauseRun, StartRun, ForceReleaseBulbIfExposing
<1>5. CASE Update
  <2>1. phase' = "input" /\ config' = config
    BY <1>5 DEF Update, Advance, configVars
  <2>2. CASE running /\ (EndSettle \/ FinishSequence \/ (\E d \in PressTimes : TriggerCamera(d)))
    <3>1. exposing = FALSE /\ exposing' = exposing
      BY <1>1, <2>2, Zenon DEF EndSettle, FinishSequence, TriggerCamera, Rested, TypeOK
    <3>2. QED
      BY <1>2, <3>1, Zenon
  <2>3. CASE running /\ \E d \in PressTimes : StartBulbExposure(d)
    <3>1. \/ exposing' = exposing /\ exposing = FALSE
          \/ age' = 0 /\ openCap' = config.exposure
      BY <1>1, <2>3, Zenon DEF StartBulbExposure, Rested, TypeOK
    <3>2. ASSUME age' = 0, openCap' = config.exposure
          PROVE  CapInv'
      <4>1. config'.exposure <= openCap' /\ age' < openCap' + MaxLag /\ age' < openCap'
        BY <1>1, <2>1, <3>2, Ranges
      <4>2. QED
        BY <4>1, Zenon DEF CapInv
    <3>3. QED
      BY <1>2, <3>1, <3>2, Zenon
  <2>4. CASE NothingDue
    <3>1. exposing' = exposing /\ age' = age /\ openCap' = openCap
      BY <2>4 DEF NothingDue, sequenceVars, historyVars
    <3>2. exposing => config.exposure <= openCap /\ age < openCap + MaxLag
      BY <1>1, Zenon DEF CapInv
    <3>3. exposing => ~ExposureDone
      BY <1>1, <2>4, Zenon DEF NothingDue, HoldInv
    <3>4. exposing => age < openCap
      <4>1. config.exposure <= openCap /\ ~ExposureDone => age < openCap
        BY <1>1, Ranges DEF ExposureDone
      <4>2. QED
        BY <3>2, <3>3, <4>1, Zenon
    <3>5. QED
      BY <2>1, <3>1, <3>2, <3>4, Zenon DEF CapInv
  <2>5. QED
    BY <1>4, <1>5, <2>2, <2>3, <2>4, Zenon DEF Update
<1>6. CASE EditRow
  <2>1. /\ exposing' = exposing /\ age' = age
        /\ phase = "input" /\ phase' = "pause"
    BY <1>6 DEF EditRow, Advance, InLap, sequenceVars
  <2>2. exposing => /\ config.exposure <= openCap /\ age < openCap + MaxLag /\ age < openCap
                    /\ openCap' = AtLeast(config'.exposure, openCap)
    BY <1>1, <1>6, <2>1, Zenon DEF CapInv, EditRow, EditConfig
  <2>3. config'.exposure \in Nat
    <3>1. config'.exposure \in 1..ExposureLimit
      BY <1>1, ConfigStep DEF Configs
    <3>2. QED
      BY <3>1, TimelapseAssumption DEF TimelapseAssumption
  <2>4. ASSUME openCap' = AtLeast(config'.exposure, openCap), age < openCap
        PROVE  /\ config'.exposure <= openCap' /\ age' < openCap' + MaxLag /\ age' < openCap'
    BY <1>1, <2>1, <2>3, <2>4, Ranges DEF AtLeast
  <2>5. QED
    BY <2>1, <2>2, <2>4, Zenon DEF CapInv
<1>7. ASSUME NEW d \in 1..MaxLag, Pause(d)
      PROVE  CapInv'
  <2>1. /\ phase = "pause" /\ phase' = "auto" /\ exposing' = exposing
        /\ openCap' = openCap /\ config' = config
    BY <1>7 DEF Pause, Advance, InLap, configVars
  <2>2. exposing => age' = AtMost(AgeBound, age + d)
    BY <1>7, Zenon DEF Pause
  <2>3. exposing => config.exposure <= openCap /\ age < openCap
    BY <1>1, <2>1, Zenon DEF CapInv
  <2>4. ASSUME age' = AtMost(AgeBound, age + d), age < openCap
        PROVE  age' < openCap' + MaxLag
    BY <1>1, <2>1, <2>4, Ranges DEF AtMost
  <2>5. QED
    BY <2>1, <2>2, <2>3, <2>4, Zenon DEF CapInv
<1>8. CASE PressControl
  <2>1. CASE ResumeRun
    <3>1. /\ exposing' = exposing /\ age' = age /\ openCap' = openCap /\ config' = config
          /\ phase \in {"input", "pause"}
      BY <1>8, <2>1 DEF PressControl, ResumeRun, Advance, InLap, configVars, historyVars
    <3>2. QED
      BY <1>3, <3>1, Zenon
  <2>2. QED
    BY <1>4, <1>8, <2>1, Zenon DEF PressControl, ToggleRunPause
<1>9. CASE Autostart \/ LongPress \/ LeaveLoop
  BY <1>4, <1>9, Zenon DEF Autostart, LongPress, LeaveLoop
<1>10. CASE EnterMode \/ PowerCycle
  BY <1>2, <1>10, Zenon DEF EnterMode, PowerCycle
<1>11. CASE NoAutostart \/ NoInput \/ BatteryCritical \/ UNCHANGED vars
  <2>1. /\ exposing' = exposing /\ age' = age /\ openCap' = openCap /\ config' = config
        /\ phase' \notin {"input", "pause"} \/ phase \in {"input", "pause"}
    BY <1>11
       DEF NoAutostart, NoInput, BatteryCritical, Advance, InLap, vars, loopVars, configVars,
           sequenceVars, historyVars
  <2>2. QED
    BY <1>3, <2>1, Zenon
<1>12. QED
  BY <1>5, <1>6, <1>7, <1>8, <1>9, <1>10, <1>11, Zenon DEF Next, Lap

(* The lines of an exposure stay ahead of its timer by the same time. *)
LEMMA LineStep ==
  ASSUME IInv, [Next]_vars
  PROVE  LineInv'
<1>1. LineInv /\ TypeOK
  BY DEF IInv
<1>2. ASSUME exposing' = FALSE
      PROVE  LineInv'
  BY <1>2, Zenon DEF LineInv
<1>3. ASSUME exposing' = exposing, age' = age, lineAge' = lineAge
      PROVE  LineInv'
  BY <1>1, <1>3, Zenon DEF LineInv
<1>4. CASE EndBulbExposure \/ StopRun \/ PauseRun \/ StartRun
  BY <1>2, <1>4, Zenon
     DEF EndBulbExposure, StopRun, PauseRun, StartRun, ForceReleaseBulbIfExposing
<1>5. CASE Update
  <2>1. CASE EndSettle \/ FinishSequence \/ (\E d \in PressTimes : TriggerCamera(d))
    <3>1. exposing = FALSE /\ exposing' = exposing
      BY <1>1, <2>1, Zenon DEF EndSettle, FinishSequence, TriggerCamera, Rested, TypeOK
    <3>2. QED
      BY <1>2, <3>1, Zenon
  <2>2. ASSUME NEW d \in PressTimes, StartBulbExposure(d)
        PROVE  LineInv'
    <3>1. \/ exposing' = exposing /\ exposing = FALSE
          \/ age' = 0 /\ lineAge' = d
      BY <1>1, <2>2, Zenon DEF StartBulbExposure, Rested, TypeOK
    <3>2. ASSUME age' = 0, lineAge' = d
          PROVE  LineInv'
      <4>1. d <= PressTime /\ d \in Nat /\ PressTime \in Nat
        BY <1>1, Ranges DEF PressTimes
      <4>2. lineAge' <= age' + PressTime
        BY <3>2, <4>1
      <4>3. QED
        BY <4>2, Zenon DEF LineInv
    <3>3. QED
      BY <1>2, <3>1, <3>2, Zenon
  <2>3. CASE NothingDue
    BY <1>3, <2>3 DEF NothingDue, sequenceVars, historyVars
  <2>4. QED
    BY <1>4, <1>5, <2>1, <2>2, <2>3, Zenon DEF Update
<1>6. ASSUME NEW d \in 1..MaxLag, Pause(d)
      PROVE  LineInv'
  <2>1. exposing' = exposing
    BY <1>6, Zenon DEF Pause
  <2>2. exposing => /\ age' = AtMost(AgeBound, age + d)
                    /\ lineAge' = AtMost(AgeBound + PressTime, lineAge + d)
    BY <1>6, Zenon DEF Pause
  <2>3. ASSUME age' = AtMost(AgeBound, age + d), lineAge <= age + PressTime,
               lineAge' = AtMost(AgeBound + PressTime, lineAge + d)
        PROVE  lineAge' <= age' + PressTime
    BY <1>1, <2>3, Ranges DEF AtMost
  <2>4. QED
    BY <1>1, <2>1, <2>2, <2>3, Zenon DEF LineInv
<1>7. CASE PressControl
  <2>1. CASE ResumeRun
    BY <1>3, <2>1 DEF ResumeRun, historyVars
  <2>2. QED
    BY <1>4, <1>7, <2>1, Zenon DEF PressControl, ToggleRunPause
<1>8. CASE Autostart \/ LongPress \/ LeaveLoop
  BY <1>4, <1>8, Zenon DEF Autostart, LongPress, LeaveLoop
<1>9. CASE EnterMode \/ PowerCycle
  BY <1>2, <1>9, Zenon DEF EnterMode, PowerCycle
<1>10. CASE NoAutostart \/ NoInput \/ EditRow \/ BatteryCritical \/ UNCHANGED vars
  <2>1. exposing' = exposing /\ age' = age /\ lineAge' = lineAge
    BY <1>10
       DEF NoAutostart, NoInput, EditRow, BatteryCritical, vars, sequenceVars, historyVars
  <2>2. QED
    BY <1>3, <2>1
<1>11. QED
  BY <1>5, <1>6, <1>7, <1>8, <1>9, <1>10, Zenon DEF Next, Lap

(* The rest that has been waited for follows the end of the last exposure or the
   beginning of the last tap. *)
LEMMA RestStep ==
  ASSUME IInv, [Next]_vars
  PROVE  RestInv'
<1>1. RestInv /\ HoldInv /\ TypeOK
  BY DEF IInv
<1>2. ASSUME running' = FALSE
      PROVE  RestInv'
  BY <1>2, Zenon DEF RestInv
<1>3. ASSUME rest' = 0
      PROVE  RestInv'
  <2>1. sinceShot' \in Nat
    BY <1>1, NumbersStep, TimelapseAssumption DEF TimelapseAssumption, NumbersOK
  <2>2. rest' <= sinceShot'
    BY <1>3, <2>1
  <2>3. QED
    BY <2>2, Zenon DEF RestInv
<1>4. ASSUME exposing' = exposing, settling' = settling, running' = running,
             rest' = rest, sinceShot' = sinceShot
      PROVE  RestInv'
  BY <1>1, <1>4, Zenon DEF RestInv
<1>5. CASE Update
  <2>1. CASE EndBulbExposure
    <3>1. settling' = (config.settle > 0) /\ rest' = IF config.settle > 0 THEN rest ELSE 0
      BY <2>1, Zenon DEF EndBulbExposure
    <3>2. settling' \/ rest' = 0
      BY <3>1, Zenon
    <3>3. QED
      BY <1>3, <3>2, Zenon DEF RestInv
  <2>2. CASE EndSettle
    BY <1>3, <2>2, Zenon DEF EndSettle
  <2>3. CASE FinishSequence
    BY <1>2, <2>3, Zenon DEF FinishSequence
  <2>4. CASE \E d \in PressTimes : StartBulbExposure(d)
    <3>1. /\ running' = running /\ settling' = settling /\ rest' = rest /\ sinceShot' = sinceShot
          /\ exposing' = exposing \/ exposing' = TRUE
      BY <2>4, Zenon DEF StartBulbExposure
    <3>2. QED
      BY <1>1, <3>1, Zenon DEF RestInv
  <2>5. CASE NothingDue
    BY <1>4, <2>5 DEF NothingDue, sequenceVars, historyVars
  <2>6. ASSUME NEW d \in PressTimes, TriggerCamera(d)
        PROVE  RestInv'
    <3>1. rest' = 0 \/ rest' = sinceShot'
      BY <2>6, Zenon DEF TriggerCamera
    <3>2. rest' = sinceShot' => rest' <= sinceShot'
      <4>1. sinceShot' \in Nat
        BY <1>1, NumbersStep, TimelapseAssumption DEF TimelapseAssumption, NumbersOK
      <4>2. QED
        BY <4>1
    <3>3. QED
      BY <1>3, <3>1, <3>2, Zenon DEF RestInv
  <2>7. QED
    BY <1>5, <2>1, <2>2, <2>3, <2>4, <2>5, <2>6, Zenon DEF Update
<1>6. CASE PressControl
  BY <1>2, <1>3, <1>6, Zenon DEF PressControl, ToggleRunPause, PauseRun, ResumeRun, StartRun
<1>7. CASE LongPress \/ LeaveLoop \/ Autostart
  BY <1>2, <1>3, <1>7, Zenon DEF LongPress, LeaveLoop, Autostart, StopRun, StartRun
<1>8. ASSUME NEW d \in 1..MaxLag, Pause(d)
      PROVE  RestInv'
  <2>1. /\ exposing' = exposing /\ settling' = settling /\ running' = running
        /\ rest' = AtMost(RestBound, rest + d)
    BY <1>8, Zenon DEF Pause
  <2>2. ~exposing => sinceShot' = AtMost(RestBound, sinceShot + d)
    BY <1>8, Zenon DEF Pause
  <2>3. ASSUME sinceShot' = AtMost(RestBound, sinceShot + d), rest <= sinceShot
        PROVE  rest' <= sinceShot'
    BY <1>1, <2>1, <2>3, Ranges DEF AtMost
  <2>4. QED
    BY <1>1, <2>1, <2>2, <2>3, Zenon DEF RestInv
<1>9. CASE EnterMode \/ PowerCycle
  BY <1>2, <1>9, Zenon DEF EnterMode, PowerCycle
<1>10. CASE NoAutostart \/ NoInput \/ EditRow \/ BatteryCritical \/ UNCHANGED vars
  <2>1. /\ exposing' = exposing /\ settling' = settling /\ running' = running
        /\ rest' = rest /\ sinceShot' = sinceShot
    BY <1>10
       DEF NoAutostart, NoInput, EditRow, BatteryCritical, vars, sequenceVars, historyVars
  <2>2. QED
    BY <1>4, <2>1
<1>11. QED
  BY <1>5, <1>6, <1>7, <1>8, <1>9, <1>10, Zenon DEF Next, Lap

-----------------------------------------------------------------------------
(* What the mode is run for, when no autostart can come too late.          *)

(* The strengthened invariant of every behaviour. *)
THEOREM Invariance == Spec /\ []Calm => []IInv
<1>1. IInv /\ Calm' /\ [Next]_vars => IInv'
  BY TypeStep, HoldStep, CountdownStep, CapStep, LineStep, RestStep DEF IInv
<1>2. Init => IInv
  BY InitInv
<1>3. QED
  BY <1>1, <1>2, PTL DEF Spec

(* Back in the launcher nothing is pressed and the trigger lock is free,
   whatever ended the sequence. *)
THEOREM ReleasedOnExit == Spec /\ []Calm => []ShutterReleased
<1>1. IInv => ShutterReleased
  <2>1. ASSUME IInv, where = "menu"
        PROVE  held = {} /\ ~lock
    <3>1. where # "timelapse"
      BY <2>1
    <3>2. QED
      BY <2>1, <3>1, Zenon DEF IInv, HoldInv
  <2>2. QED
    BY <2>1, Zenon DEF ShutterReleased
<1>2. QED
  BY Invariance, <1>1, PTL

(* No exposure holds its lines longer than the longest exposure time in force
   since it opened, a lap and the press over BLE, edits of the row included. *)
THEOREM CapIsKept == Spec /\ []Calm => []ExposureCap
<1>1. IInv => ExposureCap
  <2>1. ASSUME IInv, exposing
        PROVE  lineAge < openCap + MaxLag + PressTime
    <3>1. lineAge <= age + PressTime /\ age < openCap + MaxLag /\ TypeOK
      BY <2>1, Zenon DEF IInv, CapInv, LineInv
    <3>2. QED
      BY <3>1, Ranges
  <2>2. QED
    BY <2>1, Zenon DEF ExposureCap
<1>2. QED
  BY Invariance, <1>1, PTL

(* Every shot follows a whole interval since the end of the last exposure or the
   beginning of the last tap, however long a press over BLE blocks. *)
THEOREM RestIsKept == Spec /\ []Calm => RestHonoured
<1>1. ASSUME IInv, Next, out' # ""
      PROVE  sinceShot >= config.interval
  <2>1. running /\ \E d \in PressTimes : StartBulbExposure(d) \/ TriggerCamera(d)
    BY <1>1, Zenon
       DEF Next, Lap, Autostart, NoAutostart, Update, EndBulbExposure, EndSettle,
           FinishSequence, NothingDue, NoInput, PressControl, EditRow, LongPress, Pause,
           LeaveLoop, BatteryCritical, EnterMode, PowerCycle
  <2>2. Rested
    BY <2>1, Zenon DEF StartBulbExposure, TriggerCamera
  <2>3. rest <= sinceShot
    BY <1>1, <2>1, <2>2, Zenon DEF IInv, RestInv, Rested
  <2>4. rest >= config.interval
    BY <2>2, Zenon DEF Rested
  <2>5. TypeOK
    BY <1>1 DEF IInv
  <2>6. QED
    BY <2>3, <2>4, <2>5, Ranges
<1>2. IInv /\ [Next]_vars => [out' # "" => sinceShot >= config.interval]_vars
  BY <1>1
<1>3. QED
  BY Invariance, <1>2, PTL DEF Spec, RestHonoured

(* What the panel says, as facts about the two flags it is read from. *)
LEMMA StatusFacts ==
  ASSUME TypeOK
  PROVE  /\ StatusString = "BULB" <=> exposing
         /\ StatusString \in {"SETTLE", "REST", "RUNNING"} => settling \/ running
<1>1. exposing \in BOOLEAN /\ settling \in BOOLEAN /\ running \in BOOLEAN /\ paused \in BOOLEAN
  BY DEF TypeOK
<1>2. QED
  BY <1>1, SMT DEF StatusString

(* The panel can be gone by in the dark: a pressed channel is shown as BULB over
   a PAUSE button, nothing fires while it counts down, and BULB turns into the
   wait for the next shot only when its countdown is over. *)
THEOREM StatusIsTold == Spec /\ []Calm => StatusIsTrue
<1>1. IInv => (held # {} => StatusString = "BULB" /\ ControlLabel = "PAUSE")
  <2>1. ASSUME IInv, held # {}
        PROVE  StatusString = "BULB" /\ ControlLabel = "PAUSE"
    <3>1. exposing /\ running /\ TypeOK
      BY <2>1, Zenon DEF IInv, HoldInv
    <3>2. StatusString = "BULB"
      BY <3>1, StatusFacts
    <3>3. ControlLabel = "PAUSE"
      BY <3>1 DEF ControlLabel
    <3>4. QED
      BY <3>2, <3>3
  <2>2. QED
    BY <2>1
<1>2. ASSUME IInv, Next, out' # ""
      PROVE  Countdown = 0
  <2>1. running /\ \E d \in PressTimes : StartBulbExposure(d) \/ TriggerCamera(d)
    BY <1>2, Zenon
       DEF Next, Lap, Autostart, NoAutostart, Update, EndBulbExposure, EndSettle,
           FinishSequence, NothingDue, NoInput, PressControl, EditRow, LongPress, Pause,
           LeaveLoop, BatteryCritical, EnterMode, PowerCycle
  <2>2. Rested
    BY <2>1, Zenon DEF StartBulbExposure, TriggerCamera
  <2>3. ~exposing /\ ~settling /\ rest >= config.interval
    BY <2>2 DEF Rested
  <2>4. Countdown = AtLeast(0, config.interval - rest)
    BY <2>1, <2>3 DEF Countdown
  <2>5. TypeOK
    BY <1>2 DEF IInv
  <2>6. QED
    BY <2>3, <2>4, <2>5, Ranges DEF AtLeast
<1>3. ASSUME IInv, Next, StatusString = "BULB",
             StatusString' \in {"SETTLE", "REST", "RUNNING"}, IInv'
      PROVE  Countdown = 0
  <2>1. exposing /\ running /\ where = "timelapse" /\ TypeOK
    BY <1>3, StatusFacts, Zenon DEF IInv, HoldInv
  <2>2. TypeOK'
    BY <1>3, Zenon DEF IInv
  <2>3. /\ exposing' \in BOOLEAN /\ settling' \in BOOLEAN
        /\ running' \in BOOLEAN /\ paused' \in BOOLEAN
    BY <2>2 DEF TypeOK
  <2>4. ~exposing' /\ (settling' \/ running')
    BY <1>3, <2>3, SMT DEF StatusString
  <2>5. ~autoPending
    BY <1>3, <2>1, Zenon DEF IInv, CountdownInv
  <2>6. EndBulbExposure
    BY <1>3, <2>1, <2>4, <2>5, Zenon
       DEF Next, Lap, Autostart, NoAutostart, Update, EndSettle, FinishSequence,
           StartBulbExposure, Rested, TriggerCamera, NothingDue, NoInput, PressControl,
           ToggleRunPause, PauseRun, StopRun, EditRow, LongPress, Pause, LeaveLoop,
           BatteryCritical, EnterMode, PowerCycle, sequenceVars
  <2>7. age >= config.exposure
    BY <2>6 DEF EndBulbExposure, ExposureDone
  <2>8. Countdown = AtLeast(0, config.exposure - age)
    BY <2>1 DEF Countdown
  <2>9. QED
    BY <2>1, <2>7, <2>8, Ranges DEF AtLeast
<1>4. IInv /\ [Next]_vars => [out' # "" => Countdown = 0]_vars
  BY <1>2
<1>5. IInv /\ IInv' /\ [Next]_vars =>
        [StatusString = "BULB" /\ StatusString' \in {"SETTLE", "REST", "RUNNING"}
           => Countdown = 0]_vars
  BY <1>3
<1>6. QED
  BY Invariance, <1>1, <1>4, <1>5, PTL DEF Spec, StatusIsTrue

(* The mode implements the contract of every mode that holds the shutter. *)
THEOREM HoldImplemented == Spec /\ []Calm => HoldContract
<1>1. Init => Hold!Init
  BY DEF Init, Hold!Init
<1>2. ASSUME IInv, IInv', [Next]_vars
      PROVE  [Hold!Next]_(Hold!holdVars)
  <2>1. /\ exposing \in BOOLEAN /\ exposing' \in BOOLEAN
        /\ lock \in BOOLEAN /\ lock' \in BOOLEAN
        /\ ~exposing => held = {}
        /\ ~exposing' => held' = {}
        /\ lock <=> exposing
        /\ lock' <=> exposing'
        /\ held' \in SUBSET Channels
    BY <1>2, Zenon DEF IInv, HoldInv, TypeOK
  <2>2. CASE ~exposing /\ exposing'
    <3>1. Hold!Open
      BY <2>1, <2>2, Zenon DEF Hold!Open
    <3>2. QED
      BY <3>1 DEF Hold!Next
  <2>3. CASE exposing /\ ~exposing'
    <3>1. Hold!Close
      BY <2>1, <2>3, Zenon DEF Hold!Close
    <3>2. QED
      BY <3>1 DEF Hold!Next
  <2>4. CASE ~exposing /\ ~exposing'
    BY <2>1, <2>4, Zenon DEF Hold!holdVars
  <2>5. CASE exposing /\ exposing'
    <3>1. held' = held
      <4>1. CASE Update
        BY <2>5, <4>1, Zenon
           DEF Update, EndBulbExposure, EndSettle, FinishSequence, StartBulbExposure,
               TriggerCamera, NothingDue, Rested, shutterVars
      <4>2. CASE Autostart \/ PressControl \/ LongPress \/ LeaveLoop \/ EnterMode \/ PowerCycle
        BY <2>5, <4>2, Zenon
           DEF Autostart, PressControl, LongPress, LeaveLoop, EnterMode, PowerCycle,
               ToggleRunPause, StartRun, StopRun, PauseRun, ResumeRun,
               ForceReleaseBulbIfExposing, shutterVars
      <4>3. CASE NoAutostart \/ NoInput \/ EditRow \/ (\E d \in 1..MaxLag : Pause(d))
                 \/ BatteryCritical \/ UNCHANGED vars
        BY <4>3 DEF NoAutostart, NoInput, EditRow, Pause, BatteryCritical, vars, shutterVars
      <4>4. QED
        BY <1>2, <4>1, <4>2, <4>3, Zenon DEF Next, Lap
    <3>2. lock' = lock /\ exposing' = exposing
      BY <2>1, <2>5, Zenon
    <3>3. QED
      BY <3>1, <3>2, Zenon DEF Hold!holdVars
  <2>6. QED
    BY <2>1, <2>2, <2>3, <2>4, <2>5, Zenon
<1>3. QED
  BY Invariance, <1>1, <1>2, PTL DEF Spec, HoldContract, Hold!Spec

=============================================================================
