----------------------------- MODULE SensorNode -----------------------------
(***************************************************************************)
(* One box in MULTI BOX mode with a sensing role other than MAIN.  A START *)
(* box watches the start line while no session runs and asks MAIN to open  *)
(* the shutter; a FLASH box watches while a session runs and fires a flash *)
(* some time after a hit.  Either locks itself when it fires, and unlocks  *)
(* when MAIN reports the session over, when MAIN falls silent, or when a   *)
(* cap on the lock runs out.                                               *)
(*                                                                         *)
(* A hit is a reading that is off the baseline, the mean of the first few  *)
(* readings of a watch window.  Packets of MAIN, the readings, the user    *)
(* and the battery are the environment: packets may be lost, late or never *)
(* sent, which is why each of them may or may not arrive in any lap.       *)
(***************************************************************************)
EXTENDS Integers

CONSTANTS
  Samples,         \* readings in a baseline (5 in the code)
  SampleMod,       \* baselineSamples counts modulo this (2^8 in the code)
  MaxReading,      \* longest distance the sensor reports
  Threshold,       \* detectThresholdCm
  FlashLimit,      \* largest editable flash delay
  LockCap,         \* maxBulbSec + 5 s: the cap on the lock
  DrainMax         \* packets handled per lap

ASSUME NodeAssumption ==
  /\ Samples \in Nat /\ Samples > 1
  /\ SampleMod \in Nat /\ SampleMod > Samples
  /\ MaxReading \in Nat \ {0}
  /\ Threshold \in Nat \ {0}
  /\ FlashLimit \in Nat
  /\ LockCap \in Nat
  /\ DrainMax \in Nat \ {0}

VARIABLES
  where,           \* the screen that runs: "menu" or "multi_box"
  phase,           \* position in the lap of the mode's loop
  drained,         \* packets handled in this lap
  role,            \* "NONE", "START" or "FLASH"
  range,           \* the readings the range filter lets through
  session,         \* MultiBoxState::Session of this box
  active,          \* sessionActive: MAIN announced a session
  mainUp,          \* a peer is MAIN and was heard of lately
  captured,        \* baselineCaptured
  samples,         \* baselineSamples
  baseline,        \* baselineDistance: a sum while capturing, then the mean
  lockAge,         \* time since lockStartMs, saturating above LockCap
  pending,         \* flashPending
  flashDelay,      \* flashDelayMs
  flashLeft,       \* time left until flashDueAtMs
  owing,           \* history: a START was sent and nothing released it yet
  out              \* what the last step sent or fired

loopVars     == <<where, phase, drained>>
sessionVars  == <<session, active>>
baselineVars == <<captured, samples, baseline>>
flashVars    == <<pending, flashDelay, flashLeft>>
lockVars     == <<lockAge, owing>>
vars == <<loopVars, role, range, sessionVars, mainUp, baselineVars, flashVars, lockVars, out>>

Roles    == {"NONE", "START", "FLASH"}
Readings == 0..MaxReading            \* 0: no object

\* All of them while the filter is off, else those between its two ends; none
\* when both lie beyond what the sensor can see.
Ranges == {seen \in SUBSET (1..MaxReading) : \E near, far \in 1..MaxReading : seen = near..far}

TypeOK ==
  /\ where \in {"menu", "multi_box"}
  /\ phase \in {"drain", "sense", "flash", "unlock", "input", "pause"}
  /\ drained \in 0..DrainMax
  /\ role \in Roles
  /\ range \in Ranges
  /\ session \in {"IDLE", "READY", "LOCKED"}
  /\ active \in BOOLEAN
  /\ mainUp \in BOOLEAN
  /\ captured \in BOOLEAN
  /\ samples \in 0..(SampleMod - 1)
  /\ baseline \in 0..(Samples * MaxReading)
  /\ lockAge \in 0..(LockCap + 1)
  /\ pending \in BOOLEAN
  /\ flashDelay \in 0..FlashLimit
  /\ flashLeft \in 0..FlashLimit
  /\ owing \in BOOLEAN
  /\ out \in {"", "START", "FLASH"}

Init ==
  /\ where = "menu" /\ phase = "drain" /\ drained = 0
  /\ role \in Roles
  /\ range \in Ranges
  /\ session = "IDLE" /\ active = FALSE
  /\ mainUp = FALSE
  /\ captured = FALSE /\ samples = 0 /\ baseline = 0
  /\ lockAge = 0 /\ owing = FALSE
  /\ pending = FALSE /\ flashDelay = 0 /\ flashLeft = 0
  /\ out = ""

-----------------------------------------------------------------------------
(* MAIN's broadcasts, as this box handles them.                            *)

InLap(p) == where = "multi_box" /\ phase = p

CountPacket ==
  /\ InLap("drain")
  /\ drained < DrainMax
  /\ drained' = drained + 1
  /\ out' = ""
  /\ UNCHANGED <<where, phase, role, range, baseline, flashVars, lockAge>>

\* The next watch window starts a new baseline; the count of its readings is
\* left as it is.
Rebaseline == captured' = FALSE /\ UNCHANGED samples

\* START of MAIN: a session began.
OnStart ==
  /\ CountPacket
  /\ active' = TRUE
  /\ session' = IF role = "START" THEN "LOCKED" ELSE session
  /\ mainUp' = TRUE
  /\ Rebaseline
  /\ UNCHANGED owing

\* SHOT_DONE or DISARM of MAIN: the session is over.
OnSessionOver ==
  /\ CountPacket
  /\ active' = FALSE
  /\ session' = "READY"
  /\ mainUp' = TRUE
  /\ owing' = FALSE
  /\ Rebaseline

\* Mutation of OnReady: the armed MAIN re-arms this box too.
RearmOnReady ==
  /\ CountPacket
  /\ session' = "READY"
  /\ mainUp' = TRUE
  /\ UNCHANGED <<active, captured, samples, owing>>

\* READY or a heartbeat of MAIN changes no session state.
OnReady ==
  /\ CountPacket
  /\ mainUp' = TRUE
  /\ UNCHANGED <<sessionVars, captured, samples, owing>>

DrainDone ==
  /\ InLap("drain")
  /\ phase' = "sense" /\ drained' = 0
  /\ out' = ""
  /\ UNCHANGED <<where, role, range, sessionVars, mainUp, baselineVars, flashVars, lockVars>>

-----------------------------------------------------------------------------
(* applyRoleSensorLogic(), with the reading `r' of this lap.               *)

Advance(from, to) == InLap(from) /\ phase' = to /\ UNCHANGED <<where, drained, role, range, mainUp>>

ShouldWatch == IF role = "START" THEN ~active ELSE active

HasObject(r) == r # 0
Valid(r)     == r \in range
Off(r)       == r - baseline >= Threshold \/ baseline - r >= Threshold

\* captureBaselineStep(): one reading more, the sum divided when it is full.
CaptureBaselineStep(r) ==
  LET n   == (samples + 1) % SampleMod
      sum == (IF samples = 0 THEN 0 ELSE baseline) + r
  IN /\ Valid(r)
     /\ samples' = n
     /\ baseline' = IF n >= Samples THEN sum \div Samples ELSE sum
     /\ captured' = (n >= Samples)

\* START box: sendStartOrEnd() reaches MAIN's address if one is paired.
FireStart ==
  /\ role = "START"
  /\ out' \in {"", "START"}
  /\ owing' = (out' = "START")
  /\ UNCHANGED flashVars

\* FLASH box: armed, not fired.
FireFlash ==
  /\ role = "FLASH"
  /\ pending' = TRUE
  /\ flashLeft' = flashDelay
  /\ out' = ""
  /\ UNCHANGED <<flashDelay, owing>>

\* Mutation of Detect: a START that could not be sent does not lock the box.
LockIfSent(r) ==
  /\ captured /\ Valid(r) /\ Off(r)
  /\ FireStart \/ FireFlash
  /\ session' = IF role = "START" /\ out' = "" THEN session ELSE "LOCKED"
  /\ lockAge' = 0
  /\ UNCHANGED <<active, baselineVars>>

Detect(r) ==
  /\ captured /\ Valid(r) /\ Off(r)
  /\ FireStart \/ FireFlash
  /\ session' = "LOCKED"
  /\ lockAge' = 0
  /\ UNCHANGED <<active, baselineVars>>

Watch(r) ==
  \/ /\ ~captured
     /\ CaptureBaselineStep(r) \/ (~Valid(r) /\ UNCHANGED baselineVars)
  \/ /\ captured
     /\ ~Valid(r) \/ ~Off(r)
     /\ UNCHANGED baselineVars

\* Between watch windows the baseline and the count of its readings go.
DropBaseline ==
  /\ captured' = FALSE /\ samples' = 0
  /\ UNCHANGED baseline

Sleeping == role = "NONE" \/ session = "LOCKED"

ApplyRoleSensorLogic(r) ==
  /\ Advance("sense", "flash")
  /\ \/ ~Sleeping /\ ShouldWatch /\ Detect(r)
     \/ /\ \/ Sleeping /\ UNCHANGED baselineVars
           \/ ~Sleeping /\ ~ShouldWatch /\ DropBaseline
           \/ ~Sleeping /\ ShouldWatch /\ Watch(r)
        /\ out' = ""
        /\ UNCHANGED <<sessionVars, flashVars, lockVars>>

-----------------------------------------------------------------------------
(* The rest of MultiBox::update().                                         *)

\* Mutation of FlashDue: the pulse waits for a session to run.
FlashDueInSession == role # "NONE" /\ pending /\ flashLeft = 0 /\ active

FlashDue == role # "NONE" /\ pending /\ flashLeft = 0

FirePendingFlash ==
  /\ Advance("flash", "unlock")
  /\ \/ FlashDue /\ pending' = FALSE /\ out' = "FLASH"
     \/ ~FlashDue /\ out' = "" /\ UNCHANGED pending
  /\ UNCHANGED <<sessionVars, baselineVars, flashDelay, flashLeft, lockVars>>

\* Mutation of LockExpired: only a silent MAIN releases the lock.
MainGone == ~mainUp

LockExpired == ~mainUp \/ lockAge > LockCap

\* The LOCKED -> READY fallback.
UnlockFallback ==
  /\ Advance("unlock", "input")
  /\ \/ /\ role # "NONE" /\ session = "LOCKED" /\ LockExpired
        /\ session' = "READY" /\ active' = FALSE
        /\ pending' = FALSE
        /\ owing' = FALSE
        /\ Rebaseline
     \/ /\ role = "NONE" \/ session # "LOCKED" \/ ~LockExpired
        /\ UNCHANGED <<sessionVars, pending, owing, captured, samples>>
  /\ out' = ""
  /\ UNCHANGED <<baseline, flashDelay, flashLeft, lockAge>>

-----------------------------------------------------------------------------
(* The user, time, and the way in and out of the mode.                     *)

NoInput ==
  /\ Advance("input", "pause")
  /\ out' = ""
  /\ UNCHANGED <<sessionVars, baselineVars, flashVars, lockVars>>

EditFlashDelay ==
  /\ Advance("input", "pause") /\ role = "FLASH"
  /\ flashDelay' \in 0..FlashLimit
  /\ out' = ""
  /\ UNCHANGED <<sessionVars, baselineVars, pending, flashLeft, lockVars>>

\* The rows RANGE, NEAR and FAR of the CONNECTION screen.
EditRange ==
  /\ InLap("input") /\ role # "NONE"
  /\ phase' = "pause"
  /\ range' \in Ranges
  /\ out' = ""
  /\ UNCHANGED <<where, drained, role, mainUp, sessionVars, baselineVars, flashVars, lockVars>>

\* applyRoleChange(): a hard reset of everything the old role was doing.
ApplyRoleChange ==
  /\ InLap("input")
  /\ phase' = "pause"
  /\ role' \in Roles \ {role}
  /\ session' = "IDLE" /\ active' = FALSE
  /\ captured' = FALSE /\ samples' = 0
  /\ pending' = FALSE
  /\ owing' = FALSE
  /\ out' = ""
  /\ UNCHANGED <<where, drained, range, mainUp, baseline, flashDelay, flashLeft, lockAge>>

\* A tick passes, and MAIN may have been silent for too long by its end.
Pause ==
  /\ InLap("pause")
  /\ phase' = "drain"
  /\ mainUp' \in {FALSE, mainUp}
  /\ lockAge' = IF lockAge > LockCap THEN lockAge ELSE lockAge + 1
  /\ flashLeft' = IF flashLeft > 0 THEN flashLeft - 1 ELSE 0
  /\ out' = ""
  /\ UNCHANGED <<where, drained, role, range, sessionVars, baselineVars, pending, flashDelay, owing>>

\* requestExit(), or the loop broken by a flat battery without it.
LeaveMode ==
  /\ InLap("pause")
  /\ where' = "menu"
  /\ \/ session' = "IDLE" /\ active' = FALSE
     \/ UNCHANGED sessionVars
  /\ owing' = FALSE
  /\ out' = ""
  /\ UNCHANGED <<phase, drained, role, range, mainUp, baselineVars, flashVars, lockAge>>

\* init(): a fresh MultiBoxState; lockStartMs is 0, so the lock looks as old
\* as the box has been up.  The role is nodeManager's, still NONE at the first
\* entry after power-up; the radio may not come up.
EnterMode ==
  /\ where = "menu"
  /\ where' = "multi_box" /\ phase' = "drain" /\ drained' = 0
  /\ role' \in Roles
  /\ \/ session' = "IDLE" /\ mainUp' \in {FALSE, mainUp}
     \/ role' # "NONE" /\ session' = "READY" /\ mainUp' = FALSE
  /\ active' = FALSE
  /\ captured' = FALSE /\ samples' = 0 /\ baseline' = 0
  /\ lockAge' \in 0..(LockCap + 1)
  /\ pending' = FALSE /\ flashLeft' = 0
  /\ flashDelay' \in 0..FlashLimit
  /\ range' \in Ranges
  /\ out' = ""
  /\ UNCHANGED owing

Lap ==
  \/ DrainDone
  \/ \E r \in Readings : ApplyRoleSensorLogic(r)
  \/ FirePendingFlash
  \/ UnlockFallback
  \/ NoInput \/ EditFlashDelay \/ EditRange \/ ApplyRoleChange
  \/ Pause

Next ==
  \/ OnStart \/ OnSessionOver \/ OnReady
  \/ Lap
  \/ LeaveMode
  \/ EnterMode

\* The loop keeps turning while the mode runs; packets, readings and the user
\* are not fair.
Spec == Init /\ [][Next]_vars
FairSpec == Spec /\ WF_vars(Lap)

-----------------------------------------------------------------------------
(* The screen.                                                             *)

\* roleStatusText(): what this box is waiting for, in the words of its role.
RoleStatusText ==
  CASE role = "NONE"                                        -> "NO ROLE"
    [] role = "FLASH" /\ pending                            -> "FIRING"
    [] role = "FLASH" /\ ~pending /\ ~active                -> "STANDBY"
    [] role = "FLASH" /\ ~pending /\ active /\ session = "LOCKED" -> "FIRED"
    [] role = "START" /\ session = "LOCKED"                 -> "SENT"
    [] role = "START" /\ session = "IDLE"                   -> "IDLE"
    [] OTHER -> IF captured THEN "WATCHING" ELSE "CALIBRATING"

\* renderSensorBar(): the marker turns green on any object outside the band that
\* is drawn around the baseline, whether the range filter lets it through or not.
MarkerIsGreen(r) == captured /\ HasObject(r) /\ Off(r)

-----------------------------------------------------------------------------
(* Properties.                                                             *)

\* "so one runner cannot open two sessions": a START box that asked MAIN for a
\* session stays locked until MAIN reports it over, MAIN falls silent or the
\* cap runs out, whatever else MAIN broadcasts in between.
OneRunnerOneRequest == where = "multi_box" /\ owing => role = "START" /\ session = "LOCKED"

\* A locked FLASH box is locked inside a session: every way a session ends
\* also unlocks it, so it is never left locked and blind in the next one.
FlashLockHasSession == where = "multi_box" /\ role = "FLASH" /\ session = "LOCKED" => active

\* The screen is the only way to aim a box in the field, and it is drawn from
\* other fields than the ones the sensor logic obeys.  A box that says WATCHING
\* or CALIBRATING reads its sensor; one that says SENT, STANDBY or FIRED does
\* not.  (IDLE is the word for a START box that was given its role in the mode,
\* and it does watch.)
PanelTellsTheWatch ==
  InLap("sense") =>
    LET acts == ~Sleeping /\ ShouldWatch
    IN  /\ RoleStatusText \in {"WATCHING", "CALIBRATING"} => acts
        /\ RoleStatusText \in {"SENT", "STANDBY", "FIRED", "NO ROLE"} => ~acts

\* What the marker promises, and no more: a box that says WATCHING locks in a lap
\* exactly when the marker is green and the range filter lets the reading through.
\* A green marker beyond the filter fires nothing.
GreenInRangeLocks ==
  [][\A r \in Readings :
       ApplyRoleSensorLogic(r) /\ RoleStatusText = "WATCHING"
         => (session' = "LOCKED" <=> MarkerIsGreen(r) /\ r \in range)]_vars

\* The lock and what the box says of it.
LockIsTold == []FlashLockHasSession /\ []PanelTellsTheWatch /\ GreenInRangeLocks

\* "never stay locked forever": the lock ends although MAIN may lose packets,
\* reboot or keep heart-beating without ever reporting the session over.
LockEnds == session = "LOCKED" ~> session # "LOCKED" \/ where = "menu"

\* A flash that was armed goes off, or is dropped with the lock or the role.
FlashFires == pending ~> ~pending \/ where = "menu"

NodeMovesOn == LockEnds /\ FlashFires

=============================================================================
