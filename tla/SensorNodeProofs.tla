-------------------------- MODULE SensorNodeProofs --------------------------
(***************************************************************************)
(* Proofs about SensorNode, for every number of readings in a baseline,    *)
(* every width of their count and every threshold and time.                *)
(*                                                                         *)
(* The inductive invariant adds to the properties how large the running    *)
(* sum of a baseline can be for the count of its readings, a stale or      *)
(* wrapped count included, and that no request outlives the mode.          *)
(***************************************************************************)
EXTENDS SensorNode, TLAPS

\* No more than `samples' readings are in the sum; once as many as make a mean
\* have been counted the variable holds a mean, at most one reading large.
SumInv ==
  ~captured =>
    /\ samples > 0 /\ samples < Samples => baseline <= samples * MaxReading
    /\ samples >= Samples => baseline <= MaxReading

CapturedInv == captured => samples >= Samples /\ baseline <= MaxReading

NoRequestOutside == where = "menu" => ~owing

IInv ==
  /\ TypeOK
  /\ SumInv
  /\ CapturedInv
  /\ OneRunnerOneRequest
  /\ FlashLockHasSession
  /\ NoRequestOutside

-----------------------------------------------------------------------------
(* The baseline.                                                           *)

\* The mean of `n' readings is no larger than the largest of them.
LEMMA MeanIsAReading ==
  ASSUME NEW n \in Nat \ {0}, NEW m \in Nat, NEW s \in 0..(n * m)
  PROVE  s \div n \in 0..m
OBVIOUS

\* Counting up within the modulus, or over it back to 0.
LEMMA NextCount ==
  ASSUME NEW k \in 0..(SampleMod - 1), NEW n, n = (k + 1) % SampleMod
  PROVE  n \in 0..(SampleMod - 1) /\ (n = k + 1 \/ n = 0)
BY NodeAssumption

\* The sum grows by one reading and its count by one, with what a stale or
\* wrapped count may add to it.
LEMMA SumGrows ==
  ASSUME NEW k \in Nat, NEW b \in Nat, NEW r \in Readings,
         k > 0 /\ k < Samples => b <= k * MaxReading,
         k >= Samples => b <= MaxReading
  PROVE  LET sum == (IF k = 0 THEN 0 ELSE b) + r
         IN  /\ sum \in Nat
             /\ k + 1 < Samples => sum <= (k + 1) * MaxReading
             /\ sum <= Samples * MaxReading
<1> DEFINE sum == (IF k = 0 THEN 0 ELSE b) + r
<1>1. Samples \in Nat /\ Samples > 1 /\ MaxReading \in Nat /\ r \in Nat /\ r <= MaxReading
  BY NodeAssumption DEF Readings
<1>2. 2 * MaxReading <= Samples * MaxReading
  BY <1>1
<1>3. CASE k = 0
  BY <1>1, <1>2, <1>3
<1>4. CASE k > 0 /\ k < Samples
  <2>1. sum <= k * MaxReading + MaxReading
    BY <1>1, <1>4
  <2>2. k * MaxReading + MaxReading = (k + 1) * MaxReading
    BY <1>1
  <2>3. (k + 1) * MaxReading <= Samples * MaxReading
    BY <1>1, <1>4
  <2> QED BY <1>1, <1>4, <2>1, <2>2, <2>3
<1>5. CASE k >= Samples
  BY <1>1, <1>2, <1>5
<1> QED BY <1>1, <1>3, <1>4, <1>5

\* A step of the capture keeps the count, the sum and the mean in their bounds.
LEMMA CaptureKeeps ==
  ASSUME TypeOK, SumInv, CapturedInv, ~captured, NEW r \in Readings, CaptureBaselineStep(r)
  PROVE  /\ captured' \in BOOLEAN
         /\ samples' \in 0..(SampleMod - 1)
         /\ baseline' \in 0..(Samples * MaxReading)
         /\ SumInv' /\ CapturedInv'
<1> DEFINE sum == (IF samples = 0 THEN 0 ELSE baseline) + r
<1>1. /\ samples \in 0..(SampleMod - 1) /\ baseline \in 0..(Samples * MaxReading)
      /\ baseline \in Nat /\ samples \in Nat
      /\ Samples \in Nat \ {0} /\ MaxReading \in Nat
  <2>1. samples \in 0..(SampleMod - 1) /\ baseline \in 0..(Samples * MaxReading)
    BY DEF TypeOK
  <2>2. Samples \in Nat \ {0} /\ MaxReading \in Nat /\ SampleMod \in Nat
    BY NodeAssumption
  <2> QED BY <2>1, <2>2
<1>2. samples' = (samples + 1) % SampleMod
  BY DEF CaptureBaselineStep
<1>3. samples' \in 0..(SampleMod - 1) /\ (samples' = samples + 1 \/ samples' = 0)
  BY <1>1, <1>2, NextCount
<1>4. /\ sum \in Nat /\ sum <= Samples * MaxReading
      /\ samples + 1 < Samples => sum <= (samples + 1) * MaxReading
  BY <1>1, SumGrows, NodeAssumption DEF SumInv
<1>5. CASE samples' >= Samples
  <2>1. baseline' = sum \div Samples /\ captured' = TRUE
    BY <1>5, <1>2 DEF CaptureBaselineStep
  <2>2. baseline' \in 0..MaxReading
    <3>1. sum \in 0..(Samples * MaxReading)
      BY <1>1, <1>4
    <3> HIDE DEF sum
    <3> QED BY <1>1, <2>1, <3>1, MeanIsAReading
  <2>3. MaxReading <= Samples * MaxReading
    BY <1>1
  <2> QED BY <1>1, <1>3, <1>5, <2>1, <2>2, <2>3 DEF SumInv, CapturedInv
<1>6. CASE samples' < Samples
  <2>1. baseline' = sum
    BY <1>1, <1>3, <1>6, <1>2 DEF CaptureBaselineStep
  <2>2. ~captured' /\ captured' \in BOOLEAN
    <3>1. (samples' >= Samples) = FALSE
      BY <1>1, <1>3, <1>6
    <3>2. captured' = (samples' >= Samples)
      BY DEF CaptureBaselineStep
    <3> QED BY <3>1, <3>2, Zenon
  <2>3. baseline' \in 0..(Samples * MaxReading)
    BY <1>1, <1>4, <2>1
  <2>4. samples' > 0 => baseline' <= samples' * MaxReading
    BY <1>1, <1>3, <1>4, <1>6, <2>1
  <2>5. SumInv'
    BY <1>1, <1>3, <1>6, <2>4 DEF SumInv
  <2> QED BY <1>3, <2>2, <2>3, <2>5 DEF CapturedInv
<1> QED BY <1>1, <1>3, <1>5, <1>6

-----------------------------------------------------------------------------
(* The steps.                                                              *)

\* A new watch window, or the wait between two, leaves no more in the sum than
\* the count allows.
LEMMA BaselineDropped ==
  ASSUME TypeOK, SumInv, CapturedInv, captured' = FALSE,
         baseline' = baseline \/ baseline' = 0,
         samples' = samples \/ samples' = 0
  PROVE  SumInv' /\ CapturedInv'
<1>1. MaxReading \in Nat /\ Samples \in Nat /\ Samples > 1 /\ SampleMod \in Nat
  BY NodeAssumption
<1>2. samples \in 0..(SampleMod - 1) /\ captured \in BOOLEAN
  BY DEF TypeOK
<1>3. samples \in Nat /\ samples * MaxReading >= 0
  BY <1>1, <1>2
<1>4. CASE samples' = 0
  BY <1>1, <1>4 DEF SumInv, CapturedInv
<1>5. CASE samples' = samples /\ captured
  BY <1>1, <1>2, <1>5 DEF SumInv, CapturedInv
<1>6. CASE samples' = samples /\ ~captured
  BY <1>1, <1>3, <1>6 DEF SumInv, CapturedInv
<1> QED BY <1>2, <1>4, <1>5, <1>6

\* A packet of MAIN.
LEMMA PacketKeeps ==
  ASSUME IInv, OnStart \/ OnSessionOver \/ OnReady
  PROVE  IInv'
<1> DEFINE Kept == <<where, phase, role, range, baseline, samples, flashVars, lockAge>>
<1>1. /\ drained' \in 0..DrainMax /\ mainUp' = TRUE
      /\ out' = "" /\ UNCHANGED Kept
      /\ captured' = captured \/ captured' = FALSE
      /\ where = "multi_box"
  <2>1. drained' \in 0..DrainMax
    <3>1. drained < DrainMax /\ drained' = drained + 1
      BY DEF OnStart, OnSessionOver, OnReady, CountPacket
    <3>2. drained \in 0..DrainMax /\ DrainMax \in Nat
      BY NodeAssumption DEF IInv, TypeOK
    <3> QED BY <3>1, <3>2
  <2>2. mainUp' = TRUE /\ out' = "" /\ where = "multi_box" /\ UNCHANGED Kept
    BY DEF OnStart, OnSessionOver, OnReady, CountPacket, InLap, Rebaseline
  <2>3. captured' = captured \/ captured' = FALSE
    BY DEF OnStart, OnSessionOver, OnReady, Rebaseline
  <2> QED BY <2>1, <2>2, <2>3
<1>2. SumInv' /\ CapturedInv'
  <2>1. CASE captured' = captured
    BY <1>1, <2>1 DEF IInv, SumInv, CapturedInv
  <2>2. CASE captured' = FALSE
    BY <1>1, <2>2, BaselineDropped DEF IInv
  <2> QED BY <1>1, <2>1, <2>2
<1>3. CASE OnStart
  BY <1>1, <1>2, <1>3
     DEF IInv, TypeOK, OneRunnerOneRequest, FlashLockHasSession, NoRequestOutside,
         OnStart, flashVars
<1>4. CASE OnSessionOver
  BY <1>1, <1>2, <1>4
     DEF IInv, TypeOK, OneRunnerOneRequest, FlashLockHasSession, NoRequestOutside,
         OnSessionOver, flashVars
<1>5. CASE OnReady
  BY <1>1, <1>2, <1>5
     DEF IInv, TypeOK, OneRunnerOneRequest, FlashLockHasSession, NoRequestOutside,
         OnReady, sessionVars, flashVars
<1> QED BY <1>3, <1>4, <1>5

\* A hit locks the box: a START box with its request, a FLASH box inside the
\* session it watches.
LEMMA DetectKeeps ==
  ASSUME IInv, NEW r \in Readings, Advance("sense", "flash"),
         ~Sleeping, ShouldWatch, Detect(r)
  PROVE  IInv'
<1>1. /\ where = "multi_box" /\ phase' = "flash" /\ session' = "LOCKED" /\ lockAge' = 0
      /\ UNCHANGED <<where, drained, role, range, mainUp, active, baselineVars>>
      /\ role # "NONE" /\ session # "LOCKED"
  BY DEF Advance, InLap, Detect, Sleeping
<1>2. ~owing
  BY <1>1 DEF IInv, OneRunnerOneRequest
<1>3. SumInv' /\ CapturedInv'
  BY <1>1 DEF IInv, SumInv, CapturedInv, baselineVars
<1>4. 0 \in 0..(LockCap + 1)
  BY NodeAssumption
<1>5. CASE FireStart
  <2>1. role = "START" /\ owing' \in BOOLEAN /\ out' \in {"", "START"} /\ UNCHANGED flashVars
    BY <1>5 DEF FireStart
  <2> QED BY <1>1, <1>3, <1>4, <2>1
          DEF IInv, TypeOK, OneRunnerOneRequest, FlashLockHasSession, NoRequestOutside,
              flashVars, baselineVars
<1>6. CASE FireFlash
  <2>1. role = "FLASH" /\ active
    BY <1>6 DEF FireFlash, ShouldWatch
  <2> QED BY <1>1, <1>2, <1>3, <1>4, <1>6, <2>1
          DEF IInv, TypeOK, OneRunnerOneRequest, FlashLockHasSession, NoRequestOutside,
              FireFlash, baselineVars
<1> QED BY <1>5, <1>6 DEF Detect

\* A lap of the sensor.
LEMMA SensorKeeps ==
  ASSUME IInv, NEW r \in Readings, ApplyRoleSensorLogic(r)
  PROVE  IInv'
<1>1. Advance("sense", "flash")
  BY DEF ApplyRoleSensorLogic
<1>2. CASE ~Sleeping /\ ShouldWatch /\ Detect(r)
  BY <1>1, <1>2, DetectKeeps
<1>3. CASE /\ out' = "" /\ UNCHANGED <<sessionVars, flashVars, lockVars>>
           /\ UNCHANGED baselineVars \/ DropBaseline \/ (~captured /\ CaptureBaselineStep(r))
  <2>1. /\ captured' \in BOOLEAN /\ samples' \in 0..(SampleMod - 1)
        /\ baseline' \in 0..(Samples * MaxReading)
        /\ SumInv' /\ CapturedInv'
    <3>1. CASE UNCHANGED baselineVars
      BY <3>1 DEF IInv, TypeOK, SumInv, CapturedInv, baselineVars
    <3>2. CASE DropBaseline
      <4>1. 0 \in 0..(SampleMod - 1)
        BY NodeAssumption
      <4>2. SumInv' /\ CapturedInv'
        BY <3>2, BaselineDropped DEF IInv, DropBaseline
      <4> QED BY <3>2, <4>1, <4>2 DEF IInv, TypeOK, DropBaseline
    <3>3. CASE ~captured /\ CaptureBaselineStep(r)
      BY <3>3, CaptureKeeps DEF IInv
    <3> QED BY <1>3, <3>1, <3>2, <3>3
  <2> QED BY <1>1, <1>3, <2>1
          DEF IInv, TypeOK, OneRunnerOneRequest, FlashLockHasSession, NoRequestOutside,
              Advance, InLap, sessionVars, flashVars, lockVars
<1> QED BY <1>2, <1>3 DEF ApplyRoleSensorLogic, Watch

\* A pending flash goes off, or waits.
LEMMA FlashKeeps ==
  ASSUME IInv, FirePendingFlash
  PROVE  IInv'
BY DEF IInv, TypeOK, SumInv, CapturedInv, OneRunnerOneRequest, FlashLockHasSession,
       NoRequestOutside, FirePendingFlash, Advance, InLap, sessionVars, baselineVars, lockVars

\* The fallback unlocks with the session.
LEMMA UnlockKeeps ==
  ASSUME IInv, UnlockFallback
  PROVE  IInv'
<1>1. SumInv' /\ CapturedInv'
  <2>1. CASE captured' = FALSE
    BY <2>1, BaselineDropped DEF IInv, UnlockFallback, Rebaseline
  <2>2. CASE UNCHANGED captured
    BY <2>2 DEF IInv, SumInv, CapturedInv, UnlockFallback, Rebaseline
  <2> QED BY <2>1, <2>2 DEF UnlockFallback, Rebaseline
<1>2. /\ where = "multi_box" /\ phase' = "input" /\ out' = ""
      /\ UNCHANGED <<where, drained, role, range, mainUp, baseline, samples, flashDelay, flashLeft>>
      /\ UNCHANGED lockAge
  BY DEF UnlockFallback, Rebaseline, Advance, InLap
<1>3. CASE session' = "READY" /\ active' = FALSE /\ pending' = FALSE /\ owing' = FALSE
           /\ captured' = FALSE
  BY <1>1, <1>2, <1>3
     DEF IInv, TypeOK, OneRunnerOneRequest, FlashLockHasSession, NoRequestOutside
<1>4. CASE UNCHANGED <<sessionVars, pending, owing, captured>>
  BY <1>1, <1>2, <1>4
     DEF IInv, TypeOK, OneRunnerOneRequest, FlashLockHasSession, NoRequestOutside, sessionVars
<1> QED BY <1>3, <1>4 DEF UnlockFallback, Rebaseline

\* The user: nothing, the delay of the flash, the range filter, or another role.
LEMMA InputKeeps ==
  ASSUME IInv, NoInput \/ EditFlashDelay \/ EditRange \/ ApplyRoleChange
  PROVE  IInv'
<1>1. CASE NoInput
  BY <1>1 DEF IInv, TypeOK, SumInv, CapturedInv, OneRunnerOneRequest, FlashLockHasSession,
       NoRequestOutside, NoInput, Advance, InLap, sessionVars, baselineVars, flashVars, lockVars
<1>2. CASE EditFlashDelay
  BY <1>2 DEF IInv, TypeOK, SumInv, CapturedInv, OneRunnerOneRequest, FlashLockHasSession,
       NoRequestOutside, EditFlashDelay, Advance, InLap, sessionVars, baselineVars, lockVars
<1>3. CASE ApplyRoleChange
  <2>1. SumInv' /\ CapturedInv'
    BY <1>3, BaselineDropped DEF IInv, ApplyRoleChange
  <2>2. 0 \in 0..(SampleMod - 1)
    BY NodeAssumption
  <2> QED BY <1>3, <2>1, <2>2
          DEF IInv, TypeOK, OneRunnerOneRequest, FlashLockHasSession, NoRequestOutside,
              ApplyRoleChange, InLap
<1>4. CASE EditRange
  BY <1>4 DEF IInv, TypeOK, SumInv, CapturedInv, OneRunnerOneRequest, FlashLockHasSession,
       NoRequestOutside, EditRange, InLap, sessionVars, baselineVars, flashVars, lockVars
<1> QED BY <1>1, <1>2, <1>3, <1>4

\* The end of a lap.
LEMMA PauseKeeps ==
  ASSUME IInv, Pause
  PROVE  IInv'
<1>1. lockAge' \in 0..(LockCap + 1) /\ flashLeft' \in 0..FlashLimit /\ mainUp' \in BOOLEAN
  <2>1. /\ lockAge \in 0..(LockCap + 1) /\ LockCap \in Nat
        /\ flashLeft \in 0..FlashLimit /\ FlashLimit \in Nat
    BY NodeAssumption DEF IInv, TypeOK
  <2>2. lockAge' \in 0..(LockCap + 1)
    <3>1. lockAge' = IF lockAge > LockCap THEN lockAge ELSE lockAge + 1
      BY DEF Pause
    <3> QED BY <2>1, <3>1
  <2>3. flashLeft' \in 0..FlashLimit
    <3>1. flashLeft' = IF flashLeft > 0 THEN flashLeft - 1 ELSE 0
      BY DEF Pause
    <3> QED BY <2>1, <3>1
  <2>4. mainUp' \in BOOLEAN
    BY DEF IInv, TypeOK, Pause
  <2> QED BY <2>2, <2>3, <2>4
<1> QED BY <1>1
        DEF IInv, TypeOK, SumInv, CapturedInv, OneRunnerOneRequest, FlashLockHasSession,
            NoRequestOutside, Pause, InLap, sessionVars, baselineVars

\* The way out takes the request with it, and the way in finds none.
LEMMA ModeKeeps ==
  ASSUME IInv, LeaveMode \/ EnterMode
  PROVE  IInv'
<1>1. CASE LeaveMode
  BY <1>1
     DEF IInv, TypeOK, SumInv, CapturedInv, OneRunnerOneRequest, FlashLockHasSession,
         NoRequestOutside, LeaveMode, InLap, sessionVars, baselineVars, flashVars
<1>2. CASE EnterMode
  <2>1. SumInv' /\ CapturedInv'
    BY <1>2, BaselineDropped DEF IInv, EnterMode
  <2>2. 0 \in 0..(SampleMod - 1) /\ 0 \in 0..DrainMax /\ 0 \in 0..FlashLimit
    BY NodeAssumption
  <2>3. 0 \in 0..(Samples * MaxReading)
    BY NodeAssumption
  <2> QED BY <1>2, <2>1, <2>2, <2>3
          DEF IInv, TypeOK, OneRunnerOneRequest, FlashLockHasSession, NoRequestOutside,
              EnterMode
<1> QED BY <1>1, <1>2

-----------------------------------------------------------------------------
(* The theorems.                                                           *)

LEMMA InitIInv == Init => IInv
<1> SUFFICES ASSUME Init PROVE IInv
  OBVIOUS
<1>1. /\ 0 \in 0..(SampleMod - 1) /\ 0 \in 0..DrainMax /\ 0 \in 0..FlashLimit
      /\ 0 \in 0..(LockCap + 1) /\ 0 \in 0..(Samples * MaxReading)
  BY NodeAssumption
<1>2. TypeOK
  BY <1>1 DEF Init, TypeOK
<1>3. SumInv /\ CapturedInv
  <2>1. captured = FALSE /\ samples = 0 /\ Samples \in Nat /\ Samples > 1
    BY NodeAssumption DEF Init
  <2> QED BY <2>1 DEF SumInv, CapturedInv
<1> QED BY <1>2, <1>3
        DEF Init, IInv, OneRunnerOneRequest, FlashLockHasSession, NoRequestOutside

LEMMA StepIInv == IInv /\ [Next]_vars => IInv'
<1> SUFFICES ASSUME IInv, [Next]_vars PROVE IInv'
  OBVIOUS
<1>1. CASE UNCHANGED vars
  <2>1. /\ UNCHANGED <<where, phase, drained, role, range, session, active, mainUp>>
        /\ UNCHANGED <<captured, samples, baseline, pending, flashDelay, flashLeft>>
        /\ UNCHANGED <<lockAge, owing, out>>
    BY <1>1 DEF vars, loopVars, sessionVars, baselineVars, flashVars, lockVars
  <2>2. TypeOK'
    <3>1. /\ where' = where /\ phase' = phase /\ drained' = drained /\ role' = role
          /\ range' = range
          /\ session' = session /\ active' = active /\ mainUp' = mainUp
          /\ captured' = captured /\ samples' = samples /\ baseline' = baseline
          /\ lockAge' = lockAge /\ owing' = owing /\ pending' = pending
          /\ flashDelay' = flashDelay /\ flashLeft' = flashLeft /\ out' = out
      BY <2>1
    <3>2. TypeOK
      BY DEF IInv
    <3>3. /\ where' \in {"menu", "multi_box"}
          /\ phase' \in {"drain", "sense", "flash", "unlock", "input", "pause"}
          /\ role' \in Roles /\ range' \in Ranges /\ session' \in {"IDLE", "READY", "LOCKED"}
          /\ active' \in BOOLEAN /\ mainUp' \in BOOLEAN /\ captured' \in BOOLEAN
          /\ pending' \in BOOLEAN /\ owing' \in BOOLEAN /\ out' \in {"", "START", "FLASH"}
      BY <3>1, <3>2 DEF TypeOK
    <3>4. /\ drained' \in 0..DrainMax /\ samples' \in 0..(SampleMod - 1)
          /\ baseline' \in 0..(Samples * MaxReading) /\ lockAge' \in 0..(LockCap + 1)
          /\ flashDelay' \in 0..FlashLimit /\ flashLeft' \in 0..FlashLimit
      BY <3>1, <3>2 DEF TypeOK
    <3> QED BY <3>3, <3>4 DEF TypeOK
  <2>3. SumInv' /\ CapturedInv'
    BY <2>1 DEF IInv, SumInv, CapturedInv
  <2> QED BY <2>1, <2>2, <2>3
          DEF IInv, OneRunnerOneRequest, FlashLockHasSession, NoRequestOutside
<1>2. CASE OnStart \/ OnSessionOver \/ OnReady
  BY <1>2, PacketKeeps
<1>3. CASE DrainDone
  <2>1. 0 \in 0..DrainMax
    BY NodeAssumption
  <2> QED BY <1>3, <2>1
          DEF IInv, TypeOK, SumInv, CapturedInv, OneRunnerOneRequest, FlashLockHasSession,
              NoRequestOutside, DrainDone, InLap, sessionVars, baselineVars, flashVars, lockVars
<1>4. CASE \E r \in Readings : ApplyRoleSensorLogic(r)
  BY <1>4, SensorKeeps
<1>5. CASE FirePendingFlash
  BY <1>5, FlashKeeps
<1>6. CASE UnlockFallback
  BY <1>6, UnlockKeeps
<1>7. CASE NoInput \/ EditFlashDelay \/ EditRange \/ ApplyRoleChange
  BY <1>7, InputKeeps
<1>8. CASE Pause
  BY <1>8, PauseKeeps
<1>9. CASE LeaveMode \/ EnterMode
  BY <1>9, ModeKeeps
<1> QED BY <1>1, <1>2, <1>3, <1>4, <1>5, <1>6, <1>7, <1>8, <1>9 DEF Next, Lap

\* IInv holds in every state of every behaviour.
THEOREM Invariance == Spec => []IInv
BY InitIInv, StepIInv, PTL DEF Spec

\* Every variable keeps its range: the count of a baseline's readings may
\* wrap or go stale, the sum of them never outgrows a full baseline.
THEOREM TypeCorrect == Spec => []TypeOK
<1>1. IInv => TypeOK
  BY DEF IInv
<1> QED BY <1>1, Invariance, PTL

\* One runner cannot open two sessions: a START box that asked stays locked,
\* for every length of the lock and every order of packets.
THEOREM OneRequest == Spec => []OneRunnerOneRequest
<1>1. IInv => OneRunnerOneRequest
  BY DEF IInv
<1> QED BY <1>1, Invariance, PTL

\* A FLASH box is locked only inside a session.
THEOREM LockedInSession == Spec => []FlashLockHasSession
<1>1. IInv => FlashLockHasSession
  BY DEF IInv
<1> QED BY <1>1, Invariance, PTL

-----------------------------------------------------------------------------
(* What the screen says.                                                   *)

\* A START box inside a session is locked: MAIN's START locks it, and whatever
\* unlocks it ends the session.
LockedWhileActive == role = "START" /\ active => session = "LOCKED"

\* A sensor lap of a box that is watching locks it, and one that is not changes
\* neither its lock nor its session.
LEMMA SensorLocks ==
  ASSUME NEW r, ApplyRoleSensorLogic(r)
  PROVE  role' = role /\ active' = active /\ (session' = "LOCKED" \/ session' = session)
<1>1. role' = role
  BY DEF ApplyRoleSensorLogic, Advance
<1>2. CASE Detect(r)
  BY <1>1, <1>2 DEF Detect
<1>3. CASE UNCHANGED sessionVars
  BY <1>1, <1>3 DEF sessionVars
<1> QED
  BY <1>2, <1>3 DEF ApplyRoleSensorLogic

\* Every step keeps it.
LEMMA LockedWhileActiveStep == LockedWhileActive /\ [Next]_vars => LockedWhileActive'
<1> SUFFICES ASSUME LockedWhileActive, [Next]_vars PROVE LockedWhileActive'
  OBVIOUS
<1>1. CASE OnStart \/ OnSessionOver \/ OnReady
  BY <1>1 DEF LockedWhileActive, OnStart, OnSessionOver, OnReady, CountPacket, sessionVars
<1>2. CASE DrainDone \/ FirePendingFlash \/ NoInput \/ EditFlashDelay \/ EditRange \/ Pause
  BY <1>2 DEF LockedWhileActive, DrainDone, FirePendingFlash, NoInput, EditFlashDelay, EditRange, Pause,
              Advance, sessionVars
<1>3. CASE \E r \in Readings : ApplyRoleSensorLogic(r)
  BY <1>3, SensorLocks DEF LockedWhileActive
<1>4. CASE UnlockFallback \/ ApplyRoleChange
  BY <1>4 DEF LockedWhileActive, UnlockFallback, ApplyRoleChange, Advance, sessionVars
<1>5. CASE LeaveMode \/ EnterMode
  BY <1>5 DEF LockedWhileActive, LeaveMode, EnterMode, sessionVars
<1>6. CASE UNCHANGED vars
  BY <1>6 DEF LockedWhileActive, vars, sessionVars
<1> QED
  BY <1>1, <1>2, <1>3, <1>4, <1>5, <1>6 DEF Next, Lap

\* With that, each word of the panel fits what the sensor logic obeys.
LEMMA PanelFromInv == TypeOK /\ LockedWhileActive => PanelTellsTheWatch
<1> SUFFICES ASSUME TypeOK, LockedWhileActive PROVE PanelTellsTheWatch
  OBVIOUS
<1>1. /\ role \in {"NONE", "START", "FLASH"} /\ session \in {"IDLE", "READY", "LOCKED"}
      /\ active \in BOOLEAN /\ pending \in BOOLEAN /\ captured \in BOOLEAN
  BY DEF TypeOK, Roles
<1> DEFINE acts == ~Sleeping /\ ShouldWatch
<1>2. CASE role = "NONE"
  <2>1. RoleStatusText = "NO ROLE" /\ ~acts
    BY <1>2 DEF RoleStatusText, Sleeping
  <2> QED
    BY <2>1 DEF PanelTellsTheWatch
<1>3. CASE role = "START"
  <2>1. CASE session = "LOCKED"
    <3>1. RoleStatusText = "SENT" /\ ~acts
      BY <1>3, <2>1 DEF RoleStatusText, Sleeping
    <3> QED
      BY <3>1 DEF PanelTellsTheWatch
  <2>2. CASE session = "IDLE"
    <3>1. RoleStatusText = "IDLE"
      BY <1>3, <2>2 DEF RoleStatusText
    <3> QED
      BY <3>1 DEF PanelTellsTheWatch
  <2>3. CASE session = "READY"
    <3>1. RoleStatusText = (IF captured THEN "WATCHING" ELSE "CALIBRATING")
      BY <1>3, <2>3 DEF RoleStatusText
    <3>2. acts
      BY <1>3, <2>3 DEF LockedWhileActive, Sleeping, ShouldWatch
    <3> QED
      BY <3>1, <3>2 DEF PanelTellsTheWatch
  <2> QED
    BY <1>1, <2>1, <2>2, <2>3
<1>4. CASE role = "FLASH"
  <2>1. CASE pending
    <3>1. RoleStatusText = "FIRING"
      BY <1>4, <2>1 DEF RoleStatusText
    <3> QED
      BY <3>1 DEF PanelTellsTheWatch
  <2>2. CASE ~pending /\ ~active
    <3>1. RoleStatusText = "STANDBY" /\ ~acts
      BY <1>4, <2>2 DEF RoleStatusText, ShouldWatch
    <3> QED
      BY <3>1 DEF PanelTellsTheWatch
  <2>3. CASE ~pending /\ active /\ session = "LOCKED"
    <3>1. RoleStatusText = "FIRED" /\ ~acts
      BY <1>4, <2>3 DEF RoleStatusText, Sleeping
    <3> QED
      BY <3>1 DEF PanelTellsTheWatch
  <2>4. CASE ~pending /\ active /\ session # "LOCKED"
    <3>1. RoleStatusText = (IF captured THEN "WATCHING" ELSE "CALIBRATING")
      BY <1>4, <2>4 DEF RoleStatusText
    <3>2. acts
      BY <1>4, <2>4 DEF Sleeping, ShouldWatch
    <3> QED
      BY <3>1, <3>2 DEF PanelTellsTheWatch
  <2> QED
    BY <1>1, <2>1, <2>2, <2>3, <2>4
<1> QED
  BY <1>1, <1>2, <1>3, <1>4

\* A reading beyond the range filter is not detected, a green one within it is,
\* and no other branch of the sensor logic touches the lock.
LEMMA GreenLocks ==
  ASSUME PanelTellsTheWatch, NEW r \in Readings, ApplyRoleSensorLogic(r),
         TypeOK, RoleStatusText = "WATCHING"
  PROVE  session' = "LOCKED" <=> MarkerIsGreen(r) /\ r \in range
<1>1. InLap("sense")
  BY DEF ApplyRoleSensorLogic, Advance
<1>2. ~Sleeping /\ ShouldWatch
  BY <1>1 DEF PanelTellsTheWatch
<1>3. session # "LOCKED"
  BY <1>2 DEF Sleeping
<1>4. captured
  BY DEF RoleStatusText
<1>5. CASE MarkerIsGreen(r) /\ r \in range
  <2>1. captured /\ Valid(r) /\ Off(r)
    BY <1>5 DEF MarkerIsGreen, Valid
  <2>2. ~Watch(r)
    BY <2>1 DEF Watch
  <2>3. Detect(r)
    BY <1>2, <2>2 DEF ApplyRoleSensorLogic
  <2> QED
    BY <1>5, <2>3 DEF Detect
<1>6. CASE ~(MarkerIsGreen(r) /\ r \in range)
  <2>1. r \in range => r # 0
    <3>1. range \in Ranges
      BY DEF TypeOK
    <3>2. range \in SUBSET (1..MaxReading)
      BY <3>1, Zenon DEF Ranges
    <3> QED
      BY <3>2, NodeAssumption
  <2>2. ~Detect(r)
    BY <1>4, <1>6, <2>1 DEF Detect, Valid, HasObject, MarkerIsGreen
  <2>3. session' = session
    BY <2>2 DEF ApplyRoleSensorLogic, sessionVars
  <2> QED
    BY <1>3, <1>6, <2>3
<1> QED
  BY <1>5, <1>6

\* roleStatusText() and renderSensorBar() against applyRoleSensorLogic(), for every
\* threshold, baseline and range: the lock has a session, the words fit the watch,
\* and a watching box locks exactly when the marker is green and the range filter
\* lets the reading through.
THEOREM PanelIsTrue == Spec => LockIsTold
<1>1. Init => LockedWhileActive
  BY DEF Init, LockedWhileActive
<1>2. Spec => []LockedWhileActive
  BY <1>1, LockedWhileActiveStep, PTL DEF Spec
<1>3. IInv /\ LockedWhileActive => PanelTellsTheWatch
  BY PanelFromInv DEF IInv
<1>4. TypeOK /\ PanelTellsTheWatch /\ [Next]_vars =>
        [\A r \in Readings :
           ApplyRoleSensorLogic(r) /\ RoleStatusText = "WATCHING"
             => (session' = "LOCKED" <=> MarkerIsGreen(r) /\ r \in range)]_vars
  BY GreenLocks
<1> QED
  BY Invariance, TypeCorrect, LockedInSession, <1>2, <1>3, <1>4, PTL
     DEF Spec, LockIsTold, GreenInRangeLocks

=============================================================================
