------------------------ MODULE MainCoordinatorProofs ------------------------
(***************************************************************************)
(* Proofs about MainCoordinator, for every value of its constants that     *)
(* satisfies LimitsAssumption and ChannelAssumption.                       *)
(*                                                                         *)
(* The inductive invariant adds to the type invariant four facts that the  *)
(* safety properties silently rest on.                                     *)
(***************************************************************************)
EXTENDS MainCoordinator, TLAPS

(* The rows keep the cap at or above the floor. *)
LimitsOrdered == limits.minBulb <= limits.maxBulb

(* The press flags are exactly the channels held, and only an exposure has
   any. *)
HoldInv ==
  /\ held = fired
  /\ fired \subseteq enabled
  /\ session # "EXPOSING" => fired = {}
  /\ lock <=> session = "EXPOSING"

(* A loop about to break out with a live battery has no exposure open. *)
ExitInv ==
  /\ dying => exitReq
  /\ exitReq /\ ~dying => phase = "pause" /\ session # "EXPOSING"
  /\ where = "menu" /\ ~dying => session # "EXPOSING"

(* The cap in force never exceeds the history's, and from the deadline check
   to the end of the lap the shutter has been open for less than that. *)
CapInv ==
  where = "multi_box" /\ session = "EXPOSING" =>
    /\ limits.maxBulb <= openCap
    /\ ~orphaned =>
         /\ selfRole = "MAIN"
         /\ age < openCap + MaxLag
         /\ phase \in {"claim", "sense", "turn", "press", "pause"} => age < openCap

(* The inductive invariant. *)
IInv == TypeOK /\ LimitsOrdered /\ HoldInv /\ ExitInv /\ CapInv

-----------------------------------------------------------------------------
(* The row editors keep the limits in range and the cap above the floor.   *)

(* A clamped value lies between its bounds. *)
LEMMA ClampRange ==
  ASSUME NEW low \in Int, NEW high \in Int, NEW n \in Int, low <= high
  PROVE  Clamp(low, high, n) \in low..high
BY DEF Clamp, AtMost, AtLeast

(* Turning MIN_BULB keeps the limits typed and the cap above the floor. *)
LEMMA TurnMinBulbOrdered ==
  ASSUME NEW d \in Int, limits \in Limits, limits.minBulb <= limits.maxBulb
  PROVE  /\ TurnMinBulb(d) \in Limits
         /\ TurnMinBulb(d).minBulb <= TurnMinBulb(d).maxBulb
<1> DEFINE low == Clamp(1, BulbLimit, limits.minBulb + d)
           high == IF limits.maxBulb <= low THEN low + 1 ELSE limits.maxBulb
<1>1. low \in 1..BulbLimit
  <2>1. limits.minBulb + d \in Int /\ BulbLimit \in Int /\ 1 <= BulbLimit
    BY LimitsAssumption DEF LimitsAssumption, Limits
  <2>2. Clamp(1, BulbLimit, limits.minBulb + d) \in 1..BulbLimit
    BY <2>1 DEF Clamp, AtMost, AtLeast
  <2>3. QED
    BY <2>2
<1>2. TurnMinBulb(d) = [minBulb |-> low, maxBulb |-> high,
                        rearm |-> limits.rearm, endDelay |-> limits.endDelay]
  <2>1. /\ TurnMinBulb(d) = [[limits EXCEPT !.minBulb = low] EXCEPT !.maxBulb = high]
        /\ limits = [minBulb |-> limits.minBulb, maxBulb |-> limits.maxBulb,
                     rearm |-> limits.rearm, endDelay |-> limits.endDelay]
    BY DEF TurnMinBulb, Limits
  <2>2. QED
    BY <2>1
<1>3. high \in 1..(BulbLimit + 1) /\ low <= high
  BY <1>1, LimitsAssumption DEF LimitsAssumption, Limits
<1> HIDE DEF low, high
<1>4. QED
  BY <1>1, <1>2, <1>3 DEF Limits

(* Turning MAX_BULB does too, although its last clamp may bring the cap down
   to the floor. *)
LEMMA TurnMaxBulbOrdered ==
  ASSUME NEW d \in Int, limits \in Limits, limits.minBulb <= limits.maxBulb
  PROVE  /\ TurnMaxBulb(d) \in Limits
         /\ TurnMaxBulb(d).minBulb <= TurnMaxBulb(d).maxBulb
BY LimitsAssumption DEF LimitsAssumption, TurnMaxBulb, Limits, AtMost

(* Turning REARM leaves the bulb rows alone. *)
LEMMA TurnRearmOrdered ==
  ASSUME NEW d \in Int, limits \in Limits, limits.minBulb <= limits.maxBulb
  PROVE  /\ TurnRearm(d) \in Limits
         /\ TurnRearm(d).minBulb <= TurnRearm(d).maxBulb
BY LimitsAssumption DEF LimitsAssumption, TurnRearm, Limits, Clamp, AtMost, AtLeast

(* Turning END_DELAY leaves the bulb rows alone. *)
LEMMA TurnEndDelayOrdered ==
  ASSUME NEW d \in Int, limits \in Limits, limits.minBulb <= limits.maxBulb
  PROVE  /\ TurnEndDelay(d) \in Limits
         /\ TurnEndDelay(d).minBulb <= TurnEndDelay(d).maxBulb
BY LimitsAssumption DEF LimitsAssumption, TurnEndDelay, Limits, Clamp, AtMost, AtLeast

(* loadConfig() repairs whatever pair of bulb times flash holds. *)
LEMMA LoadedOrdered ==
  ASSUME NEW stored \in Limits
  PROVE  /\ Loaded(stored) \in Limits
         /\ Loaded(stored).minBulb <= Loaded(stored).maxBulb
BY LimitsAssumption DEF LimitsAssumption, Loaded, Limits

(* Whatever row is turned, the limits stay typed and ordered. *)
LEMMA EditLimitOrdered ==
  ASSUME IInv, EditLimit
  PROVE  limits' \in Limits /\ limits'.minBulb <= limits'.maxBulb
<1>1. PICK d \in Turns :
        limits' \in {TurnMinBulb(d), TurnMaxBulb(d), TurnRearm(d), TurnEndDelay(d)}
  BY DEF EditLimit
<1>2. d \in Int
  BY LimitsAssumption DEF LimitsAssumption, Turns
<1>3. limits \in Limits /\ limits.minBulb <= limits.maxBulb
  BY DEF IInv, TypeOK, ConfigTypeOK, LimitsOrdered
<1>4. QED
  BY <1>1, <1>2, <1>3, TurnMinBulbOrdered, TurnMaxBulbOrdered, TurnRearmOrdered,
     TurnEndDelayOrdered

-----------------------------------------------------------------------------
(* The invariant holds initially and every step keeps it.                  *)

(* nextSessionId() wraps inside the 16-bit range. *)
LEMMA SidRange ==
  ASSUME TypeOK
  PROVE  NextSessionId \in 0..(SidMod - 1)
BY LimitsAssumption DEF LimitsAssumption, NextSessionId, TypeOK, SessionTypeOK

(* A powered-up box satisfies the invariant. *)
LEMMA InitInv == Init => IInv
<1> SUFFICES ASSUME Init PROVE IInv
  OBVIOUS
<1>1. LoopTypeOK
  <2>1. exitReq \in BOOLEAN /\ dying \in BOOLEAN /\ radio \in BOOLEAN
    BY Zenon DEF Init
  <2>2. drained \in 0..DrainMax
    BY LimitsAssumption DEF LimitsAssumption, Init
  <2>3. QED
    BY <2>1, <2>2, Zenon DEF Init, LoopTypeOK, Phases
<1>2. RoleTypeOK
  BY Zenon DEF Init, ColdRam, RoleTypeOK, Roles
<1>3. ConfigTypeOK /\ LimitsOrdered
  <2>1. limits \in Limits /\ limits.minBulb < limits.maxBulb
    BY DEF Init
  <2>2. limits.minBulb <= limits.maxBulb
    BY <2>1 DEF Limits
  <2>3. QED
    BY <2>1, <2>2 DEF Init, ConfigTypeOK, LimitsOrdered
<1>4. SessionTypeOK
  <2>1. endRequested \in BOOLEAN
    BY Zenon DEF Init, ColdRam
  <2>2. /\ sid \in 0..(SidMod - 1)
        /\ age \in 0..AgeBound
        /\ endLeft \in 0..EndLimit
    <3>1. sid = 0 /\ age = 0 /\ endLeft = 0
      BY DEF Init, ColdRam
    <3>2. QED
      BY <3>1, LimitsAssumption DEF LimitsAssumption
  <2>3. QED
    BY <2>1, <2>2, Zenon DEF Init, ColdRam, SessionTypeOK, Sessions
<1>5. ShutterTypeOK
  BY Zenon DEF Init, ColdRam, ShutterTypeOK
<1>6. HistoryTypeOK
  <2>1. orphaned \in BOOLEAN
    BY Zenon DEF Init
  <2>2. openCap \in 0..(BulbLimit + 1)
    <3>1. openCap = 0
      BY DEF Init
    <3>2. QED
      BY <3>1, LimitsAssumption DEF LimitsAssumption
  <2>3. QED
    BY <2>1, <2>2, Zenon DEF Init, HistoryTypeOK
<1>7. HoldInv /\ ExitInv /\ CapInv
  BY Zenon DEF Init, ColdRam, HoldInv, ExitInv, CapInv
<1>8. QED
  BY <1>1, <1>2, <1>3, <1>4, <1>5, <1>6, <1>7 DEF IInv, TypeOK

-----------------------------------------------------------------------------
(* Every step keeps each conjunct, given the whole invariant before it.    *)

(* The loop position, the exit flags and the radio keep their types. *)
LEMMA LoopTypeInv ==
  ASSUME IInv, [Next]_vars
  PROVE  LoopTypeOK'
<1> USE DEF IInv, TypeOK, LoopTypeOK, Phases
<1>1. CASE Receive
  BY <1>1, LimitsAssumption
     DEF LimitsAssumption, Receive, CountPacket, InLap, CenterOnStart, CenterOnEndDetect,
         OnDisarm, OnIdentityPacket, IgnorePacket
<1>2. CASE Lap
  <2>1. CASE Input
    <3>1. /\ UNCHANGED where
          /\ phase' \in {"press", "pause"}
          /\ drained' \in {0, drained}
          /\ screen' \in {screen, "MAIN", "CONNECTION"}
          /\ scan' \in {scan, "on", "ended"}
      BY <2>1
         DEF Input, EncoderTurned, ButtonPressed, Advance, InLap, NoInput, OpenConnection, ApplyRoleChange,
             EditLimit, SaveConfig, Scan, ChangePeers, RequestExit
    <3>2. exitReq' \in BOOLEAN /\ dying' \in BOOLEAN /\ radio' \in BOOLEAN
      BY <2>1, Zenon
         DEF Input, EncoderTurned, ButtonPressed, Advance, NoInput, OpenConnection, ApplyRoleChange,
             EditLimit, SaveConfig, Scan, ChangePeers, RequestExit
    <3>3. QED
      BY <3>1, <3>2, LimitsAssumption DEF LimitsAssumption
  <2>2. CASE DrainDone \/ CenterCloseBulbIfDue \/ AutoClaimMainIfScanFinished
             \/ ApplyRoleSensorLogic
    BY <2>2, LimitsAssumption
       DEF LimitsAssumption, Advance, InLap, DrainDone, CenterCloseBulbIfDue,
           AutoClaimMainIfScanFinished, ApplyRoleSensorLogic
  <2>3. CASE (\E d \in 1..MaxLag : Pause(d)) \/ LeaveLoop
    BY <2>3 DEF Pause, LeaveLoop, InLap
  <2>4. QED
    BY <1>2, <2>1, <2>2, <2>3 DEF Lap
<1>3. CASE EnterMode
  <2>1. exitReq' \in BOOLEAN /\ radio' \in BOOLEAN
    BY <1>3, Zenon DEF EnterMode
  <2>2. drained' \in 0..DrainMax
    BY <1>3, LimitsAssumption DEF LimitsAssumption, EnterMode
  <2>3. QED
    BY <1>3, <2>1, <2>2, Zenon DEF EnterMode
<1>4. CASE PowerCycle
  <2>1. drained' \in 0..DrainMax
    BY <1>4, LimitsAssumption DEF LimitsAssumption, PowerCycle
  <2>2. QED
    BY <1>4, <2>1, Zenon DEF PowerCycle
<1>5. CASE BatteryCritical \/ SetChannels \/ UNCHANGED vars
  BY <1>5 DEF BatteryCritical, SetChannels, vars, loopVars
<1>6. QED
  BY <1>1, <1>2, <1>3, <1>4, <1>5 DEF Next

(* The three copies of the role keep their types. *)
LEMMA RoleTypeInv ==
  ASSUME IInv, [Next]_vars
  PROVE  RoleTypeOK'
<1> USE DEF IInv, TypeOK, RoleTypeOK, Roles, roleVars
<1>1. CASE Receive
  BY <1>1 DEF Receive, CenterOnStart, CenterOnEndDetect, OnDisarm, OnIdentityPacket,
              IgnorePacket
<1>2. CASE Lap
  BY <1>2 DEF Lap, DrainDone, CenterCloseBulbIfDue, AutoClaimMainIfScanFinished,
              ApplyRoleSensorLogic, Input, NoInput, OpenConnection, ApplyRoleChange,
              EditLimit, SaveConfig, Scan, ChangePeers, RequestExit, Pause, LeaveLoop
<1>3. CASE EnterMode \/ PowerCycle
  BY <1>3 DEF EnterMode, PowerCycle
<1>4. CASE BatteryCritical \/ SetChannels \/ UNCHANGED vars
  BY <1>4 DEF BatteryCritical, SetChannels, vars
<1>5. QED
  BY <1>1, <1>2, <1>3, <1>4 DEF Next

(* The rows keep their types and the cap stays above the floor. *)
LEMMA ConfigInv ==
  ASSUME IInv, [Next]_vars
  PROVE  ConfigTypeOK' /\ LimitsOrdered'
<1> USE DEF IInv, TypeOK, ConfigTypeOK, LimitsOrdered, configVars
<1>1. CASE EditLimit
  BY <1>1, EditLimitOrdered DEF EditLimit
<1>2. CASE EnterMode
  <2>1. PICK stored \in Limits : limits' = Loaded(stored)
    BY <1>2 DEF EnterMode
  <2>2. QED
    BY <1>2, <2>1, LoadedOrdered DEF EnterMode
<1>3. CASE SetChannels
  BY <1>3 DEF SetChannels
<1>4. CASE UNCHANGED configVars
  BY <1>4
<1>5. QED
  BY <1>1, <1>2, <1>3, <1>4
     DEF Next, Receive, CenterOnStart, CenterOnEndDetect, OnDisarm, OnIdentityPacket,
         IgnorePacket, Lap, DrainDone, CenterCloseBulbIfDue, AutoClaimMainIfScanFinished,
         ApplyRoleSensorLogic, Input, NoInput, OpenConnection, ApplyRoleChange, SaveConfig,
         Scan, ChangePeers, RequestExit, Pause, LeaveLoop, BatteryCritical, PowerCycle, vars

(* The session, its id and its timers keep their types. *)
LEMMA SessionTypeInv ==
  ASSUME IInv, [Next]_vars
  PROVE  SessionTypeOK'
<1> USE DEF IInv, TypeOK, SessionTypeOK, sessionVars
<1> DEFINE Counters == /\ session' \in Sessions
                       /\ sid' \in 0..(SidMod - 1)
                       /\ age' \in 0..AgeBound
                       /\ endLeft' \in 0..EndLimit
<1>1. CASE Receive
  <2>1. Counters
    BY <1>1, SidRange, LimitsAssumption
       DEF LimitsAssumption, Sessions, Receive, CenterOnStart, OpenSession, CenterOnEndDetect,
           OnDisarm, StopClock, OnIdentityPacket, IgnorePacket
  <2>2. endRequested' \in BOOLEAN
    BY <1>1, Zenon
       DEF Receive, CenterOnStart, OpenSession, CenterOnEndDetect, OnDisarm,
           ForceCloseBulbIfExposing, OnIdentityPacket, IgnorePacket
  <2>3. QED
    BY <2>1, <2>2
<1>2. CASE Input
  <2>1. Counters
    BY <1>2, LimitsAssumption
       DEF LimitsAssumption, Sessions, Input, NoInput, OpenConnection, ApplyRoleChange,
           EditLimit, SaveConfig, Scan, ChangePeers, RequestExit, StopClock
  <2>2. endRequested' \in BOOLEAN
    BY <1>2, Zenon
       DEF Input, NoInput, OpenConnection, ApplyRoleChange, EditLimit, SaveConfig, Scan,
           ChangePeers, RequestExit, ForceCloseBulbIfExposing
  <2>3. QED
    BY <2>1, <2>2
<1>3. CASE CenterCloseBulbIfDue
  BY <1>3, LimitsAssumption
     DEF LimitsAssumption, Sessions, CenterCloseBulbIfDue, FinishShot, FinishRearm, NothingDue,
         StopClock
<1>4. CASE ApplyRoleSensorLogic
  <2>1. Counters
    BY <1>4 DEF ApplyRoleSensorLogic, RequestEnd, ConfigTypeOK, Limits
  <2>2. endRequested' \in BOOLEAN
    BY <1>4, Zenon DEF ApplyRoleSensorLogic, RequestEnd
  <2>3. QED
    BY <2>1, <2>2
<1>5. ASSUME NEW d \in 1..MaxLag, Pause(d)
      PROVE  SessionTypeOK'
  BY <1>5, LimitsAssumption DEF LimitsAssumption, Pause, AtMost, AtLeast
<1>6. CASE EnterMode \/ PowerCycle
  <2>1. session' \in Sessions /\ sid' \in {0, sid} /\ age' = 0 /\ endLeft' = 0
    BY <1>6 DEF EnterMode, PowerCycle, Sessions
  <2>2. Counters
    BY <2>1, LimitsAssumption DEF LimitsAssumption
  <2>3. endRequested' \in BOOLEAN
    BY <1>6, Zenon DEF EnterMode, PowerCycle
  <2>4. QED
    BY <2>2, <2>3
<1>7. CASE UNCHANGED sessionVars
  BY <1>7
<1>8. QED
  BY <1>1, <1>2, <1>3, <1>4, <1>5, <1>6, <1>7
     DEF Next, Lap, DrainDone, AutoClaimMainIfScanFinished, LeaveLoop, BatteryCritical,
         SetChannels, vars

(* The lines, the press flags and the lock keep their types. *)
LEMMA ShutterTypeInv ==
  ASSUME IInv, [Next]_vars
  PROVE  ShutterTypeOK'
<1> USE DEF IInv, TypeOK, ShutterTypeOK, shutterVars
<1>1. ASSUME OpenBulb PROVE ShutterTypeOK'
  <2>1. lock' \in BOOLEAN
    BY <1>1, Zenon DEF OpenBulb
  <2>2. held' \in SUBSET Channels /\ fired' \in SUBSET Channels
    BY <1>1 DEF OpenBulb, ConfigTypeOK
  <2>3. QED
    BY <2>1, <2>2
<1>2. ASSUME CloseBulb PROVE ShutterTypeOK'
  BY <1>2 DEF CloseBulb
<1>3. CASE EnterMode
  BY <1>3 DEF EnterMode
<1>4. CASE PowerCycle
  BY <1>4 DEF PowerCycle
<1>5. CASE UNCHANGED shutterVars
  BY <1>5
<1>6. QED
  BY <1>1, <1>2, <1>3, <1>4, <1>5
     DEF Next, Receive, CenterOnStart, OpenSession, CenterOnEndDetect, OnDisarm,
         ForceCloseBulbIfExposing, OnIdentityPacket, IgnorePacket, Lap, DrainDone,
         CenterCloseBulbIfDue, FinishShot, FinishRearm, NothingDue,
         AutoClaimMainIfScanFinished, ApplyRoleSensorLogic, Input, NoInput, OpenConnection,
         ApplyRoleChange, EditLimit, SaveConfig, Scan, ChangePeers, RequestExit, Pause,
         LeaveLoop, BatteryCritical, SetChannels, vars

(* The history variables and the packets sent keep their types. *)
LEMMA HistoryTypeInv ==
  ASSUME IInv, [Next]_vars
  PROVE  HistoryTypeOK'
<1> USE DEF IInv, TypeOK, HistoryTypeOK, historyVars
<1>1. openCap' \in 0..(BulbLimit + 1)
  <2>1. limits' \in Limits
    BY ConfigInv DEF ConfigTypeOK
  <2>2. CASE EditLimit
    BY <2>1, <2>2 DEF EditLimit, AtLeast, Limits
  <2>3. CASE openCap' \in {0, openCap, limits.maxBulb}
    BY <2>3, LimitsAssumption DEF LimitsAssumption, ConfigTypeOK, Limits
  <2>4. QED
    BY <2>2, <2>3
       DEF Next, Receive, CenterOnStart, OpenSession, CenterOnEndDetect, OnDisarm, StopClock,
           OnIdentityPacket, IgnorePacket, Lap, DrainDone, CenterCloseBulbIfDue, FinishShot,
           FinishRearm, NothingDue, AutoClaimMainIfScanFinished, ApplyRoleSensorLogic, Input,
           NoInput, OpenConnection, ApplyRoleChange, SaveConfig, Scan, ChangePeers,
           RequestExit, Pause, LeaveLoop, BatteryCritical, EnterMode, SetChannels, PowerCycle,
           vars
<1>2. orphaned' \in BOOLEAN
  BY Zenon
     DEF Next, Receive, CenterOnStart, OpenSession, CenterOnEndDetect, OnDisarm,
         OnIdentityPacket, IgnorePacket, Lap, DrainDone, CenterCloseBulbIfDue,
         AutoClaimMainIfScanFinished, ApplyRoleSensorLogic, Input, NoInput, OpenConnection,
         ApplyRoleChange, EditLimit, SaveConfig, Scan, ChangePeers, RequestExit, Pause,
         LeaveLoop, BatteryCritical, EnterMode, SetChannels, PowerCycle, vars
<1>3. out' \in SUBSET Packets
  <2>1. CASE Receive
    BY <2>1, SidRange, LimitsAssumption
       DEF LimitsAssumption, Receive, CenterOnStart, OpenSession, CenterOnEndDetect, OnDisarm,
           OnIdentityPacket, IgnorePacket, Packet, Packets
  <2>2. CASE CenterCloseBulbIfDue \/ RequestExit
    BY <2>2, LimitsAssumption
       DEF LimitsAssumption, SessionTypeOK, CenterCloseBulbIfDue, FinishShot, FinishRearm,
           NothingDue, RequestExit, Packet, Packets
  <2>3. CASE out' \in {{}, out}
    BY <2>3
  <2>4. QED
    BY <2>1, <2>2, <2>3
       DEF Next, Lap, DrainDone, AutoClaimMainIfScanFinished, ApplyRoleSensorLogic, Input,
           NoInput, OpenConnection, ApplyRoleChange, EditLimit, SaveConfig, Scan, ChangePeers,
           Pause, LeaveLoop, BatteryCritical, EnterMode, SetChannels, PowerCycle, vars
<1>4. QED
  BY <1>1, <1>2, <1>3

(* Every step keeps the press flags, the lines and the lock in agreement
   with the session. *)
LEMMA HoldStep ==
  ASSUME IInv, [Next]_vars
  PROVE  HoldInv'
<1> USE DEF IInv, HoldInv, shutterVars
<1>1. CASE CenterOnStart
  BY <1>1 DEF CenterOnStart, OpenSession, OpenBulb, configVars
<1>2. ASSUME CloseBulb, UNCHANGED enabled, session' # "EXPOSING"
      PROVE  HoldInv'
  BY <1>2 DEF CloseBulb, TypeOK, ConfigTypeOK, Channels
<1>3. ASSUME UNCHANGED <<shutterVars, enabled>>, session' = "EXPOSING" <=> session = "EXPOSING"
      PROVE  HoldInv'
  BY <1>3
<1>4. CASE EnterMode \/ SetChannels \/ PowerCycle
  BY <1>4 DEF ExitInv, EnterMode, SetChannels, PowerCycle, sessionVars
<1>5. QED
  BY <1>1, <1>2, <1>3, <1>4
     DEF Next, Receive, CenterOnEndDetect, OnDisarm, ForceCloseBulbIfExposing,
         OnIdentityPacket, IgnorePacket, Lap, DrainDone, CenterCloseBulbIfDue, FinishShot,
         FinishRearm, NothingDue, AutoClaimMainIfScanFinished, ApplyRoleSensorLogic, Input,
         NoInput, OpenConnection, ApplyRoleChange, EditLimit, SaveConfig, Scan, ChangePeers,
         RequestExit, Pause, LeaveLoop, BatteryCritical, vars, configVars, sessionVars

(* Every step keeps the shutter closed on the way out, a flat battery aside. *)
LEMMA ExitStep ==
  ASSUME IInv, [Next]_vars
  PROVE  ExitInv'
<1> USE DEF IInv, ExitInv, InLap, sessionVars, loopVars
<1>1. CASE Receive
  BY <1>1 DEF Receive, CountPacket, CenterOnStart, CenterOnEndDetect, OnDisarm,
              OnIdentityPacket, IgnorePacket
<1>2. CASE Lap
  <2>1. CASE Input
    BY <2>1 DEF Input, EncoderTurned, ButtonPressed, Advance, NoInput, OpenConnection, ApplyRoleChange,
                EditLimit, SaveConfig, Scan, ChangePeers, RequestExit
  <2>2. CASE DrainDone \/ CenterCloseBulbIfDue \/ AutoClaimMainIfScanFinished
             \/ ApplyRoleSensorLogic
    BY <2>2 DEF Advance, DrainDone, CenterCloseBulbIfDue, AutoClaimMainIfScanFinished,
                ApplyRoleSensorLogic
  <2>3. CASE (\E d \in 1..MaxLag : Pause(d)) \/ LeaveLoop
    BY <2>3 DEF Pause, LeaveLoop
  <2>4. QED
    BY <1>2, <2>1, <2>2, <2>3 DEF Lap
<1>3. CASE BatteryCritical
  BY <1>3 DEF BatteryCritical
<1>4. CASE EnterMode \/ SetChannels \/ PowerCycle \/ UNCHANGED vars
  BY <1>4 DEF EnterMode, SetChannels, PowerCycle, vars
<1>5. QED
  BY <1>1, <1>2, <1>3, <1>4 DEF Next

(* Every step keeps the exposure within the cap: the deadline is examined
   once per lap, after the packets and before time passes. *)
LEMMA CapStep ==
  ASSUME IInv, [Next]_vars
  PROVE  CapInv'
<1> USE DEF IInv, CapInv, InLap, configVars, roleVars, sessionVars, historyVars, loopVars
<1>1. /\ age \in Nat /\ openCap \in Nat /\ limits.maxBulb \in Nat
      /\ MaxLag \in Nat
  BY LimitsAssumption
     DEF LimitsAssumption, TypeOK, SessionTypeOK, HistoryTypeOK, ConfigTypeOK, Limits
<1>2. CASE Receive
  BY <1>1, <1>2, LimitsAssumption
     DEF LimitsAssumption, TypeOK, ConfigTypeOK, Limits, Receive, CountPacket, CenterOnStart,
         OpenSession, CenterOnEndDetect, OnDisarm, OnIdentityPacket, IgnorePacket
<1>3. CASE CenterCloseBulbIfDue
  BY <1>1, <1>3
     DEF CenterCloseBulbIfDue, Advance, FinishShot, FinishRearm, NothingDue, StopClock,
         CloseDue, MaxReached
<1>4. CASE DrainDone \/ AutoClaimMainIfScanFinished \/ ApplyRoleSensorLogic
  BY <1>1, <1>4 DEF Advance, DrainDone, AutoClaimMainIfScanFinished, ApplyRoleSensorLogic
<1>5. CASE EditLimit
  <2>1. limits'.maxBulb \in Nat
    BY ConfigInv, LimitsAssumption DEF LimitsAssumption, ConfigTypeOK, Limits
  <2>2. QED
    BY <1>1, <1>5, <2>1 DEF EditLimit, EncoderTurned, ButtonPressed, Advance, AtLeast
<1>6. CASE NoInput \/ OpenConnection \/ ApplyRoleChange \/ SaveConfig \/ Scan
           \/ ChangePeers \/ RequestExit
  BY <1>1, <1>6
     DEF NoInput, OpenConnection, ApplyRoleChange, SaveConfig, Scan, ChangePeers,
         RequestExit, EncoderTurned, ButtonPressed, Advance, StopClock
<1>7. ASSUME NEW d \in 1..MaxLag, Pause(d)
      PROVE  CapInv'
  <2>1. age' <= age + d
    BY <1>1, <1>7, LimitsAssumption DEF LimitsAssumption, Pause, AtMost
  <2>2. age' \in Nat /\ age + d <= age + MaxLag
    BY <1>1, <1>7, LimitsAssumption DEF LimitsAssumption, Pause, AtMost
  <2>3. UNCHANGED <<where, session, limits, openCap, orphaned, selfRole>>
    BY <1>7 DEF Pause
  <2>4. phase = "pause" /\ phase' = "drain"
    BY <1>7 DEF Pause
  <2>5. QED
    BY <1>1, <2>1, <2>2, <2>3, <2>4
<1>8. CASE LeaveLoop \/ PowerCycle \/ SetChannels \/ EnterMode
  BY <1>8 DEF LeaveLoop, PowerCycle, SetChannels, EnterMode
<1>9. CASE BatteryCritical \/ UNCHANGED vars
  BY <1>9 DEF BatteryCritical, vars
<1>10. QED
  BY <1>2, <1>3, <1>4, <1>5, <1>6, <1>7, <1>8, <1>9 DEF Next, Lap, Input

(* Every step keeps the whole invariant. *)
LEMMA StepInv ==
  ASSUME IInv, [Next]_vars
  PROVE  IInv'
BY LoopTypeInv, RoleTypeInv, ConfigInv, SessionTypeInv, ShutterTypeInv, HistoryTypeInv,
   HoldStep, ExitStep, CapStep
   DEF IInv, TypeOK

(* The strengthened invariant of every behaviour, environment included.    *)
THEOREM Invariance == Spec => []IInv
<1>1. IInv /\ [Next]_vars => IInv'
  BY StepInv
<1>2. QED
  BY InitInv, <1>1, PTL DEF Spec

-----------------------------------------------------------------------------
(* The properties the coordinator is run for.                              *)

(* Type correctness. *)
THEOREM TypeCorrect == Spec => []TypeOK
<1>1. IInv => TypeOK
  BY DEF IInv
<1>2. QED
  BY Invariance, <1>1, PTL

(* Whatever peers, sensor, user and battery do, no channel is pressed outside
   an exposure and the trigger lock is held exactly as long as one runs. *)
THEOREM ShutterFollows == Spec => []ShutterFollowsSession
<1>1. IInv => ShutterFollowsSession
  BY DEF IInv, HoldInv, ShutterFollowsSession
<1>2. QED
  BY Invariance, <1>1, PTL

(* A box that stays MAIN never exposes longer than the largest cap in force
   since the shutter opened, up to one lap of the loop. *)
THEOREM CapIsHonoured == Spec => []CapHonoured
<1>1. IInv => CapHonoured
  BY DEF IInv, CapInv, CapHonoured
<1>2. QED
  BY Invariance, <1>1, PTL

(* Every way out of the mode but the flat battery's leaves the shutter closed
   and the lock free. *)
THEOREM NothingLeftBehind == Spec => []LeavesNothingBehind
<1>1. IInv => LeavesNothingBehind
  BY DEF IInv, HoldInv, ExitInv, LeavesNothingBehind
<1>2. QED
  BY Invariance, <1>1, PTL

(* A shot completes no sooner than the floor: the bulb rows cannot be brought
   into an order in which the cap closes the shutter before it. *)
THEOREM FloorIsHonoured == Spec => FloorHonoured
<1> DEFINE Completes == session = "EXPOSING" /\ session' = "REARM"
<1>1. ASSUME IInv, [Next]_vars, Completes
      PROVE  age >= limits.minBulb
  <2>1. CloseDue
    <3>1. CenterCloseBulbIfDue
      BY <1>1
         DEF Next, Receive, CenterOnStart, OpenSession, CenterOnEndDetect, OnDisarm,
             OnIdentityPacket, IgnorePacket, Lap, DrainDone, AutoClaimMainIfScanFinished,
             ApplyRoleSensorLogic, Input, NoInput, OpenConnection, ApplyRoleChange, EditLimit,
             SaveConfig, Scan, ChangePeers, RequestExit, Pause, LeaveLoop, BatteryCritical,
             EnterMode, SetChannels, PowerCycle, vars, sessionVars
    <3>2. QED
      BY <1>1, <3>1 DEF CenterCloseBulbIfDue, FinishShot, FinishRearm, NothingDue, sessionVars
  <2>2. /\ age \in Nat
        /\ limits.minBulb \in Nat /\ limits.maxBulb \in Nat
        /\ limits.minBulb <= limits.maxBulb
    BY <1>1, LimitsAssumption
       DEF LimitsAssumption, IInv, TypeOK, SessionTypeOK, ConfigTypeOK, Limits, LimitsOrdered
  <2>3. QED
    BY <2>1, <2>2 DEF CloseDue, MinReached, MaxReached
<1>2. IInv /\ [Next]_vars => [Completes => age >= limits.minBulb]_vars
  BY <1>1
<1>3. QED
  BY Invariance, <1>2, PTL DEF Spec, FloorHonoured

(* The coordinator implements the contract of every mode that holds the
   shutter: an exposure takes the lock and presses once, its end releases all
   of it, and nothing touches the lines or the lock in between. *)
THEOREM HoldImplemented == Spec => HoldContract
<1>1. Init => Hold!Init
  BY DEF Init, ColdRam, Hold!Init
<1>2. ASSUME IInv, IInv', [Next]_vars
      PROVE  [Hold!Next]_(Hold!holdVars)
  <2> DEFINE open == session = "EXPOSING"
  <2>1. /\ ~open => held = {} /\ lock = FALSE
        /\ open => lock = TRUE
        /\ ~open' => held' = {} /\ lock' = FALSE
        /\ open' => lock' = TRUE
    BY <1>2, Zenon DEF IInv, HoldInv, TypeOK, ShutterTypeOK
  <2>2. CASE ~open /\ open'
    <3>1. held' \in SUBSET Channels
      BY <1>2 DEF IInv, TypeOK, ShutterTypeOK
    <3>2. Hold!Open
      BY <2>1, <2>2, <3>1, Zenon DEF Hold!Open
    <3>3. QED
      BY <3>2 DEF Hold!Next
  <2>3. CASE open /\ ~open'
    <3>1. Hold!Close
      BY <2>1, <2>3, Zenon DEF Hold!Close
    <3>2. QED
      BY <3>1 DEF Hold!Next
  <2>4. CASE open = open'
    <3>1. open => held' = held
      BY <1>2, <2>4
         DEF Next, Receive, CenterOnStart, OpenSession, CenterOnEndDetect, OnDisarm,
             OnIdentityPacket, IgnorePacket, Lap, DrainDone, CenterCloseBulbIfDue, FinishShot,
             FinishRearm, NothingDue, AutoClaimMainIfScanFinished, ApplyRoleSensorLogic,
             Input, NoInput, OpenConnection, ApplyRoleChange, EditLimit, SaveConfig, Scan,
             ChangePeers, RequestExit, Pause, LeaveLoop, BatteryCritical, EnterMode,
             SetChannels, PowerCycle, vars, shutterVars, sessionVars
    <3>2. held' = held /\ lock' = lock
      BY <2>1, <2>4, <3>1, Zenon
    <3>3. QED
      BY <2>4, <3>2, Zenon DEF Hold!holdVars
  <2>5. QED
    BY <2>2, <2>3, <2>4, Zenon
<1>3. QED
  BY Invariance, <1>1, <1>2, PTL DEF Spec, HoldContract, Hold!Spec


(* The phase the cycle bar names: SENSOR OFF becomes DETECTED by a packet
   alone, and DETECTED lasts to the end of the exposure. *)
THEOREM SensorIsIgnored == Spec => SensorOffMeansOff
<1> DEFINE Off  == CyclePhase = "SENSOR OFF" /\ CyclePhase' = "DETECTED" => InLap("drain")
           Kept == CyclePhase = "DETECTED" /\ session' = "EXPOSING" => CyclePhase' = "DETECTED"
<1>1. ASSUME IInv
      PROVE  /\ CyclePhase = "DETECTED" <=> session = "EXPOSING" /\ endRequested
             /\ CyclePhase = "SENSOR OFF" => session = "EXPOSING" /\ ~endRequested /\ ~MinReached
  BY <1>1, Zenon DEF CyclePhase
<1>2. ASSUME IInv'
      PROVE  CyclePhase' = "DETECTED" <=> session' = "EXPOSING" /\ endRequested'
  BY <1>2, Zenon DEF CyclePhase
<1>3. ASSUME IInv, [Next]_vars, session = "EXPOSING", ~endRequested, ~MinReached, endRequested'
      PROVE  InLap("drain")
  BY <1>3
     DEF Next, Receive, CountPacket, CenterOnStart, OpenSession, CenterOnEndDetect, OnDisarm,
         OnIdentityPacket, IgnorePacket, Lap, DrainDone, CenterCloseBulbIfDue, FinishShot,
         FinishRearm, NothingDue, AutoClaimMainIfScanFinished, ApplyRoleSensorLogic, RequestEnd,
         Input, NoInput, OpenConnection, ApplyRoleChange, EditLimit, SaveConfig, Scan,
         ChangePeers, RequestExit, ForceCloseBulbIfExposing, Pause, LeaveLoop, BatteryCritical,
         EnterMode, SetChannels, PowerCycle, ColdRam, vars, sessionVars
<1>4. ASSUME IInv, [Next]_vars, session = "EXPOSING", endRequested, session' = "EXPOSING"
      PROVE  endRequested'
  BY <1>4
     DEF Next, Receive, CountPacket, CenterOnStart, OpenSession, CenterOnEndDetect, OnDisarm,
         OnIdentityPacket, IgnorePacket, Lap, DrainDone, CenterCloseBulbIfDue, FinishShot,
         FinishRearm, NothingDue, AutoClaimMainIfScanFinished, ApplyRoleSensorLogic, RequestEnd,
         Input, NoInput, OpenConnection, ApplyRoleChange, EditLimit, SaveConfig, Scan,
         ChangePeers, RequestExit, ForceCloseBulbIfExposing, Pause, LeaveLoop, BatteryCritical,
         EnterMode, SetChannels, PowerCycle, ColdRam, vars, sessionVars
<1>5. IInv /\ IInv' /\ [Next]_vars => [Off]_vars /\ [Kept]_vars
  BY <1>1, <1>2, <1>3, <1>4
<1>6. QED
  BY Invariance, <1>5, PTL DEF Spec, SensorOffMeansOff

=============================================================================
