--------------------------- MODULE MainCoordinator ---------------------------
(***************************************************************************)
(* One box in MULTI BOX mode, seen from the coordinating role: the box     *)
(* wired to the camera, which opens the shutter when the START box asks    *)
(* for it and closes it when its own sensor sees the finish line.          *)
(*                                                                         *)
(* The firmware is one super-loop.  `phase' is its position inside one     *)
(* lap: packets are drained, the exposure deadlines are examined, a        *)
(* finished scan may claim the MAIN role, the sensor is read, the user's   *)
(* encoder and button are read, and time passes.  Radio packets, the       *)
(* sensor, the user, the battery and the power switch are the environment. *)
(*                                                                         *)
(* The roles are MAIN and NONE: START and FLASH boxes are the subject of   *)
(* SensorNode, and a change to or from one of theirs resets this box just  *)
(* as a change to NONE does.  No peer has the MAIN role: a second MAIN on  *)
(* the network is a conflict the firmware reports and does not resolve.    *)
(*                                                                         *)
(* Time is counted in ticks.  A timestamp of the code appears as the time  *)
(* elapsed since it was taken (`age') or left until it is reached          *)
(* (`endLeft'), which is all the code ever computes from it.               *)
(***************************************************************************)
EXTENDS Integers, FiniteSets

CONSTANTS
  Gpio,            \* the wired trigger lines: {"G1", "G2"}
  BulbLimit,       \* largest editable bulb time (900 s in the code)
  RearmLimit,      \* largest editable rest between shots (60000 ms)
  EndLimit,        \* largest editable closing delay (10000 ms)
  MaxTurn,         \* most encoder steps the input handler reads at once
  MaxLag,          \* longest lap of the super-loop, in ticks
  DrainMax,        \* packets handled per lap (10 in the code)
  SidMod,          \* session ids live in 1 .. SidMod - 1 (2^16 in the code)
  FinishLineBox,   \* whether some START peer sends END_DETECT
  AgeBound         \* bound of the model: where the elapsed time saturates

ASSUME LimitsAssumption ==
  /\ BulbLimit \in Nat \ {0}
  /\ RearmLimit \in Nat
  /\ EndLimit \in Nat
  /\ MaxTurn \in Nat \ {0}
  /\ MaxLag \in Nat \ {0}
  /\ DrainMax \in Nat \ {0}
  /\ SidMod \in Nat
  /\ SidMod > 1
  /\ FinishLineBox \in BOOLEAN
  /\ AgeBound \in Nat
  /\ AgeBound > BulbLimit + 1 + MaxLag
  /\ AgeBound > RearmLimit + MaxLag

ASSUME ChannelAssumption == IsFiniteSet(Gpio) /\ "BLE" \notin Gpio

VARIABLES
  where,           \* the screen that runs: "menu" or "multi_box"
  phase,           \* position in the lap of the mode's loop
  drained,         \* packets handled in this lap
  exitReq,         \* _mode_exit_requested
  dying,           \* _battery_shutdown_pending
  screen,          \* editMode.screen
  radio,           \* ESP-NOW is up
  scan,            \* discovery scan: "off", "on", or "ended" and not yet noticed
  configRole,      \* multiBox.config.role, the edit buffer
  selfRole,        \* nodeManager's copy, the one that gates the coordinator
  nvsRole,         \* the role kept in flash
  limits,          \* minBulb, maxBulb, rearm, endDelay
  enabled,         \* channels switched on in Trigger Mode
  session,         \* MultiBoxState::Session
  sid,             \* s_sessionCounter; currentSessionId of the session that runs
  age,             \* time since sessionStartMs
  endRequested,    \* the finish line was crossed
  endLeft,         \* time left until endDueAtMs
  held,            \* channels whose press was issued and whose release was not
  fired,           \* bulbFiredG1, bulbFiredG2, bulbFiredBLE
  lock,            \* g_triggerLock
  openCap,         \* history: largest maxBulb in force since the shutter opened
  orphaned,        \* history: the box stopped being MAIN with the shutter open
  out              \* packets the last step put on the air

loopVars    == <<where, phase, drained, exitReq, dying, screen, radio, scan>>
roleVars    == <<configRole, selfRole, nvsRole>>
configVars  == <<limits, enabled>>
sessionVars == <<session, sid, age, endRequested, endLeft>>
shutterVars == <<held, fired, lock>>
historyVars == <<openCap, orphaned>>
vars == <<loopVars, roleVars, configVars, sessionVars, shutterVars, historyVars, out>>

Channels == Gpio \cup {"BLE"}
Roles    == {"NONE", "MAIN"}
Sessions == {"IDLE", "READY", "EXPOSING", "REARM"}
Phases   == {"drain", "close", "claim", "sense", "turn", "press", "pause"}

Limits == [minBulb : 1..BulbLimit, maxBulb : 1..(BulbLimit + 1),
           rearm : 0..RearmLimit, endDelay : 0..EndLimit]

Packet(cmd, id) == [cmd |-> cmd, sid |-> id]
Packets == [cmd : {"START", "START_ACK", "SHOT_DONE", "READY", "DISARM"},
            sid : 0..(SidMod - 1)]

Turns == (-MaxTurn..MaxTurn) \ {0}

AtMost(bound, n)   == IF n > bound THEN bound ELSE n
AtLeast(bound, n)  == IF n < bound THEN bound ELSE n
Clamp(low, high, n) == AtMost(high, AtLeast(low, n))

LoopTypeOK ==
  /\ where \in {"menu", "multi_box"}
  /\ phase \in Phases
  /\ drained \in 0..DrainMax
  /\ exitReq \in BOOLEAN
  /\ dying \in BOOLEAN
  /\ screen \in {"MAIN", "CONNECTION"}
  /\ radio \in BOOLEAN
  /\ scan \in {"off", "on", "ended"}

RoleTypeOK ==
  /\ configRole \in Roles
  /\ selfRole \in Roles
  /\ nvsRole \in Roles

ConfigTypeOK ==
  /\ limits \in Limits
  /\ enabled \in SUBSET Channels

SessionTypeOK ==
  /\ session \in Sessions
  /\ sid \in 0..(SidMod - 1)
  /\ age \in 0..AgeBound
  /\ endRequested \in BOOLEAN
  /\ endLeft \in 0..EndLimit

ShutterTypeOK ==
  /\ held \in SUBSET Channels
  /\ fired \in SUBSET Channels
  /\ lock \in BOOLEAN

HistoryTypeOK ==
  /\ openCap \in 0..(BulbLimit + 1)
  /\ orphaned \in BOOLEAN
  /\ out \in SUBSET Packets

TypeOK ==
  /\ LoopTypeOK
  /\ RoleTypeOK
  /\ ConfigTypeOK
  /\ SessionTypeOK
  /\ ShutterTypeOK
  /\ HistoryTypeOK

(***************************************************************************)
(* Power-up.  Flash remembers the role; the RAM copies start at NONE and   *)
(* are filled by the first entry into the mode.                            *)
(***************************************************************************)
ColdRam ==
  /\ configRole = "NONE" /\ selfRole = "NONE"
  /\ session = "IDLE" /\ sid = 0 /\ age = 0
  /\ endRequested = FALSE /\ endLeft = 0
  /\ fired = {} /\ lock = FALSE

Init ==
  /\ where = "menu" /\ phase = "drain" /\ drained = 0
  /\ exitReq = FALSE /\ dying = FALSE
  /\ screen = "MAIN" /\ radio = FALSE /\ scan = "off"
  /\ nvsRole \in Roles
  /\ limits \in {l \in Limits : l.minBulb < l.maxBulb}   \* the struct's defaults
  /\ enabled \in SUBSET Channels
  /\ held = {}
  /\ ColdRam
  /\ openCap = 0 /\ orphaned = FALSE
  /\ out = {}

-----------------------------------------------------------------------------
(* The shutter: the wired lines, the BLE press and the trigger lock.       *)

\* Mutation of OpenBulb: the lines go HIGH without taking the lock.
OpenBulbUnlocked ==
  /\ \E pressed \in SUBSET enabled :
       /\ enabled \cap Gpio \subseteq pressed
       /\ held' = held \cup pressed
       /\ fired' = pressed
  /\ UNCHANGED lock

\* openBulb(): without the lock the press is dropped; with it, every wired
\* line that is switched on goes HIGH and the BLE press may or may not land.
OpenBulb ==
  \/ lock /\ UNCHANGED shutterVars
  \/ /\ ~lock
     /\ \E pressed \in SUBSET enabled :
          /\ enabled \cap Gpio \subseteq pressed
          /\ held' = held \cup pressed
          /\ fired' = pressed
     /\ lock' = TRUE

\* Mutation of CloseBulb: the lock is kept.
CloseBulbKeepsLock ==
  /\ held' = held \ ((fired \cap Gpio) \cup (fired \cap enabled))
  /\ fired' = {}
  /\ UNCHANGED lock

\* closeBulb(): what was fired is released, the BLE press only while the BLE
\* channel is still switched on; the flags and the lock go in any case.
CloseBulb ==
  /\ held' = held \ ((fired \cap Gpio) \cup (fired \cap enabled))
  /\ fired' = {}
  /\ lock' = FALSE

\* Mutation of ForceCloseBulbIfExposing: the session is dropped, the lines stay.
DropExposure == endRequested' = FALSE /\ UNCHANGED shutterVars

\* forceCloseBulbIfExposing(), its effect on the shutter and on endRequested.
ForceCloseBulbIfExposing ==
  \/ /\ session = "EXPOSING"
     /\ CloseBulb
     /\ endRequested' = FALSE
  \/ /\ session # "EXPOSING"
     /\ UNCHANGED <<shutterVars, endRequested>>

NextSessionId == IF sid + 1 = SidMod THEN 1 ELSE sid + 1

\* sessionStartMs is read in EXPOSING and REARM only; the elapsed time counts
\* from 0 when either begins and is kept at 0 elsewhere.
StopClock == age' = 0 /\ openCap' = 0

\* The common part of centerOnStart() and simulateStart().
OpenSession ==
  /\ sid' = NextSessionId
  /\ session' = "EXPOSING"
  /\ age' = 0
  /\ endRequested' = FALSE
  /\ OpenBulb
  /\ openCap' = limits.maxBulb
  /\ orphaned' = FALSE

-----------------------------------------------------------------------------
(* Draining the receive queue: one packet of a paired peer per step.       *)

InLap(p) == where = "multi_box" /\ phase = p

CountPacket ==
  /\ InLap("drain") /\ radio
  /\ drained < DrainMax
  /\ drained' = drained + 1
  /\ UNCHANGED <<where, phase, exitReq, dying, screen, radio, scan>>

\* START of the START box, a fresh sequence number, and the box is armed.
CenterOnStart ==
  /\ CountPacket
  /\ selfRole = "MAIN"
  /\ session = "READY"
  /\ OpenSession
  /\ out' = {Packet("START_ACK", sid'), Packet("START", sid')}
  /\ UNCHANGED <<roleVars, configVars, endLeft>>

\* END_DETECT of a separate finish-line box, for the session that is open.
CenterOnEndDetect(id) ==
  /\ CountPacket
  /\ FinishLineBox
  /\ selfRole = "MAIN"
  /\ session = "EXPOSING"
  /\ id = sid
  /\ endRequested' = TRUE
  /\ out' = {}
  /\ UNCHANGED <<roleVars, configVars, session, sid, age, endLeft, shutterVars, historyVars>>

\* DISARM of any paired peer: accepted without a sequence check, whatever
\* the session.
OnDisarm ==
  /\ CountPacket
  /\ selfRole = "MAIN"
  /\ ForceCloseBulbIfExposing
  /\ session' = "READY" /\ StopClock
  /\ out' = {}
  /\ UNCHANGED <<roleVars, configVars, sid, endLeft, orphaned>>

\* A heartbeat or handshake packet: a peer's changed role is persisted, and
\* saveAll() writes this box's own role with it.
OnIdentityPacket ==
  /\ CountPacket
  /\ nvsRole' = selfRole
  /\ out' = {}
  /\ UNCHANGED <<configRole, selfRole, configVars, sessionVars, shutterVars, historyVars>>

\* A duplicate, stale, foreign, ill-timed or merely reporting packet (PONG,
\* FLASH_FIRE) costs one slot of the drain.
IgnorePacket ==
  /\ CountPacket
  /\ out' = {}
  /\ UNCHANGED <<roleVars, configVars, sessionVars, shutterVars, historyVars>>

Receive ==
  \/ CenterOnStart
  \/ \E id \in 0..(SidMod - 1) : CenterOnEndDetect(id)
  \/ OnDisarm
  \/ OnIdentityPacket
  \/ IgnorePacket

-----------------------------------------------------------------------------
(* The rest of the lap.                                                    *)

Advance(from, to) ==
  /\ InLap(from)
  /\ phase' = to
  /\ drained' = 0
  /\ UNCHANGED <<where, exitReq, dying, screen, radio>>

DrainDone ==
  /\ Advance("drain", "close")
  /\ out' = {}
  /\ UNCHANGED <<scan, roleVars, configVars, sessionVars, shutterVars, historyVars>>

MinReached == age >= limits.minBulb

\* Mutation of MaxReached: off by one.
MaxPassed == age > limits.maxBulb
MaxReached == age >= limits.maxBulb
EndDue     == endRequested /\ endLeft = 0
\* Mutation of CloseDue: only the finish line closes the shutter.
EndDueOnly == EndDue /\ MinReached
CloseDue   == (EndDue /\ MinReached) \/ MaxReached

\* centerCloseBulbIfDue(), EXPOSING: the shot is complete.
FinishShot ==
  /\ selfRole = "MAIN"
  /\ session = "EXPOSING"
  /\ CloseDue
  /\ CloseBulb
  /\ session' = "REARM" /\ StopClock
  /\ out' = {Packet("SHOT_DONE", sid)}
  /\ UNCHANGED <<sid, endRequested, endLeft>>

\* Mutation of FinishRearm: READY is announced, the session is not re-armed.
AnnounceReady ==
  /\ selfRole = "MAIN"
  /\ session = "REARM"
  /\ age >= limits.rearm
  /\ out' = {Packet("READY", 0)}
  /\ UNCHANGED <<sessionVars, shutterVars, openCap>>

\* centerCloseBulbIfDue(), REARM: the rest between shots is over.
FinishRearm ==
  /\ selfRole = "MAIN"
  /\ session = "REARM"
  /\ age >= limits.rearm
  /\ session' = "READY" /\ StopClock
  /\ out' = {Packet("READY", 0)}
  /\ UNCHANGED <<sid, endRequested, endLeft, shutterVars>>

NothingDue ==
  /\ \/ selfRole # "MAIN"
     \/ session \in {"IDLE", "READY"}
     \/ session = "EXPOSING" /\ ~CloseDue
     \/ session = "REARM" /\ age < limits.rearm
  /\ out' = {}
  /\ UNCHANGED <<sessionVars, shutterVars, openCap>>

CenterCloseBulbIfDue ==
  /\ Advance("close", "claim")
  /\ FinishShot \/ FinishRearm \/ NothingDue
  /\ UNCHANGED <<scan, roleVars, configVars, orphaned>>

\* autoClaimMainIfScanFinished(): a box without a role whose scan found no
\* MAIN takes the role, in both copies and in flash; the session stays put.
AutoClaimMainIfScanFinished ==
  /\ Advance("claim", "sense")
  /\ scan' = IF scan = "ended" THEN "off" ELSE scan
  /\ \/ /\ scan = "ended"
        /\ configRole = "NONE"
        /\ configRole' = "MAIN" /\ selfRole' = "MAIN" /\ nvsRole' = "MAIN"
     \/ UNCHANGED roleVars
  /\ out' = {}
  /\ UNCHANGED <<configVars, sessionVars, shutterVars, historyVars>>

\* Mutation of RequestEnd: a crossing inside the floor is kept for its end.
LatchEnd ==
  /\ configRole = "MAIN"
  /\ session = "EXPOSING"
  /\ ~endRequested
  /\ endRequested' = TRUE
  /\ endLeft' = limits.endDelay

\* requestEnd(), called when MAIN's sensor sees the finish line crossed.
RequestEnd ==
  /\ configRole = "MAIN"
  /\ session = "EXPOSING"
  /\ ~endRequested
  /\ MinReached
  /\ endRequested' = TRUE
  /\ endLeft' = limits.endDelay

\* applyRoleSensorLogic(): the sensor reports a crossing or it does not.
ApplyRoleSensorLogic ==
  /\ Advance("sense", "turn")
  /\ RequestEnd \/ UNCHANGED <<endRequested, endLeft>>
  /\ out' = {}
  /\ UNCHANGED <<scan, roleVars, configVars, session, sid, age, shutterVars, historyVars>>

\* _battery_guard_tick(): a flat pack asks the mode to exit.
BatteryCritical ==
  /\ InLap("turn")
  /\ ~dying
  /\ dying' = TRUE
  /\ exitReq' = TRUE
  /\ out' = {}
  /\ UNCHANGED <<where, phase, drained, screen, radio, scan>>
  /\ UNCHANGED <<roleVars, configVars, sessionVars, shutterVars, historyVars>>

-----------------------------------------------------------------------------
(* The user's input: in a lap the encoder is read first, then the button.  *)

EncoderTurned == Advance("turn", "press")
ButtonPressed == Advance("press", "pause")

NoInput ==
  /\ EncoderTurned \/ ButtonPressed
  /\ out' = {}
  /\ UNCHANGED <<scan, roleVars, configVars, sessionVars, shutterVars, historyVars>>

\* Short press on the MAIN screen: to the CONNECTION rows.
OpenConnection ==
  /\ InLap("press") /\ screen = "MAIN"
  /\ phase' = "pause"
  /\ screen' = "CONNECTION"
  /\ out' = {}
  /\ UNCHANGED <<where, drained, exitReq, dying, radio, scan>>
  /\ UNCHANGED <<roleVars, configVars, sessionVars, shutterVars, historyVars>>

\* The role row: applyRoleChange() closes an open shutter, advertises the
\* new role and resets the session.
ApplyRoleChange ==
  /\ EncoderTurned /\ screen = "CONNECTION"
  /\ configRole' \in Roles \ {configRole}
  /\ selfRole' = configRole'
  /\ \/ session = "EXPOSING" /\ CloseBulb
     \/ session # "EXPOSING" /\ UNCHANGED shutterVars
  /\ session' = "IDLE" /\ StopClock
  /\ endRequested' = FALSE
  /\ out' = {}
  /\ UNCHANGED <<scan, nvsRole, configVars, sid, endLeft, orphaned>>

\* Mutation of TurnMinBulb: the cap is left where it was.
TurnFloorAlone(d) == [limits EXCEPT !.minBulb = Clamp(1, BulbLimit, @ + d)]

\* MIN_BULB: the cap is kept above the floor.
TurnMinBulb(d) ==
  LET low == Clamp(1, BulbLimit, limits.minBulb + d) IN
  [limits EXCEPT !.minBulb = low,
                 !.maxBulb = IF @ <= low THEN low + 1 ELSE @]

\* MAX_BULB: not at or below the floor, then not above the limit.
TurnMaxBulb(d) ==
  LET high == limits.maxBulb + d IN
  [limits EXCEPT !.maxBulb =
     AtMost(BulbLimit, IF high <= limits.minBulb THEN limits.minBulb + 1 ELSE high)]

\* Mutation of TurnRearm: no clamp.
TurnUnclamped(d) == [limits EXCEPT !.rearm = @ + d]

TurnRearm(d)    == [limits EXCEPT !.rearm = Clamp(0, RearmLimit, @ + d)]
TurnEndDelay(d) == [limits EXCEPT !.endDelay = Clamp(0, EndLimit, @ + d)]

\* The bulb rows are editable at any time, an open exposure included.
EditLimit ==
  /\ EncoderTurned /\ screen = "CONNECTION" /\ configRole = "MAIN"
  /\ \E d \in Turns :
       limits' \in {TurnMinBulb(d), TurnMaxBulb(d), TurnRearm(d), TurnEndDelay(d)}
  /\ openCap' = IF session = "EXPOSING" THEN AtLeast(limits'.maxBulb, openCap) ELSE openCap
  /\ out' = {}
  /\ UNCHANGED <<scan, roleVars, enabled, sessionVars, shutterVars, orphaned>>

\* Row BACK or a long press: saveConfig() pushes the edit buffer's role into
\* nodeManager and into flash.
SaveConfig ==
  /\ InLap("press") /\ screen = "CONNECTION"
  /\ phase' = "pause"
  /\ screen' = "MAIN"
  /\ selfRole' = configRole
  /\ nvsRole' = configRole
  /\ orphaned' = (orphaned \/ (session = "EXPOSING" /\ configRole # "MAIN"))
  /\ out' = {}
  /\ UNCHANGED <<where, drained, exitReq, dying, radio, scan>>
  /\ UNCHANGED <<configRole, configVars, sessionVars, shutterVars, openCap>>

\* PAIR starts a scan; a long press cancels it, which the next lap takes for
\* its end.
Scan ==
  /\ ButtonPressed /\ screen = "CONNECTION"
  /\ scan' \in {"on"} \cup (IF scan = "on" THEN {"ended"} ELSE {})
  /\ out' = {}
  /\ UNCHANGED <<roleVars, configVars, sessionVars, shutterVars, historyVars>>

\* Adding or removing a peer calls saveAll(), this box's own role included.
ChangePeers ==
  /\ ButtonPressed /\ screen = "CONNECTION"
  /\ nvsRole' = selfRole
  /\ out' = {}
  /\ UNCHANGED <<scan, configRole, selfRole, configVars, sessionVars, shutterVars, historyVars>>

\* OK in the exit dialog: requestExit().
RequestExit ==
  /\ InLap("press") /\ screen = "MAIN"
  /\ phase' = "pause"
  /\ exitReq' = TRUE
  /\ radio' = FALSE
  /\ ForceCloseBulbIfExposing
  /\ session' = "IDLE" /\ StopClock
  /\ \E id \in {0, sid} : out' = {Packet("DISARM", id)}   \* 0 before the first session
  /\ UNCHANGED <<where, drained, dying, screen, scan>>
  /\ UNCHANGED <<roleVars, configVars, sid, endLeft, orphaned>>

Input ==
  \/ NoInput \/ OpenConnection \/ ApplyRoleChange \/ EditLimit \/ SaveConfig
  \/ Scan \/ ChangePeers \/ RequestExit

\* The mode's loop goes round again, `d' ticks later.
Pause(d) ==
  /\ InLap("pause") /\ ~exitReq
  /\ phase' = "drain"
  /\ age' = IF session \in {"EXPOSING", "REARM"} THEN AtMost(AgeBound, age + d) ELSE age
  /\ endLeft' = AtLeast(0, endLeft - d)
  /\ scan' \in {scan} \cup (IF scan = "on" THEN {"ended"} ELSE {})
  /\ out' = {}
  /\ UNCHANGED <<where, drained, exitReq, dying, screen, radio>>
  /\ UNCHANGED <<roleVars, configVars, session, sid, endRequested, shutterVars, historyVars>>

\* ... or it breaks out to the launcher, with nothing further called.
LeaveLoop ==
  /\ InLap("pause") /\ exitReq
  /\ where' = "menu"
  /\ out' = {}
  /\ UNCHANGED <<phase, drained, exitReq, dying, screen, radio, scan>>
  /\ UNCHANGED <<roleVars, configVars, sessionVars, shutterVars, historyVars>>

-----------------------------------------------------------------------------
(* The launcher.                                                           *)

\* loadConfig()'s repair of what flash holds.
Loaded(stored) ==
  [stored EXCEPT !.maxBulb = IF @ < stored.minBulb THEN stored.minBulb + 1 ELSE @]

\* init(): the edit buffer's role is taken from nodeManager before begin()
\* lets nodeManager read it from flash; begin() may fail.
EnterMode ==
  /\ where = "menu" /\ ~dying
  /\ where' = "multi_box" /\ phase' = "drain" /\ drained' = 0
  /\ exitReq' = FALSE /\ screen' = "MAIN"
  /\ configRole' = selfRole
  /\ \E stored \in Limits : limits' = Loaded(stored)
  /\ age' = 0 /\ endRequested' = FALSE /\ endLeft' = 0 /\ fired' = {}
  /\ \/ /\ radio' = TRUE
        /\ selfRole' = nvsRole
        /\ session' = IF configRole' = "NONE" THEN "IDLE" ELSE "READY"
     \/ /\ radio' = FALSE
        /\ selfRole' = selfRole
        /\ session' = "IDLE"
  /\ openCap' = 0
  /\ out' = {}
  /\ UNCHANGED <<dying, scan, nvsRole, enabled, sid, held, lock, orphaned>>

\* Trigger Mode: the channels are switched on and off there.
SetChannels ==
  /\ where = "menu" /\ ~dying
  /\ enabled' \in SUBSET Channels
  /\ out' = {}
  /\ UNCHANGED <<loopVars, roleVars, limits, sessionVars, shutterVars, historyVars>>

\* Power is cut, by the user, for a flat pack, or under the loop by a loose
\* supply, and comes back: RAM is cold, the lines and the BLE link have dropped.
PowerCycle ==
  /\ where' = "menu" /\ phase' = "drain" /\ drained' = 0 /\ screen' = "MAIN"
  /\ dying' = FALSE /\ exitReq' = FALSE /\ radio' = FALSE /\ scan' = "off"
  /\ configRole' = "NONE" /\ selfRole' = "NONE"
  /\ session' = "IDLE" /\ sid' = 0 /\ age' = 0 /\ endRequested' = FALSE /\ endLeft' = 0
  /\ held' = {} /\ fired' = {} /\ lock' = FALSE
  /\ openCap' = 0 /\ orphaned' = FALSE
  /\ out' = {}
  /\ UNCHANGED <<nvsRole, configVars>>

Lap ==
  \/ DrainDone
  \/ CenterCloseBulbIfDue
  \/ AutoClaimMainIfScanFinished
  \/ ApplyRoleSensorLogic
  \/ Input
  \/ \E d \in 1..MaxLag : Pause(d)
  \/ LeaveLoop

Next ==
  \/ Receive
  \/ Lap
  \/ BatteryCritical
  \/ EnterMode
  \/ SetChannels
  \/ PowerCycle

\* The loop never stops turning while the mode runs; a drain is bounded, so
\* packets cannot hold it up.  Nothing the environment does is fair.
Fairness == WF_vars(Lap)

Spec == Init /\ [][Next]_vars
FairSpec == Spec /\ Fairness

\* The phase the cycle bar names, MULTI BOX's and FOR DEVELOP's alike.
CyclePhase ==
  CASE session = "EXPOSING" /\ endRequested                 -> "DETECTED"
    [] session = "EXPOSING" /\ ~endRequested /\ ~MinReached -> "SENSOR OFF"
    [] session = "EXPOSING" /\ ~endRequested /\ MinReached  -> "WATCHING"
    [] session = "REARM"                                    -> "REST"
    [] session = "READY"                                    -> "ARMED"
    [] OTHER                                                -> "IDLE"

-----------------------------------------------------------------------------
(* Properties.                                                             *)

\* The lines and the BLE shutter are pressed only inside an exposure, and the
\* trigger lock is held exactly as long: a DISARM, a role edit, an exit or a
\* lost press never leaves a line HIGH or the lock behind.
ShutterFollowsSession ==
  /\ held # {} => session = "EXPOSING"
  /\ lock <=> session = "EXPOSING"

Hold == INSTANCE ShutterHold
          WITH open <- session = "EXPOSING", lines <- held, locked <- lock

\* The coordinator implements the contract every holder of the shutter owes
\* the other modes: one lock, one press and one release per exposure.
HoldContract == Hold!Spec

\* maxBulbSec is a cap: as long as the box has not stopped being MAIN under
\* the open shutter, no exposure outlasts the largest cap in force since it
\* opened by more than one lap of the loop, whatever is edited meanwhile.
CapHonoured ==
  where = "multi_box" /\ session = "EXPOSING" /\ ~orphaned => age < openCap + MaxLag

\* minBulbSec is a floor: a shot that completes has been open at least that
\* long, also when the cap closes it and whatever order the rows were edited in.
FloorHonoured ==
  [][session = "EXPOSING" /\ session' = "REARM" => age >= limits.minBulb]_vars

\* "while MAIN is inside minBulbSec the sensor is ignored ENTIRELY": as long as
\* the bar says SENSOR OFF no crossing is kept for later, and a bar that says
\* DETECTED says so until the exposure is over, whatever is edited and received
\* meanwhile.  Only a finish-line box's END_DETECT, which the coordinator takes
\* at any time, makes DETECTED of SENSOR OFF.
SensorOffMeansOff ==
  /\ [][CyclePhase = "SENSOR OFF" /\ CyclePhase' = "DETECTED" => InLap("drain")]_vars
  /\ [][CyclePhase = "DETECTED" /\ session' = "EXPOSING" => CyclePhase' = "DETECTED"]_vars

\* Back in the launcher with the battery alive, nothing is pressed, the lock
\* is free for the next mode, and no session is left running.
LeavesNothingBehind ==
  where = "menu" /\ ~dying => held = {} /\ ~lock /\ session # "EXPOSING"

\* An open shutter closes by itself as long as the box stays MAIN, without
\* any further packet or sensor reading.
ShutterCloses ==
  session = "EXPOSING" /\ selfRole = "MAIN" ~> session # "EXPOSING" \/ selfRole # "MAIN" \/ dying

\* MAIN never stays in the rest between shots.
RestEnds ==
  session = "REARM" /\ selfRole = "MAIN" ~> session # "REARM" \/ selfRole # "MAIN" \/ dying

SessionMovesOn == ShutterCloses /\ RestEnds

\* multi_box.h: maxBulbSec is the "safety cap, never open longer".
NeverOpenLonger ==
  where = "multi_box" /\ session = "EXPOSING" => age < openCap + MaxLag

\* factory_test_input.cpp: the exit a flat battery asks for releases a held
\* exposure before power is cut.
FlatBatteryReleases == where = "menu" => held = {}

=============================================================================
