# Verification of the camera-trigger firmware

This directory holds TLA+ models of the ESP32-S3 camera-trigger firmware under
`src/`, the TLC configurations that check them, and TLAPS proofs. Paths such as
`multi_box/multi_box.cpp` are relative to `src/src/` of the repository.

## 1. The system

The firmware is one cooperative loop. `main.cpp` boots and calls
`view/view.cpp` `view_update()` for ever: scheduler tick, battery guard, power
off, menu. Choosing a mode calls a function of `factory_test/` that runs
`while(1) { mode loop; if (_mode_exit_requested) break; delay(10); }`, so one
mode runs at a time and everything it owes the others it must have settled when
it leaves. Real concurrency comes from outside: the ESP-NOW receive callback
that fills a 16-slot queue, the BLE stack, several boxes on the radio, the user,
the battery, and power itself.

| Component | State | Operations | Hard behaviour | What makes it correct |
|---|---|---|---|---|
| MULTI BOX, MAIN role (`multi_box_controller.cpp`, `multi_box.cpp`) | session IDLE/READY/EXPOSING/REARM, deadlines, what was pressed, three copies of the role | packets START, END_DETECT, DISARM, heartbeats; deadlines; auto-claim; sensor; row edits; save; exit | packets and edits in any order in an exposure; role copies that disagree; flat battery | shutter open exactly in EXPOSING, lock with it, floor and cap kept, always closes, re-arms, nothing left on exit |
| MULTI BOX, START/FLASH roles (`multi_box.cpp`) | session, sessionActive, baseline, lock time, pending flash | MAIN's broadcasts, readings, delayed flash, unlock fallback | lost and late packets, MAIN silent, stale baseline | one request per runner, no lock for ever, flash fires or is dropped, the panel says whether the box watches |
| Peer table and radio (`node_manager.cpp`) | peers, sequence numbers, scan, self role | add, remove, refresh, accept, scan, heartbeat | 16-bit wrap, reboot of a sender, duplicate ids, a save cut short | one entry per box, fresh packets accepted, stale refused, what is shown as linked is alive |
| MULTI BOX screens (`multi_box_ui.cpp`) | cursor, selection, dialogs | draw, scroll | rows come and go under the cursor | the cursor is on a row, and the row is drawn |
| Timelapse (`timelapse/`) | running/paused/exposing/settling, timestamps, shot count, configuration | start, stop, pause, resume, autostart, update, edits | control falls into any phase of a shot; autostart | every hold released, a whole rest before each shot, exposure not exceeded, finite sequences finish, the panel tells the truth |
| Trigger lock (`common/hardware_config.cpp`) | one flag | acquire, release | a holder that leaves without releasing | held exactly while a shutter is held |
| Trigger Mode (`trigger_mode/`) | enabled channels, BLE on/off, brand | toggles, press, release, pairing, test shot | a press or its release lost on the air | what was pressed is released; the notice is of this brand |
| FOR DEVELOP (`dev_mode/`) | borrowed role, cycle in flight | start, stop, interval, limits, restore | borrows MAIN on top of MULTI BOX; power lost meanwhile | the real role comes back, also in flash; the next cycle always comes |
| Auto Shoot (`auto_shoot/`) | in range, last trigger, last distance | poll, burst, start, stop | edge, distance and cool-down out of step; failed reads | every move in the zone is photographed, noise is not |
| Scheduler (`sleep_week/`) | days, times, minute keys, alarm | tick, sleep, wake, boot resume | a minute missed, midnight | awake in the window, asleep outside |
| Battery guard (`common/battery.cpp`, `factory_test_input.cpp`) | smoothed voltage, hold timers | sample, warn, critical | sag, hysteresis | no spurious and no missed shutdown |
| BLE remote (`remote/`) | brand, identities, connections | connect, pair, press, release, trigger, forget | calls that fail at any stage, a disconnect under a write | one link, to the chosen camera; no shutter left open |
| Launcher, input, power (`view/`, `factory_test/`) | current mode, exit and shutdown flags, press in progress | enter, leave, wake, power off | exit asked for from outside the mode; the press that wakes the screen | the mode's own exit path runs; waking acts on nothing else |
| OTA (`ota_update/`) | networks, passwords, releases, bytes written | scan, connect, list, confirm, download, switch | connection or power lost at any byte; lists refetched | boots a whole image, the one confirmed |
| Display power save (`display_mode/`) | dimmed, off, last activity | tick, wake | a key swallowed | wakes on the first key |
| Screens of the settings (`timelapse_ui`, `auto_shoot_ui`, `setting/`, ...) | screen, row, EDITING, configuration in RAM and flash | turn, press, long press, save | one turn changes several fields; left while EDITING; power lost | the row in hand is drawn as what it is, fields agree, nothing is lost |
| Self tests, boot logo, calibration screen, vendored libraries | none that others read | draw, print | none | not modelled |

Interactions: every shutter path takes the trigger lock and reads Trigger Mode's
channels; MULTI BOX and FOR DEVELOP share one session; the scheduler arms an
autostart that Timelapse and Auto Shoot consume; the battery guard sets the exit
flag of whatever mode runs, and the launcher then cuts power.

`PROJECT.json` lists the components with their status and the hazards, each at
its line, with the properties that cover them.

## 2. The modules

How they build on one another (`<-` extends or instantiates):

```
ShutterHold   <- MainCoordinator <- MainCoordinatorProofs
              <- Timelapse       <- TimelapseProofs
SensorNode    <- SensorNodeProofs
PeerTable     <- MCPeerTable
OrderedLinks  <- MultiBoxNet <- MCMultiBoxNet
PeerTable, MultiBoxNet  <- NodeManagerProofs
CameraRemote  <- MCCameraRemote
AutoShoot, CameraRemote <- ShootingProofs
System        <- MCSystem
System, ModeInput       <- SystemProofs
Frames, ConnectionScreen <- MultiBoxUI <- Bench <- BenchProofs
Frames, ModeScreen <- TimelapseScreens, AutoShootScreens, TriggerScreens,
                      SettingScreens, OtaScreens, SleepWeekScreens,
                      DevelopScreens <- ModeScreens <- MCModeScreens, ModeScreensProofs
```

Three proof modules extend two specifications that share no variable
(NodeManagerProofs, ShootingProofs, SystemProofs). For that the second of each
has names of its own for the usual operators: `TableInit`/`TableNext`/`TableSpec`
in PeerTable, `RemoteInit`/... in CameraRemote, `InputInit`/... in ModeInput.

### ShutterHold: what every holder of a shutter promises

Abstract specification with three variables: an exposure is open, the channels
held, the trigger lock. `Open` presses any set of channels (a BLE press may
fail) and takes the lock; `Close` releases all and frees it. Nothing else may
happen to the lines: no second press, no release of a part, no lock without an
exposure. `MainCoordinator` and `Timelapse` are both shown to implement it.

### MainCoordinator: a box as MAIN

`phase` is the position in a lap of `MultiBox::update()` and the mode's loop:

| phase | code | actions |
|---|---|---|
| `drain` | `MultiBoxController::update()`, `handleIncoming()` | `Receive` (`CenterOnStart`, `CenterOnEndDetect`, `OnDisarm`, `OnIdentityPacket`, `IgnorePacket`), `DrainDone` |
| `close` | `centerCloseBulbIfDue()` | `FinishShot`, `FinishRearm`, `NothingDue` |
| `claim` | `autoClaimMainIfScanFinished()` | `AutoClaimMainIfScanFinished` |
| `sense` | `applyRoleSensorLogic()`, `requestEnd()` | `ApplyRoleSensorLogic` |
| `turn` | `_battery_guard_tick()`, then the encoder | `BatteryCritical`, `ApplyRoleChange`, `EditLimit`, `NoInput` |
| `press` | the button | `OpenConnection`, `SaveConfig`, `Scan`, `ChangePeers`, `RequestExit`, `NoInput` |
| `pause` | `delay(10)`, the loop's `break` | `Pause(d)`, `LeaveLoop` |

Outside the mode: `EnterMode` (`MultiBox::init()`), `SetChannels` (Trigger Mode)
and `PowerCycle`, which may also strike inside the mode, at any phase.

The three copies of the role are three variables: `configRole` (the edit
buffer), `selfRole` (`nodeManager`, which gates packets and deadlines) and
`nvsRole` (flash). Timestamps appear as ages: `age` is `millis() -
sessionStartMs`, `endLeft` is `endDueAtMs - millis()`. The sensor may report a
crossing in any lap; MAIN's baseline is not modelled. Any packet of a paired
peer may arrive in any lap, so a lost, late, duplicated or reordered packet is
the same as one that arrives or not; what the sequence filter rejects is
`IgnorePacket` (which packets those are is MultiBoxNet's subject). `CyclePhase`
is the phase the cycle bar names.

`openCap` and `orphaned` are history variables. `openCap` is the largest cap in
force since the shutter opened (the cap is editable under an open shutter, and
the promise is about what was in force); `orphaned` records that `saveConfig()`
took the role away during an exposure, which the finding below is about.

### SensorNode: a START or FLASH box

The same loop for the other two sensing roles: `OnStart`, `OnSessionOver`
(SHOT_DONE and DISARM) and `OnReady` are `nodeOnCenterBroadcast()`;
`ApplyRoleSensorLogic(r)` is one sensor lap with reading `r`, with
`CaptureBaselineStep`, `Detect` (`FireStart`, `FireFlash`) and `DropBaseline`;
`FirePendingFlash` and `UnlockFallback` are the rest of `update()`. `baseline`
is, as in the code, a sum while the baseline is captured and the mean after it;
`samples` is the 8-bit count that tells them apart. `mainUp` stands for "the
peer table holds a MAIN and it was heard of lately". `range` is the set of
distances the range filter lets through, all of them while it is off: detection
asks `Valid` of a reading, the marker of the sensor bar only `HasObject`. The words
of the panel and the marker are operators of this state. `owing` (a START was sent
and nothing released it) is a history variable.

### PeerTable, MultiBoxNet and OrderedLinks: who is who, and what came after what

`PeerTable` is `NodeManager`'s table in RAM, its copy in flash (count and list
are two writes, and power may be cut between them: `TornSave` is that cut and the
boot after it), the addresses registered
with ESP-NOW, the ages of the links and the warning about two boxes with one id.
Other boxes change their ids, so an entry may be found by id and not by address
or the other way round.

`MultiBoxNet` is MAIN and its sensing boxes over a radio that loses, repeats and
reorders, with queues that overflow and packets that go stale in them, 16-bit
numbers that skip 0 and wrap, boxes that enter, leave and restart. The radio and
a queue are one set of packets, any of which may be next, again, or never. `sent`,
`got` and `born` are history variables that count in true numbers what the code
knows modulo 2^16. `OrderedLinks` is what that filter is for: of the packets of a
box every other one acts on a strictly increasing selection.

### Timelapse

`phase` is the lap of `_timelapse_loop()`: autostart, `update()`, input, delay.
`Update` is the decision tree of `Timelapse::update()`: `EndBulbExposure`,
`EndSettle`, `FinishSequence`, `StartBulbExposure`, `TriggerCamera`,
`NothingDue`. `StartRun`, `StopRun`, `PauseRun` and `ResumeRun` are `start()`,
`stop()`, `pause()` and `resume()`. Rows are turned with their limits; the video
calculator is any (shots, interval) within limits (its arithmetic is in
TimelapseScreens). `StatusString`, `ControlLabel` and `Countdown` are what the
panel shows. A press over BLE blocks the lap for up to `PressTime` ticks, in the
middle of it: the lines go up before it, `exposureStartTime` is read after it, and
`lastShotTime` of a tap is the time from before it. `openCap`, `lineAge` and
`sinceShot` are history variables: the longest exposure time in force since the
shutter opened, the time since the lines went up, and the time since a shot ended.

### AutoShoot

The same lap again. `Poll` is everything `TFLuna::update()` may leave behind: the
old frame, a new one, a failed read, a driver begun anew. `CheckAndTrigger` looks at
it: `Burst` if `Fires`, else `NoBurst`; a burst blocks the lap for as long as its
shots take (`BurstTimes`), while `since`, the age of `lastTrigger`, counts from
before it. `lastDistance` survives `start()` and `init()`, as in the code. Rows are
turned with their clamps and the swap of the ends of the range; the cool-down keeps
its unsigned type (`CooldownMod`). `left` is a history variable: the zone was seen
empty, or the run restarted, since the last burst. The tap of the lines under the
trigger lock begins and ends inside one step and is left out.

### CameraRemote

`RemoteManager`, the four drivers and Trigger Mode's gates before them. A driver's
call blocks the loop, so it is one step, and what the radio makes of it is a set of
outcomes: not connected, connected and dropped in the handshake with or without
the handle of an earlier connection in place (`Attempts`, for all four drivers),
written, lost in silence, or the handle cleared by the disconnect callback between
the check and the write. A Sony body toggles on a full press while its dial is on
Bulb; the others know press and release. `OpenBulb` presses whatever state the
camera's shutter is in, as `openBulb()` does. `exposing` is the truth at the
cameras. Two histories say when firmware and camera may disagree: `lost` (a command
of this exposure was lost or went to another body, the shutter stood open when it
began, or a hand closed it) and `strayed` (a pairing left its handle).

### System

The box around its modes: launcher, `SleepWeekScheduler`, battery guard,
`_power_off()`, the three ways to boot, the download and the switch of the boot
partition. Time is the minute of a short week; the loops that run the scheduler
lap at least once a minute. `sinceOk` (the time since the last reading above the
hysteresis) and `dipped` (a reading since then was critical) are history variables.

### ModeInput

The button as two laps read it: the launcher swallows the press that wakes the
screen until it is released, a mode skips one lap.

### ConnectionScreen, MultiBoxUI and Bench

`ConnectionScreen` has both MULTI BOX screens with their lists, rows and dialogs;
`MultiBoxUI` what is drawn of them; `Bench` adds FOR DEVELOP on the same box: the
role it borrows and gives back, and `simulateStart()` on its interval. One lap is
one step here: what happens between packets is the subject of MainCoordinator. A
run is here its four fields, `session`, `active`, `flashing` and the role, which
packets, the sensor and the deadlines change in the steps the code has for them.
`display` is what `_canvas_update()` last pushed: `Render` ends every step in
MULTI BOX with the picture of its state, except under the SHOT IN PROGRESS
question, which `renderMultiBoxUI()` draws and does not push.

### ModeScreen, the seven screens, ModeScreens

Every mode of settings has a screen, a row, EDITING or not, and a configuration in
RAM and in flash. `ModeScreen` has that, and each of `TimelapseScreens`,
`AutoShootScreens`, `TriggerScreens`, `SettingScreens`, `OtaScreens`,
`SleepWeekScreens` and `DevelopScreens` its own rows, steps, clamps, pages and what
is saved when, with the frame (`Frames`) it draws: the video calculator's
arithmetic, the calendar, the network and release lists with their keyboard. A
frame tells of each row drawn whether it is plain, lit, or filled with an accent
colour, `COLOR_HIGHLIGHT` or the green or red of a control: an accent is what an
edited row has, and what a selected button, key or day (`Buttons`) has as well.
`ModeScreens` is the life of one of them, opened and left again and again, with a
flat battery's exit (which OTA does not have) and power lost at any moment.

## 3. What the runs check

| Run | States | Properties |
|---|---|---|
| `main_coordinator` | 417 140 | `ShutterFollowsSession`, `CapHonoured`, `FloorHonoured`, `LeavesNothingBehind`, `SensorOffMeansOff`, `HoldContract` (implements ShutterHold), `SessionMovesOn` (the shutter closes, the rest ends) |
| `never_open_longer` | violated | cold boot of a box stored as MAIN, a DISARM of a paired box that makes its session READY, START, then leaving CONNECTION: the cap no longer closes the shutter |
| `flat_battery` | violated | the battery's exit leaves a held exposure behind |
| `sensor_node` | 105 618 | `OneRunnerOneRequest`, `LockIsTold` (a locked FLASH box is in a session, a panel that says WATCHING watches, and such a box locks exactly on a reading in range that turns the marker green), `NodeMovesOn` (locks end, an armed flash fires) |
| `timelapse` | 200 496 | `HoldContract`, `ShutterReleased`, `ExposureCap`, `RestHonoured`, `StatusIsTrue`, `SequenceMovesOn` (exposures and finite sequences end) |
| `auto_shoot` | 69 528 | `NoiseIsNotMovement`, `MovesArePhotographed` |
| `peers` | 173 758 | `OneEntryPerId`, `LinkedIsAlive`, `PairedIsReachable`, `PairedSurvive` (only a removal takes a box out of the list, one at a time, whatever power cuts) |
| `box_net` | 562 455 | `NumbersTellTheOrder` (what is let in is new, what is refused is old), `LinksAreOrdered` (implements OrderedLinks) |
| `remote` | 4 659 456 | `LinkIsTheChosenOne` (one driver has a handle, to the camera in flash), `CameraFollowsBulb` (an exposure that lost no command is open at the camera exactly while the firmware holds it) |
| `bench` | 601 974 | `ScreenIsConsistent` (cursor and selection on a row, the row in hand on the display, dialogs over their screen, the status line names the session), `FullIntervalFirst`, `RoleIsGivenBack`, `NextCycleComes` |
| `system` | 169 866 | `BootsWholeImage`, `BatteryGuard` (a shutdown is asked for only at the end of a hold with a critical reading and no recovery, and then always comes), `SleepMinuteIsKept`, `ResumesInWindow` |
| `screens` | 773 482 | `RowInHandIsLit`, `FieldsAgree`, `UpdateIsAgreed`, `NothingIsLost`, `HeldFieldStays` |

The two violated properties each restate a comment of the code; `PROJECT.json`
quotes the comment and tells the story of the counterexample. In
`MainCoordinator` the two properties that would fail for those reasons alone are
stated with the reason excluded, so that they still check everything else:
`CapHonoured` for a box that was not `orphaned`, `LeavesNothingBehind` for a
battery that is alive. Several properties have named parts (`LockIsTold`,
`BatteryGuard`, ...); the parts are definitions of their own. The `TypeOK` of the
modules takes no run: where a module has a proof module it is proved, and it was
checked with TLC while each module was written.

### Bounds

Limits are counted in ticks. One wired line and BLE are the two kinds of
channel; the second wired line is driven by the same statements as the first.
A cap, floor, rest, delay, interval, exposure or settle time takes its smallest
value and at least one above it, so each can be edited in both directions while
it is counted.

- MainCoordinator: `DrainMax` 1 (a second packet in the same lap finds the state a
  second lap would find, since only `drained` separates them). `SidMod` 2 leaves one
  session id: an END_DETECT of the right and of a wrong session both occur.
- SensorNode: `Samples` 3 instead of 5 and `SampleMod` 5 instead of 256 keep the
  count's wrap in the model; `DrainMax` 2; distances up to 3, so that a range has
  readings below, in and above it.
- Timelapse: a press over BLE takes up to `PressTime` 2 ticks, a whole interval. The
  interval is 2 or 3, more than the two laps that a PAUSE and a RESUME take, so that a
  RESUME which forgot to restart the rest would be seen. No interval is below the countdown of the autostart; the code allows it (100 ms
  against 5 s), and the divergences below say what happens then.
- Auto Shoot: the cool-down goes to 2, more than a lap, and bursts take up to 3
  ticks, more than the cool-down.
- `AgeBound`, `RestBound` and `LockCap + 1` are where elapsed times saturate, above
  every limit they are compared with; the ASSUMEs of the modules say how far.
- PeerTable: two boxes and two slots, three ids of which one is the box's own: ids
  clash, are taken over, and fill the table.
- MultiBoxNet: 7 numbers of which 2 are left before the wrap, a queue of 2, MAIN
  sends 6 packets (a session and a half), the START box 3, one restart. Because
  sends are bounded the net may fall silent, so deadlock is not checked. The proofs
  have no such bounds.
- CameraRemote: two Sony and two Canon bodies, to pair with the wrong one over the
  two ways a pairing connects, and one of each other make. Nikon's and Fuji's
  attempts are Canon's without its second connection; the proofs are for any bodies.
- Bench: all four roles, two boxes to pair, lists longer than the two rows drawn.
- System: a week of two days of three minutes: every order of sleep, wake and now
  on a day, windows across midnight included; schedules with one enabled day.
- ModeScreens: four rows drawn, so that the longer lists scroll; a calendar of
  three months with their different lengths; two networks, two releases.

### Fairness

Only laps are fair: while a mode runs its loop goes round, because it is
`while(1)` with a 10 ms delay, no call in it waits for an event, and the drain is
bounded by ten packets. `System` adds that a mode asked to exit leaves, that the
power-off routine ends, and that the clock ticks. Packets, readings, the user, the
radio and cuts of power are never fair. Liveness properties end in escapes where
the code gives none: the box stopped being MAIN, the battery is dying, the mode
was left.

## 4. What is proved

Every theorem holds for every value of the constants that meets the ASSUMEs of
its module. The proofs have one lemma per part of the invariant or per action, one
step per action under it, and the temporal step last (PTL).

**MainCoordinatorProofs** (`LimitsAssumption`: positive limits, `SidMod > 1`,
saturation bounds above the limits; `ChannelAssumption`): `TypeCorrect`,
`ShutterFollows` (`[]ShutterFollowsSession`), `CapIsHonoured` (`[]CapHonoured`),
`NothingLeftBehind` (`[]LeavesNothingBehind`), `FloorIsHonoured` (`FloorHonoured`),
`SensorIsIgnored` (`SensorOffMeansOff`) and `HoldImplemented` (`HoldContract`, the
refinement of ShutterHold). None of these is inductive by itself. `IInv` adds to
`TypeOK`:

- `LimitsOrdered`: the floor does not exceed the cap. `FloorHonoured` needs it
  because the cap closes the shutter without looking at the floor.
- `HoldInv`: what is held is exactly what the press flags name, all of it is
  enabled, and both are empty outside EXPOSING. `closeBulb()` releases what the
  flags name and, for BLE, only if the channel is enabled; that it releases
  everything is this invariant.
- `ExitInv`: with the battery alive, `exitReq` is only set at the end of a lap and
  with no exposure open, which is what makes leaving the loop safe; a dying
  battery sets it anywhere.
- `CapInv`: in an exposure of a box that was not orphaned the box is MAIN, the
  cap in force does not exceed `openCap`, and `age` is below `openCap + MaxLag`,
  or below `openCap` from the deadline check to the end of the lap. The lap order,
  deadlines examined after the packets and before time passes, is what it rests on.

**TimelapseProofs** (`TimelapseAssumption`, `LineAssumption`): `TypeCorrect`
(`Spec => []TypeOK`). The other results are about the behaviours in which no
autostart can surprise a sequence: `Calm` says that no countdown of a scheduled
wake is pending, or that no interval is shorter than the countdown (`QuietWake`).
Without it they are false (see the divergences); with it they cover every sequence
of a box that did not wake by schedule, whatever its interval.

- `ReleasedOnExit`: `Spec /\ []Calm => []ShutterReleased`
- `CapIsKept`: `Spec /\ []Calm => []ExposureCap`
- `RestIsKept`: `Spec /\ []Calm => RestHonoured`
- `StatusIsTold`: `Spec /\ []Calm => StatusIsTrue`
- `HoldImplemented`: `Spec /\ []Calm => HoldContract`

Its invariant adds to `TypeOK`:

- `HoldInv`: an exposure is open only in a running sequence inside the mode, and
  holds exactly what its press flags name. `start()` and `resume()` do not look at
  the shutter; they are safe because they are reached only when nothing runs.
- `CountdownInv`: while a countdown is pending no exposure is open, and rest and
  time left add up to no more than the countdown. This is the part `Calm` is for:
  the autostart calls `start()` whatever runs.
- `CapInv`: from `update()` to the end of the lap `age` is below `openCap`, and at
  most a lap more afterwards.
- `RestInv`: where the next shot waits for its rest, `lastShotTime` is no older than
  the end of the last shot. It does not hold in a settle pause or while paused;
  that both ends reset `lastShotTime` is what restores it.

**NodeManagerProofs** proves about both halves of `NodeManager`.

The radio (`NetAssumption`: at least two packets may be sent within the 3 s after
which a queued packet is dropped, and fewer than half the range): `OrderIsTold`
(`[]NumbersTellTheOrder`) and `LinksOrdered` (`LinksAreOrdered`, the refinement of
OrderedLinks), for any number of boxes, packets, restarts and any width of the
numbers, 16 bits included. The invariant relates the wrapped numbers to the true
ones of the history variables: a packet under way was sent since its sender
started up, lately, and its number lies as far behind the sender's counter as it
was sent ago (`Back`, which steps over 0); what a box remembers is the number of
the last packet it accepted, unless the sender restarted or went all the way round
since. The 3 s rule is what the proof rests on: without it an old packet could
come back as a new one.

The table (`PeerAssumption`): `TableTypeCorrect`, `IdsAreUnique`
(`[]OneEntryPerId`), `LinksAreAlive` (`[]LinkedIsAlive`), `PeersAreReachable`
(`[]PairedIsReachable`) and `PairedAreKept` (`PairedSurvive`), for every set of boxes
and ids and every size of the table. `PairedAreKept` is the invariant that flash names
the table of RAM, and for each write, whole or cut, which list a boot then loads.

**SensorNodeProofs** (`NodeAssumption`): `TypeCorrect`, `OneRequest`
(`[]OneRunnerOneRequest`), `LockedInSession` (`[]FlashLockHasSession`) and
`PanelIsTrue` (`LockIsTold`). Type correctness is the hard one: the baseline is a
sum or a mean in one variable, and `SumInv` bounds it for every count, stale and
wrapped ones included. `PanelIsTrue` has three parts. That a locked FLASH box is in
a session is part of `IInv`. That the words agree with what the sensor logic obeys
needs one fact more, `LockedWhileActive`: whatever locks a box makes its session
active and whatever ends the session unlocks it, so LOCKED and WATCHING are never
told apart wrongly. That a box which says WATCHING locks exactly on a green marker
in range (`GreenInRangeLocks`) is an action property: under a true panel the sensor
lap fires exactly when the marker's condition and the range filter's hold, and
firing takes the lock.

**ShootingProofs** proves about the shot that is taken by itself and the one that is
sent to a camera.

Auto Shoot (`AutoShootAssumption`): `TypeCorrect` and `NoiseTakesNoShot`
(`NoiseIsNotMovement`); `EdgeInv` says that in a run an
object photographed and not gone is remembered as being in the zone.

CameraRemote (`CameraAssumption`: every body has a make, and the names of link
states are no body's), for any set of bodies: `RemoteTypeCorrect`,
`LinkStaysTheChosenOne` (`[]LinkIsTheChosenOne`) and `CameraKeepsStep`
(`[]CameraFollowsBulb`). Neither is inductive. `CameraInv` adds:

- `HeldInBulbMode`: a shutter is held only while a mode that holds shutters runs.
  The test shot, pairing, forgetting and the choice of brand are actions of Trigger
  Mode, so no identity can change under an open camera.
- `HeldIsTheSavedOne`: in an exposure that lost nothing the camera that is open is
  the one in flash, and no other is. A link that dropped may come back for the
  release, and it leads to the saved camera; that it is the one that was opened is
  this part. The proof of `CameraFollowsBulb` then goes outcome by outcome through each
  call: a Sony that is pressed in full toggles, so a release that reaches it twice, or
  when it was never opened, would open it. An exposure that begins over an open
  shutter is out of step from the first press and says so in `lost`.

**BenchProofs** (`PeersAssumption`, `RoomAssumption`, `BenchAssumption`): `TypeCorrect`,
`ScreenStaysConsistent` (`[]ScreenIsConsistent`), `IntervalIsWaited`
(`FullIntervalFirst`) and `RoleComesBack` (`RoleIsGivenBack`), for every set of
boxes, size of the table, number of rows drawn and interval. `IInv` has the parts of
`ScreenIsConsistent` that are about the cursor and the dialogs and adds:

- `RolesFit`: how the three copies of the role hang together. The edit buffer is the
  node manager's role or not set yet, and away from the screen that edits it the
  node manager's is the one in flash or not read yet. This is what lets FOR DEVELOP
  find in flash the role it has to give back.
- `SessionFits`: which sessions a role can be in, so that a change of role, or a
  packet after it, leaves no status line that speaks of another role's session.
- what stands on the display is the picture of the state, or, under the question
  that is not pushed, of the list it was asked from.
- `ScreensAtRest`: outside MULTI BOX its screens are as its next entry finds them.
- `HarnessInv`: the clock that the interval is measured on is the time rested, and
  the borrowed role's predecessor is the role found at entry.

**ModeScreensProofs** (one named assumption per screen module and
`StoredAssumption`: what flash holds at first is a configuration the screens can
produce): `RowInHand` (`[]RowInHandIsLit`), `FieldsAlwaysAgree` (`[]FieldsAgree`),
`UpdateStaysAgreed` (`[]UpdateIsAgreed`), `FlashKeeps` (`NothingIsLost`) and
`CalculatorIsKept` (`HeldFieldStays`), for every range, list, calendar, set of
networks and catalog of releases. One invariant serves all seven modes, since all
of them share the screen, the row and EDITING:

- seven parts say, mode by mode, on which rows of which pages the cursor and an
  edit can be and that the configurations in RAM and flash are ones the rows can
  make. That the row in hand is drawn and lit follows from them, page by
  page, and from `SelectionIsDrawn`: a window that follows the selection shows it.
- `SavedInv`: outside an edit flash holds what is in force. Settings is excluded,
  because its rows are saved when it is left.
- `ClockInv`: the date shown exists unless it is being turned, and what was written
  to the chip exists, for every table of month lengths: a month that is turned
  takes the day down with it, and a year's is put right by the clamp that ends the edit.
- `NoticeInv`: the notice of the Bluetooth page is about the driver beside it.
- `OtaInv` and `FlashInv`: while an image is written the entry chosen is the one
  confirmed, lists are refetched only on pages where nothing is chosen, and only
  passwords that connected are in flash.

`CalculatorIsKept` is not about the invariant but about arithmetic: lemmas on
the division of `solveIntervalMs()` and the rounding to whole shots show, for every
interval, frame rate and step, which field each row keeps, that the shoot gets no
longer than what was asked for or shown in whole seconds (`SolvedIsNoLonger`) nor
shorter by more than the rounding (`SolvedLasts`), and what an infinite sequence
becomes (`InfiniteBecomesShort`).

**SystemProofs** (`SystemAssumption`): `TypeCorrect`, `WholeImageBoots`
(`[]BootsWholeImage`), `SleepMinuteKept` (`SleepMinuteIsKept`),
`ResumesOnlyInWindow` (`ResumesInWindow`) and `CutNeedsTheHold` (`CutOnlyWhenFlat`,
the safety part of `BatteryGuard`). The lemma `AwakeIsInWindow` shows that
`shouldBeAwakeNow()` agrees with the reference definition of the window for every
length of the day, across midnight too. And of ModeInput `WakeIsSwallowed`: in the
launcher the press that wakes the screen is acted on neither when it goes down nor
when it comes up.

### What is only model-checked

- Liveness: `SessionMovesOn`, `NodeMovesOn`, `SequenceMovesOn`,
  `MovesArePhotographed`, `NextCycleComes` and the second part of `BatteryGuard`
  (`FlatBatteryTurnsOff`). They rest on fairness, and a proof would need
  ENABLED, which the provers do not reach.
- Timelapse where an autostart's countdown can expire under a sequence, that is,
  outside `Calm`: there the properties are false for short intervals and TLC checks
  them for the long ones.

Every other property of a passing run is a theorem.

## 5. Divergences met

Where the code does something a comment or a document of the repository does not
say, or something its user would not expect. The two that a run shows are findings
in `PROJECT.json`; the others were met while the modules were written.

MULTI BOX

- A DISARM that reaches MAIN in REARM ends the rest at once
  (`multi_box_controller.cpp` against `multi_box.h:31-34`).
- The START box's baseline is dropped without `baselineSamples`
  (`multi_box_controller.cpp:275`, `multi_box.cpp:303`): the next baseline can be
  wrong and a still scene trigger, which the comment at `multi_box.cpp:107-110` excludes.
- "minReached is a redundant guard" (`multi_box_controller.cpp:227-229`) is not so
  for an END_DETECT or a MIN BULB raised during the exposure.
- A leaving box's DISARM is obeyed by MAIN and not relayed. A box that was replaced
  and paired again keeps its old `lastSeq`; a sender that restarts is taken for
  stale until it passes its old number.
- A save is two writes (`node_manager.cpp:76`, 84), and an empty list is refused. A
  power cut between them takes out the last paired box instead of the one chosen,
  which is paired again; the last peer removed stays in flash, and a pairing cut
  there brings it back instead of the new one.
- `renderMultiBoxUI()` returns after `renderConfirmDisrupt()` without
  `_canvas_update()` (`multi_box_ui.cpp:770-773`): the SHOT IN PROGRESS dialog is
  never on the screen. The list before it stays there while clicks answer the
  question, and which answer is chosen cannot be seen.
- A box without a role that claims MAIN while `sessionActive` is set stays busy
  (`multi_box.h:178-182`) until the mode is left or the role is edited: nothing a MAIN
  hears clears it.
- The sensor bar's marker is green by `hasObject()` (`multi_box_ui.cpp:239-243`), which
  ignores the range filter that detection applies (`multi_box.cpp:90-93`): "turns
  green once it is far enough from baseline to fire" (`multi_box_ui.cpp:207-208`) is
  false of a reading out of range.
- A START box given its role inside the mode is IDLE: the panel says so, and it
  watches and fires; "BULB - WATCHING" is shown before the baseline is
  captured; an END_DETECT from afar shows DETECTED inside MIN BULB. At the first
  entry after power-up the panel says NO ROLE although the node manager read MAIN.
- Whether a role may be edited during an exposure is asked only when editing starts.
- A press on "Scanning..." in the lap in which the scan ends was meant as BACK and
  pairs with the first result.

FOR DEVELOP

- On the first entry after power-up the role given back is NONE (`dev_mode.cpp:71`
  against `dev_mode.h:110-111`). A power cut in FOR DEVELOP after a peer's new role was
  saved leaves MAIN in flash, against "a bench session cannot leave the box
  reconfigured" (`dev_mode.cpp:69-70`).
- Pressing a channel row of TRIGOUT calls `handleEncoderRotate(1)` while SELECTING,
  so it only moves the cursor (`dev_mode.cpp:362` against 356; 277-292 are never
  reached).
- At MIN BULB 900 the cap becomes 901 and then MAX = MIN = 900. `dev_mode.cpp:258-259`
  calls clamping the far edge "rather than swapping them" the rule of Auto Shoot's
  range: Auto Shoot swaps.

Timelapse and Auto Shoot

- The autostart calls `start()` over a running exposure (`timelapse.cpp:552`). With
  `MinInterval = 1` and `AutoDelay = 2` in `MCTimelapse.cfg` TLC finds
  `ShutterReleased` violated.
- A long press on ADVANCE while EDITING returns to MAIN still EDITING, on the
  "Advance" row (`timelapse.cpp:532-538`, `auto_shoot.cpp:308-322`). Auto Shoot's
  long press on MAIN while EDITING leaves without saving; Timelapse's saves.
- One click below 0 makes the cool-down the longest one (`auto_shoot.cpp:102`).
- `timelapse.cpp:413-415` says of the calculator that the field being turned is "held
  fixed at its CURRENT value"; the cases below it hold another one, each named in its
  own comment. On an infinite sequence nothing is held: turning Duration or Video FPS
  silently makes one shot of it, turning Video Length one second of video. A duration
  shown as 0s is held as 1s, and repeated edits let the duration drift down by the
  rounding.
- The time between shots is counted from before the press of a tap
  (`timelapse.cpp:139`, 157): a press over BLE that blocks for longer than the interval
  leaves no rest. An exposure's timer starts after its press (230, 240), so the lines
  stay up for the press longer than the time that was set.

Input, scheduler, battery, settings, update

- The press that wakes the screen acts at its release in the modes
  (`factory_test_auto_shoot.cpp:55-59` says it cannot). A wake on a day that is not
  enabled leaves the box awake in the menu. The restart after an update is not a manual boot.
- "A single low reading must NEVER trigger anything" and "any reading back above the
  threshold resets the timer from scratch" (`battery.cpp:50`, 57-58) are not what
  `updateSustainedState()` does (74-86): after one critical reading, readings above the
  threshold but inside the hysteresis band count towards the shutdown. So does time in
  OTA UPDATE, where nothing is sampled: a critical reading on the way in and one in the
  band on the way out cut power. OTA ignores `_mode_exit_requested` besides, so a
  battery that goes flat in it is noticed when it is left.
- `RELEASE_NOTES_v1.4.md:64-65` says of MULTI BOX that nothing keeps the scheduler's
  deep sleep from firing mid-shot; no loop of a capture mode runs the scheduler, so it
  cannot fire there at all, and the sleep minute passes.
- Leaving Settings always writes the time read at entry to the clock, with second
  0; `initSettingUI` does not reset the screen; a battery exit does not save the
  display rows. In SLEEP&WEEK every step of a time edit is saved and in force at once.
- A saved network password that stops working can never be entered anew. A release
  whose name is null is shown by its asset's.

Bluetooth

- Sony's `connectTo()` trusts a client that is closing, and its `pair()` saves a new
  identity while the old camera is connected; Nikon's queue is not flushed.
- A pairing that fails over a live connection clears no handle, in any of the four
  drivers: until the link drops commands may reach another body than the one saved.
- A Sony body left open by a release lost on the air is not noticed: `openBulb()`
  presses it again, which closes it (the press is spent "closing the previous exposure
  instead of starting a new one", `sony_ble.cpp:268-274`), and so on, inverted, until
  someone closes it by hand.

## 6. Not modelled, and why

- Drawing itself (colours, places, fonts, animation), wording, sounds, the live
  distance and zone bar of Auto Shoot, theme palettes, the calibration screen, self
  tests, the game, the boot logo: no state that another part reads.
- Vendored libraries: encoder, button (debouncing), RTC chip, UI toolkit. What the
  code sees of them is in ModeInput and System.
- The contents of BLE handshakes and keys, WiFi and ESP-NOW set-up, HTTP and the
  text of JSON, the letters of the keyboard: their outcomes are modelled, as sets.
- Recovery of the sensor's bus: a failed read is a reading like others.
- `millis()` wrapping after 49 days (deadlines compared with `>=` instead of by
  difference, `node_manager.cpp:202`, `factory_test_timelapse.cpp:41`).
- The scheduler's look once a second, the tap that ends a hold on USB, setting the
  clock and `lastSleepMinuteKey` in System; sending END_DETECT (never called) in
  MultiBoxNet; roles in PeerTable; the pulses of test shots and of a flash, which
  begin and end inside one step; the node id row of CONNECTION; the second MAIN on a
  network, which the firmware reports and does not resolve; a router that changes a
  password after it was saved.

The models stop where the code stops keeping state. What could still be added is
a composition of MainCoordinator and SensorNode lap by lap over MultiBoxNet's
radio, which is out of reach of a run of minutes but not of a proof from the
theorems above: that a MAIN and a START box that share `OrderedLinks` agree on
which session runs. The other proof worth having is of Timelapse without `Calm`,
with the weaker properties that hold there.
