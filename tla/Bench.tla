------------------------------- MODULE Bench --------------------------------
(***************************************************************************)
(* FOR DEVELOP: the bench harness that runs MULTI BOX's coordinator on one *)
(* box, with an interval in place of the START box.  It borrows the MAIN   *)
(* role for as long as it is open, in RAM, and gives the real one back.    *)
(*                                                                         *)
(* It is composed with the MULTI BOX mode of the same box, because the two *)
(* share the session, the three copies of the role and the power switch.   *)
(* One lap of the loop is one step: the coordinator's update (a packet,    *)
(* the deadlines of the exposure), then the harness's own.                 *)
(***************************************************************************)
EXTENDS MultiBoxUI

CONSTANTS
  Interval,        \* config.intervalMs, in ticks
  MaxBulb          \* multiBox.config.maxBulbSec, in ticks

ASSUME BenchAssumption == Interval \in Nat \ {0} /\ MaxBulb \in Nat \ {0}

VARIABLES
  page,            \* editMode.screen of the harness
  editing,         \* editMode.state = EDITING
  single,          \* config.singleShot
  running,         \* state.running
  inFlight,        \* state.cycleInFlight
  sinceCycle,      \* time since state.lastCycleMs, up to Interval
  age,             \* time since sessionStartMs, up to MaxBulb
  savedRole,       \* _savedRole
  exitReq,         \* _mode_exit_requested
  rested,          \* history: time since START was pressed or the last cycle ended
  before,          \* history: the role in flash when the harness was entered
  warm             \* history: the node manager had read flash before that

benchVars == <<page, editing, single, running, inFlight, sinceCycle, age, savedRole,
               exitReq, rested, before, warm>>
vars == <<mode, screenVars, roleVars, radioVars, display, benchVars>>

Pages == {"MAIN", "ADVANCE", "SENSOR", "TRIGOUT"}

TypeOK ==
  /\ ScreenTypeOK
  /\ display.view \in Views
  /\ page \in Pages
  /\ editing \in BOOLEAN /\ single \in BOOLEAN
  /\ running \in BOOLEAN /\ inFlight \in BOOLEAN
  /\ exitReq \in BOOLEAN /\ warm \in BOOLEAN
  /\ sinceCycle \in 0 .. Interval /\ rested \in 0 .. Interval
  /\ age \in 0 .. MaxBulb
  /\ savedRole \in Roles /\ before \in Roles

Init ==
  /\ ScreenInit
  /\ display = Picture
  /\ page = "MAIN" /\ editing = FALSE /\ single \in BOOLEAN
  /\ running = FALSE /\ inFlight = FALSE /\ exitReq = FALSE
  /\ sinceCycle = 0 /\ age = 0 /\ rested = 0
  /\ savedRole = "NONE" /\ before = "NONE" /\ warm = FALSE

\* What RAM holds of the harness while it is not open, as far as it matters.
Closed ==
  /\ page' = "MAIN" /\ editing' = FALSE /\ exitReq' = FALSE
  /\ running' = FALSE /\ inFlight' = FALSE
  /\ sinceCycle' = 0 /\ age' = 0 /\ rested' = 0
  /\ savedRole' = "NONE" /\ before' = "NONE" /\ warm' = FALSE

Capped(n, top) == IF n > top THEN top ELSE n

-----------------------------------------------------------------------------
(* Entering and leaving.                                                   *)

\* Mutant: the role is borrowed before multiBox.init() reads it again, and the
\* node manager never hears of it.
BorrowedTooEarly ==
  /\ role' = nmRole
  /\ nmRole' = nvsRole
  /\ savedRole' = nmRole
  /\ RunEnds(IF nmRole = "NONE" THEN "IDLE" ELSE "READY")

\* init() of MULTI BOX, then MAIN in the edit buffer and the node manager.
\* The role to give back is the edit buffer's.
Borrowed ==
  /\ savedRole' = nmRole
  /\ role' = "MAIN"
  /\ nmRole' = "MAIN"
  /\ RunEnds("READY")

EnterBench ==
  /\ mode = "menu"
  /\ mode' = "dev"
  /\ Borrowed
  /\ screen' = "MAIN" /\ state' = "SELECTING"
  /\ cursor' = 0 /\ sel' = 0
  /\ ok' = FALSE /\ pending' = "NONE"
  /\ page' = "MAIN" /\ editing' = FALSE
  /\ running' = FALSE /\ inFlight' = FALSE /\ sinceCycle' = 0 /\ rested' = 0 /\ age' = 0
  /\ exitReq' = FALSE
  /\ before' = nvsRole /\ warm' = (nmRole = nvsRole)
  /\ UNCHANGED <<nvsRole, peers, scan, found, single>>

\* Mutant: the role is given back to the edit buffer and flash keeps what the
\* session left there.
GivenBackInRam == role' = savedRole /\ nmRole' = savedRole /\ UNCHANGED nvsRole

\* The real role, everywhere, whatever was saved in between.
GivenBack == role' = savedRole /\ nmRole' = savedRole /\ nvsRole' = savedRole

\* teardown(): stop, close, tell the others, save, give the role back.
Teardown ==
  /\ mode = "dev" /\ exitReq
  /\ mode' = "menu"
  /\ RunEnds("IDLE")
  /\ GivenBack
  /\ Closed
  /\ UNCHANGED <<screenVars, peers, scan, found, single>>

-----------------------------------------------------------------------------
(* One lap.                                                                *)

\* What the radio brings: nothing, or from a paired box a START, an END_DETECT
\* that ends the exposure, or a DISARM.
AfterPacket(s) ==
  {s}
  \cup (IF peers # <<>> /\ s = "READY" THEN {"EXPOSING"} ELSE {})
  \cup (IF peers # <<>> THEN {"READY"} ELSE {})

\* centerCloseBulbIfDue(), which only the node manager's MAIN runs: the finish
\* line or END_DETECT may have asked for the end, the cap closes in any case,
\* and the rest after an exposure runs out.
AfterDeadlines(s, a) ==
  CASE nmRole = "MAIN" /\ s = "EXPOSING" -> IF a >= MaxBulb THEN {"REARM"} ELSE {s, "REARM"}
    [] nmRole = "MAIN" /\ s = "REARM"    -> IF a >= MaxBulb THEN {"READY"} ELSE {s, "READY"}
    [] OTHER                             -> {s}

\* A cycle may start: armed, none under way, and a whole interval waited.
CycleDue(s) == running /\ ~inFlight /\ sinceCycle >= Interval /\ s = "READY"

CycleDone(s) == running /\ inFlight /\ s = "READY"

\* DevMode::update() behind multiBox.update().
Lap ==
  /\ mode = "dev" /\ ~exitReq /\ scan # "ended"
  /\ \E s \in UNION {AfterDeadlines(p, IF p = session THEN age ELSE 0) : p \in AfterPacket(session)} :
       /\ s # session \/ CycleDone(s) \/ CycleDue(s)
       /\ session' = IF ~CycleDone(s) /\ CycleDue(s) THEN "EXPOSING" ELSE s
       /\ age' = IF session' = session THEN age ELSE 0
       /\ IF CycleDone(s)
          THEN /\ inFlight' = FALSE /\ sinceCycle' = 0 /\ rested' = 0
               /\ running' = ~single
          ELSE /\ inFlight' = (inFlight \/ CycleDue(s))
               /\ UNCHANGED <<running, sinceCycle, rested>>
  /\ UNCHANGED <<mode, screenVars, roleVars, active, flashing, peers, scan, found, page, editing,
                 single, savedRole, exitReq, before, warm>>

Tick ==
  /\ mode = "dev"
  /\ sinceCycle' = Capped(sinceCycle + 1, Interval)
  /\ rested' = Capped(rested + 1, Interval)
  /\ age' = Capped(age + 1, MaxBulb)
  /\ <<sinceCycle, rested, age>>' # <<sinceCycle, rested, age>>
  /\ UNCHANGED <<mode, screenVars, roleVars, radioVars, page, editing, single, running, inFlight,
                 savedRole, exitReq, before, warm>>

-----------------------------------------------------------------------------
(* Input.                                                                  *)

Bench == mode = "dev" /\ ~exitReq /\ scan # "ended"
Quiet == UNCHANGED <<mode, screenVars, roleVars, active, flashing, peers, scan, found, age, savedRole,
                     before, warm>>

\* Mutant: the clock of the last cycle is not restarted.
StartWithoutClock == UNCHANGED sinceCycle

\* start() waits a full interval before its first shot.
StartClock == sinceCycle' = 0

Start ==
  /\ Bench /\ page = "MAIN" /\ ~running
  /\ running' = TRUE /\ inFlight' = FALSE
  /\ StartClock
  /\ rested' = 0
  /\ Quiet /\ UNCHANGED <<session, page, editing, single, exitReq>>

\* stop() closes an open shutter and re-arms.
Stop ==
  /\ Bench /\ page = "MAIN" /\ running
  /\ running' = FALSE /\ inFlight' = FALSE
  /\ session' = IF session = "EXPOSING" THEN "READY" ELSE session
  /\ Quiet /\ UNCHANGED <<page, editing, single, sinceCycle, exitReq, rested>>

\* The pages behind MAIN, and the rows that are edited.
OpenPage ==
  /\ Bench /\ ~editing
  /\ page' \in (CASE page = "MAIN" -> {"ADVANCE"}
                  [] page = "ADVANCE" -> {"SENSOR", "TRIGOUT", "MAIN"}
                  [] OTHER -> {"ADVANCE"})
  /\ Quiet /\ UNCHANGED <<session, editing, single, running, inFlight, sinceCycle, exitReq, rested>>

EditRow ==
  /\ Bench /\ page \in {"ADVANCE", "SENSOR"}
  /\ editing' = ~editing
  /\ Quiet /\ UNCHANGED <<session, page, single, running, inFlight, sinceCycle, exitReq, rested>>

ToggleShootMode ==
  /\ Bench /\ page = "ADVANCE"
  /\ single' = ~single
  /\ Quiet /\ UNCHANGED <<session, page, editing, running, inFlight, sinceCycle, exitReq, rested>>

\* A long press, or a flat battery, asks to leave; anywhere but on MAIN the
\* long press backs out one level.
RequestExit ==
  /\ Bench
  /\ exitReq' = TRUE
  /\ Quiet /\ UNCHANGED <<session, page, editing, single, running, inFlight, sinceCycle, rested>>

HoldBack ==
  /\ Bench /\ (page # "MAIN" \/ editing)
  /\ IF editing THEN editing' = FALSE /\ UNCHANGED page
     ELSE page' = (IF page = "ADVANCE" THEN "MAIN" ELSE "ADVANCE") /\ UNCHANGED editing
  /\ Quiet /\ UNCHANGED <<session, single, running, inFlight, sinceCycle, exitReq, rested>>

BenchNext ==
  \/ EnterBench
  \/ Teardown
  \/ Lap
  \/ Tick
  \/ Start
  \/ Stop
  \/ OpenPage
  \/ EditRow
  \/ ToggleShootMode
  \/ RequestExit
  \/ HoldBack

\* The screen is drawn at the end of the lap that took the step.
Next ==
  \/ ScreenNext /\ UNCHANGED benchVars /\ Render
  \/ PowerCut /\ Closed /\ UNCHANGED single /\ Render
  \/ BenchNext /\ Render

\* The loop runs and time passes.
Fairness ==
  /\ WF_vars(Lap /\ Render) /\ WF_vars(Tick /\ Render) /\ WF_vars(Teardown /\ Render)
  /\ WF_vars(AutoClaimMain /\ UNCHANGED benchVars /\ Render)

Spec == Init /\ [][Next]_vars /\ Fairness

-----------------------------------------------------------------------------
(* Properties.                                                             *)

\* The harness never shoots early: a cycle of its own opens the shutter no
\* sooner than a full interval after START was pressed or the last cycle
\* ended, whatever packets opened and closed the shutter in between.
FullIntervalFirst ==
  [][mode = "dev" /\ ~inFlight /\ inFlight' => rested = Interval]_vars

\* Once the node manager has read flash, leaving the harness leaves flash with
\* the role it found there, although the borrowed one may have been saved
\* during the session.  On the first entry after power-up it has not: the role
\* to give back is then read before flash is, and the box comes back as NONE.
RoleIsGivenBack ==
  [][mode = "dev" /\ mode' = "menu" /\ warm => nvsRole' = before]_vars

\* While it runs, the harness gets to its next cycle, unless a START box keeps
\* taking the shutter.
NextCycleComes ==
  (mode = "dev" /\ running /\ ~inFlight /\ peers = <<>>)
    ~> (inFlight \/ ~running \/ mode # "dev")

=============================================================================
