----------------------------- MODULE ShutterHold -----------------------------
(***************************************************************************)
(* What every mode that holds a camera's shutter promises the rest of the  *)
(* firmware (hardware_config.h's trigger lock, and the comments on the     *)
(* bulb paths of MULTI BOX and Timelapse): the lock is taken before the    *)
(* first channel is pressed and kept for the whole exposure, the channels  *)
(* pressed at the opening are the ones held until the close, and the close *)
(* releases all of them together with the lock.                            *)
(***************************************************************************)
CONSTANT Channels

VARIABLES
  open,            \* an exposure is running
  lines,           \* channels pressed and not released
  locked           \* the trigger lock is taken

holdVars == <<open, lines, locked>>

Init == open = FALSE /\ lines = {} /\ locked = FALSE

\* A channel whose press fails (a BLE camera out of reach) is not held.
Open ==
  /\ open = FALSE
  /\ open' = TRUE
  /\ lines' \in SUBSET Channels
  /\ locked' = TRUE

Close ==
  /\ open = TRUE
  /\ open' = FALSE
  /\ lines' = {}
  /\ locked' = FALSE

Next == Open \/ Close

Spec == Init /\ [][Next]_holdVars
=============================================================================
