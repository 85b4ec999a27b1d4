---------------------------- MODULE CameraRemote ----------------------------
(***************************************************************************)
(* The third shooting channel: a camera driven over Bluetooth.  TRIGGER    *)
(* MODE chooses a brand, pairs a camera and fires single shots; the modes  *)
(* that expose by bulb press the camera's shutter, hold it, and release    *)
(* it.  RemoteManager routes every command to the driver of the brand in   *)
(* use, and a driver reconnects on demand.                                 *)
(*                                                                         *)
(* A driver's calls block the loop, so each is one step here, and what the *)
(* radio makes of it is a set of outcomes.  The BLE task runs beside the   *)
(* loop: its disconnect callback may come at any time, between the check   *)
(* that the link is up and the write that relies on it included, and it    *)
(* comes some time AFTER the driver asks for a disconnect, never within    *)
(* the asking.                                                             *)
(*                                                                         *)
(* A camera's dial is on Bulb while a mode holds its shutter, and on a     *)
(* timed exposure in TRIGGER MODE: a single shot opens nothing for good.   *)
(* A Sony body ends a bulb exposure on the next full press it receives;    *)
(* the other three end it on the release.                                  *)
(***************************************************************************)
EXTENDS Naturals, FiniteSets

CONSTANTS
  Cameras,         \* the bodies in radio range
  MakeOf,          \* the brand of each
  NoCamera         \* no identity stored

Brands == {"Sony", "Canon", "Nikon", "Fuji"}

\* An identity is none of the words for a link without a camera.
ASSUME CameraAssumption ==
  /\ MakeOf \in [Cameras -> Brands]
  /\ Cameras \cap {NoCamera, "down", "closing"} = {}

VARIABLES
  mode,            \* the mode that runs: "trigger", or "bulb" for one that holds a shutter
  enabled,         \* triggerMode.config.bluetoothEnabled
  brand,           \* s_brand, "None" for plain GPIO
  saved,           \* the identity each driver keeps in NVS
  link,            \* each driver's client: "down", "closing" (asked to
                   \* disconnect, callback to come: connected without a handle)
                   \* or the camera its writes reach, a handle in place
  pairReq,         \* btPairRequested
  bulb,            \* an exposure is in progress
  held,            \* bulbFiredBLE: the press reached the camera
  panicked,        \* "no", or why the firmware wrote through a null handle
  exposing,        \* the cameras whose shutter stands open
  lost,            \* history: why this exposure may be out of step with its
                   \* camera: "no" reason; a command lost on the "air" (or taken
                   \* by another body); a shutter "left" open when it began, or
                   \* closed by "hand" while it ran
  strayed          \* history: a pairing failed, or ran over a live connection,
                   \* and the handle it left is still in place

remoteVars == <<mode, enabled, brand, saved, link, pairReq, bulb, held, panicked, exposing,
                lost, strayed>>

RemoteTypeOK ==
  /\ mode \in {"trigger", "bulb"}
  /\ enabled \in BOOLEAN
  /\ brand \in Brands \cup {"None"}
  /\ saved \in [Brands -> Cameras \cup {NoCamera}]
  /\ link \in [Brands -> Cameras \cup {"down", "closing"}]
  /\ pairReq \in BOOLEAN
  /\ bulb \in BOOLEAN
  /\ held \in BOOLEAN
  /\ panicked \in {"no", "race", "blind"}
  /\ exposing \subseteq Cameras
  /\ lost \in {"no", "air", "left", "hand"}
  /\ strayed \in BOOLEAN

RemoteInit ==
  /\ mode = "trigger"
  /\ enabled \in BOOLEAN
  /\ brand = "None"
  /\ saved = [b \in Brands |-> NoCamera]
  /\ link = [b \in Brands |-> "down"]
  /\ pairReq = FALSE
  /\ bulb = FALSE
  /\ held = FALSE
  /\ panicked = "no"
  /\ exposing = {}
  /\ lost = "no"
  /\ strayed = FALSE

-----------------------------------------------------------------------------
(* Drivers.  A call takes a world (the links and the open shutters) to the *)
(* set of worlds it may leave, each with what the caller is told, whether  *)
(* a command was lost without a word, and whether the firmware crashed.    *)

World == [link |-> link, exposing |-> exposing]

Outcome(w, ok) == [w |-> w, ok |-> ok, lost |-> ~ok, panic |-> "no"]

Linked(w, b, to) == [w EXCEPT !.link[b] = to]

\* isConnected(): the client is up and the command handle is set.
IsConnected(w, b) == w.link[b] \in Cameras

\* disconnect(): the handle goes at once, the connection when the stack says so.
Disconnected(l, b) ==
  IF l[b] = "down" THEN l ELSE [l EXCEPT ![b] = "closing"]

\* What an attempt to connect comes to: the stack refuses, and what there was
\* stays; it connects, and security, a service, a characteristic or the
\* handshake fails, so the driver asks for a disconnect; or the handle is there.
\* A failure clears no handle, unless it was the handle that was not found: one
\* of an earlier connection goes on writing until the callback, to the body it
\* came from or to the one just connected.
Attempts(w, b, cam) ==
  LET kept == IF IsConnected(w, b) THEN {w.link[b], cam} ELSE {} IN
  { Outcome(w, FALSE), Outcome(Linked(w, b, cam), TRUE) }
    \cup { Outcome(Linked(w, b, to), FALSE) : to \in kept \cup {"closing"} }

\* SonyBLE::connectTo() takes any live client for a connected one.
SonyConnectTo(w, cam) ==
  IF w.link["Sony"] # "down" THEN {Outcome(w, TRUE)} ELSE Attempts(w, "Sony", cam)

CanonConnectTo(w, cam) == Attempts(w, "Canon", cam)
NikonConnectTo(w, cam) == Attempts(w, "Nikon", cam)
FujiConnectTo(w, cam) == Attempts(w, "Fuji", cam)

ConnectTo(w, b, cam) ==
  CASE b = "Sony"  -> SonyConnectTo(w, cam)
    [] b = "Canon" -> CanonConnectTo(w, cam)
    [] b = "Nikon" -> NikonConnectTo(w, cam)
    [] b = "Fuji"  -> FujiConnectTo(w, cam)

\* ensureConnected(): reconnect by the saved identity, if there is one.
EnsureConnected(w, b) ==
  IF IsConnected(w, b) THEN {Outcome(w, TRUE)}
  ELSE IF saved[b] = NoCamera THEN {Outcome(w, FALSE)}
  ELSE ConnectTo(w, b, saved[b])

\* The writes of one command.  They land, or are lost in silence (the stack
\* reports nothing), or the disconnect callback clears the handle between
\* two of them; a driver that took a closing client for a connected one has
\* no handle to begin with.
Written(w, b, after) ==
  IF ~IsConnected(w, b) THEN {[Outcome(w, TRUE) EXCEPT !.panic = "blind", !.lost = TRUE]}
  ELSE { Outcome([w EXCEPT !.exposing = after], TRUE),
         [Outcome(w, TRUE) EXCEPT !.lost = TRUE],
         [Outcome(Linked(w, b, "down"), TRUE) EXCEPT !.panic = "race", !.lost = TRUE] }

\* What a command does to the cameras whose shutter stands open.  A Sony full
\* press toggles a camera whose dial is on Bulb; a bare "shutter up" is ignored.
After(command, open, cam) ==
  CASE command = "open"  -> open \cup {cam}
    [] command = "close" -> open \ {cam}
    [] command = "press" -> IF mode # "bulb" \/ cam \in open THEN open \ {cam} ELSE open \cup {cam}
    [] command = "up"    -> open

\* A command: make sure of the link, then write it to the camera linked.
Sent(w, b, command) ==
  UNION { IF r.ok THEN Written(r.w, b, After(command, r.w.exposing, r.w.link[b])) ELSE {r} :
            r \in EnsureConnected(w, b) }

SonyPress(w) == Sent(w, "Sony", "press")
CanonPress(w) == Sent(w, "Canon", "open")
NikonPress(w) == Sent(w, "Nikon", "open")
FujiPress(w) == Sent(w, "Fuji", "open")

\* Mutant: a bare "shutter up", which a Sony body ignores.
SonyReleaseBare(w) == Sent(w, "Sony", "up")

\* A Sony release completes the press and sends a closing one; the others
\* send the release twice.
SonyRelease(w) == Sent(w, "Sony", "press")

CanonRelease(w) == Sent(w, "Canon", "close")
NikonRelease(w) == Sent(w, "Nikon", "close")
FujiRelease(w) == Sent(w, "Fuji", "close")

\* Single shots: Sony's full press; press and release of the other three.
SonyTrigger(w) == Sent(w, "Sony", "press")
CanonTrigger(w) == Sent(w, "Canon", "close")
NikonTrigger(w) == Sent(w, "Nikon", "close")
FujiTrigger(w) == Sent(w, "Fuji", "close")

-----------------------------------------------------------------------------
(* RemoteManager: the driver of the brand in use, and the camera it needs. *)

Refused(w) == {Outcome(w, FALSE)}

\* No driver chosen, or no camera paired with it.
Unpaired == brand = "None" \/ saved[brand] = NoCamera

PressShutter(w) ==
  IF Unpaired THEN Refused(w) ELSE
  CASE brand = "Sony"  -> SonyPress(w)
    [] brand = "Canon" -> CanonPress(w)
    [] brand = "Nikon" -> NikonPress(w)
    [] brand = "Fuji"  -> FujiPress(w)

ReleaseShutter(w) ==
  CASE brand = "None"  -> Refused(w)
    [] brand = "Sony"  -> SonyRelease(w)
    [] brand = "Canon" -> CanonRelease(w)
    [] brand = "Nikon" -> NikonRelease(w)
    [] brand = "Fuji"  -> FujiRelease(w)

TriggerPhoto(w) ==
  IF Unpaired THEN Refused(w) ELSE
  CASE brand = "Sony"  -> SonyTrigger(w)
    [] brand = "Canon" -> CanonTrigger(w)
    [] brand = "Nikon" -> NikonTrigger(w)
    [] brand = "Fuji"  -> FujiTrigger(w)

-----------------------------------------------------------------------------
(* TRIGGER MODE's gates for the modes that hold a shutter.                 *)

PressBluetoothShutterIfEnabled(w) ==
  IF ~enabled THEN Refused(w) ELSE PressShutter(w)

\* A release that did not land is tried again as a full press.
ReleaseBluetoothShutterIfEnabled(w) ==
  IF ~enabled \/ brand = "None" THEN Refused(w)
  ELSE UNION { IF r.ok THEN {r} ELSE TriggerPhoto(r.w) : r \in ReleaseShutter(w) }

\* The loop goes on with what the call left behind.
Take(r) ==
  /\ link' = r.w.link
  /\ exposing' = r.w.exposing
  /\ panicked' = r.panic

Alive == panicked = "no"

\* The handle that strayed is gone once it is cleared; a new one goes to `saved'.
Stray == strayed' = (strayed /\ brand' # "None" /\ link'[brand'] \in Cameras)

\* openBulb(): the wires first, then the camera, whatever its shutter does.
OpenBulb ==
  /\ Alive /\ mode = "bulb" /\ ~bulb
  /\ bulb' = TRUE
  /\ \E r \in PressBluetoothShutterIfEnabled(World) :
       /\ Take(r)
       /\ held' = r.ok
       /\ lost' = IF exposing # {} THEN "left"
                  ELSE IF r.ok /\ (r.lost \/ r.w.link[brand] # saved[brand]) THEN "air"
                  ELSE "no"
  /\ UNCHANGED <<mode, enabled, brand, saved, pairReq>>
  /\ Stray

\* closeBulb(): only a press that was reported sent is released.
CloseBulb ==
  /\ Alive /\ bulb
  /\ bulb' = FALSE
  /\ held' = FALSE
  /\ IF held
     THEN \E r \in ReleaseBluetoothShutterIfEnabled(World) :
            /\ Take(r)
            /\ lost' = IF r.lost THEN "air" ELSE lost
     ELSE UNCHANGED <<link, exposing, panicked, lost>>
  /\ UNCHANGED <<mode, enabled, brand, saved, pairReq>>
  /\ Stray

-----------------------------------------------------------------------------
(* TRIGGER MODE.  A pairing asked for runs at the start of the next lap,   *)
(* before any other key is read.                                           *)

Browsing == Alive /\ mode = "trigger" /\ ~pairReq

ToggleBluetooth ==
  /\ Browsing
  /\ enabled' = ~enabled
  /\ link' = IF enabled /\ brand # "None" THEN Disconnected(link, brand) ELSE link
  /\ UNCHANGED <<mode, brand, saved, pairReq, bulb, held, panicked, exposing, lost>>
  /\ Stray

\* The driver row steps through the brands and back to plain GPIO.
Order == <<"None", "Sony", "Canon", "Nikon", "Fuji">>
Place == CHOOSE i \in 1..5 : Order[i] = brand

NextBrand == Order[(Place % 5) + 1]

\* Mutant: the old driver keeps its link.
SetBrandKeepsLink ==
  /\ Browsing
  /\ brand' = NextBrand
  /\ UNCHANGED <<mode, enabled, saved, link, pairReq, bulb, held, panicked, exposing, lost>>
  /\ Stray

\* setBrand(): the old driver is disconnected before the new one takes over.
SetBrand ==
  /\ Browsing
  /\ link' = IF brand = "None" THEN link ELSE Disconnected(link, brand)
  /\ brand' = NextBrand
  /\ UNCHANGED <<mode, enabled, saved, pairReq, bulb, held, panicked, exposing, lost>>
  /\ Stray

RequestPair ==
  /\ Browsing /\ brand # "None"
  /\ pairReq' = TRUE
  /\ UNCHANGED <<mode, enabled, brand, saved, link, bulb, held, panicked, exposing, lost, strayed>>

\* pair(): a scan that may find a camera of the brand, a connection to it,
\* and its identity saved.  Canon asks for a disconnect and half a second later
\* connects once more; the callback may not have cleared the handle by then.
Pairings(cam) ==
  IF brand # "Canon" THEN ConnectTo(World, brand, cam)
  ELSE UNION { IF r.ok
               THEN UNION { CanonConnectTo(Linked(r.w, "Canon", now), cam) : now \in {cam, "down"} }
               ELSE {r} : r \in CanonConnectTo(World, cam) }

DoBtPair ==
  /\ Alive /\ pairReq
  /\ pairReq' = FALSE
  /\ \/ UNCHANGED <<saved, link, strayed>>                   \* no camera found
     \/ \E cam \in {c \in Cameras : MakeOf[c] = brand} :
          \E r \in Pairings(cam) :
            /\ link' = r.w.link
            /\ saved' = IF r.ok THEN [saved EXCEPT ![brand] = cam] ELSE saved
            /\ strayed' = /\ link'[brand] \in Cameras
                          /\ ~r.ok \/ (brand = "Sony" /\ link[brand] # "down")
  /\ UNCHANGED <<mode, enabled, brand, bulb, held, panicked, exposing, lost>>

\* The test shot of the Bluetooth screen, whether the channel is on or off.
TestShot ==
  /\ Browsing /\ brand # "None"
  /\ \E r \in TriggerPhoto(World) : Take(r)
  /\ UNCHANGED <<mode, enabled, brand, saved, pairReq, bulb, held, lost>>
  /\ Stray

\* triggerBoth(): the shot of every mode, once the wires have pulsed.
FireBluetoothIfEnabled ==
  /\ Browsing /\ enabled /\ brand # "None"
  /\ \E r \in TriggerPhoto(World) : Take(r)
  /\ UNCHANGED <<mode, enabled, brand, saved, pairReq, bulb, held, lost>>
  /\ Stray

ForgetCamera ==
  /\ Browsing /\ brand # "None"
  /\ link' = Disconnected(link, brand)
  /\ saved' = [saved EXCEPT ![brand] = NoCamera]
  /\ UNCHANGED <<mode, enabled, brand, pairReq, bulb, held, panicked, exposing, lost>>
  /\ Stray

-----------------------------------------------------------------------------
(* The modes that hold, the stack, the crash and the photographer.         *)

\* Every mode closes its exposure before it leaves.
SwitchMode ==
  /\ Alive /\ ~bulb /\ ~pairReq
  /\ mode' = IF mode = "bulb" THEN "trigger" ELSE "bulb"
  /\ UNCHANGED <<enabled, brand, saved, link, pairReq, bulb, held, panicked, exposing, lost, strayed>>

\* onDisconnect(): the answer to a disconnect, or a camera out of range.
OnDisconnect(b) ==
  /\ Alive /\ link[b] # "down"
  /\ link' = [link EXCEPT ![b] = "down"]
  /\ UNCHANGED <<mode, enabled, brand, saved, pairReq, bulb, held, panicked, exposing, lost>>
  /\ Stray

\* A write through a null handle resets the chip: what is in NVS survives.
Reset ==
  /\ ~Alive
  /\ mode' = "trigger"
  /\ link' = [b \in Brands |-> "down"]
  /\ bulb' = FALSE
  /\ held' = FALSE
  /\ panicked' = "no"
  /\ strayed' = FALSE
  /\ UNCHANGED <<enabled, brand, saved, pairReq, exposing, lost>>

\* The photographer closes the shutter at the camera itself, at any time.
CloseByHand ==
  /\ Alive /\ exposing # {}
  /\ exposing' = {}
  /\ lost' = IF bulb THEN "hand" ELSE "no"
  /\ UNCHANGED <<mode, enabled, brand, saved, link, pairReq, bulb, held, panicked, strayed>>

RemoteNext ==
  \/ OpenBulb
  \/ CloseBulb
  \/ ToggleBluetooth
  \/ SetBrand
  \/ RequestPair
  \/ DoBtPair
  \/ TestShot
  \/ FireBluetoothIfEnabled
  \/ ForgetCamera
  \/ SwitchMode
  \/ Reset
  \/ CloseByHand
  \/ \E b \in Brands : OnDisconnect(b)

RemoteSpec == RemoteInit /\ [][RemoteNext]_remoteVars

-----------------------------------------------------------------------------
(* Properties.                                                             *)

\* One radio, one camera: only the driver of the brand in use has a command
\* handle, and its writes reach the camera in NVS -- a link made on demand leads
\* nowhere else, whatever brands, cameras and links came before -- unless a
\* pairing failed or Sony's ran over a live connection, and then only until that
\* handle is cleared.  A command goes through a handle that was never there in
\* Sony's driver alone.
LinkIsTheChosenOne ==
  /\ \A b \in Brands : link[b] \in Cameras => b = brand /\ (strayed \/ link[b] = saved[b])
  /\ panicked = "blind" => brand = "Sony"

\* An exposure that begins with the camera's shutter closed keeps in step with
\* it: unless one of its commands was lost or the photographer closed the shutter
\* by hand, it stands open exactly while the firmware believes it holds it --
\* across a link that drops during the exposure and comes back for the release,
\* and a release that is tried again as a full press.
CameraFollowsBulb ==
  lost = "no" => (exposing # {} <=> held)

=============================================================================
