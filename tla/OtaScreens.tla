----------------------------- MODULE OtaScreens ------------------------------
(***************************************************************************)
(* OTA UPDATE: pick a network, give its password, pick a release, confirm, *)
(* flash.  Each screen is a case of one loop, with a cursor of its own.    *)
(* What flashing does to the two firmware partitions is module System;     *)
(* here it puts the image it downloads into `boots' or fails.              *)
(***************************************************************************)
EXTENDS ModeScreen, Sequences

CONSTANTS
  Networks,        \* SSIDs; "" is that of a hidden network
  Air,             \* what a scan may find: sequences of [ssid, open]
  Catalogs,        \* what GitHub may list: sequences of [tag, firmware]
  MaxWifi,         \* OTA_MAX_WIFI
  MaxReleases,     \* OTA_MAX_RELEASES
  WifiRows,        \* 6
  ReleaseRows,     \* 5
  Letters,         \* the keys of the keyboard's grid, 48
  Tags,            \* the names of releases
  NoImage          \* not a tag

ASSUME OtaScreensAssumption ==
  /\ "" \notin Networks /\ NoImage \notin Tags
  /\ Air \subseteq Seq([ssid : Networks \cup {""}, open : BOOLEAN])
  /\ Catalogs \subseteq Seq([tag : Tags, firmware : BOOLEAN])
  /\ MaxWifi \in Nat /\ MaxReleases \in Nat
  /\ WifiRows \in Nat \ {0} /\ ReleaseRows \in Nat \ {0} /\ Letters \in Nat \ {0}

VARIABLES
  wifi, sel,       \* s_wifi, s_sel
  rel, relSel,     \* s_rel, s_relSel
  key,             \* s_kbIndex
  pwd,             \* s_pwd: "empty", or "right" or "wrong" for the chosen network
  creds,           \* the networks whose password is in flash, and what it is
  agreed,          \* the tag on the screen when START was pressed
  boots            \* the image written since power-up, and booted next

listVars == <<wifi, sel, rel, relSel>>
otaVars  == <<wifi, sel, rel, relSel, key, pwd, creds, agreed, boots>>

OtaInit ==
  /\ wifi = <<>> /\ sel = 0 /\ rel = <<>> /\ relSel = 0
  /\ key = 4 /\ pwd = "empty"
  /\ creds = [n \in Networks |-> "none"]
  /\ agreed = NoImage /\ boots = NoImage

-----------------------------------------------------------------------------
(* The two lists.                                                          *)

\* The run through the numbers in S from the least, as far as there is room for
\* `max': the set of that one sequence.
InOrder(max, S) ==
  {p \in [1 .. AtMost(max, Cardinality(S)) -> S] :
     \A k \in DOMAIN p : \A i \in S : i < p[k] <=> \E j \in 1 .. k - 1 : p[j] = i}

\* The named networks of a scan, each once: where it is heard first.
Named(air) ==
  {i \in DOMAIN air : air[i].ssid # "" /\ \A j \in 1 .. i - 1 : air[j].ssid # air[i].ssid}

Known(ssid) == creds[ssid] # "none"

\* scanNetworks()
Scanned(air) ==
  {[k \in DOMAIN p |->
      [ssid |-> air[p[k]].ssid, open |-> air[p[k]].open, saved |-> Known(air[p[k]].ssid)]] :
     p \in InOrder(MaxWifi, Named(air))}

\* Mutant of FirmwareOf: the search for the asset runs on into the releases that
\* follow.
FirmwareFrom(catalog, i) ==
  LET later == {j \in i .. Len(catalog) : catalog[j].firmware}
  IN  IF later = {} THEN NoImage
      ELSE catalog[CHOOSE j \in later : \A k \in later : j <= k].tag

\* The url of a release's firmware asset, which is the image of that release.
FirmwareOf(catalog, i) == IF catalog[i].firmware THEN catalog[i].tag ELSE NoImage

Usable(catalog) == {i \in DOMAIN catalog : FirmwareOf(catalog, i) # NoImage}

\* fetchReleases(): the releases that have one.
Fetched(catalog) ==
  {[k \in DOMAIN p |-> [tag |-> catalog[p[k]].tag, url |-> FirmwareOf(catalog, p[k])]] :
     p \in InOrder(MaxReleases, Usable(catalog))}

-----------------------------------------------------------------------------
(* The screens.                                                            *)

\* The last entry of the list of networks is BACK, which is red; so is the key.
WifiFrame     == FrameOf(Drawn(WifiRows, sel, Len(wifi) + 1), sel, sel = Len(wifi))
PasswordFrame == FrameOf(0 .. 3 + Letters, key, TRUE)
ReleaseFrame  == FrameOf(Drawn(ReleaseRows, relSel, Len(rel)), relSel, FALSE)

OtaFrame ==
  CASE page = "WIFI_LIST"    -> WifiFrame
    [] page = "PASSWORD"     -> PasswordFrame
    [] page = "RELEASE_LIST" -> ReleaseFrame
    [] OTHER                 -> FrameOf({}, 0, FALSE)

OtaCursor ==
  CASE page = "WIFI_LIST"    -> {sel}
    [] page = "PASSWORD"     -> {key}
    [] page = "RELEASE_LIST" -> {relSel}
    [] OTHER                 -> {}

At(p) == Open("ota") /\ page = p

Show(p) == page' = p /\ UNCHANGED <<app, open, row, editing, cfg, saved>>

ExitOta == Leave("ota") /\ UNCHANGED saved

EnterOta ==
  /\ app = "ota" /\ ~open
  /\ open' = TRUE /\ page' = "WIFI_SCAN"
  /\ sel' = 0 /\ relSel' = 0 /\ key' = 4 /\ pwd' = "empty"
  /\ UNCHANGED <<app, row, editing, cfg, saved, wifi, rel, creds, agreed, boots>>

ScanWifi ==
  /\ At("WIFI_SCAN")
  /\ \E air \in Air : wifi' \in Scanned(air)
  /\ sel' = 0
  /\ Show("WIFI_LIST")
  /\ UNCHANGED <<rel, relSel, key, pwd, creds, agreed, boots>>

TurnWifi ==
  /\ At("WIFI_LIST")
  /\ \E d \in {-1, 1} : sel' = Within(0, Len(wifi), sel + d)
  /\ Show("WIFI_LIST")
  /\ UNCHANGED <<wifi, rel, relSel, key, pwd, creds, agreed, boots>>

\* A network that is open or has a saved password never shows the keyboard.
PressWifi ==
  /\ At("WIFI_LIST") /\ sel < Len(wifi)
  /\ LET chosen == wifi[sel + 1]
         known  == chosen.saved /\ Known(chosen.ssid)
     IN  /\ pwd' = IF ~chosen.open /\ known THEN creds[chosen.ssid] ELSE "empty"
         /\ key' = IF chosen.open \/ known THEN key ELSE 4
         /\ Show(IF chosen.open \/ known THEN "CONNECTING" ELSE "PASSWORD")
  /\ UNCHANGED <<listVars, creds, agreed, boots>>

TurnKeyboard ==
  /\ At("PASSWORD")
  /\ \E d \in {-1, 1} : key' = Around(0, 3 + Letters, key + d)
  /\ Show("PASSWORD")
  /\ UNCHANGED <<listVars, pwd, creds, agreed, boots>>

\* CAP changes the letters; a letter or DEL leaves another password.
PressKey ==
  /\ At("PASSWORD")
  /\ \/ key = 1 /\ pwd' = pwd
     \/ key = 2 /\ pwd' \in (IF pwd = "empty" THEN {"empty"} ELSE {"empty", "right", "wrong"})
     \/ key > 3 /\ pwd' \in {"right", "wrong"}
  /\ Show("PASSWORD")
  /\ UNCHANGED <<listVars, key, creds, agreed, boots>>

KeyboardBack ==
  /\ At("PASSWORD") /\ key = 3
  /\ pwd' = "empty"
  /\ Show("WIFI_LIST")
  /\ UNCHANGED <<listVars, key, creds, agreed, boots>>

\* OK, or a long press on any key.
KeyboardDone ==
  /\ At("PASSWORD")
  /\ Show("CONNECTING")
  /\ UNCHANGED otaVars

\* Mutant of Connected: the password is saved when it is typed.
ConnectedOrNot(joined) ==
  creds' = IF wifi[sel + 1].open THEN creds ELSE [creds EXCEPT ![wifi[sel + 1].ssid] = pwd]

\* Only a password that connected is saved: connect() returned true.
Connected(joined) ==
  creds' = IF ~joined \/ wifi[sel + 1].open THEN creds
           ELSE [creds EXCEPT ![wifi[sel + 1].ssid] = pwd]

Connect ==
  /\ At("CONNECTING")
  /\ \E joined \in BOOLEAN :
       /\ joined => wifi[sel + 1].open \/ pwd = "right"
       /\ Connected(joined)
       /\ Show(IF joined THEN "FETCH_LIST" ELSE "ERROR")
  /\ UNCHANGED <<listVars, key, pwd, agreed, boots>>

\* The network may be lost and GitHub may refuse: no releases.
FetchReleases ==
  /\ At("FETCH_LIST")
  /\ \E catalog \in Catalogs \cup {<<>>} : rel' \in Fetched(catalog)
  /\ relSel' = IF rel' # <<>> THEN 0 ELSE relSel
  /\ Show(IF rel' # <<>> THEN "RELEASE_LIST" ELSE "ERROR")
  /\ UNCHANGED <<wifi, sel, key, pwd, creds, agreed, boots>>

TurnReleases ==
  /\ At("RELEASE_LIST")
  /\ \E d \in {-1, 1} : relSel' = Within(0, Len(rel) - 1, relSel + d)
  /\ Show("RELEASE_LIST")
  /\ UNCHANGED <<wifi, sel, rel, key, pwd, creds, agreed, boots>>

PressRelease == At("RELEASE_LIST") /\ Show("CONFIRM") /\ UNCHANGED otaVars

HoldConfirm == At("CONFIRM") /\ Show("RELEASE_LIST") /\ UNCHANGED otaVars

PressStart ==
  /\ At("CONFIRM")
  /\ agreed' = rel[relSel + 1].tag
  /\ Show("FLASHING")
  /\ UNCHANGED <<listVars, key, pwd, creds, boots>>

\* flashFromUrl() returns true once the boot partition has been switched.
Flash ==
  /\ At("FLASHING")
  /\ \/ boots' = rel[relSel + 1].url /\ Show("DONE")
     \/ Show("ERROR") /\ UNCHANGED boots
  /\ UNCHANGED <<listVars, key, pwd, creds, agreed>>

\* The device restarts with what it boots, and its RAM is gone.
Reboot ==
  /\ At("DONE")
  /\ ExitOta
  /\ wifi' = <<>> /\ sel' = 0 /\ rel' = <<>> /\ relSel' = 0
  /\ key' = 4 /\ pwd' = "empty"
  /\ agreed' = NoImage /\ boots' = NoImage
  /\ UNCHANGED creds

Retry == At("ERROR") /\ Show("WIFI_SCAN") /\ UNCHANGED otaVars

\* A long press on these screens leaves the mode, as BACK does.
LeaveOta ==
  /\ At("WIFI_LIST") \/ At("RELEASE_LIST") \/ At("ERROR")
  /\ ExitOta
  /\ UNCHANGED otaVars

OtaNext ==
  \/ EnterOta
  \/ ScanWifi
  \/ TurnWifi
  \/ PressWifi
  \/ TurnKeyboard
  \/ PressKey
  \/ KeyboardBack
  \/ KeyboardDone
  \/ Connect
  \/ FetchReleases
  \/ TurnReleases
  \/ PressRelease
  \/ HoldConfirm
  \/ PressStart
  \/ Flash
  \/ Reboot
  \/ Retry
  \/ LeaveOta

\* What is flashed is the release whose name was on the screen when START was
\* pressed, and "UPDATE OK" is said of nothing else.
FlashedIsConfirmed ==
  /\ boots # NoImage => boots = agreed
  /\ page = "DONE" => boots = agreed

\* A saved password is never asked for again, so a wrong one would lock its
\* network out for good: every password in flash has connected once.
SavedPasswordsConnected == \A n \in Networks : creds[n] # "wrong"

=============================================================================
