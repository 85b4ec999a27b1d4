---------------------------- MODULE MCModeScreens ----------------------------
(* A small instance: short ranges, a three-month calendar, two networks.   *)
EXTENDS ModeScreens

CONSTANT None

MCPresets     == <<2, 3, 4>>
MCDimmerSteps == <<0, 5>>
MCDaysTable   == <<4, 2, 3>>

MCToday ==
  {[year |-> 2000, month |-> 2, day |-> 3, hour |-> 0, minute |-> 1],
   [year |-> 2001, month |-> 1, day |-> 4, hour |-> 1, minute |-> 0]}

MCTags     == {"v0", "v1", "v2", "v3"}
MCNetworks == {"a", "b"}

Heard(ssid, o) == [ssid |-> ssid, open |-> o]
MCAir == {<<>>, <<Heard("a", FALSE), Heard("", FALSE), Heard("a", FALSE), Heard("b", TRUE)>>,
          <<Heard("b", FALSE), Heard("a", FALSE)>>}

Listed(tag, f) == [tag |-> tag, firmware |-> f]
MCCatalogs == {<<Listed("v1", TRUE)>>, <<Listed("v3", FALSE)>>,
               <<Listed("v3", FALSE), Listed("v2", TRUE), Listed("v1", TRUE), Listed("v0", TRUE)>>}

MCStored == [
  timelapse  |-> {[interval |-> i, total |-> t, bulb |-> b, exposure |-> 1, settle |-> 0, fps |-> 1] :
                    i \in {1, 8}, t \in {0, 2}, b \in BOOLEAN},
  auto_shoot |-> {[filter |-> TRUE, min |-> 1, max |-> 3, burst |-> 1, cooldown |-> 0, retrigger |-> 2]},
  trigger    |-> {[trigger |-> TRUE, remote |-> FALSE, beep |-> TRUE, bluetooth |-> FALSE]},
  settings   |-> {[speaker |-> TRUE, brightness |-> 15, dimmer |-> 1, theme |-> 0, rotation |-> 3]},
  ota        |-> {[none |-> TRUE]},
  sleep_week |-> {[days |-> {0}, sleep |-> [hour |-> 0, minute |-> 0],
                   wake |-> [hour |-> 1, minute |-> 0], mode |-> 2, on |-> FALSE]},
  develop    |-> {[single |-> FALSE, interval |-> 2, minBulb |-> 1, maxBulb |-> 2, rest |-> 1,
                   delay |-> 0, detect |-> 1, filter |-> FALSE, near |-> 0, far |-> 2]}]

=============================================================================
