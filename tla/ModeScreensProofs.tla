-------------------------- MODULE ModeScreensProofs --------------------------
(***************************************************************************)
(* Proofs about the screens of the seven modes, for every list, range,     *)
(* calendar, set of networks and catalog of releases that the assumptions  *)
(* of their modules allow.                                                 *)
(*                                                                         *)
(* One invariant serves all seven: which rows of which pages the cursor    *)
(* and an edit can be on, that outside an edit flash holds what is in      *)
(* force, and what the fields of a mode owe each other.                    *)
(***************************************************************************)
EXTENDS ModeScreens, FiniteSetTheorems, TLAPS

-----------------------------------------------------------------------------
(* The invariant: where the cursor and an edit can be, mode by mode.       *)

TimelapseInv ==
  app = "timelapse" =>
    /\ cfg \in TimelapseConfigs /\ saved \in TimelapseConfigs
    /\ page \in {"MAIN", "ADVANCE"} /\ row \in 0 .. 4
    /\ editing => row \in (IF page = "MAIN" THEN 0 .. 3 ELSE {0, 1, 3, 4})

AutoShootInv ==
  app = "auto_shoot" =>
    /\ cfg \in AutoShootConfigs /\ saved \in AutoShootConfigs
    /\ page \in {"MAIN", "ADVANCE"} /\ row \in (IF page = "MAIN" THEN 0 .. 4 ELSE 0 .. 3)
    /\ editing => row \in (IF page = "MAIN" THEN 0 .. 2 ELSE 1 .. 3)

TriggerInv ==
  app = "trigger" =>
    /\ cfg \in TriggerConfigs /\ saved \in TriggerConfigs
    /\ page \in {"MAIN", "BLUETOOTH"} /\ row \in 0 .. 4 /\ ~editing

SettingInv ==
  app = "settings" =>
    /\ cfg \in SettingConfigs /\ saved \in SettingConfigs
    /\ page \in {"MAIN", "DATETIME", "INFO"}
    /\ page = "MAIN" => row \in 0 .. 6 /\ (editing => row \in 2 .. 5)
    /\ page = "DATETIME" => row \in 0 .. 4
    /\ page = "INFO" => ~editing
    /\ open => cfg.speaker = saved.speaker /\ rtc = NotWritten

SleepWeekInv ==
  app = "sleep_week" =>
    /\ cfg \in SleepWeekConfigs /\ saved = cfg
    /\ page = "MAIN" /\ row \in 0 .. SwitchRow
    /\ editing => row \in {SleepRow, WakeRow}

DevelopInv ==
  app = "develop" =>
    /\ cfg \in DevelopConfigs /\ saved \in DevelopConfigs
    /\ page \in {"MAIN", "ADVANCE", "SENSOR", "TRIGOUT"} /\ row \in 0 .. RowCount(page) - 1
    /\ editing => page \in {"ADVANCE", "SENSOR"}

OtaPages == {"MAIN", "WIFI_SCAN", "WIFI_LIST", "PASSWORD", "CONNECTING", "FETCH_LIST", "RELEASE_LIST",
             "CONFIRM", "FLASHING", "DONE", "ERROR"}

WifiEntries == [ssid : Networks, open : BOOLEAN, saved : BOOLEAN]

\* What the lists hold, and where their cursors are while a screen needs them.
OtaInv ==
  app = "ota" =>
    /\ page \in OtaPages /\ ~editing /\ saved = cfg
    /\ wifi \in Seq(WifiEntries) /\ sel \in 0 .. Len(wifi)
    /\ page \in {"PASSWORD", "CONNECTING"} => sel < Len(wifi)
    /\ rel \in Seq([tag : Tags, url : Tags]) /\ \A i \in DOMAIN rel : rel[i].url = rel[i].tag
    /\ page \in {"RELEASE_LIST", "CONFIRM", "FLASHING"} => relSel \in 0 .. Len(rel) - 1
    /\ page = "FLASHING" => agreed = rel[relSel + 1].tag
    /\ key \in 0 .. 3 + Letters /\ pwd \in {"empty", "right", "wrong"}

\* An image is written on the way to DONE only, and it is the one agreed on;
\* only passwords that connected are in flash.
FlashInv ==
  /\ boots # NoImage => page = "DONE"
  /\ page = "DONE" => app = "ota" /\ boots = agreed
  /\ creds \in [Networks -> {"none", "empty", "right"}]

\* The clock's copy is a time, and a date that exists unless it is being turned
\* or was when the battery ran flat; what was written to the chip exists.
ClockInv ==
  /\ dateTime \in Times
  /\ app = "settings" /\ open /\ ~(page = "DATETIME" /\ editing) => IsDate(dateTime)
  /\ app # "settings" => IsDate(dateTime)
  /\ rtc # NotWritten => IsDate(rtc)

\* The Bluetooth screen's notice is about the driver beside it, and a pairing
\* that was asked for has a driver.
NoticeInv ==
  /\ brand \in 0 .. Brands
  /\ asked => brand # 0
  /\ NoticeMatchesStatus

\* Outside an edit flash holds what is in force.
SavedInv == open /\ ~editing /\ app # "settings" => saved = cfg

\* A mode that is left, and one that is entered, is on its first row.
ShellInv ==
  /\ app \in Apps /\ open \in BOOLEAN /\ editing \in BOOLEAN
  /\ ~open => page = "MAIN" /\ row = 0 /\ ~editing

IInv ==
  /\ ShellInv
  /\ TimelapseInv /\ AutoShootInv /\ TriggerInv /\ SettingInv /\ SleepWeekInv /\ DevelopInv
  /\ OtaInv /\ FlashInv /\ ClockInv /\ NoticeInv /\ SavedInv

\* What a step may never take from flash.
Kept ==
  /\ open' /\ ~editing' /\ app # "settings" => saved' = cfg'
  /\ ~open /\ open' => cfg' = saved
  /\ open /\ ~open' /\ (IF app = "settings" THEN rtc' # NotWritten ELSE ~editing) => saved' = cfg

-----------------------------------------------------------------------------
(* TIMELAPSE.                                                              *)

\* A value is brought into its range, and one that is in it stays.
LEMMA WithinRange ==
  ASSUME NEW low \in Int, NEW top \in Int, low <= top, NEW n \in Int
  PROVE  /\ Within(low, top, n) \in low .. top
         /\ n \in low .. top => Within(low, top, n) = n
         /\ Within(low, top, n) \notin {low, top} => Within(low, top, n) = n
BY DEF Within, AtMost, AtLeast

\* A value that runs in a circle is in its range.
LEMMA AroundRange ==
  ASSUME NEW low \in Int, NEW top \in Int, low <= top, NEW n \in Int
  PROVE  Around(low, top, n) \in low .. top
BY DEF Around

\* What the provers need of a quotient.
LEMMA DivBounds ==
  ASSUME NEW a \in Int, NEW b \in Nat \ {0}
  PROVE  /\ a \div b \in Int
         /\ b * (a \div b) <= a
         /\ a < b * (a \div b) + b
OBVIOUS

\* A configuration before validateConfig() has seen it.
RawTimelapse == [interval : Int, total : Int, bulb : BOOLEAN, exposure : Int, settle : Int, fps : DOMAIN Presets]

\* validateConfig() brings every field into its range, and changes no valid one.
LEMMA ValidatedTimelapse ==
  ASSUME NEW c \in RawTimelapse
  PROVE  /\ ValidTimelapse(c) \in TimelapseConfigs
         /\ c \in TimelapseConfigs => ValidTimelapse(c) = c
<1>0. /\ MinRest \in Int /\ MaxRest \in Int /\ MinRest <= MaxRest
      /\ ShotLimit \in Int /\ 0 <= ShotLimit
      /\ ExposureTop \in Int /\ 1 <= ExposureTop
      /\ SettleTop \in Int /\ 0 <= SettleTop
  BY TimelapseScreensAssumption
<1>1. /\ Within(MinRest, MaxRest, c.interval) \in MinRest .. MaxRest
      /\ Within(0, ShotLimit, c.total) \in 0 .. ShotLimit
      /\ Within(1, ExposureTop, c.exposure) \in 1 .. ExposureTop
      /\ Within(0, SettleTop, c.settle) \in 0 .. SettleTop
  <2>1. c.interval \in Int /\ c.total \in Int /\ c.exposure \in Int /\ c.settle \in Int
    BY DEF RawTimelapse
  <2>2. Within(MinRest, MaxRest, c.interval) \in MinRest .. MaxRest
    BY <1>0, <2>1 DEF Within, AtMost, AtLeast
  <2>3. Within(0, ShotLimit, c.total) \in 0 .. ShotLimit
    BY <1>0, <2>1 DEF Within, AtMost, AtLeast
  <2>4. Within(1, ExposureTop, c.exposure) \in 1 .. ExposureTop
    BY <1>0, <2>1 DEF Within, AtMost, AtLeast
  <2>5. Within(0, SettleTop, c.settle) \in 0 .. SettleTop
    BY <1>0, <2>1 DEF Within, AtMost, AtLeast
  <2> QED
    BY <2>2, <2>3, <2>4, <2>5
<1>2. ValidTimelapse(c) \in TimelapseConfigs
  <2> DEFINE i == Within(MinRest, MaxRest, c.interval)
             t == Within(0, ShotLimit, c.total)
             e == Within(1, ExposureTop, c.exposure)
             s == Within(0, SettleTop, c.settle)
  <2>1. ValidTimelapse(c) = [c EXCEPT !.interval = i, !.total = t, !.exposure = e, !.settle = s]
    BY DEF ValidTimelapse
  <2>2. i \in MinRest .. MaxRest /\ t \in 0 .. ShotLimit /\ e \in 1 .. ExposureTop /\ s \in 0 .. SettleTop
    BY <1>1
  <2> HIDE DEF i, t, e, s
  <2>3. [c EXCEPT !.interval = i, !.total = t, !.exposure = e, !.settle = s] \in TimelapseConfigs
    BY <2>2 DEF RawTimelapse, TimelapseConfigs
  <2> QED
    BY <2>1, <2>3
<1>3. ASSUME c \in TimelapseConfigs PROVE ValidTimelapse(c) = c
  <2>1. /\ Within(MinRest, MaxRest, c.interval) = c.interval
        /\ Within(0, ShotLimit, c.total) = c.total
        /\ Within(1, ExposureTop, c.exposure) = c.exposure
        /\ Within(0, SettleTop, c.settle) = c.settle
    BY <1>0, <1>3 DEF TimelapseConfigs, Within, AtMost, AtLeast
  <2> QED
    BY <1>3, <2>1 DEF ValidTimelapse, TimelapseConfigs
<1> QED
  BY <1>2, <1>3

\* solveInterval(): in range, and exact up to the rounding unless an end cut it.
LEMMA Solving ==
  ASSUME NEW c \in TimelapseConfigs, NEW seconds \in Int, NEW shots \in Nat \ {0}
  PROVE  /\ SolveInterval(c, seconds, shots) \in MinRest .. MaxRest
         /\ BulbTime(c) \in Nat
         /\ SolveInterval(c, seconds, shots) \notin {MinRest, MaxRest} =>
              SolveInterval(c, seconds, shots) + BulbTime(c) = (seconds * Second) \div shots
<1> USE TimelapseScreensAssumption
<1>1. BulbTime(c) \in Nat
  BY DEF BulbTime, TimelapseConfigs
<1>2. seconds * Second \in Int
  OBVIOUS
<1>3. (seconds * Second) \div shots \in Int
  BY <1>2, DivBounds
<1> DEFINE q == (seconds * Second) \div shots
           b == BulbTime(c)
<1>4. /\ Within(MinRest, MaxRest, q - b) \in MinRest .. MaxRest
      /\ Within(MinRest, MaxRest, q - b) \notin {MinRest, MaxRest} => Within(MinRest, MaxRest, q - b) = q - b
  <2> HIDE DEF q, b
  <2>1. q \in Int /\ b \in Int
    BY <1>1, <1>3 DEF q, b
  <2>2. q - b \in Int
    BY <2>1
  <2> QED
    BY <2>2, WithinRange, MinRest \in Int, MaxRest \in Int, MinRest <= MaxRest
<1>5. SolveInterval(c, seconds, shots) = Within(MinRest, MaxRest, q - b)
  BY DEF SolveInterval
<1>6. q \in Int /\ b \in Int
  BY <1>1, <1>3
<1> HIDE DEF q, b
<1> QED
  BY <1>1, <1>4, <1>5, <1>6 DEF q, b

\* The times the calculator works with are whole numbers, positive where divided by.
LEMMA DurationsAreWhole ==
  ASSUME NEW c \in TimelapseConfigs
  PROVE  /\ PerShot(c) \in Nat /\ Duration(c) \in Int
         /\ DurationOrBootstrap(c) \in Nat \ {0}
         /\ Fps(c) \in Nat \ {0}
<1> USE TimelapseScreensAssumption
<1>1. PerShot(c) \in Nat
  <2>1. BulbTime(c) \in Nat
    BY Solving, 1 \in Nat \ {0}
  <2> QED
    BY <2>1 DEF PerShot, TimelapseConfigs
<1>2. c.total * PerShot(c) \in Int
  BY <1>1 DEF TimelapseConfigs
<1>3. /\ (c.total * PerShot(c)) \div Second \in Int
      /\ PerShot(c) \div Second \in Int
  BY <1>1, <1>2, DivBounds
<1>4. Duration(c) \in Int
  BY <1>3 DEF Duration, Infinite
<1>5. DurationOrBootstrap(c) \in Nat \ {0}
  BY <1>3, <1>4 DEF DurationOrBootstrap, AtLeast
<1>6. Fps(c) \in Nat \ {0}
  BY DEF Fps, TimelapseConfigs
<1> QED
  BY <1>1, <1>4, <1>5, <1>6

\* The number of shots is the rounded quotient, unless an end of the range cut it.
LEMMA CountingShots ==
  ASSUME NEW num \in Int, NEW den \in Nat \ {0}, NEW fps \in Nat \ {0}
  PROVE  /\ ShotsFor(num, den, fps) \in 1 .. ShotLimit
         /\ ShotsFor(num, den, fps) \in 2 .. ShotLimit - 1 =>
              /\ 2 * (ShotsFor(num, den, fps) * den - num * fps) <= den
              /\ 2 * (num * fps - ShotsFor(num, den, fps) * den) <= den
<1> USE TimelapseScreensAssumption
<1> DEFINE p == num * fps
           q == (2 * num * fps + den) \div (2 * den)
           w == Within(1, ShotLimit, q)
<1>1. p \in Int /\ 2 * num * fps = 2 * p
  OBVIOUS
<1>2. 2 * den \in Nat \ {0} /\ 2 * p + den \in Int
  BY <1>1
<1>3. q = (2 * p + den) \div (2 * den)
  BY <1>1
<1>4. /\ q \in Int
      /\ (2 * den) * q <= 2 * p + den
      /\ 2 * p + den < (2 * den) * q + 2 * den
  <2> HIDE DEF p, q
  <2> DEFINE a == 2 * p + den
             b == 2 * den
  <2>1. a \in Int /\ b \in Nat \ {0} /\ q = a \div b
    BY <1>2, <1>3
  <2> HIDE DEF a, b
  <2>2. q \in Int /\ b * q <= a /\ a < b * q + b
    BY <2>1, DivBounds
  <2> QED
    BY <2>2 DEF a, b
<1>5. ShotsFor(num, den, fps) = w
  BY DEF ShotsFor
<1> HIDE DEF p, q
<1>6. w \in 1 .. ShotLimit /\ (w \in 2 .. ShotLimit - 1 => w = q)
  <2>1. /\ Within(1, ShotLimit, q) \in 1 .. ShotLimit
        /\ Within(1, ShotLimit, q) \notin {1, ShotLimit} => Within(1, ShotLimit, q) = q
    BY <1>4, WithinRange, 1 \in Int, ShotLimit \in Int, 1 <= ShotLimit
  <2> QED
    BY <2>1
<1>7. (2 * den) * q = 2 * (q * den) /\ q * den \in Int
  BY <1>4
<1> HIDE DEF w
<1>8. ASSUME w = q PROVE 2 * (w * den - p) <= den /\ 2 * (p - w * den) <= den
  <2> DEFINE z == q * den
  <2>1. z \in Int /\ 2 * z <= 2 * p + den /\ 2 * p + den < 2 * z + 2 * den
    BY <1>4, <1>7
  <2> HIDE DEF z
  <2>2. 2 * (z - p) <= den /\ 2 * (p - z) <= den
    BY <2>1, <1>1
  <2> QED
    BY <2>2, <1>8 DEF z
<1> QED
  BY <1>5, <1>6, <1>8 DEF p

\* What the calculator turns needs no validation.
LEMMA TurnsStayInRange ==
  ASSUME NEW c \in TimelapseConfigs, NEW d \in {-1, 1}
  PROVE  /\ TurnDuration(c, d) \in TimelapseConfigs
         /\ TurnVideo(c, d) \in TimelapseConfigs
         /\ TurnFps(c, d) \in TimelapseConfigs
<1>0. /\ MinRest \in Int /\ MaxRest \in Int /\ MinRest <= MaxRest
      /\ ShotLimit \in Nat \ {0} /\ DurationStep \in Int
  BY TimelapseScreensAssumption
<1>1. DurationOrBootstrap(c) \in Nat \ {0} /\ Fps(c) \in Nat \ {0}
  BY DurationsAreWhole
<1>2. TurnDuration(c, d) \in TimelapseConfigs
  <2> DEFINE shots   == AtLeast(1, c.total)
             seconds == AtLeast(1, DurationOrBootstrap(c) + d * DurationStep)
             x == SolveInterval(c, seconds, shots)
  <2>1. shots \in 1 .. ShotLimit
    BY <1>0 DEF AtLeast, TimelapseConfigs
  <2>2. seconds \in Int
    <3>1. d * DurationStep \in Int
      BY <1>0
    <3> QED
      BY <1>1, <3>1 DEF AtLeast
  <2>3. x \in MinRest .. MaxRest
    <3> HIDE DEF shots, seconds
    <3>1. shots \in Nat \ {0}
      BY <2>1
    <3> QED
      BY <2>2, <3>1, Solving
  <2>4. TurnDuration(c, d) = [c EXCEPT !.total = shots, !.interval = x]
    BY DEF TurnDuration
  <2> HIDE DEF shots, x
  <2>5. shots \in 0 .. ShotLimit
    BY <2>1
  <2>6. [c EXCEPT !.total = shots, !.interval = x] \in TimelapseConfigs
    BY <2>3, <2>5 DEF TimelapseConfigs
  <2> QED
    BY <2>4, <2>6
<1>3. ASSUME NEW n \in TimelapseConfigs, NEW shots \in 1 .. ShotLimit
      PROVE  Solved(n, c, shots) \in TimelapseConfigs
  <2> DEFINE x == IF c.total = 0 THEN n.interval ELSE SolveInterval(n, DurationOrBootstrap(c), shots)
  <2>1. x \in MinRest .. MaxRest
    <3>1. SolveInterval(n, DurationOrBootstrap(c), shots) \in MinRest .. MaxRest
      BY <1>1, <1>3, Solving
    <3> QED
      BY <3>1 DEF TimelapseConfigs
  <2>2. Solved(n, c, shots) = [n EXCEPT !.total = shots, !.interval = x]
    BY DEF Solved
  <2> HIDE DEF x
  <2>3. shots \in 0 .. ShotLimit
    OBVIOUS
  <2>4. [n EXCEPT !.total = shots, !.interval = x] \in TimelapseConfigs
    BY <2>1, <2>3 DEF TimelapseConfigs
  <2> QED
    BY <2>2, <2>4
<1>4. TurnVideo(c, d) \in TimelapseConfigs
  <2> DEFINE num   == AtLeast(Fps(c), c.total + d * Fps(c))
             shots == ShotsFor(num, Fps(c), Fps(c))
  <2>1. d * Fps(c) \in Int /\ c.total \in Int
    BY <1>0, <1>1 DEF TimelapseConfigs
  <2>2. num \in Int
    BY <1>1, <2>1 DEF AtLeast
  <2> HIDE DEF num
  <2>3. shots \in 1 .. ShotLimit
    BY <1>1, <2>2, CountingShots
  <2>4. TurnVideo(c, d) = Solved(c, c, shots)
    BY DEF TurnVideo, num
  <2> QED
    BY <1>3, <2>3, <2>4
<1>5. TurnFps(c, d) \in TimelapseConfigs
  <2> DEFINE f     == Around(1, Len(Presets), c.fps + d)
             next  == [c EXCEPT !.fps = f]
             shots == ShotsFor(c.total, Fps(c), Fps(next))
  <2>1. f \in DOMAIN Presets
    <3>1. Len(Presets) \in Nat \ {0} /\ DOMAIN Presets = 1 .. Len(Presets)
      BY TimelapseScreensAssumption
    <3>2. c.fps \in Int
      BY <3>1 DEF TimelapseConfigs
    <3> QED
      BY <3>1, <3>2 DEF Around
  <2> HIDE DEF f
  <2>2. next \in TimelapseConfigs
    BY <2>1, c \in TimelapseConfigs DEF TimelapseConfigs
  <2>3. TurnFps(c, d) = Solved(next, c, shots)
    BY DEF TurnFps, f
  <2> HIDE DEF next
  <2>4. shots \in 1 .. ShotLimit
    <3>1. Fps(next) \in Nat \ {0}
      BY <2>2, DurationsAreWhole
    <3>2. c.total \in Int
      BY DEF TimelapseConfigs
    <3> QED
      BY <1>1, <3>1, <3>2, CountingShots
  <2> QED
    BY <1>3, <2>2, <2>3, <2>4
<1> QED
  BY <1>2, <1>4, <1>5

\* Rounding down twice: the solved shoot is no longer than what it is solved
\* for, and shorter by less than a second and a tick for every shot.
LEMMA SolvedLasts ==
  ASSUME NEW m \in TimelapseConfigs, NEW D \in Nat \ {0}, NEW shots \in 1 .. ShotLimit,
         NEW n, n.total = shots, n.interval = SolveInterval(m, D, shots),
         n.bulb = m.bulb, n.exposure = m.exposure, n.settle = m.settle,
         n.interval \notin {MinRest, MaxRest}
  PROVE  Duration(n) <= D /\ (D - Duration(n) - 1) * Second <= n.total
<1> DEFINE i == SolveInterval(m, D, shots)
           q == (D * Second) \div shots
<1>1. Second \in Nat \ {0} /\ shots \in Nat \ {0}
  BY TimelapseScreensAssumption
<1>4. /\ n.interval = i /\ n.total = shots
      /\ n.bulb = m.bulb /\ n.exposure = m.exposure /\ n.settle = m.settle
  OBVIOUS
<1>5. BulbTime(n) = BulbTime(m)
  BY <1>4 DEF BulbTime
<1>6. i + BulbTime(m) = q
  BY <1>1, <1>4, Solving
<1>7. PerShot(n) = q
  BY <1>4, <1>5, <1>6 DEF PerShot
<1>8. Duration(n) = (shots * q) \div Second
  BY <1>1, <1>4, <1>7 DEF Duration
<1> DEFINE a == D * Second
           b == shots * q
           t == b \div Second
<1>9. a \in Int /\ q \in Int /\ shots * q <= a /\ a < shots * q + shots
  <2>1. a \in Int
    BY <1>1
  <2> HIDE DEF a
  <2>2. q = a \div shots
    BY DEF a
  <2> HIDE DEF q
  <2> QED
    BY <1>1, <2>1, <2>2, DivBounds
<1>10. b \in Int /\ b <= a /\ a < b + shots
  BY <1>1, <1>9
<1>11. t \in Int /\ Second * t <= b /\ b < Second * t + Second
  <2> HIDE DEF b
  <2> QED
    BY <1>1, <1>10, DivBounds
<1>14. Duration(n) = t
  BY <1>8
<1> HIDE DEF q, b, t
<1>12. t <= D
  <2>1. Second * t <= Second * D
    BY <1>1, <1>10, <1>11
  <2> QED
    BY <1>1, <1>11, <2>1
<1>13. (D - t - 1) * Second <= shots
  <2>1. (D - t - 1) * Second = a - Second * t - Second
    BY <1>1, <1>11
  <2> QED
    BY <1>1, <1>9, <1>10, <1>11, <2>1
<1> QED
  BY <1>4, <1>12, <1>13, <1>14

\* So it is of the sequence that a turned row solves: the whole seconds a finite
\* one shows are kept, and an infinite one keeps its interval.
LEMMA SolvedIsNoLonger ==
  ASSUME NEW c \in TimelapseConfigs, NEW m \in TimelapseConfigs, NEW shots \in 1 .. ShotLimit,
         m.interval = c.interval, NEW n, n = Solved(m, c, shots)
  PROVE  /\ n.total = shots
         /\ c.total = 0 => n.interval = c.interval
         /\ c.total # 0 /\ n.interval \notin {MinRest, MaxRest} =>
              /\ Duration(n) <= AtLeast(1, Duration(c))
              /\ (AtLeast(1, Duration(c)) - Duration(n) - 1) * Second <= n.total
<1> DEFINE D == DurationOrBootstrap(c)
<1>1. n.total = shots
  BY DEF Solved, TimelapseConfigs
<1>2. ASSUME c.total = 0 PROVE n.interval = c.interval
  BY <1>2 DEF Solved, TimelapseConfigs
<1>3. ASSUME c.total # 0, n.interval \notin {MinRest, MaxRest}
      PROVE  /\ Duration(n) <= AtLeast(1, Duration(c))
             /\ (AtLeast(1, Duration(c)) - Duration(n) - 1) * Second <= n.total
  <2>1. D \in Nat \ {0}
    BY DurationsAreWhole
  <2>2. D = AtLeast(1, Duration(c))
    BY <1>3 DEF DurationOrBootstrap
  <2>3. /\ n.total = shots /\ n.interval = SolveInterval(m, D, shots)
        /\ n.bulb = m.bulb /\ n.exposure = m.exposure /\ n.settle = m.settle
    <3> DEFINE i == SolveInterval(m, D, shots)
    <3>1. n = [m EXCEPT !.total = shots, !.interval = i]
      BY <1>3 DEF Solved
    <3> HIDE DEF i
    <3>2. /\ n.total = shots /\ n.interval = i
          /\ n.bulb = m.bulb /\ n.exposure = m.exposure /\ n.settle = m.settle
      BY <3>1 DEF TimelapseConfigs
    <3> QED
      BY <3>2 DEF i
  <2> HIDE DEF D
  <2>4. Duration(n) <= D /\ (D - Duration(n) - 1) * Second <= n.total
    BY <1>3, <2>1, <2>3, SolvedLasts
  <2> QED
    BY <2>2, <2>4
<1> QED
  BY <1>1, <1>2, <1>3

\* An infinite sequence has no video: a second of it, or a shot.
LEMMA InfiniteBecomesShort ==
  ASSUME NEW p \in Nat \ {0}, NEW f \in Nat \ {0}
  PROVE  /\ ShotsFor(p, p, p) = AtMost(ShotLimit, p)
         /\ ShotsFor(0, p, f) = 1
<1>1. ShotLimit \in Nat \ {0}
  BY TimelapseScreensAssumption
<1>2. (2 * p * p + p) \div (2 * p) = p
  <2> DEFINE b == 2 * p
             a == 2 * p * p + p
             q == a \div b
  <2>1. p * p \in Nat /\ 2 * p * p = 2 * (p * p) /\ a = 2 * (p * p) + p
    OBVIOUS
  <2>2. a \in Int /\ b \in Nat \ {0}
    BY <2>1
  <2>3. q \in Int /\ b * q <= a /\ a < b * q + b
    <3> HIDE DEF a, b
    <3> QED
      BY <2>2, DivBounds
  <2> HIDE DEF q
  <2>4. b * q = 2 * (p * q) /\ p * q \in Int
    BY <2>3
  <2>5. 2 * (p * q) <= 2 * (p * p) + p /\ 2 * (p * p) + p < 2 * (p * q) + 2 * p
    BY <2>1, <2>3, <2>4
  <2>6. p * (q - p) = p * q - p * p
    BY <2>3
  <2>7. p * (q - p) <= p /\ -p < 2 * (p * (q - p)) + 0 /\ 2 * (p * (q - p)) <= p
    BY <2>1, <2>4, <2>5, <2>6
  <2>8. ~(q - p >= 1)
    <3>1. SUFFICES ASSUME q - p >= 1 PROVE FALSE
      OBVIOUS
    <3>2. p * (q - p) >= p
      BY <2>3, <3>1
    <3> QED
      BY <2>3, <2>7, <3>2
  <2>9. ~(q - p <= -1)
    <3>1. SUFFICES ASSUME q - p <= -1 PROVE FALSE
      OBVIOUS
    <3>2. p * (q - p) <= -p
      BY <2>3, <3>1
    <3> QED
      BY <2>3, <2>7, <3>2
  <2> QED
    BY <2>3, <2>8, <2>9 DEF q
<1>3. ShotsFor(p, p, p) = Within(1, ShotLimit, p)
  BY <1>2 DEF ShotsFor
<1>4. Within(1, ShotLimit, p) = AtMost(ShotLimit, p)
  BY <1>1 DEF Within, AtMost, AtLeast
<1>5. (2 * 0 * f + p) \div (2 * p) = 0
  <2>1. 2 * 0 * f + p = p
    OBVIOUS
  <2>2. p \div (2 * p) = 0
    <3> DEFINE b == 2 * p
               q == p \div b
    <3>1. b \in Nat \ {0}
      OBVIOUS
    <3>2. q \in Int /\ b * q <= p /\ p < b * q + b
      <4> HIDE DEF b
      <4> QED
        BY <3>1, DivBounds
    <3> HIDE DEF q
    <3>3. ~(q >= 1)
      <4>1. q >= 1 => b * q >= b
        BY <3>1, <3>2
      <4> QED
        BY <3>2, <4>1
    <3>4. ~(q <= -1)
      <4>1. q <= -1 => b * q <= -b
        BY <3>1, <3>2
      <4> QED
        BY <3>2, <4>1
    <3> QED
      BY <3>2, <3>3, <3>4 DEF q
  <2> QED
    BY <2>1, <2>2
<1>6. ShotsFor(0, p, f) = Within(1, ShotLimit, 0)
  BY <1>5 DEF ShotsFor
<1>7. Within(1, ShotLimit, 0) = 1
  BY <1>1 DEF Within, AtMost, AtLeast
<1> QED
  BY <1>3, <1>4, <1>6, <1>7

\* What a turn of the calculator's row does to the fields the others hold.
LEMMA CalculatorHolds ==
  ASSUME NEW c \in TimelapseConfigs, NEW d \in {-1, 1}
  PROVE  /\ CalculatorKeeps(c, TurnDuration(c, d), 0)
         /\ CalculatorKeeps(c, TurnVideo(c, d), 1)
         /\ CalculatorKeeps(c, TurnFps(c, d), 2)
<1>2. Fps(c) \in Nat \ {0} /\ c.total \in Int /\ c.total >= 0
  BY DurationsAreWhole, TimelapseScreensAssumption DEF TimelapseConfigs
<1>1. CalculatorKeeps(c, TurnDuration(c, d), 0)
  <2> DEFINE shots   == AtLeast(1, c.total)
             seconds == AtLeast(1, DurationOrBootstrap(c) + d * DurationStep)
             n       == TurnDuration(c, d)
  <2>1. shots \in 1 .. ShotLimit
    BY TimelapseScreensAssumption DEF AtLeast, TimelapseConfigs
  <2>2. seconds \in Nat \ {0}
    <3>1. d * DurationStep \in Int /\ DurationOrBootstrap(c) \in Nat \ {0}
      BY TimelapseScreensAssumption, DurationsAreWhole
    <3> QED
      BY <3>1 DEF AtLeast
  <2>3. /\ n.total = shots /\ n.interval = SolveInterval(c, seconds, shots)
        /\ n.bulb = c.bulb /\ n.exposure = c.exposure /\ n.settle = c.settle
    <3> DEFINE i == SolveInterval(c, seconds, shots)
    <3>1. n = [c EXCEPT !.total = shots, !.interval = i]
      BY DEF TurnDuration
    <3> HIDE DEF i, shots, n
    <3>2. /\ n.total = shots /\ n.interval = i
          /\ n.bulb = c.bulb /\ n.exposure = c.exposure /\ n.settle = c.settle
      BY <3>1 DEF TimelapseConfigs
    <3> QED
      BY <3>2 DEF i
  <2>4. n.total = shots
    BY <2>3
  <2>5. n.interval \notin {MinRest, MaxRest} =>
          Duration(n) <= seconds /\ (seconds - Duration(n) - 1) * Second <= n.total
    <3> HIDE DEF shots, seconds, n
    <3> QED
      BY <2>1, <2>2, <2>3, SolvedLasts
  <2> HIDE DEF n
  <2> QED
    BY <2>4, <2>5 DEF CalculatorKeeps, n
<1>3. CalculatorKeeps(c, TurnVideo(c, d), 1)
  <2> DEFINE num   == AtLeast(Fps(c), c.total + d * Fps(c))
             shots == ShotsFor(num, Fps(c), Fps(c))
             n     == Solved(c, c, shots)
  <2>1. num \in Int
    <3>1. d * Fps(c) \in Int
      BY <1>2
    <3> QED
      BY <1>2, <3>1 DEF AtLeast
  <2>2. TurnVideo(c, d) = n
    BY DEF TurnVideo
  <2>3. ASSUME c.total = 0 PROVE shots = AtMost(ShotLimit, Fps(c))
    <3>1. num = Fps(c)
      <4>1. c.total + d * Fps(c) <= Fps(c) /\ c.total + d * Fps(c) \in Int
        BY <1>2, <2>3
      <4> QED
        BY <1>2, <4>1 DEF AtLeast
    <3> HIDE DEF num
    <3> QED
      BY <1>2, <3>1, InfiniteBecomesShort
  <2> HIDE DEF num
  <2>4. shots \in 1 .. ShotLimit
    BY <1>2, <2>1, CountingShots
  <2> HIDE DEF shots
  <2>5. n = Solved(c, c, shots)
    OBVIOUS
  <2> HIDE DEF n
  <2>6. /\ n.total = shots
        /\ c.total = 0 => n.interval = c.interval
        /\ c.total # 0 /\ n.interval \notin {MinRest, MaxRest} =>
             /\ Duration(n) <= AtLeast(1, Duration(c))
             /\ (AtLeast(1, Duration(c)) - Duration(n) - 1) * Second <= n.total
    BY <2>4, <2>5, SolvedIsNoLonger
  <2> QED
    BY <2>2, <2>3, <2>6 DEF CalculatorKeeps
<1>4. CalculatorKeeps(c, TurnFps(c, d), 2)
  <2> DEFINE f     == Around(1, Len(Presets), c.fps + d)
             next  == [c EXCEPT !.fps = f]
             shots == ShotsFor(c.total, Fps(c), Fps(next))
             n     == Solved(next, c, shots)
  <2>1. next \in TimelapseConfigs /\ next.interval = c.interval
    <3>1. Len(Presets) \in Nat \ {0} /\ DOMAIN Presets = 1 .. Len(Presets)
      BY TimelapseScreensAssumption
    <3>2. f \in DOMAIN Presets
      BY <3>1 DEF Around, TimelapseConfigs
    <3> HIDE DEF f
    <3> QED
      BY <3>2 DEF TimelapseConfigs
  <2>2. TurnFps(c, d) = n
    BY DEF TurnFps
  <2> HIDE DEF f, next
  <2>3. Fps(next) \in Nat \ {0}
    BY <2>1, DurationsAreWhole
  <2>4. /\ shots \in 1 .. ShotLimit
        /\ shots \in 2 .. ShotLimit - 1 =>
             /\ 2 * (shots * Fps(c) - c.total * Fps(next)) <= Fps(c)
             /\ 2 * (c.total * Fps(next) - shots * Fps(c)) <= Fps(c)
    BY <1>2, <2>3, CountingShots
  <2>5. n.total = shots /\ Fps(n) = Fps(next)
    <3> HIDE DEF shots
    <3>1. n.total = shots /\ n.fps = next.fps
      BY <2>1 DEF Solved, TimelapseConfigs
    <3> QED
      BY <3>1 DEF Fps
  <2>6. c.total = 0 => shots = 1
    BY <1>2, <2>3, InfiniteBecomesShort
  <2> HIDE DEF shots
  <2>7. n = Solved(next, c, shots)
    OBVIOUS
  <2> HIDE DEF n
  <2>8. /\ c.total = 0 => n.interval = c.interval
        /\ c.total # 0 /\ n.interval \notin {MinRest, MaxRest} =>
             /\ Duration(n) <= AtLeast(1, Duration(c))
             /\ (AtLeast(1, Duration(c)) - Duration(n) - 1) * Second <= n.total
    BY <2>1, <2>4, <2>7, SolvedIsNoLonger
  <2> QED
    BY <2>2, <2>4, <2>5, <2>6, <2>8 DEF CalculatorKeeps
<1> QED
  BY <1>1, <1>3, <1>4

\* Every step of TIMELAPSE's screens keeps the mode's part of the invariant, and
\* what turning the calculator holds.
LEMMA TimelapseStep ==
  ASSUME IInv, TimelapseNext
  PROVE  /\ app = "timelapse" /\ app' = app
         /\ ShellInv' /\ TimelapseInv' /\ SavedInv' /\ Kept
         /\ open /\ open' /\ page = "MAIN" /\ cfg' # cfg => CalculatorKeeps(cfg, cfg', row)
<1> DEFINE Goal == /\ app = "timelapse" /\ app' = app
                   /\ ShellInv' /\ TimelapseInv' /\ SavedInv' /\ Kept
                   /\ open /\ open' /\ page = "MAIN" /\ cfg' # cfg => CalculatorKeeps(cfg, cfg', row)
<1>1. app \in Apps /\ open \in BOOLEAN /\ editing \in BOOLEAN
      /\ (~open => page = "MAIN" /\ row = 0 /\ ~editing)
  BY DEF IInv, ShellInv
<1>2. /\ app = "timelapse" => cfg \in TimelapseConfigs /\ saved \in TimelapseConfigs
      /\ app = "timelapse" => page \in {"MAIN", "ADVANCE"} /\ row \in 0 .. 4
      /\ app = "timelapse" /\ editing => row \in (IF page = "MAIN" THEN 0 .. 3 ELSE {0, 1, 3, 4})
      /\ open /\ ~editing /\ app = "timelapse" => saved = cfg
  BY DEF IInv, TimelapseInv, SavedInv
<1>3. CASE EnterTimelapse
  <2>1. ASSUME app = "timelapse" PROVE ValidTimelapse(saved) = saved
    <3>1. saved \in TimelapseConfigs
      BY <1>2, <2>1
    <3>2. saved \in RawTimelapse
      BY <3>1, TimelapseScreensAssumption DEF TimelapseConfigs, RawTimelapse
    <3> QED
      BY <3>1, <3>2, ValidatedTimelapse
  <2> QED
    BY <1>1, <1>2, <1>3, <2>1 DEF EnterTimelapse, Enter, ShellInv, TimelapseInv, SavedInv, Kept
<1>4. CASE TimelapseSelect
  BY <1>1, <1>2, <1>4 DEF TimelapseSelect, Select, Open, Stepped, ShellInv, TimelapseInv, SavedInv, Kept
<1>5. CASE TimelapsePress
  <2>1. CASE BeginEdit("timelapse", "MAIN", 0 .. 2)
    BY <1>1, <1>2, <2>1 DEF BeginEdit, Open, ShellInv, TimelapseInv, SavedInv, Kept
  <2>2. CASE BeginEdit("timelapse", "ADVANCE", {0, 1, 3, 4})
    BY <1>1, <1>2, <2>2 DEF BeginEdit, Open, ShellInv, TimelapseInv, SavedInv, Kept
  <2>3. CASE EndEdit("timelapse")
    BY <1>1, <1>2, <2>3 DEF EndEdit, Open, ShellInv, TimelapseInv, SavedInv, Kept
  <2>4. CASE Toggle("timelapse", "ADVANCE", 2, [cfg EXCEPT !.bulb = ~@])
    <3> DEFINE toggled == [cfg EXCEPT !.bulb = ~@]
    <3>1. app = "timelapse" => toggled \in TimelapseConfigs
      BY <1>2 DEF TimelapseConfigs
    <3>2. Toggle("timelapse", "ADVANCE", 2, toggled)
      BY <2>4
    <3> HIDE DEF toggled
    <3> QED
      BY <1>1, <1>2, <3>1, <3>2 DEF Toggle, Open, screenVars, ShellInv, TimelapseInv, SavedInv, Kept
  <2> QED
    BY <1>5, <2>1, <2>2, <2>3, <2>4 DEF TimelapsePress
<1>6. ASSUME NEW p, NEW r, NEW turned \in TimelapseConfigs,
             Turn("timelapse", p, r, turned), p = "MAIN" => CalculatorKeeps(cfg, turned, r)
      PROVE  Goal
  BY <1>1, <1>2, <1>6 DEF Turn, Open, screenVars, ShellInv, TimelapseInv, SavedInv, Kept
<1>7. ASSUME NEW d \in {-1, 1}, TimelapseMainTurn(d)
      PROVE  Goal
  <2>1. app = "timelapse"
    BY <1>7 DEF TimelapseMainTurn, Turn, Open
  <2>2. cfg \in TimelapseConfigs
    BY <1>2, <2>1
  <2>3. \A n \in TimelapseConfigs : ValidTimelapse(n) = n
    <3>1. TimelapseConfigs \subseteq RawTimelapse
      BY TimelapseScreensAssumption DEF TimelapseConfigs, RawTimelapse
    <3> QED
      BY <3>1, ValidatedTimelapse
  <2>4. CASE Turn("timelapse", "MAIN", 0, ValidTimelapse(TurnDuration(cfg, d)))
    BY <1>6, <2>2, <2>3, <2>4, TurnsStayInRange, CalculatorHolds
  <2>5. CASE Turn("timelapse", "MAIN", 1, ValidTimelapse(TurnVideo(cfg, d)))
    BY <1>6, <2>2, <2>3, <2>5, TurnsStayInRange, CalculatorHolds
  <2>6. CASE Turn("timelapse", "MAIN", 2, ValidTimelapse(TurnFps(cfg, d)))
    BY <1>6, <2>2, <2>3, <2>6, TurnsStayInRange, CalculatorHolds
  <2> QED
    BY <1>7, <2>4, <2>5, <2>6 DEF TimelapseMainTurn
<1>8. ASSUME NEW d \in {-1, 1}, TimelapseAdvanceTurn(d)
      PROVE  Goal
  <2>1. app = "timelapse"
    BY <1>8 DEF TimelapseAdvanceTurn, Turn, Open
  <2>2. cfg \in TimelapseConfigs
    BY <1>2, <2>1
  <2>3. ASSUME NEW n \in Int
        PROVE  /\ [cfg EXCEPT !.interval = n] \in RawTimelapse
               /\ [cfg EXCEPT !.total = n] \in RawTimelapse
               /\ [cfg EXCEPT !.exposure = n] \in RawTimelapse
               /\ [cfg EXCEPT !.settle = n] \in RawTimelapse
    <3>1. cfg \in RawTimelapse
      BY <2>2, TimelapseScreensAssumption DEF TimelapseConfigs, RawTimelapse
    <3> QED
      BY <3>1 DEF RawTimelapse
  <2>4. ASSUME NEW n \in RawTimelapse, NEW r, Turn("timelapse", "ADVANCE", r, ValidTimelapse(n))
        PROVE  Goal
    <3>1. ValidTimelapse(n) \in TimelapseConfigs
      BY ValidatedTimelapse
    <3> HIDE DEF Goal
    <3> QED
      BY <1>6, <2>4, <3>1
  <2>5. /\ cfg.interval \in Int /\ cfg.total \in Int /\ cfg.exposure \in Int /\ cfg.settle \in Int
        /\ MinRest \in Int /\ SpinCap \in Int
    BY <2>2, TimelapseScreensAssumption DEF TimelapseConfigs
  <2> HIDE DEF Goal
  <2>6. ASSUME NEW s \in 1 .. SpinCap + 1,
               Turn("timelapse", "ADVANCE", 0,
                    ValidTimelapse([cfg EXCEPT !.interval = @ + d * AtMost(SpinCap, s) * MinRest]))
        PROVE  Goal
    <3> DEFINE n == cfg.interval + d * AtMost(SpinCap, s) * MinRest
    <3>1. AtMost(SpinCap, s) \in Int
      BY <2>5 DEF AtMost
    <3>2. d * AtMost(SpinCap, s) \in Int
      BY <3>1
    <3>3. n \in Int
      BY <2>5, <3>2
    <3>4. Turn("timelapse", "ADVANCE", 0, ValidTimelapse([cfg EXCEPT !.interval = n]))
      BY <2>6
    <3> HIDE DEF n
    <3> QED
      BY <2>3, <2>4, <3>3, <3>4
  <2>7. CASE Turn("timelapse", "ADVANCE", 1, ValidTimelapse([cfg EXCEPT !.total = @ + d]))
    <3>1. cfg.total + d \in Int
      BY <2>5
    <3> QED
      BY <2>3, <2>4, <2>7, <3>1
  <2>8. CASE Turn("timelapse", "ADVANCE", 3, ValidTimelapse([cfg EXCEPT !.exposure = @ + d]))
    <3>1. cfg.exposure + d \in Int
      BY <2>5
    <3> QED
      BY <2>3, <2>4, <2>8, <3>1
  <2>9. CASE Turn("timelapse", "ADVANCE", 4, ValidTimelapse([cfg EXCEPT !.settle = @ + d]))
    <3>1. cfg.settle + d \in Int
      BY <2>5
    <3> QED
      BY <2>3, <2>4, <2>9, <3>1
  <2> QED
    BY <1>8, <2>6, <2>7, <2>8, <2>9 DEF TimelapseAdvanceTurn
<1>9. CASE OpenTimelapseAdvance
  BY <1>1, <1>2, <1>9 DEF OpenTimelapseAdvance, Goto, Open, ShellInv, TimelapseInv, SavedInv, Kept
<1>10. CASE HoldTimelapse
  <2>1. CASE Open("timelapse") /\ page = "ADVANCE" /\ Goto("MAIN", 3)
    BY <1>1, <1>2, <2>1 DEF Goto, Open, ShellInv, TimelapseInv, SavedInv, Kept
  <2>2. CASE page = "MAIN" /\ Leave("timelapse") /\ saved' = cfg
    <3>1. /\ app = "timelapse" /\ app' = app /\ open /\ ~open' /\ ~editing'
          /\ page' = "MAIN" /\ row' = 0 /\ editing' = FALSE /\ open' = FALSE
          /\ cfg' = cfg /\ saved' = cfg /\ cfg \in TimelapseConfigs
      BY <1>2, <2>2 DEF Leave, Open
    <3>2. ShellInv' /\ SavedInv' /\ Kept
      BY <1>1, <3>1 DEF ShellInv, SavedInv, Kept
    <3>3. TimelapseInv'
      BY <3>1 DEF TimelapseInv
    <3> QED
      BY <3>1, <3>2, <3>3
  <2> QED
    BY <1>10, <2>1, <2>2 DEF HoldTimelapse
<1> QED
  BY <1>3, <1>4, <1>5, <1>7, <1>8, <1>9, <1>10 DEF TimelapseNext

-----------------------------------------------------------------------------
(* AUTO SHOOT.                                                             *)

RawAutoShoot == [filter : BOOLEAN, min : Int, max : Int, burst : Int, cooldown : Int, retrigger : Int]

\* validateConfig() turns an inside-out range back, and a valid one not.
LEMMA ValidatedAutoShoot ==
  ASSUME NEW c \in RawAutoShoot
  PROVE  /\ ValidAutoShoot(c) \in AutoShootConfigs
         /\ c \in AutoShootConfigs => ValidAutoShoot(c) = c
<1> DEFINE lo == Within(RangeLow, RangeTop, c.min)
           hi == Within(RangeLow, RangeTop, c.max)
           b  == Within(1, BurstTop, c.burst)
           w  == Within(0, CooldownTop, c.cooldown)
           t  == Within(RetriggerLow, RetriggerTop, c.retrigger)
           v  == [c EXCEPT !.min = lo, !.max = hi, !.burst = b, !.cooldown = w, !.retrigger = t]
<1>1. ValidAutoShoot(c) = Swapped(v)
  BY DEF ValidAutoShoot
<1>2. c.min \in Int /\ c.max \in Int /\ c.burst \in Int /\ c.cooldown \in Int /\ c.retrigger \in Int
  BY DEF RawAutoShoot
<1>3. /\ lo \in RangeLow .. RangeTop /\ hi \in RangeLow .. RangeTop /\ b \in 1 .. BurstTop
      /\ w \in 0 .. CooldownTop /\ t \in RetriggerLow .. RetriggerTop
  BY <1>2, AutoShootScreensAssumption DEF Within, AtMost, AtLeast
<1>4. c \in AutoShootConfigs => /\ lo = c.min /\ hi = c.max /\ b = c.burst /\ w = c.cooldown /\ t = c.retrigger
                                /\ c.min <= c.max
  BY <1>2, AutoShootScreensAssumption DEF Within, AtMost, AtLeast, AutoShootConfigs
<1>5. lo \in Int /\ hi \in Int
  BY <1>3, AutoShootScreensAssumption
<1> HIDE DEF lo, hi, b, w, t
<1>7. v.min = lo /\ v.max = hi
  BY DEF RawAutoShoot
<1>8. CASE lo <= hi
  <2>1. Swapped(v) = v
    BY <1>5, <1>7, <1>8 DEF Swapped
  <2>2. v \in AutoShootConfigs
    BY <1>3, <1>7, <1>8 DEF AutoShootConfigs, RawAutoShoot
  <2>3. c \in AutoShootConfigs => v = c
    BY <1>4 DEF RawAutoShoot
  <2> QED
    BY <1>1, <2>1, <2>2, <2>3
<1>9. CASE lo > hi
  <2> DEFINE x == [c EXCEPT !.min = hi, !.max = lo, !.burst = b, !.cooldown = w, !.retrigger = t]
  <2>1. Swapped(v) = x
    BY <1>7, <1>9 DEF Swapped, RawAutoShoot
  <2>2. x \in AutoShootConfigs
    <3>1. x.min = hi /\ x.max = lo /\ hi <= lo
      BY <1>5, <1>9 DEF RawAutoShoot
    <3> QED
      BY <1>3, <3>1 DEF AutoShootConfigs, RawAutoShoot
  <2>3. c \notin AutoShootConfigs
    BY <1>4, <1>5, <1>9
  <2> HIDE DEF x
  <2> QED
    BY <1>1, <2>1, <2>2, <2>3
<1> QED
  BY <1>5, <1>8, <1>9

\* Every step of AUTO SHOOT's screens keeps the mode's part of the invariant.
LEMMA AutoShootStep ==
  ASSUME IInv, AutoShootNext
  PROVE  /\ app = "auto_shoot" /\ app' = app
         /\ ShellInv' /\ AutoShootInv' /\ SavedInv' /\ Kept
<1> DEFINE Goal == /\ app = "auto_shoot" /\ app' = app
                   /\ ShellInv' /\ AutoShootInv' /\ SavedInv' /\ Kept
<1>1. app \in Apps /\ open \in BOOLEAN /\ editing \in BOOLEAN
      /\ (~open => page = "MAIN" /\ row = 0 /\ ~editing)
  BY DEF IInv, ShellInv
<1>2. /\ app = "auto_shoot" => cfg \in AutoShootConfigs /\ saved \in AutoShootConfigs
      /\ app = "auto_shoot" => page \in {"MAIN", "ADVANCE"} /\ row \in (IF page = "MAIN" THEN 0 .. 4 ELSE 0 .. 3)
      /\ app = "auto_shoot" /\ editing => row \in (IF page = "MAIN" THEN 0 .. 2 ELSE 1 .. 3)
      /\ open /\ ~editing /\ app = "auto_shoot" => saved = cfg
  BY DEF IInv, AutoShootInv, SavedInv
<1>3. AutoShootConfigs \subseteq RawAutoShoot
  BY AutoShootScreensAssumption DEF AutoShootConfigs, RawAutoShoot
<1>4. CASE EnterAutoShoot
  <2>1. app = "auto_shoot" => ValidAutoShoot(saved) = saved
    BY <1>2, <1>3, ValidatedAutoShoot
  <2> QED
    BY <1>1, <1>2, <1>4, <2>1 DEF EnterAutoShoot, Enter, ShellInv, AutoShootInv, SavedInv, Kept
<1>5. CASE AutoShootSelect
  BY <1>1, <1>2, <1>5 DEF AutoShootSelect, Select, Open, Stepped, ShellInv, AutoShootInv, SavedInv, Kept
<1>6. CASE AutoShootPress
  <2>1. CASE BeginEdit("auto_shoot", "MAIN", {0, 1})
    BY <1>1, <1>2, <2>1 DEF BeginEdit, Open, ShellInv, AutoShootInv, SavedInv, Kept
  <2>2. CASE BeginEdit("auto_shoot", "ADVANCE", {1, 2, 3})
    BY <1>1, <1>2, <2>2 DEF BeginEdit, Open, ShellInv, AutoShootInv, SavedInv, Kept
  <2>3. CASE EndEdit("auto_shoot")
    BY <1>1, <1>2, <2>3 DEF EndEdit, Open, ShellInv, AutoShootInv, SavedInv, Kept
  <2>4. CASE Toggle("auto_shoot", "ADVANCE", 0, [cfg EXCEPT !.filter = ~@])
    <3> DEFINE toggled == [cfg EXCEPT !.filter = ~@]
    <3>1. app = "auto_shoot" => toggled \in AutoShootConfigs
      BY <1>2 DEF AutoShootConfigs
    <3>2. Toggle("auto_shoot", "ADVANCE", 0, toggled)
      BY <2>4
    <3> HIDE DEF toggled
    <3> QED
      BY <1>1, <1>2, <3>1, <3>2 DEF Toggle, Open, screenVars, ShellInv, AutoShootInv, SavedInv, Kept
  <2> QED
    BY <1>6, <2>1, <2>2, <2>3, <2>4 DEF AutoShootPress
<1>7. ASSUME NEW d \in {-1, 1}, AutoShootTurn(d)
      PROVE  Goal
  <2>1. app = "auto_shoot"
    BY <1>7 DEF AutoShootTurn, Turn, Open
  <2>2. cfg \in AutoShootConfigs /\ cfg \in RawAutoShoot
    BY <1>2, <1>3, <2>1
  <2>3. ASSUME NEW n \in Int
        PROVE  /\ [cfg EXCEPT !.burst = n] \in RawAutoShoot
               /\ [cfg EXCEPT !.cooldown = n] \in RawAutoShoot
               /\ [cfg EXCEPT !.min = n] \in RawAutoShoot
               /\ [cfg EXCEPT !.max = n] \in RawAutoShoot
               /\ [cfg EXCEPT !.retrigger = n] \in RawAutoShoot
    BY <2>2 DEF RawAutoShoot
  <2>4. ASSUME NEW n \in RawAutoShoot, NEW p, NEW r, Turn("auto_shoot", p, r, ValidAutoShoot(n))
        PROVE  Goal
    <3>1. ValidAutoShoot(n) \in AutoShootConfigs
      BY ValidatedAutoShoot
    <3> DEFINE turned == ValidAutoShoot(n)
    <3>2. Turn("auto_shoot", p, r, turned) /\ turned \in AutoShootConfigs
      BY <2>4, <3>1
    <3> HIDE DEF turned
    <3> QED
      BY <1>1, <1>2, <3>2 DEF Turn, Open, screenVars, ShellInv, AutoShootInv, SavedInv, Kept
  <2>5. /\ cfg.burst + d \in Int /\ cfg.min + d \in Int /\ cfg.max + d \in Int /\ cfg.retrigger + d \in Int
        /\ cfg.cooldown \in Int /\ CooldownTop \in Int
    BY <2>2, AutoShootScreensAssumption DEF RawAutoShoot
  <2> HIDE DEF Goal
  <2>6. CASE Turn("auto_shoot", "MAIN", 0, ValidAutoShoot([cfg EXCEPT !.burst = @ + d]))
    BY <2>3, <2>4, <2>5, <2>6
  <2>7. CASE Turn("auto_shoot", "MAIN", 1, ValidAutoShoot(TurnCooldown(cfg, d)))
    <3>1. TurnCooldown(cfg, d) \in RawAutoShoot
      <4> DEFINE n == IF cfg.cooldown + d < 0 THEN CooldownTop ELSE cfg.cooldown + d
      <4>1. n \in Int /\ TurnCooldown(cfg, d) = [cfg EXCEPT !.cooldown = n]
        BY <2>5 DEF TurnCooldown
      <4> HIDE DEF n
      <4> QED
        BY <2>3, <4>1
    <3> QED
      BY <2>4, <2>7, <3>1
  <2>8. CASE Turn("auto_shoot", "ADVANCE", 1, ValidAutoShoot([cfg EXCEPT !.min = @ + d]))
    BY <2>3, <2>4, <2>5, <2>8
  <2>9. CASE Turn("auto_shoot", "ADVANCE", 2, ValidAutoShoot([cfg EXCEPT !.max = @ + d]))
    BY <2>3, <2>4, <2>5, <2>9
  <2>10. CASE Turn("auto_shoot", "ADVANCE", 3, ValidAutoShoot([cfg EXCEPT !.retrigger = @ + d]))
    BY <2>3, <2>4, <2>5, <2>10
  <2> QED
    BY <1>7, <2>6, <2>7, <2>8, <2>9, <2>10 DEF AutoShootTurn
<1>8. CASE OpenAutoShootAdvance
  BY <1>1, <1>2, <1>8 DEF OpenAutoShootAdvance, Goto, Open, ShellInv, AutoShootInv, SavedInv, Kept
<1>9. CASE HoldAutoShoot
  <2>1. CASE Open("auto_shoot") /\ page = "ADVANCE" /\ Goto("MAIN", 2)
    <3>1. /\ app = "auto_shoot" /\ app' = app /\ open /\ open' = open /\ editing' = editing
          /\ page' = "MAIN" /\ row' = 2 /\ cfg' = cfg /\ saved' = saved
          /\ cfg \in AutoShootConfigs /\ saved \in AutoShootConfigs
      BY <1>2, <2>1 DEF Goto, Open
    <3>2. ShellInv' /\ SavedInv' /\ Kept
      BY <1>1, <1>2, <3>1 DEF ShellInv, SavedInv, Kept
    <3>3. AutoShootInv'
      BY <3>1 DEF AutoShootInv
    <3> QED
      BY <3>1, <3>2, <3>3
  <2>2. CASE page = "MAIN" /\ Leave("auto_shoot") /\ saved' = saved
    <3>1. /\ app = "auto_shoot" /\ app' = app /\ open /\ ~open' /\ ~editing'
          /\ page' = "MAIN" /\ row' = 0 /\ editing' = FALSE /\ open' = FALSE
          /\ cfg' = cfg /\ saved' = saved /\ cfg \in AutoShootConfigs /\ saved \in AutoShootConfigs
      BY <1>2, <2>2 DEF Leave, Open
    <3>2. ShellInv' /\ SavedInv' /\ Kept
      BY <1>1, <1>2, <3>1 DEF ShellInv, SavedInv, Kept
    <3>3. AutoShootInv'
      BY <3>1 DEF AutoShootInv
    <3> QED
      BY <3>1, <3>2, <3>3
  <2> QED
    BY <1>9, <2>1, <2>2 DEF HoldAutoShoot
<1> QED
  BY <1>4, <1>5, <1>6, <1>7, <1>8, <1>9 DEF AutoShootNext

-----------------------------------------------------------------------------
(* TRIGGER MODE.                                                           *)

\* Every step of TRIGGER MODE's screens keeps the mode's part of the invariant,
\* and what the Bluetooth screen says of the driver it names.
LEMMA TriggerStep ==
  ASSUME IInv, TriggerNext
  PROVE  /\ app = "trigger" /\ app' = app
         /\ ShellInv' /\ TriggerInv' /\ SavedInv' /\ NoticeInv' /\ Kept
<1>1. app \in Apps /\ open \in BOOLEAN /\ editing \in BOOLEAN
      /\ (~open => page = "MAIN" /\ row = 0 /\ ~editing)
  BY DEF IInv, ShellInv
<1>2. /\ app = "trigger" => cfg \in TriggerConfigs /\ saved \in TriggerConfigs
      /\ app = "trigger" => page \in {"MAIN", "BLUETOOTH"} /\ row \in 0 .. 4 /\ ~editing
      /\ open /\ ~editing /\ app = "trigger" => saved = cfg
  BY DEF IInv, TriggerInv, SavedInv
<1>3. brand \in 0 .. Brands /\ (asked => brand # 0) /\ NoticeMatchesStatus
  BY DEF IInv, NoticeInv
<1>4. CASE EnterTrigger
  <2>1. app = "trigger" /\ app' = app /\ ShellInv' /\ TriggerInv' /\ SavedInv' /\ Kept
    BY <1>1, <1>2, <1>4 DEF EnterTrigger, Enter, ShellInv, TriggerInv, SavedInv, Kept
  <2>2. NoticeInv'
    BY <1>3, <1>4 DEF EnterTrigger, NoticeInv, NoticeMatchesStatus
  <2> QED
    BY <2>1, <2>2
<1>5. ASSUME UNCHANGED btVars PROVE NoticeInv'
  BY <1>3, <1>5 DEF btVars, NoticeInv, NoticeMatchesStatus, StatusLine
<1>6. CASE TriggerSelect
  <2>1. app = "trigger" /\ app' = app /\ ShellInv' /\ TriggerInv' /\ SavedInv' /\ Kept
    <3>1. /\ app = "trigger" /\ app' = app /\ open /\ open' = open /\ editing' = editing
          /\ page' = page /\ row' \in 0 .. 4 /\ cfg' = cfg /\ saved' = saved
      BY <1>2, <1>6 DEF TriggerSelect, Ready, Select, Open, Stepped
    <3> QED
      BY <1>1, <1>2, <3>1 DEF ShellInv, TriggerInv, SavedInv, Kept
  <2> QED
    BY <1>5, <1>6, <2>1 DEF TriggerSelect
<1>7. ASSUME NEW p, NEW r, NEW toggled \in TriggerConfigs, Toggle("trigger", p, r, toggled)
      PROVE  app = "trigger" /\ app' = app /\ ShellInv' /\ TriggerInv' /\ SavedInv' /\ Kept
  BY <1>1, <1>2, <1>7 DEF Toggle, Open, screenVars, ShellInv, TriggerInv, SavedInv, Kept
<1>8. app = "trigger" =>
        /\ [cfg EXCEPT !.trigger = ~@] \in TriggerConfigs
        /\ [cfg EXCEPT !.remote = ~@] \in TriggerConfigs
        /\ [cfg EXCEPT !.beep = ~@] \in TriggerConfigs
        /\ [cfg EXCEPT !.bluetooth = ~@] \in TriggerConfigs
  BY <1>2 DEF TriggerConfigs
<1>9. CASE PressChannel
  <2>1. app = "trigger" /\ UNCHANGED btVars
    BY <1>9 DEF PressChannel, Ready, Open
  <2>2. CASE Toggle("trigger", "MAIN", 0, [cfg EXCEPT !.trigger = ~@])
    BY <1>5, <1>7, <1>8, <2>1, <2>2
  <2>3. CASE Toggle("trigger", "MAIN", 1, [cfg EXCEPT !.remote = ~@])
    BY <1>5, <1>7, <1>8, <2>1, <2>3
  <2>4. CASE Toggle("trigger", "MAIN", 2, [cfg EXCEPT !.beep = ~@])
    BY <1>5, <1>7, <1>8, <2>1, <2>4
  <2> QED
    BY <1>9, <2>2, <2>3, <2>4 DEF PressChannel
<1>10. CASE OpenBluetooth
  <2>1. app = "trigger" /\ app' = app /\ ShellInv' /\ TriggerInv' /\ SavedInv' /\ Kept
    <3>1. /\ app = "trigger" /\ app' = app /\ open /\ open' = open /\ editing' = editing
          /\ page' = "BLUETOOTH" /\ row' = 0 /\ cfg' = cfg /\ saved' = saved
      BY <1>10 DEF OpenBluetooth, Ready, Goto, Open
    <3> QED
      BY <1>1, <1>2, <3>1 DEF ShellInv, TriggerInv, SavedInv, Kept
  <2>2. NoticeInv'
    BY <1>3, <1>10 DEF OpenBluetooth, NoticeInv, NoticeMatchesStatus
  <2> QED
    BY <2>1, <2>2
<1>11. CASE PressEnable
  <2>1. app = "trigger" /\ Toggle("trigger", "BLUETOOTH", 0, [cfg EXCEPT !.bluetooth = ~@])
    BY <1>11 DEF PressEnable, Ready, Open
  <2>2. NoticeInv'
    BY <1>3, <1>11 DEF PressEnable, NoticeInv, NoticeMatchesStatus
  <2> QED
    BY <1>7, <1>8, <2>1, <2>2
<1>12. ASSUME Open("trigger"), UNCHANGED <<app, open, screenVars, cfg, saved>>
       PROVE  app = "trigger" /\ app' = app /\ ShellInv' /\ TriggerInv' /\ SavedInv' /\ Kept
  BY <1>1, <1>2, <1>12 DEF Open, screenVars, ShellInv, TriggerInv, SavedInv, Kept
<1>13. CASE PressDriver
  <2>1. (brand + 1) % (Brands + 1) \in 0 .. Brands
    BY <1>3, TriggerScreensAssumption
  <2>2. NoticeInv'
    <3>1. ~asked /\ asked' = asked /\ notice' = "" /\ brand' \in 0 .. Brands
      BY <1>13, <2>1 DEF PressDriver, NextDriver, OnBluetooth, Ready
    <3> QED
      BY <3>1 DEF NoticeInv, NoticeMatchesStatus
  <2> QED
    BY <1>12, <1>13, <2>2 DEF PressDriver, OnBluetooth, Ready
<1>14. CASE PressPairCamera
  <2>1. NoticeInv'
    BY <1>3, <1>14 DEF PressPairCamera, NoticeInv, NoticeMatchesStatus, StatusLine
  <2> QED
    BY <1>12, <1>14, <2>1 DEF PressPairCamera, OnBluetooth, Ready
<1>15. CASE DoBtPair
  <2>1. NoticeInv'
    BY <1>3, <1>15 DEF DoBtPair, NoticeInv, NoticeMatchesStatus, StatusLine
  <2> QED
    BY <1>12, <1>15, <2>1 DEF DoBtPair
<1>16. CASE PressTestShot
  <2>1. NoticeInv'
    BY <1>3, <1>16 DEF PressTestShot, NoticeInv, NoticeMatchesStatus, StatusLine
  <2> QED
    BY <1>12, <1>16, <2>1 DEF PressTestShot, OnBluetooth, Ready
<1>17. CASE PressForget
  <2>1. NoticeInv'
    BY <1>3, <1>17 DEF PressForget, NoticeInv, NoticeMatchesStatus, StatusLine
  <2> QED
    BY <1>12, <1>17, <2>1 DEF PressForget, OnBluetooth, Ready
<1>18. CASE HoldTrigger
  <2>1. Ready /\ UNCHANGED btVars
    BY <1>18 DEF HoldTrigger
  <2>2. CASE page = "BLUETOOTH" /\ Goto("MAIN", 3)
    <3>1. /\ app = "trigger" /\ app' = app /\ open /\ open' = open /\ editing' = editing
          /\ page' = "MAIN" /\ row' = 3 /\ cfg' = cfg /\ saved' = saved
      BY <2>1, <2>2 DEF Ready, Goto, Open
    <3> QED
      BY <1>1, <1>2, <1>5, <2>1, <3>1 DEF ShellInv, TriggerInv, SavedInv, Kept
  <2>3. CASE page = "MAIN" /\ Leave("trigger") /\ saved' = cfg
    <3>1. /\ app = "trigger" /\ app' = app /\ open /\ open' = FALSE /\ editing' = FALSE
          /\ page' = "MAIN" /\ row' = 0 /\ cfg' = cfg /\ saved' = cfg /\ cfg \in TriggerConfigs
      BY <1>2, <2>3 DEF Leave, Open
    <3>2. ShellInv' /\ SavedInv' /\ Kept
      BY <1>1, <3>1 DEF ShellInv, SavedInv, Kept
    <3>3. TriggerInv'
      BY <3>1 DEF TriggerInv
    <3> QED
      BY <1>5, <2>1, <3>1, <3>2, <3>3
  <2> QED
    BY <1>18, <2>2, <2>3 DEF HoldTrigger
<1> QED
  BY <1>4, <1>6, <1>9, <1>10, <1>11, <1>13, <1>14, <1>15, <1>16, <1>17, <1>18 DEF TriggerNext

-----------------------------------------------------------------------------
(* SETTINGS.                                                               *)

\* Every month of every year has days.
LEMMA MonthsHaveDays ==
  ASSUME NEW y \in Int, NEW m \in DOMAIN DaysTable
  PROVE  DaysInMonth(y, m) \in Nat \ {0}
<1>1. DaysTable[m] \in Nat \ {0} /\ DaysTable[2] \in Nat \ {0}
  BY SettingScreensAssumption
<1> QED
  BY <1>1 DEF DaysInMonth

\* The fields of a time are integers in their ranges.
LEMMA TimesAreWhole ==
  ASSUME NEW t \in Times
  PROVE  /\ t.year \in Int /\ t.month \in DOMAIN DaysTable /\ t.month \in Int /\ t.day \in Nat \ {0}
         /\ t.hour \in Int /\ t.minute \in Int
         /\ t.hour \in 0 .. HourTop /\ t.minute \in 0 .. MinuteTop
         /\ t.year \in YearLow .. YearTop
<1>1. DOMAIN DaysTable \subseteq Int
  BY SettingScreensAssumption
<1>2. /\ t.year \in YearLow .. YearTop /\ t.month \in DOMAIN DaysTable /\ t.day \in Nat \ {0}
      /\ t.hour \in 0 .. HourTop /\ t.minute \in 0 .. MinuteTop
  BY DEF Times
<1>3. YearLow \in Int /\ HourTop \in Int /\ MinuteTop \in Int
  BY SettingScreensAssumption, ModeScreenAssumption
<1> QED
  BY <1>1, <1>2, <1>3

\* clampDateTime() makes a date that exists of whatever was turned.
LEMMA ClampedIsDate ==
  ASSUME NEW t \in Times
  PROVE  ClampDateTime(t) \in Times /\ IsDate(ClampDateTime(t))
<1> DEFINE c == ClampMonthOnly(t)
           D == DaysInMonth(t.year, t.month)
           day == Within(1, D, t.day)
<1>1. /\ t.year \in YearLow .. YearTop /\ t.month \in DOMAIN DaysTable /\ t.day \in Nat \ {0}
      /\ t.hour \in 0 .. HourTop /\ t.minute \in 0 .. MinuteTop
      /\ t.year \in Int /\ t.month \in Int /\ t.hour \in Int /\ t.minute \in Int
  BY TimesAreWhole
<1>2. YearLow \in Int /\ YearTop \in Int /\ HourTop \in Int /\ MinuteTop \in Int
  BY SettingScreensAssumption, ModeScreenAssumption
<1>3. Len(DaysTable) \in Int /\ DOMAIN DaysTable = 1 .. Len(DaysTable)
  BY SettingScreensAssumption
<1>4. Within(YearLow, YearTop, t.year) = t.year /\ Within(1, Len(DaysTable), t.month) = t.month
  BY <1>1, <1>2, <1>3 DEF Within, AtMost, AtLeast
<1>5. c = t
  BY <1>4 DEF ClampMonthOnly, Times
<1>6. D \in Nat \ {0}
  BY <1>1, MonthsHaveDays
<1>7. day \in 1 .. D
  <2> HIDE DEF D
  <2> QED
    BY <1>1, <1>6 DEF Within, AtMost, AtLeast
<1>8. day \in Nat \ {0}
  <2> HIDE DEF D
  <2> QED
    BY <1>6, <1>7
<1>9. ClampDateTime(t) = [t EXCEPT !.day = day]
  <2>1. ~(t.hour > HourTop) /\ ~(t.minute > MinuteTop)
    BY <1>1, <1>2
  <2>2. ClampDateTime(t) = [t EXCEPT !.day = day, !.hour = t.hour, !.minute = t.minute]
    <3> HIDE DEF c
    <3>1. ClampDateTime(t) =
            [c EXCEPT !.day    = Within(1, DaysInMonth(c.year, c.month), @),
                      !.hour   = IF @ > HourTop THEN 0 ELSE @,
                      !.minute = IF @ > MinuteTop THEN 0 ELSE @]
      BY DEF ClampDateTime, c
    <3> QED
      BY <1>5, <2>1, <3>1 DEF Times
  <2> HIDE DEF day
  <2> QED
    BY <2>2 DEF Times
<1> HIDE DEF day, D
<1>10. [t EXCEPT !.day = day] \in Times
  BY <1>8 DEF Times
<1>11. IsDate([t EXCEPT !.day = day])
  <2> DEFINE x == [t EXCEPT !.day = day]
  <2>1. x.day = day /\ x.year = t.year /\ x.month = t.month
    BY DEF Times
  <2> HIDE DEF x
  <2>2. IsDate(x)
    BY <1>7, <2>1 DEF IsDate, D
  <2> QED
    BY <2>2 DEF x
<1> QED
  BY <1>9, <1>10, <1>11

\* Turning a field of the clock leaves a time, not always one that exists.
LEMMA TurnedIsTime ==
  ASSUME NEW t \in Times, NEW d \in {-1, 1}
  PROVE  /\ TurnYear(t, d) \in Times /\ TurnMonth(t, d) \in Times /\ TurnDay(t, d) \in Times
         /\ TurnHour(t, d) \in Times /\ TurnMinute(t, d) \in Times
<1>1. /\ t.year \in YearLow .. YearTop /\ t.month \in DOMAIN DaysTable /\ t.day \in Nat \ {0}
      /\ t.hour \in 0 .. HourTop /\ t.minute \in 0 .. MinuteTop
      /\ t.year \in Int /\ t.month \in Int /\ t.hour \in Int /\ t.minute \in Int
  BY TimesAreWhole
<1>2. /\ YearLow \in Int /\ YearTop \in Int /\ YearLow <= YearTop
      /\ HourTop \in Nat /\ MinuteTop \in Nat
  BY SettingScreensAssumption, ModeScreenAssumption
<1>3. Len(DaysTable) \in Nat \ {0} /\ DOMAIN DaysTable = 1 .. Len(DaysTable)
  BY SettingScreensAssumption
<1>4. TurnYear(t, d) \in Times
  <2> DEFINE n == Around(YearLow, YearTop, t.year + d)
  <2>1. n \in YearLow .. YearTop
    BY <1>1, <1>2 DEF Around
  <2>2. TurnYear(t, d) = [t EXCEPT !.year = n]
    BY DEF TurnYear
  <2> HIDE DEF n
  <2> QED
    BY <2>1, <2>2 DEF Times
<1>5. TurnMonth(t, d) \in Times
  <2> DEFINE m == Around(1, Len(DaysTable), t.month + d)
             n == AtMost(DaysInMonth(t.year, m), t.day)
  <2>1. m \in DOMAIN DaysTable
    BY <1>1, <1>3 DEF Around
  <2>2. TurnMonth(t, d) = [t EXCEPT !.month = m, !.day = n]
    BY DEF TurnMonth
  <2> HIDE DEF m
  <2>3. DaysInMonth(t.year, m) \in Nat \ {0}
    BY <1>1, <2>1, MonthsHaveDays
  <2>4. n \in Nat \ {0}
    BY <1>1, <2>3 DEF AtMost
  <2> HIDE DEF n
  <2> QED
    BY <2>1, <2>2, <2>4 DEF Times
<1>6. TurnDay(t, d) \in Times
  <2> DEFINE D == DaysInMonth(t.year, t.month)
             n == Around(1, D, t.day + d)
  <2>1. D \in Nat \ {0}
    BY <1>1, MonthsHaveDays
  <2>2. TurnDay(t, d) = [t EXCEPT !.day = n]
    BY DEF TurnDay
  <2> HIDE DEF D
  <2>3. n \in Nat \ {0}
    BY <1>1, <2>1 DEF Around
  <2> HIDE DEF n
  <2> QED
    BY <2>2, <2>3 DEF Times
<1>7. TurnHour(t, d) \in Times
  <2> DEFINE n == Around(0, HourTop, t.hour + d)
  <2>1. n \in 0 .. HourTop
    BY <1>1, <1>2 DEF Around
  <2>2. TurnHour(t, d) = [t EXCEPT !.hour = n]
    BY DEF TurnHour
  <2> HIDE DEF n
  <2> QED
    BY <2>1, <2>2 DEF Times
<1>8. TurnMinute(t, d) \in Times
  <2> DEFINE n == Around(0, MinuteTop, t.minute + d)
  <2>1. n \in 0 .. MinuteTop
    BY <1>1, <1>2 DEF Around
  <2>2. TurnMinute(t, d) = [t EXCEPT !.minute = n]
    BY DEF TurnMinute
  <2> HIDE DEF n
  <2> QED
    BY <2>1, <2>2 DEF Times
<1> QED
  BY <1>4, <1>5, <1>6, <1>7, <1>8

\* Every step of SETTINGS keeps the mode's part of the invariant, and the clock's.
LEMMA SettingStep ==
  ASSUME IInv, SettingNext
  PROVE  /\ app = "settings" /\ app' = app
         /\ ShellInv' /\ SettingInv' /\ ClockInv' /\ SavedInv' /\ Kept
<1> DEFINE Goal == /\ app = "settings" /\ app' = app
                   /\ ShellInv' /\ SettingInv' /\ ClockInv' /\ SavedInv' /\ Kept
<1>1. app \in Apps /\ open \in BOOLEAN /\ editing \in BOOLEAN
      /\ (~open => page = "MAIN" /\ row = 0 /\ ~editing)
  BY DEF IInv, ShellInv
<1>2. app = "settings" =>
        /\ cfg \in SettingConfigs /\ saved \in SettingConfigs
        /\ page \in {"MAIN", "DATETIME", "INFO"}
        /\ (page = "MAIN" => row \in 0 .. 6 /\ (editing => row \in 2 .. 5))
        /\ (page = "DATETIME" => row \in 0 .. 4)
        /\ (page = "INFO" => ~editing)
        /\ (open => cfg.speaker = saved.speaker /\ rtc = NotWritten)
  BY DEF IInv, SettingInv
<1>3. /\ dateTime \in Times
      /\ (app = "settings" /\ open /\ ~(page = "DATETIME" /\ editing) => IsDate(dateTime))
      /\ (rtc # NotWritten => IsDate(rtc))
  BY DEF IInv, ClockInv
\* A step that is not on the way in or out, and leaves the clock alone.
<1>4. ASSUME Open("settings"), app' = app, open' = open, cfg' \in SettingConfigs, saved' \in SettingConfigs,
             cfg'.speaker = saved'.speaker, editing' \in BOOLEAN, UNCHANGED clockVars,
             page' \in {"MAIN", "DATETIME", "INFO"},
             page' = "MAIN" => row' \in 0 .. 6 /\ (editing' => row' \in 2 .. 5),
             page' = "DATETIME" => row' \in 0 .. 4,
             page' = "INFO" => ~editing',
             (page = "DATETIME" /\ editing) => (page' = "DATETIME" /\ editing')
      PROVE  Goal
  <2>1. app = "settings" /\ open /\ dateTime' = dateTime /\ rtc' = rtc
    BY <1>4 DEF Open, clockVars
  <2>2. ShellInv' /\ SavedInv' /\ Kept
    BY <1>1, <1>4, <2>1 DEF ShellInv, SavedInv, Kept
  <2>3. SettingInv'
    BY <1>2, <1>4, <2>1 DEF SettingInv
  <2>4. ClockInv'
    BY <1>3, <1>4, <2>1 DEF ClockInv, IsDate
  <2> QED
    BY <1>4, <2>1, <2>2, <2>3, <2>4
<1>5. CASE EnterSetting
  <2>1. /\ app = "settings" /\ app' = app /\ ~open /\ open' = TRUE /\ page' = "MAIN" /\ row' = 0
        /\ editing' = FALSE /\ cfg' = saved /\ saved' = saved /\ dateTime' \in Today /\ rtc' = NotWritten
    BY <1>5 DEF EnterSetting, Enter
  <2>2. ShellInv' /\ SavedInv' /\ Kept
    BY <1>1, <2>1 DEF ShellInv, SavedInv, Kept
  <2>3. SettingInv'
    BY <1>2, <2>1 DEF SettingInv
  <2>4. dateTime' \in Times /\ IsDate(dateTime')
    BY <2>1, SettingScreensAssumption
  <2>5. ClockInv'
    BY <2>1, <2>4 DEF ClockInv
  <2> QED
    BY <2>1, <2>2, <2>3, <2>5
<1> HIDE DEF Goal
<1>6. CASE SettingSelect
  <2>1. /\ Open("settings") /\ ~editing /\ UNCHANGED <<app, open, page, editing, cfg, saved>> /\ UNCHANGED clockVars
        /\ \/ page = "MAIN" /\ row' \in 0 .. 6
           \/ page = "DATETIME" /\ row' \in 0 .. 4
    BY <1>2, <1>6 DEF SettingSelect, Select, Stepped, Open
  <2> QED
    BY <1>1, <1>2, <1>4, <2>1 DEF Open, Goal
<1>7. CASE OpenSettingPage
  <2>1. /\ Open("settings") /\ ~editing /\ UNCHANGED <<app, open, editing, cfg, saved>> /\ UNCHANGED clockVars
        /\ \/ page' = "DATETIME" /\ row' = 0
           \/ page' = "INFO"
    BY <1>7 DEF OpenSettingPage, Goto, Open
  <2> QED
    BY <1>1, <1>2, <1>4, <2>1 DEF Open, Goal
<1>8. CASE CloseInfo
  <2>1. /\ Open("settings") /\ page = "INFO" /\ UNCHANGED <<app, open, editing, cfg, saved>> /\ UNCHANGED clockVars
        /\ page' = "MAIN" /\ row' = 6
    BY <1>8 DEF CloseInfo, Goto, Open
  <2> QED
    BY <1>1, <1>2, <1>4, <2>1 DEF Open, Goal
<1>9. CASE ToggleSpeaker
  <2>1. /\ Open("settings") /\ ~editing /\ UNCHANGED <<app, open, page, row, editing>> /\ UNCHANGED clockVars
        /\ cfg' = [cfg EXCEPT !.speaker = ~@] /\ saved' = [saved EXCEPT !.speaker = cfg'.speaker]
    BY <1>9 DEF ToggleSpeaker, Open, screenVars
  <2>2. cfg \in SettingConfigs /\ saved \in SettingConfigs
    BY <1>2, <2>1 DEF Open
  <2>3. cfg' \in SettingConfigs /\ cfg'.speaker \in BOOLEAN
    BY <2>1, <2>2 DEF SettingConfigs
  <2>4. saved' \in SettingConfigs /\ saved'.speaker = cfg'.speaker
    BY <2>1, <2>2, <2>3 DEF SettingConfigs
  <2> QED
    BY <1>1, <1>2, <1>4, <2>1, <2>3, <2>4 DEF Open, Goal
<1>10. CASE BeginSettingEdit
  <2>1. /\ Open("settings") /\ ~editing /\ UNCHANGED <<app, open, page, row, cfg, saved>> /\ UNCHANGED clockVars
        /\ editing' = TRUE
        /\ \/ page = "MAIN" /\ row \in 2 .. 5
           \/ page = "DATETIME" /\ row \in 0 .. 4
    BY <1>10 DEF BeginSettingEdit, BeginEdit, Open
  <2> QED
    BY <1>1, <1>2, <1>4, <2>1 DEF Open, Goal
<1>11. ASSUME NEW r, NEW turned \in SettingConfigs, turned.speaker = cfg.speaker,
              Turn("settings", "MAIN", r, turned), UNCHANGED clockVars
       PROVE  Goal
  <2>1. /\ Open("settings") /\ page = "MAIN" /\ editing /\ UNCHANGED <<app, open, page, row, editing, saved>>
        /\ cfg' = turned
    BY <1>11 DEF Turn, Open, screenVars
  <2> QED
    BY <1>1, <1>2, <1>4, <1>11, <2>1 DEF Open, Goal
<1>12. ASSUME NEW d \in {-1, 1}, TurnDisplay(d)
       PROVE  Goal
  <2>1. app = "settings" /\ UNCHANGED clockVars
    BY <1>12 DEF TurnDisplay, Turn, Open
  <2>2. cfg \in SettingConfigs
    BY <1>2, <2>1
  <2>3. CASE Turn("settings", "MAIN", 2,
                  [cfg EXCEPT !.brightness = Within(BrightnessLow, BrightnessTop, @ + d * BrightnessStep)])
    <3> DEFINE n == Within(BrightnessLow, BrightnessTop, cfg.brightness + d * BrightnessStep)
               turned == [cfg EXCEPT !.brightness = n]
    <3>1. /\ BrightnessLow \in Int /\ BrightnessTop \in Int /\ BrightnessLow <= BrightnessTop
          /\ BrightnessStep \in Int
      BY SettingScreensAssumption
    <3>2. cfg.brightness \in Int /\ d * BrightnessStep \in Int
      BY <2>2, <3>1 DEF SettingConfigs
    <3>3. n \in BrightnessLow .. BrightnessTop
      BY <3>1, <3>2 DEF Within, AtMost, AtLeast
    <3>4. Turn("settings", "MAIN", 2, turned)
      BY <2>3
    <3> HIDE DEF n
    <3>5. turned \in SettingConfigs /\ turned.speaker = cfg.speaker
      BY <2>2, <3>3 DEF SettingConfigs
    <3> HIDE DEF turned
    <3> QED
      BY <1>11, <2>1, <3>4, <3>5
  <2>4. CASE Turn("settings", "MAIN", 3, [cfg EXCEPT !.dimmer = Within(1, Len(DimmerSteps), @ + d)])
    <3> DEFINE n == Within(1, Len(DimmerSteps), cfg.dimmer + d)
               turned == [cfg EXCEPT !.dimmer = n]
    <3>1. Len(DimmerSteps) \in Nat \ {0} /\ DOMAIN DimmerSteps = 1 .. Len(DimmerSteps)
      BY SettingScreensAssumption
    <3>2. cfg.dimmer \in Int
      BY <2>2, <3>1 DEF SettingConfigs
    <3>3. n \in DOMAIN DimmerSteps
      BY <3>1, <3>2 DEF Within, AtMost, AtLeast
    <3>4. Turn("settings", "MAIN", 3, turned)
      BY <2>4
    <3> HIDE DEF n
    <3>5. turned \in SettingConfigs /\ turned.speaker = cfg.speaker
      BY <2>2, <3>3 DEF SettingConfigs
    <3> HIDE DEF turned
    <3> QED
      BY <1>11, <2>1, <3>4, <3>5
  <2>5. CASE Turn("settings", "MAIN", 4, [cfg EXCEPT !.theme = Around(0, Themes - 1, @ + d)])
    <3> DEFINE n == Around(0, Themes - 1, cfg.theme + d)
               turned == [cfg EXCEPT !.theme = n]
    <3>1. Themes \in Nat \ {0}
      BY SettingScreensAssumption
    <3>2. cfg.theme \in Int
      BY <2>2, <3>1 DEF SettingConfigs
    <3>3. n \in 0 .. Themes - 1
      BY <3>1, <3>2 DEF Around
    <3>4. Turn("settings", "MAIN", 4, turned)
      BY <2>5
    <3> HIDE DEF n
    <3>5. turned \in SettingConfigs /\ turned.speaker = cfg.speaker
      BY <2>2, <3>3 DEF SettingConfigs
    <3> HIDE DEF turned
    <3> QED
      BY <1>11, <2>1, <3>4, <3>5
  <2>6. CASE Turn("settings", "MAIN", 5, [cfg EXCEPT !.rotation = IF @ = 3 THEN 1 ELSE 3])
    <3> DEFINE turned == [cfg EXCEPT !.rotation = IF @ = 3 THEN 1 ELSE 3]
    <3>1. Turn("settings", "MAIN", 5, turned)
      BY <2>6
    <3>2. turned \in SettingConfigs /\ turned.speaker = cfg.speaker
      BY <2>2 DEF SettingConfigs
    <3> HIDE DEF turned
    <3> QED
      BY <1>11, <2>1, <3>1, <3>2
  <2> QED
    BY <1>12, <2>3, <2>4, <2>5, <2>6 DEF TurnDisplay
<1>13. ASSUME NEW d \in {-1, 1}, TurnClock(d)
       PROVE  Goal
  <2>1. /\ app = "settings" /\ open /\ page = "DATETIME" /\ editing
        /\ app' = app /\ open' = open /\ page' = page /\ row' = row /\ editing' = editing
        /\ cfg' = cfg /\ saved' = saved /\ rtc' = rtc
    BY <1>13 DEF TurnClock, Open, screenVars
  <2>2. row \in 0 .. 4
    BY <1>2, <2>1
  <2>3. dateTime' \in Times
    <3>1. CASE row = 0
      BY <1>3, <1>13, <3>1, TurnedIsTime DEF TurnClock
    <3>2. CASE row = 1
      BY <1>3, <1>13, <3>2, TurnedIsTime DEF TurnClock
    <3>3. CASE row = 2
      BY <1>3, <1>13, <3>3, TurnedIsTime DEF TurnClock
    <3>4. CASE row = 3
      BY <1>3, <1>13, <3>4, TurnedIsTime DEF TurnClock
    <3>5. CASE row = 4
      BY <1>3, <1>13, <3>5, TurnedIsTime DEF TurnClock
    <3> QED
      BY <2>2, <3>1, <3>2, <3>3, <3>4, <3>5
  <2>4. ShellInv' /\ SavedInv' /\ Kept
    BY <1>1, <2>1 DEF ShellInv, SavedInv, Kept
  <2>5. SettingInv'
    BY <1>2, <2>1 DEF SettingInv
  <2>6. ClockInv'
    BY <1>3, <2>1, <2>3 DEF ClockInv, IsDate
  <2> QED
    BY <2>1, <2>4, <2>5, <2>6 DEF Goal
<1>14. CASE EndSettingEdit
  <2>1. /\ app = "settings" /\ open /\ editing /\ editing' = FALSE
        /\ app' = app /\ open' = open /\ page' = page /\ row' = row
        /\ cfg' = cfg /\ saved' = saved /\ rtc' = rtc
        /\ dateTime' = IF page = "DATETIME" THEN ClampDateTime(dateTime) ELSE dateTime
    BY <1>14 DEF EndSettingEdit, Open
  <2>2. dateTime' \in Times /\ IsDate(dateTime')
    <3>1. CASE page = "DATETIME"
      BY <1>3, <2>1, <3>1, ClampedIsDate
    <3>2. CASE page # "DATETIME"
      BY <1>3, <2>1, <3>2
    <3> QED
      BY <3>1, <3>2
  <2>3. ShellInv' /\ SavedInv' /\ Kept
    BY <1>1, <2>1 DEF ShellInv, SavedInv, Kept
  <2>4. SettingInv'
    BY <1>2, <2>1 DEF SettingInv
  <2>5. ClockInv'
    BY <1>3, <2>1, <2>2 DEF ClockInv, IsDate
  <2> QED
    BY <2>1, <2>3, <2>4, <2>5 DEF Goal
<1>15. CASE HoldSetting
  <2>1. /\ app = "settings" /\ app' = app /\ open /\ open' = FALSE /\ page' = "MAIN" /\ row' = 0
        /\ editing' = FALSE /\ cfg' = cfg /\ saved' = [cfg EXCEPT !.speaker = saved.speaker]
        /\ dateTime' = ClampDateTime(dateTime) /\ rtc' = dateTime'
    BY <1>15 DEF HoldSetting, Leave, Open
  <2>2. cfg \in SettingConfigs /\ cfg.speaker = saved.speaker
    BY <1>2, <2>1
  <2>3. saved' = cfg
    BY <2>1, <2>2 DEF SettingConfigs
  <2>4. dateTime' \in Times /\ IsDate(dateTime')
    BY <1>3, <2>1, ClampedIsDate
  <2>5. ShellInv' /\ SavedInv' /\ Kept
    BY <1>1, <2>1, <2>3 DEF ShellInv, SavedInv, Kept
  <2>6. SettingInv'
    BY <2>1, <2>2, <2>3 DEF SettingInv
  <2>7. ClockInv'
    BY <2>1, <2>4 DEF ClockInv
  <2> QED
    BY <2>1, <2>5, <2>6, <2>7 DEF Goal
<1> QED
  BY <1>5, <1>6, <1>7, <1>8, <1>9, <1>10, <1>12, <1>13, <1>14, <1>15 DEF SettingNext, Goal

-----------------------------------------------------------------------------
(* SLEEP & WEEK.                                                           *)

\* Every step of SLEEP & WEEK's screen keeps the mode's part of the invariant.
LEMMA SleepWeekStep ==
  ASSUME IInv, SleepWeekNext
  PROVE  /\ app = "sleep_week" /\ app' = app
         /\ ShellInv' /\ SleepWeekInv' /\ SavedInv' /\ Kept
<1> DEFINE Goal == /\ app = "sleep_week" /\ app' = app
                   /\ ShellInv' /\ SleepWeekInv' /\ SavedInv' /\ Kept
<1>1. app \in Apps /\ open \in BOOLEAN /\ editing \in BOOLEAN
      /\ (~open => page = "MAIN" /\ row = 0 /\ ~editing)
  BY DEF IInv, ShellInv
<1>2. app = "sleep_week" =>
        /\ cfg \in SleepWeekConfigs /\ saved = cfg
        /\ page = "MAIN" /\ row \in 0 .. SwitchRow
        /\ (editing => row \in {SleepRow, WakeRow})
  BY DEF IInv, SleepWeekInv
<1>3. Days \in Nat /\ HourTop \in Nat /\ MinuteTop \in Nat
  BY SleepWeekScreensAssumption, ModeScreenAssumption
\* A step while the mode is open.
<1>4. ASSUME Open("sleep_week"), app' = app, open' = open, page' = "MAIN", row' \in 0 .. SwitchRow,
             editing' \in BOOLEAN, editing' => row' \in {SleepRow, WakeRow},
             cfg' \in SleepWeekConfigs, saved' = cfg'
      PROVE  Goal
  <2>1. app = "sleep_week" /\ open
    BY <1>4 DEF Open
  <2>2. ShellInv' /\ SavedInv' /\ Kept
    BY <1>1, <1>4, <2>1 DEF ShellInv, SavedInv, Kept
  <2>3. SleepWeekInv'
    BY <1>4, <2>1 DEF SleepWeekInv, SwitchRow, SleepRow, WakeRow, SleepWeekConfigs, Minutes
  <2> QED
    BY <1>4, <2>1, <2>2, <2>3
<1>5. CASE EnterSleepWeek
  <2>1. /\ app = "sleep_week" /\ app' = app /\ ~open /\ open' = TRUE /\ page' = "MAIN" /\ row' = 0
        /\ editing' = FALSE /\ cfg' = [saved EXCEPT !.mode = AtMost(2, @)] /\ saved' = saved
    BY <1>5 DEF EnterSleepWeek, Enter
  <2>2. saved \in SleepWeekConfigs
    BY <1>2, <2>1
  <2>3. AtMost(2, saved.mode) = saved.mode
    BY <2>2 DEF AtMost, SleepWeekConfigs
  <2>4. cfg' = saved
    BY <2>1, <2>2, <2>3 DEF SleepWeekConfigs
  <2>5. ShellInv' /\ SavedInv' /\ Kept
    BY <1>1, <2>1, <2>4 DEF ShellInv, SavedInv, Kept
  <2>6. 0 \in 0 .. SwitchRow
    BY <1>3 DEF SwitchRow
  <2>7. SleepWeekInv'
    BY <2>1, <2>2, <2>4, <2>6 DEF SleepWeekInv
  <2> QED
    BY <2>1, <2>5, <2>7
<1> HIDE DEF Goal
<1>6. CASE SleepWeekSelect
  <2>1. /\ Open("sleep_week") /\ ~editing /\ UNCHANGED <<app, open, page, editing, cfg, saved>>
        /\ page = "MAIN" /\ row' \in 0 .. SwitchRow
    BY <1>2, <1>6 DEF SleepWeekSelect, Select, Stepped, Open
  <2> QED
    BY <1>1, <1>2, <1>4, <2>1 DEF Open, Goal
<1>7. ASSUME NEW r, NEW toggled \in SleepWeekConfigs, Toggle("sleep_week", "MAIN", r, toggled)
      PROVE  Goal
  <2>1. /\ Open("sleep_week") /\ UNCHANGED <<app, open, page, row, editing>> /\ page = "MAIN"
        /\ cfg' = toggled /\ saved' = toggled
    BY <1>7 DEF Toggle, screenVars
  <2> QED
    BY <1>1, <1>2, <1>4, <2>1 DEF Open
<1>8. CASE ToggleDay
  <2>1. PICK day \in 0 .. Days - 1 :
          Toggle("sleep_week", "MAIN", day,
                 [cfg EXCEPT !.days = IF day \in @ THEN @ \ {day} ELSE @ \cup {day}])
    BY <1>8 DEF ToggleDay
  <2>2. cfg \in SleepWeekConfigs
    BY <1>2, <2>1 DEF Toggle, Open
  <2> DEFINE n == IF day \in cfg.days THEN cfg.days \ {day} ELSE cfg.days \cup {day}
             toggled == [cfg EXCEPT !.days = n]
  <2>3. n \in SUBSET (0 .. Days - 1)
    <3>1. cfg.days \in SUBSET (0 .. Days - 1)
      BY <2>2 DEF SleepWeekConfigs
    <3> QED
      BY <3>1
  <2>4. Toggle("sleep_week", "MAIN", day, toggled)
    BY <2>1
  <2> HIDE DEF n
  <2>5. toggled \in SleepWeekConfigs
    BY <2>2, <2>3 DEF SleepWeekConfigs
  <2> HIDE DEF toggled
  <2> QED
    BY <1>7, <2>4, <2>5 DEF Goal
<1>9. CASE CycleMode
  <2> DEFINE n == Around(0, 2, cfg.mode + 1)
             toggled == [cfg EXCEPT !.mode = n]
  <2>1. Toggle("sleep_week", "MAIN", ModeRow, toggled)
    BY <1>9 DEF CycleMode
  <2>2. cfg \in SleepWeekConfigs
    BY <1>2, <2>1 DEF Toggle, Open
  <2>3. n \in 0 .. 2
    BY <2>2 DEF Around, SleepWeekConfigs
  <2> HIDE DEF n
  <2>4. toggled \in SleepWeekConfigs
    BY <2>2, <2>3 DEF SleepWeekConfigs
  <2> HIDE DEF toggled
  <2> QED
    BY <1>7, <2>1, <2>4 DEF Goal
<1>10. CASE EnableScheduler
  <2> DEFINE toggled == [cfg EXCEPT !.on = ~@]
  <2>1. Toggle("sleep_week", "MAIN", SwitchRow, toggled)
    BY <1>10 DEF EnableScheduler
  <2>2. cfg \in SleepWeekConfigs
    BY <1>2, <2>1 DEF Toggle, Open
  <2>3. toggled \in SleepWeekConfigs
    BY <2>2 DEF SleepWeekConfigs
  <2> HIDE DEF toggled
  <2> QED
    BY <1>7, <2>1, <2>3 DEF Goal
<1>11. CASE BeginTimeEdit
  <2>1. /\ Open("sleep_week") /\ UNCHANGED <<app, open, page, row, cfg, saved>> /\ page = "MAIN"
        /\ row \in {SleepRow, WakeRow} /\ editing' = TRUE
    BY <1>11 DEF BeginTimeEdit, BeginEdit
  <2> QED
    BY <1>2, <1>4, <2>1 DEF Open, Goal
<1>12. ASSUME NEW d \in {-1, 1}, TurnTime(d)
       PROVE  Goal
  <2>1. /\ Open("sleep_week") /\ editing /\ UNCHANGED <<app, open, page, row, editing>> /\ saved' = cfg'
        /\ cfg' = IF row = SleepRow THEN [cfg EXCEPT !.sleep = TurnedTime(cfg.sleep, d)]
                  ELSE                   [cfg EXCEPT !.wake  = TurnedTime(cfg.wake, d)]
    BY <1>12 DEF TurnTime, screenVars
  <2>2. cfg \in SleepWeekConfigs
    BY <1>2, <2>1 DEF Open
  <2>3. ASSUME NEW t \in Minutes PROVE TurnedTime(t, d) \in Minutes
    <3> DEFINE h == Around(0, HourTop, t.hour + d)
               m == Around(0, MinuteTop, t.minute + d)
    <3>1. h \in 0 .. HourTop /\ m \in 0 .. MinuteTop
      BY <1>3 DEF Around, Minutes
    <3>2. TurnedTime(t, d) = IF field = "hour" THEN [t EXCEPT !.hour = h] ELSE [t EXCEPT !.minute = m]
      BY DEF TurnedTime
    <3> HIDE DEF h, m
    <3>3. [t EXCEPT !.hour = h] \in Minutes /\ [t EXCEPT !.minute = m] \in Minutes
      BY <3>1 DEF Minutes
    <3> QED
      BY <3>2, <3>3
  <2> DEFINE s == TurnedTime(cfg.sleep, d)
             w == TurnedTime(cfg.wake, d)
  <2>4. s \in Minutes /\ w \in Minutes
    BY <2>2, <2>3 DEF SleepWeekConfigs
  <2>5. cfg' = IF row = SleepRow THEN [cfg EXCEPT !.sleep = s] ELSE [cfg EXCEPT !.wake = w]
    BY <2>1
  <2> HIDE DEF s, w
  <2>6. [cfg EXCEPT !.sleep = s] \in SleepWeekConfigs /\ [cfg EXCEPT !.wake = w] \in SleepWeekConfigs
    BY <2>2, <2>4 DEF SleepWeekConfigs
  <2>7. cfg' \in SleepWeekConfigs
    BY <2>5, <2>6
  <2> QED
    BY <1>1, <1>2, <1>4, <2>1, <2>7 DEF Open
<1>13. CASE PressTime
  <2>1. /\ Open("sleep_week") /\ editing /\ UNCHANGED <<app, open, page, row, cfg, saved>>
        /\ editing' \in BOOLEAN
    BY <1>1, <1>13 DEF PressTime
  <2> QED
    BY <1>2, <1>4, <2>1 DEF Open, Goal
<1>14. CASE HoldSleepWeek
  <2>1. /\ app = "sleep_week" /\ app' = app /\ open /\ open' = FALSE /\ page' = "MAIN" /\ row' = 0
        /\ editing' = FALSE /\ cfg' = cfg /\ saved' = cfg /\ cfg \in SleepWeekConfigs
    BY <1>2, <1>14 DEF HoldSleepWeek, Leave, Open
  <2>2. ShellInv' /\ SavedInv' /\ Kept
    BY <1>1, <2>1 DEF ShellInv, SavedInv, Kept
  <2>3. 0 \in 0 .. SwitchRow
    BY <1>3 DEF SwitchRow
  <2>4. SleepWeekInv'
    BY <2>1, <2>3 DEF SleepWeekInv
  <2> QED
    BY <2>1, <2>2, <2>4 DEF Goal
<1> QED
  BY <1>5, <1>6, <1>8, <1>9, <1>10, <1>11, <1>12, <1>13, <1>14 DEF SleepWeekNext, Goal

-----------------------------------------------------------------------------
(* FOR DEVELOP.                                                            *)

RawDevelop ==
  [single : BOOLEAN, interval : Int, minBulb : Int, maxBulb : Int, rest : Int,
   delay : Int, detect : Int, filter : BOOLEAN, near : Int, far : Int]

\* A valid configuration is one that could be validated.
LEMMA DevelopIsRaw ==
  ASSUME NEW c \in DevelopConfigs
  PROVE  /\ c \in RawDevelop
         /\ c.interval \in IntervalLow .. IntervalTop /\ c.minBulb \in 1 .. BulbTop
         /\ c.maxBulb \in 1 .. BulbTop + 1 /\ c.rest \in 0 .. RestTop /\ c.delay \in 0 .. DelayTop
         /\ c.detect \in DetectLow .. DetectTop /\ c.near \in 0 .. FarTop /\ c.far \in 0 .. FarTop
         /\ c.near < c.far /\ c.minBulb <= c.maxBulb
BY DevelopScreensAssumption DEF DevelopConfigs, RawDevelop

\* What turning a row leaves in force is in range, a range the right way round,
\* and the longest exposure no shorter than the shortest.
LEMMA DevelopTurnsStayInRange ==
  ASSUME NEW c \in DevelopConfigs, NEW d \in {-1, 1}
  PROVE  /\ TurnInterval(c, d) \in DevelopConfigs
         /\ TurnMinBulb(c, d) \in DevelopConfigs
         /\ TurnMaxBulb(c, d) \in DevelopConfigs
         /\ TurnRest(c, d) \in DevelopConfigs
         /\ TurnDelay(c, d) \in DevelopConfigs
         /\ TurnDetect(c, d) \in DevelopConfigs
         /\ TurnNear(c, d) \in DevelopConfigs
         /\ TurnFar(c, d) \in DevelopConfigs
<1>1. /\ IntervalLow \in Int /\ IntervalTop \in Int /\ IntervalLow <= IntervalTop /\ IntervalKnee \in Int
      /\ BulbTop \in Nat \ {0} /\ RestTop \in Nat /\ RestKnee \in Int /\ RestFactor \in Int
      /\ DelayTop \in Nat /\ FarTop \in Nat
      /\ DetectLow \in Int /\ DetectTop \in Int /\ DetectLow <= DetectTop
  BY DevelopScreensAssumption
<1>2. /\ c.interval \in IntervalLow .. IntervalTop /\ c.minBulb \in 1 .. BulbTop
      /\ c.maxBulb \in 1 .. BulbTop + 1 /\ c.rest \in 0 .. RestTop /\ c.delay \in 0 .. DelayTop
      /\ c.detect \in DetectLow .. DetectTop /\ c.near \in 0 .. FarTop /\ c.far \in 0 .. FarTop
      /\ c.near < c.far /\ c.minBulb <= c.maxBulb
  BY DevelopIsRaw
<1>3. TurnInterval(c, d) \in DevelopConfigs
  <2> DEFINE n == Within(IntervalLow, IntervalTop,
                         c.interval + d * (IF c.interval >= IntervalKnee THEN 2 ELSE 1))
  <2>1. n \in IntervalLow .. IntervalTop
    BY <1>1, <1>2 DEF Within, AtMost, AtLeast
  <2>2. TurnInterval(c, d) = [c EXCEPT !.interval = n]
    BY DEF TurnInterval
  <2> HIDE DEF n
  <2>3. [c EXCEPT !.interval = n] \in DevelopConfigs
    BY <2>1 DEF DevelopConfigs
  <2> QED
    BY <2>2, <2>3
<1>4. TurnMinBulb(c, d) \in DevelopConfigs
  <2> DEFINE n == Within(1, BulbTop, c.minBulb + d)
             m == IF c.maxBulb <= n THEN n + 1 ELSE c.maxBulb
             x == [c EXCEPT !.minBulb = n, !.maxBulb = m]
  <2>1. n \in 1 .. BulbTop
    BY <1>1, <1>2 DEF Within, AtMost, AtLeast
  <2>2. TurnMinBulb(c, d) = x
    BY DEF TurnMinBulb, DevelopConfigs
  <2> HIDE DEF n
  <2>3. m \in 1 .. BulbTop + 1 /\ n <= m
    BY <1>1, <1>2, <2>1
  <2> HIDE DEF m
  <2>4. x.minBulb = n /\ x.maxBulb = m /\ x.near = c.near /\ x.far = c.far
    BY DEF DevelopConfigs
  <2>5. x \in DevelopConfigs
    BY <2>1, <2>3, <2>4 DEF DevelopConfigs
  <2> QED
    BY <2>2, <2>5
<1>5. TurnMaxBulb(c, d) \in DevelopConfigs
  <2> DEFINE m == AtMost(BulbTop, AtLeast(c.minBulb + 1, c.maxBulb + d))
             x == [c EXCEPT !.maxBulb = m]
  <2>1. m \in 1 .. BulbTop + 1 /\ c.minBulb <= m
    BY <1>1, <1>2 DEF AtMost, AtLeast
  <2>2. TurnMaxBulb(c, d) = x
    BY DEF TurnMaxBulb
  <2> HIDE DEF m
  <2>3. x.minBulb = c.minBulb /\ x.maxBulb = m /\ x.near = c.near /\ x.far = c.far
    BY DEF DevelopConfigs
  <2>4. x \in DevelopConfigs
    BY <2>1, <2>3 DEF DevelopConfigs
  <2> QED
    BY <2>2, <2>4
<1>6. TurnRest(c, d) \in DevelopConfigs
  <2> DEFINE f == IF c.rest >= RestKnee THEN RestFactor ELSE 1
             n == Within(0, RestTop, c.rest + d * f)
  <2>1. n \in 0 .. RestTop
    <3>1. f \in Int
      BY <1>1
    <3> HIDE DEF f
    <3>2. c.rest + d * f \in Int
      BY <1>1, <1>2, <3>1
    <3> QED
      BY <1>1, <3>2 DEF Within, AtMost, AtLeast
  <2>2. TurnRest(c, d) = [c EXCEPT !.rest = n]
    BY DEF TurnRest
  <2> HIDE DEF n
  <2>3. [c EXCEPT !.rest = n] \in DevelopConfigs
    BY <2>1 DEF DevelopConfigs
  <2> QED
    BY <2>2, <2>3
<1>7. TurnDelay(c, d) \in DevelopConfigs
  <2> DEFINE n == Within(0, DelayTop, c.delay + d)
  <2>1. n \in 0 .. DelayTop
    BY <1>1, <1>2 DEF Within, AtMost, AtLeast
  <2>2. TurnDelay(c, d) = [c EXCEPT !.delay = n]
    BY DEF TurnDelay
  <2> HIDE DEF n
  <2>3. [c EXCEPT !.delay = n] \in DevelopConfigs
    BY <2>1 DEF DevelopConfigs
  <2> QED
    BY <2>2, <2>3
<1>8. TurnDetect(c, d) \in DevelopConfigs
  <2> DEFINE n == Within(DetectLow, DetectTop, c.detect + d)
  <2>1. n \in DetectLow .. DetectTop
    BY <1>1, <1>2 DEF Within, AtMost, AtLeast
  <2>2. TurnDetect(c, d) = [c EXCEPT !.detect = n]
    BY DEF TurnDetect
  <2> HIDE DEF n
  <2>3. [c EXCEPT !.detect = n] \in DevelopConfigs
    BY <2>1 DEF DevelopConfigs
  <2> QED
    BY <2>2, <2>3
<1>9. TurnNear(c, d) \in DevelopConfigs
  <2> DEFINE n == AtMost(c.far - 1, AtLeast(0, c.near + d))
             x == [c EXCEPT !.near = n]
  <2>1. n \in 0 .. FarTop /\ n < c.far
    BY <1>1, <1>2 DEF AtMost, AtLeast
  <2>2. TurnNear(c, d) = x
    BY DEF TurnNear
  <2> HIDE DEF n
  <2>3. x.minBulb = c.minBulb /\ x.maxBulb = c.maxBulb /\ x.near = n /\ x.far = c.far
    BY DEF DevelopConfigs
  <2>4. x \in DevelopConfigs
    BY <2>1, <2>3 DEF DevelopConfigs
  <2> QED
    BY <2>2, <2>4
<1>10. TurnFar(c, d) \in DevelopConfigs
  <2> DEFINE n == AtMost(FarTop, AtLeast(c.near + 1, c.far + d))
             x == [c EXCEPT !.far = n]
  <2>1. n \in 0 .. FarTop /\ c.near < n
    BY <1>1, <1>2 DEF AtMost, AtLeast
  <2>2. TurnFar(c, d) = x
    BY DEF TurnFar
  <2> HIDE DEF n
  <2>3. x.minBulb = c.minBulb /\ x.maxBulb = c.maxBulb /\ x.near = c.near /\ x.far = n
    BY DEF DevelopConfigs
  <2>4. x \in DevelopConfigs
    BY <2>1, <2>3 DEF DevelopConfigs
  <2> QED
    BY <2>2, <2>4
<1> QED
  BY <1>3, <1>4, <1>5, <1>6, <1>7, <1>8, <1>9, <1>10

\* Every step of FOR DEVELOP's pages keeps the mode's part of the invariant.
LEMMA DevelopStep ==
  ASSUME IInv, DevelopNext
  PROVE  /\ app = "develop" /\ app' = app
         /\ ShellInv' /\ DevelopInv' /\ SavedInv' /\ Kept
<1> DEFINE Goal == /\ app = "develop" /\ app' = app
                   /\ ShellInv' /\ DevelopInv' /\ SavedInv' /\ Kept
<1>1. app \in Apps /\ open \in BOOLEAN /\ editing \in BOOLEAN
      /\ (~open => page = "MAIN" /\ row = 0 /\ ~editing)
      /\ (open /\ ~editing /\ app = "develop" => saved = cfg)
  BY DEF IInv, ShellInv, SavedInv
<1>2. app = "develop" =>
        /\ cfg \in DevelopConfigs /\ saved \in DevelopConfigs
        /\ page \in {"MAIN", "ADVANCE", "SENSOR", "TRIGOUT"} /\ row \in 0 .. RowCount(page) - 1
        /\ (editing => page \in {"ADVANCE", "SENSOR"})
  BY DEF IInv, DevelopInv
<1>3. RowCount("MAIN") = 2 /\ RowCount("ADVANCE") = 9 /\ RowCount("SENSOR") = 5 /\ RowCount("TRIGOUT") = 4
  BY DEF RowCount
\* A step while the mode is open.
<1>4. ASSUME Open("develop"), app' = app, open' = open, editing' \in BOOLEAN,
             page' \in {"MAIN", "ADVANCE", "SENSOR", "TRIGOUT"}, row' \in 0 .. RowCount(page') - 1,
             editing' => page' \in {"ADVANCE", "SENSOR"},
             cfg' \in DevelopConfigs, saved' \in DevelopConfigs, editing' \/ saved' = cfg'
      PROVE  Goal
  <2>1. app = "develop" /\ open
    BY <1>4 DEF Open
  <2>2. ShellInv' /\ SavedInv' /\ Kept
    BY <1>1, <1>4, <2>1 DEF ShellInv, SavedInv, Kept
  <2>3. DevelopInv'
    BY <1>4, <2>1 DEF DevelopInv, RowCount
  <2> QED
    BY <1>4, <2>1, <2>2, <2>3
\* A step to or from the launcher.
<1>5. ASSUME app = "develop", app' = app, open' # open, open' \in BOOLEAN, page' = "MAIN", row' = 0, editing' = FALSE,
             cfg' \in DevelopConfigs, saved' = cfg', ~open => cfg' = saved, open => saved' = cfg
      PROVE  Goal
  <2>1. ShellInv' /\ SavedInv' /\ Kept
    BY <1>1, <1>5 DEF ShellInv, SavedInv, Kept
  <2>2. 0 \in 0 .. RowCount("MAIN") - 1
    BY <1>3
  <2>3. DevelopInv'
    BY <1>5, <2>2 DEF DevelopInv
  <2> QED
    BY <1>5, <2>1, <2>3
<1> HIDE DEF Goal
<1>6. CASE EnterDevelop
  <2>1. /\ app = "develop" /\ app' = app /\ ~open /\ open' = TRUE /\ page' = "MAIN" /\ row' = 0 /\ editing' = FALSE
        /\ cfg' = saved /\ saved' = saved
    BY <1>6 DEF EnterDevelop, Enter
  <2> QED
    BY <1>2, <1>5, <2>1 DEF Goal
<1>7. CASE RotateDevelop
  <2>1. /\ Open("develop") /\ ~editing /\ UNCHANGED <<app, open, page, editing, cfg, saved>>
        /\ \E d \in {-1, 1} : row' = Around(0, RowCount(page) - 1, row + d)
    BY <1>7 DEF RotateDevelop
  <2>2. RowCount(page) \in Nat \ {0} /\ row \in Int
    BY <1>2, <1>3, <2>1 DEF Open
  <2>3. row' \in 0 .. RowCount(page) - 1
    BY <2>1, <2>2 DEF Around
  <2>4. /\ page \in {"MAIN", "ADVANCE", "SENSOR", "TRIGOUT"} /\ cfg \in DevelopConfigs /\ saved \in DevelopConfigs
        /\ saved = cfg
    BY <1>1, <1>2, <2>1 DEF Open
  <2> QED
    BY <1>1, <1>4, <2>1, <2>3, <2>4 DEF Goal
\* Going to another page, saved or not.
<1>8. ASSUME Open("develop"), ~editing, UNCHANGED <<app, open, editing, cfg>>, saved' \in {saved, cfg},
             page' \in {"MAIN", "ADVANCE", "SENSOR", "TRIGOUT"}, row' \in 0 .. RowCount(page') - 1
      PROVE  Goal
  <2>1. saved' = cfg /\ cfg \in DevelopConfigs /\ editing' = FALSE
    BY <1>1, <1>2, <1>8 DEF Open
  <2> QED
    BY <1>4, <1>8, <2>1
<1>9. CASE OpenDevelopPage
  <2>1. /\ Open("develop") /\ ~editing /\ UNCHANGED <<app, open, editing, cfg>> /\ saved' = saved
        /\ page' \in {"ADVANCE", "SENSOR", "TRIGOUT"} /\ row' = 0
    BY <1>9 DEF OpenDevelopPage, Deeper, Goto
  <2>2. 0 \in 0 .. RowCount(page') - 1
    BY <1>3, <2>1
  <2> QED
    BY <1>8, <2>1, <2>2 DEF Goal
<1>10. CASE DevelopBack
  <2>1. /\ Open("develop") /\ ~editing /\ UNCHANGED <<app, open, editing, cfg>> /\ saved' = cfg
        /\ \/ page' = "MAIN" /\ row' = 0
           \/ page' = "ADVANCE" /\ row' \in {6, 7}
    BY <1>10 DEF DevelopBack, Back, AdvanceRow
  <2>2. row' \in 0 .. RowCount(page') - 1
    BY <1>3, <2>1
  <2> QED
    BY <1>8, <2>1, <2>2 DEF Goal
<1>11. CASE PressTrigRow
  <2>1. /\ Open("develop") /\ page = "TRIGOUT" /\ row # 3 /\ UNCHANGED <<app, open, editing, cfg, saved>>
        /\ page' = "TRIGOUT" /\ row' = row + 1
    BY <1>11 DEF PressTrigRow, Goto, TrigRow
  <2>2. row \in 0 .. 3 /\ ~editing
    BY <1>2, <1>3, <2>1 DEF Open
  <2>3. row' \in 0 .. RowCount(page') - 1
    BY <1>3, <2>1, <2>2
  <2> QED
    BY <1>8, <2>1, <2>2, <2>3 DEF Goal
<1>12. ASSUME NEW p, NEW r, NEW toggled \in DevelopConfigs, Toggle("develop", p, r, toggled)
       PROVE  Goal
  <2>1. /\ Open("develop") /\ UNCHANGED <<app, open, page, row, editing>> /\ cfg' = toggled /\ saved' = toggled
    BY <1>12 DEF Toggle, screenVars
  <2>2. /\ page \in {"MAIN", "ADVANCE", "SENSOR", "TRIGOUT"} /\ row \in 0 .. RowCount(page) - 1
        /\ (editing => page \in {"ADVANCE", "SENSOR"}) /\ editing \in BOOLEAN
    BY <1>1, <1>2, <2>1 DEF Open
  <2> QED
    BY <1>4, <2>1, <2>2
<1>13. CASE ToggleDevelop
  <2>1. app = "develop"
    BY <1>13 DEF ToggleDevelop, Toggle, Open
  <2>2. cfg \in DevelopConfigs
    BY <1>2, <2>1
  <2> DEFINE single == [cfg EXCEPT !.single = ~@]
             filter == [cfg EXCEPT !.filter = ~@]
  <2>3. single \in DevelopConfigs /\ filter \in DevelopConfigs
    BY <2>2 DEF DevelopConfigs
  <2>4. Toggle("develop", "ADVANCE", AdvanceRow.shoot, single) \/ Toggle("develop", "SENSOR", SensorRow.filter, filter)
    BY <1>13 DEF ToggleDevelop
  <2> HIDE DEF single, filter
  <2> QED
    BY <1>12, <2>3, <2>4 DEF Goal
<1>14. CASE BeginDevelopEdit
  <2>1. /\ Open("develop") /\ UNCHANGED <<app, open, page, row, cfg, saved>> /\ editing' = TRUE
        /\ page \in {"ADVANCE", "SENSOR"}
    BY <1>14 DEF BeginDevelopEdit, BeginEdit
  <2>2. row \in 0 .. RowCount(page) - 1 /\ cfg \in DevelopConfigs /\ saved \in DevelopConfigs
    BY <1>2, <2>1 DEF Open
  <2> QED
    BY <1>4, <2>1, <2>2 DEF Goal
<1>15. ASSUME NEW p, NEW r, NEW turned \in DevelopConfigs, Turn("develop", p, r, turned)
       PROVE  Goal
  <2>1. /\ Open("develop") /\ editing /\ UNCHANGED <<app, open, page, row, editing, saved>> /\ cfg' = turned
    BY <1>15 DEF Turn, screenVars
  <2>2. /\ page \in {"MAIN", "ADVANCE", "SENSOR", "TRIGOUT"} /\ row \in 0 .. RowCount(page) - 1
        /\ page \in {"ADVANCE", "SENSOR"} /\ editing \in BOOLEAN /\ saved \in DevelopConfigs
    BY <1>1, <1>2, <2>1 DEF Open
  <2> QED
    BY <1>4, <2>1, <2>2
<1>16. ASSUME NEW d \in {-1, 1}, TurnDevelop(d)
       PROVE  Goal
  <2>1. app = "develop"
    BY <1>16 DEF TurnDevelop, Turn, Open
  <2>2. cfg \in DevelopConfigs
    BY <1>2, <2>1
  <2>3. /\ TurnInterval(cfg, d) \in DevelopConfigs /\ TurnMinBulb(cfg, d) \in DevelopConfigs
        /\ TurnMaxBulb(cfg, d) \in DevelopConfigs /\ TurnRest(cfg, d) \in DevelopConfigs
        /\ TurnDelay(cfg, d) \in DevelopConfigs /\ TurnDetect(cfg, d) \in DevelopConfigs
        /\ TurnNear(cfg, d) \in DevelopConfigs /\ TurnFar(cfg, d) \in DevelopConfigs
    BY <2>2, DevelopTurnsStayInRange
  <2> QED
    BY <1>15, <1>16, <2>3 DEF TurnDevelop
<1>17. CASE EndDevelopEdit
  <2>1. /\ Open("develop") /\ UNCHANGED <<app, open, page, row, cfg>> /\ editing' = FALSE /\ saved' = cfg
    BY <1>17 DEF EndDevelopEdit, EndEdit
  <2>2. /\ page \in {"MAIN", "ADVANCE", "SENSOR", "TRIGOUT"} /\ row \in 0 .. RowCount(page) - 1
        /\ cfg \in DevelopConfigs
    BY <1>2, <2>1 DEF Open
  <2> QED
    BY <1>4, <2>1, <2>2 DEF Goal
<1>18. CASE HoldDevelop
  <2>1. /\ app = "develop" /\ app' = app /\ open /\ open' = FALSE /\ page' = "MAIN" /\ row' = 0 /\ editing' = FALSE
        /\ cfg' = cfg /\ saved' = cfg
    BY <1>18 DEF HoldDevelop, Leave, Open
  <2> QED
    BY <1>2, <1>5, <2>1 DEF Goal
<1> QED
  BY <1>6, <1>7, <1>9, <1>10, <1>11, <1>13, <1>14, <1>16, <1>17, <1>18 DEF DevelopNext, Goal

-----------------------------------------------------------------------------
(* OTA UPDATE.                                                             *)

\* A list is as long as there is room, and names what it was made from.
LEMMA InOrderRuns ==
  ASSUME NEW max \in Nat, NEW n \in Nat, NEW S \in SUBSET (1 .. n), NEW p \in InOrder(max, S)
  PROVE  \E m \in Nat : p \in [1 .. m -> S]
<1>1. IsFiniteSet(1 .. n)
  BY FS_Interval
<1>2. IsFiniteSet(S)
  BY <1>1, FS_Subset
<1>3. Cardinality(S) \in Nat
  BY <1>2, FS_CardinalityType
<1>4. AtMost(max, Cardinality(S)) \in Nat
  BY <1>3 DEF AtMost
<1>5. p \in [1 .. AtMost(max, Cardinality(S)) -> S]
  BY DEF InOrder
<1> QED
  BY <1>4, <1>5

\* The length and the entries of a list.
LEMMA ListFacts ==
  ASSUME NEW T, NEW s \in Seq(T)
  PROVE  Len(s) \in Nat /\ DOMAIN s = 1 .. Len(s) /\ \A i \in 1 .. Len(s) : s[i] \in T
OBVIOUS

\* A function from 1 .. n is a list.
LEMMA FunctionIsList ==
  ASSUME NEW T, NEW m \in Nat, NEW s \in [1 .. m -> T]
  PROVE  s \in Seq(T)
OBVIOUS

\* scanNetworks() lists named networks only.
LEMMA ScannedIsList ==
  ASSUME NEW air \in Air, NEW list \in Scanned(air)
  PROVE  list \in Seq(WifiEntries)
<1> DEFINE T == [ssid : Networks \cup {""}, open : BOOLEAN]
<1>1. air \in Seq(T) /\ MaxWifi \in Nat
  BY OtaScreensAssumption
<1> HIDE DEF T
<1>2. Len(air) \in Nat /\ DOMAIN air = 1 .. Len(air) /\ \A i \in 1 .. Len(air) : air[i] \in T
  BY <1>1, ListFacts
<1>3. Named(air) \in SUBSET (1 .. Len(air))
  BY <1>2 DEF Named
<1>4. PICK p \in InOrder(MaxWifi, Named(air)) :
        list = [k \in DOMAIN p |-> [ssid |-> air[p[k]].ssid, open |-> air[p[k]].open, saved |-> Known(air[p[k]].ssid)]]
  BY DEF Scanned
<1>5. PICK m \in Nat : p \in [1 .. m -> Named(air)]
  BY <1>1, <1>2, <1>3, <1>4, InOrderRuns
<1>6. ASSUME NEW k \in 1 .. m
      PROVE  [ssid |-> air[p[k]].ssid, open |-> air[p[k]].open, saved |-> Known(air[p[k]].ssid)] \in WifiEntries
  <2>1. p[k] \in Named(air)
    BY <1>5
  <2>2. p[k] \in DOMAIN air /\ air[p[k]].ssid # ""
    BY <2>1 DEF Named
  <2>3. air[p[k]] \in T
    BY <1>2, <2>2
  <2>4. air[p[k]].ssid \in Networks /\ air[p[k]].open \in BOOLEAN
    BY <2>2, <2>3 DEF T
  <2>5. Known(air[p[k]].ssid) \in BOOLEAN
    BY DEF Known
  <2> QED
    BY <2>4, <2>5 DEF WifiEntries
<1>7. DOMAIN p = 1 .. m
  BY <1>5
<1>8. list \in [1 .. m -> WifiEntries]
  BY <1>4, <1>6, <1>7
<1> QED
  BY <1>8, FunctionIsList

\* fetchReleases() lists releases that have firmware, each with its own.
LEMMA FetchedIsList ==
  ASSUME NEW catalog \in Catalogs \cup {<<>>}, NEW list \in Fetched(catalog)
  PROVE  /\ list \in Seq([tag : Tags, url : Tags])
         /\ \A i \in DOMAIN list : list[i].url = list[i].tag
<1> DEFINE T == [tag : Tags, firmware : BOOLEAN]
           U == [tag : Tags, url : Tags]
<1>1. catalog \in Seq(T) /\ MaxReleases \in Nat
  <2>1. Catalogs \subseteq Seq(T) /\ MaxReleases \in Nat
    BY OtaScreensAssumption
  <2> HIDE DEF T
  <2>2. <<>> \in Seq(T)
    OBVIOUS
  <2> QED
    BY <2>1, <2>2
<1> HIDE DEF T
<1>2. Len(catalog) \in Nat /\ DOMAIN catalog = 1 .. Len(catalog) /\ \A i \in 1 .. Len(catalog) : catalog[i] \in T
  BY <1>1, ListFacts
<1>3. Usable(catalog) \in SUBSET (1 .. Len(catalog))
  BY <1>2 DEF Usable
<1>4. PICK p \in InOrder(MaxReleases, Usable(catalog)) :
        list = [k \in DOMAIN p |-> [tag |-> catalog[p[k]].tag, url |-> FirmwareOf(catalog, p[k])]]
  BY DEF Fetched
<1>5. PICK m \in Nat : p \in [1 .. m -> Usable(catalog)]
  BY <1>1, <1>2, <1>3, <1>4, InOrderRuns
<1>6. ASSUME NEW k \in 1 .. m
      PROVE  /\ catalog[p[k]].tag \in Tags
             /\ FirmwareOf(catalog, p[k]) = catalog[p[k]].tag
  <2>1. p[k] \in Usable(catalog)
    BY <1>5
  <2>2. p[k] \in DOMAIN catalog /\ FirmwareOf(catalog, p[k]) # NoImage
    BY <2>1 DEF Usable
  <2>3. catalog[p[k]] \in T
    BY <1>2, <2>2
  <2>4. catalog[p[k]].tag \in Tags
    BY <2>3 DEF T
  <2> QED
    BY <2>2, <2>4 DEF FirmwareOf
<1>7. DOMAIN p = 1 .. m
  BY <1>5
<1>8. \A k \in 1 .. m : list[k] = [tag |-> catalog[p[k]].tag, url |-> catalog[p[k]].tag]
  BY <1>4, <1>6, <1>7
<1>9. list = [k \in 1 .. m |-> list[k]]
  BY <1>4, <1>7
<1>10. list \in [1 .. m -> U]
  BY <1>6, <1>8, <1>9
<1>11. DOMAIN list = 1 .. m /\ \A i \in 1 .. m : list[i].url = list[i].tag
  BY <1>8, <1>10
<1> HIDE DEF U
<1>12. list \in Seq(U)
  BY <1>10, FunctionIsList
<1> QED
  BY <1>11, <1>12 DEF U

\* Every step of OTA UPDATE keeps the mode's part of the invariant.
LEMMA OtaStep ==
  ASSUME IInv, OtaNext
  PROVE  /\ app = "ota" /\ app' = app
         /\ ShellInv' /\ OtaInv' /\ FlashInv' /\ SavedInv' /\ Kept
<1> DEFINE Goal == /\ app = "ota" /\ app' = app
                   /\ ShellInv' /\ OtaInv' /\ FlashInv' /\ SavedInv' /\ Kept
<1>1. app \in Apps /\ open \in BOOLEAN /\ editing \in BOOLEAN
      /\ (~open => page = "MAIN" /\ row = 0 /\ ~editing)
  BY DEF IInv, ShellInv
<1>2. app = "ota" =>
        /\ page \in OtaPages /\ ~editing /\ saved = cfg
        /\ wifi \in Seq(WifiEntries) /\ sel \in 0 .. Len(wifi)
        /\ (page \in {"PASSWORD", "CONNECTING"} => sel < Len(wifi))
        /\ rel \in Seq([tag : Tags, url : Tags]) /\ (\A i \in DOMAIN rel : rel[i].url = rel[i].tag)
        /\ (page \in {"RELEASE_LIST", "CONFIRM", "FLASHING"} => relSel \in 0 .. Len(rel) - 1)
        /\ (page = "FLASHING" => agreed = rel[relSel + 1].tag)
        /\ key \in 0 .. 3 + Letters /\ pwd \in {"empty", "right", "wrong"}
  BY DEF IInv, OtaInv
<1>3. /\ (boots # NoImage => page = "DONE")
      /\ (page = "DONE" => app = "ota" /\ boots = agreed)
      /\ creds \in [Networks -> {"none", "empty", "right"}]
  BY DEF IInv, FlashInv
<1>4. Letters \in Nat \ {0}
  BY OtaScreensAssumption
\* A step from screen to screen.
<1>5. ASSUME app = "ota", open, NEW p \in OtaPages, Show(p),
             wifi' \in Seq(WifiEntries), sel' \in 0 .. Len(wifi'),
             p \in {"PASSWORD", "CONNECTING"} => sel' < Len(wifi'),
             rel' \in Seq([tag : Tags, url : Tags]), \A i \in DOMAIN rel' : rel'[i].url = rel'[i].tag,
             p \in {"RELEASE_LIST", "CONFIRM", "FLASHING"} => relSel' \in 0 .. Len(rel') - 1,
             p = "FLASHING" => agreed' = rel'[relSel' + 1].tag,
             key' \in 0 .. 3 + Letters, pwd' \in {"empty", "right", "wrong"},
             boots' # NoImage => p = "DONE",
             p = "DONE" => boots' = agreed',
             creds' \in [Networks -> {"none", "empty", "right"}]
      PROVE  Goal
  <2>1. app' = app /\ open' = open /\ page' = p /\ row' = row /\ editing' = editing /\ cfg' = cfg /\ saved' = saved
    BY <1>5 DEF Show
  <2>2. ShellInv' /\ SavedInv' /\ Kept
    BY <1>1, <1>2, <1>5, <2>1 DEF ShellInv, SavedInv, Kept
  <2>3. OtaInv'
    BY <1>2, <1>5, <2>1 DEF OtaInv
  <2>4. FlashInv'
    BY <1>5, <2>1 DEF FlashInv
  <2> QED
    BY <1>5, <2>1, <2>2, <2>3, <2>4
\* A step to or from the launcher.
<1>6. ASSUME app = "ota", app' = app, open' # open, open' \in BOOLEAN,
             page' = (IF open' THEN "WIFI_SCAN" ELSE "MAIN"),
             open' => row' = row /\ editing' = editing, ~open' => row' = 0 /\ editing' = FALSE,
             cfg' = cfg, saved' = saved,
             wifi' \in Seq(WifiEntries), sel' \in 0 .. Len(wifi'),
             rel' \in Seq([tag : Tags, url : Tags]), \A i \in DOMAIN rel' : rel'[i].url = rel'[i].tag,
             key' \in 0 .. 3 + Letters, pwd' \in {"empty", "right", "wrong"},
             boots' = NoImage, creds' = creds
      PROVE  Goal
  <2>1. page' \in {"WIFI_SCAN", "MAIN"} /\ editing' = FALSE /\ (~open' => page' = "MAIN" /\ row' = 0)
    BY <1>1, <1>2, <1>6
  <2>2. ShellInv' /\ SavedInv' /\ Kept
    BY <1>1, <1>2, <1>6, <2>1 DEF ShellInv, SavedInv, Kept
  <2>3. OtaInv'
    BY <1>2, <1>6, <2>1 DEF OtaInv, OtaPages
  <2>4. FlashInv'
    BY <1>3, <1>6, <2>1 DEF FlashInv
  <2> QED
    BY <1>6, <2>2, <2>3, <2>4
<1> HIDE DEF Goal
<1>7. CASE EnterOta
  <2>1. /\ app = "ota" /\ app' = app /\ open = FALSE /\ open' = TRUE /\ page' = "WIFI_SCAN"
        /\ row' = row /\ editing' = editing /\ cfg' = cfg /\ saved' = saved
        /\ wifi' = wifi /\ sel' = 0 /\ rel' = rel /\ key' = 4 /\ pwd' = "empty"
        /\ boots' = boots /\ creds' = creds
    BY <1>1, <1>7 DEF EnterOta
  <2>2. boots' = NoImage
    BY <1>1, <1>3, <2>1
  <2>3. 4 \in 0 .. 3 + Letters /\ 0 \in 0 .. Len(wifi)
    BY <1>2, <1>4, <2>1
  <2> QED
    BY <1>2, <1>6, <2>1, <2>2, <2>3 DEF Goal
\* What holds on an open screen.
<1>8. ASSUME NEW p, At(p)
      PROVE  /\ app = "ota" /\ open /\ page = p
             /\ wifi \in Seq(WifiEntries) /\ sel \in 0 .. Len(wifi) /\ Len(wifi) \in Nat /\ sel \in Int
             /\ rel \in Seq([tag : Tags, url : Tags]) /\ (\A i \in DOMAIN rel : rel[i].url = rel[i].tag)
             /\ Len(rel) \in Nat
             /\ key \in 0 .. 3 + Letters /\ pwd \in {"empty", "right", "wrong"}
             /\ creds \in [Networks -> {"none", "empty", "right"}]
             /\ (p # "DONE" => boots = NoImage)
  BY <1>2, <1>3, <1>8 DEF At, Open
<1>9. CASE ScanWifi
  <2>1. At("WIFI_SCAN") /\ sel' = 0 /\ Show("WIFI_LIST") /\ UNCHANGED <<rel, relSel, key, pwd, creds, agreed, boots>>
    BY <1>9 DEF ScanWifi
  <2>2. wifi' \in Seq(WifiEntries)
    BY <1>9, ScannedIsList DEF ScanWifi
  <2>3. 0 \in 0 .. Len(wifi')
    BY <2>2
  <2> QED
    BY <1>5, <1>8, <2>1, <2>2, <2>3 DEF Goal, OtaPages
<1>10. CASE TurnWifi
  <2>1. At("WIFI_LIST") /\ Show("WIFI_LIST") /\ UNCHANGED <<wifi, rel, relSel, key, pwd, creds, agreed, boots>>
        /\ \E d \in {-1, 1} : sel' = Within(0, Len(wifi), sel + d)
    BY <1>10 DEF TurnWifi
  <2>2. sel' \in 0 .. Len(wifi')
    BY <1>8, <2>1 DEF Within, AtMost, AtLeast
  <2> QED
    BY <1>5, <1>8, <2>1, <2>2 DEF Goal, OtaPages
<1>11. CASE PressWifi
  <2> DEFINE chosen == wifi[sel + 1]
             known  == chosen.saved /\ Known(chosen.ssid)
             next   == IF chosen.open \/ known THEN "CONNECTING" ELSE "PASSWORD"
  <2>1. /\ At("WIFI_LIST") /\ sel < Len(wifi) /\ UNCHANGED <<listVars, creds, agreed, boots>>
        /\ pwd' = IF ~chosen.open /\ known THEN creds[chosen.ssid] ELSE "empty"
        /\ key' = IF chosen.open \/ known THEN key ELSE 4
        /\ Show(next)
    BY <1>11 DEF PressWifi
  <2>2. chosen \in WifiEntries
    BY <1>8, <2>1
  <2>3. creds[chosen.ssid] \in {"none", "empty", "right"}
    BY <1>8, <2>1, <2>2 DEF WifiEntries
  <2>4. pwd' \in {"empty", "right", "wrong"}
    BY <2>1, <2>3 DEF Known
  <2>5. key' \in 0 .. 3 + Letters
    BY <1>4, <1>8, <2>1
  <2>6. next \in {"PASSWORD", "CONNECTING"}
    OBVIOUS
  <2> HIDE DEF chosen, known, next
  <2>7. next \in OtaPages /\ next # "DONE" /\ next \notin {"RELEASE_LIST", "CONFIRM", "FLASHING"}
    BY <2>6 DEF OtaPages
  <2>8. wifi' = wifi /\ sel' = sel /\ rel' = rel /\ creds' = creds /\ boots' = NoImage
    BY <1>8, <2>1 DEF listVars
  <2> QED
    BY <1>5, <1>8, <2>1, <2>4, <2>5, <2>7, <2>8 DEF Goal
<1>12. CASE TurnKeyboard
  <2>1. At("PASSWORD") /\ Show("PASSWORD") /\ UNCHANGED <<listVars, pwd, creds, agreed, boots>>
        /\ \E d \in {-1, 1} : key' = Around(0, 3 + Letters, key + d)
    BY <1>12 DEF TurnKeyboard
  <2>2. key' \in 0 .. 3 + Letters
    BY <1>4, <1>8, <2>1 DEF Around
  <2> QED
    BY <1>2, <1>5, <1>8, <2>1, <2>2 DEF Goal, OtaPages, listVars
<1>13. CASE PressKey
  <2>1. At("PASSWORD") /\ Show("PASSWORD") /\ UNCHANGED <<listVars, key, creds, agreed, boots>>
        /\ pwd' \in {pwd, "empty", "right", "wrong"}
    BY <1>13 DEF PressKey
  <2> QED
    BY <1>2, <1>5, <1>8, <2>1 DEF Goal, OtaPages, listVars
<1>14. CASE KeyboardBack
  <2>1. At("PASSWORD") /\ Show("WIFI_LIST") /\ UNCHANGED <<listVars, key, creds, agreed, boots>> /\ pwd' = "empty"
    BY <1>14 DEF KeyboardBack
  <2> QED
    BY <1>5, <1>8, <2>1 DEF Goal, OtaPages, listVars
<1>15. CASE KeyboardDone
  <2>1. At("PASSWORD") /\ Show("CONNECTING") /\ UNCHANGED otaVars
    BY <1>15 DEF KeyboardDone
  <2> QED
    BY <1>2, <1>5, <1>8, <2>1 DEF Goal, OtaPages, otaVars
<1>16. CASE Connect
  <2>1. PICK joined \in BOOLEAN :
          /\ joined => wifi[sel + 1].open \/ pwd = "right"
          /\ Connected(joined)
          /\ Show(IF joined THEN "FETCH_LIST" ELSE "ERROR")
    BY <1>16 DEF Connect
  <2>2. At("CONNECTING") /\ UNCHANGED <<listVars, key, pwd, agreed, boots>>
    BY <1>16 DEF Connect
  <2>3. sel < Len(wifi)
    BY <1>2, <1>8, <2>2
  <2>4. wifi[sel + 1] \in WifiEntries
    BY <1>8, <2>2, <2>3
  <2>5. creds' \in [Networks -> {"none", "empty", "right"}]
    BY <1>8, <2>1, <2>2, <2>4 DEF Connected, WifiEntries
  <2> DEFINE next == IF joined THEN "FETCH_LIST" ELSE "ERROR"
  <2>6. Show(next) /\ next \in {"FETCH_LIST", "ERROR"}
    BY <2>1
  <2> HIDE DEF next
  <2>7. next \in OtaPages /\ next \notin {"DONE", "PASSWORD", "CONNECTING", "RELEASE_LIST", "CONFIRM", "FLASHING"}
    BY <2>6 DEF OtaPages
  <2>8. wifi' = wifi /\ sel' = sel /\ rel' = rel /\ key' = key /\ pwd' = pwd /\ boots' = NoImage
    BY <1>8, <2>2 DEF listVars
  <2> QED
    BY <1>5, <1>8, <2>2, <2>5, <2>6, <2>7, <2>8 DEF Goal
<1>17. CASE FetchReleases
  <2> DEFINE next == IF rel' # <<>> THEN "RELEASE_LIST" ELSE "ERROR"
  <2>1. /\ At("FETCH_LIST") /\ UNCHANGED <<wifi, sel, key, pwd, creds, agreed, boots>>
        /\ relSel' = (IF rel' # <<>> THEN 0 ELSE relSel) /\ Show(next)
    BY <1>17 DEF FetchReleases
  <2>2. rel' \in Seq([tag : Tags, url : Tags]) /\ (\A i \in DOMAIN rel' : rel'[i].url = rel'[i].tag)
    BY <1>17, FetchedIsList DEF FetchReleases
  <2>3. rel' # <<>> => Len(rel') > 0 /\ relSel' \in 0 .. Len(rel') - 1
    BY <2>1, <2>2
  <2>4. next \in {"RELEASE_LIST", "ERROR"} /\ (next = "RELEASE_LIST" => rel' # <<>>)
    OBVIOUS
  <2> HIDE DEF next
  <2> QED
    BY <1>5, <1>8, <2>1, <2>2, <2>3, <2>4 DEF Goal, OtaPages
<1>18. CASE TurnReleases
  <2>1. /\ At("RELEASE_LIST") /\ Show("RELEASE_LIST") /\ UNCHANGED <<wifi, sel, rel, key, pwd, creds, agreed, boots>>
        /\ \E d \in {-1, 1} : relSel' = Within(0, Len(rel) - 1, relSel + d)
    BY <1>18 DEF TurnReleases
  <2>2. relSel \in 0 .. Len(rel) - 1
    BY <1>2, <1>8, <2>1
  <2>3. relSel' \in 0 .. Len(rel') - 1
    BY <1>8, <2>1, <2>2 DEF Within, AtMost, AtLeast
  <2> QED
    BY <1>5, <1>8, <2>1, <2>3 DEF Goal, OtaPages
<1>19. CASE PressRelease \/ HoldConfirm
  <2>1. /\ At("RELEASE_LIST") \/ At("CONFIRM")
        /\ Show("CONFIRM") \/ Show("RELEASE_LIST")
        /\ UNCHANGED otaVars
    BY <1>19 DEF PressRelease, HoldConfirm
  <2>2. relSel \in 0 .. Len(rel) - 1
    BY <1>2, <1>8, <2>1
  <2> QED
    BY <1>5, <1>8, <2>1, <2>2 DEF Goal, OtaPages, otaVars
<1>20. CASE PressStart
  <2>1. /\ At("CONFIRM") /\ Show("FLASHING") /\ UNCHANGED <<listVars, key, pwd, creds, boots>>
        /\ agreed' = rel[relSel + 1].tag
    BY <1>20 DEF PressStart
  <2>2. relSel \in 0 .. Len(rel) - 1
    BY <1>2, <1>8, <2>1
  <2> QED
    BY <1>5, <1>8, <2>1, <2>2 DEF Goal, OtaPages, listVars
<1>21. CASE Flash
  <2>1. /\ At("FLASHING") /\ UNCHANGED <<listVars, key, pwd, creds, agreed>>
        /\ \/ boots' = rel[relSel + 1].url /\ Show("DONE")
           \/ boots' = boots /\ Show("ERROR")
    BY <1>21 DEF Flash
  <2>2. relSel \in 0 .. Len(rel) - 1 /\ agreed = rel[relSel + 1].tag
    BY <1>2, <1>8, <2>1
  <2>3. rel[relSel + 1].url = agreed
    BY <1>8, <2>1, <2>2
  <2> QED
    BY <1>5, <1>8, <2>1, <2>3 DEF Goal, OtaPages, listVars
<1>22. CASE Reboot
  <2>1. /\ app = "ota" /\ app' = app /\ open = TRUE /\ open' = FALSE /\ page' = "MAIN"
        /\ row' = 0 /\ editing' = FALSE /\ cfg' = cfg /\ saved' = saved
        /\ wifi' = <<>> /\ sel' = 0 /\ rel' = <<>> /\ key' = 4 /\ pwd' = "empty"
        /\ boots' = NoImage /\ creds' = creds
    BY <1>1, <1>22 DEF Reboot, ExitOta, Leave, At, Open
  <2>2. /\ 4 \in 0 .. 3 + Letters /\ 0 \in 0 .. Len(<<>>)
        /\ <<>> \in Seq(WifiEntries) /\ <<>> \in Seq([tag : Tags, url : Tags]) /\ DOMAIN <<>> = {}
    BY <1>4
  <2> QED
    BY <1>6, <2>1, <2>2 DEF Goal
<1>23. CASE Retry
  <2>1. At("ERROR") /\ Show("WIFI_SCAN") /\ UNCHANGED otaVars
    BY <1>23 DEF Retry
  <2>2. /\ wifi' = wifi /\ sel' = sel /\ rel' = rel /\ key' = key /\ pwd' = pwd /\ creds' = creds
        /\ boots' = NoImage
    BY <1>8, <2>1 DEF otaVars
  <2>3. "WIFI_SCAN" \in OtaPages
    BY DEF OtaPages
  <2> QED
    BY <1>5, <1>8, <2>1, <2>2, <2>3 DEF Goal
<1>24. CASE LeaveOta
  <2>1. PICK p \in {"WIFI_LIST", "RELEASE_LIST", "ERROR"} : At(p)
    BY <1>24 DEF LeaveOta
  <2>2. /\ app = "ota" /\ app' = app /\ open = TRUE /\ open' = FALSE /\ page' = "MAIN"
        /\ row' = 0 /\ editing' = FALSE /\ cfg' = cfg /\ saved' = saved /\ UNCHANGED otaVars
    BY <1>1, <1>24 DEF LeaveOta, ExitOta, Leave, Open
  <2>3. boots = NoImage
    BY <1>8, <2>1
  <2> QED
    BY <1>6, <1>8, <2>1, <2>2, <2>3 DEF Goal, otaVars
<1> QED
  BY <1>7, <1>9, <1>10, <1>11, <1>12, <1>13, <1>14, <1>15, <1>16, <1>17, <1>18, <1>19, <1>20, <1>21, <1>22,
     <1>23, <1>24 DEF OtaNext, Goal

-----------------------------------------------------------------------------
(* All of them.                                                            *)

\* A mode's part of the invariant says nothing of another mode, and what only
\* one mode changes keeps its part when it is left alone.
LEMMA OthersKeep ==
  ASSUME IInv, app' = app
  PROVE  /\ app # "timelapse" => TimelapseInv'
         /\ app # "auto_shoot" => AutoShootInv'
         /\ app # "trigger" => TriggerInv'
         /\ app # "settings" => SettingInv'
         /\ app # "sleep_week" => SleepWeekInv'
         /\ app # "develop" => DevelopInv'
         /\ app # "ota" => OtaInv'
         /\ app # "settings" /\ UNCHANGED clockVars => ClockInv'
         /\ UNCHANGED btVars => NoticeInv'
         /\ app # "ota" /\ page' # "DONE" /\ UNCHANGED otaVars => FlashInv'
<1>1. /\ app # "timelapse" => TimelapseInv'
      /\ app # "auto_shoot" => AutoShootInv'
      /\ app # "trigger" => TriggerInv'
      /\ app # "settings" => SettingInv'
  BY DEF TimelapseInv, AutoShootInv, TriggerInv, SettingInv
<1>2. /\ app # "sleep_week" => SleepWeekInv'
      /\ app # "develop" => DevelopInv'
      /\ app # "ota" => OtaInv'
  BY DEF SleepWeekInv, DevelopInv, OtaInv
<1>3. app # "settings" /\ UNCHANGED clockVars => ClockInv'
  BY DEF IInv, ClockInv, clockVars, IsDate
<1>4. UNCHANGED btVars => NoticeInv'
  <2> SUFFICES ASSUME UNCHANGED btVars PROVE NoticeInv'
    OBVIOUS
  <2>1. brand' = brand /\ paired' = paired /\ notice' = notice /\ asked' = asked
    BY DEF btVars
  <2>2. StatusLine' = StatusLine
    BY <2>1 DEF StatusLine
  <2>3. NoticeInv
    BY DEF IInv
  <2> QED
    BY <2>1, <2>2, <2>3 DEF NoticeInv, NoticeMatchesStatus
<1>5. app # "ota" /\ page' # "DONE" /\ UNCHANGED otaVars => FlashInv'
  BY DEF IInv, FlashInv, otaVars
<1> QED
  BY <1>1, <1>2, <1>3, <1>4, <1>5

\* Power-up with whatever flash holds.
LEMMA InitInv == Init => IInv
<1> SUFFICES ASSUME Init PROVE IInv
  OBVIOUS
<1>1. /\ app \in Apps /\ saved \in Stored[app] /\ open = FALSE /\ page = "MAIN" /\ row = 0 /\ editing = FALSE
      /\ cfg = saved
      /\ brand = 0 /\ paired = {} /\ notice = "" /\ asked = FALSE
      /\ dateTime \in Today /\ rtc = NotWritten
      /\ wifi = <<>> /\ sel = 0 /\ rel = <<>> /\ relSel = 0 /\ key = 4 /\ pwd = "empty"
      /\ creds = [n \in Networks |-> "none"] /\ agreed = NoImage /\ boots = NoImage
  BY DEF Init, ScreenInit, TriggerInit, SettingInit, OtaInit
<1>2. ShellInv /\ SavedInv
  BY <1>1 DEF ShellInv, SavedInv
<1>20. ~open /\ page = "MAIN" /\ row = 0 /\ ~editing /\ cfg = saved
  BY <1>1
<1>3. TimelapseInv
  <2>1. app = "timelapse" => saved \in TimelapseConfigs
    BY <1>1, StoredAssumption
  <2> QED
    BY <1>20, <2>1 DEF TimelapseInv
<1>4. AutoShootInv
  <2>1. app = "auto_shoot" => saved \in AutoShootConfigs
    BY <1>1, StoredAssumption
  <2> QED
    BY <1>20, <2>1 DEF AutoShootInv
<1>5. TriggerInv
  <2>1. app = "trigger" => saved \in TriggerConfigs
    BY <1>1, StoredAssumption
  <2> QED
    BY <1>20, <2>1 DEF TriggerInv
<1>6. SettingInv
  <2>1. app = "settings" => saved \in SettingConfigs
    BY <1>1, StoredAssumption
  <2> QED
    BY <1>20, <2>1 DEF SettingInv
<1>7. SleepWeekInv
  <2>1. 0 \in 0 .. SwitchRow
    BY SleepWeekScreensAssumption DEF SwitchRow
  <2> QED
    BY <1>1, <2>1, StoredAssumption DEF SleepWeekInv
<1>8. DevelopInv
  <2>1. 0 \in 0 .. RowCount("MAIN") - 1
    BY DEF RowCount
  <2> QED
    BY <1>1, <2>1, StoredAssumption DEF DevelopInv
<1>9. OtaInv
  <2>1. /\ wifi \in Seq(WifiEntries) /\ sel \in 0 .. Len(wifi)
        /\ rel \in Seq([tag : Tags, url : Tags]) /\ DOMAIN rel = {}
    <3>1. wifi = <<>> /\ sel = 0 /\ rel = <<>>
      BY <1>1
    <3> QED
      BY <3>1
  <2>2. key \in 0 .. 3 + Letters
    <3>1. Letters \in Nat \ {0}
      BY OtaScreensAssumption
    <3>2. key = 4
      BY <1>1
    <3> QED
      BY <3>1, <3>2
  <2>3. /\ page \in OtaPages /\ page \notin {"PASSWORD", "CONNECTING", "RELEASE_LIST", "CONFIRM", "FLASHING"}
        /\ ~editing /\ saved = cfg /\ pwd \in {"empty", "right", "wrong"}
    BY <1>1 DEF OtaPages
  <2>4. \A j \in DOMAIN rel : rel[j].url = rel[j].tag
    BY <2>1
  <2> QED
    BY <2>1, <2>2, <2>3, <2>4 DEF OtaInv
<1>10. FlashInv
  BY <1>1 DEF FlashInv
<1>11. ClockInv
  BY <1>1, SettingScreensAssumption DEF ClockInv
<1>12. NoticeInv
  <2>1. brand \in 0 .. Brands
    <3>1. brand = 0
      BY <1>1
    <3> QED
      BY <3>1, TriggerScreensAssumption
  <2>2. NoticeMatchesStatus
    BY <1>1 DEF NoticeMatchesStatus
  <2> QED
    BY <1>1, <2>1, <2>2 DEF NoticeInv
<1> QED
  BY <1>2, <1>3, <1>4, <1>5, <1>6, <1>7, <1>8, <1>9, <1>10, <1>11, <1>12 DEF IInv

\* A flat battery closes whatever is open, and forgets what is not in flash.
LEMMA FlatBatteryStep ==
  ASSUME IInv, FlatBattery, UNCHANGED <<clockVars, otaVars, field>>
  PROVE  IInv' /\ Kept /\ ~open'
<1>1. /\ app \in Apps /\ open \in BOOLEAN /\ editing \in BOOLEAN /\ (open /\ ~editing /\ app # "settings" => saved = cfg)
      /\ (app = "settings" /\ open => rtc = NotWritten)
  BY DEF IInv, ShellInv, SavedInv, SettingInv
<1>2. /\ open /\ app # "ota" /\ app' = app /\ open' = FALSE /\ page' = "MAIN" /\ row' = 0 /\ editing' = FALSE
      /\ saved' \in {cfg, saved} /\ cfg' = saved'
      /\ (app \in {"trigger", "sleep_week", "develop"} => saved' = cfg)
      /\ (app \notin {"trigger", "sleep_week", "develop"} => saved' = saved)
      /\ notice' = "" /\ asked' = FALSE /\ brand' = brand /\ paired' = paired
  BY DEF FlatBattery
<1>3. dateTime' = dateTime /\ rtc' = rtc /\ UNCHANGED otaVars
  BY DEF clockVars
<1>4. ShellInv' /\ SavedInv' /\ Kept
  <2>1. CASE app = "settings"
    BY <1>1, <1>2, <1>3, <2>1 DEF ShellInv, SavedInv, Kept
  <2>2. CASE app # "settings"
    BY <1>1, <1>2, <2>2 DEF ShellInv, SavedInv, Kept
  <2> QED
    BY <2>1, <2>2
<1>20. /\ ~open' /\ page' = "MAIN" /\ row' = 0 /\ ~editing' /\ app' = app
       /\ cfg' = saved' /\ (saved' = cfg \/ saved' = saved)
  BY <1>2
<1>5. TimelapseInv'
  <2>1. app = "timelapse" => cfg \in TimelapseConfigs /\ saved \in TimelapseConfigs
    BY DEF IInv, TimelapseInv
  <2> QED
    BY <1>20, <2>1 DEF TimelapseInv
<1>6. AutoShootInv'
  <2>1. app = "auto_shoot" => cfg \in AutoShootConfigs /\ saved \in AutoShootConfigs
    BY DEF IInv, AutoShootInv
  <2> QED
    BY <1>20, <2>1 DEF AutoShootInv
<1>7. TriggerInv'
  <2>1. app = "trigger" => cfg \in TriggerConfigs /\ saved \in TriggerConfigs
    BY DEF IInv, TriggerInv
  <2> QED
    BY <1>20, <2>1 DEF TriggerInv
<1>8. SettingInv'
  <2>1. app = "settings" => cfg \in SettingConfigs /\ saved \in SettingConfigs
    BY DEF IInv, SettingInv
  <2> QED
    BY <1>20, <2>1 DEF SettingInv
<1>9. SleepWeekInv'
  <2>1. 0 \in 0 .. SwitchRow
    BY SleepWeekScreensAssumption DEF SwitchRow
  <2> QED
    BY <1>2, <2>1 DEF IInv, SleepWeekInv
<1>10. DevelopInv'
  <2>1. 0 \in 0 .. RowCount("MAIN") - 1
    BY DEF RowCount
  <2> QED
    BY <1>2, <2>1 DEF IInv, DevelopInv
<1>11. OtaInv' /\ FlashInv'
  BY <1>2, <1>3, OthersKeep
<1>12. ClockInv'
  BY <1>2, <1>3 DEF IInv, ClockInv, IsDate
<1>13. NoticeInv'
  BY <1>2 DEF IInv, NoticeInv, NoticeMatchesStatus
<1> QED
  BY <1>2, <1>4, <1>5, <1>6, <1>7, <1>8, <1>9, <1>10, <1>11, <1>12, <1>13 DEF IInv

\* What no step may do to flash, or to the field the calculator holds.
Held == app = "timelapse" /\ open /\ open' /\ page = "MAIN" /\ cfg' # cfg => CalculatorKeeps(cfg, cfg', row)

\* Every step of every mode keeps the invariant, flash and the held field.
LEMMA StepInv ==
  ASSUME IInv, Next
  PROVE  IInv' /\ Kept /\ Held
<1>1. CASE TimelapseNext /\ UNCHANGED <<btVars, clockVars, otaVars, field>>
  <2>1. /\ app = "timelapse" /\ app' = app /\ ShellInv' /\ TimelapseInv' /\ SavedInv' /\ Kept
        /\ Held /\ UNCHANGED btVars /\ UNCHANGED clockVars /\ UNCHANGED otaVars
    BY <1>1, TimelapseStep DEF Held
  <2>2. page' # "DONE"
    BY <2>1 DEF TimelapseInv
  <2> QED
    BY <2>1, <2>2, OthersKeep DEF IInv
<1>2. CASE AutoShootNext /\ UNCHANGED <<btVars, clockVars, otaVars, field>>
  <2>1. /\ app = "auto_shoot" /\ app' = app /\ ShellInv' /\ AutoShootInv' /\ SavedInv' /\ Kept
        /\ UNCHANGED btVars /\ UNCHANGED clockVars /\ UNCHANGED otaVars
    BY <1>2, AutoShootStep
  <2>2. page' # "DONE"
    BY <2>1 DEF AutoShootInv
  <2> QED
    BY <2>1, <2>2, OthersKeep DEF IInv, Held
<1>3. CASE TriggerNext /\ UNCHANGED <<clockVars, otaVars, field>>
  <2>1. /\ app = "trigger" /\ app' = app /\ ShellInv' /\ TriggerInv' /\ SavedInv' /\ NoticeInv' /\ Kept
        /\ UNCHANGED clockVars /\ UNCHANGED otaVars
    BY <1>3, TriggerStep
  <2>2. page' # "DONE"
    BY <2>1 DEF TriggerInv
  <2> QED
    BY <2>1, <2>2, OthersKeep DEF IInv, Held
<1>4. CASE SettingNext /\ UNCHANGED <<btVars, otaVars, field>>
  <2>1. /\ app = "settings" /\ app' = app /\ ShellInv' /\ SettingInv' /\ ClockInv' /\ SavedInv' /\ Kept
        /\ UNCHANGED btVars /\ UNCHANGED otaVars
    BY <1>4, SettingStep
  <2>2. page' # "DONE"
    BY <2>1 DEF SettingInv
  <2> QED
    BY <2>1, <2>2, OthersKeep DEF IInv, Held
<1>5. CASE OtaNext /\ UNCHANGED <<btVars, clockVars, field>>
  <2>1. /\ app = "ota" /\ app' = app /\ ShellInv' /\ OtaInv' /\ FlashInv' /\ SavedInv' /\ Kept
        /\ UNCHANGED btVars /\ UNCHANGED clockVars
    BY <1>5, OtaStep
  <2> QED
    BY <2>1, OthersKeep DEF IInv, Held
<1>6. CASE SleepWeekNext /\ UNCHANGED <<btVars, clockVars, otaVars>>
  <2>1. /\ app = "sleep_week" /\ app' = app /\ ShellInv' /\ SleepWeekInv' /\ SavedInv' /\ Kept
        /\ UNCHANGED btVars /\ UNCHANGED clockVars /\ UNCHANGED otaVars
    BY <1>6, SleepWeekStep
  <2>2. page' # "DONE"
    BY <2>1 DEF SleepWeekInv
  <2> QED
    BY <2>1, <2>2, OthersKeep DEF IInv, Held
<1>7. CASE DevelopNext /\ UNCHANGED <<btVars, clockVars, otaVars>> /\ UNCHANGED field
  <2>1. /\ app = "develop" /\ app' = app /\ ShellInv' /\ DevelopInv' /\ SavedInv' /\ Kept
        /\ UNCHANGED btVars /\ UNCHANGED clockVars /\ UNCHANGED otaVars
    BY <1>7, DevelopStep
  <2>2. page' # "DONE"
    BY <2>1 DEF DevelopInv
  <2> QED
    BY <2>1, <2>2, OthersKeep DEF IInv, Held
<1>8. CASE FlatBattery /\ UNCHANGED <<clockVars, otaVars, field>>
  BY <1>8, FlatBatteryStep DEF Held
<1> QED
  BY <1>1, <1>2, <1>3, <1>4, <1>5, <1>6, <1>7, <1>8 DEF Next

\* Nothing happens: everything stands.
LEMMA StutterInv == IInv /\ UNCHANGED vars => IInv'
<1> SUFFICES ASSUME IInv, UNCHANGED vars PROVE IInv'
  OBVIOUS
<1> USE DEF vars, screenVars, btVars, clockVars, otaVars
<1>1. ShellInv' /\ SavedInv'
  BY DEF IInv, ShellInv, SavedInv
<1>2. TimelapseInv' /\ AutoShootInv' /\ TriggerInv'
  BY DEF IInv, TimelapseInv, AutoShootInv, TriggerInv
<1>3. SettingInv' /\ ClockInv' /\ NoticeInv'
  BY DEF IInv, SettingInv, ClockInv, NoticeInv, NoticeMatchesStatus, StatusLine
<1>4. SleepWeekInv' /\ DevelopInv'
  BY DEF IInv, SleepWeekInv, DevelopInv
<1>5. OtaInv' /\ FlashInv'
  BY DEF IInv, OtaInv, FlashInv
<1> QED
  BY <1>1, <1>2, <1>3, <1>4, <1>5 DEF IInv

\* Every mode's screens, opened and left again and again, for every range,
\* calendar, scan and catalog: the inductive invariant.
THEOREM Invariance == Spec => []IInv
<1>1. IInv /\ [Next]_vars => IInv'
  BY StepInv, StutterInv
<1> QED
  BY InitInv, <1>1, PTL DEF Spec

-----------------------------------------------------------------------------
(* The row in hand.                                                        *)

\* A window that follows the selection shows it.
LEMMA SelectionIsDrawn ==
  ASSUME NEW fits \in Nat \ {0}, NEW count \in Nat, NEW s \in 0 .. count - 1
  PROVE  s \in Drawn(fits, s, count)
BY DEF Drawn, FirstVisible

\* The row in hand of a frame is lit, or has the accent.
LEMMA HandStandsOut ==
  ASSUME NEW rows, NEW hand \in rows, NEW accented \in BOOLEAN
  PROVE  /\ hand \in DOMAIN FrameOf(rows, hand, accented)
         /\ FrameOf(rows, hand, accented)[hand] = (IF accented THEN "accent" ELSE "lit")
BY DEF FrameOf

\* Page by page: the row the invariant allows is one the page draws.
LEMMA LitFromInv == IInv => RowInHandIsLit
<1> SUFFICES ASSUME IInv, open, NEW i \in Cursor
             PROVE  /\ i \in DOMAIN Frame
                    /\ ~StrayEdit =>
                         /\ Frame[i] # "plain"
                         /\ (editing => i \notin Buttons)
                         /\ (i \notin Buttons => (Frame[i] = "accent" <=> editing))
  BY DEF RowInHandIsLit
<1>0. ASSUME NEW a \in BOOLEAN, i \in DOMAIN Frame,
             ~StrayEdit => /\ Frame[i] = (IF a THEN "accent" ELSE "lit")
                           /\ (editing => a /\ i \notin Buttons)
                           /\ (a /\ i \notin Buttons => editing)
      PROVE  /\ i \in DOMAIN Frame
             /\ ~StrayEdit =>
                  /\ Frame[i] # "plain"
                  /\ (editing => i \notin Buttons)
                  /\ (i \notin Buttons => (Frame[i] = "accent" <=> editing))
  <2>1. "accent" # "plain" /\ "lit" # "plain" /\ "lit" # "accent"
    OBVIOUS
  <2> QED
    BY <1>0, <2>1, Zenon
<1>1. app \in Apps /\ editing \in BOOLEAN
  BY DEF IInv, ShellInv
<1>2. app # "ota" => page # "INFO" /\ i = row
  BY DEF Cursor
<1>3. VisibleRows \in Nat \ {0}
  BY ModeScreenAssumption
<1>4. CASE app = "timelapse"
  <2>1. /\ page \in {"MAIN", "ADVANCE"} /\ row \in 0 .. 4 /\ i = row
        /\ (editing => row \in (IF page = "MAIN" THEN 0 .. 3 ELSE {0, 1, 3, 4}))
    BY <1>2, <1>4 DEF IInv, TimelapseInv
  <2>2. Frame = TimelapseFrame
    BY <1>4 DEF Frame
  <2>3. CASE page = "MAIN"
    <3> DEFINE e == (editing /\ row \in 0 .. 2) \/ row = 4
    <3>1. Frame = FrameOf(0 .. 4, row, e)
      BY <2>2, <2>3 DEF TimelapseFrame, TimelapseMainFrame
    <3>2. ~StrayEdit => (editing => e /\ i \notin Buttons) /\ (e /\ i \notin Buttons => editing)
      <4>1. Buttons = {4}
        BY <1>4, <2>3 DEF Buttons
      <4> QED
        BY <1>1, <1>4, <2>1, <2>3, <4>1 DEF StrayEdit, StrayTimelapseEdit
    <3> HIDE DEF e
    <3>3. e \in BOOLEAN
      BY DEF e
    <3> DEFINE rows == 0 .. 4
    <3>4. row \in rows /\ Frame = FrameOf(rows, row, e)
      BY <2>1, <3>1
    <3> HIDE DEF rows
    <3>5. i \in DOMAIN Frame /\ Frame[i] = (IF e THEN "accent" ELSE "lit")
      BY <2>1, <3>3, <3>4, HandStandsOut
    <3> QED
      BY <1>0, <3>2, <3>3, <3>5
  <2>4. CASE page = "ADVANCE"
    <3> DEFINE e == editing /\ row # 2
    <3>1. Frame = FrameOf(Drawn(VisibleRows, row, 5), row, e)
      BY <2>2, <2>4 DEF TimelapseFrame, TimelapseAdvanceFrame
    <3>2. e = editing /\ Buttons = {}
      BY <1>1, <1>4, <2>1, <2>4 DEF Buttons
    <3> HIDE DEF e
    <3>3. row \in Drawn(VisibleRows, row, 5)
      BY <1>3, <2>1, SelectionIsDrawn
    <3>4. i \in DOMAIN Frame /\ Frame[i] = (IF editing THEN "accent" ELSE "lit")
      BY <1>1, <2>1, <3>1, <3>2, <3>3, HandStandsOut
    <3> QED
      BY <1>0, <1>1, <3>2, <3>4
  <2> QED
    BY <2>1, <2>3, <2>4
<1>5. CASE app = "auto_shoot"
  <2>1. /\ page \in {"MAIN", "ADVANCE"} /\ row \in (IF page = "MAIN" THEN 0 .. 4 ELSE 0 .. 3) /\ i = row
        /\ (editing => row \in (IF page = "MAIN" THEN 0 .. 2 ELSE 1 .. 3))
    BY <1>2, <1>5 DEF IInv, AutoShootInv
  <2>2. Frame = AutoShootFrame
    BY <1>5 DEF Frame
  <2>3. CASE page = "MAIN"
    <3> DEFINE e == editing \/ row \in {3, 4}
    <3>1. Frame = [j \in 0 .. 4 |-> IF j \in {2, 3, 4} /\ editing THEN "plain" ELSE FrameOf(0 .. 4, row, e)[j]]
      BY <2>2, <2>3 DEF AutoShootFrame, AutoShootMainFrame
    <3>4. ~StrayEdit => (editing => e /\ i \notin Buttons) /\ (e /\ i \notin Buttons => editing)
      <4>1. Buttons = {3, 4}
        BY <1>5, <2>3 DEF Buttons
      <4> QED
        BY <1>1, <1>5, <2>1, <2>3, <4>1 DEF StrayEdit, StrayAutoShootEdit
    <3>5. e \in BOOLEAN
      BY <1>1
    <3>2. ~StrayEdit => ~(row \in {2, 3, 4} /\ editing)
      BY <1>1, <1>5, <2>1, <2>3 DEF StrayEdit, StrayAutoShootEdit
    <3> HIDE DEF e
    <3>3. FrameOf(0 .. 4, row, e)[row] = (IF e THEN "accent" ELSE "lit")
      <4> DEFINE rows == 0 .. 4
      <4>1. row \in rows
        BY <2>1, <2>3
      <4> HIDE DEF rows
      <4>2. FrameOf(rows, row, e)[row] = (IF e THEN "accent" ELSE "lit")
        BY <3>5, <4>1, HandStandsOut
      <4> QED
        BY <4>2 DEF rows
    <3>6. i \in DOMAIN Frame /\ (~StrayEdit => Frame[i] = (IF e THEN "accent" ELSE "lit"))
      BY <2>1, <2>3, <3>1, <3>2, <3>3
    <3> QED
      BY <1>0, <3>4, <3>5, <3>6
  <2>4. CASE page = "ADVANCE"
    <3> DEFINE e == editing /\ row # 0
    <3>1. Frame = FrameOf(0 .. 3, row, e)
      BY <2>2, <2>4 DEF AutoShootFrame, AutoShootAdvanceFrame
    <3>2. e = editing /\ Buttons = {}
      BY <1>1, <1>5, <2>1, <2>4 DEF Buttons
    <3> HIDE DEF e
    <3> DEFINE rows == 0 .. 3
    <3>3. row \in rows /\ Frame = FrameOf(rows, row, e)
      BY <2>1, <2>4, <3>1
    <3> HIDE DEF rows
    <3>4. i \in DOMAIN Frame /\ Frame[i] = (IF editing THEN "accent" ELSE "lit")
      BY <1>1, <2>1, <3>2, <3>3, HandStandsOut
    <3> QED
      BY <1>0, <1>1, <3>2, <3>4
  <2> QED
    BY <2>1, <2>3, <2>4
<1>6. CASE app = "trigger"
  <2>1. row \in 0 .. 4 /\ i = row /\ ~editing
    BY <1>2, <1>6 DEF IInv, TriggerInv
  <2> DEFINE e == page = "MAIN" /\ row = 4
             rows == 0 .. 4
  <2>2. Frame = FrameOf(rows, row, e) /\ row \in rows
    BY <1>6, <2>1 DEF Frame, TriggerFrame
  <2>3. e /\ i \notin Buttons => editing
    BY <1>6, <2>1 DEF Buttons
  <2>4. e \in BOOLEAN
    OBVIOUS
  <2> HIDE DEF e, rows
  <2>5. i \in DOMAIN Frame /\ Frame[i] = (IF e THEN "accent" ELSE "lit")
    BY <2>1, <2>2, <2>4, HandStandsOut
  <2> QED
    BY <1>0, <2>1, <2>3, <2>4, <2>5
<1>7. CASE app = "settings"
  <2>1. /\ page \in {"MAIN", "DATETIME"} /\ i = row
        /\ (page = "MAIN" => row \in 0 .. 6) /\ (page = "DATETIME" => row \in 0 .. 4)
    BY <1>2, <1>7 DEF IInv, SettingInv
  <2>2. Frame = SettingFrame
    BY <1>7 DEF Frame
  <2>3. CASE page = "MAIN"
    <3>1. Frame = FrameOf(Drawn(VisibleRows, row, 7), row, editing)
      BY <2>2, <2>3 DEF SettingFrame, SettingMainFrame
    <3>2. row \in Drawn(VisibleRows, row, 7)
      BY <1>3, <2>1, <2>3, SelectionIsDrawn
    <3>3. i \in DOMAIN Frame /\ Frame[i] = (IF editing THEN "accent" ELSE "lit")
      BY <1>1, <2>1, <3>1, <3>2, HandStandsOut
    <3>4. Buttons = {}
      BY <1>7 DEF Buttons
    <3> QED
      BY <1>0, <1>1, <3>3, <3>4
  <2>4. CASE page = "DATETIME"
    <3>1. Frame = FrameOf(0 .. 4, row, editing)
      BY <2>2, <2>4 DEF SettingFrame, DateTimeFrame
    <3> DEFINE rows == 0 .. 4
    <3>2. row \in rows /\ Frame = FrameOf(rows, row, editing)
      BY <2>1, <2>4, <3>1
    <3> HIDE DEF rows
    <3>3. i \in DOMAIN Frame /\ Frame[i] = (IF editing THEN "accent" ELSE "lit")
      BY <1>1, <2>1, <3>2, HandStandsOut
    <3>4. Buttons = {}
      BY <1>7 DEF Buttons
    <3> QED
      BY <1>0, <1>1, <3>3, <3>4
  <2> QED
    BY <2>1, <2>3, <2>4
<1>8. CASE app = "ota"
  <2>1. /\ wifi \in Seq(WifiEntries) /\ sel \in 0 .. Len(wifi) /\ ~editing
        /\ rel \in Seq([tag : Tags, url : Tags])
        /\ (page = "RELEASE_LIST" => relSel \in 0 .. Len(rel) - 1)
        /\ key \in 0 .. 3 + Letters
    BY <1>8 DEF IInv, OtaInv
  <2>2. Frame = OtaFrame /\ i \in OtaCursor
    BY <1>8 DEF Frame, Cursor
  <2>3. WifiRows \in Nat \ {0} /\ ReleaseRows \in Nat \ {0}
    BY OtaScreensAssumption
  <2>4. CASE page = "WIFI_LIST"
    <3> DEFINE e == sel = Len(wifi)
    <3>1. i = sel /\ Frame = FrameOf(Drawn(WifiRows, sel, Len(wifi) + 1), sel, e)
      BY <2>2, <2>4 DEF OtaFrame, OtaCursor, WifiFrame
    <3> DEFINE n == Len(wifi) + 1
    <3>2. n \in Nat /\ sel \in 0 .. n - 1
      BY <2>1
    <3> HIDE DEF n
    <3>3. sel \in Drawn(WifiRows, sel, n)
      BY <2>3, <3>2, SelectionIsDrawn
    <3>4. Buttons = {Len(wifi)}
      BY <1>8, <2>4 DEF Buttons
    <3>5. e \in BOOLEAN /\ (e => i \in Buttons)
      BY <3>1, <3>4
    <3> HIDE DEF e
    <3>6. i \in DOMAIN Frame /\ Frame[i] = (IF e THEN "accent" ELSE "lit")
      BY <3>1, <3>3, <3>5, HandStandsOut DEF n
    <3> QED
      BY <1>0, <2>1, <3>5, <3>6
  <2>5. CASE page = "PASSWORD"
    <3> DEFINE rows == 0 .. 3 + Letters
    <3>1. i = key /\ Frame = FrameOf(rows, key, TRUE) /\ key \in rows
      BY <2>1, <2>2, <2>5 DEF OtaFrame, OtaCursor, PasswordFrame
    <3>2. Buttons = rows
      BY <1>8, <2>5 DEF Buttons
    <3> HIDE DEF rows
    <3>3. i \in DOMAIN Frame /\ Frame[i] = "accent"
      BY <3>1, HandStandsOut
    <3> QED
      BY <1>0, <2>1, <3>1, <3>2, <3>3
  <2>6. CASE page = "RELEASE_LIST"
    <3>1. i = relSel /\ Frame = FrameOf(Drawn(ReleaseRows, relSel, Len(rel)), relSel, FALSE)
      BY <2>2, <2>6 DEF OtaFrame, OtaCursor, ReleaseFrame
    <3> DEFINE n == Len(rel)
    <3>2. n \in Nat /\ relSel \in 0 .. n - 1
      BY <2>1, <2>6
    <3> HIDE DEF n
    <3>3. relSel \in Drawn(ReleaseRows, relSel, n)
      BY <2>3, <3>2, SelectionIsDrawn
    <3>4. i \in DOMAIN Frame /\ Frame[i] = "lit"
      BY <3>1, <3>3, HandStandsOut DEF n
    <3> QED
      BY <1>0, <2>1, <3>4
  <2>7. page \in {"WIFI_LIST", "PASSWORD", "RELEASE_LIST"}
    BY <2>2 DEF OtaCursor
  <2> QED
    BY <2>4, <2>5, <2>6, <2>7
<1>9. CASE app = "sleep_week"
  <2>1. row \in 0 .. SwitchRow /\ i = row /\ (editing => row \in {SleepRow, WakeRow})
    BY <1>2, <1>9 DEF IInv, SleepWeekInv
  <2> DEFINE e == row < SleepRow \/ (editing /\ row \in {SleepRow, WakeRow})
  <2>2. Frame = FrameOf(0 .. SwitchRow, row, e)
    BY <1>9 DEF Frame, SleepWeekFrame
  <2>3. e \in BOOLEAN /\ (editing => e /\ i \notin Buttons) /\ (e /\ i \notin Buttons => editing)
    <3>1. Buttons = 0 .. Days - 1
      BY <1>9 DEF Buttons
    <3> QED
      BY <1>1, <2>1, <3>1, SleepWeekScreensAssumption DEF SleepRow, WakeRow, SwitchRow
  <2> HIDE DEF e
  <2> DEFINE rows == 0 .. SwitchRow
  <2>4. row \in rows /\ Frame = FrameOf(rows, row, e)
    BY <2>1, <2>2
  <2> HIDE DEF rows
  <2>5. i \in DOMAIN Frame /\ Frame[i] = (IF e THEN "accent" ELSE "lit")
    BY <2>1, <2>3, <2>4, HandStandsOut
  <2> QED
    BY <1>0, <2>3, <2>5
<1>10. CASE app = "develop"
  <2>1. /\ page \in {"MAIN", "ADVANCE", "SENSOR", "TRIGOUT"} /\ row \in 0 .. RowCount(page) - 1 /\ i = row
        /\ (editing => page \in {"ADVANCE", "SENSOR"})
    BY <1>2, <1>10 DEF IInv, DevelopInv
  <2>2. Frame = DevelopFrame
    BY <1>10 DEF Frame
  <2>3. CASE page = "MAIN"
    <3> DEFINE rows == 0 .. 1
    <3>1. Frame = FrameOf(rows, row, TRUE) /\ row \in rows /\ ~editing
      BY <2>1, <2>2, <2>3 DEF DevelopFrame, DevelopMainFrame, RowCount
    <3>2. Buttons = {0, 1}
      BY <1>10, <2>3 DEF Buttons
    <3>3. i \in Buttons
      BY <2>1, <3>1, <3>2
    <3> HIDE DEF rows
    <3>4. i \in DOMAIN Frame /\ Frame[i] = "accent"
      BY <2>1, <3>1, HandStandsOut
    <3> QED
      BY <1>0, <3>1, <3>3, <3>4
  <2>4. CASE page # "MAIN"
    <3> DEFINE n == RowCount(page)
    <3>1. Frame = FrameOf(Drawn(VisibleRows, row, n), row, editing)
      BY <2>2, <2>4 DEF DevelopFrame, DevelopListFrame
    <3>2. n \in Nat
      BY <2>1 DEF RowCount
    <3> HIDE DEF n
    <3>3. row \in 0 .. n - 1
      BY <2>1 DEF n
    <3>4. row \in Drawn(VisibleRows, row, n)
      BY <1>3, <3>2, <3>3, SelectionIsDrawn
    <3>5. i \in DOMAIN Frame /\ Frame[i] = (IF editing THEN "accent" ELSE "lit")
      BY <1>1, <2>1, <3>1, <3>4, HandStandsOut
    <3>6. Buttons = {}
      BY <1>10, <2>4 DEF Buttons
    <3> QED
      BY <1>0, <1>1, <3>5, <3>6
  <2> QED
    BY <2>3, <2>4
<1> QED
  BY <1>1, <1>4, <1>5, <1>6, <1>7, <1>8, <1>9, <1>10 DEF Apps

\* Whatever the list, its length and its window, turning and pressing act on a
\* row the user sees, lit or in the colour of an edit.
THEOREM RowInHand == Spec => []RowInHandIsLit
BY Invariance, LitFromInv, PTL

\* Dates, ranges and the Bluetooth notice: two fields turned or drawn one at a
\* time agree whenever they are read.
THEOREM FieldsAlwaysAgree == Spec => []FieldsAgree
<1>1. IInv => FieldsAgree
  <2> SUFFICES ASSUME IInv PROVE FieldsAgree
    OBVIOUS
  <2>1. DateIsValid
    <3>1. open /\ ~editing => IsDate(dateTime)
      BY DEF IInv, ClockInv
    <3> QED
      BY <3>1 DEF IInv, ClockInv, DateIsValid
  <2>2. NoticeMatchesStatus
    BY DEF IInv, NoticeInv
  <2>3. app = "auto_shoot" => cfg.min <= cfg.max
    BY DEF IInv, AutoShootInv, AutoShootConfigs
  <2>4. app = "develop" => cfg.near < cfg.far /\ cfg.minBulb <= cfg.maxBulb
    BY DEF IInv, DevelopInv, DevelopConfigs
  <2> QED
    BY <2>1, <2>2, <2>3, <2>4 DEF FieldsAgree
<1> QED
  BY Invariance, <1>1, PTL

\* What is flashed was confirmed, and every password in flash connected once.
THEOREM UpdateStaysAgreed == Spec => []UpdateIsAgreed
<1>1. IInv => UpdateIsAgreed
  <2> SUFFICES ASSUME IInv PROVE UpdateIsAgreed
    OBVIOUS
  <2>1. /\ (boots # NoImage => page = "DONE")
        /\ (page = "DONE" => boots = agreed)
        /\ creds \in [Networks -> {"none", "empty", "right"}]
    BY DEF IInv, FlashInv
  <2>2. FlashedIsConfirmed
    BY <2>1 DEF FlashedIsConfirmed
  <2>3. SavedPasswordsConnected
    BY <2>1 DEF SavedPasswordsConnected
  <2> QED
    BY <2>2, <2>3 DEF UpdateIsAgreed
<1> QED
  BY Invariance, <1>1, PTL

\* Power may go at any moment of any edit of any mode.
THEOREM FlashKeeps == Spec => NothingIsLost
<1>1. IInv /\ [Next]_vars =>
        [ /\ open' /\ ~editing' /\ app # "settings" => saved' = cfg'
          /\ ~open /\ open' => cfg' = saved
          /\ open /\ ~open' /\ (IF app = "settings" THEN rtc' # NotWritten ELSE ~editing)
               => saved' = cfg ]_vars
  BY StepInv DEF Kept
<1> QED
  BY Invariance, <1>1, PTL DEF Spec, NothingIsLost

\* Whatever is turned on the video calculator, by any step and from any sequence,
\* the field that is held stays.
THEOREM CalculatorIsKept == Spec => HeldFieldStays
<1>1. IInv /\ [Next]_vars =>
        [ app = "timelapse" /\ open /\ open' /\ page = "MAIN" /\ cfg' # cfg
            => CalculatorKeeps(cfg, cfg', row) ]_vars
  BY StepInv DEF Held
<1> QED
  BY Invariance, <1>1, PTL DEF Spec, HeldFieldStays

=============================================================================
