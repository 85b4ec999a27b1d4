SPECIFICATION FairSpec
CONSTANTS
  Gpio = {"G2"}
  MinInterval = 2
  IntervalLimit = 3
  ExposureLimit = 2
  SettleLimit = 1
  TotalLimit = 2
  AutoDelay = 1
  MaxLag = 1
  PressTime = 2
  AgeBound = 4
  RestBound = 3
INVARIANTS ExposureCap ShutterReleased
PROPERTIES StatusIsTrue HoldContract RestHonoured SequenceMovesOn
