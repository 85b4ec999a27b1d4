CONSTANTS
  Gpio = {"G2"}
  BulbLimit = 2
  RearmLimit = 1
  EndLimit = 1
  MaxTurn = 1
  MaxLag = 1
  DrainMax = 1
  SidMod = 2
  FinishLineBox = TRUE
  AgeBound = 5
SPECIFICATION Spec
INVARIANT NeverOpenLonger
