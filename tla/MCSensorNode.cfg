SPECIFICATION FairSpec
CONSTANTS
  Samples = 3
  SampleMod = 5
  MaxReading = 3
  Threshold = 1
  FlashLimit = 1
  LockCap = 2
  DrainMax = 2
INVARIANTS OneRunnerOneRequest
PROPERTIES LockIsTold NodeMovesOn
