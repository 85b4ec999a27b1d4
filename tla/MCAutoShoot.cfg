SPECIFICATION FairSpec
CONSTANTS
  Far = 2
  BurstLimit = 2
  CooldownLimit = 2
  CooldownMod = 8
  RetriggerMin = 1
  RetriggerLimit = 2
  AutoDelay = 1
  MaxLag = 1
PROPERTIES NoiseIsNotMovement MovesArePhotographed
