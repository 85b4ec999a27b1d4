SPECIFICATION Spec
CONSTANTS
  None = None
  VisibleRows = 4
  HourTop = 1
  MinuteTop = 1
  Second = 4
  MinRest = 1
  MaxRest = 8
  DurationStep = 2
  ShotLimit = 4
  ExposureTop = 2
  SettleTop = 1
  Presets <- MCPresets
  SpinCap = 2
  RangeLow = 1
  RangeTop = 3
  BurstTop = 2
  CooldownTop = 2
  RetriggerLow = 2
  RetriggerTop = 3
  Brands = 3
  BrightnessLow = 5
  BrightnessTop = 15
  BrightnessStep = 10
  DimmerSteps <- MCDimmerSteps
  Themes = 2
  YearLow = 2000
  YearTop = 2001
  DaysTable <- MCDaysTable
  Today <- MCToday
  Networks <- MCNetworks
  Air <- MCAir
  Catalogs <- MCCatalogs
  Tags <- MCTags
  MaxWifi = 3
  MaxReleases = 2
  WifiRows = 2
  ReleaseRows = 1
  Letters = 2
  NoImage = None
  Days = 2
  IntervalLow = 1
  IntervalTop = 3
  IntervalKnee = 2
  BulbTop = 2
  RestTop = 3
  RestKnee = 1
  RestFactor = 2
  DelayTop = 1
  DetectLow = 1
  DetectTop = 2
  FarTop = 2
  Stored <- MCStored
INVARIANTS
  RowInHandIsLit
  FieldsAgree
  UpdateIsAgreed
PROPERTIES
  NothingIsLost
  HeldFieldStays
