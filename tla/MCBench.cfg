SPECIFICATION Spec
CONSTANTS
  Boxes = {1, 2}
  MaxPeers = 2
  VisibleRows = 2
  Interval = 2
  MaxBulb = 1
INVARIANTS ScreenIsConsistent
PROPERTIES FullIntervalFirst RoleIsGivenBack NextCycleComes
