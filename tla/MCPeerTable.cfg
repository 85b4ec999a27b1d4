SPECIFICATION TableSpec
CONSTANTS
  Macs = {m1, m2}
  NoMac = NoMac
  Ids = {1, 2, 3}
  SelfId = 3
  MaxPeers = 2
  LinkTime = 1
  ClashTime = 2
SYMMETRY Symmetry
INVARIANT OneEntryPerId
INVARIANT LinkedIsAlive
INVARIANT PairedIsReachable
PROPERTY PairedSurvive
