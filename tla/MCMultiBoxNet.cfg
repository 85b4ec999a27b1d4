SPECIFICATION Spec
CONSTANTS
  Sensing = {"START"}
  SeqMod = 8
  FirstSeqs = {6}
  StaleSends = 2
  QueueMax = 2
  MaxSent <- PacketBounds
  MaxRestarts = 1
INVARIANT NumbersTellTheOrder
PROPERTY LinksAreOrdered
CHECK_DEADLOCK FALSE
