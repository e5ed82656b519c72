SPECIFICATION Spec
CONSTANTS
  t1 = t1
  t2 = t2
  Threads = {t1, t2}
  Presenters <- MCPresenters
  Huds = {a, b}
  RingCapacity = 2
  HudCapacity = 3
  PipeCapacity = 1
  Bin = 2
  Window = 4
  MaxFrames = 3
  MaxAlone = 4
  MaxConnections = 2
INVARIANTS TypeOK StreamInOrder GapIsLoss
PROPERTIES SealedBins Flow
CHECK_DEADLOCK FALSE
