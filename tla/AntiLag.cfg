SPECIFICATION Spec
CONSTANTS
  Queues = {q1, q2}
  AppDelays = {0, 2}
  FpsCap = 1
  VrrTargets = {3}
  JitterParts = 2
  NoSpan = NoSpan
  MaxAhead = 1
  MaxFrames = 4
  MaxSubmits = 2
  MaxTime = 5
INVARIANTS TypeOK  
PROPERTY Paced
CHECK_DEADLOCK FALSE
