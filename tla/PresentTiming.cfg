SPECIFICATION FairSpec
CONSTANTS
  Swapchains = {h1, h2}
  PendingCap = 2
  PollCap = 2
  MaxPresents = 3
  MaxSwapchains = 2
INVARIANTS TimingTypeOK 
PROPERTY AllWaitedFor
CHECK_DEADLOCK FALSE
