SPECIFICATION FairSpec
CONSTANTS Pairs = 2
          MaxChunks = 2
          MaxOut = 3
          MaxDroppers = 2
INVARIANTS TypeOK OwnedOnce  ResultIsOwn
PROPERTIES  PairsReturn
CHECK_DEADLOCK FALSE
