SPECIFICATION FairSpec
CONSTANTS Pairs = 1
          MaxChunks = 2
          MaxOut = 2
          MaxDroppers = 1
PROPERTY DropReturns
CHECK_DEADLOCK FALSE
