SPECIFICATION FairSpec
CONSTANTS MaxValue = 2
          MaxCalls = 3
          MaxGroups = 3
INVARIANT TypeOK
PROPERTIES WorkInOrder 
CHECK_DEADLOCK FALSE
