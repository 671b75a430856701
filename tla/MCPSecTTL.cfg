CONSTANTS End = {A, B}
          KeySetLen = 1
          MaxDraws = 2
SPECIFICATION FairSpec
PROPERTY LifeEnds
CHECK_DEADLOCK FALSE
