CONSTANTS MaxRetry = 1
          MaxCount = 1
          MaxRuns = 1
          MaxDraws = 1
          None = None
SPECIFICATION Spec
PROPERTY NoAlgoMeansNone
CHECK_DEADLOCK FALSE
