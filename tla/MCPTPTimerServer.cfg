CONSTANTS MinTimeout = 300
          MaxTimeout = 10000
          DeltaTimeout = 100
          FirstTimeout = 0
          InboundTicksPerSec = 10
          MaxRetries = 100
SPECIFICATION Spec
CHECK_DEADLOCK FALSE
PROPERTY SendsApart
