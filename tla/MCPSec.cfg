CONSTANTS End = {A, B}
          KeySetLen = 1
          MaxDraws = 2
          MaxRetry = 2
          MaxCount = 2
          MaxRuns = 2
          MaxAccepts = 3
          None = None
          UnitBits = 2
          WinUnits = 3
          ForeLen = 7
          NumMod = 32
          MaxLate = 8
          MaxLead = 9
SPECIFICATION MCSpec
INVARIANTS HandshakeKept PeerCanRead NoRedInUse WindowExact
PROPERTY SessionsEnd
CHECK_DEADLOCK FALSE
