\* An entry of the table lives for two ticks, and is due at its first.
CONSTANTS Out = {1, 2, 3}
          Host = {h1, h2}
          NoHost = NoHost
          LifeTime = 2
          AlertTime = 3
          AlertPeriod = 2
          PendingLife = 1
          SendLife = 2
          Thread = {t1, t2, t3, t4}
          NoThread = NoThread
          Nesting = 3
SPECIFICATION MCSpec
INVARIANT PacketsKept
PROPERTY WaitsEnd
