CONSTANTS Thread = {t1, t2, t3, t4}
          Task = {t1, t2, t3}
          NoThread = NoThread
          LockNesting = 3
          Owner = ow
          NoObject = NoObject
          Object = {o1, o2}
          Job = {j1, j2}
          InitCount = 1
          MaxGive = 2
          MaxUnits = 3
          InitFlag = FALSE
          Indexes = 3
          MaxIndexUnits = 4
          Endpoint = {p1, p2, p3}
          NoEndpoint = NoEndpoint
          Nesting = 2
          MaxHooks = 4
SPECIFICATION MCSpec
INVARIANTS MutualExclusion OwnerIsInside OneBaton NothingLost DetachWaits ListsAreServed
PROPERTIES LockSpecOK CountSpecOK NoneStarves AllReturn
CHECK_DEADLOCK FALSE
