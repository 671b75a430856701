CONSTANTS Trans = {a, b}
          ClientSlot = {c1}
          ServerSlot = {s1, s2}
          Long = {}
          ClientRetries = 1
          ServerRetries = 1
          MaxIndex = 2
          Me = Me
          NoAnswer = NoAnswer
          FirstTrans = {a}
          FirstSlot = {s1}
SPECIFICATION MCSpec
INVARIANT ExecutedOnce
PROPERTY RemoteCallOK
