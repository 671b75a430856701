CONSTANTS Trans = {a, b, c}
          ClientSlot = {c1, c2}
          ServerSlot = {s1}
          Answer = {d1}
          NoAnswer = NoAnswer
          Long = {c}
          MaxRetries = 1
          Recorded = {}
          Write = {1, 2, 3}
          Task = {t1, t2}
          MaxOpens = 2
          MaxCalls = 4
          NumMod = 32
          write_ticks = 1
          ConFrames = 1
          WriterFrames = 3
          MaxLead = 7
          MaxLate = 5
SPECIFICATION MCSpec
INVARIANTS TransMatch TextsKept
PROPERTIES ResultIsFinal TextsInOrder CallsEnd
CHECK_DEADLOCK FALSE
