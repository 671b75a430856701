CONSTANTS Out = {p1, p2}
          NoPacket = NoPacket
          max_packets = 2
          PushLimit = 2
          MaxInside = 2
          Index = {0, 1, 2}
          User = {u1, u2}
          Completor = ct
          Work = {w1, w2, w3}
          NoWork = NoWork
          NoSlot = NoSlot
          Read = {1, 2, 3}
          None = 0
          Len_Fifo = 2
          read_ticks = 1
SPECIFICATION MCSpec
INVARIANTS PacketsMatch CountersMatch ReadsMatch
PROPERTIES Served ReadsAgain StopsReturn
CHECK_DEADLOCK FALSE
