CONSTANTS Point = {p1, p2}
          TransId = {a}
          ClientSlot = {c1}
          ServerSlot = {s1, s2}
          Info = {d1}
          NoAnswer = NoAnswer
          MaxRetries = 1
          MaxIndex = 2
          Malformed = {"RECALL"}
          Watched = {}
SPECIFICATION Spec
INVARIANT PacketPutOnce
