CONSTANTS Request = {r1, r2, r3}
          External = {e1}
          Owner = Owner
          User = User
          NoPacket = NoPacket
          max_count = 2
          MaxBusy = 3
SPECIFICATION FairSpec
INVARIANTS CancelStateMatches OneCompletes SemMatches
PROPERTY DestroyReturns
