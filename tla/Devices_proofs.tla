--------------------------- MODULE Devices_proofs ---------------------------
(***************************************************************************)
(* Theorems about MCAsyncDevices: the UDP device, the file processor and   *)
(* the reader of the console server, for any number of packets, users,     *)
(* slots and reads: each packet is completed once, by who has it, the      *)
(* counters count what is there, and no read is lost or kept.              *)
(***************************************************************************)
EXTENDS MCAsyncDevices, TaskCount_proofs

\* AsyncUDPDevice

\* Where a packet to send may be, and what its canceller has done there.
Ended(p)  == /\ completed[p] = 1 /\ ~ext[p] /\ cur # p /\ out_packet # p
             /\ p \notin calling /\ cancel_state[p] = "None"
Waits(p)  == /\ completed[p] = 0 /\ ext[p] /\ cur # p /\ out_packet # p
             /\ \/ p \notin calling /\ cancel_state[p] = "Has"
                \/ p \in calling /\ cancel_state[p] = "Cancelled"
InHand(p) == /\ completed[p] = 0 /\ ~ext[p] /\ cur = p /\ out_packet # p
             /\ p \notin calling /\ cancel_state[p] = "None"
Writes(p) == /\ completed[p] = 0 /\ ~ext[p] /\ cur # p /\ out_packet = p
             /\ p \notin calling /\ cancel_state[p] = "None"
Called(p) == /\ completed[p] = 0 /\ ~ext[p] /\ cur # p /\ out_packet # p
             /\ p \in calling /\ cancel_state[p] = "Cancelled"

PacketsOut == \A p \in Out : Ended(p) \/ Waits(p) \/ InHand(p) \/ Writes(p) \/ Called(p)

ListOut == IsInjective(out_list) /\ \A p \in Out : ext[p] <=> p \in ToSet(out_list)

\* The task has a packet in its hands only between get() and start_out().
HandOut == /\ cur # NoPacket <=> dev = "start_out"
           /\ dev = "start_out" => out_packet = NoPacket
           /\ dev \in {"start_out", "alloc_in"} => cnt > 0
           /\ dev = "alloc_in" => ~in_packet

UdpTypes == TypeOK /\ completed \in [Out -> Nat]

\* What the counters count.
Counted ==
  /\ exit_count = held + waking + leaving + One(in_packet) + One(dev = "alloc_in")
  /\ use_count = held + One(in_packet) + One(dev = "alloc_in")

\* Where the task and the counters are when the owner has come so far.
OwnerKnows ==
  /\ in_packet \in BOOLEAN /\ exit_flag \in BOOLEAN
  /\ exit_flag <=> owner \in {"waiting", "finished"}
  /\ owner \in {"stopped", "finishing", "waiting", "finished"} => dev = "stopped"
  /\ owner \in {"finishing", "waiting", "finished"} => ~in_packet
  /\ exit_sem = One(owner = "waiting" /\ exit_count = 0)
  /\ owner = "finished" => exit_count = 0

CountersIn == Counted /\ OwnerKnows

UdpInv == UdpTypes /\ PacketsOut /\ ListOut /\ HandOut /\ CountersIn

LEMMA OutKept ==
  ASSUME PacketsOut, ListOut, UNCHANGED <<out_list, out_packet, cancel_state, ext, calling, completed, cur>>
  PROVE  PacketsOut' /\ ListOut'
BY DEF PacketsOut, ListOut, Ended, Waits, InHand, Writes, Called

LEMMA CountersKept ==
  ASSUME CountersIn, UNCHANGED inVars, UNCHANGED owner,
         dev' = "alloc_in" <=> dev = "alloc_in", dev = "stopped" => dev' = "stopped"
  PROVE  CountersIn'
<1>1. One(dev' = "alloc_in") = One(dev = "alloc_in")
  BY DEF One
<1>2. Counted'
  BY <1>1 DEF CountersIn, Counted, inVars
<1>3. OwnerKnows'
  BY DEF CountersIn, OwnerKnows, inVars
<1> QED
  BY <1>2, <1>3 DEF CountersIn

\* Users and cancellers of the packets to send.
LEMMA PutStep ==
  ASSUME UdpInv, NEW p \in Out, Put(p)
  PROVE  UdpInv'
<1> USE DEF UdpInv, UdpTypes, TypeOK
<1>1. Ended(p) /\ p \notin ToSet(out_list)
  BY DEF Put, PacketsOut, Ended, Waits, InHand, Writes, Called, ListOut
<1>2. out_list' \in Seq(Out) /\ ToSet(out_list') = ToSet(out_list) \cup {p} /\ IsInjective(out_list')
  BY <1>1, ListAppend DEF Put, ListOut
<1>3. UdpTypes'
  BY <1>2 DEF Put, inVars, loopVars, ownerVars
<1>4. PacketsOut'
  BY <1>1 DEF Put, loopVars, PacketsOut, Ended, Waits, InHand, Writes, Called
<1>5. ListOut'
  BY <1>2 DEF Put, ListOut
<1>6. HandOut' /\ CountersIn'
  <2>1. HandOut'
    BY DEF Put, loopVars, inVars, HandOut
  <2>2. CountersIn'
    BY CountersKept DEF Put, loopVars, HandOut, inVars, ownerVars
  <2> QED
    BY <2>1, <2>2
<1> QED
  BY <1>3, <1>4, <1>5, <1>6

LEMMA PutInterruptStep ==
  ASSUME UdpInv, NEW p \in Out, PutInterrupt(p)
  PROVE  UdpInv'
<1> USE DEF UdpInv, UdpTypes, TypeOK, PutInterrupt, inVars, loopVars, ownerVars
<1>1. UdpTypes'
  OBVIOUS
<1>2. PacketsOut' /\ ListOut'
  BY OutKept
<1>3. HandOut' /\ CountersIn'
  <2>1. HandOut'
    BY DEF HandOut
  <2>2. CountersIn'
    BY CountersKept DEF HandOut
  <2> QED
    BY <2>1, <2>2
<1> QED
  BY <1>1, <1>2, <1>3

LEMMA CancelBeginStep ==
  ASSUME UdpInv, NEW p \in Out, CancelBegin(p)
  PROVE  UdpInv'
<1> USE DEF UdpInv, UdpTypes, TypeOK, CancelBegin, inVars, loopVars, ownerVars
<1>1. UdpTypes'
  OBVIOUS
<1>2. PacketsOut'
  BY DEF PacketsOut, Ended, Waits, InHand, Writes, Called
<1>3. ListOut' /\ HandOut' /\ CountersIn'
  <2>1. ListOut' /\ HandOut'
    BY DEF ListOut, HandOut
  <2>2. CountersIn'
    BY CountersKept DEF HandOut
  <2> QED
    BY <2>1, <2>2
<1> QED
  BY <1>1, <1>2, <1>3

LEMMA CancelStep ==
  ASSUME UdpInv, NEW p \in Out, Cancel(p)
  PROVE  UdpInv'
<1> USE DEF UdpInv, UdpTypes, TypeOK, inVars, loopVars, ownerVars, Complete
<1>1. p \in calling /\ (Waits(p) \/ Called(p))
  BY DEF Cancel, PacketsOut, Ended, Waits, InHand, Writes, Called
<1>2. /\ out_list' \in Seq(Out) /\ IsInjective(out_list')
      /\ ToSet(out_list') = ToSet(out_list) \ {p}
  BY <1>1, ListRemove DEF Cancel, ListOut, Waits, Called
<1>3. UdpTypes'
  BY <1>2 DEF Cancel
<1>4. PacketsOut'
  BY <1>1 DEF Cancel, PacketsOut, Ended, Waits, InHand, Writes, Called
<1>5. ListOut'
  BY <1>2 DEF Cancel, ListOut
<1>6. HandOut' /\ CountersIn'
  <2>1. HandOut'
    BY DEF Cancel, HandOut
  <2>2. CountersIn'
    BY CountersKept DEF Cancel, HandOut
  <2> QED
    BY <2>1, <2>2
<1> QED
  BY <1>3, <1>4, <1>5, <1>6

\* The task sends.
LEMMA GetStep ==
  ASSUME UdpInv, Get
  PROVE  UdpInv'
<1> USE DEF UdpInv, UdpTypes, TypeOK, inVars, ownerVars
<1> DEFINE p == Head(out_list)
<1>1. /\ p \in Out /\ p \in ToSet(out_list)
      /\ out_list' \in Seq(Out) /\ ToSet(out_list') = ToSet(out_list) \ {p} /\ IsInjective(out_list')
  BY ListTail DEF Get, ListOut
<1>2. Waits(p)
  BY <1>1 DEF ListOut, PacketsOut, Ended, Waits, InHand, Writes, Called
<1>3. cur = NoPacket /\ out_packet = NoPacket /\ dev = "out" /\ cnt > 0
  BY DEF Get, HandOut
<1> HIDE DEF p
<1>4. /\ ext' = [ext EXCEPT ![p] = FALSE]
      /\ \/ /\ cancel_state[p] = "Has" /\ cancel_state' = [cancel_state EXCEPT ![p] = "None"]
            /\ cur' = p /\ dev' = "start_out"
         \/ /\ cancel_state[p] = "Cancelled" /\ UNCHANGED <<cancel_state, dev, cur>>
      /\ UNCHANGED <<out_packet, calling, interrupting, completed, cnt, next, inVars, interrupted, ownerVars>>
  BY DEF Get, p
<1>5. UdpTypes'
  BY <1>1, <1>4
<1>6. PacketsOut'
  BY <1>1, <1>2, <1>3, <1>4, DevicesAssumption DEF PacketsOut, Ended, Waits, InHand, Writes, Called
<1>7. ListOut'
  BY <1>1, <1>4 DEF ListOut
<1>8. HandOut' /\ CountersIn'
  <2>1. HandOut'
    BY <1>1, <1>3, <1>4, DevicesAssumption DEF HandOut
  <2>2. CountersIn'
    BY <1>1, <1>3, <1>4, DevicesAssumption, CountersKept DEF HandOut
  <2> QED
    BY <2>1, <2>2
<1> QED
  BY <1>5, <1>6, <1>7, <1>8

LEMMA StartOutStep ==
  ASSUME UdpInv, StartOutDone \/ StartOutPending
  PROVE  UdpInv'
<1> USE DEF UdpInv, UdpTypes, TypeOK, inVars, ownerVars, Back, Complete
<1>1. cur \in Out /\ InHand(cur) /\ out_packet = NoPacket /\ dev = "start_out" /\ cur # NoPacket
  BY DevicesAssumption DEF StartOutDone, StartOutPending, HandOut, PacketsOut, Ended, Waits, InHand, Writes, Called
<1>2. CASE StartOutDone
  <2>0. cnt' \in 0..PushLimit
    BY <1>1, <1>2, DevicesAssumption DEF StartOutDone, HandOut
  <2>1. UdpTypes'
    BY <1>1, <1>2, <2>0, DevicesAssumption DEF StartOutDone
  <2>2. PacketsOut'
    BY <1>1, <1>2, DevicesAssumption DEF StartOutDone, PacketsOut, Ended, Waits, InHand, Writes, Called
  <2>3. ListOut' /\ HandOut' /\ CountersIn'
    <3>1. ListOut' /\ HandOut'
      BY <1>1, <1>2 DEF StartOutDone, ListOut, HandOut
    <3>2. CountersIn'
      BY <1>1, <1>2, CountersKept DEF StartOutDone, HandOut
    <3> QED
      BY <3>1, <3>2
  <2> QED
    BY <2>1, <2>2, <2>3
<1>3. CASE StartOutPending
  <2>1. UdpTypes'
    BY <1>1, <1>3, DevicesAssumption DEF StartOutPending
  <2>2. PacketsOut'
    BY <1>1, <1>3, DevicesAssumption DEF StartOutPending, PacketsOut, Ended, Waits, InHand, Writes, Called
  <2>3. ListOut' /\ HandOut' /\ CountersIn'
    <3>1. ListOut' /\ HandOut'
      BY <1>1, <1>3 DEF StartOutPending, ListOut, HandOut
    <3>2. CountersIn'
      BY <1>1, <1>3, CountersKept DEF StartOutPending, HandOut
    <3> QED
      BY <3>1, <3>2
  <2> QED
    BY <2>1, <2>2, <2>3
<1> QED
  BY <1>2, <1>3

LEMMA LookOutStep ==
  ASSUME UdpInv, GetNothing \/ GetStop \/ PushOutEnds
  PROVE  UdpInv'
<1> USE DEF UdpInv, UdpTypes, TypeOK, inVars, outVars, ownerVars, Back, GetNothing, GetStop, PushOutEnds
<1>1. cnt' \in 0..PushLimit /\ cur' \in Out \cup {NoPacket}
  BY DevicesAssumption
<1>5. UdpTypes'
  BY <1>1
<1>2. cur = NoPacket /\ cur' = NoPacket /\ dev = "out"
  BY DEF HandOut
<1>3. PacketsOut' /\ ListOut'
  BY <1>2, OutKept
<1>4. HandOut' /\ CountersIn'
  <2>1. HandOut'
    BY <1>2 DEF HandOut
  <2>2. CountersIn'
    BY <1>2, CountersKept DEF HandOut
  <2> QED
    BY <2>1, <2>2
<1> QED
  BY <1>5, <1>3, <1>4

LEMMA WaitOutboundStep ==
  ASSUME UdpInv, WaitOutbound
  PROVE  UdpInv'
<1> USE DEF UdpInv, UdpTypes, TypeOK, inVars, ownerVars, Complete, WaitOutbound
<1>1. out_packet \in Out /\ Writes(out_packet) /\ cur = NoPacket
  BY DEF HandOut, PacketsOut, Ended, Waits, InHand, Writes, Called
<1>2. UdpTypes'
  BY <1>1
<1>3. PacketsOut'
  BY <1>1, DevicesAssumption DEF PacketsOut, Ended, Waits, InHand, Writes, Called
<1>4. ListOut' /\ HandOut' /\ CountersIn'
  <2>1. ListOut' /\ HandOut'
    BY <1>1 DEF ListOut, HandOut
  <2>2. CountersIn'
    BY <1>1, CountersKept DEF HandOut
  <2> QED
    BY <2>1, <2>2
<1> QED
  BY <1>2, <1>3, <1>4

LEMMA Numbers ==
  ASSUME UdpTypes
  PROVE  /\ use_count \in Nat /\ exit_count \in Nat /\ exit_sem \in Nat
         /\ held \in Nat /\ waking \in Nat /\ leaving \in Nat
BY DEF UdpTypes, TypeOK

LEMMA OneIs ==
  ASSUME NEW b \in BOOLEAN
  PROVE  One(b) \in {0, 1} /\ (b => One(b) = 1) /\ (~b => One(b) = 0)
BY DEF One

\* The task reads.
InCounters == <<in_packet, use_count, exit_count, held, waking, leaving>>

LEMMA ReadCounts ==
  ASSUME UdpInv, PushIn \/ GetInNoPacket \/ WaitInbound
  PROVE  held' \in Nat /\ use_count' \in Nat /\ exit_count' \in Nat /\ Counted'
<1>1. in_packet \in BOOLEAN /\ One(in_packet) \in {0, 1} /\ Counted /\ UNCHANGED <<waking, leaving>>
  BY OneIs DEF UdpInv, CountersIn, OwnerKnows, PushIn, PushInBusy, GetIn, GetInFull, StartInPending, StartInDone, PushInEnds,
               GetInNoPacket, WaitInbound, inVars
<1>2. /\ use_count \in Nat /\ exit_count \in Nat /\ held \in Nat /\ waking \in Nat /\ leaving \in Nat
  BY Numbers DEF UdpInv
<1>3. CASE PushInBusy \/ GetInFull \/ PushInEnds
  <2>1. dev = "in" /\ dev' = "wait" /\ UNCHANGED InCounters
    BY <1>3 DEF PushInBusy, GetInFull, PushInEnds, WaitAgain, inVars, InCounters
  <2> QED
    BY <1>1, <1>2, <2>1 DEF InCounters, Counted, One
<1>4. CASE GetIn
  <2>1. /\ dev = "in" /\ dev' = "alloc_in" /\ UNCHANGED <<in_packet, held, waking, leaving>>
        /\ use_count' = use_count + 1 /\ exit_count' = exit_count + 1
    BY <1>4 DEF GetIn
  <2>2. One(dev = "alloc_in") = 0 /\ One(dev' = "alloc_in") = 1 /\ One(in_packet') = One(in_packet)
    BY <2>1 DEF One
  <2> QED
    BY <1>1, <1>2, <2>1, <2>2 DEF Counted
<1>5. CASE GetInNoPacket
  <2>1. /\ dev = "alloc_in" /\ dev' = "wait" /\ UNCHANGED <<in_packet, held, waking, leaving>>
        /\ use_count' = use_count - 1 /\ exit_count' = exit_count - 1
    BY <1>5 DEF GetInNoPacket, WaitAgain
  <2>2. One(dev = "alloc_in") = 1 /\ One(dev' = "alloc_in") = 0 /\ One(in_packet') = One(in_packet)
    BY <2>1 DEF One
  <2> QED
    BY <1>1, <1>2, <2>1, <2>2 DEF Counted
<1>6. CASE StartInPending
  <2>1. /\ dev = "alloc_in" /\ dev' = "wait" /\ in_packet'
        /\ UNCHANGED <<use_count, exit_count, held, waking, leaving>>
    BY <1>6 DEF StartInPending, WaitAgain
  <2>2. ~in_packet /\ in_packet' \in BOOLEAN
    BY <1>6, <2>1 DEF UdpInv, HandOut, StartInPending
  <2>3. One(dev = "alloc_in") = 1 /\ One(dev' = "alloc_in") = 0 /\ One(in_packet') = 1 /\ One(in_packet) = 0
    BY <2>1, <2>2 DEF One
  <2>4. UNCHANGED <<use_count, exit_count, held, waking, leaving>>
    BY <2>1
  <2> QED
    BY <1>1, <1>2, <2>3, <2>4 DEF Counted
<1>7. CASE StartInDone
  <2>1. /\ dev = "alloc_in" /\ dev' = "in" /\ held' = held + 1
        /\ UNCHANGED <<in_packet, use_count, exit_count, waking, leaving>>
    BY <1>7 DEF StartInDone
  <2>2. One(dev = "alloc_in") = 1 /\ One(dev' = "alloc_in") = 0 /\ One(in_packet') = One(in_packet)
    BY <2>1 DEF One
  <2> QED
    BY <1>1, <1>2, <2>1, <2>2 DEF Counted
<1>8. CASE WaitInbound
  <2>1. /\ dev = "wait" /\ dev' = "in" /\ in_packet /\ ~in_packet' /\ in_packet' \in BOOLEAN /\ held' = held + 1
        /\ UNCHANGED <<use_count, exit_count, waking, leaving>>
    BY <1>8 DEF WaitInbound
  <2>2. One(dev = "alloc_in") = 0 /\ One(dev' = "alloc_in") = 0 /\ One(in_packet') = 0 /\ One(in_packet) = 1
    BY <2>1 DEF One
  <2>3. held' = held + 1 /\ UNCHANGED <<use_count, exit_count, waking, leaving>>
    BY <2>1
  <2> QED
    BY <1>1, <1>2, <2>2, <2>3 DEF Counted
<1> QED
  BY <1>3, <1>4, <1>5, <1>6, <1>7, <1>8 DEF PushIn

LEMMA ReadStep ==
  ASSUME UdpInv, PushIn \/ GetInNoPacket \/ WaitInbound
  PROVE  UdpInv'
<1> USE DEF UdpInv, UdpTypes, TypeOK, CountersIn, OwnerKnows
<1> USE DevicesAssumption
<1>1. UNCHANGED outVars /\ UNCHANGED ownerVars /\ UNCHANGED <<cur, next, exit_flag, exit_sem, waking, leaving>>
  BY DEF PushIn, PushInBusy, GetIn, GetInFull, StartInPending, StartInDone, PushInEnds, WaitAgain, GetInNoPacket, WaitInbound, inVars
<1>2. PacketsOut' /\ ListOut'
  BY <1>1, OutKept DEF outVars
<1>3. dev \in {"in", "alloc_in", "wait"} /\ dev' \in {"in", "alloc_in", "wait"}
  BY DEF PushIn, PushInBusy, GetIn, GetInFull, StartInPending, StartInDone, PushInEnds, WaitAgain, GetInNoPacket, WaitInbound
<1>4. cnt' \in 0..PushLimit /\ (dev' = "alloc_in" => cnt' > 0)
  BY <1>3 DEF PushIn, PushInBusy, GetIn, GetInFull, StartInPending, StartInDone, PushInEnds, WaitAgain, GetInNoPacket, WaitInbound,
              HandOut
<1>6. dev' = "alloc_in" => ~in_packet'
  BY <1>3 DEF PushIn, PushInBusy, GetIn, GetInFull, StartInPending, StartInDone, PushInEnds, WaitAgain, GetInNoPacket, WaitInbound
<1>5. HandOut'
  BY <1>1, <1>3, <1>4, <1>6 DEF HandOut, outVars
<1>7. in_packet' \in BOOLEAN /\ held' \in Nat /\ use_count' \in Nat /\ exit_count' \in Nat /\ Counted'
  BY ReadCounts DEF PushIn, PushInBusy, GetIn, GetInFull, StartInDone, PushInEnds, StartInPending, GetInNoPacket, WaitInbound, inVars
<1>8. UdpTypes'
  BY <1>1, <1>3, <1>4, <1>7 DEF outVars, ownerVars
<1>9. OwnerKnows'
  <2>1. owner \notin {"stopped", "finishing", "waiting", "finished"}
    BY <1>3
  <2>2. exit_sem = 0
    BY <2>1 DEF One
  <2> QED
    BY <1>1, <1>7, <2>1, <2>2 DEF ownerVars, One
<1> QED
  BY <1>2, <1>5, <1>7, <1>8, <1>9

\* Users complete what was read.
LEMMA LeavesOK ==
  ASSUME UdpTypes, OwnerKnows, exit_count > 0, Leaves, UNCHANGED <<in_packet, exit_flag, dev, owner>>
  PROVE  exit_count' \in Nat /\ exit_sem' \in Nat /\ OwnerKnows'
<1> USE DEF UdpTypes, TypeOK, OwnerKnows, Leaves
<1>1. exit_count' = exit_count - 1 /\ exit_count' \in Nat /\ exit_sem = 0
  BY DEF One
<1>2. exit_sem' = One(owner' = "waiting" /\ exit_count' = 0) /\ owner' # "finished"
  <2>1. owner # "finished"
    OBVIOUS
  <2>2. CASE exit_flag /\ exit_count = 1
    BY <1>1, <2>1, <2>2 DEF One
  <2>3. CASE ~(exit_flag /\ exit_count = 1)
    BY <1>1, <2>1, <2>3 DEF One
  <2> QED
    BY <2>2, <2>3
<1>3. exit_sem' \in Nat
  BY <1>2 DEF One
<1> QED
  BY <1>1, <1>2, <1>3

LEMMA UserStep ==
  ASSUME UdpInv, InComplete \/ InInterrupt \/ InLeave
  PROVE  UdpInv'
<1> USE DEF UdpInv, UdpTypes, TypeOK, CountersIn
<1>5. /\ use_count \in Nat /\ exit_count \in Nat /\ exit_sem \in Nat
      /\ held \in Nat /\ waking \in Nat /\ leaving \in Nat
  OBVIOUS
<1>1. UNCHANGED outVars /\ UNCHANGED ownerVars /\ UNCHANGED loopVars /\ UNCHANGED <<in_packet, exit_flag>>
  BY DEF InComplete, InInterrupt, InLeave
<1>2. PacketsOut' /\ ListOut' /\ HandOut'
  BY <1>1, OutKept DEF outVars, loopVars, HandOut
<1>0. /\ One(in_packet) \in {0, 1} /\ One(in_packet') = One(in_packet)
      /\ One(dev = "alloc_in") \in {0, 1} /\ One(dev' = "alloc_in") = One(dev = "alloc_in")
  BY <1>1, OneIs DEF OwnerKnows, loopVars
<1>3. /\ use_count' \in Nat /\ held' \in Nat /\ waking' \in Nat /\ leaving' \in Nat
      /\ exit_count' \in Nat /\ exit_sem' \in Nat /\ OwnerKnows' /\ Counted'
  <2>1. CASE InComplete
    <3>1. /\ held > 0 /\ held' = held - 1 /\ use_count' = use_count - 1 /\ UNCHANGED leaving
          /\ \/ waking' = waking + 1 /\ UNCHANGED <<exit_count, exit_sem>>
             \/ UNCHANGED waking /\ Leaves
      BY <2>1 DEF InComplete
    <3>2. use_count > 0 /\ exit_count > 0
      BY <1>0, <1>5, <3>1 DEF Counted
    <3>3. CASE waking' = waking + 1 /\ UNCHANGED <<exit_count, exit_sem>>
      <4>1. OwnerKnows'
        BY <1>1, <3>3 DEF OwnerKnows, loopVars, ownerVars
      <4>2. Counted'
        BY <1>0, <1>5, <3>1, <3>3 DEF Counted
      <4> QED
        BY <3>1, <3>2, <3>3, <4>1, <4>2
    <3>4. CASE UNCHANGED waking /\ Leaves
      <4>1. exit_count' \in Nat /\ exit_sem' \in Nat /\ OwnerKnows'
        BY <1>1, <3>2, <3>4, LeavesOK DEF loopVars, ownerVars
      <4>3. held' = held - 1 /\ use_count' = use_count - 1 /\ exit_count' = exit_count - 1 /\ UNCHANGED <<waking, leaving>>
        BY <3>1, <3>4 DEF Leaves
      <4>2. Counted'
        <5>1. PICK a \in {0, 1} : a = One(in_packet)
          BY <1>0
        <5>2. PICK b \in {0, 1} : b = One(dev = "alloc_in")
          BY <1>0
        <5>3. exit_count = held + waking + leaving + a + b /\ use_count = held + a + b
          BY <5>1, <5>2 DEF Counted
        <5>4. exit_count' = held' + waking' + leaving' + a + b /\ use_count' = held' + a + b
          BY <1>5, <4>3, <5>3
        <5> QED
          BY <1>0, <5>1, <5>2, <5>4 DEF Counted
      <4> QED
        BY <3>1, <3>2, <3>4, <4>1, <4>2
    <3> QED
      BY <3>1, <3>3, <3>4
  <2>2. CASE InInterrupt
    <3>1. /\ waking > 0 /\ waking' = waking - 1 /\ leaving' = leaving + 1
          /\ UNCHANGED <<use_count, held, exit_count, exit_sem>>
      BY <2>2 DEF InInterrupt
    <3>2. OwnerKnows'
      BY <1>1, <3>1 DEF OwnerKnows, loopVars, ownerVars
    <3>3. Counted'
      BY <1>0, <1>5, <3>1 DEF Counted
    <3> QED
      BY <3>1, <3>2, <3>3
  <2>3. CASE InLeave
    <3>1. leaving > 0 /\ leaving' = leaving - 1 /\ UNCHANGED <<use_count, held, waking>> /\ Leaves
      BY <2>3 DEF InLeave
    <3>2. exit_count > 0
      BY <1>0, <1>5, <3>1 DEF Counted
    <3>3. exit_count' \in Nat /\ exit_sem' \in Nat /\ OwnerKnows'
      BY <1>1, <3>1, <3>2, LeavesOK DEF loopVars, ownerVars
    <3>4. Counted'
      BY <1>0, <1>5, <3>1 DEF Counted, Leaves
    <3> QED
      BY <3>1, <3>3, <3>4
  <2> QED
    BY <2>1, <2>2, <2>3
<1>4. UdpTypes'
  BY <1>1, <1>3 DEF outVars, ownerVars, loopVars
<1> QED
  BY <1>2, <1>3, <1>4

LEMMA WaitStep ==
  ASSUME UdpInv, WaitTick \/ WaitInterrupt
  PROVE  UdpInv'
<1> USE DEF UdpInv, UdpTypes, TypeOK, WaitTick, WaitInterrupt, inVars, outVars, ownerVars
<1>1. PacketsOut' /\ ListOut'
  BY OutKept
<1>2. UdpTypes' /\ HandOut'
  BY DEF HandOut
<1>3. CountersIn'
  BY CountersKept
<1> QED
  BY <1>1, <1>2, <1>3

\* The owner.
LEMMA StopStep ==
  ASSUME UdpInv, SignalStop \/ StopInterrupt \/ Stopped \/ Restart
  PROVE  UdpInv'
<1> USE DEF UdpInv, UdpTypes, TypeOK, SignalStop, StopInterrupt, Stopped, Restart, To
<1>1. UNCHANGED outVars /\ UNCHANGED inVars
  OBVIOUS
<1>2. dev' \in {"in", "stopped", dev} /\ (dev' # dev => dev = "stopped" /\ dev' = "in" /\ cur' = NoPacket /\ owner = "stopped")
  BY DEF loopVars, CountersIn, OwnerKnows
<1>0. UNCHANGED cur /\ (dev' # "in" => UNCHANGED <<dev, cnt>>)
  BY <1>2, DevicesAssumption DEF HandOut, loopVars
<1>3. HandOut' /\ UNCHANGED cur
  BY <1>0, <1>1, <1>2 DEF HandOut, outVars, inVars
<1>4. PacketsOut' /\ ListOut'
  BY <1>1, <1>3, OutKept DEF outVars
<1>5. UdpTypes'
  BY <1>1, <1>3, DevicesAssumption DEF loopVars, outVars, inVars
<1>6. Counted'
  BY <1>1, <1>2 DEF inVars, CountersIn, Counted, One
<1>7. OwnerKnows'
  BY <1>1, <1>2 DEF inVars, CountersIn, OwnerKnows, One, loopVars
<1> QED
  BY <1>3, <1>4, <1>5, <1>6, <1>7 DEF CountersIn

LEMMA ExitStep ==
  ASSUME UdpInv, CancelAndWait \/ Exit
  PROVE  UdpInv'
<1> USE DEF UdpInv, UdpTypes, TypeOK, CancelAndWait, Exit, To
<1>1. UNCHANGED <<outVars, loopVars>> /\ UNCHANGED <<in_packet, use_count, exit_count, held, waking, leaving>>
  OBVIOUS
<1>2. PacketsOut' /\ ListOut' /\ HandOut'
  BY <1>1, OutKept DEF outVars, loopVars, HandOut
<1>3. Counted'
  BY <1>1 DEF CountersIn, Counted, loopVars
<1>4. exit_sem' \in Nat /\ OwnerKnows'
  <2>1. CASE CancelAndWait
    <3>1. exit_sem' = 0
      BY <2>1 DEF CountersIn, OwnerKnows, One
    <3> QED
      BY <1>1, <2>1, <3>1 DEF CountersIn, OwnerKnows, One, loopVars
  <2>2. CASE Exit
    <3>1. exit_sem = 1 /\ exit_count = 0
      BY <2>2 DEF CountersIn, OwnerKnows, One
    <3>2. exit_sem' = 0
      BY <2>2, <3>1
    <3> QED
      BY <1>1, <2>2, <3>1, <3>2 DEF CountersIn, OwnerKnows, One, loopVars
  <2> QED
    BY <2>1, <2>2
<1>5. UdpTypes'
  BY <1>1, <1>4 DEF loopVars, outVars
<1> QED
  BY <1>2, <1>3, <1>4, <1>5 DEF CountersIn

LEMMA FinishStep ==
  ASSUME UdpInv, Finish
  PROVE  UdpInv'
<1> USE DEF UdpInv, UdpTypes, TypeOK, Finish, loopVars, To
<1>1. \A p \in Out : p \notin calling /\ ~Waits(p)
  BY DEF Waits, ListOut, ToSet
<1>2. \A p \in Out : completed'[p] = IF p = out_packet THEN completed[p] + 1 ELSE completed[p]
  OBVIOUS
<1>3. UdpTypes'
  BY DEF CountersIn, OwnerKnows
<1>4. PacketsOut'
  BY <1>1, <1>2, DevicesAssumption DEF PacketsOut, Ended, Waits, InHand, Writes, Called
<1>5. ListOut' /\ HandOut'
  BY DEF ListOut, HandOut
<1>6. Counted'
  <2>1. in_packet \in BOOLEAN /\ UNCHANGED <<use_count, exit_count, waking, leaving, dev>>
    BY DEF CountersIn, OwnerKnows
  <2>2. CASE in_packet
    <3>1. ~in_packet' /\ held' = held + 1
      BY <2>2
    <3> QED
      BY <2>1, <2>2, <3>1 DEF CountersIn, Counted, One
  <2>3. CASE ~in_packet
    <3>1. ~in_packet' /\ held' = held
      BY <2>3
    <3> QED
      BY <2>1, <2>3, <3>1 DEF CountersIn, Counted, One
  <2> QED
    BY <2>2, <2>3
<1>7. OwnerKnows'
  BY DEF CountersIn, OwnerKnows, One
<1> QED
  BY <1>3, <1>4, <1>5, <1>6, <1>7 DEF CountersIn

LEMMA UdpStep == UdpInv /\ Next => UdpInv'
BY PutStep, PutInterruptStep, CancelBeginStep, CancelStep, GetStep, StartOutStep, LookOutStep, WaitOutboundStep,
   ReadStep, UserStep, WaitStep, StopStep, ExitStep, FinishStep
   DEF Next, PushOut

LEMMA UdpInit == Init => UdpInv
<1> SUFFICES ASSUME Init PROVE UdpInv
  OBVIOUS
<1> USE DEF Init
<1>1. UdpTypes
  BY DevicesAssumption DEF UdpTypes, TypeOK
<1>2. PacketsOut
  BY DevicesAssumption DEF PacketsOut, Ended
<1>3. ListOut /\ HandOut
  BY DEF ListOut, HandOut, IsInjective, ToSet
<1>4. One(in_packet) = 0 /\ One(dev = "alloc_in") = 0 /\ One(owner = "waiting" /\ exit_count = 0) = 0
  BY DEF One
<1>5. Counted
  BY <1>4 DEF Counted
<1>6. OwnerKnows
  <2>1. in_packet \in BOOLEAN /\ exit_flag \in BOOLEAN /\ ~exit_flag /\ owner = "running" /\ exit_sem = 0
    OBVIOUS
  <2> QED
    BY <1>4, <2>1 DEF OwnerKnows
<1> QED
  BY <1>1, <1>2, <1>3, <1>5, <1>6 DEF UdpInv, CountersIn

LEMMA UdpRight == UdpInv => OneCompletes /\ FinishIsLast
<1> SUFFICES ASSUME UdpInv PROVE OneCompletes /\ FinishIsLast
  OBVIOUS
<1> USE DEF UdpInv, UdpTypes
<1>1. OneCompletes
  BY DEF OneCompletes, One, PacketsOut, ListOut, Ended, Waits, InHand, Writes, Called
<1>2. FinishIsLast
  BY DEF FinishIsLast, CountersIn, Counted, OwnerKnows, One, TypeOK
<1> QED
  BY <1>1, <1>2

-----------------------------------------------------------------------------
\* AsyncFileProcessor

Thread == F!Thread

FileTypes == /\ F!TypeOK /\ fileCompleted \in [Work -> {0, 1}]
             /\ handle_buf \in Seq(Index) /\ index_buf \in Seq(Index) /\ slot \in [Index -> Nat]
             /\ max_slots \in Nat /\ 0..(max_slots - 1) \subseteq Index

\* Where a packet to read or to write may be.
NotHere(p) == (\A u \in User : bringing[u] # p) /\ (\A s \in Index : work[s] # p)
NoCancel(p) == ~delayed[p] /\ p \notin fileCalling /\ fileCancel[p] \in {"None", "Cancelled"}

Over(p)    == fileCompleted[p] = 1 /\ NotHere(p) /\ NoCancel(p) /\ fileCancel[p] = "None"
Brought(p) == /\ fileCompleted[p] = 0 /\ NoCancel(p)
              /\ (\E u \in User : bringing[u] = p) /\ (\A s \in Index : work[s] # p)
InSlot(p)  == /\ fileCompleted[p] = 0 /\ NoCancel(p)
              /\ (\A u \in User : bringing[u] # p) /\ (\E s \in Index : work[s] = p)
Delayed(p) == /\ fileCompleted[p] = 0 /\ NotHere(p) /\ delayed[p]
              /\ \/ p \notin fileCalling /\ fileCancel[p] = "Has"
                 \/ p \in fileCalling /\ fileCancel[p] = "Cancelled"
Left(p)    == fileCompleted[p] = 0 /\ NotHere(p) /\ ~delayed[p] /\ p \in fileCalling /\ fileCancel[p] = "Cancelled"

SoleUser(f, none) == \A x, y \in DOMAIN f : f[x] = f[y] /\ f[x] # none => x = y

WorkIn == /\ \A p \in Work : Over(p) \/ Brought(p) \/ InSlot(p) \/ Delayed(p) \/ Left(p)
          /\ SoleUser(bringing, NoWork) /\ SoleUser(work, NoWork)

DelayIn == IsInjective(delay_list) /\ \A p \in Work : delayed[p] <=> p \in ToSet(delay_list)

Slotted == {"start", "put", "free", "taking", "complete"}

TasksIn == /\ \A u \in User : /\ pc[u] \in {"idle", "alloc", "start", "put", "give", "free", "taking"}
                              /\ pc[u] = "alloc" <=> bringing[u] # NoWork
                              /\ fileOwner # "running" => pc[u] = "idle"
           /\ pc[Completor] \notin {"idle", "alloc"}
           /\ \A t \in Thread : at[t] # NoSlot <=> pc[t] \in Slotted
           /\ SoleUser(at, NoSlot)

\* Where a slot may be.
Used == 0..(max_slots - 1)
NotAt(s) == \A t \in Thread : at[t] # s
Io(s) == s \in pending \cup event
OfPool(s) == s \in ToSet(avail_list) /\ s \notin ToSet(active_list) /\ NotAt(s) /\ slot[s] = 0 /\ work[s] = NoWork
OfList(s) == /\ s \notin ToSet(avail_list) /\ s \in ToSet(active_list) /\ NotAt(s) /\ slot[s] = 0
             /\ work[s] # NoWork /\ Io(s)
OfWait(s) == /\ s \notin ToSet(avail_list) /\ s \notin ToSet(active_list) /\ NotAt(s) /\ slot[s] # 0
             /\ work[s] # NoWork /\ Io(s)
OfTask(t) == /\ at[t] \in Used /\ at[t] \notin ToSet(avail_list) /\ at[t] \notin ToSet(active_list)
             /\ slot[at[t]] # 0 <=> pc[t] = "complete"
             /\ work[at[t]] # NoWork <=> pc[t] \in {"start", "put", "complete"}
             /\ pc[t] \in {"put", "complete"} => Io(at[t])

SlotsIn == /\ \A s \in Used : OfPool(s) \/ OfList(s) \/ OfWait(s) \/ ~NotAt(s)
           /\ \A t \in Thread : at[t] # NoSlot => OfTask(t)
           /\ \A s \in Index \ Used : work[s] = NoWork /\ slot[s] = 0
           /\ ToSet(avail_list) \subseteq Used /\ ToSet(active_list) \subseteq Used
           /\ IsInjective(avail_list) /\ IsInjective(active_list)

NoneIdle == delay_list # << >> => avail_list = << >>

Units == /\ pc[Completor] # "stopped" =>
              sem + CountAt(pc, "give") + CountAt(pc, "get") = Len(active_list) + (IF fileOwner = "running" THEN 0 ELSE 1)
         /\ pc[Completor] = "stopped" => fileOwner # "running" /\ sem = 0

FileInv == FileTypes /\ WorkIn /\ DelayIn /\ TasksIn /\ SlotsIn /\ NoneIdle /\ Units /\ F!WaitListOK
-----------------------------------------------------------------------------
\* SysWait: the arrays

LEMMA AddOK ==
  ASSUME F!WaitListOK, index_buf \in Seq(Index), slot \in [Index -> Nat], NEW i \in Index, F!AddWait(i)
  PROVE  /\ F!WaitListOK' /\ handle_buf' \in Seq(Index) /\ index_buf' \in Seq(Index) /\ slot' \in [Index -> Nat]
         /\ \A j \in Index : slot'[j] # 0 <=> slot[j] # 0 \/ j = i
<1> DEFINE n == Len(index_buf)
<1>1. /\ handle_buf = index_buf /\ n \in Nat
      /\ \A j \in Index : slot[j] \in 0..n /\ (slot[j] # 0 => index_buf[slot[j]] = j)
      /\ \A k \in 1..n : index_buf[k] \in Index /\ slot[index_buf[k]] = k
  BY DEF F!WaitListOK, F!count
<1>2. /\ slot[i] = 0 /\ slot' = [slot EXCEPT ![i] = n + 1]
      /\ handle_buf' = Append(index_buf, i) /\ index_buf' = Append(index_buf, i)
  BY <1>1 DEF F!AddWait, F!count
<1>3. /\ index_buf' \in Seq(Index) /\ handle_buf' = index_buf' /\ Len(index_buf') = n + 1
      /\ \A k \in 1..n : index_buf'[k] = index_buf[k]
      /\ index_buf'[n + 1] = i
  BY <1>2
<1>4. slot' \in [Index -> Nat] /\ \A j \in Index : slot'[j] = IF j = i THEN n + 1 ELSE slot[j]
  BY <1>1, <1>2
<1> HIDE DEF n
<1>5. \A j \in Index : slot'[j] \in 0..(n + 1) /\ (slot'[j] # 0 => index_buf'[slot'[j]] = j)
  BY <1>1, <1>3, <1>4
<1>6. \A k \in 1..(n + 1) : index_buf'[k] \in Index /\ slot'[index_buf'[k]] = k
  BY <1>1, <1>2, <1>3, <1>4
<1> QED
  BY <1>1, <1>3, <1>4, <1>5, <1>6 DEF F!WaitListOK, F!count

LEMMA DelOK ==
  ASSUME F!WaitListOK, index_buf \in Seq(Index), slot \in [Index -> Nat], NEW i \in Index, F!DelWait(i)
  PROVE  /\ F!WaitListOK' /\ handle_buf' \in Seq(Index) /\ index_buf' \in Seq(Index) /\ slot' \in [Index -> Nat]
         /\ \A j \in Index : slot'[j] # 0 <=> slot[j] # 0 /\ j # i
<1>1. PICK n, k, m, a, w : n \in Nat /\ n = Len(index_buf) /\ k = slot[i] /\ m = index_buf[n] /\ a = index_buf' /\ w = slot'
  OBVIOUS
<1>2. /\ handle_buf = index_buf
      /\ \A j \in Index : slot[j] \in 0..n /\ (slot[j] # 0 => index_buf[slot[j]] = j)
      /\ \A r \in 1..n : index_buf[r] \in Index /\ slot[index_buf[r]] = r
  BY <1>1 DEF F!WaitListOK, F!count
<1>3. /\ k \in 1..n /\ index_buf[k] = i /\ n \in 1..n /\ m \in Index /\ slot[m] = n
      /\ w = [slot EXCEPT ![m] = k, ![i] = 0]
      /\ handle_buf' = F!MoveLast(index_buf, k) /\ a = F!MoveLast(index_buf, k)
  BY <1>1, <1>2 DEF F!DelWait, F!count
<1>4. /\ a \in Seq(Index) /\ Len(a) = n - 1
      /\ \A r \in 1..(n - 1) : a[r] = IF r = k THEN m ELSE index_buf[r]
  <2>1. PICK b : b = [index_buf EXCEPT ![k] = m]
    OBVIOUS
  <2>2. b \in Seq(Index) /\ Len(b) = n /\ \A r \in 1..n : b[r] = IF r = k THEN m ELSE index_buf[r]
    BY <1>1, <1>3, <2>1
  <2>3. a = SubSeq(b, 1, Len(b) - 1)
    BY <1>1, <1>3, <2>1 DEF F!MoveLast, F!Front, F!Last
  <2>4. a \in Seq(Index) /\ Len(a) = n - 1 /\ \A r \in 1..(n - 1) : a[r] = b[r]
    BY <1>3, <2>2, <2>3
  <2> QED
    BY <2>2, <2>4
<1>5. w \in [Index -> Nat] /\ \A j \in Index : w[j] = IF j = i THEN 0 ELSE IF j = m THEN k ELSE slot[j]
  BY <1>2, <1>3
<1>6. ASSUME NEW j \in Index PROVE w[j] \in 0..(n - 1) /\ (w[j] # 0 => a[w[j]] = j)
  <2>1. CASE j = i
    BY <1>3, <1>5, <2>1
  <2>2. CASE j # i /\ j = m
    <3>1. k # n /\ k \in 1..(n - 1) /\ w[j] = k
      BY <1>1, <1>2, <1>3, <1>5, <2>2
    <3> QED
      BY <1>4, <2>2, <3>1
  <2>3. CASE j # i /\ j # m
    <3>1. slot[j] # k /\ slot[j] # n /\ w[j] = slot[j] /\ slot[j] \in 0..(n - 1)
      <4>1. slot[j] \in 0..n /\ (slot[j] = k => index_buf[k] = j) /\ (slot[j] = n => index_buf[n] = j)
        BY <1>2, <1>3
      <4> QED
        BY <1>1, <1>3, <1>5, <2>3, <4>1
    <3>2. PICK c : c = slot[j]
      OBVIOUS
    <3>3. c # 0 => c \in 1..(n - 1) /\ a[c] = index_buf[c] /\ index_buf[c] = j
      BY <1>2, <1>4, <3>1, <3>2
    <3> QED
      BY <3>1, <3>2, <3>3
  <2> QED
    BY <2>1, <2>2, <2>3
<1>7. ASSUME NEW r \in 1..(n - 1) PROVE a[r] \in Index /\ w[a[r]] = r
  <2>0. r \in 1..n /\ slot[index_buf[r]] = r /\ r # n
    BY <1>2, <1>3
  <2>1. CASE r = k
    <3>1. a[r] = m /\ m # i
      BY <1>1, <1>3, <1>4, <2>0, <2>1
    <3> QED
      BY <1>3, <1>5, <2>1, <3>1
  <2>2. CASE r # k
    <3>1. a[r] = index_buf[r] /\ index_buf[r] # i /\ index_buf[r] # m
      BY <1>1, <1>3, <1>4, <2>0, <2>2
    <3> QED
      BY <1>2, <1>5, <2>0, <3>1
  <2> QED
    BY <2>1, <2>2
<1>8. \A j \in Index : w[j] # 0 <=> slot[j] # 0 /\ j # i
  BY <1>3, <1>5
<1>9. handle_buf' = a
  BY <1>3
<1> QED
  BY <1>1, <1>4, <1>5, <1>6, <1>7, <1>8, <1>9 DEF F!WaitListOK, F!count

LEMMA IndexOK ==
  ASSUME F!WaitListOK, index_buf \in Seq(Index), slot \in [Index -> Nat], NEW i, F!WaitIndex(i)
  PROVE  /\ F!WaitListOK' /\ handle_buf' \in Seq(Index) /\ index_buf' \in Seq(Index) /\ slot' \in [Index -> Nat]
         /\ i \in Index /\ slot[i] # 0 /\ i \in event
         /\ \A j \in Index : slot'[j] # 0 <=> slot[j] # 0
         /\ UNCHANGED <<sem, event>>
<1> DEFINE n == Len(index_buf)
           m == index_buf[n]
<1>1. /\ handle_buf = index_buf /\ n \in Nat
      /\ \A j \in Index : slot[j] \in 0..n /\ (slot[j] # 0 => index_buf[slot[j]] = j)
      /\ \A r \in 1..n : index_buf[r] \in Index /\ slot[index_buf[r]] = r
  BY DEF F!WaitListOK, F!count
<1>2. PICK k \in 1..n : handle_buf[k] \in event /\ i = index_buf[k] /\ F!Roll(k) /\ UNCHANGED <<sem, event>>
  BY <1>1 DEF F!WaitIndex, F!Set, F!count
<1>3. /\ n \in 1..n /\ m \in Index /\ slot[m] = n /\ i \in Index /\ slot[i] = k
      /\ slot' = [slot EXCEPT ![m] = k, ![i] = n]
      /\ handle_buf' = [index_buf EXCEPT ![k] = m, ![n] = i] /\ index_buf' = [index_buf EXCEPT ![k] = m, ![n] = i]
  BY <1>1, <1>2 DEF F!Roll, F!count
<1>4. /\ index_buf' \in Seq(Index) /\ handle_buf' = index_buf' /\ Len(index_buf') = n
      /\ \A r \in 1..n : index_buf'[r] = IF r = n THEN i ELSE IF r = k THEN m ELSE index_buf[r]
  BY <1>1, <1>2, <1>3
<1>5. slot' \in [Index -> Nat] /\ \A j \in Index : slot'[j] = IF j = i THEN n ELSE IF j = m THEN k ELSE slot[j]
  BY <1>1, <1>3
<1>6. handle_buf[k] = i /\ index_buf[k] = i /\ index_buf[n] = m
  BY <1>1, <1>2
<1> HIDE DEF n, m
<1>7. \A j \in Index : slot'[j] \in 0..n /\ (slot'[j] # 0 => index_buf'[slot'[j]] = j)
  BY <1>1, <1>2, <1>3, <1>4, <1>5, <1>6
<1>8. \A r \in 1..n : index_buf'[r] \in Index /\ slot'[index_buf'[r]] = r
  BY <1>1, <1>2, <1>3, <1>4, <1>5, <1>6
<1>9. \A j \in Index : slot'[j] # 0 <=> slot[j] # 0
  BY <1>1, <1>3, <1>5
<1> QED
  BY <1>1, <1>2, <1>3, <1>4, <1>5, <1>6, <1>7, <1>8, <1>9 DEF F!WaitListOK, F!count

\* The counts of the tasks that give a unit of the interrupt and of the Completor that has taken one.
LEMMA CountsMove ==
  ASSUME FileTypes, NEW t \in Thread, NEW b, pc' = [pc EXCEPT ![t] = b], NEW l
  PROVE  /\ CountAt(pc, l) \in Nat
         /\ pc[t] # l /\ b # l => CountAt(pc', l) = CountAt(pc, l)
         /\ pc[t] = l /\ b # l => CountAt(pc', l) = CountAt(pc, l) - 1 /\ CountAt(pc, l) >= 1
         /\ pc[t] # l /\ b = l => CountAt(pc', l) = CountAt(pc, l) + 1
<1> DEFINE S == {"idle", "alloc", "start", "put", "give", "free", "taking", "wait", "get", "complete", "stopped"}
<1>1. IsFiniteSet(Thread)
  BY FilesAssumption, FS_AddElement DEF Thread, F!Thread
<1>2. pc \in [Thread -> S] /\ DOMAIN pc = Thread
  BY DEF FileTypes, F!TypeOK, Thread
<1> HIDE DEF S
<1>3. CountAt(pc, l) \in Nat
  BY <1>1, <1>2, CountNat
<1>4. CASE pc[t] = b
  BY <1>2, <1>3, <1>4
<1>5. CASE pc[t] # b
  <2>1. PICK q : q = pc'
    OBVIOUS
  <2>2. Moves(pc, q, t, pc[t], b)
    BY <1>2, <1>5, <2>1 DEF Moves
  <2>3. /\ CountAt(pc, pc[t]) >= 1
        /\ CountAt(q, pc[t]) = CountAt(pc, pc[t]) - 1
        /\ CountAt(q, b) = CountAt(pc, b) + 1
        /\ \A c : c # pc[t] /\ c # b => CountAt(q, c) = CountAt(pc, c)
    BY <1>1, <1>2, <2>2, CountStep
  <2> QED
    BY <1>3, <2>1, <2>3
<1> QED
  BY <1>4, <1>5

LEMMA ThreadFacts == /\ Thread = User \cup {Completor} /\ Completor \in Thread /\ User \subseteq Thread
                     /\ Completor \notin User
BY FilesAssumption DEF Thread, F!Thread

\* What a step leaves alone.
LEMMA WorkKept ==
  ASSUME WorkIn, UNCHANGED <<fileCompleted, bringing, work, delayed, fileCalling, fileCancel>>
  PROVE  WorkIn'
BY DEF WorkIn, Over, Brought, InSlot, Delayed, Left, NotHere, NoCancel, SoleUser

LEMMA DelayKept ==
  ASSUME DelayIn, UNCHANGED <<delay_list, delayed>>
  PROVE  DelayIn'
BY DEF DelayIn

LEMMA UsedKept == ASSUME UNCHANGED max_slots PROVE Used' = Used
BY DEF Used

LEMMA SlotsKept ==
  ASSUME SlotsIn, UNCHANGED <<avail_list, active_list, at, slot, work, max_slots>>,
         \A t \in Thread : at[t] # NoSlot => pc'[t] = pc[t],
         \A s : Io(s) => Io(s)'
  PROVE  SlotsIn'
<1>1. Used' = Used /\ Thread' = Thread
  BY DEF Used, Thread, F!Thread
<1>2. \A s : NotAt(s)' = NotAt(s)
  BY <1>1 DEF NotAt
<1>3. \A s \in Used : (OfPool(s) \/ OfList(s) \/ OfWait(s) \/ ~NotAt(s))'
  BY <1>1, <1>2 DEF SlotsIn, OfPool, OfList, OfWait
<1>4. \A t \in Thread : at[t] # NoSlot => OfTask(t)'
  BY <1>1 DEF SlotsIn, OfTask
<1> QED
  BY <1>1, <1>3, <1>4 DEF SlotsIn

LEMMA WaitKept ==
  ASSUME F!WaitListOK, UNCHANGED <<handle_buf, index_buf, slot>>
  PROVE  F!WaitListOK'
BY DEF F!WaitListOK, F!count

\* A step that takes one packet from one place to another.
SamePlace(q) == /\ fileCompleted'[q] = fileCompleted[q] /\ delayed'[q] = delayed[q] /\ fileCancel'[q] = fileCancel[q]
                /\ q \in fileCalling' <=> q \in fileCalling
                /\ \A u \in User : bringing'[u] = q <=> bringing[u] = q
                /\ \A s \in Index : work'[s] = q <=> work[s] = q

LEMMA WorkMoves ==
  ASSUME WorkIn, NEW p, \A q \in Work : q # p => SamePlace(q),
         (Over(p) \/ Brought(p) \/ InSlot(p) \/ Delayed(p) \/ Left(p))',
         SoleUser(bringing', NoWork), SoleUser(work', NoWork)
  PROVE  WorkIn'
<1>1. ASSUME NEW q \in Work, q # p
      PROVE  (Over(q) \/ Brought(q) \/ InSlot(q) \/ Delayed(q) \/ Left(q))'
  <2>1. SamePlace(q)
    BY <1>1
  <2>2. NotHere(q)' = NotHere(q) /\ NoCancel(q)' = NoCancel(q)
    BY <2>1 DEF SamePlace, NotHere, NoCancel
  <2>3. /\ Over(q)' = Over(q) /\ Brought(q)' = Brought(q) /\ InSlot(q)' = InSlot(q)
        /\ Delayed(q)' = Delayed(q) /\ Left(q)' = Left(q)
    BY <2>1, <2>2 DEF SamePlace, Over, Brought, InSlot, Delayed, Left
  <2> QED
    BY <2>3 DEF WorkIn
<1> QED
  BY <1>1 DEF WorkIn, SoleUser

\* A step that takes one slot from one place to another.
SameSlot(r) == /\ slot'[r] # 0 <=> slot[r] # 0
               /\ work'[r] # NoWork <=> work[r] # NoWork
               /\ r \in ToSet(avail_list') <=> r \in ToSet(avail_list)
               /\ r \in ToSet(active_list') <=> r \in ToSet(active_list)
               /\ \A t \in Thread : at'[t] = r <=> at[t] = r
               /\ \A t \in Thread : at[t] = r => pc'[t] = pc[t]

LEMMA SlotMoves ==
  ASSUME FileTypes, SlotsIn, UNCHANGED max_slots, at' \in [Thread -> Index \cup {NoSlot}],
         NEW s \in Used, \A r \in Index : r # s => SameSlot(r),
         \A r \in Index : Io(r) => Io(r)',
         (OfPool(s) \/ OfList(s) \/ OfWait(s) \/ ~NotAt(s))',
         \A t \in Thread : at'[t] = s => OfTask(t)',
         ToSet(avail_list') \subseteq Index /\ ToSet(active_list') \subseteq Index,
         IsInjective(avail_list'), IsInjective(active_list')
  PROVE  SlotsIn'
<1>1. Used' = Used /\ Thread' = Thread /\ Used \subseteq Index
  BY DEF Used, Thread, F!Thread, FileTypes
<1>2. ASSUME NEW r \in Used, r # s
      PROVE  (OfPool(r) \/ OfList(r) \/ OfWait(r) \/ ~NotAt(r))'
  <2>1. SameSlot(r) /\ NotAt(r)' = NotAt(r) /\ (Io(r) => Io(r)')
    BY <1>1, <1>2 DEF SameSlot, NotAt
  <2> QED
    BY <2>1, <1>2 DEF SlotsIn, SameSlot, OfPool, OfList, OfWait
<1>3. ASSUME NEW t \in Thread, at'[t] # NoSlot
      PROVE  OfTask(t)'
  <2>1. CASE at'[t] = s
    BY <2>1
  <2>2. CASE at'[t] # s
    <3>1. PICK r \in Index : r = at'[t]
      BY <1>3
    <3>2. r # s /\ SameSlot(r) /\ at[t] = r /\ pc'[t] = pc[t] /\ (Io(r) => Io(r)')
      BY <2>2, <3>1 DEF SameSlot
    <3>3. OfTask(t)
      BY <3>2, <1>3, <3>1 DEF SlotsIn
    <3> QED
      BY <1>1, <3>1, <3>2, <3>3 DEF OfTask, SameSlot
  <2> QED
    BY <2>1, <2>2
<1>4. ASSUME NEW r \in Index \ Used
      PROVE  work'[r] = NoWork /\ slot'[r] = 0
  BY <1>4, <1>1 DEF SlotsIn, SameSlot
<1>5. ToSet(avail_list') \subseteq Used /\ ToSet(active_list') \subseteq Used
  BY <1>1 DEF SlotsIn, SameSlot
<1> QED
  BY <1>1, <1>2, <1>3, <1>4, <1>5 DEF SlotsIn

\* The invariant says what the properties say.
LEMMA SameOperators == /\ \A q : F!ToSet(q) = ToSet(q)
                       /\ \A q : F!IsInjective(q) <=> IsInjective(q)
                       /\ \A f, none : F!Alone(f, none) <=> SoleUser(f, none)
BY DEF F!ToSet, ToSet, F!IsInjective, IsInjective, F!Alone, SoleUser

LEMMA FileOneCompletes == ASSUME FileInv PROVE F!OneCompletes
<1>1. FileTypes /\ WorkIn /\ DelayIn
  BY DEF FileInv
<1>2. F!TypeOK /\ F!Alone(bringing, NoWork) /\ F!Alone(work, NoWork) /\ F!IsInjective(delay_list)
  BY <1>1, SameOperators DEF FileTypes, WorkIn, DelayIn
<1>3. ASSUME NEW p \in Work
      PROVE  /\ fileCompleted[p] \in 0..1
             /\ F!One(\E u \in User : bringing[u] = p) + F!One(\E s \in Index : work[s] = p)
                  + F!One(p \in ToSet(delay_list)) + F!One(p \in fileCalling /\ ~delayed[p]) = 1 - fileCompleted[p]
  <2>1. delayed[p] <=> p \in ToSet(delay_list)
    BY <1>1 DEF DelayIn
  <2>2. Over(p) \/ Brought(p) \/ InSlot(p) \/ Delayed(p) \/ Left(p)
    BY <1>1 DEF WorkIn
  <2>3. CASE Over(p)
    <3>1. /\ fileCompleted[p] = 1 /\ ~(\E u \in User : bringing[u] = p) /\ ~(\E s \in Index : work[s] = p)
          /\ ~(p \in ToSet(delay_list)) /\ ~(p \in fileCalling /\ ~delayed[p])
      BY <2>1, <2>3 DEF Over, NotHere, NoCancel
    <3> QED
      BY <3>1 DEF F!One
  <2>4. CASE Brought(p)
    <3>1. /\ fileCompleted[p] = 0 /\ (\E u \in User : bringing[u] = p) /\ ~(\E s \in Index : work[s] = p)
          /\ ~(p \in ToSet(delay_list)) /\ ~(p \in fileCalling /\ ~delayed[p])
      BY <2>1, <2>4 DEF Brought, NoCancel
    <3> QED
      BY <3>1 DEF F!One
  <2>5. CASE InSlot(p)
    <3>1. /\ fileCompleted[p] = 0 /\ ~(\E u \in User : bringing[u] = p) /\ (\E s \in Index : work[s] = p)
          /\ ~(p \in ToSet(delay_list)) /\ ~(p \in fileCalling /\ ~delayed[p])
      BY <2>1, <2>5 DEF InSlot, NoCancel
    <3> QED
      BY <3>1 DEF F!One
  <2>6. CASE Delayed(p)
    <3>1. /\ fileCompleted[p] = 0 /\ ~(\E u \in User : bringing[u] = p) /\ ~(\E s \in Index : work[s] = p)
          /\ p \in ToSet(delay_list) /\ ~(p \in fileCalling /\ ~delayed[p])
      BY <2>1, <2>6 DEF Delayed, NotHere
    <3> QED
      BY <3>1 DEF F!One
  <2>7. CASE Left(p)
    <3>1. /\ fileCompleted[p] = 0 /\ ~(\E u \in User : bringing[u] = p) /\ ~(\E s \in Index : work[s] = p)
          /\ ~(p \in ToSet(delay_list)) /\ p \in fileCalling /\ ~delayed[p]
      BY <2>1, <2>7 DEF Left, NotHere
    <3> QED
      BY <3>1 DEF F!One
  <2> QED
    BY <2>2, <2>3, <2>4, <2>5, <2>6, <2>7
<1> QED
  BY <1>2, <1>3, SameOperators DEF F!OneCompletes

LEMMA FileSlotsMatch == ASSUME FileInv PROVE F!SlotsMatch
<1>1. FileTypes /\ SlotsIn /\ TasksIn /\ NoneIdle
  BY DEF FileInv
<1>2. F!IsInjective(avail_list) /\ F!IsInjective(active_list) /\ F!Alone(at, NoSlot)
  BY <1>1, SameOperators DEF SlotsIn, TasksIn
<1>3. ASSUME NEW s \in 0..(max_slots - 1)
      PROVE  /\ F!One(s \in ToSet(avail_list)) + F!One(s \in ToSet(active_list)) + F!One(\E t \in Thread : at[t] = s)
                  + F!One(slot[s] # 0 /\ at[Completor] # s) = 1
             /\ slot[s] # 0 => s \in pending \cup event
             /\ s \in ToSet(active_list) \/ slot[s] # 0 => work[s] # NoWork
  <2>1. OfPool(s) \/ OfList(s) \/ OfWait(s) \/ ~NotAt(s)
    BY <1>1 DEF SlotsIn, Used
  <2>2. CASE OfPool(s)
    <3>1. /\ s \in ToSet(avail_list) /\ s \notin ToSet(active_list) /\ ~(\E t \in Thread : at[t] = s)
          /\ ~(slot[s] # 0 /\ at[Completor] # s) /\ slot[s] = 0
      BY <2>2 DEF OfPool, NotAt
    <3> QED
      BY <3>1 DEF F!One
  <2>3. CASE OfList(s)
    <3>1. /\ s \notin ToSet(avail_list) /\ s \in ToSet(active_list) /\ ~(\E t \in Thread : at[t] = s)
          /\ ~(slot[s] # 0 /\ at[Completor] # s) /\ slot[s] = 0 /\ work[s] # NoWork
      BY <2>3 DEF OfList, NotAt
    <3> QED
      BY <3>1 DEF F!One
  <2>4. CASE OfWait(s)
    <3>1. /\ s \notin ToSet(avail_list) /\ s \notin ToSet(active_list) /\ ~(\E t \in Thread : at[t] = s)
          /\ slot[s] # 0 /\ at[Completor] # s /\ work[s] # NoWork /\ s \in pending \cup event
      BY <2>4, ThreadFacts DEF OfWait, NotAt, Io
    <3> QED
      BY <3>1 DEF F!One
  <2>5. CASE ~NotAt(s)
    <3>1. PICK t \in Thread : at[t] = s
      BY <2>5 DEF NotAt
    <3>2. s # NoSlot /\ s \in Index
      BY <1>1, FilesAssumption DEF FileTypes
    <3>3. OfTask(t)
      BY <1>1, <3>1, <3>2 DEF SlotsIn
    <3>4. slot[s] # 0 => t = Completor
      BY <1>1, <3>1, <3>3, ThreadFacts DEF OfTask, TasksIn
    <3>5. /\ s \notin ToSet(avail_list) /\ s \notin ToSet(active_list) /\ (\E x \in Thread : at[x] = s)
          /\ ~(slot[s] # 0 /\ at[Completor] # s) /\ (slot[s] # 0 => work[s] # NoWork /\ s \in pending \cup event)
      BY <3>1, <3>3, <3>4 DEF OfTask, Io
    <3> QED
      BY <3>5 DEF F!One
  <2> QED
    BY <2>1, <2>2, <2>3, <2>4, <2>5
<1> QED
  BY <1>1, <1>2, <1>3, SameOperators DEF F!SlotsMatch, NoneIdle, Thread

LEMMA FileUnitsMatch == ASSUME FileInv PROVE F!UnitsMatch
<1>1. pc \in [Thread -> {"idle", "alloc", "start", "put", "give", "free", "taking", "wait", "get", "complete", "stopped"}]
  BY DEF FileInv, FileTypes, F!TypeOK, Thread
<1>2. \A l : F!N(l) = CountAt(pc, l)
  BY <1>1 DEF F!N, CountAt, TasksAt, Thread, F!Cardinality, Cardinality
<1> QED
  BY <1>2 DEF FileInv, Units, F!UnitsMatch

\* Where a slot that is listed, or in a task's hands, is not.
LEMMA InAvail ==
  ASSUME FileTypes, SlotsIn, NEW s \in ToSet(avail_list)
  PROVE  s \in Used /\ s \in Index /\ s # NoSlot /\ OfPool(s)
<1>1. s \in Used /\ s \in Index /\ s # NoSlot
  BY FilesAssumption DEF SlotsIn, FileTypes, Used
<1>2. NotAt(s)
  BY <1>1 DEF SlotsIn, NotAt, OfTask
<1> QED
  BY <1>1, <1>2 DEF SlotsIn, OfList, OfWait

LEMMA InActive ==
  ASSUME FileTypes, SlotsIn, NEW s \in ToSet(active_list)
  PROVE  s \in Used /\ s \in Index /\ s # NoSlot /\ OfList(s)
<1>1. s \in Used /\ s \in Index /\ s # NoSlot
  BY FilesAssumption DEF SlotsIn, FileTypes, Used
<1>2. NotAt(s)
  BY <1>1 DEF SlotsIn, NotAt, OfTask
<1> QED
  BY <1>1, <1>2 DEF SlotsIn, OfPool, OfWait

LEMMA InHands ==
  ASSUME FileTypes, TasksIn, SlotsIn, NEW t \in Thread, pc[t] \in Slotted
  PROVE  /\ at[t] \in Used /\ at[t] \in Index /\ at[t] # NoSlot /\ OfTask(t)
         /\ \A v \in Thread : at[v] = at[t] => v = t
<1>1. at[t] # NoSlot /\ OfTask(t)
  BY DEF TasksIn, SlotsIn
<1>2. \A v \in Thread : at[v] = at[t] => v = t
  BY <1>1 DEF TasksIn, SoleUser, FileTypes, F!TypeOK, Thread
<1> QED
  BY <1>1, <1>2 DEF OfTask, FileTypes, Used

\* A task that gives no unit of the interrupt, takes none and does not stop.
LEMMA UnitsKept ==
  ASSUME FileTypes, Units, NEW t \in Thread, NEW b, pc' = [pc EXCEPT ![t] = b],
         {pc[t], b} \cap {"give", "get", "stopped"} = {}, UNCHANGED <<sem, active_list, fileOwner>>
  PROVE  Units'
<1>1. CountAt(pc', "give") = CountAt(pc, "give") /\ CountAt(pc', "get") = CountAt(pc, "get")
  BY CountsMove
<1>2. pc'[Completor] = "stopped" <=> pc[Completor] = "stopped"
  BY ThreadFacts DEF FileTypes, F!TypeOK, Thread
<1> QED
  BY <1>1, <1>2 DEF Units

LEMMA FileStart == ASSUME F!Init PROVE FileInv
<1>1. max_slots \in 1..Cardinality(Index) /\ Cardinality(Index) \in Nat
  BY FilesAssumption, FS_CardinalityType DEF F!Init, F!Cardinality, Cardinality
<1>2. max_slots \in Nat /\ Used \subseteq Index /\ max_slots >= 1
  BY <1>1, FilesAssumption DEF Used
<1>3. /\ handle_buf = << >> /\ index_buf = << >> /\ slot = [i \in Index |-> 0] /\ sem = 0 /\ event = {}
      /\ active_list = << >> /\ work = [s \in Index |-> NoWork] /\ delay_list = << >>
      /\ delayed = [p \in Work |-> FALSE] /\ fileCancel = [p \in Work |-> "None"] /\ fileCalling = {}
      /\ fileCompleted = [p \in Work |-> 1] /\ pc = [t \in Thread |-> IF t = Completor THEN "wait" ELSE "idle"]
      /\ at = [t \in Thread |-> NoSlot] /\ bringing = [u \in User |-> NoWork] /\ pending = {} /\ fileOwner = "running"
  BY DEF F!Init, F!WaitInit, Thread
<1>4. PICK n : n = max_slots
  OBVIOUS
<1>5. /\ avail_list \in Seq(Index) /\ DOMAIN avail_list = 1..n /\ \A i \in 1..n : avail_list[i] = n - i
  <2>1. avail_list = [i \in 1..n |-> n - i]
    BY <1>4 DEF F!Init
  <2>2. \A i \in 1..n : n - i \in Index
    BY <1>2, <1>4 DEF Used
  <2> QED
    BY <1>2, <1>4, <2>1, <2>2
<1>6. ToSet(avail_list) = Used /\ IsInjective(avail_list)
  <2>1. \A s \in Used : n - s \in 1..n /\ avail_list[n - s] = s
    BY <1>2, <1>4, <1>5 DEF Used
  <2>2. ToSet(avail_list) \subseteq Used
    BY <1>2, <1>4, <1>5 DEF Used, ToSet
  <2>3. Used \subseteq ToSet(avail_list)
    BY <1>5, <2>1 DEF ToSet
  <2>4. IsInjective(avail_list)
    BY <1>2, <1>4, <1>5 DEF IsInjective
  <2> QED
    BY <2>2, <2>3, <2>4
<1>7. FileTypes
  <2>1. pc \in [Thread -> {"idle", "alloc", "start", "put", "give", "free", "taking", "wait", "get", "complete", "stopped"}]
    BY <1>3
  <2> QED
    BY <1>2, <1>3, <1>5, <2>1 DEF FileTypes, F!TypeOK, Used, Thread
<1>8. WorkIn
  BY <1>3, FilesAssumption DEF WorkIn, Over, NotHere, NoCancel, SoleUser
<1>9. DelayIn /\ NoneIdle
  BY <1>3 DEF DelayIn, NoneIdle, ToSet, IsInjective
<1>10. TasksIn
  BY <1>3, ThreadFacts DEF TasksIn, SoleUser, Slotted
<1>11. SlotsIn
  <2>1. ToSet(active_list) = {} /\ IsInjective(active_list)
    BY <1>3 DEF ToSet, IsInjective
  <2>2. \A s \in Used : OfPool(s)
    BY <1>2, <1>3, <1>6, <2>1, FilesAssumption DEF OfPool, NotAt
  <2> QED
    BY <1>3, <1>6, <2>1, <2>2 DEF SlotsIn
<1>12. Units
  <2>1. \A l \in {"give", "get"} : TasksAt(pc, l) = {}
    BY <1>3 DEF TasksAt
  <2>2. CountAt(pc, "give") = 0 /\ CountAt(pc, "get") = 0
    BY <2>1, FS_EmptySet DEF CountAt
  <2> QED
    BY <1>3, <2>2, ThreadFacts DEF Units
<1>13. F!WaitListOK
  BY <1>3 DEF F!WaitListOK, F!count
<1> QED
  BY <1>7, <1>8, <1>9, <1>10, <1>11, <1>12, <1>13 DEF FileInv

\* Users bring packets.
LEMMA BringStep ==
  ASSUME FileInv, NEW u \in User, NEW p \in Work, F!Bring(u, p), UNCHANGED max_slots
  PROVE  FileInv'
<1> USE DEF FileInv
<1>1. /\ fileOwner = "running" /\ pc[u] = "idle" /\ fileCompleted[p] = 1 /\ p \notin fileCalling
      /\ bringing' = [bringing EXCEPT ![u] = p] /\ fileCompleted' = [fileCompleted EXCEPT ![p] = 0]
      /\ pc' = [pc EXCEPT ![u] = "alloc"]
      /\ UNCHANGED <<delay_list, delayed, fileCancel, fileCalling, at, avail_list, active_list, work, fileOwner,
                     handle_buf, index_buf, slot, sem_first, sem, event, pending, max_slots>>
  BY DEF F!Bring, F!To, F!slotVars, F!sysVars, F!waitVars
<1>2. u \in Thread /\ u # Completor /\ Over(p) /\ bringing[u] = NoWork /\ at[u] = NoSlot /\ p # NoWork
  BY <1>1, ThreadFacts, FilesAssumption DEF WorkIn, Over, Brought, InSlot, Delayed, Left, TasksIn, Slotted
<1>3. FileTypes'
  BY <1>1, <1>2 DEF FileTypes, F!TypeOK, Thread
<1>4. WorkIn'
  <2>1. \A q \in Work : q # p => SamePlace(q)
    BY <1>1, <1>2, FilesAssumption DEF SamePlace, FileTypes, F!TypeOK
  <2>2. Brought(p)'
    BY <1>1, <1>2 DEF Over, Brought, NotHere, NoCancel, FileTypes, F!TypeOK
  <2>3. SoleUser(bringing', NoWork) /\ SoleUser(work', NoWork)
    BY <1>1, <1>2 DEF SoleUser, WorkIn, Over, NotHere, FileTypes, F!TypeOK
  <2> QED
    BY <2>1, <2>2, <2>3, WorkMoves
<1>5. DelayIn' /\ NoneIdle' /\ F!WaitListOK'
  BY <1>1, DelayKept, WaitKept DEF NoneIdle
<1>6. TasksIn'
  BY <1>1, <1>2, ThreadFacts DEF TasksIn, FileTypes, F!TypeOK, Slotted, Thread
<1>7. SlotsIn'
  BY <1>1, <1>2, SlotsKept DEF FileTypes, F!TypeOK, Thread, Io
<1>8. Units'
  BY <1>1, <1>2, UnitsKept
<1> QED
  BY <1>3, <1>4, <1>5, <1>6, <1>7, <1>8

LEMMA AllocSlotStep ==
  ASSUME FileInv, NEW u \in User, F!AllocSlot(u), UNCHANGED max_slots
  PROVE  FileInv'
<1> USE DEF FileInv
<1>0. PICK s, p : s = Head(avail_list) /\ p = bringing[u]
  OBVIOUS
<1>1. /\ pc[u] = "alloc" /\ avail_list # << >> /\ avail_list' = Tail(avail_list)
      /\ work' = [work EXCEPT ![s] = p] /\ bringing' = [bringing EXCEPT ![u] = NoWork]
      /\ at' = [at EXCEPT ![u] = s] /\ pc' = [pc EXCEPT ![u] = "start"]
      /\ UNCHANGED <<active_list, delay_list, delayed, fileCancel, fileCalling, fileCompleted, fileOwner,
                     handle_buf, index_buf, slot, sem_first, sem, event, pending, max_slots>>
  BY <1>0 DEF F!AllocSlot, F!To, F!At, F!packetVars, F!sysVars, F!waitVars
<1>2. /\ avail_list' \in Seq(Index) /\ ToSet(avail_list') = ToSet(avail_list) \ {s} /\ IsInjective(avail_list')
      /\ s \in ToSet(avail_list)
  BY <1>0, <1>1, ListTail DEF SlotsIn, FileTypes, F!TypeOK
<1>3. s \in Used /\ s \in Index /\ s # NoSlot /\ OfPool(s)
  BY <1>2, InAvail
<1>4. u \in Thread /\ u # Completor /\ p \in Work /\ p # NoWork /\ at[u] = NoSlot
  BY <1>0, <1>1, ThreadFacts, FilesAssumption DEF TasksIn, FileTypes, F!TypeOK, Slotted
<1>5. Brought(p)
  BY <1>0, <1>4 DEF WorkIn, Over, NotHere, Brought, InSlot, Delayed, Left
<1>6. FileTypes'
  BY <1>1, <1>2, <1>3, <1>4 DEF FileTypes, F!TypeOK, Thread
<1>7. WorkIn'
  <2>1. \A q \in Work : q # p => SamePlace(q)
    BY <1>0, <1>1, <1>3, <1>4, FilesAssumption DEF SamePlace, FileTypes, F!TypeOK, OfPool
  <2>2. InSlot(p)'
    <3>1. \A v \in User : bringing'[v] # p
      BY <1>0, <1>1, <1>4 DEF WorkIn, SoleUser, FileTypes, F!TypeOK
    <3>2. work'[s] = p
      BY <1>1, <1>3 DEF FileTypes, F!TypeOK
    <3> QED
      BY <1>1, <1>3, <1>5, <3>1, <3>2 DEF Brought, InSlot, NoCancel
  <2>3. SoleUser(bringing', NoWork) /\ SoleUser(work', NoWork)
    BY <1>1, <1>3, <1>4, <1>5 DEF SoleUser, WorkIn, Brought, FileTypes, F!TypeOK
  <2> QED
    BY <2>1, <2>2, <2>3, WorkMoves
<1>8. DelayIn' /\ NoneIdle' /\ F!WaitListOK'
  BY <1>1, DelayKept, WaitKept DEF NoneIdle
<1>9. TasksIn'
  <2>1. SoleUser(at', NoSlot)
    BY <1>1, <1>3, <1>4 DEF SoleUser, TasksIn, OfPool, NotAt, FileTypes, F!TypeOK, Thread
  <2> QED
    BY <1>1, <1>3, <1>4, <2>1, ThreadFacts DEF TasksIn, FileTypes, F!TypeOK, Slotted, Thread
<1>10. SlotsIn'
  <2>1. \A r \in Index : r # s => SameSlot(r)
    <3>1. \A r \in Index : r # s => (work'[r] # NoWork <=> work[r] # NoWork)
      BY <1>1, <1>3 DEF FileTypes, F!TypeOK
    <3>2. \A r \in Index, t \in Thread : r # s => (at'[t] = r <=> at[t] = r) /\ (at[t] = r => pc'[t] = pc[t])
      BY <1>1, <1>4, FilesAssumption DEF FileTypes, F!TypeOK, Thread
    <3> QED
      BY <1>1, <1>2, <3>1, <3>2 DEF SameSlot
  <2>2. \A t \in Thread : at'[t] = s <=> t = u
    BY <1>1, <1>3, <1>4 DEF OfPool, NotAt, FileTypes, F!TypeOK, Thread
  <2>3. OfTask(u)'
    BY <1>1, <1>2, <1>3, <1>4 DEF OfTask, OfPool, FileTypes, F!TypeOK, Thread, Used
  <2>4. (~NotAt(s))'
    BY <1>4, <2>2 DEF NotAt, Thread
  <2>5. ToSet(avail_list') \subseteq Index /\ ToSet(active_list') \subseteq Index /\ IsInjective(active_list')
    BY <1>1, <1>2 DEF SlotsIn, FileTypes, Used
  <2>6. at' \in [Thread -> Index \cup {NoSlot}] /\ \A r \in Index : Io(r) => Io(r)'
    BY <1>1, <1>3 DEF FileTypes, F!TypeOK, Thread, Io
  <2> QED
    BY <1>1, <1>2, <1>3, <2>1, <2>2, <2>3, <2>4, <2>5, <2>6, SlotMoves
<1>11. Units'
  BY <1>1, <1>4, UnitsKept
<1> QED
  BY <1>6, <1>7, <1>8, <1>9, <1>10, <1>11

LEMMA AllocDelayStep ==
  ASSUME FileInv, NEW u \in User, F!AllocDelay(u), UNCHANGED max_slots
  PROVE  FileInv'
<1> USE DEF FileInv
<1>0. PICK p : p = bringing[u]
  OBVIOUS
<1>t. u \in Thread /\ u # Completor
  BY ThreadFacts
<1>1. /\ pc[u] = "alloc" /\ avail_list = << >> /\ fileCancel[p] = "None"
      /\ fileCancel' = [fileCancel EXCEPT ![p] = "Has"] /\ delayed' = [delayed EXCEPT ![p] = TRUE]
      /\ delay_list' = Append(delay_list, p) /\ bringing' = [bringing EXCEPT ![u] = NoWork]
      /\ at' = [at EXCEPT ![u] = NoSlot] /\ pc' = [pc EXCEPT ![u] = "idle"]
      /\ UNCHANGED <<fileCalling, fileCompleted, avail_list, active_list, work, fileOwner,
                     handle_buf, index_buf, slot, sem_first, sem, event, pending, max_slots>>
  BY <1>0, <1>t DEF F!AllocDelay, F!Through, F!To, F!At, F!slotVars, F!sysVars, F!waitVars
<1>2. p \in Work /\ p # NoWork /\ at[u] = NoSlot /\ at' = at
  BY <1>0, <1>1, <1>t, FilesAssumption DEF TasksIn, FileTypes, F!TypeOK, Slotted, Thread
<1>3. Brought(p) /\ p \notin ToSet(delay_list)
  BY <1>0, <1>2 DEF WorkIn, Over, NotHere, NoCancel, Brought, InSlot, Delayed, Left, DelayIn
<1>4. /\ delay_list' \in Seq(Work) /\ ToSet(delay_list') = ToSet(delay_list) \cup {p} /\ IsInjective(delay_list')
  BY <1>1, <1>2, <1>3, ListAppend DEF DelayIn, FileTypes, F!TypeOK
<1>5. FileTypes'
  BY <1>1, <1>2, <1>4, <1>t DEF FileTypes, F!TypeOK, Thread
<1>6. WorkIn'
  <2>1. \A q \in Work : q # p => SamePlace(q)
    BY <1>0, <1>1, <1>2, FilesAssumption DEF SamePlace, FileTypes, F!TypeOK
  <2>2. Delayed(p)'
    <3>1. \A v \in User : bringing'[v] # p
      BY <1>0, <1>1, <1>2 DEF WorkIn, SoleUser, FileTypes, F!TypeOK
    <3>2. delayed'[p] /\ fileCancel'[p] = "Has"
      BY <1>1, <1>2 DEF FileTypes, F!TypeOK
    <3> QED
      BY <1>1, <1>3, <3>1, <3>2 DEF Brought, Delayed, NoCancel, NotHere
  <2>3. SoleUser(bringing', NoWork) /\ SoleUser(work', NoWork)
    BY <1>1 DEF SoleUser, WorkIn, FileTypes, F!TypeOK
  <2> QED
    BY <2>1, <2>2, <2>3, WorkMoves
<1>7. DelayIn' /\ NoneIdle'
  <2>1. \A q \in Work : delayed'[q] <=> q = p \/ delayed[q]
    BY <1>1, <1>2 DEF FileTypes, F!TypeOK
  <2> QED
    BY <1>1, <1>2, <1>4, <2>1 DEF DelayIn, NoneIdle
<1>8. F!WaitListOK'
  BY <1>1, WaitKept
<1>9. TasksIn'
  BY <1>1, <1>2, <1>t, ThreadFacts DEF TasksIn, FileTypes, F!TypeOK, Slotted, Thread
<1>10. SlotsIn'
  BY <1>1, <1>2, SlotsKept DEF FileTypes, F!TypeOK, Thread, Io
<1>11. Units'
  BY <1>1, <1>t, UnitsKept
<1> QED
  BY <1>5, <1>6, <1>7, <1>8, <1>9, <1>10, <1>11

LEMMA AllocCancelledStep ==
  ASSUME FileInv, NEW u \in User, F!AllocCancelled(u), UNCHANGED max_slots
  PROVE  FileInv'
<1> USE DEF FileInv
<1>0. PICK p : p = bringing[u]
  OBVIOUS
<1>t. u \in Thread /\ u # Completor
  BY ThreadFacts
<1>1. /\ pc[u] = "alloc" /\ fileCompleted' = [fileCompleted EXCEPT ![p] = @ + 1]
      /\ fileCancel' = [fileCancel EXCEPT ![p] = "None"] /\ bringing' = [bringing EXCEPT ![u] = NoWork]
      /\ at' = [at EXCEPT ![u] = NoSlot] /\ pc' = [pc EXCEPT ![u] = "idle"]
      /\ UNCHANGED <<delay_list, delayed, fileCalling, avail_list, active_list, work, fileOwner,
                     handle_buf, index_buf, slot, sem_first, sem, event, pending, max_slots>>
  BY <1>0, <1>t DEF F!AllocCancelled, F!Complete, F!Through, F!To, F!At, F!slotVars, F!sysVars, F!waitVars
<1>2. p \in Work /\ p # NoWork /\ at[u] = NoSlot /\ at' = at
  BY <1>0, <1>1, <1>t, FilesAssumption DEF TasksIn, FileTypes, F!TypeOK, Slotted, Thread
<1>3. Brought(p) /\ fileCompleted[p] = 0
  BY <1>0, <1>2 DEF WorkIn, Over, NotHere, Brought, InSlot, Delayed, Left
<1>5. FileTypes'
  BY <1>1, <1>2, <1>3, <1>t DEF FileTypes, F!TypeOK, Thread
<1>6. WorkIn'
  <2>1. \A q \in Work : q # p => SamePlace(q)
    BY <1>0, <1>1, <1>2, FilesAssumption DEF SamePlace, FileTypes, F!TypeOK
  <2>2. Over(p)'
    <3>1. \A v \in User : bringing'[v] # p
      BY <1>0, <1>1, <1>2 DEF WorkIn, SoleUser, FileTypes, F!TypeOK
    <3>2. fileCompleted'[p] = 1 /\ fileCancel'[p] = "None"
      BY <1>1, <1>2, <1>3 DEF FileTypes, F!TypeOK
    <3> QED
      BY <1>1, <1>3, <3>1, <3>2 DEF Brought, Over, NoCancel, NotHere
  <2>3. SoleUser(bringing', NoWork) /\ SoleUser(work', NoWork)
    BY <1>1 DEF SoleUser, WorkIn, FileTypes, F!TypeOK
  <2> QED
    BY <2>1, <2>2, <2>3, WorkMoves
<1>7. DelayIn' /\ NoneIdle' /\ F!WaitListOK'
  BY <1>1, DelayKept, WaitKept DEF NoneIdle
<1>9. TasksIn'
  BY <1>1, <1>2, <1>t, ThreadFacts DEF TasksIn, FileTypes, F!TypeOK, Slotted, Thread
<1>10. SlotsIn'
  BY <1>1, <1>2, SlotsKept DEF FileTypes, F!TypeOK, Thread, Io
<1>11. Units'
  BY <1>1, <1>t, UnitsKept
<1> QED
  BY <1>5, <1>6, <1>7, <1>9, <1>10, <1>11

\* A task with a slot.  One that goes on with the same slot changes at most the
\* work of it, and what it does to the I/O is in its favour.
LEMMA SameHands ==
  ASSUME FileTypes, TasksIn, SlotsIn, UNCHANGED max_slots, NEW t \in Thread, pc[t] \in Slotted, NEW b, b \in Slotted,
         pc' = [pc EXCEPT ![t] = b], UNCHANGED <<at, avail_list, active_list>>,
         \A r \in Index : r # at[t] => ((slot'[r] # 0 <=> slot[r] # 0) /\ (work'[r] # NoWork <=> work[r] # NoWork)),
         \A r \in Index : Io(r) => Io(r)', OfTask(t)'
  PROVE  SlotsIn'
<1>0. PICK s : s = at[t]
  OBVIOUS
<1>1. s \in Used /\ s \in Index /\ s # NoSlot /\ OfTask(t) /\ \A v \in Thread : at[v] = s => v = t
  BY <1>0, InHands
<1>2. \A r \in Index : r # s => SameSlot(r)
  <2>1. \A v \in Thread : v # t => pc'[v] = pc[v]
    BY DEF FileTypes, F!TypeOK, Thread
  <2> QED
    BY <1>0, <2>1 DEF SameSlot
<1>3. \A v \in Thread : at'[v] = s => OfTask(v)'
  BY <1>0, <1>1
<1>4. (~NotAt(s))'
  BY <1>0 DEF NotAt, Thread
<1>5. at' \in [Thread -> Index \cup {NoSlot}]
  BY DEF FileTypes, F!TypeOK, Thread
<1>6. /\ ToSet(avail_list') \subseteq Index /\ ToSet(active_list') \subseteq Index
      /\ IsInjective(avail_list') /\ IsInjective(active_list')
  BY DEF SlotsIn, FileTypes, Used
<1> QED
  BY <1>1, <1>2, <1>3, <1>4, <1>5, <1>6, SlotMoves

LEMMA TasksGoOn ==
  ASSUME FileTypes, TasksIn, NEW t \in Thread, pc[t] \in Slotted, NEW b, b \in Slotted, b = "complete" => t = Completor,
         pc' = [pc EXCEPT ![t] = b], UNCHANGED <<at, bringing, fileOwner>>
  PROVE  TasksIn'
<1>1. \A v \in Thread : pc'[v] = IF v = t THEN b ELSE pc[v]
  BY DEF FileTypes, F!TypeOK, Thread
<1> QED
  BY <1>1, ThreadFacts DEF TasksIn, Slotted, Thread, FileTypes, F!TypeOK

LEMMA StartPendingStep ==
  ASSUME FileInv, NEW t \in Thread, F!StartPending(t), UNCHANGED max_slots
  PROVE  FileInv'
<1> USE DEF FileInv
<1>1. /\ pc[t] = "start" /\ pending' = pending \cup {at[t]} /\ event' = event \ {at[t]}
      /\ pc' = [pc EXCEPT ![t] = "put"]
      /\ UNCHANGED <<at, bringing, avail_list, active_list, work, delay_list, delayed, fileCancel, fileCalling,
                     fileCompleted, fileOwner, handle_buf, index_buf, slot, sem_first, sem, max_slots>>
  BY DEF F!StartPending, F!To, F!packetVars, F!slotVars, F!waitVars
<1>2. at[t] \in Used /\ at[t] \in Index /\ at[t] # NoSlot /\ OfTask(t) /\ pc[t] \in Slotted /\ "put" \in Slotted
  BY <1>1, InHands DEF Slotted
<1>3. FileTypes'
  BY <1>1, <1>2 DEF FileTypes, F!TypeOK, Thread
<1>4. WorkIn' /\ DelayIn' /\ NoneIdle' /\ F!WaitListOK'
  BY <1>1, WorkKept, DelayKept, WaitKept DEF NoneIdle
<1>5. TasksIn'
  BY <1>1, <1>2, TasksGoOn
<1>6. SlotsIn'
  <2>1. \A r : Io(r) => Io(r)'
    BY <1>1 DEF Io
  <2>2. OfTask(t)'
    BY <1>1, <1>2 DEF OfTask, Io, Used, FileTypes, F!TypeOK, Thread
  <2> QED
    BY <1>1, <1>2, <2>1, <2>2, SameHands
<1>7. Units'
  BY <1>1, UnitsKept
<1> QED
  BY <1>3, <1>4, <1>5, <1>6, <1>7

LEMMA StartDoneStep ==
  ASSUME FileInv, NEW t \in Thread, F!StartDone(t), UNCHANGED max_slots
  PROVE  FileInv'
<1> USE DEF FileInv
<1>0. PICK s, p : s = at[t] /\ p = work[s]
  OBVIOUS
<1>1. /\ pc[t] = "start" /\ fileCompleted' = [fileCompleted EXCEPT ![p] = @ + 1]
      /\ fileCancel' = [fileCancel EXCEPT ![p] = "None"] /\ work' = [work EXCEPT ![s] = NoWork]
      /\ pc' = [pc EXCEPT ![t] = "free"]
      /\ UNCHANGED <<at, bringing, avail_list, active_list, delay_list, delayed, fileCalling,
                     fileOwner, handle_buf, index_buf, slot, sem_first, sem, event, pending, max_slots>>
  BY <1>0 DEF F!StartDone, F!Complete, F!To, F!sysVars, F!waitVars
<1>2. s \in Used /\ s \in Index /\ s # NoSlot /\ OfTask(t) /\ pc[t] \in Slotted /\ "free" \in Slotted
  BY <1>0, <1>1, InHands DEF Slotted
<1>3. p \in Work /\ p # NoWork
  BY <1>0, <1>1, <1>2 DEF OfTask, FileTypes, F!TypeOK
<1>4. InSlot(p) /\ fileCompleted[p] = 0
  BY <1>0, <1>2, <1>3 DEF WorkIn, Over, NotHere, Brought, InSlot, Delayed, Left
<1>5. FileTypes'
  BY <1>1, <1>2, <1>3, <1>4 DEF FileTypes, F!TypeOK, Thread
<1>6. WorkIn'
  <2>1. \A q \in Work : q # p => SamePlace(q)
    BY <1>0, <1>1, <1>2, <1>3, FilesAssumption DEF SamePlace, FileTypes, F!TypeOK
  <2>2. Over(p)'
    <3>1. \A r \in Index : work'[r] # p
      BY <1>0, <1>1, <1>2, <1>3 DEF WorkIn, SoleUser, FileTypes, F!TypeOK
    <3>2. fileCompleted'[p] = 1 /\ fileCancel'[p] = "None"
      BY <1>1, <1>3, <1>4 DEF FileTypes, F!TypeOK
    <3> QED
      BY <1>1, <1>4, <3>1, <3>2 DEF InSlot, Over, NoCancel, NotHere
  <2>3. SoleUser(bringing', NoWork) /\ SoleUser(work', NoWork)
    BY <1>1 DEF SoleUser, WorkIn, FileTypes, F!TypeOK
  <2> QED
    BY <2>1, <2>2, <2>3, WorkMoves
<1>7. DelayIn' /\ NoneIdle' /\ F!WaitListOK'
  BY <1>1, DelayKept, WaitKept DEF NoneIdle
<1>8. TasksIn'
  BY <1>1, <1>2, TasksGoOn
<1>9. SlotsIn'
  <2>1. \A r : Io(r) => Io(r)'
    BY <1>1 DEF Io
  <2>2. \A r \in Index : r # at[t] => ((slot'[r] # 0 <=> slot[r] # 0) /\ (work'[r] # NoWork <=> work[r] # NoWork))
    BY <1>0, <1>1, <1>2 DEF FileTypes, F!TypeOK
  <2>3. OfTask(t)'
    BY <1>0, <1>1, <1>2 DEF OfTask, Used, FileTypes, F!TypeOK, Thread
  <2> QED
    BY <1>1, <1>2, <2>1, <2>2, <2>3, SameHands
<1>10. Units'
  BY <1>1, UnitsKept
<1> QED
  BY <1>5, <1>6, <1>7, <1>8, <1>9, <1>10

\* A task that has a slot no more, and nothing else.
LEMMA TasksEnd ==
  ASSUME FileTypes, TasksIn, NEW t \in Thread, pc[t] \in Slotted \cup {"give"},
         NEW b, b \in {"give", IF t = Completor THEN "wait" ELSE "idle"},
         pc' = [pc EXCEPT ![t] = b], at' = [at EXCEPT ![t] = NoSlot], UNCHANGED <<bringing, fileOwner>>
  PROVE  TasksIn'
<1>1. \A v \in Thread : pc'[v] = IF v = t THEN b ELSE pc[v]
  BY DEF FileTypes, F!TypeOK, Thread
<1>2. \A v \in Thread : at'[v] = IF v = t THEN NoSlot ELSE at[v]
  BY DEF FileTypes, F!TypeOK, Thread
<1>3. DOMAIN at' = Thread /\ DOMAIN at = Thread
  BY DEF FileTypes, F!TypeOK, Thread
<1>4. SoleUser(at', NoSlot)
  BY <1>2, <1>3 DEF TasksIn, SoleUser
<1>5. \A v \in Thread : at'[v] # NoSlot <=> pc'[v] \in Slotted
  BY <1>1, <1>2 DEF TasksIn, Slotted
<1>6. pc'[Completor] \notin {"idle", "alloc"}
  BY <1>1, ThreadFacts DEF TasksIn
<1>7. \A u \in User : /\ pc'[u] \in {"idle", "alloc", "start", "put", "give", "free", "taking"}
                      /\ pc'[u] = "alloc" <=> bringing'[u] # NoWork
                      /\ fileOwner' # "running" => pc'[u] = "idle"
  BY <1>1, ThreadFacts DEF TasksIn, Slotted
<1> QED
  BY <1>4, <1>5, <1>6, <1>7 DEF TasksIn, Thread, F!Thread

LEMMA PutListStep ==
  ASSUME FileInv, NEW t \in Thread, F!PutList(t), UNCHANGED max_slots
  PROVE  FileInv'
<1> USE DEF FileInv
<1>0. PICK s : s = at[t]
  OBVIOUS
<1>1. /\ pc[t] = "put" /\ active_list' = <<s>> \o active_list
      /\ at' = [at EXCEPT ![t] = NoSlot] /\ pc' = [pc EXCEPT ![t] = "give"]
      /\ UNCHANGED <<bringing, avail_list, work, delay_list, delayed, fileCalling, fileCancel, fileCompleted,
                     fileOwner, handle_buf, index_buf, slot, sem_first, sem, event, pending, max_slots>>
  BY <1>0 DEF F!PutList, F!To, F!At, F!packetVars, F!sysVars, F!waitVars
<1>2. /\ s \in Used /\ s \in Index /\ s # NoSlot /\ OfTask(t) /\ pc[t] \in Slotted
      /\ \A v \in Thread : at[v] = s => v = t
  BY <1>0, <1>1, InHands DEF Slotted
<1>3. s \notin ToSet(avail_list) /\ s \notin ToSet(active_list) /\ slot[s] = 0 /\ work[s] # NoWork /\ Io(s)
  BY <1>0, <1>1, <1>2 DEF OfTask
<1>4. /\ active_list' \in Seq(Index) /\ ToSet(active_list') = ToSet(active_list) \cup {s} /\ IsInjective(active_list')
      /\ Len(active_list') = Len(active_list) + 1
  BY <1>1, <1>2, <1>3, ListCons DEF SlotsIn, FileTypes, F!TypeOK
<1>5. FileTypes'
  BY <1>1, <1>2, <1>4 DEF FileTypes, F!TypeOK, Thread
<1>6. WorkIn' /\ DelayIn' /\ NoneIdle' /\ F!WaitListOK'
  BY <1>1, WorkKept, DelayKept, WaitKept DEF NoneIdle
<1>7. TasksIn'
  BY <1>1, <1>2, TasksEnd
<1>8. SlotsIn'
  <2>1. \A v \in Thread : at'[v] = (IF v = t THEN NoSlot ELSE at[v]) /\ pc'[v] = (IF v = t THEN "give" ELSE pc[v])
    BY <1>1 DEF FileTypes, F!TypeOK, Thread
  <2>2. \A r \in Index : r # s => SameSlot(r)
    BY <1>0, <1>1, <1>4, <2>1, FilesAssumption DEF SameSlot
  <2>3. OfList(s)'
    BY <1>1, <1>2, <1>3, <1>4, <2>1 DEF OfList, NotAt, Io, Thread, F!Thread
  <2>4. \A v \in Thread : at'[v] # s
    BY <1>2, <2>1
  <2>5. ToSet(avail_list') \subseteq Index /\ ToSet(active_list') \subseteq Index /\ IsInjective(avail_list')
    BY <1>1, <1>2, <1>4 DEF SlotsIn, FileTypes, Used
  <2>6. at' \in [Thread -> Index \cup {NoSlot}] /\ \A r \in Index : Io(r) => Io(r)'
    BY <1>1 DEF FileTypes, F!TypeOK, Thread, Io
  <2> QED
    BY <1>1, <1>2, <1>4, <2>2, <2>3, <2>4, <2>5, <2>6, SlotMoves
<1>9. Units'
  <2>1. /\ CountAt(pc', "give") = CountAt(pc, "give") + 1 /\ CountAt(pc', "get") = CountAt(pc, "get")
        /\ CountAt(pc, "give") \in Nat /\ CountAt(pc, "get") \in Nat
    <3>1. PICK b : b = "give"
      OBVIOUS
    <3>2. pc[t] # b /\ pc[t] # "get" /\ b # "get" /\ pc' = [pc EXCEPT ![t] = b]
      BY <1>1, <3>1
    <3>3. CountAt(pc', b) = CountAt(pc, b) + 1 /\ CountAt(pc, b) \in Nat
      BY <3>2, CountsMove
    <3>4. CountAt(pc', "get") = CountAt(pc, "get") /\ CountAt(pc, "get") \in Nat
      BY <3>2, CountsMove
    <3> QED
      BY <3>1, <3>3, <3>4
  <2>2. pc'[Completor] = "stopped" <=> pc[Completor] = "stopped"
    BY <1>1, ThreadFacts DEF FileTypes, F!TypeOK, Thread
  <2>3. sem \in Nat /\ Len(active_list) \in Nat
    BY DEF FileTypes, F!TypeOK
  <2> QED
    BY <1>1, <1>4, <2>1, <2>2, <2>3 DEF Units
<1> QED
  BY <1>5, <1>6, <1>7, <1>8, <1>9

LEMMA PutGiveStep ==
  ASSUME FileInv, NEW t \in Thread, F!PutGive(t), UNCHANGED max_slots
  PROVE  FileInv'
<1> USE DEF FileInv
<1>0. PICK b : b = IF t = Completor THEN "wait" ELSE "idle"
  OBVIOUS
<1>1. /\ pc[t] = "give" /\ sem' = sem + 1
      /\ at' = [at EXCEPT ![t] = NoSlot] /\ pc' = [pc EXCEPT ![t] = b]
      /\ UNCHANGED <<bringing, avail_list, active_list, work, delay_list, delayed, fileCalling, fileCancel, fileCompleted,
                     fileOwner, handle_buf, index_buf, slot, sem_first, event, pending, max_slots>>
  BY <1>0 DEF F!PutGive, F!Interrupt, F!Through, F!To, F!At, F!packetVars, F!slotVars, F!waitVars
<1>2. at[t] = NoSlot /\ at' = at
  BY <1>1 DEF TasksIn, Slotted, FileTypes, F!TypeOK, Thread
<1>3. FileTypes'
  BY <1>0, <1>1, <1>2 DEF FileTypes, F!TypeOK, Thread
<1>4. WorkIn' /\ DelayIn' /\ NoneIdle' /\ F!WaitListOK'
  BY <1>1, WorkKept, DelayKept, WaitKept DEF NoneIdle
<1>5. TasksIn'
  BY <1>0, <1>1, TasksEnd
<1>6. SlotsIn'
  BY <1>1, <1>2, SlotsKept DEF FileTypes, F!TypeOK, Thread, Io
<1>7. Units'
  <2>1. /\ CountAt(pc', "give") = CountAt(pc, "give") - 1 /\ CountAt(pc', "get") = CountAt(pc, "get")
        /\ CountAt(pc, "give") \in Nat /\ CountAt(pc, "get") \in Nat
    <3>1. pc[t] = "give" /\ b # "give" /\ b # "get" /\ pc' = [pc EXCEPT ![t] = b]
      BY <1>0, <1>1
    <3> QED
      BY <3>1, CountsMove
  <2>2. pc'[Completor] # "stopped" /\ pc[Completor] # "stopped"
    <3>1. pc[Completor] = "stopped" => fileOwner # "running" /\ t # Completor
      BY <1>1 DEF Units
    <3>2. pc[Completor] # "stopped"
      BY <1>1, <3>1, ThreadFacts DEF TasksIn
    <3> QED
      BY <1>0, <1>1, <3>2, ThreadFacts DEF FileTypes, F!TypeOK, Thread
  <2>3. sem \in Nat /\ Len(active_list) \in Nat
    BY DEF FileTypes, F!TypeOK
  <2> QED
    BY <1>1, <2>1, <2>2, <2>3 DEF Units
<1> QED
  BY <1>3, <1>4, <1>5, <1>6, <1>7

\* try_free and take.
LEMMA TakeWorkStep ==
  ASSUME FileInv, NEW t \in Thread, F!TakeWork(t), UNCHANGED max_slots
  PROVE  FileInv'
<1> USE DEF FileInv
<1>0. PICK s, p : s = at[t] /\ p = Head(delay_list)
  OBVIOUS
<1>1. /\ pc[t] \in {"free", "taking"} /\ delay_list # << >> /\ fileCancel[p] = "Has"
      /\ delay_list' = Tail(delay_list) /\ delayed' = [delayed EXCEPT ![p] = FALSE]
      /\ fileCancel' = [fileCancel EXCEPT ![p] = "None"] /\ work' = [work EXCEPT ![s] = p]
      /\ pc' = [pc EXCEPT ![t] = "start"]
      /\ UNCHANGED <<fileCalling, fileCompleted, avail_list, active_list, at, bringing, fileOwner,
                     handle_buf, index_buf, slot, sem_first, sem, event, pending, max_slots>>
  BY <1>0 DEF F!TakeWork, F!Frees, F!To, F!sysVars, F!waitVars
<1>2. s \in Used /\ s \in Index /\ s # NoSlot /\ OfTask(t) /\ pc[t] \in Slotted /\ "start" \in Slotted
  BY <1>0, <1>1, InHands DEF Slotted
<1>3. /\ p \in Work /\ p # NoWork /\ p \in ToSet(delay_list) /\ IsInjective(delay_list')
      /\ delay_list' \in Seq(Work) /\ ToSet(delay_list') = ToSet(delay_list) \ {p}
  BY <1>0, <1>1, ListTail, FilesAssumption DEF DelayIn, FileTypes, F!TypeOK
<1>4. work[s] = NoWork
  BY <1>0, <1>1, <1>2 DEF OfTask
<1>5. Delayed(p) /\ p \notin fileCalling
  BY <1>1, <1>3 DEF WorkIn, Over, NoCancel, Brought, InSlot, Delayed, Left, DelayIn
<1>6. FileTypes'
  BY <1>1, <1>2, <1>3 DEF FileTypes, F!TypeOK, Thread
<1>7. WorkIn'
  <2>1. \A q \in Work : q # p => SamePlace(q)
    BY <1>1, <1>2, <1>3, <1>4, FilesAssumption DEF SamePlace, FileTypes, F!TypeOK
  <2>2. InSlot(p)'
    <3>1. work'[s] = p /\ ~delayed'[p] /\ fileCancel'[p] = "None"
      BY <1>1, <1>2, <1>3 DEF FileTypes, F!TypeOK
    <3> QED
      BY <1>1, <1>2, <1>5, <3>1 DEF Delayed, InSlot, NoCancel, NotHere
  <2>3. SoleUser(bringing', NoWork) /\ SoleUser(work', NoWork)
    BY <1>1, <1>2, <1>5 DEF SoleUser, WorkIn, Delayed, NotHere, FileTypes, F!TypeOK
  <2> QED
    BY <2>1, <2>2, <2>3, WorkMoves
<1>8. DelayIn'
  <2>1. \A q \in Work : delayed'[q] <=> q # p /\ delayed[q]
    BY <1>1, <1>3 DEF FileTypes, F!TypeOK
  <2> QED
    BY <1>3, <2>1 DEF DelayIn
<1>9. NoneIdle' /\ F!WaitListOK'
  BY <1>1, WaitKept DEF NoneIdle
<1>10. TasksIn'
  BY <1>1, <1>2, TasksGoOn
<1>11. SlotsIn'
  <2>1. \A r : Io(r) => Io(r)'
    BY <1>1 DEF Io
  <2>2. \A r \in Index : r # at[t] => ((slot'[r] # 0 <=> slot[r] # 0) /\ (work'[r] # NoWork <=> work[r] # NoWork))
    BY <1>0, <1>1, <1>2 DEF FileTypes, F!TypeOK
  <2>3. OfTask(t)'
    BY <1>0, <1>1, <1>2, <1>3 DEF OfTask, Used, FileTypes, F!TypeOK, Thread
  <2> QED
    BY <1>1, <1>2, <2>1, <2>2, <2>3, SameHands
<1>12. Units'
  BY <1>1, UnitsKept
<1> QED
  BY <1>6, <1>7, <1>8, <1>9, <1>10, <1>11, <1>12

LEMMA TakeCancelledStep ==
  ASSUME FileInv, NEW t \in Thread, F!TakeCancelled(t), UNCHANGED max_slots
  PROVE  FileInv'
<1> USE DEF FileInv
<1>0. PICK p : p = Head(delay_list)
  OBVIOUS
<1>1. /\ pc[t] \in {"free", "taking"} /\ delay_list # << >> /\ fileCancel[p] = "Cancelled"
      /\ delay_list' = Tail(delay_list) /\ delayed' = [delayed EXCEPT ![p] = FALSE]
      /\ pc' = [pc EXCEPT ![t] = "taking"]
      /\ UNCHANGED <<fileCancel, fileCalling, fileCompleted, work, avail_list, active_list, at, bringing, fileOwner,
                     handle_buf, index_buf, slot, sem_first, sem, event, pending, max_slots>>
  BY <1>0 DEF F!TakeCancelled, F!Frees, F!To, F!slotVars, F!sysVars, F!waitVars
<1>2. OfTask(t) /\ at[t] \in Index /\ pc[t] \in Slotted /\ "taking" \in Slotted
  BY <1>1, InHands DEF Slotted
<1>3. /\ p \in Work /\ p \in ToSet(delay_list) /\ IsInjective(delay_list')
      /\ delay_list' \in Seq(Work) /\ ToSet(delay_list') = ToSet(delay_list) \ {p}
  BY <1>0, <1>1, ListTail DEF DelayIn, FileTypes, F!TypeOK
<1>5. Delayed(p) /\ p \in fileCalling
  BY <1>1, <1>3 DEF WorkIn, Over, NoCancel, Brought, InSlot, Delayed, Left, DelayIn
<1>6. FileTypes'
  BY <1>1, <1>2, <1>3 DEF FileTypes, F!TypeOK, Thread
<1>7. WorkIn'
  <2>1. \A q \in Work : q # p => SamePlace(q)
    BY <1>1, <1>3 DEF SamePlace, FileTypes, F!TypeOK
  <2>2. Left(p)'
    <3>1. ~delayed'[p]
      BY <1>1, <1>3 DEF FileTypes, F!TypeOK
    <3> QED
      BY <1>1, <1>5, <3>1 DEF Delayed, Left, NotHere
  <2>3. SoleUser(bringing', NoWork) /\ SoleUser(work', NoWork)
    BY <1>1 DEF WorkIn, SoleUser
  <2> QED
    BY <2>1, <2>2, <2>3, WorkMoves
<1>8. DelayIn'
  <2>1. \A q \in Work : delayed'[q] <=> q # p /\ delayed[q]
    BY <1>1, <1>3 DEF FileTypes, F!TypeOK
  <2> QED
    BY <1>3, <2>1 DEF DelayIn
<1>9. NoneIdle' /\ F!WaitListOK'
  BY <1>1, WaitKept DEF NoneIdle
<1>10. TasksIn'
  BY <1>1, <1>2, TasksGoOn
<1>11. SlotsIn'
  <2>1. \A r : Io(r) => Io(r)'
    BY <1>1 DEF Io
  <2>2. OfTask(t)'
    BY <1>1, <1>2 DEF OfTask, Used, FileTypes, F!TypeOK, Thread
  <2> QED
    BY <1>1, <1>2, <2>1, <2>2, SameHands
<1>12. Units'
  BY <1>1, UnitsKept
<1> QED
  BY <1>6, <1>7, <1>8, <1>9, <1>10, <1>11, <1>12

LEMMA TakeNoneStep ==
  ASSUME FileInv, NEW t \in Thread, F!TakeNone(t), UNCHANGED max_slots
  PROVE  FileInv'
<1> USE DEF FileInv
<1>0. PICK s, b : s = at[t] /\ b = IF t = Completor THEN "wait" ELSE "idle"
  OBVIOUS
<1>1. /\ pc[t] \in {"free", "taking"} /\ delay_list = << >> /\ avail_list' = <<s>> \o avail_list
      /\ at' = [at EXCEPT ![t] = NoSlot] /\ pc' = [pc EXCEPT ![t] = b]
      /\ UNCHANGED <<bringing, active_list, work, delay_list, delayed, fileCalling, fileCancel, fileCompleted,
                     fileOwner, handle_buf, index_buf, slot, sem_first, sem, event, pending, max_slots>>
  BY <1>0 DEF F!TakeNone, F!Frees, F!Through, F!To, F!At, F!packetVars, F!sysVars, F!waitVars
<1>2. /\ s \in Used /\ s \in Index /\ s # NoSlot /\ OfTask(t) /\ pc[t] \in Slotted
      /\ \A v \in Thread : at[v] = s => v = t
  BY <1>0, <1>1, InHands DEF Slotted
<1>3. s \notin ToSet(avail_list) /\ s \notin ToSet(active_list) /\ slot[s] = 0 /\ work[s] = NoWork
  BY <1>0, <1>1, <1>2 DEF OfTask
<1>4. avail_list' \in Seq(Index) /\ ToSet(avail_list') = ToSet(avail_list) \cup {s} /\ IsInjective(avail_list')
  BY <1>1, <1>2, <1>3, ListCons DEF SlotsIn, FileTypes, F!TypeOK
<1>5. FileTypes'
  BY <1>0, <1>1, <1>2, <1>4 DEF FileTypes, F!TypeOK, Thread
<1>6. WorkIn' /\ DelayIn' /\ NoneIdle' /\ F!WaitListOK'
  BY <1>1, WorkKept, DelayKept, WaitKept DEF NoneIdle
<1>7. TasksIn'
  BY <1>0, <1>1, <1>2, TasksEnd
<1>8. SlotsIn'
  <2>1. \A v \in Thread : at'[v] = (IF v = t THEN NoSlot ELSE at[v]) /\ pc'[v] = (IF v = t THEN b ELSE pc[v])
    BY <1>1 DEF FileTypes, F!TypeOK, Thread
  <2>2. \A r \in Index : r # s => SameSlot(r)
    BY <1>0, <1>1, <1>4, <2>1, FilesAssumption DEF SameSlot
  <2>3. OfPool(s)'
    BY <1>1, <1>2, <1>3, <1>4, <2>1 DEF OfPool, NotAt, Thread, F!Thread
  <2>4. \A v \in Thread : at'[v] # s
    BY <1>2, <2>1
  <2>5. ToSet(avail_list') \subseteq Index /\ ToSet(active_list') \subseteq Index /\ IsInjective(active_list')
    BY <1>1, <1>2, <1>4 DEF SlotsIn, FileTypes, Used
  <2>6. at' \in [Thread -> Index \cup {NoSlot}] /\ \A r \in Index : Io(r) => Io(r)'
    BY <1>1 DEF FileTypes, F!TypeOK, Thread, Io
  <2> QED
    BY <1>1, <1>2, <1>4, <2>2, <2>3, <2>4, <2>5, <2>6, SlotMoves
<1>9. Units'
  BY <1>0, <1>1, UnitsKept
<1> QED
  BY <1>5, <1>6, <1>7, <1>8, <1>9

\* Cancellers and the system.
LEMMA FileCancelBeginStep ==
  ASSUME FileInv, NEW p \in Work, F!CancelBegin(p), UNCHANGED max_slots
  PROVE  FileInv'
<1> USE DEF FileInv
<1>1. /\ fileCompleted[p] = 0 /\ fileCancel[p] # "Cancelled" /\ fileCancel' = [fileCancel EXCEPT ![p] = "Cancelled"]
      /\ fileCalling' = IF fileCancel[p] = "Has" THEN fileCalling \cup {p} ELSE fileCalling
      /\ UNCHANGED <<delay_list, delayed, fileCompleted, avail_list, active_list, work, pc, at, bringing, fileOwner,
                     handle_buf, index_buf, slot, sem_first, sem, event, pending, max_slots>>
  BY DEF F!CancelBegin, F!taskVars, F!slotVars, F!sysVars, F!waitVars
<1>2. FileTypes'
  BY <1>1 DEF FileTypes, F!TypeOK
<1>3. WorkIn'
  <2>1. \A q \in Work : q # p => SamePlace(q)
    BY <1>1 DEF SamePlace, FileTypes, F!TypeOK
  <2>2. (Brought(p) \/ InSlot(p) \/ Delayed(p))'
    <3>1. fileCancel'[p] = "Cancelled"
      BY <1>1 DEF FileTypes, F!TypeOK
    <3>2. Brought(p) \/ InSlot(p) \/ Delayed(p)
      BY <1>1 DEF WorkIn, Over, Left
    <3> QED
      BY <1>1, <3>1, <3>2 DEF Brought, InSlot, Delayed, NoCancel, NotHere
  <2>3. SoleUser(bringing', NoWork) /\ SoleUser(work', NoWork)
    BY <1>1 DEF WorkIn, SoleUser
  <2> QED
    BY <2>1, <2>2, <2>3, WorkMoves
<1>4. DelayIn' /\ NoneIdle' /\ F!WaitListOK'
  BY <1>1, DelayKept, WaitKept DEF NoneIdle
<1>5. TasksIn' /\ Units'
  BY <1>1 DEF TasksIn, Units, SoleUser, Thread
<1>6. SlotsIn'
  BY <1>1, SlotsKept DEF Io
<1> QED
  BY <1>2, <1>3, <1>4, <1>5, <1>6

LEMMA SameRemove == \A q, x : F!RemoveFirst(q, x) = RemoveFirst(q, x)
BY DEF F!RemoveFirst, RemoveFirst, F!SelectInSeq, SelectInSeq, F!RemoveAt, RemoveAt, F!Min, Min

LEMMA FileCancelStep ==
  ASSUME FileInv, NEW p \in Work, F!Cancel(p), UNCHANGED max_slots
  PROVE  FileInv'
<1> USE DEF FileInv
<1>1. /\ p \in fileCalling /\ fileCalling' = fileCalling \ {p}
      /\ delay_list' = IF delayed[p] THEN RemoveFirst(delay_list, p) ELSE delay_list
      /\ delayed' = [delayed EXCEPT ![p] = FALSE] /\ fileCompleted' = [fileCompleted EXCEPT ![p] = @ + 1]
      /\ fileCancel' = [fileCancel EXCEPT ![p] = "None"]
      /\ UNCHANGED <<avail_list, active_list, work, pc, at, bringing, fileOwner,
                     handle_buf, index_buf, slot, sem_first, sem, event, pending, max_slots>>
  BY SameRemove DEF F!Cancel, F!Complete, F!taskVars, F!slotVars, F!sysVars, F!waitVars
<1>2. fileCompleted[p] = 0 /\ NotHere(p)
  BY <1>1 DEF WorkIn, Over, Brought, InSlot, Delayed, Left, NoCancel
<1>3. delay_list' \in Seq(Work) /\ ToSet(delay_list') = ToSet(delay_list) \ {p} /\ IsInjective(delay_list')
  BY <1>1, ListRemove DEF DelayIn, FileTypes, F!TypeOK
<1>4. FileTypes'
  BY <1>1, <1>2, <1>3 DEF FileTypes, F!TypeOK
<1>5. WorkIn'
  <2>1. \A q \in Work : q # p => SamePlace(q)
    BY <1>1 DEF SamePlace, FileTypes, F!TypeOK
  <2>2. Over(p)'
    <3>1. ~delayed'[p] /\ fileCompleted'[p] = 1 /\ fileCancel'[p] = "None"
      BY <1>1, <1>2 DEF FileTypes, F!TypeOK
    <3> QED
      BY <1>1, <1>2, <3>1 DEF Over, NoCancel, NotHere
  <2>3. SoleUser(bringing', NoWork) /\ SoleUser(work', NoWork)
    BY <1>1 DEF WorkIn, SoleUser
  <2> QED
    BY <2>1, <2>2, <2>3, WorkMoves
<1>6. DelayIn' /\ NoneIdle'
  <2>1. \A q \in Work : delayed'[q] <=> q # p /\ delayed[q]
    BY <1>1 DEF FileTypes, F!TypeOK
  <2>2. delay_list = << >> => delay_list' = << >>
    BY <1>1, <1>3 DEF DelayIn, ToSet
  <2> QED
    BY <1>1, <1>3, <2>1, <2>2 DEF DelayIn, NoneIdle
<1>7. F!WaitListOK'
  BY <1>1, WaitKept
<1>8. TasksIn' /\ Units'
  BY <1>1 DEF TasksIn, Units, SoleUser, Thread
<1>9. SlotsIn'
  BY <1>1, SlotsKept DEF Io
<1> QED
  BY <1>4, <1>5, <1>6, <1>7, <1>8, <1>9

LEMMA IoEndsStep ==
  ASSUME FileInv, NEW s \in Index, F!IoEnds(s), UNCHANGED max_slots
  PROVE  FileInv'
<1> USE DEF FileInv
<1>1. /\ pending' = pending \ {s} /\ event' = event \cup {s}
      /\ UNCHANGED <<delay_list, delayed, fileCancel, fileCalling, fileCompleted, avail_list, active_list, work,
                     pc, at, bringing, fileOwner, handle_buf, index_buf, slot, sem_first, sem, max_slots>>
  BY DEF F!IoEnds, F!packetVars, F!taskVars, F!slotVars, F!waitVars
<1>2. FileTypes'
  BY <1>1 DEF FileTypes, F!TypeOK
<1>3. WorkIn' /\ DelayIn' /\ NoneIdle' /\ F!WaitListOK'
  BY <1>1, WorkKept, DelayKept, WaitKept DEF NoneIdle
<1>4. TasksIn' /\ Units'
  BY <1>1 DEF TasksIn, Units, SoleUser, Thread
<1>5. SlotsIn'
  BY <1>1, SlotsKept DEF Io
<1> QED
  BY <1>2, <1>3, <1>4, <1>5

\* The Completor.
LEMMA CompletorIsAt ==
  ASSUME FileTypes, NEW b, pc' = [pc EXCEPT ![Completor] = b]
  PROVE  \A v \in Thread : pc'[v] = IF v = Completor THEN b ELSE pc[v]
BY DEF FileTypes, F!TypeOK, Thread

\* The Completor goes from one place to another and takes no slot.
LEMMA CompletorGoes ==
  ASSUME FileTypes, TasksIn, pc[Completor] \notin Slotted, NEW b, b \in {"wait", "get", "stopped"},
         pc' = [pc EXCEPT ![Completor] = b], UNCHANGED <<at, bringing, fileOwner>>
  PROVE  TasksIn'
<1>1. \A v \in Thread : pc'[v] = IF v = Completor THEN b ELSE pc[v]
  BY CompletorIsAt
<1> QED
  BY <1>1, ThreadFacts DEF TasksIn, Slotted, Thread, F!Thread

LEMMA ObjInterruptStep ==
  ASSUME FileInv, F!ObjInterrupt, UNCHANGED max_slots
  PROVE  FileInv'
<1> USE DEF FileInv
<1>1. /\ pc[Completor] = "wait" /\ sem > 0 /\ sem' = sem - 1 /\ pc' = [pc EXCEPT ![Completor] = "get"]
      /\ UNCHANGED <<delay_list, delayed, fileCancel, fileCalling, fileCompleted, avail_list, active_list, work,
                     at, bringing, fileOwner, handle_buf, index_buf, slot, event, pending, max_slots>>
  BY DEF F!ObjInterrupt, F!WaitInterrupt, F!To, F!packetVars, F!slotVars
<1>2. FileTypes'
  BY <1>1, ThreadFacts DEF FileTypes, F!TypeOK, Thread
<1>3. WorkIn' /\ DelayIn' /\ NoneIdle' /\ F!WaitListOK'
  BY <1>1, WorkKept, DelayKept, WaitKept DEF NoneIdle
<1>4. TasksIn'
  BY <1>1, CompletorGoes DEF Slotted
<1>5. SlotsIn'
  <2>1. at[Completor] = NoSlot
    BY <1>1, ThreadFacts DEF TasksIn, Slotted
  <2> QED
    BY <1>1, <2>1, CompletorIsAt, SlotsKept DEF Io
<1>6. Units'
  <2>1. PICK b : b = "get"
    OBVIOUS
  <2>2. pc[Completor] # b /\ pc[Completor] # "give" /\ b # "give" /\ Completor \in Thread /\ pc' = [pc EXCEPT ![Completor] = b]
    BY <1>1, <2>1, ThreadFacts
  <2>3. CountAt(pc', b) = CountAt(pc, b) + 1 /\ CountAt(pc, b) \in Nat
    BY <2>2, CountsMove
  <2>4. CountAt(pc', "give") = CountAt(pc, "give") /\ CountAt(pc, "give") \in Nat
    BY <2>2, CountsMove
  <2>5. pc'[Completor] # "stopped"
    BY <1>1, <2>2, CompletorIsAt
  <2>6. sem \in Nat /\ Len(active_list) \in Nat
    BY DEF FileTypes, F!TypeOK
  <2> QED
    BY <1>1, <2>1, <2>3, <2>4, <2>5, <2>6 DEF Units
<1> QED
  BY <1>2, <1>3, <1>4, <1>5, <1>6

LEMMA ObjGetStep ==
  ASSUME FileInv, F!ObjGet, UNCHANGED max_slots
  PROVE  FileInv'
<1> USE DEF FileInv
<1>0. PICK s : s = Head(active_list)
  OBVIOUS
<1>1. /\ pc[Completor] = "get" /\ active_list # << >> /\ active_list' = Tail(active_list) /\ F!AddWait(s)
      /\ pc' = [pc EXCEPT ![Completor] = "wait"]
      /\ UNCHANGED <<delay_list, delayed, fileCancel, fileCalling, fileCompleted, avail_list, work,
                     at, bringing, fileOwner, sem, event, pending, max_slots>>
  BY <1>0 DEF F!ObjGet, F!To, F!packetVars
<1>2. /\ active_list' \in Seq(Index) /\ ToSet(active_list') = ToSet(active_list) \ {s} /\ IsInjective(active_list')
      /\ s \in ToSet(active_list) /\ Len(active_list') = Len(active_list) - 1 /\ Len(active_list) \in Nat
  BY <1>0, <1>1, ListTail DEF SlotsIn, FileTypes, F!TypeOK
<1>3. s \in Used /\ s \in Index /\ s # NoSlot /\ OfList(s)
  BY <1>2, InActive
<1>4. /\ F!WaitListOK' /\ handle_buf' \in Seq(Index) /\ index_buf' \in Seq(Index) /\ slot' \in [Index -> Nat]
      /\ \A j \in Index : slot'[j] # 0 <=> slot[j] # 0 \/ j = s
  <2>1. index_buf \in Seq(Index) /\ slot \in [Index -> Nat]
    BY DEF FileTypes
  <2> QED
    BY <1>1, <1>3, <2>1, AddOK
<1>5. FileTypes'
  BY <1>1, <1>2, <1>4, ThreadFacts DEF FileTypes, F!TypeOK, Thread
<1>6. WorkIn' /\ DelayIn' /\ NoneIdle'
  BY <1>1, WorkKept, DelayKept DEF NoneIdle
<1>7. TasksIn'
  BY <1>1, CompletorGoes DEF Slotted
<1>8. SlotsIn'
  <2>1. at[Completor] = NoSlot /\ \A v \in Thread : pc'[v] = IF v = Completor THEN "wait" ELSE pc[v]
    BY <1>1, ThreadFacts, CompletorIsAt DEF TasksIn, Slotted
  <2>2. \A r \in Index : r # s => SameSlot(r)
    BY <1>1, <1>2, <1>4, <2>1, FilesAssumption DEF SameSlot
  <2>3. OfWait(s)'
    BY <1>1, <1>2, <1>3, <1>4 DEF OfList, OfWait, NotAt, Io, Thread, F!Thread
  <2>4. \A v \in Thread : at'[v] # s
    BY <1>1, <1>3 DEF OfList, NotAt
  <2>5. ToSet(avail_list') \subseteq Index /\ ToSet(active_list') \subseteq Index /\ IsInjective(avail_list')
    BY <1>1, <1>2 DEF SlotsIn, FileTypes, Used
  <2>6. at' \in [Thread -> Index \cup {NoSlot}] /\ \A r \in Index : Io(r) => Io(r)'
    BY <1>1 DEF FileTypes, F!TypeOK, Thread, Io
  <2> QED
    BY <1>1, <1>2, <1>3, <2>2, <2>3, <2>4, <2>5, <2>6, SlotMoves
<1>9. Units'
  <2>1. PICK b : b = "wait"
    OBVIOUS
  <2>2. pc[Completor] = "get" /\ b \notin {"get", "give", "stopped"} /\ Completor \in Thread /\ pc' = [pc EXCEPT ![Completor] = b]
    BY <1>1, <2>1, ThreadFacts
  <2>3. CountAt(pc', "get") = CountAt(pc, "get") - 1 /\ CountAt(pc, "get") \in Nat
    BY <2>2, CountsMove
  <2>4. CountAt(pc', "give") = CountAt(pc, "give") /\ CountAt(pc, "give") \in Nat
    BY <2>2, CountsMove
  <2>5. pc'[Completor] # "stopped"
    BY <2>2, CompletorIsAt
  <2>6. sem \in Nat /\ sem' = sem
    BY <1>1 DEF FileTypes, F!TypeOK
  <2> QED
    BY <1>1, <1>2, <2>3, <2>4, <2>5, <2>6 DEF Units
<1> QED
  BY <1>4, <1>5, <1>6, <1>7, <1>8, <1>9

LEMMA ObjStopStep ==
  ASSUME FileInv, F!ObjStop, UNCHANGED max_slots
  PROVE  FileInv'
<1> USE DEF FileInv
<1>1. /\ pc[Completor] = "get" /\ active_list = << >> /\ pc' = [pc EXCEPT ![Completor] = "stopped"]
      /\ UNCHANGED <<delay_list, delayed, fileCancel, fileCalling, fileCompleted, avail_list, active_list, work,
                     at, bringing, fileOwner, handle_buf, index_buf, slot, sem, event, pending, max_slots>>
  BY DEF F!ObjStop, F!To, F!packetVars, F!slotVars, F!sysVars, F!waitVars
<1>2. FileTypes'
  BY <1>1, ThreadFacts DEF FileTypes, F!TypeOK, Thread
<1>3. WorkIn' /\ DelayIn' /\ NoneIdle' /\ F!WaitListOK'
  BY <1>1, WorkKept, DelayKept, WaitKept DEF NoneIdle
<1>4. TasksIn'
  BY <1>1, CompletorGoes DEF Slotted
<1>5. SlotsIn'
  <2>1. at[Completor] = NoSlot
    BY <1>1, ThreadFacts DEF TasksIn, Slotted
  <2> QED
    BY <1>1, <2>1, CompletorIsAt, SlotsKept DEF Io
<1>6. Units'
  <2>1. PICK b : b = "stopped"
    OBVIOUS
  <2>2. pc[Completor] = "get" /\ b \notin {"get", "give"} /\ Completor \in Thread /\ pc' = [pc EXCEPT ![Completor] = b]
    BY <1>1, <2>1, ThreadFacts
  <2>3. CountAt(pc, "get") >= 1 /\ CountAt(pc, "get") \in Nat /\ CountAt(pc, "give") \in Nat
    BY <2>2, CountsMove
  <2>4. sem \in Nat /\ sem' = sem /\ Len(active_list) = 0 /\ fileOwner' = fileOwner
    BY <1>1 DEF FileTypes, F!TypeOK
  <2>5. fileOwner # "running" /\ sem = 0
    BY <1>1, <2>3, <2>4 DEF Units
  <2>6. pc'[Completor] = "stopped"
    BY <2>1, <2>2, CompletorIsAt
  <2> QED
    BY <2>4, <2>5, <2>6 DEF Units
<1> QED
  BY <1>2, <1>3, <1>4, <1>5, <1>6

LEMMA ObjIndexStep ==
  ASSUME FileInv, F!ObjIndex, UNCHANGED max_slots
  PROVE  FileInv'
<1> USE DEF FileInv
<1>1. PICK s \in Index : F!WaitIndex(s) /\ at' = [at EXCEPT ![Completor] = s]
  BY DEF F!ObjIndex, F!At
<1>2. /\ pc[Completor] = "wait" /\ pc' = [pc EXCEPT ![Completor] = "complete"]
      /\ UNCHANGED <<delay_list, delayed, fileCancel, fileCalling, fileCompleted, avail_list, active_list, work,
                     bringing, fileOwner, pending, max_slots>>
  BY DEF F!ObjIndex, F!To, F!packetVars, F!slotVars
<1>3. /\ F!WaitListOK' /\ handle_buf' \in Seq(Index) /\ index_buf' \in Seq(Index) /\ slot' \in [Index -> Nat]
      /\ slot[s] # 0 /\ s \in event /\ UNCHANGED <<sem, event>>
      /\ \A j \in Index : slot'[j] # 0 <=> slot[j] # 0
  <2>1. index_buf \in Seq(Index) /\ slot \in [Index -> Nat]
    BY DEF FileTypes
  <2> QED
    BY <1>1, <2>1, IndexOK
<1>4. at[Completor] = NoSlot /\ s # NoSlot /\ s \in Used
  BY <1>2, <1>3, ThreadFacts, FilesAssumption DEF TasksIn, Slotted, SlotsIn
<1>5. OfWait(s)
  <2>1. NotAt(s)
    <3> SUFFICES ASSUME NEW t \in Thread, at[t] = s PROVE FALSE
      BY DEF NotAt
    <3>1. pc[t] = "complete"
      BY <1>3, <1>4 DEF SlotsIn, OfTask
    <3> QED
      BY <1>2, <3>1, ThreadFacts DEF TasksIn
  <2> QED
    BY <1>3, <1>4, <2>1 DEF SlotsIn, OfPool, OfList
<1>6. FileTypes'
  BY <1>1, <1>2, <1>3, ThreadFacts DEF FileTypes, F!TypeOK, Thread
<1>7. WorkIn' /\ DelayIn' /\ NoneIdle'
  BY <1>2, WorkKept, DelayKept DEF NoneIdle
<1>8. \A v \in Thread : /\ pc'[v] = (IF v = Completor THEN "complete" ELSE pc[v])
                        /\ at'[v] = (IF v = Completor THEN s ELSE at[v])
  BY <1>1, <1>2, CompletorIsAt DEF FileTypes, F!TypeOK, Thread
<1>9. TasksIn'
  <2>1. SoleUser(at', NoSlot)
    <3>1. DOMAIN at' = Thread /\ DOMAIN at = Thread
      BY <1>1 DEF FileTypes, F!TypeOK, Thread
    <3> QED
      BY <1>5, <1>8, <3>1 DEF TasksIn, SoleUser, OfWait, NotAt
  <2>2. \A v \in Thread : at'[v] # NoSlot <=> pc'[v] \in Slotted
    BY <1>4, <1>8 DEF TasksIn, Slotted
  <2> QED
    BY <1>2, <1>8, <2>1, <2>2, ThreadFacts DEF TasksIn, Thread, F!Thread
<1>10. SlotsIn'
  <2>2. \A r \in Index : r # s => SameSlot(r)
    BY <1>2, <1>3, <1>4, <1>8, FilesAssumption DEF SameSlot
  <2>3. \A v \in Thread : at'[v] = s <=> v = Completor
    BY <1>5, <1>8 DEF OfWait, NotAt
  <2>4. OfTask(Completor)'
    <3>1. at'[Completor] = s /\ pc'[Completor] = "complete" /\ Io(s)'
      BY <1>3, <1>8, ThreadFacts DEF Io
    <3> QED
      BY <1>2, <1>3, <1>4, <1>5, <3>1 DEF OfTask, OfWait, Used
  <2>5. (~NotAt(s))'
    BY <2>3, ThreadFacts DEF NotAt, Thread, F!Thread
  <2>6. ToSet(avail_list') \subseteq Index /\ ToSet(active_list') \subseteq Index /\ IsInjective(avail_list') /\ IsInjective(active_list')
    BY <1>2 DEF SlotsIn, FileTypes, Used
  <2>7. at' \in [Thread -> Index \cup {NoSlot}] /\ \A r \in Index : Io(r) => Io(r)'
    BY <1>1, <1>2, <1>3 DEF FileTypes, F!TypeOK, Thread, Io
  <2> QED
    BY <1>2, <1>4, <2>2, <2>3, <2>4, <2>5, <2>6, <2>7, SlotMoves
<1>11. Units'
  BY <1>2, <1>3, ThreadFacts, UnitsKept
<1> QED
  BY <1>3, <1>6, <1>7, <1>9, <1>10, <1>11

LEMMA ObjCompleteStep ==
  ASSUME FileInv, F!ObjComplete, UNCHANGED max_slots
  PROVE  FileInv'
<1> USE DEF FileInv
<1>0. PICK s, p : s = at[Completor] /\ p = work[s]
  OBVIOUS
<1>1. /\ pc[Completor] = "complete" /\ F!DelWait(s) /\ fileCompleted' = [fileCompleted EXCEPT ![p] = @ + 1]
      /\ fileCancel' = [fileCancel EXCEPT ![p] = "None"] /\ work' = [work EXCEPT ![s] = NoWork]
      /\ pc' = [pc EXCEPT ![Completor] = "free"]
      /\ UNCHANGED <<delay_list, delayed, fileCalling, avail_list, active_list,
                     at, bringing, fileOwner, sem, event, pending, max_slots>>
  BY <1>0 DEF F!ObjComplete, F!Complete, F!To
<1>2. s \in Used /\ s \in Index /\ s # NoSlot /\ OfTask(Completor) /\ pc[Completor] \in Slotted /\ "free" \in Slotted
  BY <1>0, <1>1, InHands, ThreadFacts DEF Slotted
<1>3. p \in Work /\ p # NoWork
  BY <1>0, <1>1, <1>2 DEF OfTask, FileTypes, F!TypeOK
<1>4. InSlot(p) /\ fileCompleted[p] = 0
  BY <1>0, <1>2, <1>3 DEF WorkIn, Over, NotHere, Brought, InSlot, Delayed, Left
<1>5. /\ F!WaitListOK' /\ handle_buf' \in Seq(Index) /\ index_buf' \in Seq(Index) /\ slot' \in [Index -> Nat]
      /\ \A j \in Index : slot'[j] # 0 <=> slot[j] # 0 /\ j # s
  <2>1. index_buf \in Seq(Index) /\ slot \in [Index -> Nat]
    BY DEF FileTypes
  <2> QED
    BY <1>1, <1>2, <2>1, DelOK
<1>6. FileTypes'
  <2>1. fileCompleted' \in [Work -> {0, 1}] /\ fileCancel' \in [Work -> {"None", "Has", "Cancelled"}]
    BY <1>1, <1>3, <1>4 DEF FileTypes, F!TypeOK
  <2>2. work' \in [Index -> Work \cup {NoWork}]
    BY <1>1 DEF FileTypes, F!TypeOK
  <2>3. pc' \in [F!Thread -> {"idle", "alloc", "start", "put", "give", "free", "taking",
                             "wait", "get", "complete", "stopped"}]
    BY <1>1 DEF FileTypes, F!TypeOK
  <2> QED
    BY <1>1, <1>5, <2>1, <2>2, <2>3 DEF FileTypes, F!TypeOK
<1>7. WorkIn'
  <2>1. \A q \in Work : q # p => SamePlace(q)
    BY <1>0, <1>1, <1>2, <1>3, FilesAssumption DEF SamePlace, FileTypes, F!TypeOK
  <2>2. Over(p)'
    <3>1. \A r \in Index : work'[r] # p
      BY <1>0, <1>1, <1>2, <1>3 DEF WorkIn, SoleUser, FileTypes, F!TypeOK
    <3>2. fileCompleted'[p] = 1 /\ fileCancel'[p] = "None"
      BY <1>1, <1>3, <1>4 DEF FileTypes, F!TypeOK
    <3> QED
      BY <1>1, <1>4, <3>1, <3>2 DEF InSlot, Over, NoCancel, NotHere
  <2>3. SoleUser(bringing', NoWork) /\ SoleUser(work', NoWork)
    BY <1>1 DEF SoleUser, WorkIn, FileTypes, F!TypeOK
  <2> QED
    BY <2>1, <2>2, <2>3, WorkMoves
<1>8. DelayIn' /\ NoneIdle'
  BY <1>1, DelayKept DEF NoneIdle
<1>9. TasksIn'
  BY <1>1, <1>2, ThreadFacts, TasksGoOn
<1>10. SlotsIn'
  <2>1. \A r : Io(r) => Io(r)'
    BY <1>1 DEF Io
  <2>2. \A r \in Index : r # at[Completor] => ((slot'[r] # 0 <=> slot[r] # 0) /\ (work'[r] # NoWork <=> work[r] # NoWork))
    BY <1>0, <1>1, <1>2, <1>5 DEF FileTypes, F!TypeOK
  <2>3. OfTask(Completor)'
    <3>1. pc'[Completor] = "free"
      BY <1>1, ThreadFacts, CompletorIsAt
    <3>2. work'[s] = NoWork /\ slot'[s] = 0
      BY <1>1, <1>2, <1>5 DEF FileTypes, F!TypeOK
    <3> QED
      BY <1>0, <1>1, <1>2, <3>1, <3>2 DEF OfTask, Used
  <2> QED
    BY <1>1, <1>2, <2>1, <2>2, <2>3, ThreadFacts, SameHands
<1>11. Units'
  BY <1>1, ThreadFacts, UnitsKept
<1> QED
  BY <1>5, <1>6, <1>7, <1>8, <1>9, <1>10, <1>11

\* The owner.
LEMMA FileStopStep ==
  ASSUME FileInv, F!SignalStop \/ F!Stopped, UNCHANGED max_slots
  PROVE  FileInv'
<1> USE DEF FileInv
<1>1. /\ UNCHANGED <<delay_list, delayed, fileCancel, fileCalling, fileCompleted, avail_list, active_list, work,
                     pc, at, bringing, handle_buf, index_buf, slot, event, pending, max_slots>>
      /\ \/ /\ fileOwner = "running" /\ (\A u \in User : pc[u] = "idle") /\ fileOwner' = "stopping" /\ sem' = sem + 1
         \/ fileOwner = "stopping" /\ fileOwner' = "stopped" /\ sem' = sem
  BY DEF F!SignalStop, F!Stopped, F!Interrupt, F!packetVars, F!slotVars, F!taskVars, F!sysVars, F!waitVars
<1>2. FileTypes'
  BY <1>1 DEF FileTypes, F!TypeOK
<1>3. WorkIn' /\ DelayIn' /\ NoneIdle' /\ F!WaitListOK'
  BY <1>1, WorkKept, DelayKept, WaitKept DEF NoneIdle
<1>4. TasksIn'
  BY <1>1 DEF TasksIn, SoleUser, Thread
<1>5. SlotsIn'
  BY <1>1, SlotsKept DEF Io
<1>6. Units'
  <2>1. \A l \in {"give", "get"} : CountAt(pc', l) = CountAt(pc, l)
    BY <1>1
  <2>2. CountAt(pc, "give") + CountAt(pc, "get") \in Nat /\ sem \in Nat /\ Len(active_list) \in Nat
    <3>1. PICK q : q = pc[Completor]
      OBVIOUS
    <3>2. pc' = [pc EXCEPT ![Completor] = q]
      BY <1>1, <3>1 DEF FileTypes, F!TypeOK, Thread
    <3>3. CountAt(pc, "give") \in Nat /\ CountAt(pc, "get") \in Nat
      BY <3>2, ThreadFacts, CountsMove
    <3> QED
      BY <3>3 DEF FileTypes, F!TypeOK
  <2>3. CASE fileOwner = "running" /\ fileOwner' = "stopping" /\ sem' = sem + 1
    <3>1. pc[Completor] # "stopped" /\ pc'[Completor] # "stopped"
      BY <1>1, <2>3 DEF Units
    <3>2. CountAt(pc, "give") \in Nat /\ CountAt(pc, "get") \in Nat
      <4>1. PICK q : q = pc[Completor]
        OBVIOUS
      <4>2. pc' = [pc EXCEPT ![Completor] = q]
        BY <1>1, <4>1 DEF FileTypes, F!TypeOK, Thread
      <4> QED
        BY <4>2, ThreadFacts, CountsMove
    <3> QED
      BY <1>1, <2>1, <2>2, <2>3, <3>1, <3>2 DEF Units
  <2>4. CASE fileOwner = "stopping" /\ fileOwner' = "stopped" /\ sem' = sem
    BY <1>1, <2>1, <2>4 DEF Units
  <2> QED
    BY <1>1, <2>3, <2>4
<1> QED
  BY <1>2, <1>3, <1>4, <1>5, <1>6

LEMMA FileStep == FileInv /\ F!Next => FileInv'
<1> SUFFICES ASSUME FileInv, F!Next PROVE FileInv'
  OBVIOUS
<1>1. UNCHANGED max_slots
  BY DEF F!Next, F!Step
<1>2. CASE \E t \in Thread : F!Slot(t)
  BY <1>1, <1>2, StartPendingStep, StartDoneStep, PutListStep, PutGiveStep, TakeWorkStep, TakeCancelledStep, TakeNoneStep
     DEF F!Slot, F!Free
<1>3. CASE \E u \in User : F!Alloc(u)
  BY <1>1, <1>3, AllocSlotStep, AllocDelayStep, AllocCancelledStep DEF F!Alloc
<1>4. CASE \E p \in Work : F!Cancel(p) \/ F!CancelBegin(p) \/ \E u \in User : F!Bring(u, p)
  BY <1>1, <1>4, FileCancelStep, FileCancelBeginStep, BringStep
<1>5. CASE \E s \in Index : F!IoEnds(s)
  BY <1>1, <1>5, IoEndsStep
<1>6. CASE F!ObjInterrupt \/ F!ObjGet \/ F!ObjStop \/ F!ObjIndex \/ F!ObjComplete
  BY <1>1, <1>6, ObjInterruptStep, ObjGetStep, ObjStopStep, ObjIndexStep, ObjCompleteStep
<1>7. CASE F!SignalStop \/ F!Stopped
  BY <1>1, <1>7, FileStopStep
<1> QED
  BY <1>2, <1>3, <1>4, <1>5, <1>6, <1>7, ThreadFacts DEF F!Next, F!Step, F!Goes, F!Asked, F!ObjRun

-----------------------------------------------------------------------------
\* PTPConRead, the reader of the console server

ReaderTypes ==
  /\ is_opened \in BOOLEAN /\ fifo \in 0..Len_Fifo /\ avail \in 0..fifo
  /\ is_started \in BOOLEAN /\ outbound \in Read \cup {None}
  /\ where \in [Read -> {"new", "held", "listed", "calling", "answered", "dropped"}]
  /\ cancel \in [Read -> {"no", "has", "cancelled"}]
  /\ readExt \in [Read -> BOOLEAN]
  /\ complete_list \in [R!Tasks -> Seq(Read)]
  /\ is_started => is_opened

\* A read that is listed to be answered is listed once, and nobody else's.
ListsMatch ==
  /\ \A t \in R!Tasks : \A i \in DOMAIN complete_list[t] : where[complete_list[t][i]] = "listed"
  /\ \A t \in R!Tasks, u \in R!Tasks :
       \A i \in DOMAIN complete_list[t], j \in DOMAIN complete_list[u] :
         complete_list[t][i] = complete_list[u][j] => t = u /\ i = j

RInv == ReaderTypes /\ R!OneIsHeld /\ R!NoneWaits /\ ListsMatch

-----------------------------------------------------------------------------
\* What a section of the mutex has in its hands, with the list of the other task.
Fields == {"started", "out", "where", "cancel", "ext", "avail", "fifo", "list"}

Typed(h) ==
  /\ DOMAIN h = Fields
  /\ h.started \in BOOLEAN /\ h.out \in Read \cup {None}
  /\ h.where \in [Read -> {"new", "held", "listed", "calling", "answered", "dropped"}]
  /\ h.cancel \in [Read -> {"no", "has", "cancelled"}]
  /\ h.ext \in [Read -> BOOLEAN]
  /\ h.avail \in Nat /\ h.fifo \in 0..Len_Fifo
  /\ h.list \in Seq(Read)

\* The reads of list q wait to be answered, each once.
Listed(w, q) ==
  /\ \A i \in DOMAIN q : w[q[i]] = "listed"
  /\ \A i, j \in DOMAIN q : q[i] = q[j] => i = j

Apart(p, q) == \A i \in DOMAIN p, j \in DOMAIN q : p[i] # q[j]

Held(s, o, w, c, e) ==
  /\ s <=> o # None
  /\ \A r \in Read : r = o <=> w[r] \in {"held", "calling"} /\ e[r]
  /\ \A r \in Read : w[r] = "held" <=> c[r] = "has"

Good(h, q) ==
  /\ Typed(h) /\ q \in Seq(Read)
  /\ h.avail <= h.fifo
  /\ Held(h.started, h.out, h.where, h.cancel, h.ext)
  /\ Listed(h.where, h.list) /\ Listed(h.where, q) /\ Apart(h.list, q)

\* One more read in a list.
LEMMA ListedMore ==
  ASSUME NEW q \in Seq(Read), NEW r \in Read, NEW w, NEW v, Listed(w, q), w[r] # "listed", v[r] = "listed",
         \A x \in Read : x # r => v[x] = w[x]
  PROVE  Append(q, r) \in Seq(Read) /\ Listed(v, Append(q, r))
<1>1. /\ Append(q, r) \in Seq(Read) /\ Len(Append(q, r)) = Len(q) + 1
      /\ DOMAIN Append(q, r) = 1..(Len(q) + 1) /\ DOMAIN q = 1..Len(q)
      /\ \A i \in 1..(Len(q) + 1) : Append(q, r)[i] = IF i <= Len(q) THEN q[i] ELSE r
  OBVIOUS
<1>2. \A i \in 1..Len(q) : q[i] \in Read /\ q[i] # r
  BY DEF Listed
<1> QED
  BY <1>1, <1>2 DEF Listed

LEMMA ListedSame ==
  ASSUME NEW q \in Seq(Read), NEW w, NEW v, Listed(w, q),
         \A x \in Read : w[x] = "listed" => v[x] = "listed"
  PROVE  Listed(v, q)
BY DEF Listed

LEMMA ApartMore ==
  ASSUME NEW q \in Seq(Read), NEW p \in Seq(Read), NEW r \in Read, NEW w, Listed(w, q), w[r] # "listed", Apart(p, q)
  PROVE  Apart(Append(p, r), q)
<1>1. DOMAIN Append(p, r) = 1..(Len(p) + 1) /\ \A i \in 1..(Len(p) + 1) : Append(p, r)[i] = IF i <= Len(p) THEN p[i] ELSE r
  OBVIOUS
<1> QED
  BY <1>1 DEF Listed, Apart

\* Whoever lets go of the read that is held lists it, or leaves it to its canceller.
LEMMA ReleasedHas ==
  ASSUME NEW h, Typed(h), NEW r \in Read, r = h.out, h.cancel[r] = "has",
         NEW g, g = R!Released(h)
  PROVE  /\ DOMAIN g = Fields
         /\ ~g.started /\ g.started \in BOOLEAN /\ g.out = None
         /\ g.where = [h.where EXCEPT ![r] = "listed"]
         /\ g.cancel = [h.cancel EXCEPT ![r] = "no"]
         /\ g.ext = h.ext
         /\ g.avail = h.avail /\ g.fifo = h.fifo
         /\ g.list = Append(h.list, r)
BY DEF Typed, Fields, R!Released

LEMMA ReleasedLeft ==
  ASSUME NEW h, Typed(h), NEW r \in Read, r = h.out, h.cancel[r] # "has",
         NEW g, g = R!Released(h)
  PROVE  /\ DOMAIN g = Fields
         /\ ~g.started /\ g.started \in BOOLEAN /\ g.out = None
         /\ g.where = h.where
         /\ g.cancel = h.cancel
         /\ g.ext = [h.ext EXCEPT ![r] = FALSE]
         /\ g.avail = h.avail /\ g.fifo = h.fifo
         /\ g.list = h.list
BY DEF Typed, Fields, R!Released

LEMMA ReleasedGood ==
  ASSUME NEW h, NEW q, Good(h, q), h.started
  PROVE  /\ Good(R!Released(h), q)
         /\ ~R!Released(h).started /\ R!Released(h).avail = h.avail /\ R!Released(h).fifo = h.fifo
         /\ \A r \in Read : h.where[r] = "new" => R!Released(h).where[r] = "new"
<1> DEFINE g == R!Released(h)
<1>1. PICK r \in Read : r = h.out
  BY DEF Good, Held, Typed
<1>2. Typed(h) /\ q \in Seq(Read) /\ h.avail <= h.fifo
  BY DEF Good
<1>3. Held(h.started, h.out, h.where, h.cancel, h.ext)
  BY DEF Good
<1>4. h.where[r] \in {"held", "calling"} /\ (h.cancel[r] = "has" => h.where[r] = "held")
  BY <1>1, <1>2, <1>3 DEF Held, Typed
<1>5. CASE h.cancel[r] = "has"
  <2>1. /\ DOMAIN g = Fields
        /\ ~g.started /\ g.started \in BOOLEAN /\ g.out = None
        /\ g.where = [h.where EXCEPT ![r] = "listed"]
        /\ g.cancel = [h.cancel EXCEPT ![r] = "no"]
        /\ g.ext = h.ext
        /\ g.avail = h.avail /\ g.fifo = h.fifo
        /\ g.list = Append(h.list, r)
    BY <1>1, <1>2, <1>5, ReleasedHas
  <2> HIDE DEF g
  <2>2. g.where[r] = "listed" /\ \A x \in Read : x # r => g.where[x] = h.where[x]
    BY <1>2, <2>1 DEF Typed
  <2> DEFINE v == g.where
             w == h.where
             p == h.list
  <2>3. p \in Seq(Read) /\ Listed(w, p) /\ Listed(w, q) /\ Apart(p, q) /\ w[r] # "listed"
    BY <1>2, <1>4, <1>5 DEF Good, Typed
  <2>4. v[r] = "listed" /\ \A x \in Read : x # r => v[x] = w[x]
    BY <2>2
  <2>5. Held(FALSE, None, v, g.cancel, g.ext)
    BY <1>1, <1>2, <1>3, <1>4, <1>5, <2>1, ReaderAssumption DEF Held, Typed
  <2> HIDE DEF v, w, p
  <2>6. Append(p, r) \in Seq(Read) /\ Listed(v, Append(p, r))
    BY <2>3, <2>4, ListedMore
  <2>7. Listed(v, q)
    BY <1>2, <2>3, <2>4, ListedSame
  <2>8. Apart(Append(p, r), q)
    BY <1>2, <2>3, ApartMore
  <2>9. Typed(g)
    BY <1>2, <2>1, <2>6 DEF Typed, p
  <2>10. Good(g, q)
    BY <1>2, <2>1, <2>5, <2>6, <2>7, <2>8, <2>9 DEF Good, p, v
  <2>11. \A x \in Read : w[x] = "new" => v[x] = "new"
    BY <1>4, <1>5, <2>4 DEF w
  <2> QED
    BY <2>1, <2>10, <2>11 DEF g, v, w
<1>6. CASE h.cancel[r] # "has"
  <2>1. /\ DOMAIN g = Fields
        /\ ~g.started /\ g.started \in BOOLEAN /\ g.out = None
        /\ g.where = h.where
        /\ g.cancel = h.cancel
        /\ g.ext = [h.ext EXCEPT ![r] = FALSE]
        /\ g.avail = h.avail /\ g.fifo = h.fifo
        /\ g.list = h.list
    BY <1>1, <1>2, <1>6, ReleasedLeft
  <2> HIDE DEF g
  <2>2. Typed(g)
    BY <1>2, <2>1 DEF Typed
  <2>3. Held(g.started, g.out, g.where, g.cancel, g.ext)
    BY <1>1, <1>2, <1>3, <1>4, <1>6, <2>1, ReaderAssumption DEF Held, Typed
  <2>4. Good(g, q)
    BY <1>2, <2>1, <2>2, <2>3 DEF Good
  <2> QED
    BY <2>1, <2>4 DEF g
<1> QED
  BY <1>5, <1>6

LEMMA StopGood ==
  ASSUME NEW h, NEW q, Good(h, q)
  PROVE  /\ Good(R!Stop(h), q) /\ ~R!Stop(h).started
         /\ \A r \in Read : h.where[r] = "new" => R!Stop(h).where[r] = "new"
BY ReleasedGood DEF R!Stop, Good, Typed

\* Keys are answered to the read, or none are there.
LEMMA PumpGood ==
  ASSUME NEW h, NEW q, Good(h, q), h.started, NEW n \in 1..Len_Fifo, NEW b \in BOOLEAN
  PROVE  Good(R!Pump(h, n, b), q) /\ (R!Pump(h, n, b).started => R!Pump(h, n, b).avail = 0)
<1> DEFINE taken == IF h.cancel[h.out] = "has" THEN IF h.avail < n THEN h.avail ELSE n ELSE 0
           g == R!Released(h)
           k == [g EXCEPT !.avail = @ - taken, !.fifo = @ - taken]
<1>1. CASE h.avail = 0 /\ ~b
  BY <1>1 DEF R!Pump
<1>2. CASE ~(h.avail = 0 /\ ~b)
  <2>1. R!Pump(h, n, b) = k
    BY <1>2 DEF R!Pump
  <2>2. Good(g, q) /\ ~g.started /\ g.avail = h.avail /\ g.fifo = h.fifo
    BY ReleasedGood
  <2> HIDE DEF g
  <2>3. taken \in Nat /\ taken <= h.avail /\ h.avail \in Nat /\ h.fifo \in 0..Len_Fifo /\ h.avail <= h.fifo
    BY ReaderAssumption DEF Good, Typed
  <2> HIDE DEF taken
  <2>4. /\ DOMAIN k = Fields
        /\ k.started = g.started /\ k.out = g.out /\ k.where = g.where /\ k.cancel = g.cancel /\ k.ext = g.ext
        /\ k.avail = g.avail - taken /\ k.fifo = g.fifo - taken /\ k.list = g.list
    BY <2>2 DEF Good, Typed, Fields
  <2> HIDE DEF k
  <2>5. g.avail - taken \in Nat /\ g.fifo - taken \in 0..Len_Fifo /\ g.avail - taken <= g.fifo - taken
    BY <2>2, <2>3, ReaderAssumption
  <2>6. Typed(k)
    BY <2>2, <2>4, <2>5 DEF Good, Typed
  <2>7. Good(k, q) /\ ~k.started
    BY <2>2, <2>4, <2>5, <2>6 DEF Good
  <2> QED
    BY <2>1, <2>7
<1> QED
  BY <1>1, <1>2

LEMMA InitOutboundGood ==
  ASSUME NEW h, NEW q, Good(h, q), ~h.started, NEW r \in Read, h.where[r] = "new"
  PROVE  /\ Good(R!InitOutbound(h, r), q)
         /\ R!InitOutbound(h, r).out \in {None, r}
         /\ R!InitOutbound(h, r).out = r => R!InitOutbound(h, r).started
         /\ R!InitOutbound(h, r).out # r => R!InitOutbound(h, r) = h
<1> DEFINE g == R!InitOutbound(h, r)
<1>1. Typed(h) /\ h.out = None /\ None # r
  BY ReaderAssumption DEF Good, Held
<1>2. CASE h.cancel[r] = "no"
  <2>1. /\ DOMAIN g = Fields
        /\ g.started /\ g.started \in BOOLEAN /\ g.out = r /\ g.where = [h.where EXCEPT ![r] = "held"]
        /\ g.cancel = [h.cancel EXCEPT ![r] = "has"] /\ g.ext = [h.ext EXCEPT ![r] = TRUE]
        /\ g.avail = h.avail /\ g.fifo = h.fifo /\ g.list = h.list
    BY <1>1, <1>2 DEF R!InitOutbound, Typed, Fields
  <2> HIDE DEF g
  <2>2. Typed(g)
    BY <1>1, <2>1 DEF Typed
  <2>3. Held(g.started, g.out, g.where, g.cancel, g.ext)
    <3>1. /\ \A x \in Read : ~(h.where[x] \in {"held", "calling"} /\ h.ext[x])
          /\ \A x \in Read : h.where[x] = "held" <=> h.cancel[x] = "has"
      BY <1>1, ReaderAssumption DEF Good, Held
    <3>2. /\ g.where[r] = "held" /\ g.cancel[r] = "has" /\ g.ext[r]
          /\ \A x \in Read : x # r => g.where[x] = h.where[x] /\ g.cancel[x] = h.cancel[x] /\ g.ext[x] = h.ext[x]
      BY <1>1, <2>1 DEF Typed
    <3> QED
      BY <1>1, <2>1, <3>1, <3>2 DEF Held
  <2>4. \A x \in Read : h.where[x] = "listed" => g.where[x] = "listed"
    BY <1>1, <2>1 DEF Typed
  <2> DEFINE v == g.where
             w == h.where
             p == h.list
  <2>5. p \in Seq(Read) /\ q \in Seq(Read) /\ Listed(w, p) /\ Listed(w, q)
    BY DEF Good, Typed
  <2>6. \A x \in Read : w[x] = "listed" => v[x] = "listed"
    BY <2>4
  <2> HIDE DEF v, w, p
  <2>7. Listed(v, p) /\ Listed(v, q)
    BY <2>5, <2>6, ListedSame
  <2>8. Good(g, q)
    BY <1>1, <2>1, <2>2, <2>3, <2>7 DEF Good, v, p
  <2> QED
    BY <2>1, <2>8 DEF g
<1>3. CASE h.cancel[r] # "no"
  BY <1>1, <1>3 DEF R!InitOutbound
<1> QED
  BY <1>2, <1>3

-----------------------------------------------------------------------------
Other(t) == IF t = "net" THEN "main" ELSE "net"

LEMMA HereGood ==
  ASSUME RInv, NEW t \in R!Tasks, R!Free(t)
  PROVE  Good(R!Here, complete_list[Other(t)])
<1>1. Other(t) \in R!Tasks /\ Other(t) # t
  BY DEF Other, R!Tasks
<1>2. Typed(R!Here)
  BY DEF RInv, ReaderTypes, R!Here, Typed, Fields
<1>3. Held(is_started, outbound, where, cancel, readExt)
  BY DEF RInv, R!OneIsHeld, Held
<1>4. Listed(where, complete_list[Other(t)]) /\ complete_list[Other(t)] \in Seq(Read)
  BY <1>1 DEF RInv, ReaderTypes, ListsMatch, Listed
<1>5. Listed(where, << >>) /\ Apart(<< >>, complete_list[Other(t)])
  BY DEF Listed, Apart
<1>6. R!Here.avail <= R!Here.fifo
  BY DEF RInv, ReaderTypes, R!Here
<1> QED
  BY <1>2, <1>3, <1>4, <1>5, <1>6 DEF Good, R!Here

LEMMA LeaveGood ==
  ASSUME RInv, NEW t \in R!Tasks, NEW h, Good(h, complete_list[Other(t)]), h.started => h.avail = 0,
         R!Leave(t, h), is_opened' \in BOOLEAN, h.started => is_opened'
  PROVE  RInv'
<1>1. Other(t) \in R!Tasks /\ Other(t) # t /\ \A u \in R!Tasks : u \in {t, Other(t)}
  BY DEF Other, R!Tasks
<1>2. /\ complete_list' \in [R!Tasks -> Seq(Read)]
      /\ complete_list'[t] = h.list /\ complete_list'[Other(t)] = complete_list[Other(t)]
  BY <1>1 DEF RInv, ReaderTypes, R!Leave, Good, Typed
<1>3. ReaderTypes'
  BY <1>2 DEF RInv, ReaderTypes, R!Leave, Good, Typed
<1>4. R!OneIsHeld' /\ R!NoneWaits'
  BY DEF Good, Held, R!OneIsHeld, R!NoneWaits, R!Leave
<1>5. ListsMatch'
  <2>1. /\ Listed(where', complete_list'[t]) /\ Listed(where', complete_list'[Other(t)])
        /\ Apart(complete_list'[t], complete_list'[Other(t)])
    BY <1>2 DEF Good, R!Leave
  <2> QED
    BY <1>1, <2>1 DEF ListsMatch, Listed, Apart
<1> QED
  BY <1>3, <1>4, <1>5 DEF RInv

LEMMA StartStep ==
  ASSUME RInv, NEW r \in Read, R!Start(r)
  PROVE  RInv'
<1> DEFINE t == "net"
           q == complete_list[Other(t)]
           s == R!Stop(R!Here)
           h == R!InitOutbound(s, r)
<1>1. Good(R!Here, q) /\ t \in R!Tasks
  BY HereGood DEF R!Start, R!Tasks
<1>2. Good(s, q) /\ ~s.started /\ s.where[r] = "new"
  BY <1>1, StopGood DEF R!Start, R!Here
<1> HIDE DEF s
<1>3. /\ Good(h, q) /\ h.out \in {None, r}
      /\ h.out = r => h.started
      /\ h.out # r => h = s
  BY <1>2, InitOutboundGood
<1> HIDE DEF h, q
<1>4. is_opened' \in BOOLEAN /\ is_opened'
  BY DEF R!Start, RInv, ReaderTypes
<1>5. CASE h.out = r
  <2>1. PICK n \in 1..Len_Fifo : R!Leave("net", R!Pump(h, n, FALSE))
    BY <1>5 DEF R!Start, h, s
  <2>2. Good(R!Pump(h, n, FALSE), q) /\ (R!Pump(h, n, FALSE).started => R!Pump(h, n, FALSE).avail = 0)
    BY <1>3, <1>5, PumpGood
  <2> QED
    BY <1>1, <1>4, <2>1, <2>2, LeaveGood DEF q
<1>6. CASE h.out # r
  <2> DEFINE g == [h EXCEPT !.where[r] = "dropped"]
  <2>1. R!Leave("net", g)
    BY <1>6 DEF R!Start, h, s
  <2>2. h = s /\ Typed(h)
    BY <1>2, <1>3, <1>6 DEF Good
  <2>3. /\ DOMAIN g = Fields
        /\ g.started = h.started /\ g.out = h.out /\ g.where = [h.where EXCEPT ![r] = "dropped"]
        /\ g.cancel = h.cancel /\ g.ext = h.ext /\ g.avail = h.avail /\ g.fifo = h.fifo /\ g.list = h.list
    BY <2>2 DEF Typed, Fields
  <2> HIDE DEF g
  <2>4. Typed(g)
    BY <2>2, <2>3 DEF Typed
  <2>5. Held(g.started, g.out, g.where, g.cancel, g.ext)
    BY <1>2, <2>2, <2>3 DEF Good, Held, Typed
  <2> DEFINE v == g.where
             w == h.where
             p == h.list
  <2>6. \A x \in Read : w[x] = "listed" => v[x] = "listed"
    BY <1>2, <2>2, <2>3 DEF Typed
  <2>7. p \in Seq(Read) /\ q \in Seq(Read) /\ Listed(w, p) /\ Listed(w, q)
    BY <1>3 DEF Good, Typed
  <2> HIDE DEF v, w, p
  <2>9. Listed(v, p) /\ Listed(v, q)
    BY <2>6, <2>7, ListedSame
  <2>8. Good(g, q) /\ ~g.started
    BY <1>2, <1>3, <2>2, <2>3, <2>4, <2>5, <2>9 DEF Good, v, p
  <2> HIDE DEF g
  <2> QED
    BY <1>1, <1>4, <2>1, <2>8, LeaveGood DEF q
<1> QED
  BY <1>5, <1>6

LEMMA TickStep ==
  ASSUME RInv, R!Tick
  PROVE  RInv'
<1>1. PICK n \in 1..Len_Fifo : R!Leave("net", R!Pump(R!Here, n, ticks = 0))
  BY DEF R!Tick
<1>2. Good(R!Here, complete_list[Other("net")]) /\ R!Here.started /\ "net" \in R!Tasks
  BY HereGood DEF R!Tick, R!Tasks, R!Here
<1>3. (ticks = 0) \in BOOLEAN /\ is_opened' \in BOOLEAN /\ is_opened'
  BY DEF R!Tick, RInv, ReaderTypes
<1> DEFINE h == R!Pump(R!Here, n, ticks = 0)
<1>4. Good(h, complete_list[Other("net")]) /\ (h.started => h.avail = 0)
  BY <1>2, <1>3, PumpGood
<1> HIDE DEF h
<1> QED
  BY <1>1, <1>2, <1>3, <1>4, LeaveGood DEF h

LEMMA CloseStep ==
  ASSUME RInv, R!Close
  PROVE  RInv'
<1>1. Good(R!Here, complete_list[Other("net")]) /\ "net" \in R!Tasks
  BY HereGood DEF R!Close, R!Tasks
<1> DEFINE h == R!Stop(R!Here)
<1>2. Good(h, complete_list[Other("net")]) /\ ~h.started
  BY <1>1, StopGood
<1>3. R!Leave("net", h) /\ is_opened' \in BOOLEAN
  BY DEF R!Close
<1> HIDE DEF h
<1> QED
  BY <1>1, <1>2, <1>3, LeaveGood

LEMMA KeyStep ==
  ASSUME RInv, R!Put
  PROVE  RInv'
<1>1. PICK trigger \in BOOLEAN :
       LET h == IF fifo = Len_Fifo THEN R!Here
                ELSE [R!Here EXCEPT !.fifo = @ + 1, !.avail = IF trigger THEN fifo + 1 ELSE @]
       IN \/ ~is_started /\ R!Leave("main", h)
          \/ is_started /\ \E n \in 1..Len_Fifo : R!Leave("main", R!Pump(h, n, FALSE))
  BY DEF R!Put
<1> DEFINE q == complete_list[Other("main")]
           h == IF fifo = Len_Fifo THEN R!Here
                ELSE [R!Here EXCEPT !.fifo = @ + 1, !.avail = IF trigger THEN fifo + 1 ELSE @]
<1>2. Good(R!Here, q) /\ "main" \in R!Tasks
  BY HereGood DEF R!Put, R!Tasks
<1>3. is_opened' \in BOOLEAN /\ is_opened'
  BY DEF R!Put, RInv, ReaderTypes
<1>4. Good(h, q) /\ (h.started <=> is_started)
  <2>1. CASE fifo = Len_Fifo
    BY <1>2, <2>1 DEF R!Here
  <2>2. CASE fifo # Len_Fifo
    <3> DEFINE a == IF trigger THEN fifo + 1 ELSE avail
    <3>1. /\ DOMAIN h = Fields
          /\ h.started = is_started /\ h.out = outbound /\ h.where = where /\ h.cancel = cancel /\ h.ext = readExt
          /\ h.avail = a /\ h.fifo = fifo + 1 /\ h.list = << >>
      BY <2>2 DEF R!Here, Fields
    <3>2. a \in Nat /\ a <= fifo + 1 /\ fifo + 1 \in 0..Len_Fifo
      BY <2>2, ReaderAssumption DEF RInv, ReaderTypes
    <3>3. Typed(h)
      BY <1>2, <3>1, <3>2 DEF Good, R!Here, Typed
    <3> HIDE DEF a
    <3> QED
      BY <1>2, <3>1, <3>2, <3>3 DEF Good, R!Here
  <2> QED
    BY <2>1, <2>2
<1>5. CASE ~is_started /\ R!Leave("main", h)
  <2> HIDE DEF h, q
  <2> QED
    BY <1>2, <1>3, <1>4, <1>5, LeaveGood DEF q
<1>6. CASE is_started /\ \E n \in 1..Len_Fifo : R!Leave("main", R!Pump(h, n, FALSE))
  <2> HIDE DEF h
  <2>1. PICK n \in 1..Len_Fifo : R!Leave("main", R!Pump(h, n, FALSE))
    BY <1>6
  <2> DEFINE g == R!Pump(h, n, FALSE)
  <2>2. Good(g, q) /\ (g.started => g.avail = 0)
    BY <1>4, <1>6, PumpGood
  <2> HIDE DEF g, q
  <2> QED
    BY <1>2, <1>3, <2>1, <2>2, LeaveGood DEF q, g
<1> QED
  BY <1>1, <1>5, <1>6

LEMMA AnswerStep ==
  ASSUME RInv, NEW t \in R!Tasks, R!AnswerReads(t)
  PROVE  RInv'
<1> DEFINE q == complete_list[t]
           p == complete_list[Other(t)]
           r == Head(q)
<1>1. Other(t) \in R!Tasks /\ Other(t) # t /\ \A u \in R!Tasks : u \in {t, Other(t)}
  BY DEF Other, R!Tasks
<1>2. q \in Seq(Read) /\ p \in Seq(Read) /\ q # << >> /\ Listed(where, q) /\ Listed(where, p) /\ Apart(q, p)
  BY <1>1 DEF RInv, ReaderTypes, ListsMatch, Listed, Apart, R!AnswerReads
<1>3. /\ r \in Read /\ r = q[1] /\ 1 \in DOMAIN q /\ Tail(q) \in Seq(Read) /\ DOMAIN Tail(q) = 1..(Len(q) - 1)
      /\ \A i \in DOMAIN Tail(q) : Tail(q)[i] = q[i + 1] /\ i + 1 \in DOMAIN q
  BY <1>2
<1>4. /\ complete_list'[t] = Tail(q) /\ complete_list'[Other(t)] = p /\ complete_list' \in [R!Tasks -> Seq(Read)]
      /\ where' = [where EXCEPT ![r] = "answered"]
  BY <1>1, <1>3 DEF RInv, ReaderTypes, R!AnswerReads
<1>5. ReaderTypes'
  BY <1>3, <1>4 DEF RInv, ReaderTypes, R!AnswerReads, R!bufVars
<1>6. where[r] = "listed"
  BY <1>2, <1>3 DEF Listed
<1>7. R!OneIsHeld' /\ R!NoneWaits'
  BY <1>3, <1>4, <1>6 DEF RInv, ReaderTypes, R!AnswerReads, R!bufVars, R!OneIsHeld, R!NoneWaits
<1>8. where \in [Read -> {"new", "held", "listed", "calling", "answered", "dropped"}]
  BY DEF RInv, ReaderTypes
<1>9. ListsMatch'
  <2>1. Listed(where', Tail(q))
    BY <1>2, <1>3, <1>4, <1>8 DEF Listed
  <2>2. Listed(where', p)
    BY <1>2, <1>3, <1>4, <1>8 DEF Listed, Apart
  <2>3. Apart(Tail(q), p)
    BY <1>2, <1>3 DEF Apart
  <2> DEFINE n == Tail(q)
             a == Other(t)
  <2>4. /\ a \in R!Tasks /\ a # t /\ \A u \in R!Tasks : u = t \/ u = a
        /\ complete_list'[t] = n /\ complete_list'[a] = p
    BY <1>1, <1>4
  <2>5. Listed(where', n) /\ Listed(where', p) /\ Apart(n, p)
    BY <2>1, <2>2, <2>3
  <2> HIDE DEF q, p, n, a
  <2> QED
    BY <2>4, <2>5 DEF ListsMatch, Listed, Apart
<1> QED
  BY <1>5, <1>7, <1>9 DEF RInv

LEMMA ReadCancelStep ==
  ASSUME RInv, NEW r \in Read, R!Cancel(r)
  PROVE  RInv'
<1>1. ReaderTypes'
  BY DEF RInv, ReaderTypes, R!Cancel, R!bufVars
<1>2. R!OneIsHeld' /\ R!NoneWaits'
  BY DEF RInv, ReaderTypes, R!Cancel, R!bufVars, R!OneIsHeld, R!NoneWaits, R!Ended
<1>3. ListsMatch'
  BY DEF RInv, ReaderTypes, R!Cancel, R!bufVars, R!OneIsHeld, ListsMatch
<1> QED
  BY <1>1, <1>2, <1>3 DEF RInv

LEMMA CancellerStep ==
  ASSUME RInv, NEW r \in Read, R!CancelCall(r)
  PROVE  RInv'
<1>1. ReaderTypes'
  BY DEF RInv, ReaderTypes, R!CancelCall, R!bufVars
<1>2. R!OneIsHeld' /\ R!NoneWaits'
  BY ReaderAssumption DEF RInv, ReaderTypes, R!CancelCall, R!bufVars, R!OneIsHeld, R!NoneWaits
<1>3. ListsMatch'
  BY DEF RInv, ReaderTypes, R!CancelCall, R!bufVars, ListsMatch
<1> QED
  BY <1>1, <1>2, <1>3 DEF RInv

LEMMA OpenStep ==
  ASSUME RInv, R!Open
  PROVE  RInv'
<1>1. ReaderTypes'
  <2>1. is_opened' \in BOOLEAN /\ is_started' \in BOOLEAN /\ ~is_started'
    BY DEF R!Open
  <2>2. fifo' \in 0..Len_Fifo /\ avail' \in 0..fifo'
    BY ReaderAssumption DEF R!Open
  <2>3. UNCHANGED <<outbound, where, cancel, readExt, complete_list>>
    BY DEF R!Open
  <2> QED
    BY <2>1, <2>2, <2>3 DEF RInv, ReaderTypes
<1>2. ListsMatch'
  BY DEF RInv, R!Open, ListsMatch
<1>3. ~is_started /\ ~is_started'
  BY DEF RInv, ReaderTypes, R!Open
<1>4. R!OneIsHeld'
  <2>1. UNCHANGED <<outbound, where, cancel, readExt>> /\ (is_started' <=> is_started)
    BY <1>3 DEF R!Open
  <2> QED
    BY <2>1 DEF RInv, R!OneIsHeld
<1>5. R!NoneWaits'
  BY <1>3 DEF R!NoneWaits
<1> QED
  BY <1>1, <1>2, <1>4, <1>5 DEF RInv

LEMMA RInit == R!Init => RInv
<1> SUFFICES ASSUME R!Init PROVE RInv
  OBVIOUS
<1>1. ReaderTypes
  <2>1. complete_list \in [R!Tasks -> Seq(Read)]
    BY DEF R!Init
  <2>2. fifo \in 0..Len_Fifo /\ avail \in 0..fifo /\ outbound \in Read \cup {None}
    BY ReaderAssumption DEF R!Init
  <2>3. is_opened \in BOOLEAN /\ is_started \in BOOLEAN /\ ~is_started
    BY DEF R!Init
  <2>4. /\ where \in [Read -> {"new", "held", "listed", "calling", "answered", "dropped"}]
        /\ cancel \in [Read -> {"no", "has", "cancelled"}] /\ readExt \in [Read -> BOOLEAN]
    BY DEF R!Init
  <2> QED
    BY <2>1, <2>2, <2>3, <2>4 DEF ReaderTypes
<1>2. R!OneIsHeld /\ R!NoneWaits
  BY ReaderAssumption DEF R!Init, R!OneIsHeld, R!NoneWaits
<1>3. ListsMatch
  BY DEF R!Init, ListsMatch
<1> QED
  BY <1>1, <1>2, <1>3 DEF RInv

LEMMA RStep == RInv /\ R!Next => RInv'
BY StartStep, TickStep, CloseStep, KeyStep, AnswerStep, ReadCancelStep, CancellerStep, OpenStep
   DEF R!Next, R!TasksRun

-----------------------------------------------------------------------------
\* The three of them.
LEMMA UdpKept == ASSUME UdpInv, UNCHANGED vars PROVE UdpInv'
<1> USE DEF vars, outVars, inVars, loopVars, ownerVars
<1>1. UdpTypes'
  BY DEF UdpInv, UdpTypes, TypeOK
<1>2. PacketsOut' /\ ListOut'
  BY OutKept DEF UdpInv
<1>3. HandOut'
  BY DEF UdpInv, HandOut
<1>4. CountersIn'
  BY CountersKept DEF UdpInv
<1> QED
  BY <1>1, <1>2, <1>3, <1>4 DEF UdpInv

LEMMA FileKept == ASSUME FileInv, UNCHANGED fileVars PROVE FileInv'
<1> USE DEF fileVars
<1>1. FileTypes'
  BY DEF FileInv, FileTypes, F!TypeOK
<1>2. WorkIn' /\ DelayIn' /\ TasksIn'
  <2>1. WorkIn'
    BY DEF FileInv, WorkIn, Over, Brought, InSlot, Delayed, Left, NotHere, NoCancel, SoleUser
  <2>2. DelayIn'
    BY DEF FileInv, DelayIn
  <2>3. TasksIn'
    BY DEF FileInv, TasksIn, Thread, F!Thread, SoleUser
  <2> QED
    BY <2>1, <2>2, <2>3
<1>3. SlotsIn'
  BY DEF FileInv, SlotsIn, OfPool, OfList, OfWait, OfTask, NotAt, Io, Used, Thread, F!Thread
<1>4. NoneIdle' /\ Units'
  BY DEF FileInv, NoneIdle, Units
<1>5. F!WaitListOK'
  BY WaitKept DEF FileInv
<1> QED
  BY <1>1, <1>2, <1>3, <1>4, <1>5 DEF FileInv

LEMMA ReaderKept == ASSUME RInv, UNCHANGED readerVars PROVE RInv'
BY DEF readerVars, RInv, ReaderTypes, R!OneIsHeld, R!NoneWaits, ListsMatch

\* The inductive invariant, of the device that runs and of those that do not.
DevInv == UdpInv /\ FileInv /\ RInv

LEMMA DevInit == MCInit => DevInv
BY UdpInit, FileStart, RInit DEF MCInit, DevInv

LEMMA DevStep == DevInv /\ [MCNext]_<<part, vars, fileVars, readerVars>> => DevInv'
<1> SUFFICES ASSUME DevInv, [MCNext]_<<part, vars, fileVars, readerVars>> PROVE DevInv'
  OBVIOUS
<1>1. UdpInv'
  BY UdpStep, UdpKept DEF DevInv, MCNext, UdpNext, FileNext, ReaderNext
<1>2. FileInv'
  BY FileStep, FileKept DEF DevInv, MCNext, UdpNext, FileNext, ReaderNext
<1>3. RInv'
  BY RStep, ReaderKept DEF DevInv, MCNext, UdpNext, FileNext, ReaderNext
<1> QED
  BY <1>1, <1>2, <1>3 DEF DevInv

\* Each packet given to a device is in one place until it is completed, and is
\* completed once, for any number of packets, users and slots and however
\* cancellers, the system and the owner come in between.
THEOREM PacketsOfDevices == MCSpec => []PacketsMatch
<1>1. DevInv => PacketsMatch
  BY UdpRight, FileOneCompletes DEF DevInv, PacketsMatch
<1> QED
  BY <1>1, DevInit, DevStep, PTL DEF MCSpec

\* What the UDP device counts is there until finish() returns and gone then; no slot
\* of the file processor is lost, or idle while a packet waits, and each completed
\* slot has its unit of the interrupt.
THEOREM CountersOfDevices == MCSpec => []CountersMatch
<1>1. DevInv => CountersMatch
  BY UdpRight, FileSlotsMatch, FileUnitsMatch DEF DevInv, CountersMatch, FileInv
<1> QED
  BY <1>1, DevInit, DevStep, PTL DEF MCSpec

\* The reader of the console holds the read that it started last and nothing else,
\* whenever that was cancelled, and no read waits for keys that are there.
THEOREM ReadsOfConsole == MCSpec => []ReadsMatch
<1>1. DevInv => ReadsMatch
  BY DEF DevInv, RInv, ReadsMatch
<1> QED
  BY <1>1, DevInit, DevStep, PTL DEF MCSpec
=============================================================================
