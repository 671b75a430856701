-------------------------- MODULE PTPServer_proofs --------------------------
(***************************************************************************)
(* PTPServer, for all sets of points, transactions and slots and any       *)
(* number of retries: which call a slot serves, what it answers, and whom  *)
(* it listens to.                                                          *)
(***************************************************************************)
EXTENDS PTPServer, TLAPS

\* No call names an index its slot has not reached yet ...
CallsAreEarlier == \A c \in calls : c.index <= slot[c.slot].index

\* ... and the one with the slot's index is the transaction the slot serves:
\* this is what the test of the index in send_info() relies on.
CallIsCurrent == \A c \in calls : slot[c.slot].active /\ slot[c.slot].index = c.index
                                    => c = CallOf(c.slot)

\* A slot in use counts its transaction.
ActiveIsCounted == \A i \in Active : slot[i].index # 0

SlotInv == /\ ActiveIsCounted
           /\ UniqueKey /\ PendingWasCalled /\ AnswerIsOwn /\ DecidedHasTimer
           /\ CallsAreEarlier /\ CallIsCurrent

IInv == TypeOK /\ SlotInv

\* A step that gives slot i nothing new to do: it stays as it is, but for
\* retry, or is freed.
Quiet(i) == /\ slot'[i].index = slot[i].index
            /\ slot'[i].active =>
                 /\ slot[i].active
                 /\ slot'[i].point = slot[i].point /\ slot'[i].tid = slot[i].tid
                 /\ slot'[i].info = slot[i].info /\ slot'[i].state = slot[i].state
                 /\ slot'[i].timer = slot[i].timer /\ slot'[i].ans = slot[i].ans

-----------------------------------------------------------------------------
\* What a packet is made of, and what Send does with it.
LEMMA SendType ==
  ASSUME toClient \in [Watched -> SUBSET OutboundPacket], NEW sent,
         \A m \in sent : m[2] \in OutboundPacket, Send(sent)
  PROVE  toClient' \in [Watched -> SUBSET OutboundPacket]
BY DEF Send

LEMMA ControlType ==
  ASSUME NEW type \in {"CANCEL", "RERET", "NOINFO"}, NEW tid \in TransId,
         NEW c \in ClientSlot, NEW s \in ServerSlot
  PROVE  Control(type, tid, c, s) \in OutboundPacket
BY DEF Control, OutboundPacket, ReplyPacket

LEMMA ReplyType ==
  ASSUME TypeOK, NEW i \in ServerSlot, NEW type \in {"CANCEL", "RERET", "NOINFO"}
  PROVE  Reply(type, i)[2] \in OutboundPacket
<1>1. slot[i].tid \in TransId /\ slot[i].cslot \in ClientSlot
  BY DEF TypeOK, SlotType
<1> QED
  BY <1>1, ControlType DEF Reply

LEMMA RetType ==
  ASSUME TypeOK, NEW i \in ServerSlot, NEW a \in Call
  PROVE  Ret(i, a)[2] \in OutboundPacket
<1>1. slot[i].tid \in TransId /\ slot[i].cslot \in ClientSlot
  BY DEF TypeOK, SlotType
<1> QED
  BY <1>1 DEF Ret, OutboundPacket, AnswerPacket

\* The call of a slot that has served one.
LEMMA CallOfType ==
  ASSUME TypeOK, NEW i \in ServerSlot, slot[i].index # 0
  PROVE  CallOf(i) \in Call
<1>1. slot[i] \in SlotType
  BY DEF TypeOK
<1>2. slot[i].index \in 1..MaxIndex
  BY <1>1, ServerAssumption DEF SlotType
<1> QED
  BY <1>1, <1>2 DEF CallOf, Call, SlotType

\* The answer that a slot keeps is one that it was given.
LEMMA OwnAnswerType ==
  ASSUME IInv, NEW i \in ServerSlot, i \in Active, slot[i].state = "ready"
  PROVE  Ret(i, slot[i].ans)[2] \in OutboundPacket
<1>1. slot[i].ans = CallOf(i) /\ slot[i].index # 0
  BY DEF IInv, SlotInv, AnswerIsOwn, ActiveIsCounted
<1> QED
  BY <1>1, CallOfType, RetType DEF IInv

\* A freed slot is a slot.
LEMMA FreedType ==
  ASSUME NEW s \in SlotType
  PROVE  /\ Freed(s) \in SlotType
         /\ Freed(s).active = FALSE /\ Freed(s).index = s.index
BY DEF Freed, SlotType

-----------------------------------------------------------------------------
\* A step of which every slot hears nothing, or is freed, keeps the invariant.
LEMMA QuietKeeps ==
  ASSUME IInv, slot' \in [ServerSlot -> SlotType], calls' = calls,
         \A i \in ServerSlot : Quiet(i)
  PROVE  SlotInv'
<1>1. \A i \in Active' : i \in Active /\ CallOf(i)' = CallOf(i)
  BY DEF Active, CallOf, Quiet
<1>2. \A c \in calls : c.slot \in ServerSlot
  BY DEF IInv, TypeOK, Call
<1>3. UniqueKey'
  BY <1>1 DEF IInv, SlotInv, UniqueKey, Active, Quiet
<1>4. PendingWasCalled'
  BY <1>1 DEF IInv, SlotInv, PendingWasCalled, Active, Quiet
<1>5. AnswerIsOwn'
  BY <1>1 DEF IInv, SlotInv, AnswerIsOwn, Active, Quiet
<1>6. DecidedHasTimer'
  BY <1>1 DEF IInv, SlotInv, DecidedHasTimer, Active, Quiet
<1>7. CallsAreEarlier'
  BY <1>2 DEF IInv, SlotInv, CallsAreEarlier, Quiet
<1>8. CallIsCurrent'
  BY <1>1, <1>2 DEF IInv, SlotInv, CallIsCurrent, Active, Quiet
<1>9. ActiveIsCounted'
  BY <1>1 DEF IInv, SlotInv, ActiveIsCounted, Active, Quiet
<1> QED
  BY <1>3, <1>4, <1>5, <1>6, <1>7, <1>8, <1>9 DEF SlotInv

\* So does a step that leaves the slots and the calls alone ...
LEMMA SameKeeps ==
  ASSUME IInv, slot' = slot, calls' = calls
  PROVE  SlotInv' /\ slot' \in [ServerSlot -> SlotType] /\ calls' \subseteq Call
<1>1. slot' \in [ServerSlot -> SlotType] /\ calls' \subseteq Call
  BY DEF IInv, TypeOK
<1>2. \A i \in ServerSlot : Quiet(i)
  BY DEF Quiet
<1> QED
  BY <1>1, <1>2, QuietKeeps

\* ... and one that frees some slots.
LEMMA FreeKeeps ==
  ASSUME IInv, calls' = calls, NEW D,
         slot' = [i \in ServerSlot |-> IF i \in D THEN Freed(slot[i]) ELSE slot[i]]
  PROVE  SlotInv' /\ slot' \in [ServerSlot -> SlotType] /\ calls' \subseteq Call
<1>1. slot \in [ServerSlot -> SlotType] /\ calls' \subseteq Call
  BY DEF IInv, TypeOK
<1>2. \A i \in ServerSlot : slot'[i] \in SlotType /\ Quiet(i)
  BY <1>1, FreedType DEF Quiet
<1>3. slot' \in [ServerSlot -> SlotType]
  BY <1>2
<1> QED
  BY <1>1, <1>2, <1>3, QuietKeeps

\* A free slot takes a transaction that no slot serves.
LEMMA StartKeeps ==
  ASSUME IInv, NEW i \in ServerSlot \ Active, NEW p \in Point, NEW pk \in CallPacket,
         InTree(p, pk.tid) = {}, Start(i, p, pk)
  PROVE  /\ SlotInv'
         /\ slot' \in [ServerSlot -> SlotType] /\ calls' \subseteq Call
         /\ toClient \in [Watched -> SUBSET OutboundPacket]
              => toClient' \in [Watched -> SUBSET OutboundPacket]
<1> DEFINE new   == [slot |-> i, index |-> slot[i].index + 1, point |-> p,
                     tid |-> pk.tid, info |-> pk.info]
           state == IF attached THEN "pending" ELSE "cancelled"
<1>0. /\ slot \in [ServerSlot -> SlotType] /\ calls \subseteq Call
      /\ slot[i].index \in Nat /\ slot[i].index < MaxIndex /\ ~slot[i].active
      /\ pk.tid \in TransId /\ pk.cslot \in ClientSlot /\ pk.info \in Info
  BY ServerAssumption DEF IInv, TypeOK, SlotType, Start, Active, CallPacket
<1>1. new \in Call
  BY <1>0, ServerAssumption DEF Call
<1>2. Started(i, p, pk, state)
  BY DEF Start
<1>3. /\ slot' = [j \in ServerSlot |-> IF j = i THEN slot'[i] ELSE slot[j]]
      /\ slot'[i] = [active |-> TRUE, point |-> p, tid |-> pk.tid, cslot |-> pk.cslot,
                     info |-> pk.info, state |-> state, index |-> slot[i].index + 1,
                     timer |-> (state = "cancelled"), retry |-> MaxRetries, ans |-> NoAnswer]
  BY <1>0, <1>2 DEF Started
<1> HIDE DEF state
<1>4. state \in {"pending", "cancelled"} /\ (state = "pending" <=> attached = TRUE)
  BY DEF state, IInv, TypeOK
<1>5. slot'[i] \in SlotType
  BY <1>0, <1>3, <1>4, ServerAssumption DEF SlotType
<1>6. slot' \in [ServerSlot -> SlotType]
  BY <1>0, <1>3, <1>5
<1>7. calls' = calls \cup (IF state = "pending" THEN {new} ELSE {})
  BY <1>4 DEF Start
<1>8. /\ \A j \in ServerSlot : j # i => slot'[j] = slot[j] /\ CallOf(j)' = CallOf(j)
      /\ CallOf(i)' = new
      /\ \A j \in Active' : j = i \/ j \in Active
  BY <1>3 DEF CallOf, Active
<1> HIDE DEF new
<1>9. new.slot = i /\ new.index = slot[i].index + 1
  BY DEF new
<1>10. UniqueKey'
  <2>1. \A j \in Active : ~(slot[j].point = p /\ slot[j].tid = pk.tid)
    BY DEF InTree
  <2> QED
    BY <1>3, <1>8, <2>1 DEF IInv, SlotInv, UniqueKey, Active
<1>11. PendingWasCalled'
  BY <1>3, <1>7, <1>8 DEF IInv, SlotInv, PendingWasCalled, Active
<1>12. AnswerIsOwn'
  <2>1. slot'[i].state # "ready"
    BY <1>3, <1>4
  <2> SUFFICES ASSUME NEW j \in Active', slot'[j].state = "ready"
               PROVE  slot'[j].ans = CallOf(j)'
    BY DEF AnswerIsOwn
  <2>2. j \in Active /\ slot'[j] = slot[j] /\ CallOf(j)' = CallOf(j)
    BY <1>8, <2>1 DEF Active
  <2> QED
    BY <2>2 DEF IInv, SlotInv, AnswerIsOwn
<1>13. DecidedHasTimer'
  <2>1. CASE state = "pending"
    BY <1>3, <1>8, <2>1 DEF IInv, SlotInv, DecidedHasTimer, Active
  <2>2. CASE state = "cancelled"
    <3>1. slot'[i].timer = TRUE
      <4>1. slot'[i].timer = (state = "cancelled")
        BY <1>3
      <4>2. (state = "cancelled") = TRUE
        BY <2>2
      <4> QED
        BY <4>1, <4>2, Zenon
    <3> QED
      BY <1>8, <3>1 DEF IInv, SlotInv, DecidedHasTimer, Active
  <2> QED
    BY <1>4, <2>1, <2>2
<1>14. \A c \in calls : c.slot \in ServerSlot /\ c.index \in Nat
                          /\ c.index <= slot[c.slot].index /\ slot[c.slot].index \in Nat
  BY <1>0 DEF IInv, SlotInv, CallsAreEarlier, Call, SlotType
<1>15. \A c \in calls' : c \in calls \/ c = new
  BY <1>7
<1>16. CallsAreEarlier'
  BY <1>0, <1>3, <1>8, <1>9, <1>14, <1>15 DEF CallsAreEarlier
<1>17. CallIsCurrent'
  <2> SUFFICES ASSUME NEW c \in calls', slot'[c.slot].active, slot'[c.slot].index = c.index
               PROVE  c = CallOf(c.slot)'
    BY DEF CallIsCurrent
  <2>1. CASE c = new
    BY <1>8, <1>9, <2>1
  <2>2. CASE c # new
    <3>1. c \in calls /\ c.slot # i
      BY <1>0, <1>3, <1>14, <1>15, <2>2
    <3> QED
      BY <1>8, <1>14, <3>1 DEF IInv, SlotInv, CallIsCurrent
  <2> QED
    BY <2>1, <2>2
<1>18. ActiveIsCounted'
  BY <1>0, <1>3, <1>8 DEF IInv, SlotInv, ActiveIsCounted, Active
<1>19. SlotInv'
  BY <1>10, <1>11, <1>12, <1>13, <1>16, <1>17, <1>18 DEF SlotInv
<1>20. ASSUME toClient \in [Watched -> SUBSET OutboundPacket]
       PROVE  toClient' \in [Watched -> SUBSET OutboundPacket]
  <2>1. CASE UNCHANGED toClient
    BY <1>20, <2>1
  <2>2. CASE Send({<<p, Control("CANCEL", pk.tid, pk.cslot, i)>>})
    <3>1. Control("CANCEL", pk.tid, pk.cslot, i) \in OutboundPacket
      BY <1>0, ControlType
    <3> QED
      BY <1>20, <2>2, <3>1, SendType
  <2> QED
    BY <2>1, <2>2 DEF Start
<1> QED
  BY <1>0, <1>1, <1>6, <1>7, <1>19, <1>20

\* The ServerProc answers or refuses the call it was given.
LEMMA DecideKeeps ==
  ASSUME IInv, NEW c \in calls, SendInfo(c) \/ SendCancel(c)
  PROVE  IInv'
<1> DEFINE i == c.slot
<1>0. /\ slot \in [ServerSlot -> SlotType] /\ calls \subseteq Call /\ calls' = calls
      /\ c \in Call /\ i \in ServerSlot /\ i \in Active /\ slot[i].state = "pending"
      /\ slot[i].index = c.index
  BY DEF IInv, TypeOK, Call, SendInfo, SendCancel, Awaits, Active
<1>1. c = CallOf(i)
  BY <1>0 DEF IInv, SlotInv, CallIsCurrent, Active
<1>2. PICK state \in {"ready", "cancelled"}, ans \in Call \cup {NoAnswer} :
        /\ slot' = [slot EXCEPT ![i].state = state, ![i].timer = TRUE, ![i].ans = ans]
        /\ state = "ready" => ans = c
  <2>1. CASE SendInfo(c)
    BY <1>0, <2>1 DEF SendInfo
  <2>2. CASE SendCancel(c)
    <3>1. slot' = [slot EXCEPT ![i].state = "cancelled", ![i].timer = TRUE, ![i].ans = slot[i].ans]
      BY <1>0, <2>2 DEF SendCancel, SlotType
    <3>2. slot[i].ans \in Call \cup {NoAnswer}
      BY <1>0 DEF SlotType
    <3> QED
      BY <3>1, <3>2
  <2> QED
    BY <2>1, <2>2
<1> HIDE DEF i
<1>3. /\ \A j \in ServerSlot : j # i => slot'[j] = slot[j]
      /\ slot'[i] = [slot[i] EXCEPT !.state = state, !.timer = TRUE, !.ans = ans]
  BY <1>0, <1>2
<1>4. slot[i] \in SlotType
  BY <1>0
<1>5. /\ slot'[i] \in SlotType
      /\ slot'[i].active = slot[i].active /\ slot'[i].index = slot[i].index
      /\ slot'[i].point = slot[i].point /\ slot'[i].tid = slot[i].tid
      /\ slot'[i].info = slot[i].info /\ slot'[i].state = state
      /\ slot'[i].timer = TRUE /\ slot'[i].ans = ans
  BY <1>3, <1>4 DEF SlotType
<1>6. slot' \in [ServerSlot -> SlotType]
  BY <1>0, <1>2, <1>3, <1>5
<1>7. /\ \A j \in ServerSlot : CallOf(j)' = CallOf(j)
      /\ \A j \in Active' : j \in Active
      /\ \A j \in ServerSlot : slot'[j].active = slot[j].active /\ slot'[j].index = slot[j].index
                              /\ slot'[j].point = slot[j].point /\ slot'[j].tid = slot[j].tid
  BY <1>3, <1>5 DEF CallOf, Active
<1>8. \A d \in calls : d.slot \in ServerSlot
  BY <1>0 DEF Call
<1>9. UniqueKey'
  BY <1>7 DEF IInv, SlotInv, UniqueKey, Active
<1>10. PendingWasCalled'
  BY <1>0, <1>1, <1>3, <1>7 DEF IInv, SlotInv, PendingWasCalled, Active
<1>11. AnswerIsOwn'
  BY <1>0, <1>1, <1>2, <1>3, <1>5, <1>7 DEF IInv, SlotInv, AnswerIsOwn, Active
<1>12. DecidedHasTimer'
  BY <1>3, <1>5, <1>7 DEF IInv, SlotInv, DecidedHasTimer, Active
<1>13. CallsAreEarlier'
  BY <1>0, <1>7, <1>8 DEF IInv, SlotInv, CallsAreEarlier
<1>14. CallIsCurrent'
  BY <1>0, <1>7, <1>8 DEF IInv, SlotInv, CallIsCurrent
<1>15. TypeOK'
  <2>1. attached' = attached /\ puts' = puts
    BY DEF SendInfo, SendCancel
  <2>2. Send({Ret(i, c)}) \/ Send({Reply("CANCEL", i)})
    BY DEF SendInfo, SendCancel, i
  <2>3. Ret(i, c)[2] \in OutboundPacket /\ Reply("CANCEL", i)[2] \in OutboundPacket
    BY <1>0, RetType, ReplyType DEF IInv
  <2>4. toClient' \in [Watched -> SUBSET OutboundPacket]
    BY <2>2, <2>3, SendType DEF IInv, TypeOK
  <2> QED
    BY <1>0, <1>6, <2>1, <2>4 DEF IInv, TypeOK
<1>16. ActiveIsCounted'
  BY <1>7 DEF IInv, SlotInv, ActiveIsCounted, Active
<1> QED
  BY <1>9, <1>10, <1>11, <1>12, <1>13, <1>14, <1>15, <1>16 DEF IInv, SlotInv

-----------------------------------------------------------------------------
\* The invariant holds of an engine that has served nothing ...
LEMMA IInvInit == Init => IInv
<1> SUFFICES ASSUME Init PROVE IInv
  OBVIOUS
<1>1. Blank \in SlotType /\ Blank.active = FALSE /\ Blank.index = 0
  BY ServerAssumption DEF Blank, SlotType
<1>2. slot \in [ServerSlot -> SlotType] /\ Active = {} /\ calls = {}
  BY <1>1 DEF Init, Active
<1>3. TypeOK
  BY <1>2 DEF Init, TypeOK
<1> QED
  BY <1>2, <1>3 DEF IInv, SlotInv, UniqueKey, PendingWasCalled, AnswerIsOwn, DecidedHasTimer,
                    CallsAreEarlier, CallIsCurrent, ActiveIsCounted

\* ... and every packet keeps it ...
LEMMA InboundKeeps ==
  ASSUME IInv, NEW p \in Point, NEW pk \in InboundPacket,
         InboundCALL(p, pk) \/ InboundRECALL(p, pk) \/ InboundACK(p, pk) \/ InboundSENDRET(p, pk)
  PROVE  /\ SlotInv'
         /\ slot' \in [ServerSlot -> SlotType] /\ calls' \subseteq Call
         /\ toClient' \in [Watched -> SUBSET OutboundPacket]
<1>0. toClient \in [Watched -> SUBSET OutboundPacket] /\ slot \in [ServerSlot -> SlotType]
  BY DEF IInv, TypeOK
<1>1. ASSUME UNCHANGED <<slot, calls, toClient>>
      PROVE  /\ SlotInv'
             /\ slot' \in [ServerSlot -> SlotType] /\ calls' \subseteq Call
             /\ toClient' \in [Watched -> SUBSET OutboundPacket]
  BY <1>0, <1>1, SameKeeps
<1>2. CASE InboundCALL(p, pk)
  <2>1. pk \in CallPacket
    BY <1>2 DEF InboundCALL, InboundPacket, CallPacket, ControlPacket
  <2>2. CASE InTree(p, pk.tid) = {} /\ \E i \in ServerSlot \ Active : Start(i, p, pk)
    BY <1>0, <2>1, <2>2, StartKeeps
  <2> QED
    BY <1>1, <1>2, <2>2 DEF InboundCALL
<1>3. CASE InboundRECALL(p, pk)
  <2>1. pk \in CallPacket
    BY <1>3 DEF InboundRECALL, InboundPacket, CallPacket, ControlPacket
  <2>2. CASE InTree(p, pk.tid) = {} /\ \E i \in ServerSlot \ Active : Start(i, p, pk)
    BY <1>0, <2>1, <2>2, StartKeeps
  <2>3. ASSUME NEW i \in InTree(p, pk.tid), Send(Recalled(i, pk.cslot)), UNCHANGED <<slot, calls>>
        PROVE  /\ SlotInv'
               /\ slot' \in [ServerSlot -> SlotType] /\ calls' \subseteq Call
               /\ toClient' \in [Watched -> SUBSET OutboundPacket]
    <3>1. i \in ServerSlot /\ i \in Active
      BY DEF InTree, Active
    <3>2. \A m \in Recalled(i, pk.cslot) : m[2] \in OutboundPacket
      <4>1. slot[i].state \in {"pending", "ready", "cancelled"}
        BY <1>0, <3>1 DEF SlotType
      <4>2. Reply("NOINFO", i)[2] \in OutboundPacket /\ Reply("CANCEL", i)[2] \in OutboundPacket
        BY <3>1, ReplyType DEF IInv
      <4>3. ASSUME slot[i].state = "ready" PROVE Ret(i, slot[i].ans)[2] \in OutboundPacket
        BY <3>1, <4>3, OwnAnswerType
      <4> QED
        BY <4>1, <4>2, <4>3 DEF Recalled
    <3> QED
      BY <1>0, <2>3, <3>2, SameKeeps, SendType
  <2> QED
    BY <1>1, <1>3, <2>2, <2>3 DEF InboundRECALL
<1>4. CASE InboundACK(p, pk)
  BY <1>0, <1>4, FreeKeeps DEF InboundACK
<1>5. CASE InboundSENDRET(p, pk)
  <2> DEFINE asked == {i \in Found(p, pk) : slot[i].state # "pending"}
             word(i) == IF slot[i].state = "ready" THEN Ret(i, slot[i].ans) ELSE Reply("CANCEL", i)
  <2>1. pk \in ControlPacket
    BY <1>5 DEF InboundSENDRET, InboundPacket, CallPacket, ControlPacket
  <2>2. Control("CANCEL", pk.tid, pk.cslot, pk.sslot) \in OutboundPacket
    BY <2>1, ControlType DEF ControlPacket
  <2>3. ASSUME NEW i \in asked PROVE word(i)[2] \in OutboundPacket
    <3>1. i \in ServerSlot /\ i \in Active
      BY DEF Found, Active
    <3>2. Reply("CANCEL", i)[2] \in OutboundPacket
      BY <3>1, ReplyType DEF IInv
    <3>3. ASSUME slot[i].state = "ready" PROVE Ret(i, slot[i].ans)[2] \in OutboundPacket
      BY <3>1, <3>3, OwnAnswerType
    <3> QED
      BY <3>2, <3>3
  <2>4. Send(IF Found(p, pk) = {} THEN {<<p, Control("CANCEL", pk.tid, pk.cslot, pk.sslot)>>}
             ELSE {word(i) : i \in asked})
    BY <1>5 DEF InboundSENDRET
  <2> HIDE DEF word, asked
  <2>5. CASE Found(p, pk) = {}
    <3>1. Send({<<p, Control("CANCEL", pk.tid, pk.cslot, pk.sslot)>>})
      BY <2>4, <2>5
    <3>2. toClient' \in [Watched -> SUBSET OutboundPacket]
      BY <1>0, <2>2, <3>1, SendType
    <3> QED
      BY <1>5, <3>2, SameKeeps DEF InboundSENDRET
  <2>6. CASE Found(p, pk) # {}
    <3>1. Send({word(i) : i \in asked})
      BY <2>4, <2>6
    <3>2. \A m \in {word(i) : i \in asked} : m[2] \in OutboundPacket
      BY <2>3
    <3>3. toClient' \in [Watched -> SUBSET OutboundPacket]
      BY <1>0, <3>1, <3>2, SendType
    <3> QED
      BY <1>5, <3>3, SameKeeps DEF InboundSENDRET
  <2> QED
    BY <2>5, <2>6
<1> QED
  BY <1>2, <1>3, <1>4, <1>5

\* ... and so does tick().
LEMMA TickKeeps ==
  ASSUME IInv, NEW exp \in SUBSET ServerSlot, Tick(exp)
  PROVE  IInv'
<1> DEFINE again == {i \in exp : slot[i].retry > 0}
<1>0. /\ slot \in [ServerSlot -> SlotType] /\ toClient \in [Watched -> SUBSET OutboundPacket]
      /\ calls' = calls /\ attached' = attached /\ puts' = puts
  BY DEF IInv, TypeOK, Tick
<1>1. /\ slot' = [i \in ServerSlot |-> IF i \in again THEN [slot[i] EXCEPT !.retry = @ - 1]
                                       ELSE IF i \in exp THEN Freed(slot[i]) ELSE slot[i]]
      /\ Send({Reply("RERET", i) : i \in again})
  BY DEF Tick
<1>2. ASSUME NEW i \in ServerSlot PROVE slot'[i] \in SlotType /\ Quiet(i)
  <2>1. CASE i \in again
    <3>1. slot'[i] = [slot[i] EXCEPT !.retry = @ - 1] /\ slot[i] \in SlotType
      BY <1>0, <1>1, <2>1
    <3>2. slot[i].retry \in 0..MaxRetries /\ slot[i].retry > 0
      BY <2>1, <3>1 DEF SlotType
    <3>3. slot[i].retry - 1 \in 0..MaxRetries
      BY <3>2, ServerAssumption
    <3> QED
      BY <3>1, <3>3 DEF SlotType, Quiet
  <2>2. CASE i \in exp \ again
    <3>1. slot'[i] = Freed(slot[i]) /\ slot[i] \in SlotType
      BY <1>0, <1>1, <2>2
    <3> QED
      BY <3>1, FreedType DEF Quiet
  <2>3. CASE i \notin exp
    <3>1. slot'[i] = slot[i] /\ slot[i] \in SlotType
      BY <1>0, <1>1, <2>3
    <3> QED
      BY <3>1 DEF Quiet
  <2> QED
    BY <2>1, <2>2, <2>3
<1>3. slot' \in [ServerSlot -> SlotType]
  BY <1>1, <1>2
<1>4. SlotInv'
  BY <1>0, <1>2, <1>3, QuietKeeps
<1>5. \A m \in {Reply("RERET", i) : i \in again} : m[2] \in OutboundPacket
  BY ReplyType DEF IInv
<1>6. toClient' \in [Watched -> SUBSET OutboundPacket]
  BY <1>0, <1>1, <1>5, SendType
<1> QED
  BY <1>0, <1>3, <1>4, <1>6 DEF IInv, TypeOK

LEMMA IInvStep == IInv /\ [Next]_vars => IInv'
<1> SUFFICES ASSUME IInv, [Next]_vars PROVE IInv'
  OBVIOUS
<1>0. /\ attached \in BOOLEAN /\ puts \in 0..2 /\ slot \in [ServerSlot -> SlotType]
      /\ toClient \in [Watched -> SUBSET OutboundPacket] /\ calls \subseteq Call
  BY DEF IInv, TypeOK
<1>1. ASSUME NEW p \in Point, NEW pk \in InboundPacket, Inbound(p, pk) PROVE IInv'
  BY <1>0, <1>1, InboundKeeps DEF Inbound, IInv, TypeOK
<1>2. ASSUME NEW p \in Point, NEW pk \in InboundPacket, InboundMalformed(p, pk) PROVE IInv'
  <2>1. puts' \in 0..2 /\ attached' = attached
    BY <1>2 DEF InboundMalformed
  <2>2. CASE pk.type = "RECALL"
    <3>1. InboundRECALL(p, pk)
      BY <1>2, <2>2 DEF InboundMalformed
    <3> QED
      BY <1>0, <2>1, <3>1, InboundKeeps DEF IInv, TypeOK
  <2>3. CASE pk.type # "RECALL"
    <3>1. slot' = slot /\ calls' = calls /\ toClient' = toClient
      BY <1>2, <2>3 DEF InboundMalformed
    <3> QED
      BY <1>0, <2>1, <3>1, SameKeeps DEF IInv, TypeOK
  <2> QED
    BY <2>2, <2>3
<1>3. ASSUME NEW c \in calls, SendInfo(c) \/ SendCancel(c) PROVE IInv'
  BY <1>3, DecideKeeps
<1>4. ASSUME NEW exp \in SUBSET ServerSlot, Tick(exp) PROVE IInv'
  BY <1>4, TickKeeps
<1>5. ASSUME NEW p \in Point, CancelFrom(p) PROVE IInv'
  <2>1. slot' = [i \in ServerSlot |-> IF i \in {j \in Active : slot[j].point = p}
                                     THEN Freed(slot[i]) ELSE slot[i]]
    BY <1>5 DEF CancelFrom
  <2>2. calls' = calls /\ attached' = attached /\ puts' = puts /\ toClient' = toClient
    BY <1>5 DEF CancelFrom
  <2> QED
    BY <1>0, <2>1, <2>2, FreeKeeps DEF IInv, TypeOK
<1>6. ASSUME CancelAll PROVE IInv'
  <2>1. calls' = calls /\ attached' = attached /\ puts' = puts /\ toClient' = toClient
    BY <1>6 DEF CancelAll
  <2> QED
    BY <1>0, <1>6, <2>1, FreeKeeps DEF CancelAll, IInv, TypeOK
<1>7. ASSUME Attach \/ Detach \/ UNCHANGED vars PROVE IInv'
  <2>1. /\ slot' = slot /\ calls' = calls /\ puts' = puts /\ toClient' = toClient
        /\ attached' \in BOOLEAN
    BY <1>0, <1>7 DEF Attach, Detach, vars
  <2> QED
    BY <1>0, <2>1, SameKeeps DEF IInv, TypeOK
<1> QED
  BY <1>1, <1>2, <1>3, <1>4, <1>5, <1>6, <1>7 DEF Next, Own

LEMMA IInvAlways == Spec => []IInv
<1> QED
  BY IInvInit, IInvStep, PTL DEF Spec

-----------------------------------------------------------------------------
\* Every variable of the engine keeps its type, the retries of tick() among
\* them, that count down from MaxRetries and must stop at 0.
THEOREM TypeCorrect == Spec => []TypeOK
<1>1. IInv => TypeOK
  BY DEF IInv
<1> QED
  BY <1>1, IInvAlways, PTL

\* However packets come, active_tree holds a transaction once.
THEOREM KeysAreUnique == Spec => []UniqueKey
<1>1. IInv => UniqueKey
  BY DEF IInv, SlotInv
<1> QED
  BY <1>1, IInvAlways, PTL

\* A slot that waits for the ServerProc waits for a call the ServerProc has.
THEOREM PendingIsCalled == Spec => []PendingWasCalled
<1>1. IInv => PendingWasCalled
  BY DEF IInv, SlotInv
<1> QED
  BY <1>1, IInvAlways, PTL

\* The index in send_info() keeps late answers from the slot's next
\* transaction, however often the slot is used again.
THEOREM AnswersAreOwn == Spec => []AnswerIsOwn
<1>1. IInv => AnswerIsOwn
  BY DEF IInv, SlotInv
<1> QED
  BY <1>1, IInvAlways, PTL

\* A slot that has decided always has its timer running.
THEOREM DecidedAreTimed == Spec => []DecidedHasTimer
<1>1. IInv => DecidedHasTimer
  BY DEF IInv, SlotInv
<1> QED
  BY <1>1, IInvAlways, PTL

\* What an active slot has decided, no step changes: packets and ticks leave
\* it as it is or free it, and a second answer is not awaited.
THEOREM DecisionStays == Spec => DecisionIsFinal
<1> DEFINE Stays == \A i \in Active :
                      slot'[i].active /\ slot'[i].index = slot[i].index /\ slot[i].state # "pending"
                        => slot'[i].state = slot[i].state /\ slot'[i].ans = slot[i].ans
<1>1. IInv /\ [Next]_vars => [Stays]_vars
  <2> SUFFICES ASSUME IInv, Next PROVE Stays
    BY DEF vars
  <2> SUFFICES ASSUME NEW i \in ServerSlot, slot[i].active, slot[i].state # "pending"
               PROVE  \/ ~slot'[i].active
                      \/ slot'[i].state = slot[i].state /\ slot'[i].ans = slot[i].ans
    BY DEF Active
  <2>0. slot \in [ServerSlot -> SlotType] /\ slot[i] \in SlotType
    BY DEF IInv, TypeOK
  <2>1. CASE \E j \in ServerSlot, p \in Point, pk \in InboundPacket : j \notin Active /\ Start(j, p, pk)
    <3>1. PICK j \in ServerSlot : j # i /\ \E p \in Point, pk \in InboundPacket : Start(j, p, pk)
      BY <2>1 DEF Active
    <3>2. slot'[i] = slot[i]
      BY <2>0, <3>1 DEF Start, Started
    <3> QED
      BY <3>2
  <2>2. CASE slot'[i] = slot[i] \/ slot'[i] = Freed(slot[i]) \/ slot'[i] = [slot[i] EXCEPT !.retry = @ - 1]
    BY <2>0, <2>2, FreedType DEF SlotType
  <2>3. ASSUME NEW p \in Point, NEW pk \in InboundPacket, Inbound(p, pk) \/ InboundMalformed(p, pk)
        PROVE  \/ \E j \in ServerSlot : j \notin Active /\ Start(j, p, pk)
               \/ slot'[i] = slot[i] \/ slot'[i] = Freed(slot[i])
    <3>1. \/ InboundCALL(p, pk) \/ InboundRECALL(p, pk) \/ InboundACK(p, pk) \/ InboundSENDRET(p, pk)
          \/ slot' = slot
      BY <2>3 DEF Inbound, InboundMalformed
    <3>2. CASE InboundCALL(p, pk) \/ InboundRECALL(p, pk) \/ InboundSENDRET(p, pk)
      BY <3>2 DEF InboundCALL, InboundRECALL, InboundSENDRET
    <3>3. CASE InboundACK(p, pk)
      BY <3>3 DEF InboundACK
    <3> QED
      BY <3>1, <3>2, <3>3
  <2>4. ASSUME NEW c \in calls, SendInfo(c) \/ SendCancel(c) PROVE slot'[i] = slot[i]
    <3>1. c.slot # i
      BY <2>4 DEF SendInfo, SendCancel, Awaits
    <3> QED
      BY <2>0, <2>4, <3>1 DEF SendInfo, SendCancel
  <2>5. ASSUME NEW exp \in SUBSET ServerSlot, Tick(exp)
        PROVE  slot'[i] = slot[i] \/ slot'[i] = Freed(slot[i]) \/ slot'[i] = [slot[i] EXCEPT !.retry = @ - 1]
    BY <2>5 DEF Tick
  <2>6. ASSUME NEW p \in Point, CancelFrom(p) PROVE slot'[i] = slot[i] \/ slot'[i] = Freed(slot[i])
    BY <2>6 DEF CancelFrom
  <2>7. ASSUME CancelAll PROVE slot'[i] = slot[i] \/ slot'[i] = Freed(slot[i])
    BY <2>7 DEF CancelAll
  <2>8. ASSUME Attach \/ Detach PROVE slot'[i] = slot[i]
    BY <2>8 DEF Attach, Detach
  <2> QED
    BY <2>1, <2>2, <2>3, <2>4, <2>5, <2>6, <2>7, <2>8 DEF Next, Own
<1> QED
  BY <1>1, IInvAlways, PTL DEF Spec, DecisionIsFinal

\* The packets of one point only touch its own slots, and free ones.
THEOREM PointsAreIsolated == Spec => PointsIsolated
<1> DEFINE Isolated == \A p \in Point, pk \in InboundPacket : Inbound(p, pk) =>
                         \A i \in Active : slot[i].point # p => slot'[i] = slot[i]
<1>1. IInv => Isolated
  <2> SUFFICES ASSUME IInv, NEW p \in Point, NEW pk \in InboundPacket, Inbound(p, pk),
                      NEW i \in ServerSlot, slot[i].active, slot[i].point # p
               PROVE  slot'[i] = slot[i]
    BY DEF Active
  <2>0. slot \in [ServerSlot -> SlotType]
    BY DEF IInv, TypeOK
  <2>1. ASSUME NEW j \in ServerSlot \ Active, Start(j, p, pk) PROVE slot'[i] = slot[i]
    <3>1. j # i
      BY <2>1 DEF Active
    <3> QED
      BY <2>0, <2>1, <3>1 DEF Start, Started
  <2>2. CASE InboundCALL(p, pk) \/ InboundRECALL(p, pk)
    BY <2>1, <2>2 DEF InboundCALL, InboundRECALL
  <2>3. CASE InboundACK(p, pk)
    <3>1. i \notin Found(p, pk)
      BY DEF Found
    <3> QED
      BY <2>0, <2>3, <3>1 DEF InboundACK
  <2>4. CASE InboundSENDRET(p, pk)
    BY <2>4 DEF InboundSENDRET
  <2> QED
    BY <2>2, <2>3, <2>4 DEF Inbound
<1> QED
  BY <1>1, IInvAlways, PTL DEF PointsIsolated

-----------------------------------------------------------------------------
\* What a step may make of the slots and the calls, and what the packets it
\* sends are about.

\* A slot that is ready has its answer from the ServerProc.
ReadyWasCalled == \A i \in Active : slot[i].state = "ready" => CallOf(i) \in calls

\* A RET answers a call of its own client and transaction.
AnswersSent == \A q \in Watched : \A m \in toClient[q] :
                 m.type = "RET" => m.ans \in calls /\ m.ans.point = q /\ m.ans.tid = m.tid

AnswerInv == IInv /\ ReadyWasCalled /\ AnswersSent

\* Slot i goes on with its transaction, if it is not freed.
GoesOn(i) == slot'[i].active =>
               /\ slot[i].active
               /\ slot'[i].point = slot[i].point /\ slot'[i].tid = slot[i].tid
               /\ slot'[i].cslot = slot[i].cslot /\ slot'[i].info = slot[i].info
               /\ slot'[i].index = slot[i].index
               /\ slot'[i].state = slot[i].state \/ slot[i].state = "pending"

\* Slot i takes the transaction that the packet pk of p asks for.
Takes(i, p, pk) == /\ ~slot[i].active /\ slot'[i].active
                   /\ InTree(p, pk.tid) = {} /\ pk.type \in {"CALL", "RECALL"}
                   /\ slot'[i].point = p /\ slot'[i].tid = pk.tid
                   /\ slot'[i].cslot = pk.cslot /\ slot'[i].info = pk.info
                   /\ slot'[i].index = slot[i].index + 1 /\ slot'[i].state # "ready"

\* The packet m for q is about the transaction in slot i.
WordOf(m, i, q) == /\ i \in Active /\ slot[i].point = q
                   /\ m.tid = slot[i].tid /\ m.cslot = slot[i].cslot
                   /\ m.type = "RET" => m.ans = CallOf(i) /\ m.ans \in calls

\* What the packet pk of p does ...
Heard(p, pk) ==
  /\ \A i \in ServerSlot : GoesOn(i) \/ Takes(i, p, pk)
  /\ \A i \in Active : ~slot'[i].active => pk.type = "ACK" /\ slot[i].tid = pk.tid
  /\ \/ calls' = calls
     \/ \E i \in ServerSlot : Takes(i, p, pk) /\ calls' = calls \cup {CallOf(i)'}
  /\ \A q \in Watched : \A m \in toClient'[q] \ toClient[q] :
       \/ \E i \in ServerSlot : WordOf(m, i, q)
       \/ m.tid = pk.tid /\ m.cslot = pk.cslot /\ m.type # "RET"

\* ... and what the ServerProc, a tick or a closing connection does.
Done == /\ calls' = calls
        /\ \A i \in ServerSlot : GoesOn(i)
        /\ \A q \in Watched : \A m \in toClient'[q] \ toClient[q] : \E i \in ServerSlot : WordOf(m, i, q)

LEMMA SentIsNew ==
  ASSUME NEW sent, Send(sent), NEW q \in Watched, NEW m \in toClient'[q] \ toClient[q]
  PROVE  \E x \in sent : x[1] = q /\ x[2] = m
BY DEF Send

LEMMA ReplyIsWord ==
  ASSUME NEW i \in Active, NEW type \in {"CANCEL", "RERET", "NOINFO"}
  PROVE  WordOf(Reply(type, i)[2], i, slot[i].point) /\ Reply(type, i)[1] = slot[i].point
BY DEF WordOf, Reply, Control

LEMMA RetIsWord ==
  ASSUME NEW i \in Active, NEW a, a = CallOf(i), a \in calls
  PROVE  WordOf(Ret(i, a)[2], i, slot[i].point) /\ Ret(i, a)[1] = slot[i].point
BY DEF WordOf, Ret

\* What a slot that is ready answers again.
LEMMA ReadyIsWord ==
  ASSUME IInv, ReadyWasCalled, NEW i \in Active, slot[i].state = "ready"
  PROVE  WordOf(Ret(i, slot[i].ans)[2], i, slot[i].point) /\ Ret(i, slot[i].ans)[1] = slot[i].point
<1>1. slot[i].ans = CallOf(i) /\ CallOf(i) \in calls
  BY DEF IInv, SlotInv, AnswerIsOwn, ReadyWasCalled
<1> QED
  BY <1>1, RetIsWord

\* Slots that stay as they are or are freed go on.
LEMMA SameGoesOn ==
  ASSUME NEW i \in ServerSlot, slot[i] \in SlotType, slot'[i] = slot[i] \/ slot'[i] = Freed(slot[i])
  PROVE  GoesOn(i)
BY FreedType DEF GoesOn

\* A start.
LEMMA StartDoes ==
  ASSUME IInv, NEW p \in Point, NEW pk \in CallPacket, NEW i \in ServerSlot \ Active,
         InTree(p, pk.tid) = {}, Start(i, p, pk)
  PROVE  Heard(p, pk)
<1> DEFINE state == IF attached THEN "pending" ELSE "cancelled"
<1>0. slot \in [ServerSlot -> SlotType] /\ ~slot[i].active /\ pk.type \in {"CALL", "RECALL"}
  BY DEF IInv, TypeOK, Active, CallPacket
<1>1. Started(i, p, pk, state)
  BY DEF Start
<1>2. /\ \A j \in ServerSlot : j # i => slot'[j] = slot[j]
      /\ slot'[i] = [active |-> TRUE, point |-> p, tid |-> pk.tid, cslot |-> pk.cslot,
                     info |-> pk.info, state |-> state, index |-> slot[i].index + 1,
                     timer |-> (state = "cancelled"), retry |-> MaxRetries, ans |-> NoAnswer]
  BY <1>0, <1>1 DEF Started
<1>3. Takes(i, p, pk)
  BY <1>0, <1>2 DEF Takes
<1>4. \A j \in ServerSlot : j # i => GoesOn(j)
  BY <1>0, <1>2, SameGoesOn
<1>5. \A j \in Active : slot'[j].active
  BY <1>2 DEF Active
<1>6. CallOf(i)' = [slot |-> i, index |-> slot[i].index + 1, point |-> p, tid |-> pk.tid, info |-> pk.info]
  BY <1>2 DEF CallOf
<1>7. calls' = calls \/ calls' = calls \cup {CallOf(i)'}
  BY <1>6 DEF Start
<1>8. ASSUME NEW q \in Watched, NEW m \in toClient'[q] \ toClient[q]
      PROVE  m.tid = pk.tid /\ m.cslot = pk.cslot /\ m.type # "RET"
  <2>1. Send({<<p, Control("CANCEL", pk.tid, pk.cslot, i)>>})
    BY <1>8 DEF Start
  <2>2. m = Control("CANCEL", pk.tid, pk.cslot, i)
    BY <1>8, <2>1, SentIsNew
  <2> QED
    BY <2>2 DEF Control
<1> QED
  BY <1>3, <1>4, <1>5, <1>7, <1>8 DEF Heard

LEMMA InboundDoes ==
  ASSUME IInv, ReadyWasCalled, NEW p \in Point, NEW pk \in InboundPacket,
         InboundCALL(p, pk) \/ InboundRECALL(p, pk) \/ InboundACK(p, pk) \/ InboundSENDRET(p, pk)
  PROVE  Heard(p, pk)
<1>0. slot \in [ServerSlot -> SlotType]
  BY DEF IInv, TypeOK
<1>1. ASSUME slot' = slot, calls' = calls,
             \A q \in Watched : \A m \in toClient'[q] \ toClient[q] :
               \/ \E i \in ServerSlot : WordOf(m, i, q)
               \/ m.tid = pk.tid /\ m.cslot = pk.cslot /\ m.type # "RET"
      PROVE  Heard(p, pk)
  BY <1>0, <1>1, SameGoesOn DEF Heard, Active
<1>2. CASE InboundCALL(p, pk)
  <2>1. pk \in CallPacket
    BY <1>2 DEF InboundCALL, InboundPacket, CallPacket, ControlPacket
  <2>2. CASE InTree(p, pk.tid) = {} /\ \E i \in ServerSlot \ Active : Start(i, p, pk)
    BY <2>1, <2>2, StartDoes
  <2>3. CASE UNCHANGED <<slot, calls, toClient>>
    BY <1>1, <2>3
  <2> QED
    BY <1>2, <2>2, <2>3 DEF InboundCALL
<1>3. CASE InboundRECALL(p, pk)
  <2>1. pk \in CallPacket
    BY <1>3 DEF InboundRECALL, InboundPacket, CallPacket, ControlPacket
  <2>2. CASE InTree(p, pk.tid) = {} /\ \E i \in ServerSlot \ Active : Start(i, p, pk)
    BY <2>1, <2>2, StartDoes
  <2>3. CASE UNCHANGED <<slot, calls, toClient>>
    BY <1>1, <2>3
  <2>4. ASSUME NEW i \in InTree(p, pk.tid), Send(Recalled(i, pk.cslot)), UNCHANGED <<slot, calls>>
        PROVE  Heard(p, pk)
    <3>1. i \in ServerSlot /\ i \in Active /\ slot[i].state \in {"pending", "ready", "cancelled"}
      BY <1>0 DEF InTree, Active, SlotType
    <3>2. ASSUME NEW x \in Recalled(i, pk.cslot) PROVE WordOf(x[2], i, x[1])
      <4>1. CASE slot[i].state = "pending"
        BY <3>1, <3>2, <4>1, ReplyIsWord DEF Recalled
      <4>2. CASE slot[i].state = "ready"
        BY <3>1, <3>2, <4>2, ReadyIsWord DEF Recalled
      <4>3. CASE slot[i].state = "cancelled"
        BY <3>1, <3>2, <4>3, ReplyIsWord DEF Recalled
      <4> QED
        BY <3>1, <4>1, <4>2, <4>3
    <3>3. \A q \in Watched : \A m \in toClient'[q] \ toClient[q] : WordOf(m, i, q)
      BY <2>4, <3>2, SentIsNew
    <3> QED
      BY <1>1, <2>4, <3>1, <3>3
  <2> QED
    BY <1>3, <2>2, <2>3, <2>4 DEF InboundRECALL
<1>4. CASE InboundACK(p, pk)
  <2>1. /\ slot' = [i \in ServerSlot |-> IF i \in Found(p, pk) THEN Freed(slot[i]) ELSE slot[i]]
        /\ calls' = calls /\ toClient' = toClient /\ pk.type = "ACK"
    BY <1>4 DEF InboundACK
  <2>2. \A i \in ServerSlot : GoesOn(i)
    BY <1>0, <2>1, SameGoesOn
  <2>3. \A i \in Active : ~slot'[i].active => slot[i].tid = pk.tid
    BY <2>1 DEF Active, Found
  <2> QED
    BY <2>1, <2>2, <2>3 DEF Heard
<1>5. CASE InboundSENDRET(p, pk)
  <2> DEFINE asked == {i \in Found(p, pk) : slot[i].state # "pending"}
             word(i) == IF slot[i].state = "ready" THEN Ret(i, slot[i].ans) ELSE Reply("CANCEL", i)
  <2>1. Send(IF Found(p, pk) = {} THEN {<<p, Control("CANCEL", pk.tid, pk.cslot, pk.sslot)>>}
             ELSE {word(i) : i \in asked})
    BY <1>5 DEF InboundSENDRET
  <2>2. slot' = slot /\ calls' = calls
    BY <1>5 DEF InboundSENDRET
  <2>3. ASSUME NEW i \in asked PROVE i \in ServerSlot /\ WordOf(word(i)[2], i, word(i)[1])
    <3>1. i \in ServerSlot /\ i \in Active
      BY DEF Found, Active
    <3>2. CASE slot[i].state = "ready"
      BY <3>1, <3>2, ReadyIsWord
    <3>3. CASE slot[i].state # "ready"
      BY <3>1, <3>3, ReplyIsWord
    <3> QED
      BY <3>1, <3>2, <3>3
  <2> HIDE DEF word, asked
  <2>4. CASE Found(p, pk) = {}
    <3>1. ASSUME NEW q \in Watched, NEW m \in toClient'[q] \ toClient[q]
          PROVE  m.tid = pk.tid /\ m.cslot = pk.cslot /\ m.type # "RET"
      <4>1. m = Control("CANCEL", pk.tid, pk.cslot, pk.sslot)
        BY <2>1, <2>4, <3>1, SentIsNew
      <4> QED
        BY <4>1 DEF Control
    <3> QED
      BY <1>1, <2>2, <3>1
  <2>5. CASE Found(p, pk) # {}
    <3>1. Send({word(i) : i \in asked})
      BY <2>1, <2>5
    <3>2. \A q \in Watched : \A m \in toClient'[q] \ toClient[q] : \E i \in ServerSlot : WordOf(m, i, q)
      <4> SUFFICES ASSUME NEW q \in Watched, NEW m \in toClient'[q] \ toClient[q]
                   PROVE  \E i \in ServerSlot : WordOf(m, i, q)
        OBVIOUS
      <4>1. PICK x \in {word(i) : i \in asked} : x[1] = q /\ x[2] = m
        BY <3>1, SentIsNew
      <4>2. PICK i \in asked : x = word(i)
        BY <4>1
      <4> QED
        BY <2>3, <4>1, <4>2
    <3> QED
      BY <1>1, <2>2, <3>2
  <2> QED
    BY <2>4, <2>5
<1> QED
  BY <1>2, <1>3, <1>4, <1>5

LEMMA DecideDoes ==
  ASSUME IInv, NEW c \in calls, SendInfo(c) \/ SendCancel(c)
  PROVE  Done
<1> DEFINE i == c.slot
<1>0. /\ slot \in [ServerSlot -> SlotType] /\ calls' = calls /\ c \in Call
      /\ i \in ServerSlot /\ i \in Active /\ slot[i].state = "pending" /\ slot[i].index = c.index
  BY DEF IInv, TypeOK, Call, SendInfo, SendCancel, Awaits, Active
<1>1. c = CallOf(i)
  BY <1>0 DEF IInv, SlotInv, CallIsCurrent, Active
<1>2. \A j \in ServerSlot : GoesOn(j)
  <2>1. \A j \in ServerSlot : j # i => slot'[j] = slot[j]
    BY <1>0 DEF SendInfo, SendCancel
  <2>2. \/ slot'[i] = [slot[i] EXCEPT !.state = "ready", !.timer = TRUE, !.ans = c]
        \/ slot'[i] = [slot[i] EXCEPT !.state = "cancelled", !.timer = TRUE]
    BY <1>0 DEF SendInfo, SendCancel
  <2>3. slot[i] \in SlotType
    BY <1>0
  <2>4. GoesOn(i)
    BY <1>0, <2>2, <2>3 DEF GoesOn, SlotType, Active
  <2> QED
    BY <1>0, <2>1, <2>4, SameGoesOn
<1>3. Send({Ret(i, c)}) \/ Send({Reply("CANCEL", i)})
  BY DEF SendInfo, SendCancel
<1>4. /\ WordOf(Ret(i, c)[2], i, Ret(i, c)[1])
      /\ WordOf(Reply("CANCEL", i)[2], i, Reply("CANCEL", i)[1])
  BY <1>0, <1>1, RetIsWord, ReplyIsWord
<1> HIDE DEF i
<1>5. \A q \in Watched : \A m \in toClient'[q] \ toClient[q] : WordOf(m, i, q)
  BY <1>3, <1>4, SentIsNew
<1> QED
  BY <1>0, <1>2, <1>5 DEF Done

LEMMA OwnDoes ==
  ASSUME IInv, Own
  PROVE  Done
<1>0. slot \in [ServerSlot -> SlotType]
  BY DEF IInv, TypeOK
<1>1. ASSUME calls' = calls, toClient' = toClient,
             \A i \in ServerSlot : slot'[i] = slot[i] \/ slot'[i] = Freed(slot[i])
      PROVE  Done
  BY <1>0, <1>1, SameGoesOn DEF Done
<1>2. CASE \E c \in calls : SendInfo(c) \/ SendCancel(c)
  BY <1>2, DecideDoes
<1>3. ASSUME NEW exp \in SUBSET ServerSlot, Tick(exp) PROVE Done
  <2> DEFINE again == {i \in exp : slot[i].retry > 0}
  <2>1. /\ slot' = [i \in ServerSlot |-> IF i \in again THEN [slot[i] EXCEPT !.retry = @ - 1]
                                         ELSE IF i \in exp THEN Freed(slot[i]) ELSE slot[i]]
        /\ Send({Reply("RERET", i) : i \in again}) /\ calls' = calls
        /\ again \subseteq Active
    BY <1>3 DEF Tick, Active
  <2> HIDE DEF again
  <2>2. ASSUME NEW i \in ServerSlot PROVE GoesOn(i)
    <3>1. CASE i \in again
      <4>1. slot'[i] = [slot[i] EXCEPT !.retry = @ - 1] /\ slot[i] \in SlotType
        BY <1>0, <2>1, <3>1
      <4> QED
        BY <2>1, <3>1, <4>1 DEF GoesOn, SlotType, Active
    <3>2. CASE i \notin again
      BY <1>0, <2>1, <3>2, SameGoesOn
    <3> QED
      BY <3>1, <3>2
  <2>3. ASSUME NEW q \in Watched, NEW m \in toClient'[q] \ toClient[q]
        PROVE  \E i \in ServerSlot : WordOf(m, i, q)
    <3>1. PICK x \in {Reply("RERET", i) : i \in again} : x[1] = q /\ x[2] = m
      BY <2>1, <2>3, SentIsNew
    <3>2. PICK i \in again : x = Reply("RERET", i)
      BY <3>1
    <3>3. i \in ServerSlot /\ WordOf(Reply("RERET", i)[2], i, Reply("RERET", i)[1])
      BY <2>1, <3>2, ReplyIsWord DEF Active
    <3> QED
      BY <3>1, <3>2, <3>3
  <2> QED
    BY <2>1, <2>2, <2>3 DEF Done
<1>4. CASE (\E p \in Point : CancelFrom(p)) \/ CancelAll
  BY <1>1, <1>4 DEF CancelFrom, CancelAll
<1>5. CASE Attach \/ Detach
  BY <1>1, <1>5 DEF Attach, Detach
<1> QED
  BY <1>2, <1>3, <1>4, <1>5 DEF Own

\* So every answer that leaves is an answer to a call of its transaction.
LEMMA AnswersKept ==
  ASSUME AnswerInv, IInv', \/ \E p \in Point, pk \in InboundPacket : Heard(p, pk)
                           \/ Done
  PROVE  AnswerInv'
<1>1. calls \subseteq calls'
  BY DEF Heard, Done
<1>2. \A i \in ServerSlot : GoesOn(i) \/ \E p \in Point, pk \in InboundPacket : Takes(i, p, pk)
  BY DEF Heard, Done
<1>3. ReadyWasCalled'
  <2> SUFFICES ASSUME NEW i \in ServerSlot, slot'[i].active, slot'[i].state = "ready"
               PROVE  CallOf(i)' \in calls'
    BY DEF ReadyWasCalled, Active
  <2>1. GoesOn(i)
    BY <1>2 DEF Takes
  <2>2. /\ i \in Active /\ slot[i].state \in {"ready", "pending"}
        /\ CallOf(i)' = CallOf(i)
    BY <2>1 DEF GoesOn, Active, CallOf
  <2> QED
    BY <1>1, <2>2 DEF AnswerInv, ReadyWasCalled, IInv, SlotInv, PendingWasCalled
<1>4. ASSUME NEW q \in Watched, NEW m \in toClient'[q], m.type = "RET"
      PROVE  m.ans \in calls' /\ m.ans.point = q /\ m.ans.tid = m.tid
  <2>1. CASE m \in toClient[q]
    BY <1>1, <1>4, <2>1 DEF AnswerInv, AnswersSent
  <2>2. CASE m \notin toClient[q]
    <3>1. PICK i \in ServerSlot : WordOf(m, i, q)
      BY <1>4, <2>2 DEF Heard, Done
    <3> QED
      BY <1>1, <1>4, <3>1 DEF WordOf, CallOf
  <2> QED
    BY <2>1, <2>2
<1> QED
  BY <1>3, <1>4 DEF AnswerInv, AnswersSent

LEMMA AnswerInvInit == Init => AnswerInv
BY IInvInit DEF Init, AnswerInv, ReadyWasCalled, AnswersSent, Active, Blank

LEMMA AnswerInvStep == AnswerInv /\ [Next]_vars => AnswerInv'
<1> SUFFICES ASSUME AnswerInv, [Next]_vars PROVE AnswerInv'
  OBVIOUS
<1>1. IInv'
  BY IInvStep DEF AnswerInv
<1>2. ASSUME slot' = slot, calls' = calls, toClient' = toClient PROVE AnswerInv'
  BY <1>1, <1>2 DEF AnswerInv, ReadyWasCalled, AnswersSent, Active, CallOf
<1>3. ASSUME NEW p \in Point, NEW pk \in InboundPacket, Inbound(p, pk) \/ InboundMalformed(p, pk)
      PROVE  AnswerInv'
  <2>1. \/ InboundCALL(p, pk) \/ InboundRECALL(p, pk) \/ InboundACK(p, pk) \/ InboundSENDRET(p, pk)
        \/ slot' = slot /\ calls' = calls /\ toClient' = toClient
    BY <1>3 DEF Inbound, InboundMalformed
  <2> QED
    BY <1>1, <1>2, <2>1, InboundDoes, AnswersKept DEF AnswerInv
<1>4. CASE Own
  BY <1>1, <1>4, OwnDoes, AnswersKept DEF AnswerInv
<1>5. CASE UNCHANGED vars
  BY <1>2, <1>5 DEF vars
<1> QED
  BY <1>3, <1>4, <1>5 DEF Next

\* A RET carries the answer that the ServerProc gave to a call of the same
\* client and the same transaction, whenever it was sent and however late.
THEOREM AnswersAreOfTheirCall == Spec => []AnswersSent
<1>1. AnswerInv => AnswersSent
  BY DEF AnswerInv
<1> QED
  BY <1>1, AnswerInvInit, AnswerInvStep, PTL DEF Spec
=============================================================================
