----------------------------- MODULE PTP_proofs -----------------------------
(***************************************************************************)
(* PTP, for all sets of transactions and slots and any number of retries:  *)
(* however packets are lost, repeated and reordered, a request is executed *)
(* once while its client waits, and PTP implements a remote call.          *)
(*                                                                         *)
(* The proof joins what PTPClient_proofs says of the packets the client    *)
(* sends to what PTPServer_proofs says of what the server makes of them.   *)
(***************************************************************************)
EXTENDS PTP, TLAPS

\* Of PTPClient_proofs the engine; the console there is not part of this.
CP == INSTANCE PTPClient_proofs
        WITH Answer <- S!Call, MaxRetries <- ClientRetries,
             Recorded <- {"CALL", "RECALL", "ACK", "SENDRET"},
             Write <- {}, Task <- {}, MaxOpens <- 0, MaxCalls <- 0, NumMod <- 4, write_ticks <- 0,
             ConFrames <- 1, WriterFrames <- 1, MaxLead <- 0, MaxLate <- 0,
             part <- "Engine", c_opened <- FALSE, con_id <- 0, write_number <- 0,
             list <- << >>, list_count <- 0, packet_count <- 0, status <- << >>, sent <- << >>,
             pc <- << >>, at <- << >>, owner <- 0, opens <- 0, calls <- {},
             is_opened <- FALSE, server_id <- 0, writer <- 0, last <- 0, skipped <- FALSE, shown <- {},
             w_opened <- FALSE, w_writer <- 0, w_last <- 0, w_skipped <- FALSE

SP == INSTANCE PTPServer_proofs
        WITH Point <- {Me}, TransId <- Trans, Info <- Trans, Watched <- {Me},
             MaxRetries <- ServerRetries, Malformed <- {}

\* Transaction t was started in the client's slot s.
Known(t, s) == trans[t].state \in {"Active", "Completed"} /\ trans[t].slot = s

\* What the server has to do with a transaction, it was told by its client.
ServerKnows ==
  /\ \A m \in toClient[Me] : Known(m.tid, m.cslot)
  /\ \A i \in SP!Active : Known(slot[i].tid, slot[i].cslot) /\ slot[i].info = slot[i].tid
  /\ \A c \in calls : trans[c.tid].state \in {"Active", "Completed"} /\ c.info = c.tid

\* A call whose client waits for the answer is still in its slot.
CallIsServed ==
  \A c \in calls : trans[c.tid].state = "Active" /\ c.tid \notin forsaken
                     => slot[c.slot].active /\ slot[c.slot].index = c.index

PInv == /\ CP!IInv /\ SP!AnswerInv /\ forsaken \subseteq Trans
        /\ CP!AllSay(toServer, trans)
        /\ ServerKnows /\ CallIsServed

-----------------------------------------------------------------------------
\* The two engines of PTP are those of the theorems.
LEMMA ClientConstants ==
  /\ ClientRetries \in Nat /\ Long \subseteq Trans /\ CP!IsFiniteSet(ClientSlot)
  /\ Trans # {} /\ ClientSlot # {} /\ ServerSlot # {}
BY NumberAssumption DEF IsFiniteSet, CP!IsFiniteSet

\* PTP has no console: the module of the client's theorems gets an empty one.
LEMMA ConsoleConstants ==
  /\ CP!IsFiniteSet({}) /\ CP!IsFiniteSet({})
  /\ {0, 0, 4, 0, 0, 0} \subseteq Nat
  /\ {1, 1} \subseteq Nat \ {0}
  /\ \A n \in {1, 1} : 4 * n <= 4
  /\ 0 + 2 <= 4 \div 2 /\ 0 <= 4 - 4 \div 2
<1>1. CP!IsFiniteSet({})
  <2>1. << >> \in Seq({}) /\ \A s \in {} : \E n \in 1..Len(<< >>) : << >>[n] = s
    OBVIOUS
  <2> QED
    BY <2>1 DEF CP!IsFiniteSet
<1>2. 4 \div 2 = 2
  OBVIOUS
<1> QED
  BY <1>1, <1>2

LEMMA ServerConstants ==
  /\ {Me} # {} /\ Trans # {} /\ ClientSlot # {} /\ Trans # {}
  /\ ServerRetries \in Nat
  /\ MaxIndex \in Nat
  /\ {Me} \subseteq {Me}
  /\ {} \subseteq {"CALL", "RECALL", "ACK", "SENDRET"}
BY NumberAssumption

LEMMA ClientInit == C!Init => CP!Init
BY DEF C!Init, CP!Init, C!NewTrans, CP!NewTrans, C!NewSlot, CP!NewSlot

LEMMA ServerInit == S!Init => SP!Init
BY DEF S!Init, SP!Init, S!Blank, SP!Blank

LEMMA ClientPump ==
  ASSUME NEW tr, NEW cs, NEW q, NEW sent
  PROVE  C!Pump(tr, cs, q, sent) <=> CP!Pump(tr, cs, q, sent)
BY Zenon DEF C!Pump, CP!Pump, C!CompleteError, CP!CompleteError, C!ClearCancel, CP!ClearCancel,
             C!Started, CP!Started, C!Sent, CP!Sent, C!CallFrom, CP!CallFrom,
             C!Cardinality, CP!Cardinality

LEMMA ClientOwn == C!Own => CP!Own
<1>1. ASSUME NEW t \in Trans PROVE C!Start(t) => CP!Start(t)
  BY ClientPump DEF C!Start, CP!Start
<1>2. ASSUME NEW t \in Trans PROVE C!Cancel(t) => CP!Cancel(t)
  BY DEF C!Cancel, CP!Cancel
<1>3. ASSUME NEW t \in Trans PROVE C!Abort(t) => CP!Abort(t)
  BY DEF C!Abort, CP!Abort, C!Without, CP!Without, C!Freed, CP!Freed
<1>4. ASSUME NEW exp \in SUBSET ClientSlot PROVE C!Tick(exp) => CP!Tick(exp)
  BY ClientPump DEF C!Tick, CP!Tick, C!CompleteError, CP!CompleteError, C!ClearCancel, CP!ClearCancel,
         C!Retry, CP!Retry, C!Control, CP!Control, C!CallFrom, CP!CallFrom
<1>5. C!AbortAll => CP!AbortAll
  BY DEF C!AbortAll, CP!AbortAll, C!CompleteError, CP!CompleteError, C!ClearCancel, CP!ClearCancel
<1> QED
  BY <1>1, <1>2, <1>3, <1>4, <1>5 DEF C!Own, CP!Own

LEMMA ClientInbound == ASSUME NEW pk PROVE C!Inbound(pk) => CP!Inbound(pk)
<1>1. C!InboundEnd(pk) => CP!InboundEnd(pk)
  BY ClientPump DEF C!InboundEnd, CP!InboundEnd, C!Found, CP!Found, C!Freed, CP!Freed,
         C!CompleteInfo, CP!CompleteInfo, C!CompleteError, CP!CompleteError,
         C!ClearCancel, CP!ClearCancel, C!Control, CP!Control
<1>2. C!InboundAsk(pk) => CP!InboundAsk(pk)
  BY ClientPump DEF C!InboundAsk, CP!InboundAsk, C!Found, CP!Found, C!Control, CP!Control
<1> QED
  BY <1>1, <1>2 DEF C!Inbound, CP!Inbound

LEMMA ServerInbound == ASSUME NEW pk PROVE S!Inbound(Me, pk) => SP!Inbound(Me, pk)
<1> USE DEF S!Active, SP!Active, S!InTree, SP!InTree, S!Send, SP!Send, S!Control, SP!Control,
            S!Reply, SP!Reply, S!Ret, SP!Ret, S!Found, SP!Found, S!Freed, SP!Freed
<1>1. ASSUME NEW i PROVE S!Start(i, Me, pk) <=> SP!Start(i, Me, pk)
  BY DEF S!Start, SP!Start, S!Started, SP!Started
<1>2. S!InboundCALL(Me, pk) => SP!InboundCALL(Me, pk)
  BY <1>1 DEF S!InboundCALL, SP!InboundCALL
<1>3. S!InboundRECALL(Me, pk) => SP!InboundRECALL(Me, pk)
  BY <1>1 DEF S!InboundRECALL, SP!InboundRECALL, S!Recalled, SP!Recalled
<1>4. S!InboundACK(Me, pk) => SP!InboundACK(Me, pk)
  BY DEF S!InboundACK, SP!InboundACK
<1>5. S!InboundSENDRET(Me, pk) => SP!InboundSENDRET(Me, pk)
  BY DEF S!InboundSENDRET, SP!InboundSENDRET
<1> QED
  BY <1>2, <1>3, <1>4, <1>5 DEF S!Inbound, SP!Inbound

LEMMA ServerOwnSame == S!Own => SP!Own
<1> USE DEF S!Active, SP!Active, S!Send, SP!Send, S!Control, SP!Control,
            S!Reply, SP!Reply, S!Ret, SP!Ret, S!Freed, SP!Freed
<1>1. ASSUME NEW c PROVE S!SendInfo(c) => SP!SendInfo(c)
  BY DEF S!SendInfo, SP!SendInfo, S!Awaits, SP!Awaits
<1>2. ASSUME NEW c PROVE S!SendCancel(c) => SP!SendCancel(c)
  BY DEF S!SendCancel, SP!SendCancel, S!Awaits, SP!Awaits
<1>3. ASSUME NEW exp PROVE S!Tick(exp) => SP!Tick(exp)
  BY DEF S!Tick, SP!Tick
<1>4. ASSUME NEW p PROVE S!CancelFrom(p) => SP!CancelFrom(p)
  BY DEF S!CancelFrom, SP!CancelFrom
<1>5. S!CancelAll \/ S!Attach \/ S!Detach => SP!CancelAll \/ SP!Attach \/ SP!Detach
  BY DEF S!CancelAll, SP!CancelAll, S!Attach, SP!Attach, S!Detach, SP!Detach
<1> QED
  BY <1>1, <1>2, <1>3, <1>4, <1>5 DEF S!Own, SP!Own

-----------------------------------------------------------------------------
\* What is known of a transaction stays so when the client moves on, and none
\* that is known starts to wait again.
LEMMA KnownStays ==
  ASSUME NEW ans, CP!Moved(trans, trans', ans), NEW t \in Trans,
         trans[t].state \in {"Active", "Completed"}
  PROVE  /\ trans'[t].state \in {"Active", "Completed"} /\ trans'[t].slot = trans[t].slot
         /\ trans'[t].state = "Active" => trans[t].state = "Active"
<1>1. CP!Move(trans[t], trans'[t], t, ans)
  BY DEF CP!Moved
<1> QED
  BY <1>1 DEF CP!Move

\* The packets of the two engines are the same, and name transactions.
LEMMA PacketTypes ==
  ASSUME PInv
  PROVE  /\ \A m \in toServer : m \in SP!InboundPacket /\ m.tid \in Trans
         /\ \A m \in toClient[Me] : m \in CP!InboundPacket /\ m.tid \in Trans
         /\ \A i \in SP!Active : i \in ServerSlot /\ slot[i].tid \in Trans
         /\ \A c \in calls : c \in S!Call /\ c.tid \in Trans /\ c.slot \in ServerSlot
<1>1. toServer \subseteq CP!CallPacket \cup CP!ControlPacket
  BY DEF PInv, CP!IInv, CP!TypeOK
<1>2. /\ toClient \in [{Me} -> SUBSET SP!OutboundPacket]
      /\ slot \in [ServerSlot -> SP!SlotType] /\ calls \subseteq SP!Call
  BY DEF PInv, SP!AnswerInv, SP!IInv, SP!TypeOK
<1>3. CP!CallPacket \cup CP!ControlPacket = SP!InboundPacket
  BY DEF CP!CallPacket, CP!ControlPacket, SP!InboundPacket, SP!CallPacket, SP!ControlPacket
<1>4. SP!OutboundPacket = CP!InboundPacket
  BY DEF CP!InboundPacket, CP!AnswerPacket, CP!ReplyPacket,
         SP!OutboundPacket, SP!AnswerPacket, SP!ReplyPacket, S!Call, SP!Call
<1>5. \A m \in SP!InboundPacket : m.tid \in Trans
  BY DEF SP!InboundPacket, SP!CallPacket, SP!ControlPacket
<1>6. \A m \in CP!InboundPacket : m.tid \in Trans
  BY DEF CP!InboundPacket, CP!AnswerPacket, CP!ReplyPacket
<1>7. SP!Call = S!Call /\ \A c \in SP!Call : c.tid \in Trans /\ c.slot \in ServerSlot
  BY DEF SP!Call, S!Call
<1> QED
  BY <1>1, <1>2, <1>3, <1>4, <1>5, <1>6, <1>7 DEF SP!Active, SP!SlotType

\* Every step of the client moves its transactions, with answers that were
\* given to their calls.
Answers == {<<c.tid, c>> : c \in calls}

LEMMA ClientMoves ==
  ASSUME PInv, Client
  PROVE  /\ CP!IInv' /\ CP!Moved(trans, trans', Answers)
         /\ CP!AllSay(toServer' \ toServer, trans')
<1>1. CASE C!Own
  <2>1. /\ CP!IInv' /\ CP!Moved(trans, trans', {})
        /\ CP!AllSay(toServer' \ toServer, trans')
    BY <1>1, ClientOwn, ClientConstants, ConsoleConstants, CP!OwnKeeps DEF PInv
  <2> QED
    BY <2>1 DEF CP!Moved, CP!Move
<1>2. CASE \E m \in toClient[Me] : C!Inbound(m)
  <2>1. PICK m \in toClient[Me] : CP!Inbound(m)
    BY <1>2, ClientInbound
  <2>2. m \in CP!InboundPacket /\ CP!Told(m)
    BY PacketTypes DEF PInv, ServerKnows, Known, CP!Told
  <2>3. /\ CP!IInv' /\ CP!Moved(trans, trans', CP!AnswerIn(m))
        /\ CP!AllSay(toServer' \ toServer, trans')
    BY <2>1, <2>2, ClientConstants, ConsoleConstants, CP!InboundKeeps DEF PInv
  <2>4. CP!AnswerIn(m) \subseteq Answers
    BY DEF PInv, SP!AnswerInv, SP!AnswersSent, CP!AnswerIn, Answers
  <2> QED
    BY <2>3, <2>4 DEF CP!Moved, CP!Move
<1> QED
  BY <1>1, <1>2 DEF Client

\* A step of the client keeps the invariant.
LEMMA ClientKeeps ==
  ASSUME PInv, Client
  PROVE  PInv'
<1>1. /\ CP!IInv' /\ CP!Moved(trans, trans', Answers)
      /\ CP!AllSay(toServer' \ toServer, trans')
  BY ClientMoves
<1>2. UNCHANGED <<slot, calls, attached, puts, toClient>> /\ forsaken' = forsaken
  BY DEF Client, serverVars
<1>3. SP!AnswerInv'
  <2>1. [SP!Next]_(SP!vars)
    BY <1>2 DEF SP!vars
  <2> QED
    BY <2>1, ServerConstants, SP!AnswerInvStep DEF PInv
<1>4. CP!AllSay(toServer', trans')
  <2>1. ASSUME NEW m \in toServer PROVE CP!Says(m, trans')
    <3>1. m.tid \in Trans /\ CP!Says(m, trans)
      BY PacketTypes DEF PInv, CP!AllSay
    <3> QED
      BY <1>1, <3>1, ClientConstants, ConsoleConstants, CP!SaysStays
  <2> QED
    BY <1>1, <2>1 DEF CP!AllSay
<1>5. ServerKnows'
  <2>1. \A t \in Trans : \A s : Known(t, s) =>
          trans'[t].state \in {"Active", "Completed"} /\ trans'[t].slot = s
    BY <1>1, KnownStays DEF Known
  <2>2. \A m \in toClient[Me] :
          trans'[m.tid].state \in {"Active", "Completed"} /\ trans'[m.tid].slot = m.cslot
    BY <2>1, PacketTypes DEF PInv, ServerKnows
  <2>3. \A i \in SP!Active : /\ trans'[slot[i].tid].state \in {"Active", "Completed"}
                             /\ trans'[slot[i].tid].slot = slot[i].cslot
                             /\ slot[i].info = slot[i].tid
    BY <2>1, PacketTypes DEF PInv, ServerKnows
  <2>4. \A c \in calls : trans'[c.tid].state \in {"Active", "Completed"} /\ c.info = c.tid
    BY <1>1, KnownStays, PacketTypes DEF PInv, ServerKnows
  <2>5. SP!Active' = SP!Active
    BY <1>2 DEF SP!Active
  <2> QED
    BY <1>2, <2>2, <2>3, <2>4, <2>5 DEF ServerKnows, Known
<1>6. CallIsServed'
  <2>1. \A c \in calls : trans'[c.tid].state = "Active" => trans[c.tid].state = "Active"
    BY <1>1, KnownStays, PacketTypes DEF PInv, ServerKnows
  <2> QED
    BY <1>2, <2>1 DEF PInv, CallIsServed
<1> QED
  BY <1>1, <1>2, <1>3, <1>4, <1>5, <1>6 DEF PInv

-----------------------------------------------------------------------------
\* A packet that reaches the server.
LEMMA ServerHears ==
  ASSUME PInv, ServerReceives
  PROVE  \E m \in toServer : SP!Heard(Me, m) /\ m.tid \in Trans /\ CP!Says(m, trans)
<1>1. PICK m \in toServer : SP!Inbound(Me, m)
  BY ServerInbound DEF ServerReceives
<1>2. m \in SP!InboundPacket /\ m.tid \in Trans /\ CP!Says(m, trans)
  BY PacketTypes DEF PInv, CP!AllSay
<1>3. SP!Heard(Me, m)
  BY <1>1, <1>2, ServerConstants, SP!InboundDoes DEF PInv, SP!AnswerInv, SP!Inbound
<1> QED
  BY <1>2, <1>3

\* What was known of the transactions, the server still knows, and it learns
\* of others only from what the client says.
LEMMA ServerLearns ==
  ASSUME PInv, trans' = trans, NEW m, m.tid \in Trans, CP!Says(m, trans), SP!Heard(Me, m)
  PROVE  ServerKnows'
<1>1. ASSUME NEW n \in toClient'[Me] PROVE Known(n.tid, n.cslot)
  <2>1. CASE n \in toClient[Me]
    BY <2>1 DEF PInv, ServerKnows
  <2>2. CASE n \notin toClient[Me]
    BY <2>2 DEF PInv, ServerKnows, SP!Heard, SP!WordOf, CP!Says, Known
  <2> QED
    BY <2>1, <2>2
<1>2. ASSUME NEW i \in ServerSlot, slot'[i].active
      PROVE  Known(slot'[i].tid, slot'[i].cslot) /\ slot'[i].info = slot'[i].tid
  <2>1. CASE SP!GoesOn(i)
    BY <1>2, <2>1 DEF PInv, ServerKnows, SP!GoesOn, SP!Active
  <2>2. CASE SP!Takes(i, Me, m)
    BY <2>2 DEF SP!Takes, CP!Says, Known
  <2> QED
    BY <2>1, <2>2 DEF SP!Heard
<1>3. ASSUME NEW c \in calls'
      PROVE  trans[c.tid].state \in {"Active", "Completed"} /\ c.info = c.tid
  <2>1. CASE c \in calls
    BY <2>1 DEF PInv, ServerKnows
  <2>2. CASE c \notin calls
    <3>1. PICK i \in ServerSlot : SP!Takes(i, Me, m) /\ c = SP!CallOf(i)'
      BY <2>2 DEF SP!Heard
    <3> QED
      BY <1>2, <3>1 DEF SP!Takes, SP!CallOf, Known
  <2> QED
    BY <2>1, <2>2
<1> QED
  BY <1>1, <1>2, <1>3 DEF ServerKnows, SP!Active, Known

\* A slot that a packet frees served a transaction that is over.
LEMMA ServerServes ==
  ASSUME PInv, trans' = trans, forsaken' = forsaken,
         NEW m, m.tid \in Trans, CP!Says(m, trans), SP!Heard(Me, m)
  PROVE  CallIsServed'
<1> SUFFICES ASSUME NEW c \in calls', trans[c.tid].state = "Active", c.tid \notin forsaken
             PROVE  slot'[c.slot].active /\ slot'[c.slot].index = c.index
  BY DEF CallIsServed
<1>1. CASE c \in calls
  <2>1. slot[c.slot].active /\ slot[c.slot].index = c.index /\ c.slot \in ServerSlot
    BY <1>1, PacketTypes DEF PInv, CallIsServed
  <2>2. c = SP!CallOf(c.slot)
    BY <1>1, <2>1 DEF PInv, SP!AnswerInv, SP!IInv, SP!SlotInv, SP!CallIsCurrent
  <2>3. slot[c.slot].tid = c.tid
    BY <2>2 DEF SP!CallOf
  <2>4. slot'[c.slot].active
    <3>1. m.type = "ACK" /\ m.tid = c.tid => FALSE
      BY DEF CP!Says
    <3> QED
      BY <2>1, <2>3, <3>1 DEF SP!Heard, SP!Active
  <2>5. SP!GoesOn(c.slot)
    BY <2>1 DEF SP!Heard, SP!Takes
  <2> QED
    BY <2>1, <2>4, <2>5 DEF SP!GoesOn
<1>2. CASE c \notin calls
  <2>1. PICK i \in ServerSlot : SP!Takes(i, Me, m) /\ c = SP!CallOf(i)'
    BY <1>2 DEF SP!Heard
  <2> QED
    BY <2>1 DEF SP!Takes, SP!CallOf
<1> QED
  BY <1>1, <1>2

\* When the client side stays as it is, so does what is said of it.
LEMMA ClientStays ==
  ASSUME PInv, UNCHANGED clientVars
  PROVE  CP!IInv' /\ CP!AllSay(toServer', trans')
<1>1. UNCHANGED CP!vars /\ toServer' = toServer /\ trans' = trans
  BY DEF clientVars, CP!vars
<1>2. CP!IInv'
  <2>1. [CP!Next]_(CP!vars)
    BY <1>1
  <2> QED
    BY <2>1, ClientConstants, ConsoleConstants, CP!StepKeeps DEF PInv
<1> QED
  BY <1>1, <1>2 DEF PInv

LEMMA ServerReceivesKeeps ==
  ASSUME PInv, ServerReceives
  PROVE  PInv'
<1>1. UNCHANGED clientVars /\ trans' = trans /\ forsaken' = forsaken
  BY DEF ServerReceives, clientVars
<1>2. SP!AnswerInv'
  <2>1. PICK m \in toServer : SP!Inbound(Me, m)
    BY ServerInbound DEF ServerReceives
  <2>2. SP!Next
    BY <2>1, PacketTypes DEF SP!Next
  <2> QED
    BY <2>2, ServerConstants, SP!AnswerInvStep DEF PInv
<1> QED
  BY <1>1, <1>2, ClientStays, ServerHears, ServerLearns, ServerServes DEF PInv

\* The server frees a slot on its own: this is when it forsakes a transaction.
LEMMA ServerOwnKeeps ==
  ASSUME PInv, ServerOwn
  PROVE  PInv'
<1>0. /\ UNCHANGED clientVars /\ trans' = trans
      /\ forsaken' = forsaken \cup {slot[i].tid : i \in {i \in SP!Active : ~slot'[i].active}}
  BY DEF ServerOwn, clientVars, S!Active, SP!Active
<1>1. SP!Own
  BY ServerOwnSame DEF ServerOwn
<1>2. SP!AnswerInv'
  <2>1. SP!Next
    BY <1>1 DEF SP!Next
  <2> QED
    BY <2>1, ServerConstants, SP!AnswerInvStep DEF PInv
<1>3. SP!Done
  BY <1>1, ServerConstants, SP!OwnDoes DEF PInv, SP!AnswerInv
<1>4. forsaken' \subseteq Trans
  BY <1>0, PacketTypes DEF PInv
<1>5. ServerKnows'
  <2>1. ASSUME NEW n \in toClient'[Me] PROVE Known(n.tid, n.cslot)
    BY <1>3 DEF PInv, ServerKnows, SP!Done, SP!WordOf
  <2>2. ASSUME NEW i \in ServerSlot, slot'[i].active
        PROVE  Known(slot'[i].tid, slot'[i].cslot) /\ slot'[i].info = slot'[i].tid
    BY <1>3, <2>2 DEF PInv, ServerKnows, SP!Done, SP!GoesOn, SP!Active
  <2>3. \A c \in calls' : trans[c.tid].state \in {"Active", "Completed"} /\ c.info = c.tid
    BY <1>3 DEF PInv, ServerKnows, SP!Done
  <2> QED
    BY <1>0, <2>1, <2>2, <2>3 DEF ServerKnows, SP!Active, Known
<1>6. CallIsServed'
  <2> SUFFICES ASSUME NEW c \in calls, trans[c.tid].state = "Active", c.tid \notin forsaken'
               PROVE  slot'[c.slot].active /\ slot'[c.slot].index = c.index
    BY <1>0, <1>3 DEF CallIsServed, SP!Done
  <2>1. slot[c.slot].active /\ slot[c.slot].index = c.index /\ c.slot \in ServerSlot
    BY <1>0, PacketTypes DEF PInv, CallIsServed
  <2>2. c = SP!CallOf(c.slot)
    BY <2>1 DEF PInv, SP!AnswerInv, SP!IInv, SP!SlotInv, SP!CallIsCurrent
  <2>3. slot[c.slot].tid = c.tid
    BY <2>2 DEF SP!CallOf
  <2>4. slot'[c.slot].active
    BY <1>0, <2>1, <2>3 DEF SP!Active
  <2>5. SP!GoesOn(c.slot)
    BY <1>3, <2>1 DEF SP!Done
  <2> QED
    BY <2>1, <2>4, <2>5 DEF SP!GoesOn
<1> QED
  BY <1>0, <1>2, <1>4, <1>5, <1>6, ClientStays DEF PInv

-----------------------------------------------------------------------------
LEMMA PInvInit == Init => PInv
<1> SUFFICES ASSUME Init PROVE PInv
  OBVIOUS
<1>1. CP!IInv
  BY ClientInit, ClientConstants, ConsoleConstants, CP!InitGood DEF Init
<1>2. SP!AnswerInv
  BY ServerInit, ServerConstants, SP!AnswerInvInit DEF Init
<1>3. toServer = {} /\ calls = {} /\ toClient[Me] = {} /\ SP!Active = {}
  BY DEF Init, C!Init, S!Init, S!Blank, SP!Active
<1> QED
  BY <1>1, <1>2, <1>3 DEF Init, PInv, CP!AllSay, ServerKnows, CallIsServed

LEMMA PInvStep == PInv /\ [Next]_vars => PInv'
<1> SUFFICES ASSUME PInv, [Next]_vars PROVE PInv'
  OBVIOUS
<1>1. CASE UNCHANGED vars
  <2>1. /\ UNCHANGED clientVars /\ UNCHANGED <<slot, calls, attached, puts, toClient>>
        /\ forsaken' = forsaken /\ trans' = trans
    BY <1>1 DEF vars, serverVars, clientVars
  <2>2. SP!AnswerInv'
    <3>1. [SP!Next]_(SP!vars)
      BY <2>1 DEF SP!vars
    <3> QED
      BY <3>1, ServerConstants, SP!AnswerInvStep DEF PInv
  <2>3. ServerKnows' /\ CallIsServed'
    BY <2>1 DEF PInv, ServerKnows, CallIsServed, Known, SP!Active
  <2> QED
    BY <2>1, <2>2, <2>3, ClientStays DEF PInv
<1> QED
  BY <1>1, ClientKeeps, ServerReceivesKeeps, ServerOwnKeeps DEF Next

LEMMA PInvAlways == Spec => []PInv
BY PInvInit, PInvStep, PTL DEF Spec

\* An ACK says that its client has stopped waiting, whenever it arrives ...
THEOREM AcksMeanDone == Spec => []AckMeansDone
<1>1. PInv => AckMeansDone
  BY DEF PInv, CP!AllSay, CP!Says, AckMeansDone
<1> QED
  BY <1>1, PInvAlways, PTL

\* ... so no late packet frees the slot of a request whose client waits, and
\* no repeated one starts that request again.
THEOREM RequestsExecuteOnce == Spec => []ExecutedOnce
<1>1. PInv => ExecutedOnce
  <2> SUFFICES ASSUME PInv, NEW t \in Trans, trans[t].state = "Active", t \notin forsaken,
                      NEW c \in calls, NEW d \in calls, c.tid = t, d.tid = t
               PROVE  c = d
    BY DEF ExecutedOnce, AckMeansDone, PInv, CP!AllSay, CP!Says
  <2>1. /\ slot[c.slot].active /\ slot[c.slot].index = c.index /\ c.slot \in ServerSlot
        /\ slot[d.slot].active /\ slot[d.slot].index = d.index /\ d.slot \in ServerSlot
    BY PacketTypes DEF PInv, CallIsServed
  <2>2. c = SP!CallOf(c.slot) /\ d = SP!CallOf(d.slot)
    BY <2>1 DEF PInv, SP!AnswerInv, SP!IInv, SP!SlotInv, SP!CallIsCurrent
  <2>3. slot[c.slot].tid = t /\ slot[d.slot].tid = t
    BY <2>2 DEF SP!CallOf
  <2>4. slot[c.slot].point = Me /\ slot[d.slot].point = Me
    BY <2>1 DEF PInv, SP!AnswerInv, SP!IInv, SP!TypeOK, SP!SlotType
  <2>5. c.slot = d.slot
    BY <2>1, <2>3, <2>4 DEF PInv, SP!AnswerInv, SP!IInv, SP!SlotInv, SP!UniqueKey, SP!Active
  <2> QED
    BY <2>2, <2>5
<1> QED
  BY <1>1, PInvAlways, PTL

-----------------------------------------------------------------------------
\* The refinement: what the outcome of a transaction is ...
Error == {"Aborted", "Cancelled", "Timeout", "BadDataLen"}

OutcomeOf(x) == [how  |-> CASE x.state = "New"                   -> "New"
                            [] x.state \in {"Pending", "Active"} -> "Asked"
                            [] x.state = "Completed"             -> x.result,
                 from |-> IF x.ans = NoAnswer THEN <<>> ELSE ExecutionOf(x.ans)]

LEMMA OutcomeIs ==
  ASSUME NEW x
  PROVE  /\ x.state = "New" => OutcomeOf(x).how = "New"
         /\ x.state \in {"Pending", "Active"} => OutcomeOf(x).how = "Asked"
         /\ x.state = "Completed" => OutcomeOf(x).how = x.result
         /\ OutcomeOf(x).from = IF x.ans = NoAnswer THEN <<>> ELSE ExecutionOf(x.ans)
         /\ OutcomeOf(x) = [how |-> OutcomeOf(x).how, from |-> OutcomeOf(x).from]
<1> DEFINE how == CASE x.state = "New"                   -> "New"
                    [] x.state \in {"Pending", "Active"} -> "Asked"
                    [] x.state = "Completed"             -> x.result
           from == IF x.ans = NoAnswer THEN <<>> ELSE ExecutionOf(x.ans)
<1>1. OutcomeOf(x) = [how |-> how, from |-> from]
  BY Zenon DEF OutcomeOf
<1>2. /\ x.state = "New" => how = "New"
      /\ x.state \in {"Pending", "Active"} => how = "Asked"
      /\ x.state = "Completed" => how = x.result
  OBVIOUS
<1>3. from = IF x.ans = NoAnswer THEN <<>> ELSE ExecutionOf(x.ans)
  OBVIOUS
<1> HIDE DEF how, from
<1> QED
  BY <1>1, <1>2, <1>3

LEMMA OutcomeOfTrans ==
  ASSUME NEW t \in Trans
  PROVE  Outcome(t) = OutcomeOf(trans[t]) /\ Outcome(t)' = OutcomeOf(trans'[t])
BY DEF Outcome, OutcomeOf

\* ... and what a step of the client may make of the outcome o of transaction t.
MayBecome(o, u, t) ==
  \/ u = o
  \/ o.how = "New" /\ u = [o EXCEPT !.how = "Asked"]
  \/ o.how \in {"New", "Asked"} /\ \E f \in Error : u = [o EXCEPT !.how = f]
  \/ o.how = "Asked" /\ \E c \in calls : c.tid = t /\ u = [how |-> "Ok", from |-> ExecutionOf(c)]

LEMMA OutcomeMoves ==
  ASSUME PInv, PInv', NEW t \in Trans, CP!Move(trans[t], trans'[t], t, Answers)
  PROVE  MayBecome(Outcome(t), Outcome(t)', t)
<1> DEFINE x == trans[t]
           y == trans'[t]
           o == Outcome(t)
           u == Outcome(t)'
<1>0. /\ x.state \in {"New", "Pending", "Active", "Completed"}
      /\ y.state \in {"New", "Pending", "Active", "Completed"}
  BY DEF PInv, CP!IInv, CP!TypeOK, CP!TransExt
<1>1. /\ x.state = "New" => o.how = "New"
      /\ x.state \in {"Pending", "Active"} => o.how = "Asked"
      /\ x.state = "Completed" => o.how = x.result
      /\ o.from = IF x.ans = NoAnswer THEN <<>> ELSE ExecutionOf(x.ans)
      /\ o = [how |-> o.how, from |-> o.from]
  BY OutcomeIs, OutcomeOfTrans
<1>2. /\ y.state = "New" => u.how = "New"
      /\ y.state \in {"Pending", "Active"} => u.how = "Asked"
      /\ y.state = "Completed" => u.how = y.result
      /\ u.from = IF y.ans = NoAnswer THEN <<>> ELSE ExecutionOf(y.ans)
      /\ u = [how |-> u.how, from |-> u.from]
  BY OutcomeIs, OutcomeOfTrans
<1>3. CP!Move(x, y, t, Answers)
  OBVIOUS
<1> SUFFICES MayBecome(o, u, t)
  OBVIOUS
<1> HIDE DEF o, u, x, y
<1>4. CASE /\ y.state = x.state \/ (x.state \in {"New", "Pending"} /\ y.state \in {"Pending", "Active"})
           /\ y.result = x.result /\ y.ans = x.ans
  <2>1. u.from = o.from
    BY <1>1, <1>2, <1>4
  <2>2. u.how = o.how \/ (o.how = "New" /\ u.how = "Asked")
    BY <1>0, <1>1, <1>2, <1>4
  <2>3. CASE u.how = o.how
    BY <1>1, <1>2, <2>1, <2>3 DEF MayBecome
  <2>4. CASE o.how = "New" /\ u.how = "Asked"
    <3>1. u = [o EXCEPT !.how = "Asked"]
      BY <1>1, <1>2, <2>1, <2>4
    <3> QED
      BY <2>4, <3>1 DEF MayBecome
  <2> QED
    BY <2>2, <2>3, <2>4
<1>5. CASE /\ x.state # "Completed" /\ y.state = "Completed"
           /\ y.result \in CP!Result \ {"Initial", "Ok"} /\ y.ans = x.ans
  <2>1. y.result \in Error
    BY <1>5 DEF CP!Result, Error
  <2>2. o.how \in {"New", "Asked"} /\ u.how = y.result /\ u.from = o.from
    BY <1>0, <1>1, <1>2, <1>5
  <2>3. u = [o EXCEPT !.how = y.result]
    BY <1>1, <1>2, <2>2
  <2> QED
    BY <2>1, <2>2, <2>3 DEF MayBecome
<1>6. CASE /\ x.state = "Active" /\ y.state = "Completed"
           /\ y.result = "Ok" /\ <<t, y.ans>> \in Answers
  <2>1. y.ans \in calls /\ y.ans.tid = t
    BY <1>6 DEF Answers
  <2>2. y.ans # NoAnswer
    BY <2>1, PacketTypes, AnswerAssumption
  <2>3. o.how = "Asked" /\ u.how = "Ok" /\ u.from = ExecutionOf(y.ans)
    BY <1>1, <1>2, <1>6, <2>2
  <2>4. u = [how |-> "Ok", from |-> ExecutionOf(y.ans)]
    BY <1>2, <2>3
  <2> QED
    BY <2>1, <2>3, <2>4 DEF MayBecome
<1> QED
  BY <1>3, <1>4, <1>5, <1>6 DEF CP!Move

\* A step of the client asks, fails and answers requests.
LEMMA ClientRefines ==
  ASSUME PInv, PInv', Client
  PROVE  Remote!Client
<1>1. calls' = calls /\ forsaken' = forsaken
  BY DEF Client, serverVars
<1>2. \A t \in Trans : CP!Move(trans[t], trans'[t], t, Answers)
  BY ClientMoves DEF CP!Moved
<1>3. {ExecutionOf(c) : c \in calls}' = {ExecutionOf(c) : c \in calls}
  BY <1>1 DEF ExecutionOf
<1>4. ASSUME NEW t \in Trans
      PROVE  Outcome(t)' = Outcome(t) \/ Remote!Asked(t) \/ Remote!Failed(t) \/ Remote!Answered(t)
  <2>1. MayBecome(Outcome(t), Outcome(t)', t)
    BY <1>2, OutcomeMoves
  <2>2. CASE Outcome(t).how = "New" /\ Outcome(t)' = [Outcome(t) EXCEPT !.how = "Asked"]
    BY <2>2 DEF Remote!Asked
  <2>3. CASE /\ Outcome(t).how \in {"New", "Asked"}
             /\ \E f \in Error : Outcome(t)' = [Outcome(t) EXCEPT !.how = f]
    BY <2>3 DEF Remote!Failed, Error
  <2>4. CASE /\ Outcome(t).how = "Asked"
             /\ \E c \in calls : c.tid = t /\ Outcome(t)' = [how |-> "Ok", from |-> ExecutionOf(c)]
    <3>1. PICK c \in calls : c.tid = t /\ Outcome(t)' = [how |-> "Ok", from |-> ExecutionOf(c)]
      BY <2>4
    <3>2. ExecutionOf(c) \in Remote!ExecutionsOf(t)
      <4>1. ExecutionOf(c)[1] = t
        BY <3>1 DEF ExecutionOf, PInv, ServerKnows
      <4> QED
        BY <4>1 DEF Remote!ExecutionsOf
    <3> QED
      BY <2>4, <3>1, <3>2 DEF Remote!Answered
  <2> QED
    BY <2>1, <2>2, <2>3, <2>4 DEF MayBecome
<1> QED
  BY <1>1, <1>3, <1>4 DEF Remote!Client

\* A packet starts an execution of the request it names, or none.
LEMMA ServerRefines ==
  ASSUME PInv, ServerReceives
  PROVE  (\E t \in Trans, e \in ServerSlot \X (1..MaxIndex) : Remote!Execute(t, e)) \/ UNCHANGED Remote!vars
<1>0. trans' = trans /\ forsaken' = forsaken
  BY DEF ServerReceives, clientVars
<1>1. PICK m \in toServer : SP!Heard(Me, m) /\ m.tid \in Trans /\ CP!Says(m, trans)
  BY ServerHears
<1>2. [t \in Trans |-> Outcome(t)]' = [t \in Trans |-> Outcome(t)]
  BY <1>0 DEF Outcome, ExecutionOf
<1>3. CASE calls' = calls
  <2>1. {ExecutionOf(c) : c \in calls}' = {ExecutionOf(c) : c \in calls}
    BY <1>3 DEF ExecutionOf
  <2> QED
    BY <1>0, <1>2, <2>1 DEF Remote!vars
<1>4. CASE \E i \in ServerSlot : SP!Takes(i, Me, m) /\ calls' = calls \cup {SP!CallOf(i)'}
  <2>1. PICK i \in ServerSlot : SP!Takes(i, Me, m) /\ calls' = calls \cup {SP!CallOf(i)'}
    BY <1>4
  <2> DEFINE t == m.tid
             c == SP!CallOf(i)'
             e == <<i, slot[i].index + 1>>
  <2>2. c.info = t /\ c.slot = i /\ c.index = slot[i].index + 1
    BY <1>1, <2>1 DEF SP!CallOf, SP!Takes, CP!Says
  <2>3. ExecutionOf(c) = <<t, e>>
    BY <2>2 DEF ExecutionOf
  <2>4. {ExecutionOf(d) : d \in calls}' = {ExecutionOf(d) : d \in calls} \cup {<<t, e>>}
    <3>1. calls' = calls \cup {c}
      BY <2>1
    <3> HIDE DEF c
    <3> QED
      BY <2>3, <3>1 DEF ExecutionOf
  <2>5. e \in ServerSlot \X (1..MaxIndex)
    <3>1. c \in S!Call
      BY <2>1, ServerReceivesKeeps DEF PInv, SP!AnswerInv, SP!IInv, SP!TypeOK, SP!Call, S!Call
    <3> QED
      BY <2>2, <3>1 DEF S!Call
  <2>6. Outcome(t).how # "New"
    <3>1. trans[t].state \in {"Active", "Completed"}
      BY <1>1 DEF CP!Says
    <3>2. trans[t].result # "New"
      BY <1>1 DEF PInv, CP!IInv, CP!TypeOK, CP!TransExt, CP!Result
    <3> QED
      BY <1>1, <3>1, <3>2, OutcomeIs, OutcomeOfTrans
  <2>7. e \notin {x[2] : x \in {ExecutionOf(d) : d \in calls}}
    <3> SUFFICES ASSUME NEW d \in calls, ExecutionOf(d)[2] = e PROVE FALSE
      OBVIOUS
    <3>1. d.slot = i /\ d.index = slot[i].index + 1
      BY DEF ExecutionOf
    <3>2. d.index <= slot[d.slot].index
      BY DEF PInv, SP!AnswerInv, SP!IInv, SP!SlotInv, SP!CallsAreEarlier
    <3>3. slot[i].index \in Int
      BY DEF PInv, SP!AnswerInv, SP!IInv, SP!TypeOK, SP!SlotType
    <3> QED
      BY <3>1, <3>2, <3>3
  <2>8. ASSUME Outcome(t).how = "Asked", t \notin forsaken
        PROVE  \A d \in calls : d.info # t
    <3> SUFFICES ASSUME NEW d \in calls, d.info = t PROVE FALSE
      OBVIOUS
    <3>1. trans[t].state = "Active"
      <4>1. trans[t].state \in {"Active", "Completed"}
        BY <1>1 DEF CP!Says
      <4>2. trans[t].result # "Asked"
        BY <1>1 DEF PInv, CP!IInv, CP!TypeOK, CP!TransExt, CP!Result
      <4> QED
        BY <1>1, <2>8, <4>1, <4>2, OutcomeIs, OutcomeOfTrans
    <3>2. d.tid = t
      BY DEF PInv, ServerKnows
    <3>3. slot[d.slot].active /\ slot[d.slot].index = d.index /\ d.slot \in ServerSlot
      BY <2>8, <3>1, <3>2, PacketTypes DEF PInv, CallIsServed
    <3>4. d = SP!CallOf(d.slot)
      BY <3>3 DEF PInv, SP!AnswerInv, SP!IInv, SP!SlotInv, SP!CallIsCurrent
    <3>5. slot[d.slot].tid = t /\ slot[d.slot].point = Me
      BY <3>2, <3>3, <3>4 DEF SP!CallOf, PInv, SP!AnswerInv, SP!IInv, SP!TypeOK, SP!SlotType
    <3> QED
      BY <2>1, <3>3, <3>5 DEF SP!Takes, SP!InTree, SP!Active
  <2> HIDE DEF t, c, e
  <2>9. t \in Trans
    BY <1>1 DEF t
  <2>10. Outcome(t).how = "Asked" /\ t \notin forsaken => Remote!ExecutionsOf(t) = {}
    BY <2>8 DEF Remote!ExecutionsOf, ExecutionOf
  <2>11. Remote!Execute(t, e)
    BY <1>0, <1>2, <2>4, <2>6, <2>7, <2>9, <2>10 DEF Remote!Execute
  <2> QED
    BY <2>5, <2>9, <2>11
<1> QED
  BY <1>1, <1>3, <1>4 DEF SP!Heard

\* The server forsakes the transactions whose slots it frees on its own.
LEMMA OwnRefines ==
  ASSUME PInv, ServerOwn
  PROVE  \E ts \in SUBSET Trans : Remote!Forsake(ts)
<1> DEFINE ts == {slot[i].tid : i \in {i \in S!Active : ~slot'[i].active}}
<1>1. trans' = trans /\ forsaken' = forsaken \cup ts
  BY DEF ServerOwn, clientVars
<1>2. ts \in SUBSET Trans
  BY PacketTypes DEF S!Active, SP!Active
<1>3. calls' = calls
  BY ServerOwnSame, ServerConstants, SP!OwnDoes DEF ServerOwn, PInv, SP!AnswerInv, SP!Done
<1>4. [t \in Trans |-> Outcome(t)]' = [t \in Trans |-> Outcome(t)]
  BY <1>1 DEF Outcome, ExecutionOf
<1>5. {ExecutionOf(c) : c \in calls}' = {ExecutionOf(c) : c \in calls}
  BY <1>3 DEF ExecutionOf
<1> HIDE DEF ts
<1> QED
  BY <1>1, <1>2, <1>4, <1>5 DEF Remote!Forsake

\* PTP implements a remote call, on a network that loses, repeats and reorders
\* packets: a client gets the answer of one execution of its own request or an
\* error, and while it waits its request is executed once, unless the server
\* has forsaken it.
THEOREM RemoteCallImplemented == Spec => RemoteCallOK
<1>1. Init => Remote!Init
  <2> SUFFICES ASSUME Init PROVE Remote!Init
    OBVIOUS
  <2>1. calls = {} /\ forsaken = {} /\ \A t \in Trans : trans[t].state = "New" /\ trans[t].ans = NoAnswer
    BY DEF Init, C!Init, S!Init, C!NewTrans
  <2>2. \A t \in Trans : Outcome(t) = [how |-> "New", from |-> <<>>]
    BY <2>1 DEF Outcome
  <2> QED
    BY <2>1, <2>2 DEF Remote!Init
<1>2. PInv /\ PInv' /\ [Next]_vars => [Remote!Next]_(Remote!vars)
  <2> SUFFICES ASSUME PInv, PInv', [Next]_vars PROVE [Remote!Next]_(Remote!vars)
    OBVIOUS
  <2>1. CASE Client
    BY <2>1, ClientRefines DEF Remote!Next
  <2>2. CASE ServerReceives
    BY <2>2, ServerRefines DEF Remote!Next
  <2>3. CASE ServerOwn
    BY <2>3, OwnRefines DEF Remote!Next
  <2>4. CASE UNCHANGED vars
    <3>1. trans' = trans /\ calls' = calls /\ forsaken' = forsaken
      BY <2>4 DEF vars, clientVars, serverVars
    <3>2. /\ [t \in Trans |-> Outcome(t)]' = [t \in Trans |-> Outcome(t)]
          /\ {ExecutionOf(c) : c \in calls}' = {ExecutionOf(c) : c \in calls}
      BY <3>1 DEF Outcome, ExecutionOf
    <3> QED
      BY <3>1, <3>2 DEF Remote!vars
  <2> QED
    BY <2>1, <2>2, <2>3, <2>4 DEF Next
<1> QED
  BY <1>1, <1>2, PInvAlways, PTL DEF Spec, RemoteCallOK, Remote!Spec
=============================================================================
