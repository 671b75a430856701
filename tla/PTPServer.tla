----------------------------- MODULE PTPServer -----------------------------
(***************************************************************************)
(* class PTP::ServerEngine : the slots of the transactions in progress,    *)
(* found by their key (point, trans_id), and the calls they hand to the    *)
(* attached ServerProc.  Every handler runs under one mutex and its        *)
(* packets leave after the unlock, so a handler is one action.             *)
(*                                                                         *)
(* A slot keeps its fields when it is freed, as the code does, and so do   *)
(* the calls: a late ACK, SENDRET, send_info() or send_cancel() must not   *)
(* touch the slot's next transaction.                                      *)
(***************************************************************************)
EXTENDS Integers, FiniteSets

CONSTANTS Point,       \* XPoint : the clients, as the device names them
          TransId, ClientSlot, ServerSlot,
          Info,        \* the contents of a request
          NoAnswer,
          MaxRetries,  \* Slot::retry_count at the start
          MaxIndex,    \* bound: transactions served by one slot
          Malformed,   \* types of the packets that come with trailing bytes
          Watched      \* points whose outbound packets are recorded

ASSUME ServerAssumption ==
  /\ Point # {} /\ TransId # {} /\ ClientSlot # {} /\ Info # {}
  /\ MaxRetries \in Nat
  /\ MaxIndex \in Nat
  /\ Watched \subseteq Point
  /\ Malformed \subseteq {"CALL", "RECALL", "ACK", "SENDRET"}

VARIABLES slot,      \* slots[]
          calls,     \* every call given to the ServerProc: it may answer at any time
          attached,  \* host has a ServerProc
          puts,      \* how often the last inbound packet was put in complete_list
          toClient   \* packets sent to the watched points

vars == <<slot, calls, attached, puts, toClient>>

Call == [slot : ServerSlot, index : 1..MaxIndex, point : Point, tid : TransId, info : Info]

CallPacket    == [type : {"CALL", "RECALL"}, tid : TransId, cslot : ClientSlot, info : Info]
ControlPacket == [type : {"ACK", "SENDRET"}, tid : TransId, cslot : ClientSlot, sslot : ServerSlot]
InboundPacket == CallPacket \cup ControlPacket

AnswerPacket   == [type : {"RET"}, tid : TransId, cslot : ClientSlot, sslot : ServerSlot, ans : Call]
ReplyPacket    == [type : {"CANCEL", "RERET", "NOINFO"}, tid : TransId,
                   cslot : ClientSlot, sslot : ServerSlot]
OutboundPacket == AnswerPacket \cup ReplyPacket

Active == {i \in ServerSlot : slot[i].active}

\* The call that the transaction in slot i was started with.
CallOf(i) == [slot |-> i, index |-> slot[i].index, point |-> slot[i].point,
              tid |-> slot[i].tid, info |-> slot[i].info]

\* active_tree : the slot of a transaction, by its key
InTree(p, tid) == {i \in Active : slot[i].point = p /\ slot[i].tid = tid}

\* What could be wrong in the code, to show that the properties see it: here
\* and below, the operators between two such comments.
FoundAnyPoint(p, pk) == {i \in Active : i = pk.sslot /\ slot[i].tid = pk.tid}

AwaitsAnyIndex(c) == slot[c.slot].active /\ slot[c.slot].state = "pending"

AwaitsAnyState(c) == slot[c.slot].active /\ slot[c.slot].index = c.index

\* What the code does.
\* ServerEngine::find
Found(p, pk) == {i \in Active : i = pk.sslot /\ slot[i].tid = pk.tid /\ slot[i].point = p}

\* The test of send_info_locked and send_cancel_locked.
Awaits(c) == /\ slot[c.slot].active
             /\ slot[c.slot].index = c.index
             /\ slot[c.slot].state = "pending"

\* A slot no transaction has used: its fields are not read before they are set.
Blank == [active |-> FALSE, point |-> CHOOSE p \in Point : TRUE, tid |-> CHOOSE t \in TransId : TRUE,
          cslot |-> CHOOSE c \in ClientSlot : TRUE, info |-> CHOOSE d \in Info : TRUE,
          state |-> "pending", index |-> 0, timer |-> FALSE, retry |-> 0, ans |-> NoAnswer]

Init == /\ slot = [i \in ServerSlot |-> Blank]
        /\ calls = {}
        /\ attached = TRUE
        /\ puts = 0
        /\ toClient = [p \in Watched |-> {}]

Send(sent) == toClient' = [p \in Watched |-> toClient[p] \cup {m[2] : m \in {m \in sent : m[1] = p}}]

Control(type, tid, cslot, sslot) == [type |-> type, tid |-> tid, cslot |-> cslot, sslot |-> sslot]

Reply(type, i) == <<slot[i].point, Control(type, slot[i].tid, slot[i].cslot, i)>>

Ret(i, ans) == <<slot[i].point, [type |-> "RET", tid |-> slot[i].tid, cslot |-> slot[i].cslot,
                                 sslot |-> i, ans |-> ans]>>

-----------------------------------------------------------------------------
\* Slot::start, activate : a free slot takes the transaction; without a
\* ServerProc it is cancelled at once.
Started(i, p, pk, state) ==
  slot' = [slot EXCEPT ![i] = [active |-> TRUE, point |-> p, tid |-> pk.tid, cslot |-> pk.cslot,
                               info |-> pk.info, state |-> state, index |-> @.index + 1,
                               timer |-> (state = "cancelled"), retry |-> MaxRetries,
                               ans |-> NoAnswer]]

\* Wrong: without a ServerProc the slot is left to wait.
StartUncancelled(i, p, pk) ==
  /\ slot[i].index < MaxIndex
  /\ Started(i, p, pk, "pending")
  /\ calls' = IF attached THEN calls \cup {[slot |-> i, index |-> slot[i].index + 1, point |-> p,
                                            tid |-> pk.tid, info |-> pk.info]} ELSE calls
  /\ UNCHANGED toClient

\* What the code does.
Start(i, p, pk) ==
  /\ slot[i].index < MaxIndex
  /\ \/ /\ attached
        /\ Started(i, p, pk, "pending")
        /\ calls' = calls \cup {[slot |-> i, index |-> slot[i].index + 1, point |-> p,
                                 tid |-> pk.tid, info |-> pk.info]}
        /\ UNCHANGED toClient
     \/ /\ ~attached
        /\ Started(i, p, pk, "cancelled")
        /\ Send({<<p, Control("CANCEL", pk.tid, pk.cslot, i)>>})
        /\ UNCHANGED calls

\* ServerEngine::inbound_CALL : a known key or no free slot drops the packet
InboundCALL(p, pk) ==
  /\ pk.type = "CALL"
  /\ \/ InTree(p, pk.tid) = {} /\ \E i \in ServerSlot \ Active : Start(i, p, pk)
     \/ (InTree(p, pk.tid) # {} \/ Active = ServerSlot) /\ UNCHANGED <<slot, calls, toClient>>

\* Slot::inbound_RECALL : the answer, or word that there is none yet
Recalled(i, cslot) ==
  IF slot[i].cslot # cslot THEN {}
  ELSE {CASE slot[i].state = "pending"   -> Reply("NOINFO", i)
          [] slot[i].state = "ready"     -> Ret(i, slot[i].ans)
          [] slot[i].state = "cancelled" -> Reply("CANCEL", i)}

\* Wrong: RECALL does not look for the transaction.
InboundRECALLBlind(p, pk) ==
  /\ pk.type = "RECALL"
  /\ \/ \E i \in ServerSlot \ Active : Start(i, p, pk)
     \/ Active = ServerSlot /\ UNCHANGED <<slot, calls, toClient>>

\* ServerEngine::inbound_RECALL : a lost CALL starts here
InboundRECALL(p, pk) ==
  /\ pk.type = "RECALL"
  /\ \/ \E i \in InTree(p, pk.tid) : Send(Recalled(i, pk.cslot)) /\ UNCHANGED <<slot, calls>>
     \/ InTree(p, pk.tid) = {} /\ \E i \in ServerSlot \ Active : Start(i, p, pk)
     \/ /\ InTree(p, pk.tid) = {} /\ Active = ServerSlot
        /\ UNCHANGED <<slot, calls, toClient>>

\* Slot::finish and deactivate
Freed(s) == [s EXCEPT !.active = FALSE, !.ans = NoAnswer]

\* ServerEngine::inbound_ACK : in whatever state the slot is
InboundACK(p, pk) ==
  /\ pk.type = "ACK"
  /\ slot' = [i \in ServerSlot |-> IF i \in Found(p, pk) THEN Freed(slot[i]) ELSE slot[i]]
  /\ UNCHANGED <<calls, toClient>>

\* ServerEngine::inbound_SENDRET : CANCEL when the slot is gone
InboundSENDRET(p, pk) ==
  /\ pk.type = "SENDRET"
  /\ Send(IF Found(p, pk) = {} THEN {<<p, Control("CANCEL", pk.tid, pk.cslot, pk.sslot)>>}
          ELSE {IF slot[i].state = "ready" THEN Ret(i, slot[i].ans) ELSE Reply("CANCEL", i) :
                  i \in {i \in Found(p, pk) : slot[i].state # "pending"}})
  /\ UNCHANGED <<slot, calls>>

\* ServerEngine::inbound_locked on a packet that parses to its end.
Inbound(p, pk) ==
  /\ InboundCALL(p, pk) \/ InboundRECALL(p, pk) \/ InboundACK(p, pk) \/ InboundSENDRET(p, pk)
  /\ puts' = 1
  /\ UNCHANGED attached

\* inbound_locked on a packet with trailing bytes : bad_inbound puts the
\* packet and returns, but for RECALL, where the return is missing and
\* inbound_RECALL puts it again (PacketList::put aborts the program).
InboundMalformed(p, pk) ==
  /\ pk.type \in Malformed
  /\ IF pk.type = "RECALL"
     THEN InboundRECALL(p, pk) /\ puts' = 2
     ELSE puts' = 1 /\ UNCHANGED <<slot, calls, toClient>>
  /\ UNCHANGED attached

\* send_info_locked : the answer to call c, if the call is still awaited
SendInfo(c) ==
  /\ Awaits(c)
  /\ slot' = [slot EXCEPT ![c.slot].state = "ready", ![c.slot].timer = TRUE, ![c.slot].ans = c]
  /\ Send({Ret(c.slot, c)})
  /\ UNCHANGED <<calls, attached, puts>>

\* send_cancel_locked : the refusal of call c, if the call is still awaited
SendCancel(c) ==
  /\ Awaits(c)
  /\ slot' = [slot EXCEPT ![c.slot].state = "cancelled", ![c.slot].timer = TRUE]
  /\ Send({Reply("CANCEL", c.slot)})
  /\ UNCHANGED <<calls, attached, puts>>

\* Wrong: the retries are not bounded.
TickForEver(exp) ==
  /\ exp # {}
  /\ \A i \in exp : slot[i].active /\ slot[i].timer
  /\ slot' = [i \in ServerSlot |-> IF i \in exp THEN [slot[i] EXCEPT !.retry = MaxRetries] ELSE slot[i]]
  /\ Send({Reply("RERET", i) : i \in exp})
  /\ UNCHANGED <<calls, attached, puts>>

\* tick_locked : the ticks of the slots in exp run out, each slot asks its
\* client to answer once more or, out of retries, is freed.
Tick(exp) ==
  /\ exp # {}
  /\ \A i \in exp : slot[i].active /\ slot[i].timer
  /\ LET again == {i \in exp : slot[i].retry > 0} IN
     /\ slot' = [i \in ServerSlot |-> IF i \in again THEN [slot[i] EXCEPT !.retry = @ - 1]
                                      ELSE IF i \in exp THEN Freed(slot[i]) ELSE slot[i]]
     /\ Send({Reply("RERET", i) : i \in again})
  /\ UNCHANGED <<calls, attached, puts>>

\* cancelFrom_locked, called by connection_open, connection_lost and connection_close
CancelFrom(p) ==
  /\ slot' = [i \in ServerSlot |-> IF i \in Active /\ slot[i].point = p THEN Freed(slot[i]) ELSE slot[i]]
  /\ UNCHANGED <<calls, attached, puts, toClient>>

\* cancelAll_locked
CancelAll ==
  /\ slot' = [i \in ServerSlot |-> IF i \in Active THEN Freed(slot[i]) ELSE slot[i]]
  /\ UNCHANGED <<calls, attached, puts, toClient>>

Attach == ~attached /\ attached' = TRUE /\ UNCHANGED <<slot, calls, puts, toClient>>

Detach == attached /\ attached' = FALSE /\ UNCHANGED <<slot, calls, puts, toClient>>

Own == \/ \E c \in calls : SendInfo(c) \/ SendCancel(c)
       \/ \E exp \in SUBSET ServerSlot : Tick(exp)
       \/ \E p \in Point : CancelFrom(p)
       \/ CancelAll \/ Attach \/ Detach

Next == Own \/ \E p \in Point, pk \in InboundPacket : Inbound(p, pk) \/ InboundMalformed(p, pk)

Spec == Init /\ [][Next]_vars

\* The device calls tick() InboundTicksPerSec times a second, so the ticks of
\* a slot that waits for its client run out again and again.
FairSpec == Spec /\ \A i \in ServerSlot : WF_vars(\E exp \in SUBSET ServerSlot : i \in exp /\ Tick(exp))

-----------------------------------------------------------------------------
SlotType == [active : BOOLEAN, point : Point, tid : TransId, cslot : ClientSlot, info : Info,
             state : {"pending", "ready", "cancelled"}, index : 0..MaxIndex, timer : BOOLEAN,
             retry : 0..MaxRetries, ans : Call \cup {NoAnswer}]

TypeOK == /\ slot \in [ServerSlot -> SlotType]
          /\ calls \subseteq Call
          /\ attached \in BOOLEAN
          /\ puts \in 0..2
          /\ toClient \in [Watched -> SUBSET OutboundPacket]

\* Two slots never serve one transaction: active_tree has unique keys.
UniqueKey == \A i, j \in Active : slot[i].point = slot[j].point /\ slot[i].tid = slot[j].tid => i = j

\* A slot that waits for its ServerProc has given it the call, with the index
\* that send_info() will name: nothing else ever frees such a slot but its
\* client, for its timer does not run.
PendingWasCalled == \A i \in Active : slot[i].state = "pending" => CallOf(i) \in calls

\* A slot answers with the answer to its own call, never with a late answer
\* to a call the slot served before.
AnswerIsOwn == \A i \in Active : slot[i].state = "ready" => slot[i].ans = CallOf(i)

\* A slot that has decided is never stuck: its timer runs until it is freed.
DecidedHasTimer == \A i \in Active : slot[i].state # "pending" => slot[i].timer

\* Every inbound packet is completed: put once in the list, not leaked and
\* not put twice (PacketList::put : "packet is in list on put(...)").
PacketPutOnce == puts <= 1

\* What a slot answers a transaction does not change until the slot is freed.
DecisionIsFinal ==
  [][\A i \in Active : slot'[i].active /\ slot'[i].index = slot[i].index /\ slot[i].state # "pending"
       => slot'[i].state = slot[i].state /\ slot'[i].ans = slot[i].ans]_vars

\* No packet of one client touches the transaction of another one.
PointsIsolated ==
  [][\A p \in Point, pk \in InboundPacket : Inbound(p, pk) =>
       \A i \in Active : slot[i].point # p => slot'[i] = slot[i]]_vars

\* A decided slot is freed even if its client never comes back.
DecidedIsFreed ==
  \A i \in ServerSlot, n \in 1..MaxIndex :
    slot[i].active /\ slot[i].index = n /\ slot[i].state # "pending"
      ~> ~(slot[i].active /\ slot[i].index = n)
=============================================================================
