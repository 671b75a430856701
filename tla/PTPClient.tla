----------------------------- MODULE PTPClient -----------------------------
(***************************************************************************)
(* class PTP::ClientEngine : transactions wait in pending_list for a free  *)
(* slot, a slot repeats its request until the server answers or the        *)
(* retries run out, and the packet of the transaction is completed once    *)
(* with the result.  The packet may be cancelled at any time by its owner: *)
(* PacketHeader::cancel_state decides which of the canceller and the       *)
(* engine completes it, and the canceller runs abort() later, on its own.  *)
(*                                                                         *)
(* A transaction is named by its trans_id: getTransId() counts them.       *)
(***************************************************************************)
EXTENDS Integers, Sequences, FiniteSets

CONSTANTS Trans, ClientSlot, ServerSlot,
          Answer,      \* the contents of a RET
          NoAnswer,
          Long,        \* transactions with more data than max_outbound_info_len
          MaxRetries,  \* Slot::retry_count at the start
          Recorded     \* types of the outbound packets that are recorded

ASSUME ClientAssumption == /\ MaxRetries \in Nat /\ Long \subseteq Trans /\ IsFiniteSet(ClientSlot)
                           /\ Trans # {} /\ ClientSlot # {} /\ ServerSlot # {}

VARIABLES trans,     \* the packets given to start() : TransExt and PacketHeader::cancel_state
          cslot,     \* slots[]
          pending,   \* pending_list
          aborting,  \* cancelled packets whose canceller has still to run abort()
          toServer   \* packets sent to the server

vars == <<trans, cslot, pending, aborting, toServer>>

CallPacket    == [type : {"CALL", "RECALL"}, tid : Trans, cslot : ClientSlot, info : Trans]
ControlPacket == [type : {"ACK", "SENDRET"}, tid : Trans, cslot : ClientSlot, sslot : ServerSlot]
AnswerPacket  == [type : {"RET"}, tid : Trans, cslot : ClientSlot, sslot : ServerSlot, ans : Answer]
ReplyPacket   == [type : {"CANCEL", "RERET", "NOINFO"}, tid : Trans,
                  cslot : ClientSlot, sslot : ServerSlot]
InboundPacket == AnswerPacket \cup ReplyPacket

\* result : "Initial" until setError() or setInfo()
NewTrans == [state |-> "New", slot |-> CHOOSE s \in ClientSlot : TRUE, result |-> "Initial",
             ans |-> NoAnswer, cancel |-> "NoFunction", completed |-> 0]

NewSlot == [active |-> FALSE, trans |-> CHOOSE t \in Trans : TRUE,
            sslot |-> CHOOSE s \in ServerSlot : TRUE, no_info |-> FALSE, retry |-> 0]

Init == /\ trans = [t \in Trans |-> NewTrans]
        /\ cslot = [s \in ClientSlot |-> NewSlot]
        /\ pending = << >>
        /\ aborting = {}
        /\ toServer = {}

Sent(packets) == toServer' = toServer \cup {m \in packets : m.type \in Recorded}

CallFrom(type, t, s)       == [type |-> type, tid |-> t, cslot |-> s, info |-> t]
Control(type, t, s, sslot) == [type |-> type, tid |-> t, cslot |-> s, sslot |-> sslot]

\* What could be wrong in the code, to show that the properties see it: here
\* and below, the operators between two such comments.
ClearCancelBlind(x) == [x EXCEPT !.completed = @ + 1]

\* What the code does.
\* clearCancelFunction()#Packet_Cancelled : the engine completes the packet,
\* else the canceller does, in abort()
ClearCancel(x) == IF x.cancel = "Cancelled" THEN x
                  ELSE [x EXCEPT !.cancel = "NoFunction", !.completed = @ + 1]

CompleteError(x, result) == ClearCancel([x EXCEPT !.state = "Completed", !.result = result])

CompleteInfo(x, ans) ==
  ClearCancel(IF x.cancel = "Cancelled" THEN [x EXCEPT !.state = "Completed", !.result = "Aborted"]
              ELSE [x EXCEPT !.state = "Completed", !.result = "Ok", !.ans = ans])

\* Slot::start
Started(cs, s, t) == [cs[s] EXCEPT !.active = TRUE, !.trans = t, !.no_info = FALSE, !.retry = MaxRetries]

(***************************************************************************)
(* ClientEngine::pump, the end of most handlers, from the state tr, cs, q  *)
(* the handler has made, with the packets it has sent: while a slot is     *)
(* free the next transaction starts in it, or fails when it is too long.   *)
(***************************************************************************)
Pump(tr, cs, q, sent) ==
  LET free     == {s \in ClientSlot : ~cs[s].active}
      fit(n)   == {q[k] : k \in 1..n} \ Long
      fits(n)  == Cardinality(fit(n))
  IN \E n \in 0..Len(q) :
       /\ \A m \in 0..(n - 1) : fits(m) < Cardinality(free)
       /\ n = Len(q) \/ fits(n) = Cardinality(free)
       /\ \E at \in [fit(n) -> free] :
            /\ \A t, u \in fit(n) : at[t] = at[u] => t = u
            /\ trans' = [t \in Trans |->
                 IF t \in fit(n) THEN [tr[t] EXCEPT !.state = "Active", !.slot = at[t]]
                 ELSE IF \E k \in 1..n : q[k] = t THEN CompleteError(tr[t], "BadDataLen")
                 ELSE tr[t]]
            /\ cslot' = [s \in ClientSlot |->
                 IF \E t \in fit(n) : at[t] = s
                 THEN Started(cs, s, CHOOSE t \in fit(n) : at[t] = s) ELSE cs[s]]
            /\ Sent(sent \cup {CallFrom("CALL", t, at[t]) : t \in fit(n)})
       /\ pending' = SubSeq(q, n + 1, Len(q))

\* Wrong: a freed slot is found, or a slot by its number only.
FoundFreed(pk) == {s \in ClientSlot : s = pk.cslot /\ cslot[s].trans = pk.tid /\ trans[pk.tid].state # "New"}

FoundAnyTrans(pk) == {s \in ClientSlot : s = pk.cslot /\ cslot[s].active}

\* ClientEngine::find, which also notes the server's slot
Found(pk) == {s \in ClientSlot : s = pk.cslot /\ cslot[s].active /\ cslot[s].trans = pk.tid}

Freed(cs, s) == [cs EXCEPT ![s].active = FALSE]

-----------------------------------------------------------------------------
\* start_locked : a packet cancelled before start() fails at once
Start(t) ==
  /\ trans[t].state = "New"
  /\ \/ /\ trans[t].cancel = "NoFunction"
        /\ Pump([trans EXCEPT ![t].cancel = "HasFunction", ![t].state = "Pending"],
                cslot, Append(pending, t), {})
     \/ /\ trans[t].cancel = "Cancelled"
        /\ trans' = [trans EXCEPT ![t].state = "Completed", ![t].result = "Aborted",
                                  ![t].completed = @ + 1]
        /\ UNCHANGED <<cslot, pending, toServer>>
  /\ UNCHANGED aborting

\* PacketHeader::getCancelFunction by the canceller : it takes the cancel
\* function, if there is one, and will call it
Cancel(t) ==
  /\ trans[t].cancel # "Cancelled"
  /\ trans' = [trans EXCEPT ![t].cancel = "Cancelled"]
  /\ aborting' = IF trans[t].cancel = "HasFunction" THEN aborting \cup {t} ELSE aborting
  /\ UNCHANGED <<cslot, pending, toServer>>

\* Wrong: the slot of an aborted transaction is not freed.
AbortKeepsSlot(t) ==
  /\ t \in aborting
  /\ aborting' = aborting \ {t}
  /\ pending' = SelectSeq(pending, LAMBDA u : u # t)
  /\ trans' = [trans EXCEPT ![t].completed = @ + 1,
                            ![t].result = IF trans[t].state = "Completed" THEN @ ELSE "Aborted",
                            ![t].state = "Completed"]
  /\ UNCHANGED <<cslot, toServer>>

\* pending_list.del() of the k-th packet
Without(q, k) == SubSeq(q, 1, k - 1) \o SubSeq(q, k + 1, Len(q))

\* ClientEngine::abort, the cancel function : no ACK is sent and no other
\* transaction takes the slot before the next pump
Abort(t) ==
  /\ t \in aborting
  /\ aborting' = aborting \ {t}
  /\ \/ /\ trans[t].state = "Pending"
        /\ \E k \in DOMAIN pending : pending[k] = t /\ pending' = Without(pending, k)
        /\ UNCHANGED cslot
     \/ /\ trans[t].state = "Active"
        /\ cslot' = Freed(cslot, trans[t].slot)
        /\ UNCHANGED pending
     \/ /\ trans[t].state = "Completed"
        /\ UNCHANGED <<cslot, pending>>
  /\ trans' = [trans EXCEPT ![t].completed = @ + 1,
                            ![t].result = IF trans[t].state = "Completed" THEN @ ELSE "Aborted",
                            ![t].state = "Completed"]
  /\ UNCHANGED toServer

\* inbound_RET, inbound_CANCEL : the transaction ends
InboundEnd(pk) ==
  /\ pk.type \in {"RET", "CANCEL"}
  /\ \/ \E s \in Found(pk) :
          Pump([trans EXCEPT ![cslot[s].trans] = IF pk.type = "RET" THEN CompleteInfo(@, pk.ans)
                                                 ELSE CompleteError(@, "Cancelled")],
               [Freed(cslot, s) EXCEPT ![s].sslot = pk.sslot],
               pending, {Control("ACK", cslot[s].trans, s, pk.sslot)})
     \/ /\ Found(pk) = {}
        /\ Pump(trans, cslot, pending, {Control("ACK", pk.tid, pk.cslot, pk.sslot)})

\* Wrong: RERET is answered as if the transaction were over.
InboundAskAcks(pk) ==
  /\ pk.type \in {"NOINFO", "RERET"}
  /\ Pump(trans, cslot, pending, {Control("ACK", pk.tid, pk.cslot, pk.sslot)})

\* inbound_NOINFO, inbound_RERET : the server has no answer yet, or asks to
\* fetch it
InboundAsk(pk) ==
  /\ pk.type \in {"NOINFO", "RERET"}
  /\ \/ \E s \in Found(pk) :
          Pump(trans,
               [cslot EXCEPT ![s].sslot = pk.sslot, ![s].no_info = @ \/ pk.type = "NOINFO"],
               pending,
               IF pk.type = "RERET" THEN {Control("SENDRET", cslot[s].trans, s, pk.sslot)} ELSE {})
     \/ /\ Found(pk) = {}
        /\ Pump(trans, cslot, pending, {Control("ACK", pk.tid, pk.cslot, pk.sslot)})

\* inbound_locked
Inbound(pk) == (InboundEnd(pk) \/ InboundAsk(pk)) /\ UNCHANGED aborting

\* Slot::tick of a slot whose ticks have run out and that has retries left
Retry(s) == IF cslot[s].no_info THEN Control("SENDRET", cslot[s].trans, s, cslot[s].sslot)
            ELSE CallFrom("RECALL", cslot[s].trans, s)

\* Wrong: tick() does not pump.
TickNoPump(exp) ==
  /\ \A s \in exp : cslot[s].active
  /\ LET ends == {s \in exp : cslot[s].retry = 0}
     IN /\ trans' = [t \in Trans |-> IF \E s \in ends : cslot[s].trans = t
                                     THEN CompleteError(trans[t], "Timeout") ELSE trans[t]]
        /\ cslot' = [s \in ClientSlot |->
                       IF s \in ends THEN [cslot[s] EXCEPT !.active = FALSE]
                       ELSE IF s \in exp THEN [cslot[s] EXCEPT !.retry = @ - 1] ELSE cslot[s]]
  /\ UNCHANGED <<pending, aborting, toServer>>

\* tick_locked : the ticks of the slots in exp run out
Tick(exp) ==
  /\ \A s \in exp : cslot[s].active
  /\ LET again == {s \in exp : cslot[s].retry > 0}
         ends  == exp \ again
     IN Pump([t \in Trans |-> IF \E s \in ends : cslot[s].trans = t
                              THEN CompleteError(trans[t], "Timeout") ELSE trans[t]],
             [s \in ClientSlot |-> IF s \in again THEN [cslot[s] EXCEPT !.retry = @ - 1]
                                   ELSE IF s \in ends THEN [cslot[s] EXCEPT !.active = FALSE]
                                   ELSE cslot[s]],
             pending, {Retry(s) : s \in again})
  /\ UNCHANGED aborting

\* abortAll_locked, called by connection_lost, connection_close and the destructor
AbortAll ==
  /\ trans' = [t \in Trans |-> IF trans[t].state \in {"Pending", "Active"}
                               THEN CompleteError(trans[t], "Aborted") ELSE trans[t]]
  /\ cslot' = [s \in ClientSlot |-> [cslot[s] EXCEPT !.active = FALSE]]
  /\ pending' = << >>
  /\ UNCHANGED <<aborting, toServer>>

Own == \/ \E t \in Trans : Start(t) \/ Cancel(t) \/ Abort(t)
       \/ \E exp \in SUBSET ClientSlot : Tick(exp)
       \/ AbortAll

Next == Own \/ \E pk \in InboundPacket : Inbound(pk)

Spec == Init /\ [][Next]_vars

(***************************************************************************)
(* The device calls tick() all the time, so the ticks of every slot run    *)
(* out again and again and pump() is called, and a canceller that has      *)
(* taken the cancel function calls it.                                     *)
(***************************************************************************)
Fairness == /\ \A s \in ClientSlot : WF_vars(\E exp \in SUBSET ClientSlot : s \in exp /\ Tick(exp))
            /\ WF_vars(\E exp \in SUBSET ClientSlot : Tick(exp) /\ Len(pending') < Len(pending))
            /\ \A t \in Trans : WF_vars(Abort(t))

-----------------------------------------------------------------------------
Result == {"Initial", "Ok", "Aborted", "Cancelled", "Timeout", "BadDataLen"}

TransExt == [state : {"New", "Pending", "Active", "Completed"}, slot : ClientSlot,
             result : Result, ans : Answer \cup {NoAnswer},
             cancel : {"NoFunction", "HasFunction", "Cancelled"}, completed : 0..1]

Slot == [active : BOOLEAN, trans : Trans, sslot : ServerSlot, no_info : BOOLEAN, retry : 0..MaxRetries]

TypeOK ==
  /\ trans \in [Trans -> TransExt]
  /\ cslot \in [ClientSlot -> Slot]
  /\ pending \in Seq(Trans)
  /\ aborting \subseteq Trans
  /\ toServer \subseteq CallPacket \cup ControlPacket

\* The slot that abort() reads from the packet of a transaction is the one
\* that serves it, no slot serves a transaction that is over, and
\* pending_list.del() finds the packet it is called for.
SlotsMatch ==
  /\ TypeOK
  /\ \A t \in Trans : trans[t].state = "Active" =>
       cslot[trans[t].slot].active /\ cslot[trans[t].slot].trans = t
  /\ \A s \in ClientSlot : cslot[s].active =>
       trans[cslot[s].trans].state = "Active" /\ trans[cslot[s].trans].slot = s
  /\ \A t \in Trans : trans[t].state = "Pending" <=> \E k \in DOMAIN pending : pending[k] = t
  /\ \A k, l \in DOMAIN pending : pending[k] = pending[l] => k = l

\* A packet is completed by the engine or by its canceller, not by both and
\* not by none: it is not given back while its canceller has still to run
\* abort() on it, and one that is over but not given back has a canceller.
CompletedByOne ==
  \A t \in Trans :
    /\ t \in aborting => trans[t].completed = 0 /\ trans[t].state # "New"
    /\ trans[t].state = "Completed" => (trans[t].completed = 1 \/ t \in aborting)
    /\ trans[t].completed = 1 => trans[t].state = "Completed" /\ trans[t].result # "Initial"

\* Both.
TransMatch == SlotsMatch /\ CompletedByOne

\* The result of a transaction given back to its owner does not change.
ResultIsFinal ==
  [][\A t \in Trans : trans[t].completed = 1 =>
       trans'[t].completed = 1 /\ trans'[t].result = trans[t].result /\ trans'[t].ans = trans[t].ans]_vars

\* Every transaction given to start() is given back, whatever the server does.
StartedCompletes == <>[]\A t \in Trans : trans[t].state = "New" \/ trans[t].completed = 1
=============================================================================
