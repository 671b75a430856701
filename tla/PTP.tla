-------------------------------- MODULE PTP --------------------------------
(***************************************************************************)
(* A ClientEngine and a ServerEngine over a packet network.  The packets   *)
(* sent so far stay in toServer and toClient for ever and any of them may  *)
(* be delivered at any time: so the network loses, repeats and reorders    *)
(* them.  The threads of both ends send after they unlock their engines,   *)
(* and this covers the orders their packets can leave in too.              *)
(***************************************************************************)
EXTENDS Integers, Sequences, FiniteSets

CONSTANTS Trans, ClientSlot, ServerSlot, Long, ClientRetries, ServerRetries, MaxIndex, Me, NoAnswer

ASSUME NumberAssumption ==
  /\ Trans # {} /\ ClientSlot # {} /\ ServerSlot # {} /\ IsFiniteSet(ClientSlot)
  /\ Long \subseteq Trans
  /\ ClientRetries \in Nat /\ ServerRetries \in Nat /\ MaxIndex \in Nat

VARIABLES trans, cslot, pending, aborting, toServer,
          slot, calls, attached, puts, toClient,
          forsaken \* history: transactions the server has freed on its own

S == INSTANCE PTPServer
       WITH Point <- {Me}, TransId <- Trans, Info <- Trans, Watched <- {Me},
            MaxRetries <- ServerRetries, Malformed <- {}

C == INSTANCE PTPClient
       WITH Answer <- S!Call, MaxRetries <- ClientRetries,
            Recorded <- {"CALL", "RECALL", "ACK", "SENDRET"}

\* The answer of a transaction is none before it has one.
ASSUME AnswerAssumption == NoAnswer \notin S!Call

clientVars == <<trans, cslot, pending, aborting, toServer>>
serverVars == <<slot, calls, attached, puts, toClient>>
vars == <<clientVars, serverVars, forsaken>>

Init == C!Init /\ S!Init /\ forsaken = {}

Client == /\ C!Own \/ \E m \in toClient[Me] : C!Inbound(m)
          /\ UNCHANGED <<serverVars, forsaken>>

ServerReceives == /\ \E m \in toServer : S!Inbound(Me, m)
                  /\ UNCHANGED <<clientVars, forsaken>>

ServerOwn == /\ S!Own
             /\ forsaken' = forsaken \cup {slot[i].tid : i \in {i \in S!Active : ~slot'[i].active}}
             /\ UNCHANGED clientVars

Next == Client \/ ServerReceives \/ ServerOwn

Spec == Init /\ [][Next]_vars

-----------------------------------------------------------------------------
TypeOK == C!TypeOK /\ S!TypeOK /\ forsaken \subseteq Trans

\* An ACK, of which the server frees the slot in whatever state it is, is
\* only sent when the client has stopped waiting for the transaction.
AckMeansDone == \A m \in toServer : m.type = "ACK" => trans[m.tid].state = "Completed"

\* While the client waits, its request is given to the ServerProc once, and it
\* does not end the slot that serves it.
ExecutedOnce ==
  /\ AckMeansDone
  /\ \A t \in Trans : trans[t].state = "Active" /\ t \notin forsaken
                        => \A c, d \in calls : c.tid = t /\ d.tid = t => c = d

ExecutionOf(c) == <<c.info, <<c.slot, c.index>>>>

Outcome(t) == [how  |-> CASE trans[t].state = "New"               -> "New"
                          [] trans[t].state \in {"Pending", "Active"} -> "Asked"
                          [] trans[t].state = "Completed"         -> trans[t].result,
               from |-> IF trans[t].ans = NoAnswer THEN <<>> ELSE ExecutionOf(trans[t].ans)]

\* PTP implements a remote call.
Remote == INSTANCE RemoteCall
            WITH Execution <- ServerSlot \X (1..MaxIndex),
                 Failure <- {"Aborted", "Cancelled", "Timeout", "BadDataLen"},
                 outcome <- [t \in Trans |-> Outcome(t)],
                 executed <- {ExecutionOf(c) : c \in calls}
RemoteCallOK == Remote!Spec
=============================================================================
