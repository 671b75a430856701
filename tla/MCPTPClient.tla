---------------------------- MODULE MCPTPClient ----------------------------
(***************************************************************************)
(* The client engine, and the console service that is built on it: its     *)
(* client and server together, and the writer of the server against any    *)
(* client.  A behaviour exercises the part it has chosen.                  *)
(***************************************************************************)
EXTENDS PTPClient

CONSTANTS Write, Task,  \* of the console client
          MaxOpens,
          MaxCalls,     \* bound of the calls to open() and the packets given to write()
          NumMod, write_ticks,
          ConFrames, WriterFrames, \* BufLen of the server of the console, and of the writer
          MaxLead, MaxLate

\* At most a quarter of the numbers are those of the frames, 128 of 2^32 in the code.
ASSUME ConsoleAssumption == /\ IsFiniteSet(Write) /\ IsFiniteSet(Task)
                            /\ {MaxOpens, MaxCalls, NumMod, write_ticks, MaxLead, MaxLate} \subseteq Nat
                            /\ {ConFrames, WriterFrames} \subseteq Nat \ {0}
                            /\ \A n \in {ConFrames, WriterFrames} : 4 * n <= NumMod

\* The client counts on by one with each text, so what is on its way is less than
\* half the numbers ahead; a number that is more than that ahead was passed.
ASSUME LeadAssumption == MaxLead + 2 <= NumMod \div 2 /\ MaxLate <= NumMod - NumMod \div 2

VARIABLES part,
          c_opened, con_id, write_number, list, list_count, packet_count, status, sent, pc, at,
          owner, opens, calls, is_opened, server_id, writer, last, skipped, shown,
          w_opened, w_writer, w_last, w_skipped

conVars == <<c_opened, con_id, write_number, list, list_count, packet_count, status, sent, pc, at,
             owner, opens, calls, is_opened, server_id, writer, last, skipped, shown>>
writerVars == <<w_opened, w_writer, w_last, w_skipped>>

C == INSTANCE PTPCon WITH BufLen <- ConFrames

W == INSTANCE PTPConWrite WITH BufLen <- WriterFrames, is_opened <- w_opened, writer <- w_writer,
                               last <- w_last, skipped <- w_skipped

MCInit == /\ part \in {"Engine", "Console", "Writer"}
          /\ Init /\ C!Init /\ W!Init

EngineNext == part = "Engine" /\ Next /\ UNCHANGED <<part, conVars, writerVars>>

ConsoleNext == /\ part = "Console" /\ C!Next
               /\ opens' + Cardinality({w \in Write : status'[w] # "new"}) <= MaxCalls
               /\ UNCHANGED <<part, vars, writerVars>>

WriterNext == part = "Writer" /\ W!Next /\ UNCHANGED <<part, vars, conVars>>

MCNext == EngineNext \/ ConsoleNext \/ WriterNext

MCSpec == /\ MCInit /\ [][MCNext]_<<part, vars, conVars, writerVars>>
          /\ Fairness /\ C!Fairness

-----------------------------------------------------------------------------
\* PTPCon!OneOnTheWay and OkIsKept, PTPConWrite!OkMeansAll and FramesMatch: one
\* write is on its way at a time, and no text whose write was answered Ok is lost.
TextsKept == C!OneOnTheWay /\ C!OkIsKept /\ W!OkMeansAll /\ W!FramesMatch

\* PTPConWrite!NeverBack: the texts are printed in their order.
TextsInOrder == W!NeverBack

\* Every transaction and write that is begun ends: PTPClient!StartedCompletes and
\* PTPCon!WritesEnd.
CallsEnd == StartedCompletes /\ C!WritesEnd
=============================================================================
