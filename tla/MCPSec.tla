------------------------------- MODULE MCPSec -------------------------------
(***************************************************************************)
(* The parts of a secure connection that keep state, each for itself: the  *)
(* handshake that makes its first key, the exchange of its keys and the    *)
(* window of its packets.  A behaviour exercises the one it has chosen at  *)
(* the start.                                                              *)
(***************************************************************************)
EXTENDS PSecKeys

CONSTANTS MaxRetry, MaxCount, MaxRuns, MaxAccepts, None,
          UnitBits, WinUnits, ForeLen, NumMod, MaxLate, MaxLead

VARIABLES part,
          client, runs, proc, draws, toServer, toClient, opened, forgotten,
          base, bits, out_sequence_number, taken, lead

H == INSTANCE PKE WITH MaxDraws <- MaxAccepts
R == INSTANCE AntiReplay

\* A copy is refused as too old, or too far ahead, by its number: so there are more
\* numbers than those of the window, those past its end that are taken, and those of
\* the packets whose copies may still come.
ASSUME WindowAssumption == /\ {UnitBits, WinUnits, MaxLate} \subseteq Nat \ {0}
                           /\ {ForeLen, NumMod, MaxLead} \subseteq Nat
                           /\ MaxLate + R!WinLen + ForeLen <= NumMod
                           /\ MaxLead + R!WinLen <= NumMod

ASSUME HandshakeAssumption == /\ MaxCount \in Nat \ {0} /\ MaxRetry \in Nat
                              /\ None \notin H!Pairs /\ None \notin H!Packets /\ None \notin H!Procs

handshakeVars == <<client, runs, proc, draws, toServer, toClient, opened, forgotten>>
windowVars == <<base, bits, out_sequence_number, taken, lead>>

MCInit == part \in {"Handshake", "Keys", "Window"} /\ H!Init /\ Init /\ R!Init

HandshakeNext == part = "Handshake" /\ H!Next /\ UNCHANGED <<part, vars, windowVars>>

KeysNext == part = "Keys" /\ Next /\ UNCHANGED <<part, handshakeVars, windowVars>>

WindowNext == part = "Window" /\ R!Next /\ UNCHANGED <<part, handshakeVars, vars>>

MCNext == HandshakeNext \/ KeysNext \/ WindowNext

\* The fairness of the part that is exercised: the actions of the others stay
\* enabled, and are never taken.
KeysFairness ==
  \A e \in End : /\ WF_vars(part = "Keys" /\ \E p \in net : Inbound(e, p))
                 /\ \A i \in Index : /\ WF_vars(part = "Keys" /\ (TickBase(e, i) \/ TickNext(e, i) \/ TickAge(e, i)))
                                     /\ WF_vars(part = "Keys" /\ TickRepeat(e, i))

HandshakeFairness == /\ WF_handshakeVars(part = "Handshake" /\ H!ClientTick)
                     /\ WF_handshakeVars(part = "Handshake" /\ H!ServerTick)

MCSpec == MCInit /\ [][MCNext]_<<part, handshakeVars, vars, windowVars>> /\ KeysFairness /\ HandshakeFairness

-----------------------------------------------------------------------------
\* PKE!SameSession and PKE!DoneIsRepeated: a client that is done has one endpoint
\* at the server, with its session key, and the server repeats the end of a
\* handshake while its client waits for it.
HandshakeKept == H!SameSession /\ H!DoneIsRepeated

\* AntiReplay!WindowExact: what the window refuses is what was taken already,
\* is too old or too far ahead.
WindowExact == R!WindowExact

\* PSecKeys!RekeyEnds and PKE!HandshakeEnds: every session ends at both ends, of
\* an exchange of keys and of a handshake.
SessionsEnd == RekeyEnds /\ <>[](part = "Handshake" => H!HandshakeOver)
=============================================================================
