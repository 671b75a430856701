------------------------------- MODULE MCPTP -------------------------------
(***************************************************************************)
(* The behaviours of PTP that one run checks: those of a single            *)
(* transaction that may use any slot of the server once, and those of      *)
(* transactions that use the same slot one after the other, in which the   *)
(* server frees it when it is told to and not when its timer runs out.     *)
(***************************************************************************)
EXTENDS PTP

CONSTANTS FirstTrans, FirstSlot

OneTransaction == /\ \A t \in Trans \ FirstTrans : trans[t] = C!NewTrans
                  /\ \A i \in ServerSlot : slot[i].index <= 1

OneSlot == /\ \A i \in ServerSlot \ FirstSlot : slot[i].index = 0
           /\ \A m \in toClient[Me] : m.type # "RERET"

MCNext == Next /\ (OneTransaction \/ OneSlot)'

MCSpec == Init /\ [][MCNext]_vars
=============================================================================
