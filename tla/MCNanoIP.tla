------------------------------ MODULE MCNanoIP ------------------------------
(***************************************************************************)
(* The device with two packets to two hosts and no cancellers, or with     *)
(* three packets to one host and their cancellers; or a Mutex, such as     *)
(* guards its lists, for what who waits for it may expect (its safety is   *)
(* checked in MCTaskObjects).                                              *)
(***************************************************************************)
EXTENDS NanoIP

CONSTANTS Thread, NoThread, Nesting

VARIABLES part,
          entry, sem, task_id, reentry, pc

MX == INSTANCE Mutex

lockVars == <<entry, sem, task_id, reentry, pc>>

MCInit == Init /\ MX!Init /\ part \in {"Hosts", "OneHost", "Mutex"}

OneHost == CHOOSE h \in Host : TRUE

IpNext == /\ part # "Mutex" /\ Next
          /\ part = "Hosts" => dst'[3] = NoHost /\ \A p \in Out : cancel_state'[p] # "Cancelled"
          /\ part = "OneHost" => Hosts(arp_table') \cup {dst'[p] : p \in Out} \subseteq {OneHost, NoHost}
          /\ UNCHANGED <<part, lockVars>>

LockNext == part = "Mutex" /\ MX!Next /\ UNCHANGED <<part, vars>>

MCSpec == MCInit /\ [][IpNext \/ LockNext]_<<part, vars, lockVars>> /\ Fairness /\ MX!Fairness

-----------------------------------------------------------------------------
\* Each packet is on a list that will be looked at, or its canceller's, until it is
\* sent or completed, once; the packets to a host keep their order; and no host is
\* forgotten before it was asked.
PacketsKept == OneCompletes /\ ListsMatch /\ OrderKept /\ AskedWhenDue

\* Who waits for the Mutex is granted it, Mutex!LockGranted; and each packet is sent
\* or completed though its host never answers, NanoIP!AllComplete.
WaitsEnd == MX!LockGranted /\ AllComplete
=============================================================================
