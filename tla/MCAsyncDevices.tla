--------------------------- MODULE MCAsyncDevices ---------------------------
(***************************************************************************)
(* The devices with a task that waits for the system, and the reader of    *)
(* the console server, which waits for keys: one of them in a behaviour.   *)
(* The UDP device sends the packets and has a read started that never      *)
(* ends, or reads and sends none, or does both with one packet each.  The  *)
(* file device has one slot, two slots and one user, two slots and no      *)
(* cancellers, or three slots, one user and no cancellers.                 *)
(***************************************************************************)
EXTENDS AsyncUDPDevice, FiniteSets

CONSTANTS Index, User, Completor, Work, NoWork, NoSlot,
          Read, None, Len_Fifo, read_ticks

ASSUME DevicesAssumption == NoPacket \notin Out /\ {max_packets, PushLimit, MaxInside} \subseteq Nat

ASSUME FilesAssumption == /\ IsFiniteSet(Index) /\ Index = 0..(Cardinality(Index) - 1)
                          /\ IsFiniteSet(User) /\ Completor \notin User
                          /\ NoWork \notin Work /\ NoSlot \notin Index

ASSUME ReaderAssumption == None \notin Read /\ {Len_Fifo, read_ticks} \subseteq Nat

VARIABLES part,
          handle_buf, index_buf, slot, sem, sem_first, event,
          max_slots, avail_list, active_list, work, delay_list, delayed, fileCancel, fileCalling,
          pc, at, bringing, pending, fileOwner, fileCompleted,
          is_opened, fifo, avail, is_started, outbound, ticks, where, cancel, readExt, complete_list

F == INSTANCE AsyncFileProcessor WITH cancel_state <- fileCancel, calling <- fileCalling,
                                      owner <- fileOwner, completed <- fileCompleted

R == INSTANCE PTPConRead WITH ext <- readExt

fileVars == <<handle_buf, index_buf, slot, sem, sem_first, event, max_slots, avail_list, active_list,
              work, delay_list, delayed, fileCancel, fileCalling, pc, at, bringing, pending,
              fileOwner, fileCompleted>>

readerVars == <<is_opened, fifo, avail, is_started, outbound, ticks, where, cancel, readExt, complete_list>>

Udp == {"Out", "In", "Both"}

Files == {"Slots1", "User2", "Slots2", "Slots3"}

PutLimit == CASE part = "Out" -> Cardinality(Out) [] part = "In" -> 0 [] part = "Both" -> 1

HeldLimit == CASE part = "Out" -> 0 [] part = "In" -> max_packets [] part = "Both" -> 1

MCInit == /\ Init /\ F!Init /\ R!Init
          /\ part \in Udp \cup Files \cup {"Reader"}
          /\ max_slots = CASE part \in {"User2", "Slots2"} -> 2 [] part = "Slots3" -> 3 [] OTHER -> 1

UdpNext ==
  /\ part \in Udp
  /\ Next
  /\ Cardinality({p \in Out : completed'[p] = 0}) <= PutLimit
  /\ held' <= HeldLimit \/ owner' = "finishing"
  /\ UNCHANGED <<part, fileVars, readerVars>>

FileNext ==
  /\ part \in Files
  /\ F!Next
  /\ part \in {"Slots2", "Slots3"} => \A p \in Work : fileCancel'[p] # "Cancelled"
  /\ part \in {"User2", "Slots3"} => Cardinality({u \in User : pc'[u] # "idle"}) <= 1
  /\ UNCHANGED <<part, vars, readerVars>>

ReaderNext == part = "Reader" /\ R!Next /\ UNCHANGED <<part, vars, fileVars>>

MCNext == UdpNext \/ FileNext \/ ReaderNext

MCSpec == /\ MCInit /\ [][MCNext]_<<part, vars, fileVars, readerVars>>
          /\ WF_vars(part \in Udp /\ (PushOut \/ PushIn)) /\ OthersRun
          /\ F!Fairness /\ R!Fairness

-----------------------------------------------------------------------------
\* Each packet to send, to read or to write is in one place until it is
\* completed, once, whatever its canceller does meanwhile.
PacketsMatch == OneCompletes /\ F!OneCompletes

\* What a device counts is what there is, up to its destruction: AsyncUDPDevice!FinishIsLast,
\* and no slot is lost, or idle while a packet waits, each slot for the Completor
\* has its unit of the interrupt, and what the system returns is what has ended.
CountersMatch == FinishIsLast /\ F!SlotsMatch /\ F!UnitsMatch /\ F!WaitListOK

\* PTPConRead!OneIsHeld and NoneWaits: a late canceller takes no other read away,
\* and no read waits for keys that are there.
ReadsMatch == R!OneIsHeld /\ R!NoneWaits

\* A packet to send leaves the list, every packet to read or to write is
\* completed, and every read of the console ends: AsyncUDPDevice!PutIsSent,
\* AsyncFileProcessor!AllComplete and PTPConRead!ReadsEnd.
Served == PutIsSent /\ F!AllComplete /\ R!ReadsEnd

\* Both tasks stop when they are told to, and finish() returns.
StopsReturn == StopReturns /\ F!StopReturns
=============================================================================
