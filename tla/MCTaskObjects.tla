--------------------------- MODULE MCTaskObjects ---------------------------
(***************************************************************************)
(* The objects that tasks share and that share nothing with each other: a  *)
(* behaviour exercises the one it has chosen at the start.                 *)
(***************************************************************************)
EXTENDS AttachmentHost

CONSTANTS Thread,  \* Task are some of them
          NoThread, LockNesting,  \* of Mutex
          InitCount, MaxGive, MaxUnits, InitFlag, Indexes, MaxIndexUnits,
          Owner, Job, Endpoint, NoEndpoint

ASSUME ObjectsAssumption == /\ IsFiniteSet(Thread) /\ Task \subseteq Thread
                            /\ MaxGive \in Nat /\ MaxUnits \in Nat /\ InitCount \in 0..MaxUnits
                            /\ InitFlag \in BOOLEAN
                            /\ Indexes \in Nat \ {0} /\ MaxIndexUnits \in Nat
                            /\ Owner \notin Thread /\ NoEndpoint \notin Endpoint
                            /\ NoThread \notin Thread /\ LockNesting \in Nat \ {0}

VARIABLES part,
          entry, lockSem, task_id, reentry, lockPc,
          semCount, semTakers, semSem, semGives, semPc,
          flag, eventWaiters, eventSem, eventPc,
          counts, base, units, multiPc,
          flags, eventBase, eventUnits, multiEventPc,
          pri, normal, jobUnits, stop_flag, ex_flag, job, told, jobPc,
          list, guard, called, state, ticking, ticks, stayed

MX == INSTANCE Mutex WITH sem <- lockSem, Nesting <- LockNesting, pc <- lockPc
S == INSTANCE Sem WITH count <- semCount, take_count <- semTakers,
                       sem <- semSem, gives <- semGives, pc <- semPc
E == INSTANCE Event WITH wait_count <- eventWaiters, sem <- eventSem, pc <- eventPc
M == INSTANCE MultiSem WITH Thread <- Task, MaxUnits <- MaxIndexUnits, pc <- multiPc
V == INSTANCE MultiEvent WITH Thread <- Task, base <- eventBase, units <- eventUnits, pc <- multiEventPc
J == INSTANCE JobMachine WITH Worker <- Task, Client <- Thread \ Task, units <- jobUnits, pc <- jobPc
T == INSTANCE IPTickList

lockVars  == <<entry, lockSem, task_id, reentry, lockPc>>
semVars   == <<semCount, semTakers, semSem, semGives, semPc>>
eventVars == <<flag, eventWaiters, eventSem, eventPc>>
unitVars  == <<counts, base, units, multiPc>>
flagVars  == <<flags, eventBase, eventUnits, multiEventPc>>
multiVars == <<unitVars, flagVars>>
jobVars   == <<pri, normal, jobUnits, stop_flag, ex_flag, job, told, jobPc>>
tickVars  == <<list, guard, called, state, ticking, ticks, stayed>>

allVars == <<part, vars, lockVars, semVars, eventVars, multiVars, jobVars, tickVars>>

MCInit == /\ part \in {"Mutex", "Sem", "Event", "MultiSem", "MultiEvent", "AttachmentHost", "JobMachine", "TickList"}
          /\ Init /\ MX!Init /\ S!Init /\ E!Init /\ M!Init /\ V!Init /\ J!Init /\ T!Init

Only(name, others) == part = name /\ UNCHANGED <<part, others>>

LockNext  == MX!Next /\ Only("Mutex", <<vars, semVars, eventVars, multiVars, jobVars, tickVars>>)
SemNext   == S!Next /\ Only("Sem", <<vars, lockVars, eventVars, multiVars, jobVars, tickVars>>)
EventNext == E!Next /\ Only("Event", <<vars, lockVars, semVars, multiVars, jobVars, tickVars>>)
MultiNext == M!Next /\ Only("MultiSem", <<vars, lockVars, semVars, eventVars, flagVars, jobVars, tickVars>>)
FlagsNext == V!Next /\ Only("MultiEvent", <<vars, lockVars, semVars, eventVars, unitVars, jobVars, tickVars>>)
HostNext  == Next /\ Only("AttachmentHost", <<lockVars, semVars, eventVars, multiVars, jobVars, tickVars>>)
JobNext   == J!Next /\ Only("JobMachine", <<vars, lockVars, semVars, eventVars, multiVars, tickVars>>)
TickNext  == T!Next /\ Only("TickList", <<vars, lockVars, semVars, eventVars, multiVars, jobVars>>)

MCNext == LockNext \/ SemNext \/ EventNext \/ MultiNext \/ FlagsNext \/ HostNext \/ JobNext \/ TickNext

\* IPTickList!Fairness, of a device that is there.
TickFairness == WF_tickVars(part = "TickList" /\ T!DeviceRuns) /\ \A e \in Endpoint : WF_tickVars(T!Destroy(e))

MCSpec == /\ MCInit /\ [][MCNext]_allVars
          /\ Fairness /\ S!Fairness /\ J!Fairness /\ TickFairness

-----------------------------------------------------------------------------
\* Mutex: one task at a time has what the lock protects.
MutualExclusion == MX!MutualExclusion

\* Mutex: the unprotected read of task_id in lock() is right, it is the reader's own
\* id exactly when the reader is inside.
OwnerIsInside == MX!OwnerIsInside

\* Mutex: the right to enter is in one place while tasks want the lock.
OneBaton == MX!OneBaton

\* Mutex implements the abstract lock.
LockSpecOK == MX!LockSpecOK

\* No unit, event or index is lost or left over, whatever times out meanwhile:
\* the invariants of Sem, Event, MultiSem and MultiEvent.
NothingLost == S!Inv /\ E!Inv /\ M!Inv /\ V!Inv

\* Sem and Event implement the abstract counting semaphore.
CountSpecOK == S!CountSpecOK /\ E!CountSpecOK

\* MultiSem!NoIndexStarves: an index that never runs out is returned again;
\* MultiEvent!NoIndexStarves: no flag stays up for ever; IPTickList!CallsGoOn: an
\* endpoint that stays in the list is called again.
NoneStarves == M!NoIndexStarves /\ V!NoIndexStarves /\ T!CallsGoOn

\* The tokens of the AntiSem match its sleeping detach(), detach() forgets the
\* object only when no hook is left, no hook outlives it, and an object stays
\* attached until its own owner detaches it.
DetachWaits == TypeOK /\ TokensMatch /\ DrainedIsEmpty /\ HooksAreAlive /\ AttachmentKept

\* JobMachine!JobsHaveUnits: each job in the list has its unit, and no worker
\* leaves before stop(); and IPTickList!CalledOnce: a round of ticks calls each
\* endpoint that stays in the list, once.
ListsAreServed == J!TypeOK /\ J!JobsHaveUnits /\ T!CalledOnce

\* Who waits comes back: Sem!TimedReturns,
\* take() with a timeout, AttachmentHost!DetachReturns, JobMachine!StopReturns, with no
\* worker and no job left, and IPTickList!DestroyReturns.
AllReturn == S!TimedReturns /\ DetachReturns /\ J!StopReturns /\ T!DestroyReturns
=============================================================================
