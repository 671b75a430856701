------------------------------- MODULE Mutex -------------------------------
(***************************************************************************)
(* class Mutex : FastMutex made reentrant by the id of the owner.  task_id *)
(* and reentry are read and written without the protection of the lock     *)
(* they describe: lock() reads task_id before it owns anything.            *)
(***************************************************************************)
EXTENDS Tasks

CONSTANT Nesting  \* bound: locks one task holds at a time, one or more

VARIABLES entry,    \* Atomic entry
          sem,      \* tokens of the SlowSem
          task_id,  \* the owner, as the object knows it
          reentry,  \* locks of the owner beyond the first
          pc        \* where each task is in lock() and unlock()

vars == <<entry, sem, task_id, reentry, pc>>

Init == /\ entry = 0
        /\ sem = 0
        /\ task_id = NoThread
        /\ reentry = 0
        /\ pc = [t \in Thread |-> "outside"]

\* What could be wrong in the code, to show that the properties see it: here
\* and below, the operators between two such comments.
LockTakeSpurious(t) ==  \* the wait on sem returns without a token
  /\ pc[t] = "take"
  /\ sem' = sem - 1
  /\ pc' = [pc EXCEPT ![t] = "locked"]
  /\ UNCHANGED <<entry, task_id, reentry>>

KeepOwner(t) ==         \* unlock() does not clear task_id
  /\ pc[t] = "inside" /\ reentry = 0
  /\ pc' = [pc EXCEPT ![t] = "leaving"]
  /\ UNCHANGED <<entry, sem, task_id, reentry>>

ClearOwnerAtOnce(t) ==  \* unlock() does not look at reentry
  /\ pc[t] = "inside"
  /\ task_id' = NoThread
  /\ pc' = [pc EXCEPT ![t] = "leaving"]
  /\ UNCHANGED <<entry, sem, reentry>>

UnlockEntryNoGive(t) == \* unlock() forgets the tasks asleep
  /\ pc[t] = "leaving"
  /\ entry' = entry - 1
  /\ pc' = [pc EXCEPT ![t] = "outside"]
  /\ UNCHANGED <<sem, task_id, reentry>>

\* What the code does.
\* lock() : task_id==id
Relock(t) ==
  /\ pc[t] = "inside" /\ task_id = t /\ reentry < Nesting - 1
  /\ reentry' = reentry + 1
  /\ UNCHANGED <<entry, sem, task_id, pc>>

\* lock() : task_id!=id, then (entry++)==0
LockEntry(t) ==
  /\ pc[t] = "outside" \/ (pc[t] = "inside" /\ task_id # t)
  /\ entry' = entry + 1
  /\ pc' = [pc EXCEPT ![t] = IF entry = 0 THEN "locked" ELSE "take"]
  /\ UNCHANGED <<sem, task_id, reentry>>

\* lock() : sem.take()
LockTake(t) ==
  /\ pc[t] = "take" /\ sem > 0
  /\ sem' = sem - 1
  /\ pc' = [pc EXCEPT ![t] = "locked"]
  /\ UNCHANGED <<entry, task_id, reentry>>

\* lock() : task_id=id
SetOwner(t) ==
  /\ pc[t] = "locked"
  /\ task_id' = t
  /\ pc' = [pc EXCEPT ![t] = "inside"]
  /\ UNCHANGED <<entry, sem, reentry>>

\* unlock() : reentry--
Unrelock(t) ==
  /\ pc[t] = "inside" /\ reentry > 0
  /\ reentry' = reentry - 1
  /\ UNCHANGED <<entry, sem, task_id, pc>>

\* unlock() : task_id=0
ClearOwner(t) ==
  /\ pc[t] = "inside" /\ reentry = 0
  /\ task_id' = NoThread
  /\ pc' = [pc EXCEPT ![t] = "leaving"]
  /\ UNCHANGED <<entry, sem, reentry>>

\* unlock() : (entry--)!=1 decides
UnlockEntry(t) ==
  /\ pc[t] = "leaving"
  /\ entry' = entry - 1
  /\ pc' = [pc EXCEPT ![t] = IF entry = 1 THEN "outside" ELSE "give"]
  /\ UNCHANGED <<sem, task_id, reentry>>

\* unlock() : sem.give()
UnlockGive(t) ==
  /\ pc[t] = "give"
  /\ sem' = sem + 1
  /\ pc' = [pc EXCEPT ![t] = "outside"]
  /\ UNCHANGED <<entry, task_id, reentry>>

Leave(t) == Unrelock(t) \/ ClearOwner(t) \/ UnlockEntry(t) \/ UnlockGive(t)

Step(t) == Relock(t) \/ LockEntry(t) \/ LockTake(t) \/ SetOwner(t) \/ Leave(t)

Next == \E t \in Thread : Step(t)

Spec == Init /\ [][Next]_vars

\* A preempted task runs, and the operating system semaphore serves the tasks
\* asleep on it.
Fairness == \A t \in Thread : /\ SF_vars(LockTake(t))
                              /\ WF_vars(SetOwner(t) \/ UnlockEntry(t) \/ UnlockGive(t))

-----------------------------------------------------------------------------
TypeOK ==
  /\ entry \in Nat
  /\ sem \in Nat
  /\ task_id \in Thread \cup {NoThread}
  /\ reentry \in 0..(Nesting - 1)
  /\ pc \in [Thread -> {"outside", "take", "locked", "inside", "leaving", "give"}]

\* The tasks that have the right to enter, with or without their name on it.
Inside(t) == pc[t] \in {"locked", "inside", "leaving"}

\* One task at a time has what the lock protects.
MutualExclusion == \A t, u \in Thread : Inside(t) /\ Inside(u) => t = u

\* The unprotected read of task_id in lock() is right: it is the reader's own
\* id exactly when the reader is inside, so nobody takes another's lock for
\* its own and nobody waits for itself.
OwnerIsInside == \A t \in Thread : task_id = t <=> pc[t] = "inside"

\* The unprotected read of reentry in unlock() is right: a task outside finds
\* no locks of its own left over.
ReentryIsOwners == reentry > 0 => task_id # NoThread

\* Mutex is FastMutex with an owner's name on it: without task_id and reentry
\* the two take the same steps.
place == [t \in Thread |-> IF Inside(t) THEN "inside" ELSE pc[t]]
Fast == INSTANCE FastMutex WITH pc <- place
FastMutexOK == Fast!Spec

\* The right to enter is in one place while tasks want the lock.
N(label) == CountAt(place, label)

OneBaton == /\ entry = 0 => N("inside") + N("give") + sem = 0
            /\ entry > 0 => N("inside") + N("give") + sem = 1

\* If no task stays inside for ever, a task asleep in lock() gets the lock.
LockGranted == (\A u \in Thread : []<>(pc[u] # "inside"))
                 => \A t \in Thread : pc[t] = "take" ~> pc[t] = "inside"

\* Mutex implements the abstract lock.
Lock == INSTANCE LockSpec
          WITH owner <- task_id, depth <- IF task_id = NoThread THEN 0 ELSE reentry + 1
LockSpecOK == Lock!Spec
=============================================================================
