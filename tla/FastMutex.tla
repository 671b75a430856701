----------------------------- MODULE FastMutex -----------------------------
(***************************************************************************)
(* class FastMutex : an atomic counter of the tasks that want the lock and *)
(* a slow (operating system) semaphore on which all but the first of them  *)
(* sleep.  Each atomic access is one step, so that a task may be preempted *)
(* between the decrement of entry and the sem.give() it decides.           *)
(***************************************************************************)
EXTENDS Tasks

VARIABLES entry,  \* Atomic entry : tasks inside or on their way in
          sem,    \* tokens of the SlowSem
          pc      \* where each task is in lock() and unlock()

vars == <<entry, sem, pc>>

N(label) == CountAt(pc, label)

Init == /\ entry = 0
        /\ sem = 0
        /\ pc = [t \in Thread |-> "outside"]

\* lock() : the spin only reads entry, (entry++)!=0 decides
LockEntry(t) ==
  /\ pc[t] = "outside"
  /\ entry' = entry + 1
  /\ pc' = [pc EXCEPT ![t] = IF entry = 0 THEN "inside" ELSE "take"]
  /\ UNCHANGED sem

\* lock() : sem.take()
LockTake(t) ==
  /\ pc[t] = "take"
  /\ sem > 0
  /\ sem' = sem - 1
  /\ pc' = [pc EXCEPT ![t] = "inside"]
  /\ UNCHANGED entry

\* unlock() : (entry--)!=1 decides
UnlockEntry(t) ==
  /\ pc[t] = "inside"
  /\ entry' = entry - 1
  /\ pc' = [pc EXCEPT ![t] = IF entry = 1 THEN "outside" ELSE "give"]
  /\ UNCHANGED sem

\* unlock() : sem.give()
UnlockGive(t) ==
  /\ pc[t] = "give"
  /\ sem' = sem + 1
  /\ pc' = [pc EXCEPT ![t] = "outside"]
  /\ UNCHANGED entry

Step(t) == LockEntry(t) \/ LockTake(t) \/ UnlockEntry(t) \/ UnlockGive(t)

Next == \E t \in Thread : Step(t)

Spec == Init /\ [][Next]_vars

-----------------------------------------------------------------------------
TypeOK ==
  /\ entry \in Nat
  /\ sem \in Nat
  /\ pc \in [Thread -> {"outside", "take", "inside", "give"}]

\* Two tasks are never between lock() and unlock().
MutualExclusion == \A t, u \in Thread : pc[t] = "inside" /\ pc[u] = "inside" => t = u

\* entry counts exactly the tasks inside or asleep on sem: the destructor's
\* Abort "is locked on exit" is not raised when every task is outside.
EntryCounts == entry = N("inside") + N("take")

\* The right to enter is in one place: with the owner, with a task that has
\* still to give it, or in sem.  While tasks want the lock it is not lost (or
\* they sleep for ever) and not doubled (or two of them enter).
OneBaton == /\ entry = 0 => N("inside") + N("give") + sem = 0
            /\ entry > 0 => N("inside") + N("give") + sem = 1

owner == IF \E t \in Thread : pc[t] = "inside"
         THEN CHOOSE t \in Thread : pc[t] = "inside" ELSE NoThread

\* FastMutex implements a lock that is not reentrant.
Lock == INSTANCE LockSpec
          WITH Nesting <- 1, depth <- IF owner = NoThread THEN 0 ELSE 1
LockSpecOK == Lock!Spec
=============================================================================
