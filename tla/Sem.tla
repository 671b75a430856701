-------------------------------- MODULE Sem --------------------------------
(***************************************************************************)
(* class Sem : a counting semaphore made of a count under a FastMutex and  *)
(* of a slow semaphore for the tasks that find the count at 0.  The two    *)
(* are not changed together: a giver hands out its tokens after it has     *)
(* unlocked, and a take() that times out must find out whether one of them *)
(* is meant for it.                                                        *)
(***************************************************************************)
EXTENDS Integers, FiniteSets, FiniteSetsExt, TaskCount

CONSTANTS Thread,
          InitCount,  \* the constructor's argument
          MaxGive,    \* bound: the argument of give_many()
          MaxUnits    \* bound: units not yet taken

VARIABLES count,
          take_count,  \* tasks counted as asleep
          sem,         \* tokens of the SlowSem
          gives,       \* what each task has still to give to sem, out of the lock
          pc           \* where each task is in its function

vars == <<count, take_count, sem, gives, pc>>

N(label) == CountAt(pc, label)

\* Tasks in take() that have not got their unit.
Sleepers == N("take") + N("timed") + N("late") + N("retry")

Pending == SumOf(gives)

Init == /\ count = InitCount
        /\ take_count = 0
        /\ sem = 0
        /\ gives = [t \in Thread |-> 0]
        /\ pc = [t \in Thread |-> "outside"]

To(t, label) == pc' = [pc EXCEPT ![t] = label]

\* What could be wrong in the code, to show that the properties see it: here
\* and below, the operators between two such comments.
EndTakeBlind(t) ==     \* a take() that timed out leaves without a look at take_count
  /\ pc[t] = "late"
  /\ To(t, "outside")
  /\ UNCHANGED <<count, take_count, sem, gives>>

EndTakeRetries(t) ==   \* it waits for a token even when none is on its way
  /\ pc[t] = "late"
  /\ To(t, "retry")
  /\ UNCHANGED <<count, take_count, sem, gives>>

\* What the code does.
\* begin_take, try_take : a unit is there
TakeNow(t) ==
  /\ pc[t] = "outside" /\ count > 0
  /\ count' = count - 1
  /\ UNCHANGED <<take_count, sem, gives, pc>>

\* begin_take : none is there; take() or take(timeout)
BeginTake(t) ==
  /\ pc[t] = "outside" /\ count = 0
  /\ take_count' = take_count + 1
  /\ To(t, "take") \/ To(t, "timed")
  /\ UNCHANGED <<count, sem, gives>>

\* sem.take(), sem.take(timeout), sem.take(1_msec) with a token
SemTake(t) ==
  /\ pc[t] \in {"take", "timed", "retry"} /\ sem > 0
  /\ sem' = sem - 1
  /\ To(t, "outside")
  /\ UNCHANGED <<count, take_count, gives>>

\* sem.take(timeout), sem.take(1_msec) without
SemTimeout(t) ==
  /\ pc[t] \in {"timed", "retry"} /\ sem = 0
  /\ To(t, "late")
  /\ UNCHANGED <<count, take_count, sem, gives>>

\* end_take : take() gives up, unless a token is on its way
EndTake(t) ==
  /\ pc[t] = "late"
  /\ \/ take_count > 0 /\ take_count' = take_count - 1 /\ To(t, "outside")
     \/ take_count = 0 /\ UNCHANGED take_count /\ To(t, "retry")
  /\ UNCHANGED <<count, sem, gives>>

\* begin_give, begin_give_many : the tasks asleep first, the rest is counted
BeginGive(t, n) ==
  /\ pc[t] = "outside"
  /\ count + sem + Pending + n <= MaxUnits
  /\ LET woken == Min({take_count, n}) IN
     /\ take_count' = take_count - woken
     /\ count' = count + (n - woken)
     /\ gives' = [gives EXCEPT ![t] = woken]
     /\ To(t, IF woken > 0 THEN "give" ELSE "outside")
  /\ UNCHANGED sem

\* give, give_many : sem.give(), sem.give_many()
SemGive(t) ==
  /\ pc[t] = "give"
  /\ sem' = sem + gives[t]
  /\ gives' = [gives EXCEPT ![t] = 0]
  /\ To(t, "outside")
  /\ UNCHANGED <<count, take_count>>

Take(t) == TakeNow(t) \/ BeginTake(t) \/ SemTake(t) \/ SemTimeout(t) \/ EndTake(t)
Give(t) == (\E n \in 1..MaxGive : BeginGive(t, n)) \/ SemGive(t)

Next == \E t \in Thread : Take(t) \/ Give(t)

Spec == Init /\ [][Next]_vars

\* A preempted task runs, and the operating system semaphore serves a task
\* that sleeps on it again and again.
Fairness == \A t \in Thread : SF_vars(SemTake(t)) /\ WF_vars(SemTimeout(t) \/ EndTake(t) \/ SemGive(t))

-----------------------------------------------------------------------------
TypeOK == /\ count \in 0..MaxUnits
          /\ take_count \in Nat
          /\ sem \in Nat
          /\ gives \in [Thread -> 0..MaxGive]
          /\ pc \in [Thread -> {"outside", "take", "timed", "late", "retry", "give"}]

\* Each task without its unit is counted as asleep or has a token in sem or on
\* its way there, and no token is left for nobody: a unit is not lost when a
\* take() times out while it is given.
TokensMatch == Sleepers = take_count + sem + Pending

\* No task is counted as asleep while units are there to take.
NoIdleUnits == count > 0 => take_count = 0

\* What holds whenever the lock is free: no unit and no token is lost or left
\* over, whatever times out meanwhile.
Inv == TypeOK /\ TokensMatch /\ NoIdleUnits

\* A take() with a timeout returns, unless other tasks begin to sleep again
\* and again: one that comes late may have its token taken each time while it
\* looks at take_count, and the code calls the repetition unprobable.
TimedReturns == <>[][\A u \in Thread : ~BeginTake(u)]_vars
                  => \A t \in Thread : pc[t] = "timed" ~> pc[t] = "outside"

\* Sem implements the abstract counting semaphore.
Abstract == INSTANCE CountSpec WITH First <- InitCount, Most <- MaxGive, units <- count + sem + Pending
CountSpecOK == Abstract!Spec
=============================================================================
