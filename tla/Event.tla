------------------------------- MODULE Event -------------------------------
(***************************************************************************)
(* class Event : a flag under a FastMutex that one waiter consumes, and a  *)
(* slow semaphore for the tasks that find it down.  A trigger for a        *)
(* sleeping task does not raise the flag, it is a token of the semaphore,  *)
(* given after the unlock.                                                 *)
(***************************************************************************)
EXTENDS Integers, FiniteSets, TaskCount

CONSTANTS Thread,
          InitFlag  \* the constructor's argument

VARIABLES flag,
          wait_count,  \* tasks counted as asleep
          sem,         \* tokens of the SlowSem
          pc           \* where each task is in its function

vars == <<flag, wait_count, sem, pc>>

N(label) == CountAt(pc, label)

\* Tasks in wait() that have not got their event.
Sleepers == N("wait") + N("timed") + N("late") + N("retry")

Init == /\ flag = InitFlag
        /\ wait_count = 0
        /\ sem = 0
        /\ pc = [t \in Thread |-> "outside"]

To(t, label) == pc' = [pc EXCEPT ![t] = label]

\* What could be wrong in the code, to show that the properties see it: here
\* and below, the operators between two such comments.
BeginTriggerBoth(t) ==   \* a trigger for a sleeping task raises the flag too
  /\ pc[t] = "outside"
  /\ flag' = TRUE
  /\ \/ wait_count > 0 /\ wait_count' = wait_count - 1 /\ To(t, "give")
     \/ wait_count = 0 /\ UNCHANGED <<wait_count, pc>>
  /\ UNCHANGED sem

\* What the code does.
\* begin_wait, try_wait : the flag is up
WaitNow(t) ==
  /\ pc[t] = "outside" /\ flag
  /\ flag' = FALSE
  /\ UNCHANGED <<wait_count, sem, pc>>

\* begin_wait : the flag is down; wait() or wait(timeout)
BeginWait(t) ==
  /\ pc[t] = "outside" /\ ~flag
  /\ wait_count' = wait_count + 1
  /\ To(t, "wait") \/ To(t, "timed")
  /\ UNCHANGED <<flag, sem>>

\* sem.take(), sem.take(timeout), sem.take(1_msec) with a token
SemTake(t) ==
  /\ pc[t] \in {"wait", "timed", "retry"} /\ sem > 0
  /\ sem' = sem - 1
  /\ To(t, "outside")
  /\ UNCHANGED <<flag, wait_count>>

\* sem.take(timeout), sem.take(1_msec) without
SemTimeout(t) ==
  /\ pc[t] \in {"timed", "retry"} /\ sem = 0
  /\ To(t, "late")
  /\ UNCHANGED <<flag, wait_count, sem>>

\* end_wait : wait() gives up, unless a token is on its way
EndWait(t) ==
  /\ pc[t] = "late"
  /\ \/ wait_count > 0 /\ wait_count' = wait_count - 1 /\ To(t, "outside")
     \/ wait_count = 0 /\ UNCHANGED wait_count /\ To(t, "retry")
  /\ UNCHANGED <<flag, sem>>

\* begin_trigger : a task asleep first, else the flag
BeginTrigger(t) ==
  /\ pc[t] = "outside"
  /\ \/ wait_count > 0 /\ wait_count' = wait_count - 1 /\ To(t, "give") /\ UNCHANGED flag
     \/ wait_count = 0 /\ flag' = TRUE /\ UNCHANGED <<wait_count, pc>>
  /\ UNCHANGED sem

\* trigger : sem.give()
SemGive(t) ==
  /\ pc[t] = "give"
  /\ sem' = sem + 1
  /\ To(t, "outside")
  /\ UNCHANGED <<flag, wait_count>>

Wait(t) == WaitNow(t) \/ BeginWait(t) \/ SemTake(t) \/ SemTimeout(t) \/ EndWait(t)

Next == \E t \in Thread : Wait(t) \/ BeginTrigger(t) \/ SemGive(t)

Spec == Init /\ [][Next]_vars

-----------------------------------------------------------------------------
TypeOK == /\ flag \in BOOLEAN
          /\ wait_count \in Nat
          /\ sem \in Nat
          /\ pc \in [Thread -> {"outside", "wait", "timed", "late", "retry", "give"}]

\* Each task without its event is counted as asleep or has a token in sem or
\* on its way there: no trigger is lost when a wait() times out.
TokensMatch == Sleepers = wait_count + sem + N("give")

\* No task is counted as asleep while the flag is up.
NoIdleFlag == flag => wait_count = 0

\* What holds whenever the lock is free: no event and no token is lost or left
\* over, whatever times out meanwhile.
Inv == TypeOK /\ TokensMatch /\ NoIdleFlag

\* A wait() succeeds once for each trigger that was not merged with one
\* before it: Event implements the abstract counting semaphore.
Abstract == INSTANCE CountSpec WITH First <- IF InitFlag THEN 1 ELSE 0, Most <- 1,
                                    units <- (IF flag THEN 1 ELSE 0) + sem + N("give")
CountSpecOK == Abstract!Spec
=============================================================================
