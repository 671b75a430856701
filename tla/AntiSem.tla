------------------------------ MODULE AntiSem ------------------------------
(***************************************************************************)
(* class AntiSem : a counter of things in use under a FastMutex; a task    *)
(* waits on a slow semaphore until no more than level of them are left.    *)
(* The task that brings the counter down wakes all sleepers, with tokens   *)
(* it gives after the unlock: by then the counter may have gone up again.  *)
(***************************************************************************)
EXTENDS Integers, FiniteSets, TaskCount

CONSTANTS Waiter, User,  \* the tasks that wait, those that add and sub
          Level,
          MaxCount       \* bound of the counter

VARIABLES count,
          wait_count,  \* tasks counted as asleep
          sem,         \* tokens of the SlowSem
          gives,       \* what each user has still to give to sem, out of the lock
          held,        \* history: what each user has added and not yet taken off
          pc           \* where each waiter is in wait()

vars == <<count, wait_count, sem, gives, held, pc>>

N(label) == CountAt(pc, label)

\* Tasks in wait() that have not been let through.
Sleepers == N("wait")

Pending == SumOf(gives)

Init == /\ count = 0
        /\ wait_count = 0
        /\ sem = 0
        /\ gives = [u \in User |-> 0]
        /\ held = [u \in User |-> 0]
        /\ pc = [t \in Waiter |-> "outside"]

To(t, label) == pc' = [pc EXCEPT ![t] = label]

\* What could be wrong in the code, to show that the properties see it: here
\* and below, the operators between two such comments.
BeginSubKeeps(u) ==  \* sub does not reset wait_count
  /\ gives[u] = 0 /\ held[u] > 0
  /\ count' = count - 1
  /\ held' = [held EXCEPT ![u] = @ - 1]
  /\ gives' = [gives EXCEPT ![u] = IF count' <= Level THEN wait_count ELSE 0]
  /\ UNCHANGED <<wait_count, sem, pc>>

\* What the code does.
\* add, inc
Add(u) ==
  /\ gives[u] = 0 /\ count < MaxCount
  /\ count' = count + 1
  /\ held' = [held EXCEPT ![u] = @ + 1]
  /\ UNCHANGED <<wait_count, sem, gives, pc>>

\* begin_sub : a task takes off what was added, and the last one wakes all
BeginSub(u) ==
  /\ gives[u] = 0 /\ held[u] > 0
  /\ count' = count - 1
  /\ held' = [held EXCEPT ![u] = @ - 1]
  /\ \/ /\ count' <= Level
        /\ gives' = [gives EXCEPT ![u] = wait_count]
        /\ wait_count' = 0
     \/ count' > Level /\ UNCHANGED <<gives, wait_count>>
  /\ UNCHANGED <<sem, pc>>

\* sub, dec : sem.give_many()
SemGive(u) ==
  /\ gives[u] > 0
  /\ sem' = sem + gives[u]
  /\ gives' = [gives EXCEPT ![u] = 0]
  /\ UNCHANGED <<count, wait_count, held, pc>>

\* begin_wait, with the counter above Level; otherwise, and in try_wait,
\* nothing changes
BeginWait(t) ==
  /\ pc[t] = "outside" /\ count > Level
  /\ wait_count' = wait_count + 1
  /\ To(t, "wait")
  /\ UNCHANGED <<count, sem, gives, held>>

\* sem.take()
SemTake(t) ==
  /\ pc[t] = "wait" /\ sem > 0
  /\ sem' = sem - 1
  /\ To(t, "outside")
  /\ UNCHANGED <<count, wait_count, gives, held>>

Wait(t) == BeginWait(t) \/ SemTake(t)
Use(u)  == Add(u) \/ BeginSub(u) \/ SemGive(u)

Next == (\E t \in Waiter : Wait(t)) \/ (\E u \in User : Use(u))

Spec == Init /\ [][Next]_vars

-----------------------------------------------------------------------------
TypeOK == /\ count \in 0..MaxCount
          /\ wait_count \in Nat
          /\ sem \in Nat
          /\ gives \in [User -> Nat]
          /\ held \in [User -> 0..MaxCount]
          /\ pc \in [Waiter -> {"outside", "wait"}]

\* Each sleeping task is counted or has a token in sem or on its way there,
\* and no token is left for nobody, to let a later wait() through.
TokensMatch == Sleepers = wait_count + sem + Pending

\* No task is counted as asleep while the counter is at or below Level.
OpenWakesAll == count <= Level => wait_count = 0
=============================================================================
