------------------------------- MODULE ResSem -------------------------------
(***************************************************************************)
(* class ResSem : max_count units of a resource.  A task takes one, or     *)
(* waits until all are back; both sleep on a slow semaphore of their own.  *)
(* A unit given back while a task sleeps in take() is passed to it without *)
(* being counted as free, by a token given after the unlock.               *)
(***************************************************************************)
EXTENDS Integers, FiniteSets, TaskCount

CONSTANTS User, Waiter,  \* the tasks that take and give, those that wait
          max_count

VARIABLES count,       \* units taken
          take_count, wait_count,  \* tasks counted as asleep in take() and in wait()
          take_sem, wait_sem,      \* tokens of the SlowSems
          gives,       \* what each user has still to give to them, out of the lock
          holds,       \* the users that have a unit (one each)
          pc           \* where each task is in its function

vars == <<count, take_count, wait_count, take_sem, wait_sem, gives, holds, pc>>
takeVars == <<take_count, take_sem>>
waitVars == <<wait_count, wait_sem>>

Asleep(S) == Cardinality({t \in S : pc[t] \in {"sleep", "timed", "late", "retry"}})

OwedTakes == SumOf([u \in User |-> gives[u].take])
OwedWaits == SumOf([u \in User |-> gives[u].wait])

NoGive == [take |-> 0, wait |-> 0]

Init == /\ count = 0
        /\ take_count = 0 /\ wait_count = 0
        /\ take_sem = 0 /\ wait_sem = 0
        /\ gives = [u \in User |-> NoGive]
        /\ holds = {}
        /\ pc = [t \in User \cup Waiter |-> "outside"]

To(t, label) == pc' = [pc EXCEPT ![t] = label]

Free(u) == pc[u] = "outside" /\ gives[u] = NoGive

\* What could be wrong in the code, to show that the properties see it: here
\* and below, the operators between two such comments.
EndTakeBlind(u) ==      \* a take() that timed out leaves without a look at take_count
  /\ pc[u] = "late"
  /\ To(u, "outside")
  /\ UNCHANGED <<count, takeVars, waitVars, gives, holds>>

\* What the code does.
\* begin_take, try_take : a unit is free
TakeNow(u) ==
  /\ Free(u) /\ u \notin holds /\ count < max_count
  /\ count' = count + 1
  /\ holds' = holds \cup {u}
  /\ UNCHANGED <<takeVars, waitVars, gives, pc>>

\* begin_take : none is free; take() or take(timeout)
BeginTake(u) ==
  /\ Free(u) /\ u \notin holds /\ count = max_count
  /\ take_count' = take_count + 1
  /\ To(u, "sleep") \/ To(u, "timed")
  /\ UNCHANGED <<count, take_sem, waitVars, gives, holds>>

\* take_sem.take() : the unit comes with the token
SemTake(u) ==
  /\ pc[u] \in {"sleep", "timed", "retry"} /\ take_sem > 0
  /\ take_sem' = take_sem - 1
  /\ holds' = holds \cup {u}
  /\ To(u, "outside")
  /\ UNCHANGED <<count, take_count, waitVars, gives>>

TakeTimeout(u) ==
  /\ pc[u] \in {"timed", "retry"} /\ take_sem = 0
  /\ To(u, "late")
  /\ UNCHANGED <<count, takeVars, waitVars, gives, holds>>

\* end_take : take() gives up, unless a token is on its way
EndTake(u) ==
  /\ pc[u] = "late"
  /\ \/ take_count > 0 /\ take_count' = take_count - 1 /\ To(u, "outside")
     \/ take_count = 0 /\ UNCHANGED take_count /\ To(u, "retry")
  /\ UNCHANGED <<count, take_sem, waitVars, gives, holds>>

\* begin_give : the unit goes to a task asleep in take(), or is free, and the
\* last one wakes all tasks in wait()
BeginGive(u) ==
  /\ Free(u) /\ u \in holds
  /\ holds' = holds \ {u}
  /\ \/ /\ take_count > 0
        /\ take_count' = take_count - 1
        /\ gives' = [gives EXCEPT ![u].take = 1]
        /\ UNCHANGED <<count, wait_count>>
     \/ /\ take_count = 0 /\ count > 1
        /\ count' = count - 1
        /\ UNCHANGED <<take_count, gives, wait_count>>
     \/ /\ take_count = 0 /\ count = 1
        /\ count' = 0
        /\ gives' = [gives EXCEPT ![u].wait = wait_count]
        /\ wait_count' = 0
        /\ UNCHANGED take_count
  /\ UNCHANGED <<take_sem, wait_sem, pc>>

\* give : take_sem.give(), wait_sem.give_many()
SemGive(u) ==
  /\ gives[u] # NoGive
  /\ take_sem' = take_sem + gives[u].take
  /\ wait_sem' = wait_sem + gives[u].wait
  /\ gives' = [gives EXCEPT ![u] = NoGive]
  /\ UNCHANGED <<count, take_count, wait_count, holds, pc>>

\* begin_wait, with units out; otherwise, and in try_wait, nothing changes
BeginWait(t) ==
  /\ pc[t] = "outside" /\ count > 0
  /\ wait_count' = wait_count + 1
  /\ To(t, "sleep") \/ To(t, "timed")
  /\ UNCHANGED <<count, wait_sem, takeVars, gives, holds>>

\* wait_sem.take()
SemWait(t) ==
  /\ pc[t] \in {"sleep", "timed", "retry"} /\ wait_sem > 0
  /\ wait_sem' = wait_sem - 1
  /\ To(t, "outside")
  /\ UNCHANGED <<count, wait_count, takeVars, gives, holds>>

WaitTimeout(t) ==
  /\ pc[t] \in {"timed", "retry"} /\ wait_sem = 0
  /\ To(t, "late")
  /\ UNCHANGED <<count, waitVars, takeVars, gives, holds>>

\* end_wait
EndWait(t) ==
  /\ pc[t] = "late"
  /\ \/ wait_count > 0 /\ wait_count' = wait_count - 1 /\ To(t, "outside")
     \/ wait_count = 0 /\ UNCHANGED wait_count /\ To(t, "retry")
  /\ UNCHANGED <<count, wait_sem, takeVars, gives, holds>>

Use(u)  == TakeNow(u) \/ BeginTake(u) \/ SemTake(u) \/ TakeTimeout(u) \/ EndTake(u) \/ BeginGive(u) \/ SemGive(u)
Wait(t) == BeginWait(t) \/ SemWait(t) \/ WaitTimeout(t) \/ EndWait(t)

Next == (\E u \in User : Use(u)) \/ (\E t \in Waiter : Wait(t))

Spec == Init /\ [][Next]_vars

-----------------------------------------------------------------------------
TypeOK ==
  /\ count \in 0..max_count
  /\ take_count \in Nat /\ wait_count \in Nat
  /\ take_sem \in Nat /\ wait_sem \in Nat
  /\ gives \in [User -> [take : 0..1, wait : Nat]]
  /\ holds \subseteq User
  /\ pc \in [User \cup Waiter -> {"outside", "sleep", "timed", "late", "retry"}]

\* Every unit counted as taken is held, or on its way to a task that sleeps,
\* so no more than max_count are ever held.
UnitsMatch == count = Cardinality(holds) + take_sem + OwedTakes

\* Each sleeping task is counted or has a token of its semaphore coming, and
\* no token is left for nobody.
TokensMatch == /\ Asleep(User) = take_count + take_sem + OwedTakes
               /\ Asleep(Waiter) = wait_count + wait_sem + OwedWaits

\* No task is counted as asleep in take() while a unit is free, nor in wait()
\* while all are.
NoIdleUnits == /\ count < max_count => take_count = 0
               /\ count = 0 => wait_count = 0
=============================================================================
