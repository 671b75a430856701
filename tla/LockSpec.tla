------------------------------ MODULE LockSpec ------------------------------
(***************************************************************************)
(* What a lock of HCore/CCore/inc/task promises: one owner at a time, that *)
(* may lock again as often as it unlocks.  FastMutex implements it with    *)
(* Nesting = 1, Mutex with any Nesting.                                    *)
(***************************************************************************)
EXTENDS Naturals

CONSTANTS Thread,    \* the tasks
          Nesting,   \* how deep one task may lock
          NoThread   \* no owner

VARIABLES owner,     \* the task inside the lock, or NoThread
          depth      \* how many of its lock() calls are not yet unlocked

vars == <<owner, depth>>

Init == owner = NoThread /\ depth = 0

Acquire(t) == /\ owner = NoThread
              /\ owner' = t
              /\ depth' = 1

Reenter(t) == /\ owner = t
              /\ depth < Nesting
              /\ depth' = depth + 1
              /\ UNCHANGED owner

Release(t) == /\ owner = t
              /\ depth' = depth - 1
              /\ owner' = IF depth = 1 THEN NoThread ELSE t

Next == \E t \in Thread : Acquire(t) \/ Reenter(t) \/ Release(t)

Spec == Init /\ [][Next]_vars
=============================================================================
