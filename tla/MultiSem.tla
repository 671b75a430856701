------------------------------ MODULE MultiSem ------------------------------
(***************************************************************************)
(* class MultiSemBase : a count for each index under a FastMutex, and one  *)
(* Sem (here what it promises, module CountSpec) with a unit for each.     *)
(* give() counts the index before it gives the unit and take() has its     *)
(* unit before it looks for an index, round robin from base.               *)
(***************************************************************************)
EXTENDS Integers, FiniteSets, TaskCount

CONSTANTS Thread,
          Indexes,      \* counts.len : the indexes are 1 .. Indexes
          MaxUnits  \* bound: units not yet taken

Index == 1..Indexes

VARIABLES counts,
          base,   \* the index where getIndex() begins
          units,  \* of sem
          pc      \* where each task is in its function

vars == <<counts, base, units, pc>>

N(label) == CountAt(pc, label)

Total == SumOf(counts)

Init == /\ counts = [i \in Index |-> 0]
        /\ base = 1
        /\ units = 0
        /\ pc = [t \in Thread |-> "outside"]

To(t, label) == pc' = [pc EXCEPT ![t] = label]

nextIndex(i) == IF i < Indexes THEN i + 1 ELSE 1

\* The index the loop of getIndex() stops at: the first one from base with a count.
Steps(i) == (i - base + Indexes) % Indexes

First == CHOOSE i \in Index : counts[i] > 0 /\ \A j \in Index : counts[j] > 0 => Steps(i) <= Steps(j)

\* What could be wrong in the code, to show that the properties see it: here
\* and below, the operators between two such comments.
GetIndexFixed(t) ==  \* base does not move
  /\ pc[t] = "get" /\ Total > 0
  /\ counts' = [counts EXCEPT ![First] = @ - 1]
  /\ To(t, "outside")
  /\ UNCHANGED <<base, units>>

\* What the code does.
\* give : putIndex
PutIndex(t, i) ==
  /\ pc[t] = "outside" /\ Total < MaxUnits
  /\ counts' = [counts EXCEPT ![i] = @ + 1]
  /\ To(t, "give")
  /\ UNCHANGED <<base, units>>

\* give : sem.give()
SemGive(t) ==
  /\ pc[t] = "give"
  /\ units' = units + 1
  /\ To(t, "outside")
  /\ UNCHANGED <<counts, base>>

\* take, try_take, take(timeout) : sem.take() succeeds
SemTake(t) ==
  /\ pc[t] = "outside" /\ units > 0
  /\ units' = units - 1
  /\ To(t, "get")
  /\ UNCHANGED <<counts, base>>

\* getIndex : the loop has no other end than an index with a count
GetIndex(t) ==
  /\ pc[t] = "get" /\ Total > 0
  /\ counts' = [counts EXCEPT ![First] = @ - 1]
  /\ base' = nextIndex(base)
  /\ To(t, "outside")
  /\ UNCHANGED units

Next == \E t \in Thread : (\E i \in Index : PutIndex(t, i)) \/ SemGive(t) \/ SemTake(t) \/ GetIndex(t)

Spec == Init /\ [][Next]_vars

-----------------------------------------------------------------------------
TypeOK == /\ counts \in [Index -> 0..MaxUnits]
          /\ base \in Index
          /\ units \in 0..MaxUnits
          /\ pc \in [Thread -> {"outside", "give", "get"}]

\* Each index counted has one unit: in sem, with a task that will give it or
\* with one that has taken it and looks for the index.
UnitsMatch == Total = units + N("give") + N("get")

\* The loop of getIndex() ends: whoever comes to it finds an index, whatever
\* the others have taken since its unit was given.
GetIndexEnds == N("get") > 0 => Total > 0

\* What holds whenever the lock is free: the two semaphores agree, and no
\* task loops in getIndex() for ever.
Inv == TypeOK /\ UnitsMatch /\ GetIndexEnds

\* An index that never runs out is returned again and again, if any is.
NoIndexStarves ==
  \A i \in Index :
    <>[](counts[i] > 0) /\ []<><<\E t \in Thread : GetIndex(t)>>_vars
      => []<><<\E t \in Thread : GetIndex(t) /\ counts'[i] < counts[i]>>_vars
=============================================================================
