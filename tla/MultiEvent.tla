----------------------------- MODULE MultiEvent -----------------------------
(***************************************************************************)
(* class MultiEventBase : a flag for each index under a FastMutex, and one *)
(* Sem (what it promises, module CountSpec) with a unit for each flag that *)
(* is up.  A trigger that finds its flag up gives no unit: who takes the   *)
(* flag down has still to come.                                            *)
(***************************************************************************)
EXTENDS Integers, FiniteSets, TaskCount

CONSTANTS Thread,
          Indexes      \* flags.len : the indexes are 1 .. Indexes

Index == 1..Indexes

VARIABLES flags,  \* the indexes whose flag is up
          base,   \* the index where getIndex() begins
          units,  \* of sem
          pc      \* where each task is in its function

vars == <<flags, base, units, pc>>

N(label) == CountAt(pc, label)

Init == flags = {} /\ base = 1 /\ units = 0 /\ pc = [t \in Thread |-> "outside"]

To(t, from, label) == pc[t] = from /\ pc' = [pc EXCEPT ![t] = label]

nextIndex(i) == IF i < Indexes THEN i + 1 ELSE 1

\* The index the loop of getIndex() stops at: the first one from base that is up.
Steps(i) == (i - base + Indexes) % Indexes

First == CHOOSE i \in flags : \A j \in flags : Steps(i) <= Steps(j)

\* What could be wrong in the code, to show that the properties see it: here
\* and below, the operators between two such comments.
PutIndexAlways(t, i) ==  \* a unit is given for a flag that is up already
  /\ To(t, "outside", "give") /\ flags' = flags \cup {i}
  /\ UNCHANGED <<base, units>>

GetIndexFixed(t) ==      \* base does not move
  /\ flags # {} /\ To(t, "get", "outside")
  /\ flags' = flags \ {First}
  /\ UNCHANGED <<base, units>>

\* What the code does.
\* trigger : putIndex
PutIndex(t, i) ==
  /\ \/ i \notin flags /\ To(t, "outside", "give") /\ flags' = flags \cup {i}
     \/ i \in flags /\ To(t, "outside", "outside") /\ UNCHANGED flags
  /\ UNCHANGED <<base, units>>

\* trigger : sem.give()
SemGive(t) == To(t, "give", "outside") /\ units' = units + 1 /\ UNCHANGED <<flags, base>>

\* wait, try_wait, wait(timeout) : sem.take() succeeds
SemTake(t) == units > 0 /\ To(t, "outside", "get") /\ units' = units - 1 /\ UNCHANGED <<flags, base>>

\* getIndex : the loop has no other end than a flag that is up
GetIndex(t) ==
  /\ flags # {} /\ To(t, "get", "outside")
  /\ flags' = flags \ {First} /\ base' = nextIndex(base)
  /\ UNCHANGED units

Next == \E t \in Thread : (\E i \in Index : PutIndex(t, i)) \/ SemGive(t) \/ SemTake(t) \/ GetIndex(t)

Spec == Init /\ [][Next]_vars

-----------------------------------------------------------------------------
TypeOK == /\ flags \subseteq Index /\ base \in Index /\ units \in 0..Indexes
          /\ pc \in [Thread -> {"outside", "give", "get"}]

\* Each flag that is up has one unit: in sem, with the task that will give it or
\* with one that has taken it; so no trigger is lost, the loop of getIndex()
\* ends, and no wait() returns for a trigger that another has returned for.
Inv == TypeOK /\ Cardinality(flags) = units + N("give") + N("get")

\* As long as indexes are returned, none whose flag is up is passed over for ever.
NoIndexStarves ==
  \A i \in Index : []<><<\E t \in Thread : GetIndex(t)>>_vars => []<>(i \notin flags)
=============================================================================
