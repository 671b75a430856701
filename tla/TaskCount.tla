----------------------------- MODULE TaskCount -----------------------------
(***************************************************************************)
(* Counting the tasks that stand at one place of a function of the code.   *)
(***************************************************************************)
EXTENDS Integers, FiniteSets

TasksAt(pc, label) == {t \in DOMAIN pc : pc[t] = label}

CountAt(pc, label) == Cardinality(TasksAt(pc, label))

\* From pc to q, task t goes from label a to label b and no other task moves.
Moves(pc, q, t, a, b) ==
  t \in DOMAIN pc /\ pc[t] = a /\ a # b /\ q = [pc EXCEPT ![t] = b]

\* The units of a function to the natural numbers, g[t] of each t, and their number:
\* tokens that tasks have still to give to a semaphore, or units of indexes.
UnitsOf(g) == UNION {{t} \X (1..g[t]) : t \in DOMAIN g}

SumOf(g) == Cardinality(UnitsOf(g))
=============================================================================
