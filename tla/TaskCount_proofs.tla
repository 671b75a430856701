-------------------------- MODULE TaskCount_proofs --------------------------
(***************************************************************************)
(* How the counts of TaskCount change when one task takes one step, and    *)
(* the right to enter a lock that is made of an atomic counter and a slow  *)
(* semaphore: what the proofs about the locks and the semaphores are built *)
(* from.  And what a list is when an element is put in or taken out, for   *)
(* the proofs about the devices and the console.                           *)
(***************************************************************************)
EXTENDS TaskCount, SequencesExt, FiniteSetTheorems, SequenceTheorems, WellFoundedInduction, TLAPS

\* A count is a natural number.
LEMMA CountNat ==
  ASSUME NEW T, IsFiniteSet(T), NEW S, NEW pc \in [T -> S], NEW label
  PROVE  /\ IsFiniteSet(TasksAt(pc, label))
         /\ CountAt(pc, label) \in Nat
<1>1. TasksAt(pc, label) \subseteq T
  BY DEF TasksAt
<1>2. IsFiniteSet(TasksAt(pc, label))
  BY <1>1, FS_Subset
<1> QED
  BY <1>2, FS_CardinalityType DEF CountAt

\* A step of task t from label a to label b moves one from the count of a to
\* the count of b and leaves the others alone.
LEMMA CountStep ==
  ASSUME NEW T, IsFiniteSet(T), NEW S, NEW pc \in [T -> S],
         NEW q, NEW t, NEW a, NEW b, Moves(pc, q, t, a, b)
  PROVE  /\ CountAt(pc, a) >= 1
         /\ CountAt(q, a) = CountAt(pc, a) - 1
         /\ CountAt(q, b) = CountAt(pc, b) + 1
         /\ \A c : c # a /\ c # b => CountAt(q, c) = CountAt(pc, c)
<1>1. /\ TasksAt(q, a) = TasksAt(pc, a) \ {t}
      /\ t \in TasksAt(pc, a)
  BY DEF TasksAt, Moves
<1>2. /\ TasksAt(q, b) = TasksAt(pc, b) \cup {t}
      /\ t \notin TasksAt(pc, b)
  BY DEF TasksAt, Moves
<1>3. ASSUME NEW c, c # a, c # b
      PROVE  TasksAt(q, c) = TasksAt(pc, c)
  BY <1>3 DEF TasksAt, Moves
<1>4. \A c : IsFiniteSet(TasksAt(pc, c)) /\ CountAt(pc, c) \in Nat
  BY CountNat
<1>5. CountAt(pc, a) >= 1
  BY <1>1, <1>4, FS_EmptySet DEF CountAt
<1>6. CountAt(q, a) = CountAt(pc, a) - 1
  BY <1>1, <1>4, FS_RemoveElement DEF CountAt
<1>7. CountAt(q, b) = CountAt(pc, b) + 1
  BY <1>2, <1>4, FS_AddElement DEF CountAt
<1> QED
  BY <1>3, <1>5, <1>6, <1>7 DEF CountAt

\* A task at a label is counted there.
LEMMA CountSome ==
  ASSUME NEW T, IsFiniteSet(T), NEW S, NEW pc \in [T -> S], NEW t \in T
  PROVE  CountAt(pc, pc[t]) >= 1
<1>1. t \in TasksAt(pc, pc[t])
  BY DEF TasksAt
<1>2. IsFiniteSet(TasksAt(pc, pc[t])) /\ CountAt(pc, pc[t]) \in Nat
  BY CountNat
<1> QED
  BY <1>1, <1>2, FS_EmptySet DEF CountAt

\* Two tasks at one label count as two.
LEMMA CountTwo ==
  ASSUME NEW T, IsFiniteSet(T), NEW S, NEW pc \in [T -> S],
         NEW t \in T, NEW u \in T, t # u, pc[t] = pc[u]
  PROVE  CountAt(pc, pc[t]) >= 2
<1> DEFINE A == TasksAt(pc, pc[t])
<1>1. t \in A /\ u \in A \ {t}
  BY DEF TasksAt
<1>2. IsFiniteSet(A) /\ CountAt(pc, pc[t]) \in Nat
  BY CountNat
<1>3. IsFiniteSet(A \ {t}) /\ Cardinality(A \ {t}) = Cardinality(A) - 1
  BY <1>1, <1>2, FS_RemoveElement
<1>4. Cardinality(A \ {t}) # 0 /\ Cardinality(A \ {t}) \in Nat
  BY <1>1, <1>3, FS_EmptySet, FS_CardinalityType
<1> QED
  BY <1>2, <1>3, <1>4 DEF CountAt

\* Every task stands at the same place: nobody is counted anywhere else.
LEMMA CountInit ==
  ASSUME NEW T, IsFiniteSet(T), NEW start, NEW label, label # start
  PROVE  CountAt([t \in T |-> start], label) = 0
<1>1. TasksAt([t \in T |-> start], label) = {}
  BY DEF TasksAt
<1> QED
  BY <1>1, FS_EmptySet DEF CountAt

-----------------------------------------------------------------------------
\* The right to enter a lock that is made of an atomic counter e and a slow
\* semaphore with s tokens, for tasks T at the places p of lock() and unlock():
\* stated once, for FastMutex and for Mutex.
Places == {"outside", "take", "inside", "give"}

\* The counter counts the tasks inside or asleep, and the right to enter is in
\* one place while there are any.
Baton(T, e, s, p) ==
  /\ e \in Nat /\ s \in Nat /\ p \in [T -> Places]
  /\ e = CountAt(p, "inside") + CountAt(p, "take")
  /\ e = 0 => CountAt(p, "inside") + CountAt(p, "give") + s = 0
  /\ e > 0 => CountAt(p, "inside") + CountAt(p, "give") + s = 1

\* The four atomic steps, of task t from e, s, p to f, r, q.
Enters(t, e, s, p, f, r, q) ==
  f = e + 1 /\ r = s /\ Moves(p, q, t, "outside", IF e = 0 THEN "inside" ELSE "take")

Wakes(t, e, s, p, f, r, q) ==
  f = e /\ s > 0 /\ r = s - 1 /\ Moves(p, q, t, "take", "inside")

Exits(t, e, s, p, f, r, q) ==
  f = e - 1 /\ r = s /\ Moves(p, q, t, "inside", IF e = 1 THEN "outside" ELSE "give")

Gives(t, e, s, p, f, r, q) ==
  f = e /\ r = s + 1 /\ Moves(p, q, t, "give", "outside")

\* Naturals that add up to nothing, or to one of them that is not nothing.
LEMMA SumZero == \A i, g, s \in Nat : i + g + s = 0 => i = 0 /\ g = 0 /\ s = 0
OBVIOUS

LEMMA SumOne == \A i, g, s \in Nat : i + g + s = 1 /\ i >= 1 => i = 1 /\ g = 0 /\ s = 0
OBVIOUS

\* A lock that nobody has used.
LEMMA BatonInit ==
  ASSUME NEW T, IsFiniteSet(T)
  PROVE  Baton(T, 0, 0, [t \in T |-> "outside"])
<1>1. \A l \in {"inside", "take", "give"} : CountAt([t \in T |-> "outside"], l) = 0
  BY CountInit
<1> QED
  BY <1>1 DEF Baton, Places

\* How one step of one task moves the counts.
LEMMA BatonMoves ==
  ASSUME NEW T, IsFiniteSet(T), NEW p \in [T -> Places], NEW q,
         NEW t, NEW a \in Places, NEW b \in Places, Moves(p, q, t, a, b)
  PROVE  /\ q \in [T -> Places]
         /\ CountAt(p, a) >= 1
         /\ CountAt(q, a) = CountAt(p, a) - 1
         /\ CountAt(q, b) = CountAt(p, b) + 1
         /\ \A c : c # a /\ c # b => CountAt(q, c) = CountAt(p, c)
<1>1. q \in [T -> Places]
  BY DEF Moves
<1>2. CountAt(p, a) >= 1
  BY CountStep
<1>3. CountAt(q, a) = CountAt(p, a) - 1
  BY CountStep
<1>4. CountAt(q, b) = CountAt(p, b) + 1
  BY CountStep
<1>5. \A c : c # a /\ c # b => CountAt(q, c) = CountAt(p, c)
  BY CountStep
<1> QED
  BY <1>1, <1>2, <1>3, <1>4, <1>5

\* Each of the four steps keeps the right to enter in one place.
LEMMA BatonStep ==
  ASSUME NEW T, IsFiniteSet(T), NEW e, NEW s, NEW p, Baton(T, e, s, p),
         NEW t \in T, NEW f, NEW r, NEW q,
         \/ Enters(t, e, s, p, f, r, q) \/ Wakes(t, e, s, p, f, r, q)
         \/ Exits(t, e, s, p, f, r, q) \/ Gives(t, e, s, p, f, r, q)
  PROVE  Baton(T, f, r, q)
<1> DEFINE N(l) == CountAt(p, l)
           M(l) == CountAt(q, l)
<1>0. p \in [T -> Places] /\ e \in Nat /\ s \in Nat
  BY DEF Baton
<1>1. N("inside") \in Nat /\ N("take") \in Nat /\ N("give") \in Nat
  BY <1>0, CountNat
<1>2. /\ e = N("inside") + N("take")
      /\ e = 0 => N("inside") + N("give") + s = 0
      /\ e > 0 => N("inside") + N("give") + s = 1
  BY DEF Baton
<1>3. ASSUME NEW a \in Places, NEW b \in Places, Moves(p, q, t, a, b)
      PROVE  /\ q \in [T -> Places]
             /\ N(a) >= 1
             /\ M(a) = N(a) - 1
             /\ M(b) = N(b) + 1
             /\ \A c : c # a /\ c # b => M(c) = N(c)
  BY <1>0, <1>3, BatonMoves
<1> HIDE DEF N, M
<1>4. SUFFICES /\ f \in Nat /\ r \in Nat /\ q \in [T -> Places]
               /\ f = M("inside") + M("take")
               /\ f = 0 => M("inside") + M("give") + r = 0
               /\ f > 0 => M("inside") + M("give") + r = 1
  BY DEF Baton, M
<1>5. CASE Enters(t, e, s, p, f, r, q)
  <2>1. f = e + 1 /\ r = s
    BY <1>5 DEF Enters
  <2>2. CASE e = 0
    <3>1. Moves(p, q, t, "outside", "inside")
      BY <1>5, <2>2 DEF Enters
    <3>2. /\ q \in [T -> Places] /\ M("inside") = N("inside") + 1
          /\ M("take") = N("take") /\ M("give") = N("give")
      BY <1>3, <3>1 DEF Places
    <3>3. N("inside") = 0 /\ N("give") = 0 /\ s = 0
      BY <1>0, <1>1, <1>2, <2>2, SumZero
    <3>4. N("take") = 0
      BY <1>1, <1>2, <2>2, <3>3
    <3> QED
      BY <2>1, <2>2, <3>2, <3>3, <3>4
  <2>3. CASE e # 0
    <3>1. Moves(p, q, t, "outside", "take")
      BY <1>5, <2>3 DEF Enters
    <3>2. /\ q \in [T -> Places] /\ M("take") = N("take") + 1
          /\ M("inside") = N("inside") /\ M("give") = N("give")
      BY <1>3, <3>1 DEF Places
    <3> QED
      BY <1>0, <1>1, <1>2, <2>1, <2>3, <3>2
  <2> QED
    BY <2>2, <2>3
<1>6. CASE Wakes(t, e, s, p, f, r, q)
  <2>1. f = e /\ s > 0 /\ r = s - 1 /\ Moves(p, q, t, "take", "inside")
    BY <1>6 DEF Wakes
  <2>2. /\ q \in [T -> Places] /\ M("take") = N("take") - 1
        /\ M("inside") = N("inside") + 1 /\ M("give") = N("give")
    BY <1>3, <2>1 DEF Places
  <2> QED
    BY <1>0, <1>1, <1>2, <2>1, <2>2
<1>7. CASE Exits(t, e, s, p, f, r, q)
  <2>1. f = e - 1 /\ r = s
    BY <1>7 DEF Exits
  <2>2. CASE e = 1
    <3>1. Moves(p, q, t, "inside", "outside")
      BY <1>7, <2>2 DEF Exits
    <3>2. /\ q \in [T -> Places] /\ N("inside") >= 1 /\ M("inside") = N("inside") - 1
          /\ M("take") = N("take") /\ M("give") = N("give")
      BY <1>3, <3>1 DEF Places
    <3>3. N("inside") = 1 /\ N("give") = 0 /\ s = 0
      <4>1. N("inside") + N("give") + s = 1
        BY <1>2, <2>2
      <4> QED
        BY <1>0, <1>1, <3>2, <4>1, SumOne
    <3>4. N("take") = 0
      BY <1>1, <1>2, <2>2, <3>3
    <3> QED
      BY <2>1, <2>2, <3>2, <3>3, <3>4
  <2>3. CASE e # 1
    <3>1. Moves(p, q, t, "inside", "give")
      BY <1>7, <2>3 DEF Exits
    <3>2. /\ q \in [T -> Places] /\ N("inside") >= 1 /\ M("inside") = N("inside") - 1
          /\ M("take") = N("take") /\ M("give") = N("give") + 1
      BY <1>3, <3>1 DEF Places
    <3> QED
      BY <1>0, <1>1, <1>2, <2>1, <2>3, <3>2
  <2> QED
    BY <2>2, <2>3
<1>8. CASE Gives(t, e, s, p, f, r, q)
  <2>1. f = e /\ r = s + 1 /\ Moves(p, q, t, "give", "outside")
    BY <1>8 DEF Gives
  <2>2. /\ q \in [T -> Places] /\ N("give") >= 1 /\ M("give") = N("give") - 1
        /\ M("inside") = N("inside") /\ M("take") = N("take")
    BY <1>3, <2>1 DEF Places
  <2> QED
    BY <1>0, <1>1, <1>2, <2>1, <2>2
<1> QED
  BY <1>5, <1>6, <1>7, <1>8

\* While the right to enter is in one place, one task at most is inside.
LEMMA BatonExcludes ==
  ASSUME NEW T, IsFiniteSet(T), NEW e, NEW s, NEW p, Baton(T, e, s, p),
         NEW t \in T, NEW u \in T, p[t] = "inside", p[u] = "inside"
  PROVE  t = u
<1> SUFFICES ASSUME t # u PROVE FALSE
  OBVIOUS
<1>1. p \in [T -> Places]
  BY DEF Baton
<1>2. CountAt(p, "inside") >= 2
  BY <1>1, CountTwo
<1>3. CountAt(p, "inside") \in Nat /\ CountAt(p, "give") \in Nat
  BY <1>1, CountNat
<1> QED
  BY <1>2, <1>3 DEF Baton

-----------------------------------------------------------------------------
\* A function with one value changed.
Placed(p, t, b) == [p EXCEPT ![t] = b]

\* The units of one task: g[t] of them.
LEMMA UnitsOfOne ==
  ASSUME NEW t, NEW n \in Nat
  PROVE  IsFiniteSet({t} \X (1..n)) /\ Cardinality({t} \X (1..n)) = n
<1>1. IsFiniteSet({t}) /\ Cardinality({t}) = 1
  BY FS_Singleton
<1>2. IsFiniteSet(1..n) /\ Cardinality(1..n) = IF 1 > n THEN 0 ELSE n - 1 + 1
  BY FS_Interval
<1>3. IsFiniteSet({t} \X (1..n)) /\ Cardinality({t} \X (1..n)) = 1 * Cardinality(1..n)
  BY <1>1, <1>2, FS_Product
<1> QED
  BY <1>2, <1>3

\* The sum is a number.
LEMMA SumNat ==
  ASSUME NEW T, IsFiniteSet(T), NEW g \in [T -> Nat]
  PROVE  IsFiniteSet(UnitsOf(g)) /\ SumOf(g) \in Nat
<1> DEFINE f == [t \in T |-> {t} \X (1..g[t])]
           S == {{t} \X (1..g[t]) : t \in T}
<1>1. IsFiniteSet(S)
  <2>1. f \in Surjection(T, S)
    BY DEF Surjection
  <2> QED
    BY <2>1, FS_Surjection
<1>2. \A A \in S : IsFiniteSet(A)
  <2>1. \A t \in T : g[t] \in Nat
    OBVIOUS
  <2>2. \A t \in T : IsFiniteSet({t} \X (1..g[t]))
    BY <2>1, UnitsOfOne
  <2> QED
    BY <2>2
<1>3. IsFiniteSet(UNION S)
  BY <1>1, <1>2, FS_UNION
<1>4. UnitsOf(g) = UNION S
  BY DEF UnitsOf
<1> QED
  BY <1>3, <1>4, FS_CardinalityType DEF SumOf

\* One that had none gets n units.
LEMMA SumMore ==
  ASSUME NEW T, IsFiniteSet(T), NEW g \in [T -> Nat], NEW t \in T, g[t] = 0, NEW n \in Nat,
         NEW h, h = Placed(g, t, n)
  PROVE  SumOf(h) = SumOf(g) + n
<1>1. UnitsOf(h) = UnitsOf(g) \cup ({t} \X (1..n))
  BY DEF UnitsOf, Placed
<1>2. UnitsOf(g) \cap ({t} \X (1..n)) = {}
  BY DEF UnitsOf
<1>3. IsFiniteSet(UnitsOf(g)) /\ SumOf(g) \in Nat
  BY SumNat
<1>4. IsFiniteSet({t} \X (1..n)) /\ Cardinality({t} \X (1..n)) = n
  BY UnitsOfOne
<1>5. Cardinality({}) = 0
  BY FS_EmptySet
<1>6. Cardinality(UnitsOf(g) \cup ({t} \X (1..n))) = Cardinality(UnitsOf(g)) + n - 0
  <2> DEFINE A == UnitsOf(g)
             B == {t} \X (1..n)
  <2>1. IsFiniteSet(A) /\ IsFiniteSet(B)
    BY <1>3, <1>4
  <2>2. A \cap B = {} /\ Cardinality(B) = n
    BY <1>2, <1>4
  <2> HIDE DEF A, B
  <2>3. Cardinality(A \cup B) = Cardinality(A) + Cardinality(B) - Cardinality(A \cap B)
    BY <2>1, FS_Union
  <2>4. Cardinality(A \cup B) = Cardinality(A) + n - 0
    BY <1>5, <2>2, <2>3
  <2> QED
    BY <2>4 DEF A, B
<1>7. Cardinality(UnitsOf(h)) = Cardinality(UnitsOf(g)) + n - 0
  BY <1>1, <1>6
<1> QED
  BY <1>3, <1>7 DEF SumOf

\* One gets rid of its units.
LEMMA SumLess ==
  ASSUME NEW T, IsFiniteSet(T), NEW g \in [T -> Nat], NEW t \in T, NEW h, h = Placed(g, t, 0)
  PROVE  SumOf(g) = SumOf(h) + g[t]
<1>1. h \in [T -> Nat] /\ h[t] = 0 /\ g[t] \in Nat /\ g = Placed(h, t, g[t])
  BY DEF Placed
<1> QED
  BY <1>1, SumMore

\* One has n units instead of those it had.
LEMMA SumChange ==
  ASSUME NEW T, IsFiniteSet(T), NEW g \in [T -> Nat], NEW t \in T, NEW n \in Nat,
         NEW h, h = Placed(g, t, n)
  PROVE  /\ h \in [T -> Nat] /\ SumOf(h) \in Nat /\ SumOf(g) \in Nat
         /\ SumOf(h) + g[t] = SumOf(g) + n
<1> DEFINE z == Placed(g, t, 0)
<1>1. h \in [T -> Nat] /\ z \in [T -> Nat] /\ z[t] = 0 /\ h = Placed(z, t, n) /\ g[t] \in Nat
  BY DEF Placed
<1>2. SumOf(h) \in Nat /\ SumOf(g) \in Nat /\ SumOf(z) \in Nat
  BY <1>1, SumNat
<1>3. SumOf(g) = SumOf(z) + g[t]
  BY SumLess
<1>4. SumOf(h) = SumOf(z) + n
  BY <1>1, SumMore
<1> QED
  BY <1>1, <1>2, <1>3, <1>4

\* There are none, and nobody has one.
LEMMA SumNone ==
  ASSUME NEW T, IsFiniteSet(T), NEW g \in [T -> Nat]
  PROVE  SumOf(g) = 0 <=> \A t \in T : g[t] = 0
<1>1. IsFiniteSet(UnitsOf(g))
  BY SumNat
<1>2. SumOf(g) = 0 <=> UnitsOf(g) = {}
  BY <1>1, FS_EmptySet DEF SumOf
<1>3. UnitsOf(g) = {} <=> \A t \in T : g[t] = 0
  <2>1. ASSUME UnitsOf(g) = {}, NEW t \in T PROVE g[t] = 0
    <3>1. SUFFICES ASSUME g[t] # 0 PROVE FALSE
      OBVIOUS
    <3>2. 1 \in 1..g[t]
      BY <3>1
    <3>3. <<t, 1>> \in UnitsOf(g)
      BY <3>2 DEF UnitsOf
    <3> QED
      BY <2>1, <3>3
  <2>2. ASSUME \A t \in T : g[t] = 0 PROVE UnitsOf(g) = {}
    <3>1. \A t \in T : 1..g[t] = {}
      BY <2>2
    <3> QED
      BY <3>1 DEF UnitsOf
  <2> QED
    BY <2>1, <2>2
<1> QED
  BY <1>2, <1>3

\* Task t goes to b: how many are at each place then.
LEMMA CountPlaced ==
  ASSUME NEW T, IsFiniteSet(T), NEW S, NEW p \in [T -> S], NEW t \in T, NEW b,
         NEW q, q = Placed(p, t, b)
  PROVE  \A c : /\ CountAt(p, c) \in Nat
                /\ c = p[t] => CountAt(p, c) >= 1
                /\ c = p[t] /\ c # b => CountAt(q, c) = CountAt(p, c) - 1
                /\ c = b /\ c # p[t] => CountAt(q, c) = CountAt(p, c) + 1
                /\ (c = b /\ c = p[t]) \/ (c # b /\ c # p[t]) => CountAt(q, c) = CountAt(p, c)
<1>1. \A c : CountAt(p, c) \in Nat
  BY CountNat
<1>2. CountAt(p, p[t]) >= 1
  BY CountSome
<1>3. CASE p[t] = b
  <2>1. q = p
    BY <1>3 DEF Placed
  <2> QED
    BY <1>1, <1>2, <1>3, <2>1
<1>4. CASE p[t] # b
  <2>1. Moves(p, q, t, p[t], b)
    BY <1>4 DEF Moves, Placed
  <2>2. /\ CountAt(q, p[t]) = CountAt(p, p[t]) - 1
        /\ CountAt(q, b) = CountAt(p, b) + 1
        /\ \A c : c # p[t] /\ c # b => CountAt(q, c) = CountAt(p, c)
    BY <2>1, CountStep
  <2> QED
    BY <1>1, <1>2, <1>4, <2>2
<1> QED
  BY <1>3, <1>4

-----------------------------------------------------------------------------
\* Lists: one element more at either end, the first one taken, one taken out.
LEMMA ListElements ==
  ASSUME NEW S, NEW q \in Seq(S)
  PROVE  /\ Len(q) \in Nat /\ DOMAIN q = 1..Len(q) /\ ToSet(q) \subseteq S
         /\ \A i \in 1..Len(q) : q[i] \in S /\ q[i] \in ToSet(q)
         /\ \A x \in ToSet(q) : \E i \in 1..Len(q) : q[i] = x
         /\ q = << >> <=> Len(q) = 0
         /\ q = << >> <=> ToSet(q) = {}
         /\ IsInjective(q) <=> \A i, j \in 1..Len(q) : q[i] = q[j] => i = j
BY DEF ToSet, IsInjective

LEMMA ListAppend ==
  ASSUME NEW S, NEW q \in Seq(S), NEW x \in S
  PROVE  /\ Append(q, x) \in Seq(S) /\ ToSet(Append(q, x)) = ToSet(q) \cup {x}
         /\ IsInjective(q) /\ x \notin ToSet(q) => IsInjective(Append(q, x))
<1> DEFINE a == Append(q, x)
<1>1. /\ a \in Seq(S) /\ Len(a) = Len(q) + 1
      /\ \A i \in 1..Len(q) : a[i] = q[i]
      /\ a[Len(q) + 1] = x
  OBVIOUS
<1> HIDE DEF a
<1>2. /\ Len(q) \in Nat /\ DOMAIN q = 1..Len(q) /\ DOMAIN a = 1..(Len(q) + 1)
  BY <1>1
<1>3. ToSet(a) = ToSet(q) \cup {x}
  <2>1. \A y \in ToSet(a) : y \in ToSet(q) \cup {x}
    BY <1>1, <1>2 DEF ToSet
  <2>2. \A y \in ToSet(q) \cup {x} : y \in ToSet(a)
    BY <1>1, <1>2 DEF ToSet
  <2> QED
    BY <2>1, <2>2
<1>4. ASSUME IsInjective(q), x \notin ToSet(q) PROVE IsInjective(a)
  BY <1>1, <1>2, <1>4 DEF ToSet, IsInjective
<1> QED
  BY <1>1, <1>3, <1>4 DEF a

LEMMA ListCons ==
  ASSUME NEW S, NEW q \in Seq(S), NEW x \in S
  PROVE  /\ <<x>> \o q \in Seq(S) /\ ToSet(<<x>> \o q) = ToSet(q) \cup {x}
         /\ IsInjective(q) /\ x \notin ToSet(q) => IsInjective(<<x>> \o q)
         /\ Len(<<x>> \o q) = Len(q) + 1
<1> DEFINE a == <<x>> \o q
<1>1. /\ a \in Seq(S) /\ Len(a) = Len(q) + 1
      /\ \A i \in 2..(Len(q) + 1) : a[i] = q[i - 1]
      /\ a[1] = x
  OBVIOUS
<1> HIDE DEF a
<1>2. /\ Len(q) \in Nat /\ DOMAIN q = 1..Len(q) /\ DOMAIN a = 1..(Len(q) + 1)
  BY <1>1
<1>3. ToSet(a) = ToSet(q) \cup {x}
  <2>1. \A y \in ToSet(a) : y \in ToSet(q) \cup {x}
    BY <1>1, <1>2 DEF ToSet
  <2>2. \A i \in 1..Len(q) : i + 1 \in 2..(Len(q) + 1) /\ a[i + 1] = q[i]
    BY <1>1, <1>2
  <2>3. \A y \in ToSet(q) \cup {x} : y \in ToSet(a)
    BY <1>1, <1>2, <2>2 DEF ToSet
  <2> QED
    BY <2>1, <2>3
<1>4. ASSUME IsInjective(q), x \notin ToSet(q) PROVE IsInjective(a)
  <2>1. \A i, j \in 1..Len(q) : q[i] = q[j] => i = j
    BY <1>2, <1>4 DEF IsInjective
  <2>2. \A i \in 2..(Len(q) + 1) : i - 1 \in 1..Len(q) /\ a[i] = q[i - 1] /\ a[i] # x
    BY <1>1, <1>2, <1>4 DEF ToSet
  <2>3. \A i, j \in 1..(Len(q) + 1) : a[i] = a[j] => i = j
    BY <1>1, <1>2, <2>1, <2>2
  <2> QED
    BY <1>2, <2>3 DEF IsInjective
<1> QED
  BY <1>1, <1>3, <1>4 DEF a

LEMMA ListTail ==
  ASSUME NEW S, NEW q \in Seq(S), q # << >>, IsInjective(q)
  PROVE  /\ Head(q) \in S /\ Head(q) \in ToSet(q)
         /\ Tail(q) \in Seq(S) /\ ToSet(Tail(q)) = ToSet(q) \ {Head(q)} /\ IsInjective(Tail(q))
         /\ Len(Tail(q)) = Len(q) - 1
<1> DEFINE a == Tail(q)
           n == Len(q)
<1>1. /\ a \in Seq(S) /\ Len(a) = n - 1 /\ n \in Nat /\ n >= 1 /\ Head(q) = q[1] /\ q[1] \in S
      /\ \A i \in 1..(n - 1) : a[i] = q[i + 1]
      /\ DOMAIN q = 1..n /\ DOMAIN a = 1..(n - 1)
  OBVIOUS
<1> HIDE DEF a, n
<1>2. \A i, j \in 1..n : q[i] = q[j] => i = j
  BY <1>1 DEF IsInjective
<1>3. ToSet(a) = ToSet(q) \ {Head(q)}
  <2>1. \A y \in ToSet(a) : y \in ToSet(q) \ {q[1]}
    BY <1>1, <1>2 DEF ToSet
  <2>2. \A i \in 1..n : i # 1 => i - 1 \in 1..(n - 1) /\ a[i - 1] = q[i]
    BY <1>1
  <2>3. ASSUME NEW y \in ToSet(q), y # q[1] PROVE y \in ToSet(a)
    <3>1. PICK i \in 1..n : y = q[i]
      BY <1>1 DEF ToSet
    <3>2. i - 1 \in DOMAIN a /\ a[i - 1] = y
      BY <1>1, <2>2, <2>3, <3>1
    <3> QED
      BY <3>2 DEF ToSet
  <2> QED
    BY <1>1, <2>1, <2>3
<1>4. IsInjective(a)
  BY <1>1, <1>2 DEF IsInjective
<1> QED
  <2>1. q[1] \in ToSet(q)
    BY <1>1 DEF ToSet
  <2> QED
    BY <1>1, <1>3, <1>4, <2>1 DEF a, n

LEMMA ListRemove ==
  ASSUME NEW S, NEW q \in Seq(S), IsInjective(q), NEW x \in ToSet(q)
  PROVE  /\ RemoveFirst(q, x) \in Seq(S) /\ ToSet(RemoveFirst(q, x)) = ToSet(q) \ {x}
         /\ IsInjective(RemoveFirst(q, x))
<1> DEFINE n == Len(q)
           a == RemoveFirst(q, x)
<1>1. n \in Nat /\ DOMAIN q = 1..n /\ \A i, j \in 1..n : q[i] = q[j] => i = j
  BY DEF IsInjective
<1>2. PICK k \in 1..n : q[k] = x
  BY <1>1 DEF ToSet
<1>3. {i \in 1..Len(q) : q[i] = x} = {k}
  BY <1>1, <1>2
<1>4. Min({k}) = k
  BY <1>1, <1>2 DEF Min
<1>5. SelectInSeq(q, LAMBDA v : v = x) = k
  BY <1>3, <1>4 DEF SelectInSeq
<1>6. a = SubSeq(q, 1, k - 1) \o SubSeq(q, k + 1, n)
  BY <1>2, <1>5 DEF RemoveFirst, RemoveAt
<1>7. /\ a \in Seq(S) /\ Len(a) = n - 1 /\ DOMAIN a = 1..(n - 1)
      /\ \A i \in 1..(n - 1) : a[i] = IF i < k THEN q[i] ELSE q[i + 1]
  <2> DEFINE b == SubSeq(q, 1, k - 1)
             c == SubSeq(q, k + 1, n)
  <2>1. b \in Seq(S) /\ Len(b) = k - 1 /\ \A i \in 1..(k - 1) : b[i] = q[i]
    BY <1>1, <1>2
  <2>2. c \in Seq(S) /\ Len(c) = n - k /\ \A i \in 1..(n - k) : c[i] = q[k + i]
    <3>1. \A i \in (k + 1)..n : q[i] \in S
      BY <1>1, <1>2
    <3>2. /\ c \in Seq(S) /\ Len(c) = IF k + 1 <= n THEN n - (k + 1) + 1 ELSE 0
          /\ \A i \in 1..(n - (k + 1) + 1) : c[i] = q[(k + 1) + i - 1]
      BY <1>1, <1>2, <3>1, SubSeqProperties
    <3> HIDE DEF c, n
    <3>3. n - (k + 1) + 1 = n - k /\ \A i \in 1..(n - k) : (k + 1) + i - 1 = k + i
      BY <1>1, <1>2
    <3>4. Len(c) = n - k
      BY <1>1, <1>2, <3>2, <3>3
    <3>5. ASSUME NEW i \in 1..(n - k) PROVE c[i] = q[k + i]
      BY <3>2, <3>3
    <3> QED
      BY <3>2, <3>4, <3>5
  <2>3. a = b \o c
    BY <1>6
  <2> HIDE DEF a, b, c, n
  <2>4. a \in Seq(S) /\ Len(a) = Len(b) + Len(c) /\ DOMAIN a = 1..(Len(b) + Len(c))
        /\ \A i \in 1..(Len(b) + Len(c)) : a[i] = IF i <= Len(b) THEN b[i] ELSE c[i - Len(b)]
    <3>1. a \in Seq(S)
      BY <2>1, <2>2, <2>3
    <3>2. Len(a) = Len(b) + Len(c) /\ DOMAIN a = 1..(Len(b) + Len(c))
      BY <2>1, <2>2, <2>3
    <3>3. \A i \in 1..(Len(b) + Len(c)) : a[i] = IF i <= Len(b) THEN b[i] ELSE c[i - Len(b)]
      BY <2>1, <2>2, <2>3
    <3> QED
      BY <3>1, <3>2, <3>3
  <2>5. Len(b) + Len(c) = n - 1
    BY <1>1, <1>2, <2>1, <2>2
  <2>6. ASSUME NEW i \in 1..(n - 1) PROVE a[i] = IF i < k THEN q[i] ELSE q[i + 1]
    <3>1. CASE i < k
      BY <1>1, <1>2, <2>1, <2>2, <2>4, <2>5, <3>1
    <3>2. CASE ~(i < k)
      <4>1. i - Len(b) \in 1..(n - k) /\ k + (i - Len(b)) = i + 1
        BY <1>1, <1>2, <2>1, <3>2
      <4> QED
        <5>1. a[i] = c[i - Len(b)]
          BY <1>1, <1>2, <2>1, <2>4, <2>5, <3>2
        <5>2. c[i - Len(b)] = q[k + (i - Len(b))]
          BY <2>2, <4>1
        <5> QED
          BY <3>2, <4>1, <5>1, <5>2
    <3> QED
      BY <3>1, <3>2
  <2> QED
    BY <1>1, <2>4, <2>5, <2>6
<1> HIDE DEF a, n
<1>8. ToSet(a) = ToSet(q) \ {x}
  <2>1. \A y \in ToSet(a) : y \in ToSet(q) \ {x}
    BY <1>1, <1>2, <1>7 DEF ToSet
  <2>2. \A i \in 1..n : /\ i < k => i \in 1..(n - 1) /\ a[i] = q[i]
                        /\ i > k => i - 1 \in 1..(n - 1) /\ a[i - 1] = q[i]
    BY <1>1, <1>2, <1>7
  <2>3. ASSUME NEW y \in ToSet(q), y # x PROVE y \in ToSet(a)
    <3>1. PICK i \in 1..n : y = q[i]
      BY <1>1 DEF ToSet
    <3>2. \E j \in DOMAIN a : a[j] = y
      <4>1. i < k \/ i > k
        BY <1>1, <1>2, <2>3, <3>1
      <4>2. CASE i < k
        BY <1>7, <2>2, <3>1, <4>2
      <4>3. CASE i > k
        BY <1>7, <2>2, <3>1, <4>3
      <4> QED
        BY <4>1, <4>2, <4>3
    <3> QED
      BY <3>2 DEF ToSet
  <2> QED
    BY <2>1, <2>3
<1>9. IsInjective(a)
  BY <1>1, <1>2, <1>7 DEF IsInjective
<1> QED
  BY <1>7, <1>8, <1>9 DEF a

\* Of the elements of a set one has the least number.
LEMMA LeastOne ==
  ASSUME NEW Q, Q # {}, NEW f \in [Q -> Nat]
  PROVE  \E i \in Q : \A j \in Q : f[i] <= f[j]
<1>1. {f[i] : i \in Q} \subseteq Nat /\ {f[i] : i \in Q} # {}
  OBVIOUS
<1>2. \E x \in {f[i] : i \in Q} : \A y \in {f[i] : i \in Q} : ~(<<y, x>> \in OpToRel(<, Nat))
  BY <1>1, NatLessThanWellFounded, WFMin
<1>3. PICK i \in Q : \A j \in Q : ~(<<f[j], f[i]>> \in OpToRel(<, Nat))
  BY <1>2
<1>4. \A j \in Q : ~(f[j] < f[i])
  BY <1>3 DEF OpToRel
<1> QED
  BY <1>4

-----------------------------------------------------------------------------
\* Quotients and remainders.
LEMMA Multiples ==
  ASSUME NEW d \in Nat \ {0}, NEW a \in Int, NEW b \in Int, a >= b + 1
  PROVE  d * a >= d * b + d
OBVIOUS

LEMMA Division ==
  ASSUME NEW d \in Nat \ {0}, NEW n \in Int
  PROVE  /\ n \div d \in Int /\ n % d \in 0..(d - 1)
         /\ n = d * (n \div d) + (n % d)
OBVIOUS

LEMMA DivisionUnique ==
  ASSUME NEW d \in Nat \ {0}, NEW n \in Int, NEW q \in Int, NEW r \in 0..(d - 1), n = d * q + r
  PROVE  n \div d = q /\ n % d = r
<1>1. /\ n \div d \in Int /\ n % d \in 0..(d - 1)
      /\ n = d * (n \div d) + (n % d)
  BY Division
<1>2. ~ (n \div d >= q + 1)
  BY <1>1, Multiples
<1>3. ~ (q >= (n \div d) + 1)
  BY <1>1, Multiples
<1>4. n \div d = q
  BY <1>1, <1>2, <1>3
<1>5. n % d = n - d * (n \div d)
  BY <1>1
<1> QED
  BY <1>4, <1>5
=============================================================================
