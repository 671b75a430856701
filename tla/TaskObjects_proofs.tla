------------------------- MODULE TaskObjects_proofs -------------------------
(***************************************************************************)
(* Theorems about the objects that tasks share, Sem, Event, MultiSem,      *)
(* MultiEvent, AttachmentHost over AntiSem, JobMachine and IPTickList, for *)
(* any number of tasks, units, indexes, hooks, jobs and endpoints; and     *)
(* FastMutex and Mutex, for any nesting: exclusion, the right to enter,    *)
(* the unprotected task_id and reentry, and the refinement of FastMutex by *)
(* Mutex and of the abstract lock by both.                                 *)
(***************************************************************************)
EXTENDS MCTaskObjects, TaskCount_proofs

\* The operators of the instances are those of this module.
LEMMA SameOperators ==
  /\ \A p, l : S!CountAt(p, l) = CountAt(p, l) /\ E!CountAt(p, l) = CountAt(p, l)
               /\ M!CountAt(p, l) = CountAt(p, l) /\ V!CountAt(p, l) = CountAt(p, l)
               /\ Asem!CountAt(p, l) = CountAt(p, l) /\ J!CountAt(p, l) = CountAt(p, l)
  /\ \A g : S!SumOf(g) = SumOf(g) /\ M!SumOf(g) = SumOf(g) /\ Asem!SumOf(g) = SumOf(g)
  /\ \A s : V!Cardinality(s) = Cardinality(s)
<1>1. \A s : /\ S!Cardinality(s) = Cardinality(s) /\ E!Cardinality(s) = Cardinality(s)
             /\ M!Cardinality(s) = Cardinality(s) /\ V!Cardinality(s) = Cardinality(s)
             /\ Asem!Cardinality(s) = Cardinality(s) /\ J!Cardinality(s) = Cardinality(s)
  BY DEF S!Cardinality, E!Cardinality, M!Cardinality, V!Cardinality, Asem!Cardinality, J!Cardinality, Cardinality
<1>2. \A p, l : S!CountAt(p, l) = CountAt(p, l) /\ E!CountAt(p, l) = CountAt(p, l)
                /\ M!CountAt(p, l) = CountAt(p, l) /\ V!CountAt(p, l) = CountAt(p, l)
                /\ Asem!CountAt(p, l) = CountAt(p, l) /\ J!CountAt(p, l) = CountAt(p, l)
  BY <1>1 DEF CountAt, S!CountAt, E!CountAt, M!CountAt, V!CountAt, Asem!CountAt, J!CountAt,
              TasksAt, S!TasksAt, E!TasksAt, M!TasksAt, V!TasksAt, Asem!TasksAt, J!TasksAt
<1>3. \A g : S!SumOf(g) = SumOf(g) /\ M!SumOf(g) = SumOf(g) /\ Asem!SumOf(g) = SumOf(g)
  BY <1>1 DEF SumOf, S!SumOf, M!SumOf, Asem!SumOf, UnitsOf, S!UnitsOf, M!UnitsOf, Asem!UnitsOf
<1> QED
  BY <1>1, <1>2, <1>3

LEMMA Finite == IsFiniteSet(Thread) /\ IsFiniteSet(Task) /\ IsFiniteSet(Object)
BY ObjectsAssumption, HostAssumption

LEMMA LockSizes == NoThread \notin Thread /\ LockNesting \in Nat \ {0}
BY ObjectsAssumption

Index1 == 1..Indexes

LEMMA IndexesFinite == IsFiniteSet(Index1)
<1>1. Indexes \in Int /\ 1 \in Int
  BY ObjectsAssumption
<1> QED
  BY <1>1, FS_Interval DEF Index1

-----------------------------------------------------------------------------
\* Sem and Event : tasks asleep, in a plain wait w or in one with a timeout.
Sleeping(w) == {w, "timed", "late", "retry"}

Places4(w) == Sleeping(w) \cup {"outside", "give"}

Giving(p) == CountAt(p, "give")

Waiting(w, p) == CountAt(p, w) + CountAt(p, "timed") + CountAt(p, "late") + CountAt(p, "retry")

LEMMA WaitingStep ==
  ASSUME NEW w \in {"take", "wait"}, NEW p \in [Thread -> Places4(w)], NEW t \in Thread,
         NEW b \in Places4(w), NEW q, q = Placed(p, t, b)
  PROVE  /\ q \in [Thread -> Places4(w)]
         /\ Waiting(w, p) \in Nat
         /\ p[t] \in Sleeping(w) /\ b \notin Sleeping(w) => Waiting(w, q) = Waiting(w, p) - 1
         /\ p[t] \notin Sleeping(w) /\ b \in Sleeping(w) => Waiting(w, q) = Waiting(w, p) + 1
         /\ (p[t] \in Sleeping(w) <=> b \in Sleeping(w)) => Waiting(w, q) = Waiting(w, p)
         /\ q[t] = b /\ \A u \in Thread : u # t => q[u] = p[u]
<1>1. q \in [Thread -> Places4(w)]
  BY DEF Placed
<1>2. \A c : /\ CountAt(p, c) \in Nat
             /\ c = p[t] => CountAt(p, c) >= 1
             /\ c = p[t] /\ c # b => CountAt(q, c) = CountAt(p, c) - 1
             /\ c = b /\ c # p[t] => CountAt(q, c) = CountAt(p, c) + 1
             /\ (c = b /\ c = p[t]) \/ (c # b /\ c # p[t]) => CountAt(q, c) = CountAt(p, c)
  BY Finite, CountPlaced
<1>3. Waiting(w, p) \in Nat
  BY <1>2 DEF Waiting
<1>4. p[t] \in Places4(w)
  OBVIOUS
<1>5. p[t] \in Sleeping(w) /\ b \notin Sleeping(w) => Waiting(w, q) = Waiting(w, p) - 1
  BY <1>2, <1>4 DEF Waiting, Sleeping
<1>6. p[t] \notin Sleeping(w) /\ b \in Sleeping(w) => Waiting(w, q) = Waiting(w, p) + 1
  BY <1>2, <1>4 DEF Waiting, Sleeping
<1>8. q[t] = b /\ \A u \in Thread : u # t => q[u] = p[u]
  BY DEF Placed
<1>7. (p[t] \in Sleeping(w) <=> b \in Sleeping(w)) => Waiting(w, q) = Waiting(w, p)
  BY <1>2, <1>4 DEF Waiting, Sleeping
<1> QED
  BY <1>1, <1>3, <1>5, <1>6, <1>7, <1>8

-----------------------------------------------------------------------------
\* Each component's invariant, inductive under its own next-state relation.
SemInv == /\ semCount \in 0..MaxUnits /\ semTakers \in Nat /\ semSem \in Nat
          /\ semGives \in [Thread -> 0..MaxGive] /\ semPc \in [Thread -> Places4("take")]
          /\ Waiting("take", semPc) = semTakers + semSem + SumOf(semGives)
          /\ semCount > 0 => semTakers = 0
          /\ \A t \in Thread : semGives[t] > 0 => semPc[t] = "give"

EventInv == /\ flag \in BOOLEAN /\ eventWaiters \in Nat /\ eventSem \in Nat
            /\ eventPc \in [Thread -> Places4("wait")]
            /\ Waiting("wait", eventPc) = eventWaiters + eventSem + Giving(eventPc)
            /\ flag => eventWaiters = 0

Places3 == {"outside", "give", "get"}

Between(p) == CountAt(p, "give") + CountAt(p, "get")

MultiInv == /\ counts \in [Index1 -> Nat] /\ base \in Index1 /\ units \in Nat
            /\ multiPc \in [Task -> Places3]
            /\ SumOf(counts) = units + Between(multiPc) /\ SumOf(counts) <= MaxIndexUnits

FlagsInv == /\ flags \subseteq Index1 /\ eventBase \in Index1 /\ eventUnits \in Nat
            /\ multiEventPc \in [Task -> Places3]
            /\ Cardinality(flags) = eventUnits + Between(multiEventPc)

\* The AntiSem counts the hooks, all of the object that is attached.
HooksOK == /\ hooks \in [Task -> Seq(Object)] /\ held \in [Task -> Nat]
           /\ \A t \in Task : held[t] = Len(hooks[t])
           /\ count = SumOf(held) /\ count <= MaxHooks
           /\ HooksAreAlive

\* Its tokens are those of the sleeping detach().
Places2 == {"outside", "wait"}

Waits(p) == CountAt(p, "wait")

TokensOK == /\ wait_count \in Nat /\ sem \in Nat /\ gives \in [Task -> Nat]
            /\ pc \in [Object -> Places2]
            /\ Waits(pc) = wait_count + sem + SumOf(gives)
            /\ count = 0 => wait_count = 0

\* An owner is in the AntiSem's wait() while it is asleep in detach(), has its token
\* coming once no hook is left, and only the owner of the attached object does anything.
StageOK(o) == /\ pc[o] = "wait" <=> stage[o] = "asleep"
              /\ stage[o] # "out" => obj = o
              /\ stage[o] = "in" => enable
              /\ stage[o] = "drained" => count = 0
              /\ stage[o] = "asleep" /\ wait_count = 0 => count = 0

StagesOK == /\ obj \in Object \cup {NoObject} /\ enable \in BOOLEAN
            /\ stage \in [Object -> {"out", "in", "draining", "asleep", "drained"}]
            /\ \A o \in Object : StageOK(o)
            /\ enable => \E o \in Object : stage[o] = "in"

HostInv == HooksOK /\ TokensOK /\ StagesOK

\* Where the tasks of a JobMachine can be, and where one has a unit in its hands.
JobPlaces == {"free", "add", "add_run", "stop", "wait", "drain", "done", "take", "get", "run", "leave", "gone"}

Carries == {"get", "leave", "add", "add_run"}

Carrying(p) == CountAt(p, "get") + CountAt(p, "leave") + CountAt(p, "add") + CountAt(p, "add_run")

JobTypes == /\ pri \in Seq(Job) /\ normal \in Seq(Job) /\ jobUnits \in Nat
            /\ stop_flag \in BOOLEAN /\ ex_flag \in BOOLEAN
            /\ job \in [Task -> Seq(Job)] /\ told \in [Task -> BOOLEAN]
            /\ jobPc \in [J!Actor -> JobPlaces]

\* Each kind of task has its own places, and the owner goes on when all workers are gone.
KindsOK == /\ \A w \in Task : jobPc[w] \in {"take", "get", "run", "add_run", "leave", "gone"}
           /\ \A c \in Thread \ Task : jobPc[c] \in {"free", "add"}
           /\ jobPc[Owner] \in {"free", "stop", "wait", "drain", "done"}
           /\ jobPc[Owner] \in {"drain", "done"} => \A w \in Task : jobPc[w] = "gone"

StopOK == /\ stop_flag <=> jobPc[Owner] # "free"
          /\ \A w \in Task : jobPc[w] \in {"leave", "gone"} => stop_flag

Jobs(p, n) == Len(p) + Len(n)

StopUnitAt(label) == IF label = "wait" THEN 1 ELSE 0

UnitsOK == jobPc[Owner] \notin {"drain", "done"} =>
             jobUnits + Carrying(jobPc) = Jobs(pri, normal) + StopUnitAt(jobPc[Owner])

JobInv == JobTypes /\ KindsOK /\ StopOK /\ UnitsOK

\* The endpoints in the list are those attached, each once.
ListOK == /\ list \in Seq(Endpoint)
          /\ \A i, k \in 1..Len(list) : list[i] = list[k] => i = k
          /\ state \in [Endpoint -> {"out", "in", "waiting"}]
          /\ \A e \in Endpoint : state[e] = "in" <=> \E i \in 1..Len(list) : list[i] = e
          /\ \A e \in stayed : \E i \in 1..Len(list) : list[i] = e
          /\ ticks \in [Endpoint -> Nat]

\* In a round with these ticks e was called at most once, and once if it has stayed.
Served(t, s, e) == t[e] <= 1 /\ (e \in s => t[e] = 1)

\* The guard is in the list, nobody before it has been called in this round,
\* and it and all behind it have, those that have come meanwhile excepted.
GuardIsAt(g) == /\ list[g] = guard
                /\ \A i \in 1..Len(list) : i < g => ticks[list[i]] = 0
                /\ \A i \in 1..Len(list) : g <= i => Served(ticks, stayed, list[i])

RoundOK == /\ ~ticking => \A i \in 1..Len(list) : Served(ticks, stayed, list[i])
           /\ ticking /\ guard = NoEndpoint => \A i \in 1..Len(list) : ticks[list[i]] = 0
           /\ ticking /\ guard # NoEndpoint => \E g \in 1..Len(list) : GuardIsAt(g)

TickInv == ListOK /\ RoundOK

IInv == SemInv /\ EventInv /\ MultiInv /\ FlagsInv /\ HostInv /\ JobInv /\ TickInv

-----------------------------------------------------------------------------
\* Sem.
LEMMA MinOfTwo == \A a, b \in Nat : S!Min({a, b}) = IF a <= b THEN a ELSE b
BY DEF S!Min

SemUnits == semCount + semSem + SumOf(semGives)

\* Each operation keeps the invariant, and takes or gives what CountSpec says.
LEMMA SemStep ==
  ASSUME SemInv, S!Next
  PROVE  /\ SemInv'
         /\ \/ SemUnits' = SemUnits
            \/ SemUnits > 0 /\ SemUnits' = SemUnits - 1
            \/ \E n \in 1..MaxGive : SemUnits' = SemUnits + n
<1>1. PICK t \in Thread : S!Take(t) \/ S!Give(t)
  BY DEF S!Next
<1>2. /\ semCount \in Nat /\ semTakers \in Nat /\ semSem \in Nat /\ MaxUnits \in Nat /\ MaxGive \in Nat
      /\ semCount <= MaxUnits /\ semGives \in [Thread -> Nat] /\ semPc \in [Thread -> Places4("take")]
      /\ semGives \in [Thread -> 0..MaxGive]
  BY ObjectsAssumption DEF SemInv
<1>3. /\ Waiting("take", semPc) = semTakers + semSem + SumOf(semGives)
      /\ semCount > 0 => semTakers = 0
      /\ \A u \in Thread : semGives[u] > 0 => semPc[u] = "give"
  BY DEF SemInv
<1>4. SumOf(semGives) \in Nat
  BY <1>2, Finite, SumNat
<1>5. CASE S!TakeNow(t)
  <2>1. /\ semCount > 0 /\ semCount' = semCount - 1
        /\ semTakers' = semTakers /\ semSem' = semSem /\ semGives' = semGives /\ semPc' = semPc
    BY <1>5 DEF S!TakeNow
  <2> QED
    BY <1>2, <1>3, <1>4, <2>1 DEF SemInv, SemUnits
<1>6. CASE S!BeginTake(t)
  <2>1. PICK b \in {"take", "timed"} : semPc' = Placed(semPc, t, b)
    BY <1>6 DEF S!BeginTake, S!To, Placed
  <2>2. /\ semPc[t] = "outside" /\ semCount = 0 /\ semTakers' = semTakers + 1
        /\ semCount' = semCount /\ semSem' = semSem /\ semGives' = semGives
    BY <1>6 DEF S!BeginTake
  <2>3. semPc[t] \notin Sleeping("take") /\ b \in Sleeping("take") /\ b \in Places4("take")
    BY <2>1, <2>2 DEF Sleeping, Places4
  <2>4. /\ semPc' \in [Thread -> Places4("take")]
        /\ Waiting("take", semPc') = Waiting("take", semPc) + 1
        /\ \A u \in Thread : u # t => semPc'[u] = semPc[u]
    BY <1>2, <2>1, <2>3, WaitingStep
  <2>5. \A u \in Thread : semGives'[u] > 0 => semPc'[u] = "give"
    BY <1>3, <2>2, <2>4
  <2> QED
    BY <1>2, <1>3, <1>4, <2>2, <2>4, <2>5 DEF SemInv, SemUnits
<1>7. CASE S!SemTake(t)
  <2>1. PICK b \in {"outside"} : semPc' = Placed(semPc, t, b)
    BY <1>7 DEF S!SemTake, S!To, Placed
  <2>2. /\ semPc[t] \in {"take", "timed", "retry"} /\ semSem > 0 /\ semSem' = semSem - 1
        /\ semCount' = semCount /\ semTakers' = semTakers /\ semGives' = semGives
    BY <1>7 DEF S!SemTake
  <2>3. semPc[t] \in Sleeping("take") /\ b \notin Sleeping("take") /\ b \in Places4("take")
    BY <2>1, <2>2 DEF Sleeping, Places4
  <2>4. /\ semPc' \in [Thread -> Places4("take")]
        /\ Waiting("take", semPc') = Waiting("take", semPc) - 1
        /\ \A u \in Thread : u # t => semPc'[u] = semPc[u]
    BY <1>2, <2>1, <2>3, WaitingStep
  <2>5. \A u \in Thread : semGives'[u] > 0 => semPc'[u] = "give"
    BY <1>3, <2>2, <2>4
  <2> QED
    BY <1>2, <1>3, <1>4, <2>2, <2>4, <2>5 DEF SemInv, SemUnits
<1>8. CASE S!SemTimeout(t)
  <2>1. PICK b \in {"late"} : semPc' = Placed(semPc, t, b)
    BY <1>8 DEF S!SemTimeout, S!To, Placed
  <2>2. /\ semPc[t] \in {"timed", "retry"} /\ semSem' = semSem
        /\ semCount' = semCount /\ semTakers' = semTakers /\ semGives' = semGives
    BY <1>8 DEF S!SemTimeout
  <2>3. semPc[t] \in Sleeping("take") /\ b \in Sleeping("take") /\ b \in Places4("take")
    BY <2>1, <2>2 DEF Sleeping, Places4
  <2>4. /\ semPc' \in [Thread -> Places4("take")]
        /\ Waiting("take", semPc') = Waiting("take", semPc)
        /\ \A u \in Thread : u # t => semPc'[u] = semPc[u]
    BY <1>2, <2>1, <2>3, WaitingStep
  <2>5. \A u \in Thread : semGives'[u] > 0 => semPc'[u] = "give"
    BY <1>3, <2>2, <2>4
  <2> QED
    BY <1>2, <1>3, <1>4, <2>2, <2>4, <2>5 DEF SemInv, SemUnits
<1>9. CASE S!EndTake(t)
  <2>1. /\ semPc[t] = "late" /\ semSem' = semSem /\ semCount' = semCount /\ semGives' = semGives
        /\ \/ semTakers > 0 /\ semTakers' = semTakers - 1 /\ semPc' = Placed(semPc, t, "outside")
           \/ semTakers' = semTakers /\ semPc' = Placed(semPc, t, "retry")
    BY <1>9 DEF S!EndTake, S!To, Placed
  <2>2. /\ semPc[t] \in Sleeping("take") /\ "retry" \in Sleeping("take") /\ "outside" \notin Sleeping("take")
        /\ "outside" \in Places4("take") /\ "retry" \in Places4("take")
    BY <2>1 DEF Sleeping, Places4
  <2>3. /\ semPc' \in [Thread -> Places4("take")]
        /\ \A u \in Thread : u # t => semPc'[u] = semPc[u]
        /\ \/ semTakers > 0 /\ semTakers' = semTakers - 1 /\ Waiting("take", semPc') = Waiting("take", semPc) - 1
           \/ semTakers' = semTakers /\ Waiting("take", semPc') = Waiting("take", semPc)
    <3>1. CASE semTakers > 0 /\ semTakers' = semTakers - 1 /\ semPc' = Placed(semPc, t, "outside")
      <4>1. PICK b \in {"outside"} : semPc' = Placed(semPc, t, b)
        BY <3>1
      <4>2. semPc[t] \in Sleeping("take") /\ b \notin Sleeping("take") /\ b \in Places4("take")
        BY <2>2, <4>1
      <4> QED
        BY <1>2, <3>1, <4>1, <4>2, WaitingStep
    <3>2. CASE semTakers' = semTakers /\ semPc' = Placed(semPc, t, "retry")
      <4>1. PICK b \in {"retry"} : semPc' = Placed(semPc, t, b)
        BY <3>2
      <4>2. semPc[t] \in Sleeping("take") /\ b \in Sleeping("take") /\ b \in Places4("take")
        BY <2>2, <4>1
      <4> QED
        BY <1>2, <3>2, <4>1, <4>2, WaitingStep
    <3> QED
      BY <2>1, <3>1, <3>2
  <2>4. \A u \in Thread : semGives'[u] > 0 => semPc'[u] = "give"
    BY <1>3, <2>1, <2>3
  <2> QED
    BY <1>2, <1>3, <1>4, <2>1, <2>3, <2>4 DEF SemInv, SemUnits
<1>10. CASE \E n \in 1..MaxGive : S!BeginGive(t, n)
  <2>1. PICK n \in 1..MaxGive : S!BeginGive(t, n)
    BY <1>10
  <2> DEFINE woken == S!Min({semTakers, n})
  <2>2. n \in Nat /\ woken \in 0..n /\ woken <= semTakers /\ (woken < n => woken = semTakers)
    BY <1>2, MinOfTwo
  <2>3. /\ semPc[t] = "outside" /\ semCount + semSem + SumOf(semGives) + n <= MaxUnits
        /\ semTakers' = semTakers - woken /\ semCount' = semCount + (n - woken) /\ semSem' = semSem
        /\ semGives' = Placed(semGives, t, woken)
        /\ semPc' = Placed(semPc, t, IF woken > 0 THEN "give" ELSE "outside")
    BY <2>1, SameOperators DEF S!BeginGive, S!Pending, S!To, Placed
  <2> HIDE DEF woken
  <2>4. PICK b \in {"give", "outside"} : semPc' = Placed(semPc, t, b) /\ (woken > 0 => b = "give")
    BY <2>3
  <2>5. semPc[t] \notin Sleeping("take") /\ b \notin Sleeping("take") /\ b \in Places4("take")
    BY <2>3, <2>4 DEF Sleeping, Places4
  <2>6. /\ semPc' \in [Thread -> Places4("take")]
        /\ Waiting("take", semPc') = Waiting("take", semPc)
        /\ semPc'[t] = b /\ \A u \in Thread : u # t => semPc'[u] = semPc[u]
    BY <1>2, <2>4, <2>5, WaitingStep
  <2>7. semGives[t] = 0
    BY <1>2, <1>3, <2>3
  <2>8. SumOf(semGives') + 0 = SumOf(semGives) + woken /\ SumOf(semGives') \in Nat
    BY <1>2, <2>2, <2>3, <2>7, Finite, SumChange
  <2>9. /\ semGives' \in [Thread -> 0..MaxGive]
        /\ semGives'[t] = woken /\ \A u \in Thread : u # t => semGives'[u] = semGives[u]
    BY <1>2, <2>2, <2>3 DEF Placed
  <2>10. \A u \in Thread : semGives'[u] > 0 => semPc'[u] = "give"
    BY <1>3, <2>4, <2>6, <2>9
  <2>11. semTakers' \in Nat /\ semCount' \in 0..MaxUnits /\ (semCount' > 0 => semTakers' = 0)
    BY <1>2, <1>3, <1>4, <2>2, <2>3
  <2>12. Waiting("take", semPc') = semTakers' + semSem' + SumOf(semGives')
    BY <1>2, <1>3, <1>4, <2>2, <2>3, <2>6, <2>8
  <2>13. SemUnits' = SemUnits + n
    BY <1>2, <1>4, <2>2, <2>3, <2>8 DEF SemUnits
  <2> QED
    BY <1>2, <2>3, <2>6, <2>9, <2>10, <2>11, <2>12, <2>13 DEF SemInv
<1>11. CASE S!SemGive(t)
  <2>1. PICK b \in {"outside"} : semPc' = Placed(semPc, t, b) /\ semGives' = Placed(semGives, t, 0)
    BY <1>11 DEF S!SemGive, S!To, Placed
  <2>2. /\ semPc[t] = "give" /\ semSem' = semSem + semGives[t]
        /\ semCount' = semCount /\ semTakers' = semTakers
    BY <1>11 DEF S!SemGive
  <2>3. semPc[t] \notin Sleeping("take") /\ b \notin Sleeping("take") /\ b \in Places4("take")
    BY <2>1, <2>2 DEF Sleeping, Places4
  <2>4. /\ semPc' \in [Thread -> Places4("take")]
        /\ Waiting("take", semPc') = Waiting("take", semPc)
        /\ \A u \in Thread : u # t => semPc'[u] = semPc[u]
    BY <1>2, <2>1, <2>3, WaitingStep
  <2>5. SumOf(semGives') + semGives[t] = SumOf(semGives) + 0 /\ SumOf(semGives') \in Nat
    BY <1>2, <2>1, Finite, SumChange
  <2>6. /\ semGives' \in [Thread -> 0..MaxGive] /\ semGives[t] \in Nat
        /\ semGives'[t] = 0 /\ \A u \in Thread : u # t => semGives'[u] = semGives[u]
    BY <1>2, <2>1 DEF Placed
  <2>7. \A u \in Thread : semGives'[u] > 0 => semPc'[u] = "give"
    BY <1>3, <2>4, <2>6
  <2>8. Waiting("take", semPc') = semTakers' + semSem' + SumOf(semGives')
    BY <1>2, <1>3, <1>4, <2>2, <2>4, <2>5, <2>6
  <2>9. SemUnits' = SemUnits
    BY <1>2, <1>4, <2>2, <2>5, <2>6 DEF SemUnits
  <2>10. semSem' \in Nat
    BY <1>2, <2>2, <2>6
  <2> QED
    BY <1>2, <1>3, <2>2, <2>4, <2>6, <2>7, <2>8, <2>9, <2>10 DEF SemInv
<1> QED
  BY <1>1, <1>5, <1>6, <1>7, <1>8, <1>9, <1>10, <1>11 DEF S!Take, S!Give

-----------------------------------------------------------------------------
\* Event.
LEMMA GivingStep ==
  ASSUME NEW Labels, NEW p \in [Thread -> Labels], NEW t \in Thread, NEW b, NEW q, q = Placed(p, t, b)
  PROVE  /\ Giving(p) \in Nat
         /\ p[t] = "give" => Giving(p) >= 1
         /\ p[t] = "give" /\ b # "give" => Giving(q) = Giving(p) - 1
         /\ p[t] # "give" /\ b = "give" => Giving(q) = Giving(p) + 1
         /\ p[t] # "give" /\ b # "give" => Giving(q) = Giving(p)
<1>1. \A c : /\ CountAt(p, c) \in Nat
             /\ c = p[t] => CountAt(p, c) >= 1
             /\ c = p[t] /\ c # b => CountAt(q, c) = CountAt(p, c) - 1
             /\ c = b /\ c # p[t] => CountAt(q, c) = CountAt(p, c) + 1
             /\ (c = b /\ c = p[t]) \/ (c # b /\ c # p[t]) => CountAt(q, c) = CountAt(p, c)
  BY Finite, CountPlaced
<1> QED
  BY <1>1 DEF Giving

FlagUnit == IF flag THEN 1 ELSE 0

EventUnitsOf == FlagUnit + eventSem + Giving(eventPc)

\* Each operation keeps the invariant, and takes or gives what CountSpec says.
LEMMA EventStep ==
  ASSUME EventInv, E!Next
  PROVE  /\ EventInv'
         /\ \/ EventUnitsOf' = EventUnitsOf
            \/ EventUnitsOf > 0 /\ EventUnitsOf' = EventUnitsOf - 1
            \/ EventUnitsOf' = EventUnitsOf + 1
<1>1. PICK t \in Thread : E!Wait(t) \/ E!BeginTrigger(t) \/ E!SemGive(t)
  BY DEF E!Next
<1>2. /\ flag \in BOOLEAN /\ eventWaiters \in Nat /\ eventSem \in Nat
      /\ eventPc \in [Thread -> Places4("wait")]
  BY DEF EventInv
<1>3. Waiting("wait", eventPc) = eventWaiters + eventSem + Giving(eventPc) /\ (flag => eventWaiters = 0)
  BY DEF EventInv
<1>4. Giving(eventPc) \in Nat /\ Waiting("wait", eventPc) \in Nat
  BY <1>2, <1>3, Finite, CountNat DEF Giving
<1> DEFINE Total == FlagUnit + eventSem + Giving(eventPc)
           Total1 == FlagUnit' + eventSem' + Giving(eventPc')
           Kept == /\ flag' \in BOOLEAN /\ eventWaiters' \in Nat /\ eventSem' \in Nat
                   /\ eventPc' \in [Thread -> Places4("wait")]
                   /\ Waiting("wait", eventPc') = eventWaiters' + eventSem' + Giving(eventPc')
                   /\ flag' => eventWaiters' = 0
<1>5. SUFFICES Kept /\ (Total1 = Total \/ (Total > 0 /\ Total1 = Total - 1) \/ Total1 = Total + 1)
  <2>1. Kept => EventInv'
    BY DEF EventInv
  <2>2. EventUnitsOf = Total /\ EventUnitsOf' = Total1
    BY DEF EventUnitsOf
  <2> HIDE DEF Kept, Total, Total1
  <2> QED
    BY <2>1, <2>2
<1>6. CASE E!WaitNow(t)
  <2>1. flag /\ flag' = FALSE /\ eventWaiters' = eventWaiters /\ eventSem' = eventSem /\ eventPc' = eventPc
    BY <1>6 DEF E!WaitNow
  <2>2. FlagUnit = 1 /\ FlagUnit' = 0
    BY <2>1 DEF FlagUnit
  <2>3. Waiting("wait", eventPc') = Waiting("wait", eventPc) /\ Giving(eventPc') = Giving(eventPc)
    BY <2>1
  <2>4. Total > 0 /\ Total1 = Total - 1
    BY <1>2, <1>4, <2>1, <2>2, <2>3
  <2>5. Waiting("wait", eventPc') = eventWaiters' + eventSem' + Giving(eventPc')
    BY <1>3, <2>1, <2>3
  <2>6. flag' \in BOOLEAN /\ eventWaiters' \in Nat /\ eventSem' \in Nat /\ eventPc' \in [Thread -> Places4("wait")]
    BY <1>2, <2>1
  <2>7. Kept
    BY <2>1, <2>5, <2>6
  <2> HIDE DEF Kept, Total, Total1
  <2> QED
    BY <2>4, <2>7
<1>7. CASE E!BeginWait(t)
  <2>1. PICK b \in {"wait", "timed"} : eventPc' = Placed(eventPc, t, b)
    BY <1>7 DEF E!BeginWait, E!To, Placed
  <2>2. eventPc[t] = "outside" /\ ~flag /\ eventWaiters' = eventWaiters + 1 /\ flag' = flag /\ eventSem' = eventSem
    BY <1>7 DEF E!BeginWait
  <2>3. /\ eventPc[t] \notin Sleeping("wait") /\ b \in Sleeping("wait") /\ b \in Places4("wait")
        /\ eventPc[t] # "give" /\ b # "give"
    BY <2>1, <2>2 DEF Sleeping, Places4
  <2>4. eventPc' \in [Thread -> Places4("wait")] /\ Waiting("wait", eventPc') = Waiting("wait", eventPc) + 1
    BY <1>2, <2>1, <2>3, WaitingStep
  <2>5. Giving(eventPc') = Giving(eventPc)
    BY <1>2, <2>1, <2>3, GivingStep
  <2>6. FlagUnit = 0 /\ FlagUnit' = 0
    BY <2>2 DEF FlagUnit
  <2> QED
    BY <1>2, <1>3, <1>4, <2>2, <2>4, <2>5, <2>6
<1>8. CASE E!SemTake(t)
  <2>1. PICK b \in {"outside"} : eventPc' = Placed(eventPc, t, b)
    BY <1>8 DEF E!SemTake, E!To, Placed
  <2>2. /\ eventPc[t] \in {"wait", "timed", "retry"} /\ eventSem > 0 /\ eventSem' = eventSem - 1
        /\ flag' = flag /\ eventWaiters' = eventWaiters
    BY <1>8 DEF E!SemTake
  <2>3. /\ eventPc[t] \in Sleeping("wait") /\ b \notin Sleeping("wait") /\ b \in Places4("wait")
        /\ eventPc[t] # "give" /\ b # "give"
    BY <2>1, <2>2 DEF Sleeping, Places4
  <2>4. eventPc' \in [Thread -> Places4("wait")] /\ Waiting("wait", eventPc') = Waiting("wait", eventPc) - 1
    BY <1>2, <2>1, <2>3, WaitingStep
  <2>5. Giving(eventPc') = Giving(eventPc)
    BY <1>2, <2>1, <2>3, GivingStep
  <2>6. FlagUnit' = FlagUnit /\ FlagUnit \in Nat
    BY <2>2 DEF FlagUnit
  <2> QED
    BY <1>2, <1>3, <1>4, <2>2, <2>4, <2>5, <2>6
<1>9. CASE E!SemTimeout(t)
  <2>1. PICK b \in {"late"} : eventPc' = Placed(eventPc, t, b)
    BY <1>9 DEF E!SemTimeout, E!To, Placed
  <2>2. /\ eventPc[t] \in {"timed", "retry"}
        /\ eventSem' = eventSem /\ flag' = flag /\ eventWaiters' = eventWaiters
    BY <1>9 DEF E!SemTimeout
  <2>3. /\ eventPc[t] \in Sleeping("wait") /\ b \in Sleeping("wait") /\ b \in Places4("wait")
        /\ eventPc[t] # "give" /\ b # "give"
    BY <2>1, <2>2 DEF Sleeping, Places4
  <2>4. eventPc' \in [Thread -> Places4("wait")] /\ Waiting("wait", eventPc') = Waiting("wait", eventPc)
    BY <1>2, <2>1, <2>3, WaitingStep
  <2>5. Giving(eventPc') = Giving(eventPc)
    BY <1>2, <2>1, <2>3, GivingStep
  <2>6. FlagUnit' = FlagUnit
    BY <2>2 DEF FlagUnit
  <2> QED
    BY <1>2, <1>3, <1>4, <2>2, <2>4, <2>5, <2>6
<1>10. CASE E!EndWait(t)
  <2>1. /\ eventPc[t] = "late" /\ flag' = flag /\ eventSem' = eventSem
        /\ \/ /\ eventWaiters > 0 /\ eventWaiters' = eventWaiters - 1
              /\ \E b \in {"outside"} : eventPc' = Placed(eventPc, t, b)
           \/ eventWaiters' = eventWaiters /\ \E b \in {"retry"} : eventPc' = Placed(eventPc, t, b)
    BY <1>10 DEF E!EndWait, E!To, Placed
  <2>2. FlagUnit' = FlagUnit
    BY <2>1 DEF FlagUnit
  <2>3. CASE eventWaiters > 0 /\ eventWaiters' = eventWaiters - 1 /\ \E b \in {"outside"} : eventPc' = Placed(eventPc, t, b)
    <3>1. PICK b \in {"outside"} : eventPc' = Placed(eventPc, t, b)
      BY <2>3
    <3>2. /\ eventPc[t] \in Sleeping("wait") /\ b \notin Sleeping("wait") /\ b \in Places4("wait")
          /\ eventPc[t] # "give" /\ b # "give"
      BY <2>1, <3>1 DEF Sleeping, Places4
    <3>3. eventPc' \in [Thread -> Places4("wait")] /\ Waiting("wait", eventPc') = Waiting("wait", eventPc) - 1
      BY <1>2, <3>1, <3>2, WaitingStep
    <3>4. Giving(eventPc') = Giving(eventPc)
      BY <1>2, <3>1, <3>2, GivingStep
    <3> QED
      BY <1>2, <1>3, <1>4, <2>1, <2>2, <2>3, <3>3, <3>4
  <2>4. CASE eventWaiters' = eventWaiters /\ \E b \in {"retry"} : eventPc' = Placed(eventPc, t, b)
    <3>1. PICK b \in {"retry"} : eventPc' = Placed(eventPc, t, b)
      BY <2>4
    <3>2. /\ eventPc[t] \in Sleeping("wait") /\ b \in Sleeping("wait") /\ b \in Places4("wait")
          /\ eventPc[t] # "give" /\ b # "give"
      BY <2>1, <3>1 DEF Sleeping, Places4
    <3>3. eventPc' \in [Thread -> Places4("wait")] /\ Waiting("wait", eventPc') = Waiting("wait", eventPc)
      BY <1>2, <3>1, <3>2, WaitingStep
    <3>4. Giving(eventPc') = Giving(eventPc)
      BY <1>2, <3>1, <3>2, GivingStep
    <3> QED
      BY <1>2, <1>3, <1>4, <2>1, <2>2, <2>4, <3>3, <3>4
  <2> QED
    BY <2>1, <2>3, <2>4
<1>11. CASE E!BeginTrigger(t)
  <2>1. /\ eventPc[t] = "outside" /\ eventSem' = eventSem
        /\ \/ /\ eventWaiters > 0 /\ eventWaiters' = eventWaiters - 1 /\ flag' = flag
              /\ \E b \in {"give"} : eventPc' = Placed(eventPc, t, b)
           \/ eventWaiters = 0 /\ flag' = TRUE /\ eventWaiters' = eventWaiters /\ eventPc' = eventPc
    BY <1>11 DEF E!BeginTrigger, E!To, Placed
  <2>2. CASE eventWaiters = 0 /\ flag' = TRUE /\ eventWaiters' = eventWaiters /\ eventPc' = eventPc
    <3>1. FlagUnit' = 1 /\ FlagUnit \in {0, 1}
      BY <2>2 DEF FlagUnit
    <3> QED
      BY <1>2, <1>3, <1>4, <2>1, <2>2, <3>1
  <2>3. CASE /\ eventWaiters > 0 /\ eventWaiters' = eventWaiters - 1 /\ flag' = flag
             /\ \E b \in {"give"} : eventPc' = Placed(eventPc, t, b)
    <3>1. PICK b \in {"give"} : eventPc' = Placed(eventPc, t, b)
      BY <2>3
    <3>2. /\ eventPc[t] \notin Sleeping("wait") /\ b \notin Sleeping("wait") /\ b \in Places4("wait")
          /\ eventPc[t] # "give" /\ b = "give"
      BY <2>1, <3>1 DEF Sleeping, Places4
    <3>3. eventPc' \in [Thread -> Places4("wait")] /\ Waiting("wait", eventPc') = Waiting("wait", eventPc)
      BY <1>2, <3>1, <3>2, WaitingStep
    <3>4. Giving(eventPc') = Giving(eventPc) + 1
      BY <1>2, <3>1, <3>2, GivingStep
    <3>5. FlagUnit' = FlagUnit /\ FlagUnit \in Nat
      BY <2>3 DEF FlagUnit
    <3> QED
      BY <1>2, <1>3, <1>4, <2>1, <2>3, <3>3, <3>4, <3>5
  <2> QED
    BY <2>1, <2>2, <2>3
<1>12. CASE E!SemGive(t)
  <2>1. PICK b \in {"outside"} : eventPc' = Placed(eventPc, t, b)
    BY <1>12 DEF E!SemGive, E!To, Placed
  <2>2. eventPc[t] = "give" /\ eventSem' = eventSem + 1 /\ flag' = flag /\ eventWaiters' = eventWaiters
    BY <1>12 DEF E!SemGive
  <2>3. /\ eventPc[t] \notin Sleeping("wait") /\ b \notin Sleeping("wait") /\ b \in Places4("wait")
        /\ eventPc[t] = "give" /\ b # "give"
    BY <2>1, <2>2 DEF Sleeping, Places4
  <2>4. eventPc' \in [Thread -> Places4("wait")] /\ Waiting("wait", eventPc') = Waiting("wait", eventPc)
    BY <1>2, <2>1, <2>3, WaitingStep
  <2>5. Giving(eventPc') = Giving(eventPc) - 1
    BY <1>2, <2>1, <2>3, GivingStep
  <2>6. FlagUnit' = FlagUnit /\ FlagUnit \in Nat
    BY <2>2 DEF FlagUnit
  <2> QED
    BY <1>2, <1>3, <1>4, <2>2, <2>4, <2>5, <2>6
<1> QED
  BY <1>1, <1>6, <1>7, <1>8, <1>9, <1>10, <1>11, <1>12 DEF E!Wait

-----------------------------------------------------------------------------
\* MultiSem and MultiEvent.
LEMMA TaskCounts ==
  ASSUME NEW Labels, NEW p \in [Task -> Labels], NEW t \in Task, NEW b, NEW q, q = Placed(p, t, b)
  PROVE  \A c : /\ CountAt(p, c) \in Nat
                /\ c = p[t] => CountAt(p, c) >= 1
                /\ c = p[t] /\ c # b => CountAt(q, c) = CountAt(p, c) - 1
                /\ c = b /\ c # p[t] => CountAt(q, c) = CountAt(p, c) + 1
                /\ (c = b /\ c = p[t]) \/ (c # b /\ c # p[t]) => CountAt(q, c) = CountAt(p, c)
BY Finite, CountPlaced, Z3

LEMMA BetweenStep ==
  ASSUME NEW p \in [Task -> Places3], NEW t \in Task,
         NEW b \in Places3, NEW q, q = Placed(p, t, b)
  PROVE  /\ q \in [Task -> Places3]
         /\ Between(p) \in Nat
         /\ p[t] # "outside" => Between(p) >= 1
         /\ p[t] # "outside" /\ b = "outside" => Between(q) = Between(p) - 1
         /\ p[t] = "outside" /\ b # "outside" => Between(q) = Between(p) + 1
         /\ (p[t] = "outside" <=> b = "outside") => Between(q) = Between(p)
<1>1. \A c : /\ CountAt(p, c) \in Nat
             /\ c = p[t] => CountAt(p, c) >= 1
             /\ c = p[t] /\ c # b => CountAt(q, c) = CountAt(p, c) - 1
             /\ c = b /\ c # p[t] => CountAt(q, c) = CountAt(p, c) + 1
             /\ (c = b /\ c = p[t]) \/ (c # b /\ c # p[t]) => CountAt(q, c) = CountAt(p, c)
  BY TaskCounts
<1>2. q \in [Task -> Places3]
  BY DEF Placed
<1> USE DEF Places3
<1>3. Between(p) \in Nat
  BY <1>1 DEF Between
<1>4. p[t] # "outside" => Between(p) >= 1
  BY <1>1, <1>2 DEF Between
<1>5. p[t] # "outside" /\ b = "outside" => Between(q) = Between(p) - 1
  BY <1>1, <1>2 DEF Between
<1>6. p[t] = "outside" /\ b # "outside" => Between(q) = Between(p) + 1
  BY <1>1, <1>2 DEF Between
<1>7. (p[t] = "outside" <=> b = "outside") => Between(q) = Between(p)
  BY <1>1, <1>2 DEF Between
<1> QED
  BY <1>2, <1>3, <1>4, <1>5, <1>6, <1>7

LEMMA StepsNat == \A i, b \in Index1 : (i - b + Indexes) % Indexes \in Nat
<1> SUFFICES ASSUME NEW i \in Index1, NEW b \in Index1
             PROVE  (i - b + Indexes) % Indexes \in Nat
  OBVIOUS
<1>1. i - b + Indexes \in Nat /\ Indexes \in Nat \ {0}
  BY ObjectsAssumption DEF Index1
<1> QED
  BY <1>1

\* getIndex() stops at an index that has a count.
LEMMA FirstCounts ==
  ASSUME MultiInv, SumOf(counts) > 0
  PROVE  M!First \in Index1 /\ counts[M!First] > 0
<1> DEFINE Q == {i \in Index1 : counts[i] > 0}
           f == [i \in Q |-> M!Steps(i)]
<1>1. counts \in [Index1 -> Nat] /\ base \in Index1
  BY DEF MultiInv
<1>2. Q # {}
  <2>1. \E i \in Index1 : counts[i] # 0
    BY <1>1, IndexesFinite, SumNone
  <2> QED
    BY <1>1, <2>1
<1>3. f \in [Q -> Nat]
  BY <1>1, StepsNat DEF M!Steps
<1>4. PICK i \in Q : \A j \in Q : f[i] <= f[j]
  <2> HIDE DEF f, Q
  <2> QED
    BY <1>2, <1>3, LeastOne
<1>5. /\ i \in M!Index /\ counts[i] > 0
      /\ \A j \in M!Index : counts[j] > 0 => M!Steps(i) <= M!Steps(j)
  BY <1>4 DEF M!Index, Index1
<1>6. M!First \in M!Index /\ counts[M!First] > 0
  BY <1>5 DEF M!First
<1> QED
  BY <1>6 DEF M!Index, Index1

LEMMA MultiStep ==
  ASSUME MultiInv, M!Next
  PROVE  MultiInv'
<1>1. PICK t \in Task : (\E i \in M!Index : M!PutIndex(t, i)) \/ M!SemGive(t) \/ M!SemTake(t) \/ M!GetIndex(t)
  BY DEF M!Next
<1>2. /\ counts \in [Index1 -> Nat] /\ base \in Index1 /\ units \in Nat
      /\ multiPc \in [Task -> Places3]
      /\ Indexes \in Nat /\ MaxIndexUnits \in Nat
  BY ObjectsAssumption DEF MultiInv
<1>3. SumOf(counts) = units + Between(multiPc) /\ SumOf(counts) <= MaxIndexUnits
  BY DEF MultiInv
<1>4. SumOf(counts) \in Nat /\ Between(multiPc) \in Nat
  <2>1. SumOf(counts) \in Nat
    BY <1>2, IndexesFinite, SumNat
  <2>2. \A c : CountAt(multiPc, c) \in Nat
    BY <1>2, Finite, CountNat
  <2> QED
    BY <2>1, <2>2 DEF Between
<1>5. CASE \E i \in M!Index : M!PutIndex(t, i)
  <2>1. PICK i \in Index1 : M!PutIndex(t, i)
    BY <1>5 DEF M!Index, Index1
  <2>2. PICK b \in {"give"} : b \in Places3 /\ multiPc' = Placed(multiPc, t, b)
    BY <2>1 DEF M!PutIndex, M!To, Placed, Places3
  <2>3. /\ multiPc[t] = "outside" /\ SumOf(counts) < MaxIndexUnits
        /\ counts' = Placed(counts, i, counts[i] + 1) /\ base' = base /\ units' = units
    BY <1>2, <2>1, SameOperators DEF M!PutIndex, M!Total, Placed
  <2>4. multiPc' \in [Task -> Places3] /\ Between(multiPc') = Between(multiPc) + 1
    BY <1>2, <2>2, <2>3, BetweenStep
  <2>5. counts' \in [Index1 -> Nat] /\ SumOf(counts') \in Nat
        /\ SumOf(counts') + counts[i] = SumOf(counts) + (counts[i] + 1) /\ counts[i] \in Nat
    <3>1. PICK n \in Nat : n = counts[i] + 1
      BY <1>2
    <3>2. counts' = Placed(counts, i, n)
      BY <2>3, <3>1
    <3> QED
      BY <1>2, <3>1, <3>2, IndexesFinite, SumChange
  <2> QED
    BY <1>2, <1>3, <1>4, <2>3, <2>4, <2>5 DEF MultiInv
<1>6. CASE M!SemGive(t)
  <2>1. PICK b \in {"outside"} : b \in Places3 /\ multiPc' = Placed(multiPc, t, b)
    BY <1>6 DEF M!SemGive, M!To, Placed, Places3
  <2>2. multiPc[t] = "give" /\ units' = units + 1 /\ counts' = counts /\ base' = base
    BY <1>6 DEF M!SemGive
  <2>3. multiPc' \in [Task -> Places3] /\ Between(multiPc') = Between(multiPc) - 1
    BY <1>2, <2>1, <2>2, BetweenStep
  <2> QED
    BY <1>2, <1>3, <1>4, <2>2, <2>3 DEF MultiInv
<1>7. CASE M!SemTake(t)
  <2>1. PICK b \in {"get"} : b \in Places3 /\ multiPc' = Placed(multiPc, t, b)
    BY <1>7 DEF M!SemTake, M!To, Placed, Places3
  <2>2. multiPc[t] = "outside" /\ units > 0 /\ units' = units - 1 /\ counts' = counts /\ base' = base
    BY <1>7 DEF M!SemTake
  <2>3. multiPc' \in [Task -> Places3] /\ Between(multiPc') = Between(multiPc) + 1
    BY <1>2, <2>1, <2>2, BetweenStep
  <2> QED
    BY <1>2, <1>3, <1>4, <2>2, <2>3 DEF MultiInv
<1>8. CASE M!GetIndex(t)
  <2>1. PICK b \in {"outside"} : b \in Places3 /\ multiPc' = Placed(multiPc, t, b)
    BY <1>8 DEF M!GetIndex, M!To, Placed, Places3
  <2>2. SumOf(counts) > 0
    BY <1>8, SameOperators DEF M!GetIndex, M!Total
  <2>3. PICK i \in Index1 : i = M!First /\ counts[i] > 0
    BY <2>2, FirstCounts
  <2>4. /\ multiPc[t] = "get" /\ base' = M!nextIndex(base) /\ units' = units
        /\ counts' = Placed(counts, i, counts[i] - 1)
    BY <1>2, <1>8, <2>3 DEF M!GetIndex, Placed
  <2>5. base' \in Index1
    BY <1>2, <2>4 DEF M!nextIndex, Index1
  <2>6. multiPc' \in [Task -> Places3] /\ Between(multiPc') = Between(multiPc) - 1
    BY <1>2, <2>1, <2>4, BetweenStep
  <2>7. counts[i] - 1 \in Nat /\ counts[i] \in Nat
    BY <1>2, <2>3
  <2>8. counts' \in [Index1 -> Nat] /\ SumOf(counts') \in Nat
        /\ SumOf(counts') + counts[i] = SumOf(counts) + (counts[i] - 1)
    <3>1. PICK n \in Nat : n = counts[i] - 1
      BY <2>7
    <3>2. counts' = Placed(counts, i, n)
      BY <2>4, <3>1
    <3> QED
      BY <1>2, <3>1, <3>2, IndexesFinite, SumChange
  <2> QED
    BY <1>2, <1>3, <1>4, <2>4, <2>5, <2>6, <2>7, <2>8 DEF MultiInv
<1> QED
  BY <1>1, <1>5, <1>6, <1>7, <1>8

\* getIndex() stops at a flag that is up.
LEMMA FirstIsUp ==
  ASSUME FlagsInv, flags # {}
  PROVE  V!First \in flags
<1> DEFINE f == [i \in flags |-> V!Steps(i)]
<1>1. f \in [flags -> Nat]
  BY StepsNat DEF V!Steps, FlagsInv
<1>2. \E i \in flags : \A j \in flags : f[i] <= f[j]
  <2> HIDE DEF f
  <2> QED
    BY <1>1, LeastOne
<1>3. \E i \in flags : \A j \in flags : V!Steps(i) <= V!Steps(j)
  BY <1>2
<1> QED
  BY <1>3 DEF V!First

LEMMA FlagsStep ==
  ASSUME FlagsInv, V!Next
  PROVE  FlagsInv'
<1>1. PICK t \in Task : (\E i \in V!Index : V!PutIndex(t, i)) \/ V!SemGive(t) \/ V!SemTake(t) \/ V!GetIndex(t)
  BY DEF V!Next
<1>2. /\ flags \subseteq Index1 /\ eventBase \in Index1 /\ eventUnits \in Nat
      /\ multiEventPc \in [Task -> Places3]
      /\ Indexes \in Nat
  BY ObjectsAssumption DEF FlagsInv
<1>3. Cardinality(flags) = eventUnits + Between(multiEventPc)
  BY DEF FlagsInv
<1>4. IsFiniteSet(flags) /\ Cardinality(flags) \in Nat /\ Between(multiEventPc) \in Nat
  <2>1. IsFiniteSet(flags) /\ Cardinality(flags) \in Nat
    BY <1>2, IndexesFinite, FS_Subset, FS_CardinalityType
  <2>2. \A c : CountAt(multiEventPc, c) \in Nat
    BY <1>2, Finite, CountNat
  <2> QED
    BY <2>1, <2>2 DEF Between
<1>5. CASE \E i \in V!Index : V!PutIndex(t, i)
  <2>1. PICK i \in Index1 : V!PutIndex(t, i)
    BY <1>5 DEF V!Index, Index1
  <2>2. CASE i \notin flags /\ V!To(t, "outside", "give") /\ flags' = flags \cup {i}
    <3>1. PICK b \in {"give"} : b \in Places3 /\ multiEventPc' = Placed(multiEventPc, t, b) /\ multiEventPc[t] = "outside"
      BY <2>2 DEF V!To, Placed, Places3
    <3>2. multiEventPc' \in [Task -> Places3] /\ Between(multiEventPc') = Between(multiEventPc) + 1
      BY <1>2, <3>1, BetweenStep
    <3>3. Cardinality(flags') = Cardinality(flags) + 1
      BY <1>4, <2>2, FS_AddElement
    <3>4. eventBase' = eventBase /\ eventUnits' = eventUnits
      BY <2>1 DEF V!PutIndex
    <3> QED
      BY <1>2, <1>3, <1>4, <2>2, <3>2, <3>3, <3>4 DEF FlagsInv
  <2>3. CASE V!To(t, "outside", "outside") /\ flags' = flags
    <3>1. multiEventPc' = multiEventPc
      BY <1>2, <2>3 DEF V!To
    <3>2. eventBase' = eventBase /\ eventUnits' = eventUnits
      BY <2>1 DEF V!PutIndex
    <3> QED
      BY <1>2, <1>3, <2>3, <3>1, <3>2 DEF FlagsInv
  <2> QED
    BY <2>1, <2>2, <2>3 DEF V!PutIndex
<1>6. CASE V!SemGive(t)
  <2>1. PICK b \in {"outside"} : b \in Places3 /\ multiEventPc' = Placed(multiEventPc, t, b)
    BY <1>6 DEF V!SemGive, V!To, Placed, Places3
  <2>2. multiEventPc[t] = "give" /\ eventUnits' = eventUnits + 1 /\ flags' = flags /\ eventBase' = eventBase
    BY <1>6 DEF V!SemGive, V!To
  <2>3. multiEventPc' \in [Task -> Places3] /\ Between(multiEventPc') = Between(multiEventPc) - 1
    BY <1>2, <2>1, <2>2, BetweenStep
  <2> QED
    BY <1>2, <1>3, <1>4, <2>2, <2>3 DEF FlagsInv
<1>7. CASE V!SemTake(t)
  <2>1. PICK b \in {"get"} : b \in Places3 /\ multiEventPc' = Placed(multiEventPc, t, b)
    BY <1>7 DEF V!SemTake, V!To, Placed, Places3
  <2>2. /\ multiEventPc[t] = "outside" /\ eventUnits > 0 /\ eventUnits' = eventUnits - 1
        /\ flags' = flags /\ eventBase' = eventBase
    BY <1>7 DEF V!SemTake, V!To
  <2>3. multiEventPc' \in [Task -> Places3] /\ Between(multiEventPc') = Between(multiEventPc) + 1
    BY <1>2, <2>1, <2>2, BetweenStep
  <2> QED
    BY <1>2, <1>3, <1>4, <2>2, <2>3 DEF FlagsInv
<1>8. CASE V!GetIndex(t)
  <2>1. PICK b \in {"outside"} : b \in Places3 /\ multiEventPc' = Placed(multiEventPc, t, b)
    BY <1>8 DEF V!GetIndex, V!To, Placed, Places3
  <2>2. /\ multiEventPc[t] = "get" /\ flags # {} /\ flags' = flags \ {V!First}
        /\ eventBase' = V!nextIndex(eventBase) /\ eventUnits' = eventUnits
    BY <1>8 DEF V!GetIndex, V!To
  <2>3. eventBase' \in Index1
    BY <1>2, <2>2 DEF V!nextIndex, Index1
  <2>4. multiEventPc' \in [Task -> Places3] /\ Between(multiEventPc') = Between(multiEventPc) - 1
    BY <1>2, <2>1, <2>2, BetweenStep
  <2>5. Cardinality(flags') = Cardinality(flags) - 1
    BY <1>4, <2>2, FirstIsUp, FS_RemoveElement
  <2> QED
    BY <1>2, <1>3, <1>4, <2>2, <2>3, <2>4, <2>5 DEF FlagsInv
<1> QED
  BY <1>1, <1>5, <1>6, <1>7, <1>8

-----------------------------------------------------------------------------
\* AttachmentHost.
LEMMA ObjectCounts ==
  ASSUME NEW Labels, NEW p \in [Object -> Labels], NEW t \in Object, NEW b, NEW q, q = Placed(p, t, b)
  PROVE  \A c : /\ CountAt(p, c) \in Nat
                /\ c = p[t] => CountAt(p, c) >= 1
                /\ c = p[t] /\ c # b => CountAt(q, c) = CountAt(p, c) - 1
                /\ c = b /\ c # p[t] => CountAt(q, c) = CountAt(p, c) + 1
                /\ (c = b /\ c = p[t]) \/ (c # b /\ c # p[t]) => CountAt(q, c) = CountAt(p, c)
<1>1. IsFiniteSet(Object)
  BY Finite
<1> QED
  BY <1>1, CountPlaced, Z3

\* One operation of the AntiSem, on the tokens.
LEMMA WaitsStep ==
  ASSUME NEW p \in [Object -> Places2], NEW o \in Object,
         NEW b \in Places2, NEW q, q = Placed(p, o, b)
  PROVE  /\ q \in [Object -> Places2]
         /\ Waits(p) \in Nat
         /\ q[o] = b /\ \A x \in Object : x # o => q[x] = p[x]
         /\ p[o] = "wait" => Waits(p) >= 1
         /\ p[o] = "wait" /\ b = "outside" => Waits(q) = Waits(p) - 1
         /\ p[o] = "outside" /\ b = "wait" => Waits(q) = Waits(p) + 1
<1>1. \A c : /\ CountAt(p, c) \in Nat
             /\ c = p[o] => CountAt(p, c) >= 1
             /\ c = p[o] /\ c # b => CountAt(q, c) = CountAt(p, c) - 1
             /\ c = b /\ c # p[o] => CountAt(q, c) = CountAt(p, c) + 1
             /\ (c = b /\ c = p[o]) \/ (c # b /\ c # p[o]) => CountAt(q, c) = CountAt(p, c)
  BY ObjectCounts
<1> USE DEF Places2
<1>2. q \in [Object -> Places2] /\ q[o] = b /\ \A x \in Object : x # o => q[x] = p[x]
  BY DEF Placed
<1>3. p[o] = "wait" => Waits(p) >= 1
  BY <1>1 DEF Waits
<1>4. p[o] = "wait" /\ b = "outside" => Waits(q) = Waits(p) - 1
  BY <1>1 DEF Waits
<1>5. p[o] = "outside" /\ b = "wait" => Waits(q) = Waits(p) + 1
  BY <1>1 DEF Waits
<1>6. Waits(p) \in Nat
  BY <1>1 DEF Waits
<1> QED
  BY <1>2, <1>3, <1>4, <1>5, <1>6

\* Who is the only one asleep is counted as one.
LEMMA WaitsOne ==
  ASSUME NEW p \in [Object -> Places2], NEW o \in Object, \A x \in Object : p[x] = "wait" => x = o
  PROVE  Waits(p) <= 1
<1>1. TasksAt(p, "wait") \subseteq {o}
  BY DEF TasksAt
<1>2. IsFiniteSet({o}) /\ Cardinality({o}) = 1
  BY FS_Singleton
<1>3. Cardinality(TasksAt(p, "wait")) <= Cardinality({o})
  BY <1>1, <1>2, FS_Subset
<1> QED
  BY <1>2, <1>3 DEF Waits, CountAt

\* The hooks of one task are as many as it holds of the AntiSem.
LEMMA HeldChange ==
  ASSUME NEW g \in [Task -> Nat], NEW t \in Task, NEW n \in Nat, NEW h, h = Placed(g, t, n)
  PROVE  /\ h \in [Task -> Nat] /\ h[t] = n /\ \A u \in Task : u # t => h[u] = g[u]
         /\ SumOf(h) \in Nat /\ SumOf(g) \in Nat
         /\ SumOf(h) + g[t] = SumOf(g) + n
<1>1. h[t] = n /\ \A u \in Task : u # t => h[u] = g[u]
  BY DEF Placed
<1>2. /\ h \in [Task -> Nat] /\ SumOf(h) \in Nat /\ SumOf(g) \in Nat
      /\ SumOf(h) + g[t] = SumOf(g) + n
  BY Finite, SumChange
<1> QED
  BY <1>1, <1>2

LEMMA HostFacts ==
  ASSUME HostInv
  PROVE  /\ SumOf(held) \in Nat /\ SumOf(gives) \in Nat /\ Waits(pc) \in Nat
         /\ NoObject \notin Object
         /\ \A o, x \in Object : stage[o] # "out" /\ stage[x] # "out" => o = x
         /\ \A o \in Object : stage[o] # "out" => (enable <=> stage[o] = "in")
<1>1. SumOf(held) \in Nat
  BY Finite, SumNat DEF HostInv, HooksOK
<1>2. SumOf(gives) \in Nat
  BY Finite, SumNat DEF HostInv, TokensOK
<1>3. Waits(pc) \in Nat
  BY Finite, CountNat DEF HostInv, TokensOK, Waits
<1>4. \A o, x \in Object : stage[o] # "out" /\ stage[x] # "out" => o = x
  BY DEF HostInv, StagesOK, StageOK
<1>5. \A o \in Object : stage[o] # "out" => (enable <=> stage[o] = "in")
  BY <1>4 DEF HostInv, StagesOK, StageOK
<1> QED
  BY <1>1, <1>2, <1>3, <1>4, <1>5, HostAssumption

LEMMA HookOpenKeeps ==
  ASSUME HostInv, NEW t \in Task, HookOpen(t)
  PROVE  HostInv'
<1> USE DEF HostInv
<1>1. /\ enable /\ hooks' = Placed(hooks, t, <<obj>> \o hooks[t]) /\ obj' = obj /\ enable' = enable /\ stage' = stage
      /\ count' = count + 1 /\ count < MaxHooks /\ held' = Placed(held, t, held[t] + 1)
      /\ wait_count' = wait_count /\ sem' = sem /\ gives' = gives /\ pc' = pc
  BY DEF HookOpen, Asem!Add, Placed
<1>2. obj \in Object /\ \A o \in Object : stage[o] \notin {"drained", "asleep"}
  BY <1>1, HostFacts DEF StagesOK, StageOK
<1>3. hooks[t] \in Seq(Object) /\ Len(hooks[t]) \in Nat /\ held[t] = Len(hooks[t]) /\ held[t] \in Nat
  BY DEF HooksOK
<1>4. HooksOK'
  <2> DEFINE s == <<obj>> \o hooks[t]
  <2>1. /\ s \in Seq(Object) /\ Len(s) = Len(hooks[t]) + 1
        /\ \A k \in DOMAIN s : s[k] = obj
    BY <1>2, <1>3 DEF HooksOK, HooksAreAlive
  <2>2. hooks' = Placed(hooks, t, s)
    BY <1>1
  <2> HIDE DEF s
  <2>3. /\ hooks' \in [Task -> Seq(Object)] /\ hooks'[t] = s /\ \A u \in Task : u # t => hooks'[u] = hooks[u]
    BY <2>1, <2>2 DEF HooksOK, Placed
  <2>4. PICK n \in Nat : n = held[t] + 1 /\ held' = Placed(held, t, n)
    BY <1>1, <1>3
  <2>5. /\ held' \in [Task -> Nat] /\ held'[t] = n /\ \A u \in Task : u # t => held'[u] = held[u]
        /\ SumOf(held') \in Nat /\ SumOf(held) \in Nat
        /\ SumOf(held') + held[t] = SumOf(held) + n
    <3>1. held \in [Task -> Nat] /\ held' = Placed(held, t, n)
      BY <2>4 DEF HooksOK
    <3> QED
      BY <3>1, HeldChange
  <2>6. \A u \in Task : held'[u] = Len(hooks'[u])
    BY <1>3, <2>1, <2>3, <2>4, <2>5 DEF HooksOK
  <2>7. ASSUME NEW u \in Task, NEW k \in DOMAIN hooks'[u] PROVE hooks'[u][k] = obj'
    <3>1. CASE u = t
      BY <1>1, <2>1, <2>3, <3>1
    <3>2. CASE u # t
      BY <1>1, <2>3, <3>2 DEF HooksOK, HooksAreAlive
    <3> QED
      BY <3>1, <3>2
  <2>8. count' = SumOf(held') /\ count' <= MaxHooks
    BY <1>1, <1>3, <2>4, <2>5, HostAssumption DEF HooksOK
  <2> QED
    BY <2>3, <2>5, <2>6, <2>7, <2>8 DEF HooksOK, HooksAreAlive
<1>5. TokensOK'
  BY <1>1, HostFacts DEF TokensOK, HooksOK
<1>6. StagesOK'
  BY <1>1, <1>2 DEF StagesOK, StageOK
<1> QED
  BY <1>4, <1>5, <1>6

LEMMA HookCloseKeeps ==
  ASSUME HostInv, NEW t \in Task, HookClose(t)
  PROVE  HostInv'
<1> USE DEF HostInv
<1>1. /\ hooks[t] # << >> /\ hooks' = Placed(hooks, t, Tail(hooks[t]))
      /\ obj' = obj /\ enable' = enable /\ stage' = stage
      /\ gives[t] = 0 /\ held[t] > 0 /\ count' = count - 1 /\ held' = Placed(held, t, held[t] - 1)
      /\ sem' = sem /\ pc' = pc
      /\ \/ count' <= 0 /\ gives' = Placed(gives, t, wait_count) /\ wait_count' = 0
         \/ count' > 0 /\ gives' = gives /\ wait_count' = wait_count
  BY DEF HookClose, Asem!BeginSub, Placed
<1>2. hooks[t] \in Seq(Object) /\ Len(hooks[t]) \in Nat /\ held[t] = Len(hooks[t]) /\ held[t] \in Nat
  BY DEF HooksOK
<1>3. PICK n \in Nat : n = held[t] - 1 /\ held' = Placed(held, t, n)
  <2>1. held[t] - 1 \in Nat
    BY <1>1, <1>2
  <2> QED
    BY <1>1, <2>1
<1>4. /\ held' \in [Task -> Nat] /\ held'[t] = n /\ \A u \in Task : u # t => held'[u] = held[u]
      /\ SumOf(held') \in Nat /\ SumOf(held) \in Nat
      /\ SumOf(held') + held[t] = SumOf(held) + n
  <2>1. held \in [Task -> Nat] /\ held' = Placed(held, t, n)
    BY <1>3 DEF HooksOK
  <2> QED
    BY <2>1, HeldChange
<1>5. count \in Nat /\ count' \in Nat /\ count' = SumOf(held') /\ count' <= MaxHooks /\ count > 0
  BY <1>1, <1>2, <1>3, <1>4, HostAssumption DEF HooksOK
<1>6. HooksOK'
  <2> DEFINE s == Tail(hooks[t])
  <2>1. /\ s \in Seq(Object) /\ Len(s) = Len(hooks[t]) - 1
        /\ \A k \in DOMAIN s : s[k] = obj
    BY <1>1, <1>2 DEF HooksOK, HooksAreAlive
  <2>2. hooks' = Placed(hooks, t, s)
    BY <1>1
  <2> HIDE DEF s
  <2>3. /\ hooks' \in [Task -> Seq(Object)] /\ hooks'[t] = s /\ \A u \in Task : u # t => hooks'[u] = hooks[u]
    BY <2>1, <2>2 DEF HooksOK, Placed
  <2>4. \A u \in Task : held'[u] = Len(hooks'[u])
    BY <1>2, <1>3, <1>4, <2>1, <2>3 DEF HooksOK
  <2>5. \A u \in Task : \A k \in DOMAIN hooks'[u] : hooks'[u][k] = obj'
    BY <1>1, <2>1, <2>3 DEF HooksOK, HooksAreAlive
  <2> QED
    BY <1>4, <1>5, <2>3, <2>4, <2>5 DEF HooksOK, HooksAreAlive
<1>7. CASE count' <= 0 /\ gives' = Placed(gives, t, wait_count) /\ wait_count' = 0
  <2>1. gives \in [Task -> Nat] /\ wait_count \in Nat /\ count' = 0
    BY <1>5, <1>7 DEF TokensOK
  <2>2. gives' \in [Task -> Nat] /\ SumOf(gives') + 0 = SumOf(gives) + wait_count /\ SumOf(gives') \in Nat
    BY <1>1, <1>7, <2>1, HeldChange
  <2>3. TokensOK'
    BY <1>1, <1>7, <2>1, <2>2, HostFacts DEF TokensOK
  <2>4. StagesOK'
    BY <1>1, <1>5, <1>7, <2>1 DEF StagesOK, StageOK
  <2> QED
    BY <1>6, <2>3, <2>4
<1>8. CASE count' > 0 /\ gives' = gives /\ wait_count' = wait_count
  <2>1. TokensOK'
    BY <1>1, <1>5, <1>8 DEF TokensOK
  <2>2. StagesOK'
    BY <1>1, <1>5, <1>8 DEF StagesOK, StageOK
  <2> QED
    BY <1>6, <2>1, <2>2
<1> QED
  BY <1>1, <1>7, <1>8

LEMMA HookWakeKeeps ==
  ASSUME HostInv, HookWake
  PROVE  HostInv'
<1> USE DEF HostInv
<1>1. PICK t \in Task : Asem!SemGive(t)
  BY DEF HookWake
<1>2. /\ obj' = obj /\ enable' = enable /\ stage' = stage /\ hooks' = hooks
      /\ count' = count /\ wait_count' = wait_count /\ held' = held /\ pc' = pc
      /\ sem' = sem + gives[t] /\ gives' = Placed(gives, t, 0)
  BY <1>1 DEF HookWake, Asem!SemGive, Placed
<1>3. gives \in [Task -> Nat] /\ gives[t] \in Nat
  BY DEF TokensOK
<1>4. gives' \in [Task -> Nat] /\ SumOf(gives') + gives[t] = SumOf(gives) + 0 /\ SumOf(gives') \in Nat
  BY <1>2, <1>3, HeldChange
<1>5. HooksOK'
  BY <1>2 DEF HooksOK, HooksAreAlive
<1>6. TokensOK'
  BY <1>2, <1>3, <1>4, HostFacts DEF TokensOK
<1>7. StagesOK'
  BY <1>2 DEF StagesOK, StageOK
<1> QED
  BY <1>5, <1>6, <1>7

LEMMA AttachKeeps ==
  ASSUME HostInv, NEW o \in Object, Attach(o)
  PROVE  HostInv'
<1> USE DEF HostInv
<1>1. /\ stage[o] = "out" /\ obj = NoObject /\ obj' = o /\ enable' = TRUE /\ stage' = Placed(stage, o, "in")
      /\ hooks' = hooks /\ count' = count /\ wait_count' = wait_count /\ sem' = sem /\ gives' = gives
      /\ held' = held /\ pc' = pc
  BY DEF Attach, Goes, asemVars, Placed
<1>2. \A x \in Object : stage[x] = "out"
  BY <1>1, HostFacts DEF StagesOK, StageOK
<1>3. \A t \in Task : \A k \in DOMAIN hooks[t] : FALSE
  <2> SUFFICES ASSUME NEW t \in Task, NEW k \in DOMAIN hooks[t] PROVE FALSE
    OBVIOUS
  <2>1. hooks[t] \in Seq(Object) /\ hooks[t][k] = NoObject
    BY <1>1 DEF HooksOK, HooksAreAlive
  <2> QED
    BY <2>1, HostFacts
<1>4. HooksOK'
  BY <1>1, <1>3 DEF HooksOK, HooksAreAlive
<1>5. TokensOK'
  BY <1>1 DEF TokensOK
<1>6. /\ stage' \in [Object -> {"out", "in", "draining", "asleep", "drained"}]
      /\ stage'[o] = "in" /\ \A x \in Object : x # o => stage'[x] = "out"
  BY <1>1, <1>2 DEF StagesOK, Placed
<1>7. \A x \in Object : pc[x] # "wait"
  BY <1>2 DEF StagesOK, StageOK
<1>8. ASSUME NEW x \in Object PROVE StageOK(x)'
  BY <1>1, <1>6, <1>7 DEF StageOK
<1>9. StagesOK'
  BY <1>1, <1>6, <1>8 DEF StagesOK
<1> QED
  BY <1>4, <1>5, <1>9

LEMMA DisableKeeps ==
  ASSUME HostInv, NEW o \in Object, Disable(o)
  PROVE  HostInv'
<1> USE DEF HostInv
<1>1. /\ stage[o] = "in" /\ obj' = obj /\ enable' = FALSE /\ stage' = Placed(stage, o, "draining")
      /\ hooks' = hooks /\ count' = count /\ wait_count' = wait_count /\ sem' = sem /\ gives' = gives
      /\ held' = held /\ pc' = pc
  BY DEF Disable, Goes, asemVars, Placed
<1>2. /\ stage' \in [Object -> {"out", "in", "draining", "asleep", "drained"}]
      /\ stage'[o] = "draining" /\ \A x \in Object : x # o => stage'[x] = stage[x] /\ stage[x] = "out"
  BY <1>1, HostFacts DEF StagesOK, Placed
<1>3. HooksOK'
  BY <1>1 DEF HooksOK, HooksAreAlive
<1>4. TokensOK'
  BY <1>1 DEF TokensOK
<1>5. ASSUME NEW x \in Object PROVE StageOK(x)'
  BY <1>1, <1>2 DEF StagesOK, StageOK
<1>6. StagesOK'
  BY <1>1, <1>2, <1>5 DEF StagesOK
<1> QED
  BY <1>3, <1>4, <1>6

LEMMA DrainKeeps ==
  ASSUME HostInv, NEW o \in Object, Drain(o)
  PROVE  HostInv'
<1> USE DEF HostInv
<1>1. /\ stage[o] = "draining" /\ obj' = obj /\ enable' = enable /\ hooks' = hooks
      /\ count' = count /\ sem' = sem /\ gives' = gives /\ held' = held
  BY DEF Drain, asemVars, Asem!BeginWait
<1>2. HooksOK'
  BY <1>1 DEF HooksOK, HooksAreAlive
<1>3. CASE count = 0 /\ Goes(o, "drained") /\ UNCHANGED asemVars
  <2>1. stage' = Placed(stage, o, "drained") /\ wait_count' = wait_count /\ pc' = pc
    BY <1>3 DEF Goes, asemVars, Placed
  <2>2. /\ stage' \in [Object -> {"out", "in", "draining", "asleep", "drained"}]
        /\ stage'[o] = "drained" /\ \A x \in Object : x # o => stage'[x] = stage[x] /\ stage[x] = "out"
    BY <1>1, <2>1, HostFacts DEF StagesOK, Placed
  <2>3. TokensOK'
    BY <1>1, <2>1 DEF TokensOK
  <2>4. ASSUME NEW x \in Object PROVE StageOK(x)'
    BY <1>1, <1>3, <2>1, <2>2 DEF StagesOK, StageOK
  <2>5. ~enable
    BY <1>1, HostFacts
  <2>6. StagesOK'
    BY <1>1, <2>2, <2>4, <2>5 DEF StagesOK
  <2> QED
    BY <1>2, <2>3, <2>6
<1>4. CASE count > 0 /\ Goes(o, "asleep") /\ Asem!BeginWait(o)
  <2>1. PICK b \in {"wait"} : b \in Places2 /\ pc' = Placed(pc, o, b) /\ pc[o] = "outside"
    BY <1>4 DEF Asem!BeginWait, Asem!To, Placed, Places2
  <2>2. stage' = Placed(stage, o, "asleep") /\ wait_count' = wait_count + 1 /\ count > 0
    BY <1>4 DEF Asem!BeginWait, Goes, Placed
  <2>3. /\ pc' \in [Object -> Places2] /\ Waits(pc) \in Nat /\ Waits(pc') = Waits(pc) + 1
        /\ pc'[o] = "wait" /\ \A x \in Object : x # o => pc'[x] = pc[x]
    BY <2>1, WaitsStep DEF TokensOK
  <2>4. TokensOK'
    BY <1>1, <2>2, <2>3, HostFacts DEF TokensOK, HooksOK
  <2>5. /\ stage' \in [Object -> {"out", "in", "draining", "asleep", "drained"}]
        /\ stage'[o] = "asleep" /\ \A x \in Object : x # o => stage'[x] = stage[x] /\ stage[x] = "out"
    BY <1>1, <2>2, HostFacts DEF StagesOK, Placed
  <2>6. wait_count' # 0
    BY <2>2 DEF TokensOK
  <2>7. ASSUME NEW x \in Object PROVE StageOK(x)'
    <3>1. CASE x = o
      BY <1>1, <2>3, <2>5, <2>6, <3>1 DEF StagesOK, StageOK
    <3>2. CASE x # o
      BY <1>1, <2>3, <2>5, <3>2 DEF StagesOK, StageOK
    <3> QED
      BY <3>1, <3>2
  <2>8. ~enable
    BY <1>1, HostFacts
  <2>9. StagesOK'
    BY <1>1, <2>5, <2>7, <2>8 DEF StagesOK
  <2> QED
    BY <1>2, <2>4, <2>9
<1> QED
  BY <1>3, <1>4 DEF Drain

\* Whoever is woken finds that no hook is left: it is the only one asleep, its
\* token is the only one, and it was given when the count fell to 0.
LEMMA WokenKeeps ==
  ASSUME HostInv, NEW o \in Object, Woken(o)
  PROVE  HostInv'
<1> USE DEF HostInv
<1>1. /\ stage[o] = "asleep" /\ obj' = obj /\ enable' = enable /\ hooks' = hooks
      /\ count' = count /\ wait_count' = wait_count /\ gives' = gives /\ held' = held
      /\ sem > 0 /\ sem' = sem - 1 /\ stage' = Placed(stage, o, "drained")
  BY DEF Woken, Asem!SemTake, Goes, Placed
<1>2. PICK b \in {"outside"} : b \in Places2 /\ pc' = Placed(pc, o, b) /\ pc[o] = "wait"
  BY DEF Woken, Asem!SemTake, Asem!To, Placed, Places2
<1>3. /\ pc' \in [Object -> Places2] /\ Waits(pc) \in Nat /\ Waits(pc') = Waits(pc) - 1
      /\ pc'[o] = "outside" /\ \A x \in Object : x # o => pc'[x] = pc[x]
  BY <1>2, WaitsStep DEF TokensOK
<1>4. Waits(pc) <= 1
  <2>1. \A x \in Object : pc[x] = "wait" => x = o
    BY <1>1, HostFacts DEF StagesOK, StageOK
  <2> QED
    BY <2>1, WaitsOne DEF TokensOK, Places2
<1>5. wait_count = 0
  BY <1>1, <1>4, HostFacts DEF TokensOK
<1>6. count = 0
  BY <1>1, <1>5 DEF StagesOK, StageOK
<1>7. HooksOK'
  BY <1>1 DEF HooksOK, HooksAreAlive
<1>8. TokensOK'
  BY <1>1, <1>3, HostFacts DEF TokensOK
<1>9. /\ stage' \in [Object -> {"out", "in", "draining", "asleep", "drained"}]
      /\ stage'[o] = "drained" /\ \A x \in Object : x # o => stage'[x] = stage[x] /\ stage[x] = "out"
  BY <1>1, HostFacts DEF StagesOK, Placed
<1>10. ASSUME NEW x \in Object PROVE StageOK(x)'
  <2>1. CASE x = o
    BY <1>1, <1>3, <1>6, <1>9, <2>1 DEF StagesOK, StageOK
  <2>2. CASE x # o
    BY <1>1, <1>3, <1>9, <2>2 DEF StagesOK, StageOK
  <2> QED
    BY <2>1, <2>2
<1>11. ~enable
  BY <1>1, HostFacts
<1>12. StagesOK'
  BY <1>1, <1>9, <1>10, <1>11 DEF StagesOK
<1> QED
  BY <1>7, <1>8, <1>12

LEMMA ForgetKeeps ==
  ASSUME HostInv, NEW o \in Object, Forget(o)
  PROVE  HostInv'
<1> USE DEF HostInv
<1>1. /\ stage[o] = "drained" /\ obj' = NoObject /\ enable' = enable /\ stage' = Placed(stage, o, "out")
      /\ hooks' = hooks /\ count' = count /\ wait_count' = wait_count /\ sem' = sem /\ gives' = gives
      /\ held' = held /\ pc' = pc
  BY DEF Forget, Goes, asemVars, Placed
<1>2. count = 0
  BY <1>1 DEF StagesOK, StageOK
<1>3. \A t \in Task : held[t] = 0
  BY <1>2, Finite, SumNone DEF HooksOK
<1>4. \A t \in Task : \A k \in DOMAIN hooks[t] : FALSE
  BY <1>3 DEF HooksOK
<1>5. HooksOK'
  BY <1>1, <1>4 DEF HooksOK, HooksAreAlive
<1>6. TokensOK'
  BY <1>1 DEF TokensOK
<1>7. /\ stage' \in [Object -> {"out", "in", "draining", "asleep", "drained"}]
      /\ stage'[o] = "out" /\ \A x \in Object : x # o => stage'[x] = stage[x] /\ stage[x] = "out"
  BY <1>1, HostFacts DEF StagesOK, Placed
<1>8. ASSUME NEW x \in Object PROVE StageOK(x)'
  BY <1>1, <1>7 DEF StagesOK, StageOK
<1>9. ~enable
  BY <1>1, HostFacts
<1>10. StagesOK'
  BY <1>1, <1>7, <1>8, <1>9 DEF StagesOK
<1> QED
  BY <1>5, <1>6, <1>10

LEMMA HostStep ==
  ASSUME HostInv, Next
  PROVE  HostInv'
BY HookOpenKeeps, HookCloseKeeps, HookWakeKeeps, AttachKeeps, DisableKeeps, DrainKeeps, WokenKeeps, ForgetKeeps
   DEF Next

LEMMA HostSafe == HostInv => DetachWaits
<1> SUFFICES ASSUME HostInv PROVE DetachWaits
  OBVIOUS
<1> USE DEF HostInv
<1>1. held \in [Task -> 0..MaxHooks]
  <2>1. ASSUME NEW t \in Task PROVE held[t] \in 0..MaxHooks
    <3>1. PICK h : h = Placed(held, t, 0)
      OBVIOUS
    <3>2. SumOf(held) = SumOf(h) + held[t] /\ SumOf(h) \in Nat /\ SumOf(held) \in Nat /\ held[t] \in Nat
      <4>1. held \in [Task -> Nat]
        BY DEF HooksOK
      <4>2. SumOf(h) \in Nat /\ SumOf(held) \in Nat /\ SumOf(h) + held[t] = SumOf(held) + 0
        BY <3>1, <4>1, HeldChange
      <4> QED
        BY <4>1, <4>2
    <3> QED
      BY <3>2, HostAssumption DEF HooksOK
  <2> QED
    BY <2>1 DEF HooksOK
<1>2. TypeOK
  BY <1>1, HostFacts, HostAssumption DEF TypeOK, Asem!TypeOK, HooksOK, TokensOK, StagesOK, Places2
<1>3. TokensMatch
  BY HostFacts, SameOperators DEF TokensMatch, Asem!TokensMatch, Asem!OpenWakesAll, Asem!Sleepers, Asem!N, Asem!Pending,
       Waits, TokensOK, HooksOK
<1>4. HooksAreAlive
  BY DEF HooksOK
<1>5. DrainedIsEmpty
  <2> SUFFICES ASSUME NEW o \in Object, stage[o] = "drained", NEW t \in Task PROVE hooks[t] = << >>
    BY DEF DrainedIsEmpty
  <2>1. count = 0
    BY DEF StagesOK, StageOK
  <2>2. held[t] = 0
    BY <2>1, Finite, SumNone DEF HooksOK
  <2>3. hooks[t] \in Seq(Object) /\ Len(hooks[t]) = 0
    BY <2>2 DEF HooksOK
  <2> QED
    BY <2>3
<1>6. AttachmentKept
  BY DEF AttachmentKept, StagesOK, StageOK
<1> QED
  BY <1>2, <1>3, <1>4, <1>5, <1>6 DEF DetachWaits

-----------------------------------------------------------------------------
\* JobMachine.
LEMMA ActorFinite == IsFiniteSet(J!Actor) /\ Task \subseteq J!Actor /\ Thread \ Task \subseteq J!Actor /\ Owner \in J!Actor
<1>1. J!Actor = Thread \cup {Owner}
  BY ObjectsAssumption DEF J!Actor
<1>2. IsFiniteSet(Thread \cup {Owner})
  BY Finite, FS_AddElement
<1> QED
  BY <1>1, <1>2, ObjectsAssumption

LEMMA ActorCounts ==
  ASSUME NEW Labels, NEW p \in [J!Actor -> Labels], NEW t \in J!Actor, NEW b, NEW q, q = Placed(p, t, b)
  PROVE  \A c : /\ CountAt(p, c) \in Nat
                /\ c = p[t] => CountAt(p, c) >= 1
                /\ c = p[t] /\ c # b => CountAt(q, c) = CountAt(p, c) - 1
                /\ c = b /\ c # p[t] => CountAt(q, c) = CountAt(p, c) + 1
                /\ (c = b /\ c = p[t]) \/ (c # b /\ c # p[t]) => CountAt(q, c) = CountAt(p, c)
<1>1. IsFiniteSet(J!Actor)
  BY ActorFinite
<1> QED
  BY <1>1, CountPlaced, Z3

LEMMA CarryStep ==
  ASSUME NEW p \in [J!Actor -> JobPlaces], NEW t \in J!Actor, NEW b \in JobPlaces, NEW q, q = Placed(p, t, b)
  PROVE  /\ q \in [J!Actor -> JobPlaces]
         /\ q[t] = b /\ \A u \in J!Actor : u # t => q[u] = p[u]
         /\ Carrying(p) \in Nat
         /\ p[t] \in Carries => Carrying(p) >= 1
         /\ p[t] \in Carries /\ b \notin Carries => Carrying(q) = Carrying(p) - 1
         /\ p[t] \notin Carries /\ b \in Carries => Carrying(q) = Carrying(p) + 1
         /\ (p[t] \in Carries <=> b \in Carries) => Carrying(q) = Carrying(p)
<1>1. \A c : /\ CountAt(p, c) \in Nat
             /\ c = p[t] => CountAt(p, c) >= 1
             /\ c = p[t] /\ c # b => CountAt(q, c) = CountAt(p, c) - 1
             /\ c = b /\ c # p[t] => CountAt(q, c) = CountAt(p, c) + 1
             /\ (c = b /\ c = p[t]) \/ (c # b /\ c # p[t]) => CountAt(q, c) = CountAt(p, c)
  BY ActorCounts, Z3
<1>2. q \in [J!Actor -> JobPlaces] /\ q[t] = b /\ \A u \in J!Actor : u # t => q[u] = p[u]
  BY DEF Placed
<1>3. Carrying(p) \in Nat
  BY <1>1 DEF Carrying
<1>4. p[t] \in Carries => Carrying(p) >= 1
  BY <1>1 DEF Carrying, Carries
<1>5. p[t] \in Carries /\ b \notin Carries => Carrying(q) = Carrying(p) - 1
  BY <1>1 DEF Carrying, Carries
<1>6. p[t] \notin Carries /\ b \in Carries => Carrying(q) = Carrying(p) + 1
  BY <1>1 DEF Carrying, Carries
<1>7. (p[t] \in Carries <=> b \in Carries) => Carrying(q) = Carrying(p)
  BY <1>1 DEF Carrying, Carries
<1> QED
  BY <1>2, <1>3, <1>4, <1>5, <1>6, <1>7

\* JobList::add and JobList::get.
LEMMA JobsNat == \A p, n \in Seq(Job) : Jobs(p, n) \in Nat
BY DEF Jobs

LEMMA AddOne ==
  ASSUME NEW p \in Seq(Job), NEW n \in Seq(Job), NEW j \in Job
  PROVE  /\ Append(p, j) \in Seq(Job) /\ Jobs(Append(p, j), n) = Jobs(p, n) + 1
         /\ Append(n, j) \in Seq(Job) /\ Jobs(p, Append(n, j)) = Jobs(p, n) + 1
BY AppendProperties DEF Jobs

LEMMA GotOne ==
  ASSUME pri \in Seq(Job), normal \in Seq(Job), NEW j, J!Got(j)
  PROVE  pri' \in Seq(Job) /\ normal' \in Seq(Job) /\ Jobs(pri', normal') = Jobs(pri, normal) - 1
<1>1. CASE pri # << >> /\ pri' = Tail(pri) /\ normal' = normal
  <2>1. Tail(pri) \in Seq(Job) /\ Len(Tail(pri)) = Len(pri) - 1 /\ Len(pri) \in Nat /\ Len(normal) \in Nat
    BY <1>1, HeadTailProperties
  <2> QED
    BY <1>1, <2>1 DEF Jobs
<1>2. CASE normal # << >> /\ normal' = Tail(normal) /\ pri' = pri
  <2>1. Tail(normal) \in Seq(Job) /\ Len(Tail(normal)) = Len(normal) - 1 /\ Len(normal) \in Nat /\ Len(pri) \in Nat
    BY <1>2, HeadTailProperties
  <2> QED
    BY <1>2, <2>1 DEF Jobs
<1> QED
  BY <1>1, <1>2 DEF J!Got

LEMMA JobAddKeeps ==
  ASSUME JobInv, NEW t \in J!Actor, J!Add(t)
  PROVE  JobInv'
<1> USE DEF JobInv
<1>1. /\ jobUnits' = jobUnits /\ stop_flag' = stop_flag /\ ex_flag' = ex_flag /\ job' = job /\ told' = told
      /\ pri' \in Seq(Job) /\ normal' \in Seq(Job) /\ Jobs(pri', normal') = Jobs(pri, normal) + 1
  <2>1. PICK j \in Job : \/ normal' = Append(normal, j) /\ pri' = pri
                         \/ pri' = Append(pri, j) /\ normal' = normal
    BY DEF J!Add
  <2>2. pri' \in Seq(Job) /\ normal' \in Seq(Job) /\ Jobs(pri', normal') = Jobs(pri, normal) + 1
    <3>1. pri \in Seq(Job) /\ normal \in Seq(Job)
      BY DEF JobTypes
    <3>2. /\ Append(pri, j) \in Seq(Job) /\ Jobs(Append(pri, j), normal) = Jobs(pri, normal) + 1
          /\ Append(normal, j) \in Seq(Job) /\ Jobs(pri, Append(normal, j)) = Jobs(pri, normal) + 1
      BY <3>1, AddOne
    <3> QED
      BY Zenon, <2>1, <3>1, <3>2
  <2>3. jobUnits' = jobUnits /\ stop_flag' = stop_flag /\ ex_flag' = ex_flag /\ job' = job /\ told' = told
    BY DEF J!Add
  <2> QED
    BY <2>2, <2>3
<1>2. PICK b \in {"add", "add_run"} :
        /\ b \in JobPlaces /\ jobPc' = Placed(jobPc, t, b) /\ jobPc[t] \in {"free", "run"}
        /\ t # Owner /\ jobPc[Owner] \notin {"drain", "done"}
        /\ t \in Task => b = "add_run" /\ jobPc[t] = "run"
        /\ t \notin Task => b = "add"
  <2>1. CASE t \in Thread \ Task /\ jobPc[t] = "free" /\ jobPc[Owner] \in {"free", "stop", "wait"}
    BY <2>1, ObjectsAssumption DEF J!Add, J!To, Placed, JobPlaces
  <2>2. CASE t \in Task /\ jobPc[t] = "run"
    BY <2>2, ObjectsAssumption DEF J!Add, J!To, Placed, JobPlaces, KindsOK
  <2> QED
    BY <2>1, <2>2 DEF J!Add, J!MayAdd
<1>3. jobPc[t] \notin Carries /\ b \in Carries
  BY <1>2 DEF Carries
<1>4. /\ jobPc' \in [J!Actor -> JobPlaces] /\ Carrying(jobPc) \in Nat /\ Carrying(jobPc') = Carrying(jobPc) + 1
      /\ jobPc'[t] = b /\ \A u \in J!Actor : u # t => jobPc'[u] = jobPc[u]
  <2>1. jobPc \in [J!Actor -> JobPlaces]
    BY DEF JobTypes
  <2> QED
    BY <1>2, <1>3, <2>1, CarryStep
<1>5. JobTypes'
  BY <1>1, <1>4 DEF JobTypes
<1>6. jobPc'[Owner] = jobPc[Owner]
  BY <1>2, <1>4, ActorFinite
<1>7. KindsOK'
  BY <1>2, <1>4, <1>6, ActorFinite DEF KindsOK
<1>8. StopOK'
  BY <1>1, <1>2, <1>4, <1>6, ActorFinite DEF StopOK
<1>9. UnitsOK'
  <2>1. Jobs(pri, normal) \in Nat
    BY JobsNat DEF JobTypes
  <2>2. StopUnitAt(jobPc[Owner]) \in Nat /\ StopUnitAt(jobPc'[Owner]) = StopUnitAt(jobPc[Owner])
    BY <1>6 DEF StopUnitAt
  <2>3. jobUnits + Carrying(jobPc) = Jobs(pri, normal) + StopUnitAt(jobPc[Owner]) /\ jobUnits \in Nat
    BY <1>2 DEF UnitsOK, JobTypes
  <2>4. jobUnits' + Carrying(jobPc') = Jobs(pri', normal') + StopUnitAt(jobPc'[Owner])
    BY <1>1, <1>4, <2>1, <2>2, <2>3
  <2> QED
    BY <2>4 DEF UnitsOK
<1> QED
  BY <1>5, <1>7, <1>8, <1>9

LEMMA JobAddGiveKeeps ==
  ASSUME JobInv, NEW t \in J!Actor, J!AddGive(t)
  PROVE  JobInv'
<1> USE DEF JobInv
<1>1. /\ jobUnits' = jobUnits + 1 /\ stop_flag' = stop_flag /\ ex_flag' = ex_flag /\ job' = job /\ told' = told
      /\ pri' = pri /\ normal' = normal /\ jobPc[t] \in {"add", "add_run"}
  BY DEF J!AddGive
<1>2. PICK b \in {"free", "run"} :
        /\ b \in JobPlaces /\ jobPc' = Placed(jobPc, t, b) /\ t # Owner
        /\ t \in Task => b = "run"
        /\ t \notin Task => b = "free"
  <2>1. t # Owner
    BY <1>1 DEF KindsOK
  <2>2. t \in Task \/ t \in Thread \ Task
    BY <2>1 DEF J!Actor
  <2> QED
    BY <2>1, <2>2 DEF J!AddGive, J!To, Placed, JobPlaces
<1>3. jobPc[t] \in Carries /\ b \notin Carries
  BY <1>1, <1>2 DEF Carries
<1>4. /\ jobPc' \in [J!Actor -> JobPlaces] /\ Carrying(jobPc) \in Nat /\ Carrying(jobPc') = Carrying(jobPc) - 1
      /\ jobPc'[t] = b /\ \A u \in J!Actor : u # t => jobPc'[u] = jobPc[u]
  <2>1. jobPc \in [J!Actor -> JobPlaces]
    BY DEF JobTypes
  <2> QED
    BY <1>2, <1>3, <2>1, CarryStep
<1>5. JobTypes'
  BY <1>1, <1>4 DEF JobTypes
<1>6. jobPc'[Owner] = jobPc[Owner] /\ (t \in Task => jobPc[t] # "gone")
  BY <1>1, <1>2, <1>4, ActorFinite
<1>7. KindsOK'
  BY <1>2, <1>4, <1>6, ActorFinite DEF KindsOK
<1>8. StopOK'
  BY <1>1, <1>2, <1>4, <1>6, ActorFinite DEF StopOK
<1>9. UnitsOK'
  BY <1>1, <1>2, <1>4, <1>6, JobsNat DEF UnitsOK, JobTypes, StopUnitAt
<1> QED
  BY <1>5, <1>7, <1>8, <1>9

\* A worker goes from one of its places to another, but in and out of an add().
LEMMA WorkerMoves ==
  ASSUME JobInv, NEW w \in Task, NEW b \in {"take", "get", "run", "leave", "gone"},
         jobPc[w] \in {"take", "get", "run", "leave"}, jobPc' = Placed(jobPc, w, b)
  PROVE  /\ jobPc' \in [J!Actor -> JobPlaces] /\ jobPc'[w] = b /\ jobPc'[Owner] = jobPc[Owner]
         /\ \A u \in Task : u # w => jobPc'[u] = jobPc[u]
         /\ KindsOK' /\ jobPc[Owner] \notin {"drain", "done"}
         /\ Carrying(jobPc) \in Nat
         /\ jobPc[w] \in Carries => Carrying(jobPc) >= 1
         /\ jobPc[w] \in Carries /\ b \notin Carries => Carrying(jobPc') = Carrying(jobPc) - 1
         /\ jobPc[w] \notin Carries /\ b \in Carries => Carrying(jobPc') = Carrying(jobPc) + 1
         /\ (jobPc[w] \in Carries <=> b \in Carries) => Carrying(jobPc') = Carrying(jobPc)
<1> USE DEF JobInv
<1>1. w \in J!Actor /\ Owner \in J!Actor /\ w # Owner /\ Task \subseteq J!Actor /\ Thread \ Task \subseteq J!Actor
  BY ActorFinite, ObjectsAssumption
<1>2. b \in JobPlaces
  BY DEF JobPlaces
<1>3. /\ jobPc' \in [J!Actor -> JobPlaces] /\ jobPc'[w] = b
      /\ \A u \in J!Actor : u # w => jobPc'[u] = jobPc[u]
      /\ Carrying(jobPc) \in Nat
      /\ jobPc[w] \in Carries => Carrying(jobPc) >= 1
      /\ jobPc[w] \in Carries /\ b \notin Carries => Carrying(jobPc') = Carrying(jobPc) - 1
      /\ jobPc[w] \notin Carries /\ b \in Carries => Carrying(jobPc') = Carrying(jobPc) + 1
      /\ (jobPc[w] \in Carries <=> b \in Carries) => Carrying(jobPc') = Carrying(jobPc)
  BY <1>1, <1>2, CarryStep DEF JobTypes
<1>4. jobPc'[Owner] = jobPc[Owner] /\ \A u \in Task : u # w => jobPc'[u] = jobPc[u]
  BY <1>1, <1>3
<1>5. jobPc[Owner] \notin {"drain", "done"}
  BY DEF KindsOK
<1>6. KindsOK'
  BY <1>1, <1>3, <1>4, <1>5 DEF KindsOK
<1> QED
  BY <1>3, <1>4, <1>5, <1>6

LEMMA WorkKeeps ==
  ASSUME JobInv, NEW w \in Task, J!Work(w)
  PROVE  JobInv'
<1> USE DEF JobInv
<1>1. CASE J!SemTake(w)
  <2>1. PICK b \in {"get"} : jobPc' = Placed(jobPc, w, b)
    BY <1>1 DEF J!SemTake, J!To, Placed
  <2>2. /\ jobPc[w] = "take" /\ jobUnits > 0 /\ jobUnits' = jobUnits - 1
        /\ pri' = pri /\ normal' = normal /\ stop_flag' = stop_flag /\ ex_flag' = ex_flag /\ job' = job /\ told' = told
    BY <1>1 DEF J!SemTake
  <2>3. jobPc[w] \notin Carries /\ b \in Carries
    BY <2>1, <2>2 DEF Carries
  <2>4. /\ jobPc' \in [J!Actor -> JobPlaces] /\ jobPc'[w] = b /\ jobPc'[Owner] = jobPc[Owner]
        /\ \A u \in Task : u # w => jobPc'[u] = jobPc[u]
        /\ KindsOK' /\ jobPc[Owner] \notin {"drain", "done"}
        /\ Carrying(jobPc) \in Nat /\ Carrying(jobPc') = Carrying(jobPc) + 1
    BY <2>1, <2>2, <2>3, WorkerMoves
  <2>5. JobTypes'
    BY <2>2, <2>4 DEF JobTypes
  <2>6. StopOK'
    BY <2>1, <2>2, <2>4 DEF StopOK
  <2>7. UnitsOK'
    BY <2>2, <2>4, JobsNat DEF UnitsOK, JobTypes, StopUnitAt
  <2> QED
    BY <2>4, <2>5, <2>6, <2>7
<1>2. CASE J!GetJob(w)
  <2>1. PICK b \in {"run"} : jobPc' = Placed(jobPc, w, b)
    BY <1>2 DEF J!GetJob, J!To, Placed
  <2>2. PICK j \in Job : /\ J!Got(j)
                         /\ job' = [job EXCEPT ![w] = <<j>>] /\ told' = [told EXCEPT ![w] = stop_flag]
    BY <1>2 DEF J!GetJob
  <2>3. jobPc[w] = "get" /\ jobUnits' = jobUnits /\ stop_flag' = stop_flag /\ ex_flag' = ex_flag
    BY <1>2 DEF J!GetJob
  <2>4. pri' \in Seq(Job) /\ normal' \in Seq(Job) /\ Jobs(pri', normal') = Jobs(pri, normal) - 1
    BY <2>2, GotOne DEF JobTypes
  <2>5. jobPc[w] \in Carries /\ b \notin Carries
    BY <2>1, <2>3 DEF Carries
  <2>6. /\ jobPc' \in [J!Actor -> JobPlaces] /\ jobPc'[w] = b /\ jobPc'[Owner] = jobPc[Owner]
        /\ \A u \in Task : u # w => jobPc'[u] = jobPc[u]
        /\ KindsOK' /\ jobPc[Owner] \notin {"drain", "done"}
        /\ Carrying(jobPc) \in Nat /\ Carrying(jobPc') = Carrying(jobPc) - 1
    BY <2>1, <2>3, <2>5, WorkerMoves
  <2>7. job' \in [Task -> Seq(Job)] /\ told' \in [Task -> BOOLEAN]
    BY <2>2 DEF JobTypes
  <2>8. JobTypes'
    BY <2>3, <2>4, <2>6, <2>7 DEF JobTypes
  <2>9. StopOK'
    BY <2>1, <2>3, <2>6 DEF StopOK
  <2>10. UnitsOK'
    <3>1. Jobs(pri, normal) \in Nat
      BY JobsNat DEF JobTypes
    <3>2. StopUnitAt(jobPc[Owner]) \in Nat /\ StopUnitAt(jobPc'[Owner]) = StopUnitAt(jobPc[Owner])
      BY <2>6 DEF StopUnitAt
    <3>3. jobUnits + Carrying(jobPc) = Jobs(pri, normal) + StopUnitAt(jobPc[Owner]) /\ jobUnits \in Nat
      BY <2>6 DEF UnitsOK, JobTypes
    <3>4. jobUnits' + Carrying(jobPc') = Jobs(pri', normal') + StopUnitAt(jobPc'[Owner])
      <4>1. jobUnits' = jobUnits /\ Jobs(pri', normal') = Jobs(pri, normal) - 1
        BY <2>3, <2>4
      <4>2. Carrying(jobPc) \in Nat /\ Carrying(jobPc') = Carrying(jobPc) - 1
        BY <2>6
      <4> QED
        BY <3>1, <3>2, <3>3, <4>1, <4>2
    <3> QED
      BY <3>4 DEF UnitsOK
  <2> QED
    BY <2>6, <2>8, <2>9, <2>10
<1>3. CASE J!GetNoJob(w)
  <2>1. PICK b \in {"leave"} : jobPc' = Placed(jobPc, w, b)
    BY <1>3 DEF J!GetNoJob, J!To, Placed
  <2>2. /\ jobPc[w] = "get" /\ pri = << >> /\ normal = << >> /\ jobUnits' = jobUnits
        /\ pri' = pri /\ normal' = normal /\ stop_flag' = stop_flag /\ ex_flag' = ex_flag /\ job' = job /\ told' = told
    BY <1>3 DEF J!GetNoJob
  <2>3. jobPc[w] \in Carries /\ b \in Carries
    BY <2>1, <2>2 DEF Carries
  <2>4. /\ jobPc' \in [J!Actor -> JobPlaces] /\ jobPc'[w] = b /\ jobPc'[Owner] = jobPc[Owner]
        /\ \A u \in Task : u # w => jobPc'[u] = jobPc[u]
        /\ KindsOK' /\ jobPc[Owner] \notin {"drain", "done"}
        /\ Carrying(jobPc) \in Nat /\ Carrying(jobPc) >= 1 /\ Carrying(jobPc') = Carrying(jobPc)
    BY <2>1, <2>2, <2>3, WorkerMoves
  <2>5. stop_flag   \* the one unit more is that of stop()
    <3>1. jobUnits + Carrying(jobPc) = IF jobPc[Owner] = "wait" THEN 1 ELSE 0
      <4>1. Jobs(pri, normal) = 0
        BY <2>2 DEF Jobs
      <4> QED
        BY <2>4, <4>1 DEF UnitsOK, StopUnitAt
    <3>2. jobPc[Owner] = "wait"
      BY <2>4, <3>1 DEF JobTypes
    <3> QED
      BY <3>2 DEF StopOK
  <2>6. JobTypes'
    BY <2>2, <2>4 DEF JobTypes
  <2>7. StopOK'
    BY <2>2, <2>4, <2>5 DEF StopOK
  <2>8. UnitsOK'
    BY <2>2, <2>4, JobsNat DEF UnitsOK, JobTypes, StopUnitAt
  <2> QED
    BY <2>4, <2>6, <2>7, <2>8
<1>4. CASE J!Finish(w)
  <2>1. PICK b \in {"take"} : jobPc' = Placed(jobPc, w, b)
    BY <1>4 DEF J!Finish, J!To, Placed
  <2>2. /\ jobPc[w] = "run" /\ jobUnits' = jobUnits /\ ex_flag' \in {ex_flag, TRUE}
        /\ job' = [job EXCEPT ![w] = << >>] /\ told' = [told EXCEPT ![w] = FALSE]
        /\ pri' = pri /\ normal' = normal /\ stop_flag' = stop_flag
    BY <1>4 DEF J!Finish, J!NoJob
  <2>3. jobPc[w] \notin Carries /\ b \notin Carries
    BY <2>1, <2>2 DEF Carries
  <2>4. /\ jobPc' \in [J!Actor -> JobPlaces] /\ jobPc'[w] = b /\ jobPc'[Owner] = jobPc[Owner]
        /\ \A u \in Task : u # w => jobPc'[u] = jobPc[u]
        /\ KindsOK' /\ jobPc[Owner] \notin {"drain", "done"}
        /\ Carrying(jobPc) \in Nat /\ Carrying(jobPc') = Carrying(jobPc)
    BY <2>1, <2>2, <2>3, WorkerMoves
  <2>5. job' \in [Task -> Seq(Job)] /\ told' \in [Task -> BOOLEAN] /\ ex_flag' \in BOOLEAN
    <3>1. << >> \in Seq(Job)
      OBVIOUS
    <3>4. ex_flag' \in BOOLEAN
      BY <2>2, Zenon DEF JobTypes
    <3>2. job' \in [Task -> Seq(Job)]
      BY <2>2, <3>1 DEF JobTypes
    <3>3. told' \in [Task -> BOOLEAN]
      BY <2>2 DEF JobTypes
    <3> QED
      BY <3>2, <3>3, <3>4
  <2>6. JobTypes'
    BY <2>2, <2>4, <2>5 DEF JobTypes
  <2>7. StopOK'
    BY <2>1, <2>2, <2>4 DEF StopOK
  <2>8. UnitsOK'
    BY <2>2, <2>4, JobsNat DEF UnitsOK, JobTypes, StopUnitAt
  <2> QED
    BY <2>4, <2>6, <2>7, <2>8
<1>5. CASE J!Leave(w)
  <2>1. PICK b \in {"gone"} : jobPc' = Placed(jobPc, w, b)
    BY <1>5 DEF J!Leave, J!To, Placed
  <2>2. /\ jobPc[w] = "leave" /\ jobUnits' = jobUnits + 1
        /\ pri' = pri /\ normal' = normal /\ stop_flag' = stop_flag /\ ex_flag' = ex_flag /\ job' = job /\ told' = told
    BY <1>5 DEF J!Leave
  <2>3. jobPc[w] \in Carries /\ b \notin Carries
    BY <2>1, <2>2 DEF Carries
  <2>4. /\ jobPc' \in [J!Actor -> JobPlaces] /\ jobPc'[w] = b /\ jobPc'[Owner] = jobPc[Owner]
        /\ \A u \in Task : u # w => jobPc'[u] = jobPc[u]
        /\ KindsOK' /\ jobPc[Owner] \notin {"drain", "done"}
        /\ Carrying(jobPc) \in Nat /\ Carrying(jobPc') = Carrying(jobPc) - 1
    BY <2>1, <2>2, <2>3, WorkerMoves
  <2>5. stop_flag
    BY <2>2 DEF StopOK
  <2>6. JobTypes'
    BY <2>2, <2>4 DEF JobTypes
  <2>7. StopOK'
    BY <2>2, <2>4, <2>5 DEF StopOK
  <2>8. UnitsOK'
    BY <2>2, <2>4, JobsNat DEF UnitsOK, JobTypes, StopUnitAt
  <2> QED
    BY <2>4, <2>6, <2>7, <2>8
<1> QED
  BY <1>1, <1>2, <1>3, <1>4, <1>5 DEF J!Work

\* The steps of the owner, in stop().
LEMMA StopKeeps ==
  ASSUME JobInv, J!StopFlag \/ J!Stop
  PROVE  JobInv'
<1> USE DEF JobInv
<1>1. Owner \in J!Actor /\ Task \subseteq J!Actor /\ Thread \ Task \subseteq J!Actor /\ Owner \notin Thread /\ Task \subseteq Thread
  BY ActorFinite, ObjectsAssumption
<1>2. ASSUME NEW b \in {"stop", "wait", "drain", "done"}, jobPc' = Placed(jobPc, Owner, b)
      PROVE  /\ jobPc' \in [J!Actor -> JobPlaces] /\ jobPc'[Owner] = b
             /\ \A u \in Thread : jobPc'[u] = jobPc[u]
             /\ Carrying(jobPc) \in Nat /\ Carrying(jobPc') = Carrying(jobPc)
  <2>1. b \in JobPlaces /\ b \notin Carries /\ jobPc[Owner] \notin Carries
    BY DEF JobPlaces, Carries, KindsOK
  <2>2. /\ jobPc' \in [J!Actor -> JobPlaces] /\ jobPc'[Owner] = b
        /\ \A u \in J!Actor : u # Owner => jobPc'[u] = jobPc[u]
        /\ Carrying(jobPc) \in Nat /\ Carrying(jobPc') = Carrying(jobPc)
    BY <1>1, <1>2, <2>1, CarryStep DEF JobTypes
  <2>3. \A u \in Thread : u \in J!Actor /\ u # Owner
    BY <1>1
  <2> QED
    BY <2>2, <2>3
<1>3. CASE J!StopFlag
  <2>1. PICK b \in {"stop"} : jobPc' = Placed(jobPc, Owner, b)
    BY <1>3 DEF J!StopFlag, J!To, Placed
  <2>2. /\ jobPc[Owner] = "free" /\ stop_flag' = TRUE /\ jobUnits' = jobUnits
        /\ pri' = pri /\ normal' = normal /\ ex_flag' = ex_flag /\ job' = job /\ told' = told
    BY <1>3 DEF J!StopFlag
  <2>3. /\ jobPc' \in [J!Actor -> JobPlaces] /\ jobPc'[Owner] = b
        /\ \A u \in Thread : jobPc'[u] = jobPc[u]
        /\ Carrying(jobPc) \in Nat /\ Carrying(jobPc') = Carrying(jobPc)
    BY <1>2, <2>1
  <2>4. JobTypes' /\ KindsOK'
    BY <1>1, <2>1, <2>2, <2>3 DEF JobTypes, KindsOK
  <2>5. StopOK'
    BY <2>1, <2>2, <2>3 DEF StopOK
  <2>6. UnitsOK'
    BY <2>1, <2>2, <2>3, JobsNat DEF UnitsOK, JobTypes, StopUnitAt
  <2> QED
    BY <2>4, <2>5, <2>6
<1>4. CASE J!StopGive
  <2>1. PICK b \in {"wait"} : jobPc' = Placed(jobPc, Owner, b)
    BY <1>4 DEF J!StopGive, J!To, Placed
  <2>2. /\ jobPc[Owner] = "stop" /\ stop_flag' = stop_flag /\ jobUnits' = jobUnits + 1
        /\ pri' = pri /\ normal' = normal /\ ex_flag' = ex_flag /\ job' = job /\ told' = told
    BY <1>4 DEF J!StopGive
  <2>3. /\ jobPc' \in [J!Actor -> JobPlaces] /\ jobPc'[Owner] = b
        /\ \A u \in Thread : jobPc'[u] = jobPc[u]
        /\ Carrying(jobPc) \in Nat /\ Carrying(jobPc') = Carrying(jobPc)
    BY <1>2, <2>1
  <2>4. JobTypes' /\ KindsOK'
    BY <1>1, <2>1, <2>2, <2>3 DEF JobTypes, KindsOK
  <2>5. StopOK'
    BY <1>1, <2>1, <2>2, <2>3 DEF StopOK
  <2>6. UnitsOK'
    BY <2>1, <2>2, <2>3, JobsNat DEF UnitsOK, JobTypes, StopUnitAt
  <2> QED
    BY <2>4, <2>5, <2>6
<1>5. CASE J!StopWait
  <2>1. PICK b \in {"drain"} : jobPc' = Placed(jobPc, Owner, b)
    BY <1>5 DEF J!StopWait, J!To, Placed
  <2>2. /\ jobPc[Owner] = "wait" /\ (\A w \in Task : jobPc[w] = "gone") /\ stop_flag' = stop_flag /\ jobUnits' = jobUnits
        /\ pri' = pri /\ normal' = normal /\ ex_flag' = ex_flag /\ job' = job /\ told' = told
    BY <1>5 DEF J!StopWait
  <2>3. /\ jobPc' \in [J!Actor -> JobPlaces] /\ jobPc'[Owner] = b
        /\ \A u \in Thread : jobPc'[u] = jobPc[u]
    BY <1>2, <2>1
  <2>4. JobTypes' /\ KindsOK'
    BY <1>1, <2>1, <2>2, <2>3 DEF JobTypes, KindsOK
  <2>5. StopOK'
    BY <1>1, <2>1, <2>2, <2>3 DEF StopOK
  <2>6. UnitsOK'
    BY <2>1, <2>3, JobsNat DEF UnitsOK, JobTypes, StopUnitAt
  <2> QED
    BY <2>4, <2>5, <2>6
<1>6. CASE J!StopDrain
  <2>1. /\ jobPc[Owner] = "drain" /\ stop_flag' = stop_flag /\ jobUnits' = jobUnits /\ job' = job /\ told' = told
    BY <1>6 DEF J!StopDrain
  <2>2. CASE (\E j \in Job : J!Got(j)) /\ ex_flag' \in {ex_flag, TRUE} /\ UNCHANGED jobPc
    <3>1. pri' \in Seq(Job) /\ normal' \in Seq(Job)
      BY <2>2, GotOne DEF JobTypes
    <3>2. JobTypes' /\ KindsOK' /\ StopOK' /\ UnitsOK'
      BY <2>1, <2>2, <3>1 DEF JobTypes, KindsOK, StopOK, UnitsOK
    <3> QED
      BY <3>2
  <2>3. CASE J!To(Owner, "done") /\ UNCHANGED <<pri, normal, ex_flag>>
    <3>1. PICK b \in {"done"} : jobPc' = Placed(jobPc, Owner, b)
      BY <2>3 DEF J!To, Placed
    <3>2. /\ jobPc' \in [J!Actor -> JobPlaces] /\ jobPc'[Owner] = b
          /\ \A u \in Thread : jobPc'[u] = jobPc[u]
      BY <1>2, <3>1
    <3>3. JobTypes' /\ KindsOK'
      BY <1>1, <2>1, <2>3, <3>1, <3>2 DEF JobTypes, KindsOK
    <3>4. StopOK'
      BY <1>1, <2>1, <3>1, <3>2 DEF StopOK
    <3>5. UnitsOK'
      BY <3>1, <3>2, JobsNat DEF UnitsOK, JobTypes, StopUnitAt
    <3> QED
      BY <3>3, <3>4, <3>5
  <2> QED
    BY <1>6, <2>2, <2>3 DEF J!StopDrain
<1> QED
  BY <1>3, <1>4, <1>5, <1>6 DEF J!Stop

LEMMA JobStep ==
  ASSUME JobInv, J!Next
  PROVE  JobInv'
BY JobAddKeeps, JobAddGiveKeeps, WorkKeeps, StopKeeps DEF J!Next

LEMMA JobSafe == JobInv => J!TypeOK /\ J!JobsHaveUnits
<1>1. JobInv => J!TypeOK
  BY DEF JobInv, JobTypes, J!TypeOK, JobPlaces
<1>2. ASSUME JobInv PROVE J!JobsHaveUnits
  <2>1. \A c : CountAt(jobPc, c) \in Nat
    BY <1>2, ActorFinite, CountNat DEF JobInv, JobTypes
  <2>2. jobPc[Owner] \notin {"drain", "done"} =>
          jobUnits + CountAt(jobPc, "get") + CountAt(jobPc, "leave") + CountAt(jobPc, "add") + CountAt(jobPc, "add_run")
            = Len(pri) + Len(normal) + (IF jobPc[Owner] = "wait" THEN 1 ELSE 0)
    BY <1>2, <2>1 DEF JobInv, JobTypes, UnitsOK, Carrying, Jobs, StopUnitAt
  <2>3. jobPc[Owner] \notin {"drain", "done"} =>
          jobUnits + J!N("get") + J!N("leave") + J!N("add") + J!N("add_run") = J!Listed + J!StopUnit
    BY <2>2, SameOperators DEF J!N, J!Listed, J!StopUnit
  <2> QED
    BY <1>2, <2>3 DEF J!JobsHaveUnits, JobInv, StopOK
<1> QED
  BY <1>1, <1>2

-----------------------------------------------------------------------------
\* IPTickList.
\* A list without its element k, and one whose first element goes to its end.
LEMMA Removed ==
  ASSUME NEW s \in Seq(Endpoint), NEW k \in 1..Len(s), NEW q, q = T!RemoveAt(s, k)
  PROVE  /\ q \in Seq(Endpoint) /\ Len(q) = Len(s) - 1
         /\ \A i \in 1..Len(q) : q[i] = IF i < k THEN s[i] ELSE s[i + 1]
<1> DEFINE a == SubSeq(s, 1, k - 1)
           b == SubSeq(s, k + 1, Len(s))
<1>1. q = a \o b /\ Len(s) \in Nat
  BY DEF T!RemoveAt
<1>2. a \in Seq(Endpoint) /\ Len(a) = k - 1 /\ \A i \in 1..(k - 1) : a[i] = s[i]
  BY <1>1
<1>3. b \in Seq(Endpoint) /\ Len(b) = Len(s) - k /\ \A i \in 1..(Len(s) - k) : b[i] = s[k + i]
  BY <1>1
<1> HIDE DEF a, b
<1>4. /\ a \o b \in Seq(Endpoint) /\ Len(a \o b) = Len(a) + Len(b)
      /\ \A i \in 1..(Len(a) + Len(b)) : (a \o b)[i] = IF i <= Len(a) THEN a[i] ELSE b[i - Len(a)]
  BY <1>2, <1>3, ConcatProperties
<1>5. Len(q) = Len(s) - 1 /\ q \in Seq(Endpoint)
  BY <1>1, <1>2, <1>3, <1>4
<1>6. ASSUME NEW i \in 1..Len(q) PROVE q[i] = IF i < k THEN s[i] ELSE s[i + 1]
  <2>1. i \in 1..(Len(a) + Len(b)) /\ q[i] = IF i <= Len(a) THEN a[i] ELSE b[i - Len(a)]
    BY <1>1, <1>4, <1>5
  <2>2. CASE i < k
    BY <1>1, <1>2, <2>1, <2>2
  <2>3. CASE i >= k
    <3>1. i - (k - 1) \in 1..(Len(s) - k) /\ k + (i - (k - 1)) = i + 1
      BY <1>1, <1>5, <2>3
    <3> QED
      BY <1>1, <1>2, <1>3, <2>1, <2>3, <3>1
  <2> QED
    BY <1>1, <2>2, <2>3
<1> QED
  BY <1>5, <1>6

LEMMA Turned ==
  ASSUME NEW s \in Seq(Endpoint), s # << >>, NEW q, q = Append(Tail(s), Head(s))
  PROVE  /\ q \in Seq(Endpoint) /\ Len(q) = Len(s) /\ Len(s) \in Nat \ {0}
         /\ Head(s) = s[1] /\ s[1] \in Endpoint
         /\ \A i \in 1..Len(s) : q[i] = IF i < Len(s) THEN s[i + 1] ELSE s[1]
<1>1. /\ Head(s) \in Endpoint /\ Tail(s) \in Seq(Endpoint) /\ Len(Tail(s)) = Len(s) - 1
      /\ \A i \in 1..Len(Tail(s)) : Tail(s)[i] = s[i + 1]
  BY HeadTailProperties
<1>2. /\ q \in Seq(Endpoint) /\ Len(q) = Len(Tail(s)) + 1
      /\ \A i \in 1..Len(Tail(s)) : q[i] = Tail(s)[i]
      /\ q[Len(Tail(s)) + 1] = Head(s)
  BY <1>1, AppendProperties
<1>3. Len(s) \in Nat \ {0} /\ Head(s) = s[1]
  BY EmptySeq
<1>4. s[1] \in Endpoint
  BY <1>1, <1>3
<1>5. ASSUME NEW i \in 1..Len(s) PROVE q[i] = IF i < Len(s) THEN s[i + 1] ELSE s[1]
  <2>1. CASE i < Len(s)
    <3>1. i \in 1..Len(Tail(s))
      BY <1>1, <1>3, <2>1
    <3> QED
      BY <1>1, <1>2, <2>1, <3>1
  <2>2. CASE i = Len(s)
    BY <1>1, <1>2, <1>3, <2>2
  <2> QED
    BY <1>3, <2>1, <2>2
<1>6. Len(q) = Len(s) /\ q \in Seq(Endpoint)
  BY <1>1, <1>2, <1>3
<1> QED
  BY <1>3, <1>4, <1>5, <1>6

LEMMA AttachEndpointKeeps ==
  ASSUME TickInv, NEW e \in Endpoint, T!Attach(e)
  PROVE  TickInv'
<1> USE DEF TickInv
<1>1. /\ state[e] = "out" /\ state' = Placed(state, e, "in") /\ ticks' = Placed(ticks, e, 0)
      /\ guard' = guard /\ ticking' = ticking /\ stayed' = stayed /\ list' = Append(list, e)
  BY DEF T!Attach, Placed
<1> DEFINE n == Len(list)
<1>2. /\ list' \in Seq(Endpoint) /\ Len(list') = n + 1 /\ n \in Nat
      /\ list'[n + 1] = e /\ \A i \in 1..n : list'[i] = list[i]
  BY <1>1, AppendProperties DEF ListOK
<1>3. \A i \in 1..n : list[i] \in Endpoint /\ list[i] # e
  BY <1>1 DEF ListOK
<1>4. e \notin stayed
  BY <1>3 DEF ListOK
<1>5. /\ ticks' \in [Endpoint -> Nat] /\ ticks'[e] = 0 /\ \A x \in Endpoint : x # e => ticks'[x] = ticks[x]
      /\ state' \in [Endpoint -> {"out", "in", "waiting"}]
      /\ state'[e] = "in" /\ \A x \in Endpoint : x # e => state'[x] = state[x]
  BY <1>1 DEF ListOK, Placed
<1> HIDE DEF n
<1>6. \A i \in 1..(n + 1) : i \in 1..n \/ i = n + 1
  BY <1>2
<1>7. \A i, k \in 1..(n + 1) : list'[i] = list'[k] => i = k
  <2> SUFFICES ASSUME NEW i \in 1..(n + 1), NEW k \in 1..(n + 1), list'[i] = list'[k] PROVE i = k
    OBVIOUS
  <2>1. CASE i \in 1..n /\ k \in 1..n
    BY <1>2, <2>1 DEF ListOK, n
  <2>2. CASE i = n + 1 \/ k = n + 1
    BY <1>2, <1>3, <1>6, <2>2
  <2> QED
    BY <1>6, <2>1, <2>2
<1>8. \A x \in Endpoint : (\E i \in 1..n : list[i] = x) \/ x = e <=> \E i \in 1..(n + 1) : list'[i] = x
  <2> TAKE x \in Endpoint
  <2>1. ASSUME NEW i \in 1..n, list[i] = x PROVE \E k \in 1..(n + 1) : list'[k] = x
    <3>1. i \in 1..(n + 1) /\ list'[i] = x
      BY <1>2, <2>1
    <3> QED
      BY <3>1
  <2>2. n + 1 \in 1..(n + 1) /\ list'[n + 1] = e
    BY <1>2
  <2>3. ASSUME NEW i \in 1..(n + 1), list'[i] = x PROVE (\E k \in 1..n : list[k] = x) \/ x = e
    BY <1>2, <1>6, <2>3
  <2> QED
    BY <2>1, <2>2, <2>3
<1>9. ListOK'
  <2>1. \A x \in Endpoint : state'[x] = "in" <=> \E i \in 1..Len(list') : list'[i] = x
    BY <1>2, <1>5, <1>8 DEF ListOK, n
  <2>2. \A x \in stayed : x \in Endpoint /\ \E i \in 1..n : list[i] = x
    BY <1>3 DEF ListOK, n
  <2>3. \A x \in stayed' : \E i \in 1..Len(list') : list'[i] = x
    BY <1>1, <1>2, <1>8, <2>2
  <2> QED
    BY <1>2, <1>5, <1>7, <2>1, <2>3 DEF ListOK
<1>10. \A i \in 1..n : Served(ticks, stayed, list[i]) => Served(ticks', stayed', list'[i])
  BY <1>1, <1>2, <1>3, <1>5 DEF Served
<1>11. Served(ticks', stayed', list'[n + 1])
  BY <1>1, <1>2, <1>4, <1>5 DEF Served
<1>12. RoundOK'
  <2>1. CASE ~ticking
    <3>1. \A i \in 1..n : Served(ticks, stayed, list[i])
      BY <2>1 DEF RoundOK, n
    <3>2. \A i \in 1..(n + 1) : Served(ticks', stayed', list'[i])
      BY <1>6, <1>10, <1>11, <3>1
    <3> QED
      BY <1>1, <1>2, <2>1, <3>2 DEF RoundOK
  <2>2. CASE ticking /\ guard = NoEndpoint
    <3>1. \A i \in 1..n : ticks[list[i]] = 0
      BY <2>2 DEF RoundOK, n
    <3>2. \A i \in 1..(n + 1) : ticks'[list'[i]] = 0
      BY <1>2, <1>3, <1>5, <1>6, <3>1
    <3> QED
      BY <1>1, <1>2, <2>2, <3>2 DEF RoundOK
  <2>3. CASE ticking /\ guard # NoEndpoint
    <3>1. PICK g \in 1..n : GuardIsAt(g)
      BY <2>3 DEF RoundOK, n
    <3>2. g \in 1..(n + 1) /\ list'[g] = guard'
      BY <1>1, <1>2, <3>1 DEF GuardIsAt
    <3>3. \A i \in 1..(n + 1) : i < g => ticks'[list'[i]] = 0
      BY <1>2, <1>3, <1>5, <1>6, <3>1 DEF GuardIsAt, n
    <3>4. \A i \in 1..n : g <= i => Served(ticks', stayed', list'[i])
      BY <1>10, <3>1 DEF GuardIsAt, n
    <3>5. \A i \in 1..(n + 1) : g <= i => Served(ticks', stayed', list'[i])
      BY <1>6, <1>11, <3>4
    <3>6. GuardIsAt(g)'
      BY <1>2, <3>2, <3>3, <3>5 DEF GuardIsAt
    <3> QED
      BY <1>1, <1>2, <2>3, <3>2, <3>6 DEF RoundOK
  <2> QED
    BY <2>1, <2>2, <2>3
<1> QED
  BY <1>9, <1>12

LEMMA DetachEndpointKeeps ==
  ASSUME TickInv, NEW e \in Endpoint, T!Detach(e)
  PROVE  TickInv'
<1> USE DEF TickInv
<1> DEFINE n == Len(list)
           k == T!Place(e)
<1>1. state[e] = "in" /\ n \in Nat /\ list \in Seq(Endpoint) /\ \A i \in 1..n : list[i] \in Endpoint
  BY DEF ListOK, T!Detach, T!Leave
<1>2. k \in 1..n /\ list[k] = e
  <2>1. \E i \in DOMAIN list : list[i] = e
    BY <1>1 DEF ListOK
  <2>2. DOMAIN list = 1..n
    BY <1>1
  <2> QED
    BY <2>1, <2>2 DEF T!Place
<1>3. /\ state' = Placed(state, e, "waiting") /\ ticks' = ticks /\ ticking' = ticking
      /\ stayed' = stayed \ {e} /\ list' = T!RemoveAt(list, k)
  BY DEF T!Detach, T!Leave, Placed
<1>4. guard' = IF e = guard THEN IF k < n THEN list[k + 1] ELSE NoEndpoint ELSE guard
  <2>1. guard' = IF e = guard THEN IF T!After(e) # Head(list) THEN T!After(e) ELSE NoEndpoint ELSE guard
    BY DEF T!Detach, T!Leave
  <2>2. Head(list) = list[1] /\ 1 \in 1..n
    BY <1>1, <1>2
  <2>3. CASE k < n
    <3>1. k + 1 \in 1..n /\ k + 1 # 1
      BY <1>1, <1>2, <2>3
    <3>2. list[k + 1] # list[1]
      BY <2>2, <3>1 DEF ListOK
    <3>3. T!After(e) = list[k + 1]
      BY <1>1, <1>2, <2>3 DEF T!After
    <3> QED
      BY <2>1, <2>2, <2>3, <3>2, <3>3
  <2>4. CASE ~(k < n)
    BY <1>1, <1>2, <2>1, <2>4 DEF T!After
  <2> QED
    BY <2>3, <2>4
<1> DEFINE at(i) == IF i < k THEN i ELSE i + 1
<1>5. /\ list' \in Seq(Endpoint) /\ Len(list') = n - 1
      /\ \A i \in 1..(n - 1) : list'[i] = list[at(i)] /\ at(i) \in 1..n /\ at(i) # k
  <2>1. k \in 1..Len(list)
    BY <1>2
  <2>2. /\ list' \in Seq(Endpoint) /\ Len(list') = n - 1
        /\ \A i \in 1..Len(list') : list'[i] = IF i < k THEN list[i] ELSE list[i + 1]
    BY <1>1, <1>3, <2>1, Removed
  <2> HIDE DEF k
  <2> QED
    BY <1>1, <1>2, <2>2
<1> HIDE DEF n, k
<1>6. ASSUME NEW i \in 1..n, i # k PROVE \E j \in 1..(n - 1) : at(j) = i
  <2>1. CASE i < k
    BY <1>1, <1>2, <2>1
  <2>2. CASE i > k
    <3>1. i - 1 \in 1..(n - 1) /\ at(i - 1) = i
      BY <1>1, <1>2, <2>2
    <3> QED
      BY <3>1
  <2> QED
    BY <1>1, <1>2, <1>6, <2>1, <2>2
<1>7. \A i, j \in 1..(n - 1) : at(i) = at(j) => i = j
  BY <1>1, <1>2
<1>8. \A i, j \in 1..n : list[i] = list[j] => i = j
  BY DEF ListOK, n
<1>9. /\ state' \in [Endpoint -> {"out", "in", "waiting"}]
      /\ state'[e] = "waiting" /\ \A x \in Endpoint : x # e => state'[x] = state[x]
  BY <1>3 DEF ListOK, Placed
<1>10. \A i \in 1..(n - 1) : list'[i] # e /\ list'[i] \in Endpoint
  BY <1>1, <1>2, <1>5, <1>8
<1>11. ASSUME NEW x \in Endpoint, x # e
       PROVE  (\E i \in 1..n : list[i] = x) <=> \E i \in 1..(n - 1) : list'[i] = x
  <2>1. ASSUME NEW i \in 1..n, list[i] = x PROVE \E j \in 1..(n - 1) : list'[j] = x
    <3>1. i # k
      BY <1>2, <1>11, <2>1
    <3>2. PICK j \in 1..(n - 1) : at(j) = i
      BY <1>6, <3>1
    <3> QED
      BY <1>5, <2>1, <3>2
  <2>2. ASSUME NEW i \in 1..(n - 1), list'[i] = x PROVE \E j \in 1..n : list[j] = x
    BY <1>5, <2>2
  <2> QED
    BY <2>1, <2>2
<1>12. \A i, j \in 1..(n - 1) : list'[i] = list'[j] => i = j
  <2> SUFFICES ASSUME NEW i \in 1..(n - 1), NEW j \in 1..(n - 1), list'[i] = list'[j] PROVE i = j
    OBVIOUS
  <2>1. at(i) \in 1..n /\ at(j) \in 1..n /\ list[at(i)] = list[at(j)]
    BY <1>5
  <2>2. at(i) = at(j)
    BY <1>8, <2>1
  <2> QED
    BY <1>7, <2>2
<1>13. ListOK'
  <2>1. \A x \in Endpoint : state[x] = "in" <=> \E i \in 1..n : list[i] = x
    BY DEF ListOK, n
  <2>2. ~\E i \in 1..(n - 1) : list'[i] = e
    BY <1>10
  <2>3. \A x \in Endpoint : state'[x] = "in" <=> \E i \in 1..(n - 1) : list'[i] = x
    BY <1>9, <1>11, <2>1, <2>2
  <2>4. ASSUME NEW x \in stayed' PROVE \E i \in 1..(n - 1) : list'[i] = x
    <3>1. x \in stayed /\ x # e
      BY <1>3, <2>4
    <3>2. \E i \in 1..n : list[i] = x
      BY <3>1 DEF ListOK, n
    <3>3. x \in Endpoint
      BY <1>1, <3>2
    <3> QED
      BY <1>11, <3>1, <3>2, <3>3
  <2>5. ticks' \in [Endpoint -> Nat]
    BY <1>3 DEF ListOK
  <2>6. Len(list') = n - 1 /\ list' \in Seq(Endpoint)
    BY <1>5
  <2> QED
    BY <1>9, <1>12, <2>3, <2>4, <2>5, <2>6 DEF ListOK
<1>14. \A x : Served(ticks, stayed, x) => Served(ticks', stayed', x)
  BY <1>3 DEF Served
<1>15. RoundOK'
  <2>1. CASE ~ticking
    <3>1. \A i \in 1..n : Served(ticks, stayed, list[i])
      BY <2>1 DEF RoundOK, n
    <3>2. \A i \in 1..(n - 1) : Served(ticks', stayed', list'[i])
      BY <1>5, <1>14, <3>1
    <3> QED
      BY <1>3, <1>5, <2>1, <3>2 DEF RoundOK
  <2>2. CASE ticking /\ guard = NoEndpoint
    <3>1. \A i \in 1..n : ticks[list[i]] = 0
      BY <2>2 DEF RoundOK, n
    <3>2. \A i \in 1..(n - 1) : ticks'[list'[i]] = 0
      BY <1>3, <1>5, <3>1
    <3>3. guard' = NoEndpoint
      BY <1>4, <2>2, ObjectsAssumption
    <3> QED
      BY <1>3, <1>5, <2>2, <3>2, <3>3 DEF RoundOK
  <2>3. CASE ticking /\ guard # NoEndpoint
    <3>1. PICK g \in 1..n : GuardIsAt(g)
      BY <2>3 DEF RoundOK, n
    <3>2. /\ list[g] = guard
          /\ \A i \in 1..n : i < g => ticks[list[i]] = 0
          /\ \A i \in 1..n : g <= i => Served(ticks, stayed, list[i])
      BY <3>1 DEF GuardIsAt, n
    <3>3. CASE g = k /\ k = n
      <4>1. guard' = NoEndpoint
        BY <1>1, <1>2, <1>4, <3>2, <3>3
      <4>2. \A i \in 1..(n - 1) : at(i) < g
        BY <1>1, <1>2, <3>3
      <4>3. \A i \in 1..(n - 1) : ticks'[list'[i]] = 0
        BY <1>3, <1>5, <3>2, <4>2
      <4> QED
        BY <1>3, <1>5, <2>3, <4>1, <4>3 DEF RoundOK
    <3>4. CASE ~(g = k /\ k = n)
      <4>1. PICK f \in 1..(n - 1) : f = IF k < g THEN g - 1 ELSE g
        BY <1>1, <1>2, <3>4
      <4>2. /\ k # g => at(f) = g
            /\ k = g => k < n /\ at(f) = k + 1
            /\ \A i \in 1..(n - 1) : i < f => at(i) < g
            /\ \A i \in 1..(n - 1) : f <= i => g <= at(i)
        BY <1>1, <1>2, <3>4, <4>1
      <4> HIDE DEF at
      <4>3. list'[f] = guard'
        BY <1>2, <1>4, <1>5, <1>8, <3>2, <4>2
      <4>4. \A i \in 1..(n - 1) : i < f => ticks'[list'[i]] = 0
        BY <1>3, <1>5, <3>2, <4>2
      <4>5. \A i \in 1..(n - 1) : f <= i => Served(ticks', stayed', list'[i])
        BY <1>5, <1>14, <3>2, <4>2
      <4>6. GuardIsAt(f)'
        BY <1>5, <4>3, <4>4, <4>5 DEF GuardIsAt
      <4>7. guard' # NoEndpoint
        BY <1>10, <4>1, <4>3, ObjectsAssumption
      <4> QED
        BY <1>3, <1>5, <2>3, <4>1, <4>6, <4>7 DEF RoundOK
    <3> QED
      BY <3>3, <3>4
  <2> QED
    BY <2>1, <2>2, <2>3
<1> QED
  BY <1>13, <1>15

LEMMA DestroyEndpointKeeps ==
  ASSUME TickInv, NEW e \in Endpoint, T!Destroy(e)
  PROVE  TickInv'
<1> USE DEF TickInv
<1>1. /\ state[e] = "waiting" /\ state' = Placed(state, e, "out")
      /\ list' = list /\ guard' = guard /\ ticking' = ticking /\ ticks' = ticks /\ stayed' = stayed
  BY DEF T!Destroy, Placed
<1>2. /\ state' \in [Endpoint -> {"out", "in", "waiting"}]
      /\ \A x \in Endpoint : state'[x] = "in" <=> state[x] = "in"
  BY <1>1 DEF ListOK, Placed
<1>3. \A x \in Endpoint : state[x] = "in" <=> \E i \in 1..Len(list) : list[i] = x
  BY DEF ListOK
<1>4. ListOK'
  BY <1>1, <1>2, <1>3 DEF ListOK
<1>5. RoundOK'
  BY <1>1 DEF RoundOK, GuardIsAt
<1> QED
  BY <1>4, <1>5

LEMMA StartRoundKeeps ==
  ASSUME TickInv, T!Tick
  PROVE  TickInv'
<1> USE DEF TickInv
<1>1. /\ ticking' /\ guard' = NoEndpoint /\ list' = list /\ state' = state
      /\ ticks' = [e \in Endpoint |-> 0] /\ stayed' = T!ToSet(list)
  BY DEF T!Tick
<1>2. \A x \in stayed' : \E i \in 1..Len(list) : list[i] = x
  BY <1>1 DEF T!ToSet, ListOK
<1>3. ListOK'
  BY <1>1, <1>2 DEF ListOK
<1>4. \A i \in 1..Len(list) : ticks'[list[i]] = 0
  BY <1>1 DEF ListOK
<1>5. RoundOK'
  BY <1>1, <1>4 DEF RoundOK
<1> QED
  BY <1>3, <1>5

LEMMA TakeEndpointKeeps ==
  ASSUME TickInv, T!Take
  PROVE  TickInv'
<1> USE DEF TickInv
<1> DEFINE n == Len(list)
           top == list[1]
           at(i) == IF i < n THEN i + 1 ELSE 1
<1>1. /\ list \in Seq(Endpoint) /\ list # << >> /\ list' = Append(Tail(list), Head(list))
      /\ ticking /\ state' = state /\ stayed' = stayed
  BY DEF ListOK, T!Take
<1>2. /\ list' \in Seq(Endpoint) /\ Len(list') = n /\ n \in Nat \ {0}
      /\ Head(list) = top /\ top \in Endpoint
      /\ \A i \in 1..n : list'[i] = list[at(i)] /\ at(i) \in 1..n
  <2>1. /\ list' \in Seq(Endpoint) /\ Len(list') = n /\ n \in Nat \ {0}
        /\ Head(list) = top /\ top \in Endpoint
        /\ \A i \in 1..n : list'[i] = IF i < n THEN list[i + 1] ELSE list[1]
    BY <1>1, Turned
  <2> QED
    BY <2>1
<1>3. /\ top = guard => ~ticking' /\ guard' = guard /\ ticks' = ticks
      /\ top # guard => /\ ticking' /\ guard' = (IF guard = NoEndpoint THEN top ELSE guard)
                        /\ ticks' = Placed(ticks, top, ticks[top] + 1)
  <2>1. IF Head(list) = guard
          THEN ticking' = FALSE /\ guard' = guard /\ ticks' = ticks
          ELSE /\ guard' = (IF guard = NoEndpoint THEN Head(list) ELSE guard) /\ ticking' = ticking
               /\ ticks' = Placed(ticks, Head(list), ticks[Head(list)] + 1)
    BY DEF T!Take, Placed
  <2>2. Head(list) = top
    BY <1>2
  <2> HIDE DEF top
  <2>3. CASE top = guard
    <3>1. ticking' = FALSE /\ guard' = guard /\ ticks' = ticks
      BY <2>1, <2>2, <2>3
    <3> QED
      BY Zenon, <2>3, <3>1
  <2>4. CASE top # guard
    <3>1. /\ guard' = (IF guard = NoEndpoint THEN top ELSE guard) /\ ticking' = ticking
          /\ ticks' = Placed(ticks, top, ticks[top] + 1)
      BY <2>1, <2>2, <2>4
    <3>2. ticking'
      BY Zenon, <1>1, <3>1
    <3> QED
      BY Zenon, <2>4, <3>1, <3>2
  <2> QED
    BY Zenon, <2>3, <2>4
<1>4. \A i, j \in 1..n : list[i] = list[j] => i = j
  BY DEF ListOK
<1> HIDE DEF n
<1>5. \A i \in 1..n : \E j \in 1..n : at(j) = i
  <2> TAKE i \in 1..n
  <2>1. CASE i = 1
    <3>1. n \in 1..n /\ at(n) = 1
      BY <1>2
    <3> QED
      BY <2>1, <3>1
  <2>2. CASE i # 1
    <3>1. i - 1 \in 1..n /\ at(i - 1) = i
      BY <1>2, <2>2
    <3> QED
      BY <3>1
  <2> QED
    BY <2>1, <2>2
<1>6. \A i, j \in 1..n : at(i) = at(j) => i = j
  BY <1>2
<1>7. \A i \in 1..n : list[i] \in Endpoint /\ (list[i] = top <=> i = 1)
  <2>1. 1 \in 1..n
    BY <1>2
  <2>2. \A i \in 1..n : list[i] \in Endpoint
    BY <1>1, ElementOfSeq DEF n
  <2> QED
    BY <1>4, <2>1, <2>2
<1>8. \A i \in 1..n : ticks[list[i]] \in Nat
  BY <1>7 DEF ListOK
<1>9. /\ ticks' \in [Endpoint -> Nat]
      /\ top = guard => ticks' = ticks
      /\ top # guard => ticks'[top] = ticks[top] + 1 /\ \A x \in Endpoint : x # top => ticks'[x] = ticks[x]
  <2>1. ticks[top] \in Nat /\ ticks \in [Endpoint -> Nat]
    BY <1>2 DEF ListOK
  <2> QED
    BY <1>2, <1>3, <2>1 DEF Placed
<1>10. ListOK'
  <2>1. \A i, j \in 1..n : list'[i] = list'[j] => i = j
    <3> SUFFICES ASSUME NEW i \in 1..n, NEW j \in 1..n, list'[i] = list'[j] PROVE i = j
      OBVIOUS
    <3>1. at(i) \in 1..n /\ at(j) \in 1..n /\ list[at(i)] = list[at(j)]
      BY <1>2
    <3>2. at(i) = at(j)
      BY <1>4, <3>1
    <3> QED
      BY <1>6, <3>2
  <2> HIDE DEF at, top
  <2>2. \A x : (\E i \in 1..n : list[i] = x) <=> \E i \in 1..n : list'[i] = x
    <3> TAKE x
    <3>1. ASSUME NEW i \in 1..n, list[i] = x PROVE \E j \in 1..n : list'[j] = x
      <4>1. PICK j \in 1..n : at(j) = i
        BY <1>5
      <4> QED
        BY <1>2, <3>1, <4>1
    <3>2. ASSUME NEW i \in 1..n, list'[i] = x PROVE \E j \in 1..n : list[j] = x
      BY <1>2, <3>2
    <3> QED
      BY <3>1, <3>2
  <2>3. \A x \in Endpoint : state[x] = "in" <=> \E i \in 1..n : list[i] = x
    BY DEF ListOK, n
  <2>4. \A x \in stayed : \E i \in 1..n : list[i] = x
    BY DEF ListOK, n
  <2>5. \A x \in Endpoint : state'[x] = "in" <=> \E i \in 1..n : list'[i] = x
    BY <1>1, <2>2, <2>3
  <2>6. \A x \in stayed' : \E i \in 1..n : list'[i] = x
    BY <1>1, <2>2, <2>4
  <2>7. Len(list') = n /\ list' \in Seq(Endpoint) /\ state' \in [Endpoint -> {"out", "in", "waiting"}]
    BY <1>1, <1>2 DEF ListOK
  <2> QED
    BY <1>9, <2>1, <2>5, <2>6, <2>7 DEF ListOK
<1>11. guard # NoEndpoint => \E g \in 1..n : GuardIsAt(g)
  BY <1>1 DEF RoundOK, n
<1>12. RoundOK'
  <2>1. CASE top = guard
    <3>1. PICK g \in 1..n : GuardIsAt(g)
      BY <1>2, <1>11, <2>1, ObjectsAssumption
    <3>2. g = 1
      BY <1>7, <2>1, <3>1 DEF GuardIsAt
    <3>3. \A i \in 1..n : Served(ticks, stayed, list[i])
      BY <1>2, <3>1, <3>2 DEF GuardIsAt, n
    <3> HIDE DEF at, top
    <3>4. \A i \in 1..n : Served(ticks', stayed', list'[i])
      BY <1>1, <1>2, <1>3, <2>1, <3>3
    <3> QED
      BY <1>2, <1>3, <2>1, <3>4 DEF RoundOK
  <2>2. CASE top # guard /\ guard = NoEndpoint
    <3>1. \A i \in 1..n : ticks[list[i]] = 0
      BY <1>1, <2>2 DEF RoundOK, n
    <3>2. guard' = top /\ top # NoEndpoint /\ ticks'[top] = 1
      <4>1. ticks[top] = 0
        BY <1>2, <3>1
      <4> QED
        BY <1>2, <1>3, <1>9, <2>2, <4>1, ObjectsAssumption
    <3>3. n \in 1..n /\ list'[n] = top
      BY <1>2
    <3>4. ASSUME NEW i \in 1..n, i < n PROVE ticks'[list'[i]] = 0
      <4>1. list'[i] = list[i + 1] /\ i + 1 \in 1..n /\ i + 1 # 1
        BY <1>2, <3>4
      <4>2. list[i + 1] # top /\ list[i + 1] \in Endpoint
        BY <1>7, <4>1
      <4> QED
        BY <1>9, <2>2, <3>1, <4>1, <4>2
    <3>5. ASSUME NEW i \in 1..n, n <= i PROVE Served(ticks', stayed', list'[i])
      <4>1. i = n
        BY <1>2, <3>5
      <4> QED
        BY <3>2, <3>3, <4>1 DEF Served
    <3>6. PICK f \in 1..n : f = n
      BY <3>3
    <3>7. list'[f] = guard'
      BY <3>2, <3>3, <3>6
    <3>8. \A i \in 1..n : i < f => ticks'[list'[i]] = 0
      BY <3>4, <3>6
    <3>9. \A i \in 1..n : f <= i => Served(ticks', stayed', list'[i])
      BY <3>5, <3>6
    <3>10. GuardIsAt(f)'
      BY <1>2, <3>7, <3>8, <3>9 DEF GuardIsAt
    <3> QED
      BY <1>2, <1>3, <2>2, <3>2, <3>10 DEF RoundOK
  <2>3. CASE top # guard /\ guard # NoEndpoint
    <3>1. PICK g \in 1..n : GuardIsAt(g)
      BY <1>11, <2>3
    <3>2. /\ list[g] = guard
          /\ \A i \in 1..n : i < g => ticks[list[i]] = 0
          /\ \A i \in 1..n : g <= i => Served(ticks, stayed, list[i])
      BY <3>1 DEF GuardIsAt, n
    <3>3. g # 1 /\ 1 \in 1..n
      BY <1>2, <1>7, <2>3, <3>2
    <3>4. ticks'[top] = 1
      <4>1. ticks[top] = 0
        BY <1>2, <3>2, <3>3
      <4> QED
        BY <1>9, <2>3, <4>1
    <3>5. PICK f \in 1..n : f = g - 1
      BY <1>2, <3>3
    <3>6. f < n /\ f + 1 = g
      BY <1>2, <3>5
    <3>7. list'[f] = guard' /\ guard' # NoEndpoint
      BY <1>2, <1>3, <2>3, <3>2, <3>6
    <3>8. ASSUME NEW i \in 1..n, i < n
          PROVE  list'[i] = list[i + 1] /\ i + 1 \in 1..n /\ ticks'[list[i + 1]] = ticks[list[i + 1]]
      <4>1. list'[i] = list[i + 1] /\ i + 1 \in 1..n /\ i + 1 # 1
        BY <1>2, <3>8
      <4>2. list[i + 1] # top /\ list[i + 1] \in Endpoint
        BY <1>7, <4>1
      <4> QED
        BY <1>9, <2>3, <4>1, <4>2
    <3>9. ASSUME NEW i \in 1..n, i < f PROVE ticks'[list'[i]] = 0
      <4>1. i < n /\ i + 1 < g
        BY <1>2, <3>6, <3>9
      <4> QED
        BY <3>2, <3>8, <4>1
    <3>10. ASSUME NEW i \in 1..n, f <= i PROVE Served(ticks', stayed', list'[i])
      <4>1. CASE i < n
        <5>1. g <= i + 1
          BY <1>2, <3>6, <3>10
        <5>2. list'[i] = list[i + 1] /\ i + 1 \in 1..n /\ ticks'[list[i + 1]] = ticks[list[i + 1]]
          BY <3>8, <4>1
        <5>3. Served(ticks, stayed, list[i + 1])
          BY <3>2, <5>1, <5>2
        <5> QED
          BY <1>1, <5>2, <5>3 DEF Served
      <4>2. CASE i = n
        <5>1. list'[i] = top
          BY <1>2, <4>2
        <5> QED
          BY <3>4, <5>1 DEF Served
      <4> QED
        BY <1>2, <4>1, <4>2
    <3>11. GuardIsAt(f)'
      BY <1>2, <3>7, <3>9, <3>10 DEF GuardIsAt
    <3> QED
      BY <1>2, <1>3, <2>3, <3>7, <3>11 DEF RoundOK
  <2> QED
    BY <2>1, <2>2, <2>3
<1> QED
  BY <1>10, <1>12

LEMMA OtherTicksKeep ==
  ASSUME TickInv, T!TakeNobody \/ T!Return
  PROVE  TickInv'
<1> USE DEF TickInv
<1>1. list' = list /\ state' = state /\ ticks' = ticks /\ stayed' = stayed /\ guard' = guard
  BY DEF T!TakeNobody, T!Return
<1>2. ListOK'
  BY <1>1 DEF ListOK
<1>3. CASE T!TakeNobody
  <2>1. ~ticking' /\ Len(list') = 0
    BY <1>3 DEF T!TakeNobody
  <2>2. RoundOK'
    BY <2>1 DEF RoundOK
  <2> QED
    BY <1>2, <2>2
<1>4. CASE T!Return
  <2>1. ticking' = ticking
    BY <1>4 DEF T!Return
  <2>2. RoundOK'
    BY <1>1, <2>1 DEF RoundOK, GuardIsAt
  <2> QED
    BY <1>2, <2>2
<1> QED
  BY <1>3, <1>4

LEMMA TickStep ==
  ASSUME TickInv, T!Next
  PROVE  TickInv'
BY AttachEndpointKeeps, DetachEndpointKeeps, DestroyEndpointKeeps, StartRoundKeeps, TakeEndpointKeeps, OtherTicksKeep
   DEF T!Next, T!DeviceRuns

LEMMA TickSafe == TickInv => T!CalledOnce
<1> SUFFICES ASSUME TickInv PROVE T!CalledOnce
  OBVIOUS
<1> USE DEF TickInv
<1>1. ASSUME NEW e \in T!ToSet(list) PROVE \E i \in 1..Len(list) : list[i] = e
  BY <1>1 DEF T!ToSet, ListOK
<1>2. ASSUME NEW i \in 1..Len(list) PROVE ticks[list[i]] <= 1
  <2>1. CASE ~ticking
    BY <2>1 DEF RoundOK, Served
  <2>2. CASE ticking /\ guard = NoEndpoint
    BY <2>2 DEF RoundOK
  <2>3. CASE ticking /\ guard # NoEndpoint
    <3>1. PICK g \in 1..Len(list) : GuardIsAt(g)
      BY <2>3 DEF RoundOK
    <3>2. i < g \/ g <= i
      BY DEF ListOK
    <3> QED
      BY <3>1, <3>2 DEF GuardIsAt, Served
  <2> QED
    BY <2>1, <2>2, <2>3
<1>3. \A e \in T!ToSet(list) : ticks[e] <= 1
  BY <1>1, <1>2
<1>4. ASSUME ~ticking, NEW e \in stayed PROVE ticks[e] = 1
  <2>1. PICK i \in 1..Len(list) : list[i] = e
    BY DEF ListOK
  <2> QED
    BY <1>4, <2>1 DEF RoundOK, Served
<1> QED
  BY <1>3, <1>4 DEF T!CalledOnce

-----------------------------------------------------------------------------
\* What the invariants of the components say.
LEMMA SemSafe == SemInv => S!Inv
<1> SUFFICES ASSUME SemInv PROVE S!Inv
  OBVIOUS
<1>1. S!TypeOK
  BY DEF SemInv, S!TypeOK, Places4, Sleeping
<1>2. S!TokensMatch
  BY SameOperators DEF SemInv, S!TokensMatch, S!Sleepers, S!Pending, S!N, Waiting
<1>3. S!NoIdleUnits
  BY DEF SemInv, S!NoIdleUnits
<1> QED
  BY <1>1, <1>2, <1>3 DEF S!Inv

LEMMA EventSafe == EventInv => E!Inv
<1> SUFFICES ASSUME EventInv PROVE E!Inv
  OBVIOUS
<1>1. E!TypeOK
  BY DEF EventInv, E!TypeOK, Places4, Sleeping
<1>2. E!TokensMatch
  BY SameOperators DEF EventInv, E!TokensMatch, E!Sleepers, E!N, Waiting, Giving
<1>3. E!NoIdleFlag
  BY DEF EventInv, E!NoIdleFlag
<1> QED
  BY <1>1, <1>2, <1>3 DEF E!Inv

LEMMA MultiSafe == MultiInv => M!Inv
<1> SUFFICES ASSUME MultiInv PROVE M!Inv
  OBVIOUS
<1>1. /\ counts \in [Index1 -> Nat] /\ base \in Index1 /\ units \in Nat /\ MaxIndexUnits \in Nat
      /\ multiPc \in [Task -> Places3] /\ SumOf(counts) = units + Between(multiPc)
      /\ SumOf(counts) <= MaxIndexUnits
  BY ObjectsAssumption DEF MultiInv
<1>2. \A l : CountAt(multiPc, l) \in Nat
  BY <1>1, Finite, CountNat
<1>3. units <= MaxIndexUnits
  BY <1>1, <1>2 DEF Between
<1>4. ASSUME NEW i \in Index1 PROVE counts[i] \in 0..MaxIndexUnits
  <2>1. PICK h : h = Placed(counts, i, 0)
    OBVIOUS
  <2>2. SumOf(h) \in Nat /\ SumOf(counts) \in Nat /\ SumOf(h) + counts[i] = SumOf(counts) + 0
    BY <1>1, <2>1, IndexesFinite, SumChange
  <2>3. counts[i] \in Nat
    BY <1>1
  <2> QED
    BY <1>1, <2>2, <2>3
<1>5. M!Index = Index1
  BY DEF M!Index, Index1
<1>6. M!TypeOK
  BY <1>1, <1>3, <1>4, <1>5 DEF M!TypeOK, Places3
<1>7. M!UnitsMatch
  <2>1. SumOf(counts) = units + CountAt(multiPc, "give") + CountAt(multiPc, "get")
    BY <1>1, <1>2 DEF Between
  <2> QED
    BY <2>1, SameOperators DEF M!UnitsMatch, M!Total, M!N
<1>8. M!GetIndexEnds
  <2>1. CountAt(multiPc, "get") > 0 => SumOf(counts) > 0
    BY <1>1, <1>2 DEF Between
  <2> QED
    BY <2>1, SameOperators DEF M!GetIndexEnds, M!Total, M!N
<1> QED
  BY <1>6, <1>7, <1>8 DEF M!Inv

LEMMA FlagsSafe == FlagsInv => V!Inv
<1> SUFFICES ASSUME FlagsInv PROVE V!Inv
  OBVIOUS
<1>1. /\ flags \subseteq Index1 /\ eventBase \in Index1 /\ eventUnits \in Nat
      /\ multiEventPc \in [Task -> Places3] /\ Cardinality(flags) = eventUnits + Between(multiEventPc)
  BY DEF FlagsInv
<1>2. \A l : CountAt(multiEventPc, l) \in Nat
  BY <1>1, Finite, CountNat
<1>3. Cardinality(flags) = eventUnits + CountAt(multiEventPc, "give") + CountAt(multiEventPc, "get")
  BY <1>1, <1>2 DEF Between
<1>4. Cardinality(flags) \in Nat /\ Cardinality(flags) <= Indexes
  <2>1. Cardinality(Index1) = Indexes
    <3>1. 1 \in Int /\ Indexes \in Int /\ 1 <= Indexes
      BY ObjectsAssumption
    <3>2. Cardinality(1..Indexes) = Indexes - 1 + 1
      BY <3>1, FS_Interval
    <3> QED
      BY <3>1, <3>2 DEF Index1
  <2>2. Cardinality(flags) <= Cardinality(Index1) /\ IsFiniteSet(flags)
    BY <1>1, IndexesFinite, FS_Subset
  <2> QED
    BY <2>1, <2>2, FS_CardinalityType
<1>5. eventUnits \in 0..Indexes
  BY <1>1, <1>2, <1>3, <1>4, ObjectsAssumption
<1>6. V!Index = Index1
  BY DEF V!Index, Index1
<1>7. V!TypeOK
  BY <1>1, <1>5, <1>6 DEF V!TypeOK, Places3
<1>8. V!Cardinality(flags) = eventUnits + V!N("give") + V!N("get")
  BY <1>3, SameOperators DEF V!N
<1> QED
  BY <1>7, <1>8 DEF V!Inv

-----------------------------------------------------------------------------
\* All of them at the start.
LEMMA SumStart ==
  ASSUME NEW D, IsFiniteSet(D)
  PROVE  SumOf([i \in D |-> 0]) = 0
<1>1. [i \in D |-> 0] \in [D -> Nat] /\ \A i \in D : [j \in D |-> 0][i] = 0
  OBVIOUS
<1> QED
  BY <1>1, SumNone

LEMMA SemInit == S!Init => SemInv
<1> SUFFICES ASSUME S!Init PROVE SemInv
  OBVIOUS
<1>1. semCount \in 0..MaxUnits /\ semTakers = 0 /\ semSem = 0
  BY ObjectsAssumption DEF S!Init
<1>2. SumOf(semGives) = 0
  BY Finite, SumStart DEF S!Init
<1>3. Waiting("take", semPc) = 0
  <2>1. \A l : l # "outside" => CountAt(semPc, l) = 0
    BY Finite, CountInit DEF S!Init
  <2> QED
    BY <2>1 DEF Waiting
<1>4. semGives \in [Thread -> 0..MaxGive] /\ semPc \in [Thread -> Places4("take")]
  BY ObjectsAssumption DEF S!Init, Places4
<1>5. \A t \in Thread : semGives[t] = 0
  BY DEF S!Init
<1> QED
  BY <1>1, <1>2, <1>3, <1>4, <1>5 DEF SemInv

LEMMA EventInit == E!Init => EventInv
<1> SUFFICES ASSUME E!Init PROVE EventInv
  OBVIOUS
<1>1. flag \in BOOLEAN /\ eventWaiters = 0 /\ eventSem = 0
  BY ObjectsAssumption DEF E!Init
<1>2. \A l : l # "outside" => CountAt(eventPc, l) = 0
  BY Finite, CountInit DEF E!Init
<1>3. Waiting("wait", eventPc) = 0 /\ Giving(eventPc) = 0
  BY <1>2 DEF Waiting, Giving
<1>4. eventPc \in [Thread -> Places4("wait")]
  BY DEF E!Init, Places4
<1> QED
  BY <1>1, <1>3, <1>4 DEF EventInv

LEMMA BetweenStart ==
  ASSUME NEW p, p = [t \in Task |-> "outside"]
  PROVE  p \in [Task -> Places3] /\ Between(p) = 0
<1>1. \A l : l # "outside" => CountAt(p, l) = 0
  BY Finite, CountInit
<1> QED
  BY <1>1 DEF Between, Places3

LEMMA MultiInit == M!Init => MultiInv
<1> SUFFICES ASSUME M!Init PROVE MultiInv
  OBVIOUS
<1>1. multiPc \in [Task -> Places3] /\ Between(multiPc) = 0
  BY BetweenStart DEF M!Init
<1>2. counts = [i \in Index1 |-> 0] /\ base = 1 /\ units = 0
  BY DEF M!Init, M!Index, Index1
<1>3. SumOf(counts) = 0 /\ counts \in [Index1 -> Nat]
  BY <1>2, IndexesFinite, SumStart
<1>4. base \in Index1 /\ MaxIndexUnits \in Nat
  BY <1>2, ObjectsAssumption DEF Index1
<1> QED
  BY <1>1, <1>2, <1>3, <1>4 DEF MultiInv

LEMMA FlagsInit == V!Init => FlagsInv
<1> SUFFICES ASSUME V!Init PROVE FlagsInv
  OBVIOUS
<1>1. multiEventPc \in [Task -> Places3] /\ Between(multiEventPc) = 0
  BY BetweenStart DEF V!Init
<1>2. flags = {} /\ eventBase \in Index1 /\ eventUnits = 0
  BY ObjectsAssumption DEF V!Init, Index1
<1>3. Cardinality(flags) = 0
  BY <1>2, FS_EmptySet
<1> QED
  BY <1>1, <1>2, <1>3 DEF FlagsInv

LEMMA HostInit == Init => HostInv
<1> SUFFICES ASSUME Init PROVE HostInv
  OBVIOUS
<1>1. /\ obj = NoObject /\ enable = FALSE /\ stage = [o \in Object |-> "out"]
      /\ hooks = [t \in Task |-> << >>] /\ count = 0 /\ wait_count = 0 /\ sem = 0
      /\ gives = [t \in Task |-> 0] /\ held = [t \in Task |-> 0] /\ pc = [o \in Object |-> "outside"]
  BY DEF Init, Asem!Init
<1>2. SumOf(held) = 0 /\ SumOf(gives) = 0
  BY <1>1, Finite, SumStart
<1>3. Waits(pc) = 0
  <2>1. \A l : l # "outside" => CountAt(pc, l) = 0
    BY <1>1, Finite, CountInit
  <2> QED
    BY <2>1 DEF Waits
<1>4. HooksOK
  BY <1>1, <1>2, HostAssumption DEF HooksOK, HooksAreAlive
<1>5. TokensOK
  BY <1>1, <1>2, <1>3 DEF TokensOK, Places2
<1>6. StagesOK
  BY <1>1 DEF StagesOK, StageOK
<1> QED
  BY <1>4, <1>5, <1>6 DEF HostInv

LEMMA JobInit == J!Init => JobInv
<1> SUFFICES ASSUME J!Init PROVE JobInv
  OBVIOUS
<1>1. /\ pri = << >> /\ normal = << >> /\ jobUnits = 0 /\ stop_flag = FALSE /\ ex_flag = FALSE
      /\ job = [w \in Task |-> << >>] /\ told = [w \in Task |-> FALSE]
      /\ jobPc = [t \in J!Actor |-> IF t \in Task THEN "take" ELSE "free"]
  BY DEF J!Init, J!NoJob
<1>2. /\ jobPc \in [J!Actor -> JobPlaces] /\ jobPc[Owner] = "free"
      /\ \A t \in J!Actor : jobPc[t] \in {"take", "free"}
      /\ \A t \in Task : jobPc[t] = "take"
      /\ \A c \in Thread \ Task : jobPc[c] = "free"
  BY <1>1, ActorFinite, ObjectsAssumption DEF JobPlaces
<1>3. \A l : l \notin {"take", "free"} => CountAt(jobPc, l) = 0
  <2> SUFFICES ASSUME NEW l, l \notin {"take", "free"} PROVE CountAt(jobPc, l) = 0
    OBVIOUS
  <2>1. TasksAt(jobPc, l) = {}
    BY <1>2 DEF TasksAt, JobPlaces
  <2> QED
    BY <2>1, FS_EmptySet DEF CountAt
<1>4. Carrying(jobPc) = 0
  BY <1>3 DEF Carrying
<1>5. JobTypes
  <2>1. pri \in Seq(Job) /\ normal \in Seq(Job) /\ jobUnits \in Nat
    BY <1>1
  <2>2. job \in [Task -> Seq(Job)]
    BY <1>1
  <2>3. stop_flag \in BOOLEAN /\ ex_flag \in BOOLEAN /\ told \in [Task -> BOOLEAN]
    BY <1>1
  <2> QED
    BY <1>2, <2>1, <2>2, <2>3 DEF JobTypes
<1>6. KindsOK
  BY <1>2 DEF KindsOK
<1>7. StopOK
  BY <1>1, <1>2 DEF StopOK
<1>8. UnitsOK
  <2>1. Jobs(pri, normal) = 0 /\ StopUnitAt(jobPc[Owner]) = 0
    BY <1>1, <1>2 DEF Jobs, StopUnitAt
  <2> QED
    BY <1>1, <1>4, <2>1 DEF UnitsOK
<1> QED
  BY <1>5, <1>6, <1>7, <1>8 DEF JobInv

LEMMA TickInit == T!Init => TickInv
<1> SUFFICES ASSUME T!Init PROVE TickInv
  OBVIOUS
<1>1. /\ list = << >> /\ Len(list) = 0 /\ ticking = FALSE /\ stayed = {}
      /\ ticks = [e \in Endpoint |-> 0] /\ state = [e \in Endpoint |-> "out"]
  BY DEF T!Init
<1>2. ListOK
  BY <1>1 DEF ListOK
<1>3. RoundOK
  BY <1>1 DEF RoundOK
<1> QED
  BY <1>2, <1>3 DEF TickInv

LEMMA IInvInit == MCInit => IInv
BY SemInit, EventInit, MultiInit, FlagsInit, HostInit, JobInit, TickInit DEF MCInit, IInv

-----------------------------------------------------------------------------
\* A component that takes no step keeps its invariant.
LEMMA SemIdle == SemInv /\ UNCHANGED semVars => SemInv' /\ SemUnits' = SemUnits
BY DEF SemInv, SemUnits, semVars

LEMMA EventIdle == EventInv /\ UNCHANGED eventVars => EventInv' /\ EventUnitsOf' = EventUnitsOf
BY DEF EventInv, EventUnitsOf, FlagUnit, eventVars

LEMMA MultiIdle == MultiInv /\ UNCHANGED unitVars => MultiInv'
BY DEF MultiInv, unitVars

LEMMA FlagsIdle == FlagsInv /\ UNCHANGED flagVars => FlagsInv'
BY DEF FlagsInv, flagVars

LEMMA HostIdle == HostInv /\ UNCHANGED vars => HostInv'
BY DEF HostInv, HooksOK, HooksAreAlive, TokensOK, StagesOK, StageOK, vars, asemVars

LEMMA JobIdle == JobInv /\ UNCHANGED jobVars => JobInv'
BY DEF JobInv, JobTypes, KindsOK, StopOK, UnitsOK, jobVars

LEMMA TickIdle == TickInv /\ UNCHANGED tickVars => TickInv'
BY DEF TickInv, ListOK, RoundOK, GuardIsAt, Served, tickVars

\* What a step of the whole is: one of one component's, or nothing.
LEMMA OneSteps ==
  ASSUME [MCNext]_allVars
  PROVE  /\ S!Next \/ UNCHANGED semVars
         /\ E!Next \/ UNCHANGED eventVars
         /\ M!Next \/ UNCHANGED unitVars
         /\ V!Next \/ UNCHANGED flagVars
         /\ Next \/ UNCHANGED vars
         /\ J!Next \/ UNCHANGED jobVars
         /\ T!Next \/ UNCHANGED tickVars
BY Zenon DEF MCNext, allVars, LockNext, SemNext, EventNext, MultiNext, FlagsNext, HostNext, JobNext, TickNext, Only, multiVars

LEMMA IInvStep == IInv /\ [MCNext]_allVars => IInv'
<1> SUFFICES ASSUME IInv, [MCNext]_allVars PROVE IInv'
  OBVIOUS
<1> USE OneSteps DEF IInv
<1>1. SemInv'
  BY SemStep, SemIdle
<1>2. EventInv'
  BY EventStep, EventIdle
<1>3. MultiInv'
  BY MultiStep, MultiIdle
<1>4. FlagsInv'
  BY FlagsStep, FlagsIdle
<1>5. HostInv'
  BY HostStep, HostIdle
<1>6. JobInv'
  BY JobStep, JobIdle
<1>7. TickInv'
  BY TickStep, TickIdle
<1> QED
  BY <1>1, <1>2, <1>3, <1>4, <1>5, <1>6, <1>7

LEMMA IInvAlways == MCSpec => []IInv
BY IInvInit, IInvStep, PTL DEF MCSpec

-----------------------------------------------------------------------------
\* In Sem, Event, MultiSem and MultiEvent no unit, event, token or index is lost or
\* left over, whoever times out meanwhile, and getIndex() finds an index.
THEOREM ObjectsKeepTheirUnits == MCSpec => []NothingLost
<1>1. IInv => NothingLost
  BY SemSafe, EventSafe, MultiSafe, FlagsSafe DEF IInv, NothingLost
<1> QED
  BY <1>1, IInvAlways, PTL

\* detach() of an AttachmentHost returns when no hook of the object is left, and
\* not before, for any number of hooks, tasks and objects.
THEOREM ObjectsOutliveHooks == MCSpec => []DetachWaits
<1>1. IInv => DetachWaits
  BY HostSafe DEF IInv
<1> QED
  BY <1>1, IInvAlways, PTL

\* Each job in a JobMachine has its unit until all workers are gone, and a round of
\* an IPTickList calls each endpoint that stays in it once, and none twice.
THEOREM ListsServed == MCSpec => []ListsAreServed
<1>1. IInv => ListsAreServed
  BY JobSafe, TickSafe DEF IInv, ListsAreServed
<1> QED
  BY <1>1, IInvAlways, PTL

\* Sem and Event give out what they were given, and no more: each implements the
\* counting semaphore of CountSpec.
THEOREM SemaphoresImplemented == MCSpec => CountSpecOK
<1>1. MCInit => S!Abstract!Init /\ E!Abstract!Init
  <2> SUFFICES ASSUME MCInit PROVE S!Abstract!Init /\ E!Abstract!Init
    OBVIOUS
  <2>1. semSem = 0 /\ SumOf(semGives) = 0 /\ semCount = InitCount
    BY Finite, SumStart DEF MCInit, S!Init
  <2>2. eventSem = 0 /\ CountAt(eventPc, "give") = 0 /\ flag = InitFlag
    BY Finite, CountInit DEF MCInit, E!Init
  <2>3. S!Abstract!Init
    BY <2>1, SameOperators, ObjectsAssumption DEF S!Abstract!Init, S!Pending
  <2>4. E!Abstract!Init
    BY <2>2, SameOperators, ObjectsAssumption DEF E!Abstract!Init, E!N
  <2> QED
    BY <2>3, <2>4
<1>2. /\ S!Pending = SumOf(semGives) /\ E!N("give") = Giving(eventPc)
      /\ S!Pending' = SumOf(semGives)' /\ E!N("give")' = Giving(eventPc)'
  BY SameOperators DEF S!Pending, E!N, Giving
<1>3. IInv /\ [MCNext]_allVars => [S!Abstract!Take \/ S!Abstract!Give]_(semCount + semSem + S!Pending)
  <2> SUFFICES ASSUME IInv, [MCNext]_allVars
               PROVE  [S!Abstract!Take \/ S!Abstract!Give]_(semCount + semSem + S!Pending)
    OBVIOUS
  <2>1. \/ SemUnits' = SemUnits
        \/ SemUnits > 0 /\ SemUnits' = SemUnits - 1
        \/ \E n \in 1..MaxGive : SemUnits' = SemUnits + n
    BY OneSteps, SemStep, SemIdle DEF IInv
  <2> QED
    BY <1>2, <2>1 DEF SemUnits, S!Abstract!Take, S!Abstract!Give
<1>4. IInv /\ [MCNext]_allVars => [E!Abstract!Take \/ E!Abstract!Give]_((IF flag THEN 1 ELSE 0) + eventSem + E!N("give"))
  <2> SUFFICES ASSUME IInv, [MCNext]_allVars
               PROVE  [E!Abstract!Take \/ E!Abstract!Give]_((IF flag THEN 1 ELSE 0) + eventSem + E!N("give"))
    OBVIOUS
  <2>1. \/ EventUnitsOf' = EventUnitsOf
        \/ EventUnitsOf > 0 /\ EventUnitsOf' = EventUnitsOf - 1
        \/ EventUnitsOf' = EventUnitsOf + 1
    BY OneSteps, EventStep, EventIdle DEF IInv
  <2> QED
    BY <1>2, <2>1 DEF EventUnitsOf, FlagUnit, E!Abstract!Take, E!Abstract!Give
<1> QED
  BY <1>1, <1>3, <1>4, IInvAlways, PTL
     DEF MCSpec, CountSpecOK, S!CountSpecOK, E!CountSpecOK, S!Abstract!Spec, E!Abstract!Spec

-----------------------------------------------------------------------------
\* FastMutex and Mutex, of the same tasks.
VARIABLE at  \* where the tasks are, of FastMutex

FM == INSTANCE FastMutex WITH sem <- lockSem, pc <- at

\* FastMutex by itself: its counter and semaphore, and where its tasks are.
FastIInv == FM!TypeOK /\ FM!EntryCounts /\ FM!OneBaton

\* It counts the tasks of FastMutex as TaskCount does.
LEMMA FastCounts ==
  \A label : FM!N(label) = CountAt(at, label) /\ FM!N(label)' = CountAt(at', label)
<1>1. ASSUME NEW label PROVE FM!N(label) = CountAt(at, label)
  <2>1. FM!TasksAt(at, label) = TasksAt(at, label)
    BY DEF FM!TasksAt, TasksAt
  <2> QED
    BY <2>1 DEF FM!N, FM!CountAt, CountAt, FM!Cardinality, Cardinality, FM!IsFiniteSet, IsFiniteSet
<1>2. ASSUME NEW label PROVE FM!N(label)' = CountAt(at', label)
  <2>1. FM!TasksAt(at, label)' = TasksAt(at', label)
    BY DEF FM!TasksAt, TasksAt
  <2> QED
    BY <2>1 DEF FM!N, FM!CountAt, CountAt, FM!Cardinality, Cardinality, FM!IsFiniteSet, IsFiniteSet
<1> QED
  BY <1>1, <1>2

\* The inductive invariant is the one of TaskCount_proofs.
LEMMA FastIInvIsBaton == FastIInv <=> Baton(Thread, entry, lockSem, at)
BY FastCounts DEF FastIInv, FM!TypeOK, FM!EntryCounts, FM!OneBaton, Baton, Places

\* It holds at the start ...
LEMMA FastIInvInit == FM!Init => FastIInv
<1> SUFFICES ASSUME FM!Init PROVE Baton(Thread, entry, lockSem, at)
  BY FastIInvIsBaton
<1>1. Baton(Thread, 0, 0, [t \in Thread |-> "outside"])
  BY Finite, LockSizes, BatonInit
<1> QED
  BY <1>1 DEF FM!Init

\* ... and every step of lock() and unlock() keeps it.
LEMMA FastIInvStep == FastIInv /\ [FM!Next]_FM!vars => FastIInv'
<1> SUFFICES ASSUME FastIInv, [FM!Next]_FM!vars PROVE Baton(Thread, entry', lockSem', at')
  BY FastCounts DEF FastIInv, FM!TypeOK, FM!EntryCounts, FM!OneBaton, Baton, Places
<1>1. Baton(Thread, entry, lockSem, at) /\ IsFiniteSet(Thread) /\ DOMAIN at = Thread
  BY FastIInvIsBaton, Finite, LockSizes DEF FastIInv, FM!TypeOK
<1>2. ASSUME NEW t \in Thread, FM!Step(t)
      PROVE  \/ Enters(t, entry, lockSem, at, entry', lockSem', at')
             \/ Wakes(t, entry, lockSem, at, entry', lockSem', at')
             \/ Exits(t, entry, lockSem, at, entry', lockSem', at')
             \/ Gives(t, entry, lockSem, at, entry', lockSem', at')
  <2>1. CASE FM!LockEntry(t)
    BY <1>1, <2>1 DEF FM!LockEntry, Enters, Moves
  <2>2. CASE FM!LockTake(t)
    BY <1>1, <2>2 DEF FM!LockTake, Wakes, Moves
  <2>3. CASE FM!UnlockEntry(t)
    BY <1>1, <2>3 DEF FM!UnlockEntry, Exits, Moves
  <2>4. CASE FM!UnlockGive(t)
    BY <1>1, <2>4 DEF FM!UnlockGive, Gives, Moves
  <2> QED
    BY <1>2, <2>1, <2>2, <2>3, <2>4 DEF FM!Step
<1>3. ASSUME NEW t \in Thread, FM!Step(t) PROVE Baton(Thread, entry', lockSem', at')
  BY <1>1, <1>2, <1>3, BatonStep
<1>4. CASE UNCHANGED FM!vars
  BY <1>1, <1>4 DEF FM!vars
<1> QED
  BY <1>3, <1>4 DEF FM!Next

\* The inductive invariant excludes two tasks inside.
LEMMA FastIInvExcludes == FastIInv => FM!MutualExclusion
BY FastIInvIsBaton, Finite, LockSizes, BatonExcludes DEF FM!MutualExclusion

\* The right to enter a FastMutex is neither lost nor doubled.
THEOREM FastBatonKept == FM!Spec => [](FM!TypeOK /\ FM!EntryCounts /\ FM!OneBaton)
<1> QED
  BY FastIInvInit, FastIInvStep, PTL DEF FM!Spec, FastIInv

\* Two tasks are never inside a FastMutex.
THEOREM FastExclusive == FM!Spec => []FM!MutualExclusion
<1> QED
  BY FastIInvInit, FastIInvStep, FastIInvExcludes, PTL DEF FM!Spec

\* FastMutex implements LockSpec: lock() acquires where it sets the task
\* inside, unlock() releases where it decrements entry, and the rest stutters.
THEOREM FastImplementsLock == FM!Spec => FM!LockSpecOK
<1> USE DEF FM!owner, FM!Lock!vars
<1>1. FM!Init => FM!Lock!Init
  BY DEF FM!Init, FM!Lock!Init
<1>2. FM!MutualExclusion /\ FM!MutualExclusion' /\ FM!TypeOK /\ [FM!Next]_FM!vars => [FM!Lock!Next]_FM!Lock!vars
  <2> SUFFICES ASSUME FM!MutualExclusion, FM!MutualExclusion', FM!TypeOK, [FM!Next]_FM!vars
               PROVE  [FM!Lock!Next]_FM!Lock!vars
    OBVIOUS
  <2>1. ASSUME NEW t \in Thread, at[t] = "inside" PROVE FM!owner = t
    BY <2>1 DEF FM!MutualExclusion
  <2>2. ASSUME NEW t \in Thread, at'[t] = "inside" PROVE FM!owner' = t
    BY <2>2 DEF FM!MutualExclusion
  <2>3. ASSUME \A t \in Thread : at[t] # "inside" PROVE FM!owner = NoThread
    BY <2>3
  <2>4. ASSUME \A t \in Thread : at'[t] # "inside" PROVE FM!owner' = NoThread
    BY <2>4
  <2>5. at \in [Thread -> Places]
    BY DEF FM!TypeOK, Places
  <2> HIDE DEF FM!owner
  <2>6. ASSUME NEW t \in Thread, FM!LockEntry(t) \/ FM!LockTake(t), at'[t] = "inside"
        PROVE  FM!Lock!Acquire(t)
    <3>1. \A u \in Thread : at[u] # "inside"
      BY <2>5, <2>6 DEF FM!LockEntry, FM!LockTake, FM!MutualExclusion
    <3> QED
      BY <2>2, <2>3, <2>6, <3>1, Finite, LockSizes DEF FM!Lock!Acquire
  <2>7. ASSUME NEW t \in Thread, FM!UnlockEntry(t) PROVE FM!Lock!Release(t)
    <3>1. \A u \in Thread : at'[u] # "inside"
      BY <2>5, <2>7 DEF FM!UnlockEntry, FM!MutualExclusion
    <3>2. at[t] = "inside"
      BY <2>7 DEF FM!UnlockEntry
    <3> QED
      BY <2>1, <2>4, <3>1, <3>2, Finite, LockSizes DEF FM!Lock!Release
  <2>8. ASSUME \A t \in Thread : at[t] = "inside" <=> at'[t] = "inside"
        PROVE  FM!owner' = FM!owner
    <3>1. CASE \E t \in Thread : at[t] = "inside"
      BY <2>1, <2>2, <2>8, <3>1
    <3>2. CASE ~ \E t \in Thread : at[t] = "inside"
      BY <2>3, <2>4, <2>8, <3>2
    <3> QED
      BY <3>1, <3>2
  <2>9. ASSUME NEW t \in Thread, FM!Step(t), ~ FM!UnlockEntry(t), at'[t] # "inside"
        PROVE  FM!owner' = FM!owner
    BY <2>5, <2>8, <2>9 DEF FM!Step, FM!LockEntry, FM!LockTake, FM!UnlockGive
  <2>10. UNCHANGED FM!vars => FM!owner' = FM!owner
    BY <2>8 DEF FM!vars
  <2>11. ASSUME NEW t \in Thread, FM!Step(t) PROVE [FM!Lock!Next]_FM!Lock!vars
    <3>1. CASE FM!UnlockEntry(t)
      BY <2>7, <3>1 DEF FM!Lock!Next
    <3>2. CASE at'[t] = "inside"
      <4>1. FM!LockEntry(t) \/ FM!LockTake(t)
        BY <2>5, <2>11, <3>2 DEF FM!Step, FM!UnlockEntry, FM!UnlockGive
      <4> QED
        BY <2>6, <3>2, <4>1 DEF FM!Lock!Next
    <3>3. CASE ~ FM!UnlockEntry(t) /\ at'[t] # "inside"
      BY <2>9, <2>11, <3>3
    <3> QED
      BY <3>1, <3>2, <3>3
  <2> QED
    BY <2>10, <2>11 DEF FM!Next
<1> QED
  BY <1>1, <1>2, FastIInvInit, FastIInvStep, FastIInvExcludes, PTL DEF FM!Spec, FM!LockSpecOK, FM!Lock!Spec, FastIInv

-----------------------------------------------------------------------------
\* Mutex

\* The right to enter, where FastMutex sees it, and task_id and reentry in the
\* hands of the task inside: neither is inductive without the other.
MutexInv == /\ MX!TypeOK
            /\ Baton(Thread, entry, lockSem, MX!place)
            /\ MX!OwnerIsInside
            /\ MX!ReentryIsOwners

LEMMA MutexInvInit == MX!Init => MutexInv
<1> SUFFICES ASSUME MX!Init PROVE MutexInv
  OBVIOUS
<1>1. MX!place = [t \in Thread |-> "outside"]
  BY DEF MX!Init, MX!place, MX!Inside
<1>2. Baton(Thread, entry, lockSem, MX!place)
  BY <1>1, Finite, LockSizes, BatonInit DEF MX!Init
<1> QED
  BY <1>2, Finite, LockSizes
  DEF MX!Init, MutexInv, MX!TypeOK, MX!OwnerIsInside, MX!ReentryIsOwners

\* The invariant excludes two tasks inside, ...
LEMMA MutexInvExcludes == MutexInv => MX!MutualExclusion
<1> SUFFICES ASSUME MutexInv, NEW t \in Thread, NEW u \in Thread, MX!Inside(t), MX!Inside(u)
             PROVE  t = u
  BY DEF MX!MutualExclusion
<1>1. MX!place[t] = "inside" /\ MX!place[u] = "inside"
  BY DEF MX!place
<1> QED
  BY <1>1, Finite, LockSizes, BatonExcludes DEF MutexInv

\* ... so a task that is inside without its name on the lock is the only one,
\* and nobody's name is on it.
LEMMA InsideAlone ==
  ASSUME MutexInv, NEW t \in Thread, MX!Inside(t)
  PROVE  /\ \A u \in Thread : u # t => ~ MX!Inside(u)
         /\ lockPc[t] # "inside" => task_id = NoThread /\ reentry = 0
<1>1. \A u \in Thread : u # t => ~ MX!Inside(u)
  BY MutexInvExcludes DEF MX!MutualExclusion
<1>2. ASSUME lockPc[t] # "inside" PROVE task_id = NoThread
  <2>1. \A u \in Thread : lockPc[u] # "inside"
    BY <1>1, <1>2 DEF MX!Inside
  <2> QED
    BY <2>1 DEF MutexInv, MX!TypeOK, MX!OwnerIsInside
<1> QED
  BY <1>1, <1>2 DEF MutexInv, MX!TypeOK, MX!ReentryIsOwners

\* A step of Mutex is one of the four steps of FastMutex, or one of task_id
\* and reentry that FastMutex does not see.
OwnerOnly == UNCHANGED <<entry, lockSem, MX!place>>

LEMMA StepIsFast ==
  ASSUME MutexInv, NEW t \in Thread, MX!Step(t)
  PROVE  \/ Enters(t, entry, lockSem, MX!place, entry', lockSem', MX!place') /\ MX!LockEntry(t)
         \/ Wakes(t, entry, lockSem, MX!place, entry', lockSem', MX!place') /\ MX!LockTake(t)
         \/ Exits(t, entry, lockSem, MX!place, entry', lockSem', MX!place') /\ MX!UnlockEntry(t)
         \/ Gives(t, entry, lockSem, MX!place, entry', lockSem', MX!place') /\ MX!UnlockGive(t)
         \/ OwnerOnly /\ (MX!Relock(t) \/ MX!Unrelock(t) \/ MX!SetOwner(t) \/ MX!ClearOwner(t))
<1>1. lockPc \in [Thread -> {"outside", "take", "locked", "inside", "leaving", "give"}]
  BY DEF MutexInv, MX!TypeOK
<1>2. DOMAIN MX!place = Thread
  BY DEF MX!place
<1>3. ASSUME NEW a, NEW b, lockPc' = [lockPc EXCEPT ![t] = b], MX!place[t] = a,
             b \in {"outside", "take", "give"} \/ (b = "locked" /\ a # "inside")
      PROVE  /\ b = "locked" => MX!place' = [MX!place EXCEPT ![t] = "inside"]
             /\ b # "locked" => MX!place' = [MX!place EXCEPT ![t] = b]
  BY <1>1, <1>3 DEF MX!place, MX!Inside
<1>4. CASE MX!LockEntry(t)
  <2>1. lockPc[t] = "outside"
    BY <1>4 DEF MX!LockEntry, MutexInv, MX!OwnerIsInside
  <2>2. MX!place[t] = "outside"
    BY <2>1 DEF MX!place, MX!Inside
  <2>3. MX!place' = [MX!place EXCEPT ![t] = IF entry = 0 THEN "inside" ELSE "take"]
    BY <1>3, <1>4, <2>2 DEF MX!LockEntry
  <2> QED
    BY <1>2, <1>4, <2>2, <2>3 DEF MX!LockEntry, Enters, Moves
<1>5. CASE MX!LockTake(t)
  <2>1. MX!place[t] = "take"
    BY <1>5 DEF MX!LockTake, MX!place, MX!Inside
  <2> QED
    BY <1>2, <1>3, <1>5, <2>1 DEF MX!LockTake, Wakes, Moves
<1>6. CASE MX!UnlockEntry(t)
  <2>1. MX!place[t] = "inside"
    BY <1>6 DEF MX!UnlockEntry, MX!place, MX!Inside
  <2>2. MX!place' = [MX!place EXCEPT ![t] = IF entry = 1 THEN "outside" ELSE "give"]
    BY <1>3, <1>6, <2>1 DEF MX!UnlockEntry
  <2> QED
    BY <1>2, <1>6, <2>1, <2>2 DEF MX!UnlockEntry, Exits, Moves
<1>7. CASE MX!UnlockGive(t)
  <2>1. MX!place[t] = "give"
    BY <1>7 DEF MX!UnlockGive, MX!place, MX!Inside
  <2> QED
    BY <1>2, <1>3, <1>7, <2>1 DEF MX!UnlockGive, Gives, Moves
<1>8. CASE MX!Relock(t) \/ MX!Unrelock(t)
  BY <1>8 DEF MX!Relock, MX!Unrelock, OwnerOnly, MX!place, MX!Inside
<1>9. CASE MX!SetOwner(t) \/ MX!ClearOwner(t)
  <2>1. MX!place' = MX!place
    BY <1>1, <1>9 DEF MX!SetOwner, MX!ClearOwner, MX!place, MX!Inside
  <2> QED
    BY <1>9, <2>1 DEF MX!SetOwner, MX!ClearOwner, OwnerOnly
<1> QED
  BY <1>4, <1>5, <1>6, <1>7, <1>8, <1>9 DEF MX!Step, MX!Leave

\* Every step keeps the invariant.
LEMMA MutexInvStep == MutexInv /\ [MX!Next]_(MX!vars) => MutexInv'
<1> SUFFICES ASSUME MutexInv, [MX!Next]_(MX!vars) PROVE MutexInv'
  OBVIOUS
<1>0. IsFiniteSet(Thread) /\ Baton(Thread, entry, lockSem, MX!place)
  BY Finite, LockSizes DEF MutexInv
<1>1. CASE UNCHANGED MX!vars
  <2>1. MX!place' = MX!place /\ entry' = entry /\ lockSem' = lockSem
    BY <1>1 DEF MX!vars, MX!place, MX!Inside
  <2> QED
    BY <1>0, <1>1, <2>1 DEF MX!vars, MutexInv, MX!TypeOK, MX!OwnerIsInside, MX!ReentryIsOwners
<1>2. ASSUME NEW t \in Thread, MX!Step(t) PROVE MutexInv'
  <2>1. Baton(Thread, entry', lockSem', MX!place')
    <3>1. CASE OwnerOnly
      BY <1>0, <3>1 DEF OwnerOnly
    <3> QED
      BY <1>0, <1>2, <3>1, StepIsFast, BatonStep
  <2>2. MX!TypeOK'
    <3>1. entry' \in Nat /\ lockSem' \in Nat
      BY <2>1 DEF Baton
    <3> QED
      BY <1>2, <3>1, Finite, LockSizes
      DEF MutexInv, MX!TypeOK, MX!Step, MX!Leave, MX!Relock, MX!LockEntry, MX!LockTake, MX!SetOwner, MX!Unrelock,
          MX!ClearOwner, MX!UnlockEntry, MX!UnlockGive
  <2>3. MX!OwnerIsInside' /\ MX!ReentryIsOwners'
    <3>1. CASE MX!SetOwner(t)
      BY <1>2, <3>1, InsideAlone, Finite, LockSizes
      DEF MX!SetOwner, MX!Inside, MutexInv, MX!TypeOK, MX!OwnerIsInside, MX!ReentryIsOwners
    <3>2. CASE MX!ClearOwner(t)
      BY <1>2, <3>2, InsideAlone, Finite, LockSizes
      DEF MX!ClearOwner, MX!Inside, MutexInv, MX!TypeOK, MX!OwnerIsInside, MX!ReentryIsOwners
    <3>3. CASE MX!Relock(t) \/ MX!Unrelock(t)
      BY <3>3, Finite, LockSizes
      DEF MX!Relock, MX!Unrelock, MutexInv, MX!TypeOK, MX!OwnerIsInside, MX!ReentryIsOwners
    <3>4. CASE MX!LockEntry(t) \/ MX!LockTake(t) \/ MX!UnlockEntry(t) \/ MX!UnlockGive(t)
      BY <3>4, Finite, LockSizes
      DEF MX!LockEntry, MX!LockTake, MX!UnlockEntry, MX!UnlockGive, MutexInv, MX!TypeOK, MX!OwnerIsInside, MX!ReentryIsOwners
    <3> QED
      BY <1>2, <3>1, <3>2, <3>3, <3>4 DEF MX!Step, MX!Leave
  <2> QED
    BY <2>1, <2>2, <2>3 DEF MutexInv
<1> QED
  BY <1>1, <1>2 DEF MX!Next

\* A step of the whole is one of the Mutex, or nothing for it.
LEMMA LockSteps == MCSpec => MX!Spec
<1>1. MCInit => MX!Init
  BY DEF MCInit
<1>2. [MCNext]_allVars => [MX!Next]_(MX!vars)
  <2> SUFFICES ASSUME [MCNext]_allVars PROVE [MX!Next]_(MX!vars)
    OBVIOUS
  <2>1. MX!Next \/ UNCHANGED lockVars
    BY Zenon DEF MCNext, allVars, LockNext, SemNext, EventNext, MultiNext, FlagsNext, HostNext, JobNext, TickNext, Only
  <2> QED
    BY <2>1 DEF lockVars, MX!vars
<1> QED
  BY <1>1, <1>2, PTL DEF MCSpec, MX!Spec

LEMMA MutexInvAlways == MCSpec => []MutexInv
BY LockSteps, MutexInvInit, MutexInvStep, PTL DEF MX!Spec

\* What Mutex writes and the places of its tasks have their types.
THEOREM MutexTypeCorrect == MCSpec => []MX!TypeOK
<1>1. MutexInv => MX!TypeOK
  BY DEF MutexInv
<1> QED
  BY <1>1, MutexInvAlways, PTL

\* Two tasks are never inside a Mutex.
THEOREM MutexExclusive == MCSpec => []MutualExclusion
<1>1. MutexInv => MutualExclusion
  BY MutexInvExcludes DEF MutualExclusion
<1> QED
  BY <1>1, MutexInvAlways, PTL

\* task_id, read by lock() without protection, names the task inside.
THEOREM OwnerIsKnown == MCSpec => [](OwnerIsInside /\ MX!ReentryIsOwners)
<1>1. MutexInv => OwnerIsInside /\ MX!ReentryIsOwners
  BY DEF MutexInv, OwnerIsInside
<1> QED
  BY <1>1, MutexInvAlways, PTL

\* The right to enter a Mutex is neither lost nor doubled.
THEOREM MutexBatonKept == MCSpec => []OneBaton
<1>1. MutexInv => OneBaton
  <2>1. ASSUME NEW label PROVE MX!N(label) = CountAt(MX!place, label)
    <3>1. MX!TasksAt(MX!place, label) = TasksAt(MX!place, label)
      BY DEF MX!TasksAt, TasksAt
    <3> QED
      BY <3>1 DEF MX!N, MX!CountAt, CountAt, MX!Cardinality, Cardinality, MX!IsFiniteSet, IsFiniteSet
  <2> QED
    BY <2>1 DEF MutexInv, Baton, OneBaton, MX!OneBaton
<1> QED
  BY <1>1, MutexInvAlways, PTL

\* Without task_id and reentry, Mutex takes the steps of FastMutex.
THEOREM MutexImplementsFast == MCSpec => MX!FastMutexOK
<1>1. MX!Init => MX!Fast!Init
  BY DEF MX!Init, MX!place, MX!Inside, MX!Fast!Init
<1>2. MutexInv /\ [MX!Next]_(MX!vars) => [MX!Fast!Next]_(MX!Fast!vars)
  <2> SUFFICES ASSUME MutexInv, [MX!Next]_(MX!vars) PROVE [MX!Fast!Next]_(MX!Fast!vars)
    OBVIOUS
  <2>1. CASE UNCHANGED MX!vars
    BY <2>1 DEF MX!vars, MX!place, MX!Inside, MX!Fast!vars
  <2>2. ASSUME NEW t \in Thread, MX!Step(t) PROVE [MX!Fast!Next]_(MX!Fast!vars)
    <3>1. CASE OwnerOnly
      BY <3>1 DEF OwnerOnly, MX!Fast!vars
    <3>2. CASE Enters(t, entry, lockSem, MX!place, entry', lockSem', MX!place')
      BY <3>2 DEF Enters, Moves, MX!Fast!Next, MX!Fast!Step, MX!Fast!LockEntry
    <3>3. CASE Wakes(t, entry, lockSem, MX!place, entry', lockSem', MX!place')
      BY <3>3 DEF Wakes, Moves, MX!Fast!Next, MX!Fast!Step, MX!Fast!LockTake
    <3>4. CASE Exits(t, entry, lockSem, MX!place, entry', lockSem', MX!place')
      BY <3>4 DEF Exits, Moves, MX!Fast!Next, MX!Fast!Step, MX!Fast!UnlockEntry
    <3>5. CASE Gives(t, entry, lockSem, MX!place, entry', lockSem', MX!place')
      BY <3>5 DEF Gives, Moves, MX!Fast!Next, MX!Fast!Step, MX!Fast!UnlockGive
    <3> QED
      BY <2>2, <3>1, <3>2, <3>3, <3>4, <3>5, StepIsFast
  <2> QED
    BY <2>1, <2>2 DEF MX!Next
<1> QED
  BY <1>1, <1>2, LockSteps, MutexInvAlways, PTL DEF MX!Spec, MX!FastMutexOK, MX!Fast!Spec

\* Mutex implements LockSpec: lock() acquires where it writes task_id, unlock()
\* releases where it clears it, and what happens to entry and sem stutters.
THEOREM MutexImplementsLock == MCSpec => LockSpecOK
<1> DEFINE locks == IF task_id = NoThread THEN 0 ELSE reentry + 1
<1>1. MX!Init => MX!Lock!Init
  BY DEF MX!Init, MX!Lock!Init
<1>2. MutexInv /\ [MX!Next]_(MX!vars) => [MX!Lock!Next]_(MX!Lock!vars)
  <2> SUFFICES ASSUME MutexInv, [MX!Next]_(MX!vars) PROVE [MX!Lock!Next]_(MX!Lock!vars)
    OBVIOUS
  <2>0. reentry \in Nat /\ MX!TypeOK /\ LockNesting \in Nat
    BY Finite, LockSizes DEF MutexInv, MX!TypeOK
  <2>1. CASE UNCHANGED <<task_id, reentry>>
    BY <2>1 DEF MX!Lock!vars
  <2>2. ASSUME NEW t \in Thread, MX!SetOwner(t) PROVE MX!Lock!Acquire(t)
    <3>1. task_id = NoThread /\ reentry = 0
      BY <2>2, InsideAlone DEF MX!SetOwner, MX!Inside
    <3> QED
      BY <2>2, <3>1, Finite, LockSizes DEF MX!SetOwner, MX!Lock!Acquire
  <2>3. ASSUME NEW t \in Thread, MX!Relock(t) PROVE MX!Lock!Reenter(t)
    BY <2>0, <2>3, Finite, LockSizes DEF MX!Relock, MX!TypeOK, MX!Lock!Reenter
  <2>4. ASSUME NEW t \in Thread, MX!Unrelock(t) \/ MX!ClearOwner(t) PROVE MX!Lock!Release(t)
    <3>1. task_id = t
      BY <2>4 DEF MutexInv, MX!OwnerIsInside, MX!Unrelock, MX!ClearOwner
    <3> QED
      BY <2>0, <2>4, <3>1, Finite, LockSizes DEF MX!Unrelock, MX!ClearOwner, MX!Lock!Release
  <2> QED
    BY <2>1, <2>2, <2>3, <2>4
    DEF MX!Next, MX!Step, MX!Leave, MX!LockEntry, MX!LockTake, MX!UnlockEntry, MX!UnlockGive, MX!vars, MX!Lock!Next
<1> QED
  BY <1>1, <1>2, LockSteps, MutexInvAlways, PTL DEF MX!Spec, LockSpecOK, MX!LockSpecOK, MX!Lock!Spec
=============================================================================
