-------------------------- MODULE PacketSet_proofs --------------------------
(***************************************************************************)
(* Theorems about module PacketSet, for any number of requests, packets    *)
(* and units.                                                              *)
(***************************************************************************)
EXTENDS PacketSet, TaskCount_proofs

\* Where a request has a unit of the ResSem, or a packet of another a count of
\* the AntiSem; and where it is a packet of the set.
HasUnit == {"got", "held", "queue", "left", "completed", "unlisted"}
Listed  == {"held", "queue", "left", "completed"}

\* The set knows the packets that are out, and no others; a packet on another
\* list, or with a cancel_state, is one of them.  While nobody holds the Mutex
\* in buildCancel() no packet is still to be visited.
PlacesMatch ==
  /\ \A r \in Packet : /\ r \in list <=> loc[r] \in Listed
                       /\ ext[r] # "none" => r \in list
                       /\ cancel[r] # "no" => r \in list
  /\ Unlocked => todo = {}

\* The tasks below in the two semaphores are where the packets say.
RequestsMatch ==
  /\ \A r \in Request : /\ r \in holds <=> loc[r] \in HasUnit
                        /\ pc[r] = "outside" <=> loc[r] # "getting"
                        /\ gives[r] = Rsem!NoGive <=> loc[r] # "giving"
  /\ pc[Owner] = "outside" <=> stage[Owner] # "asleep"

ExternalsMatch ==
  /\ \A e \in External : /\ loc[e] # "getting"
                         /\ aheld[e] = IF loc[e] \in HasUnit THEN 1 ELSE 0
                         /\ agives[e] = 0 <=> loc[e] # "giving"
  /\ acount = Cardinality({e \in External : loc[e] \notin {"out", "giving"}})
  /\ apc[Owner] = "wait" <=> stage[Owner] = "drained"

UnitsInv ==
  /\ Rsem!TypeOK /\ Rsem!UnitsMatch /\ Rsem!TokensMatch /\ Rsem!NoIdleUnits

CountsInv ==
  /\ Asem!TypeOK /\ Asem!TokensMatch /\ Asem!OpenWakesAll

\* What the destructor may rely on: nobody gets a packet any more, a token that
\* wakes it means that nothing is out, and what it has waited for stays so.
ClosedInv ==
  /\ stage[Owner] \in {"drain", "drained", "dead"} => closed
  /\ closed => \A r \in Packet : loc[r] \notin {"getting", "got"}
  /\ closed /\ stage[Owner] = "asleep" /\ wait_count = 0 => count = 0
  /\ stage[Owner] \in {"drain", "drained", "dead"} => \A r \in Request : loc[r] = "out"
  /\ stage[Owner] = "drained" /\ await_count = 0 => acount = 0
  /\ stage[Owner] = "dead" => \A e \in External : loc[e] = "out"

Types ==
  /\ loc \in [Packet -> {"out", "getting", "got", "held", "queue", "left",
                         "completed", "unlisted", "giving"}]
  /\ list \subseteq Packet /\ todo \subseteq list
  /\ ext \in [Packet -> {"none", "user"} \cup Canceller]
  /\ cancel \in [Packet -> {"no", "has", "cancelled"}]
  /\ stage \in [Canceller -> {"idle", "due", "build", "cancel", "wait", "asleep",
                              "drain", "drained", "dead"}]
  /\ at \in [Canceller -> Packet \cup {NoPacket}]
  /\ closed \in BOOLEAN

StatesMatch ==
  \A r \in Packet : /\ cancel[r] = "has" => loc[r] = "queue"
                    /\ loc[r] = "queue" => cancel[r] # "no"
                    /\ loc[r] = "left" => cancel[r] = "cancelled"

\* Packets, lists and cancel_states; the semaphores do not matter here.
Data == Types /\ PlacesMatch /\ StatesMatch /\ OneCompletes

\* The inductive invariant.
IInv == Data /\ RequestsMatch /\ ExternalsMatch /\ UnitsInv /\ CountsInv /\ ClosedInv

-----------------------------------------------------------------------------
\* The operators of the instances are those of this module.
LEMMA SameOperators ==
  /\ \A S : Rsem!Cardinality(S) = Cardinality(S) /\ Asem!Cardinality(S) = Cardinality(S)
  /\ \A g : Rsem!SumOf(g) = SumOf(g) /\ Asem!SumOf(g) = SumOf(g)
  /\ \A p, l : Asem!CountAt(p, l) = CountAt(p, l)
<1>1. \A S : Rsem!Cardinality(S) = Cardinality(S) /\ Asem!Cardinality(S) = Cardinality(S)
  BY DEF Rsem!Cardinality, Asem!Cardinality, Cardinality
<1>2. \A g : Rsem!SumOf(g) = SumOf(g) /\ Asem!SumOf(g) = SumOf(g)
  BY <1>1 DEF Rsem!SumOf, Asem!SumOf, SumOf, Rsem!UnitsOf, Asem!UnitsOf, UnitsOf
<1>3. \A p, l : Asem!CountAt(p, l) = CountAt(p, l)
  BY <1>1 DEF Asem!CountAt, CountAt, Asem!TasksAt, TasksAt
<1> QED
  BY <1>1, <1>2, <1>3

\* One more in a finite set, and one less.
LEMMA OneMore ==
  ASSUME NEW S, IsFiniteSet(S), NEW t, t \notin S
  PROVE  IsFiniteSet(S \cup {t}) /\ Cardinality(S \cup {t}) = Cardinality(S) + 1
BY FS_AddElement

LEMMA OneLess ==
  ASSUME NEW S, IsFiniteSet(S), NEW t \in S
  PROVE  /\ IsFiniteSet(S \ {t}) /\ Cardinality(S \ {t}) = Cardinality(S) - 1
         /\ Cardinality(S) >= 1
<1>1. Cardinality(S) # 0 /\ Cardinality(S) \in Nat
  BY FS_EmptySet, FS_CardinalityType
<1> QED
  BY <1>1, FS_RemoveElement

LEMMA Finite == IsFiniteSet(Packet) /\ IsFiniteSet(Request) /\ IsFiniteSet(External)
<1>1. IsFiniteSet(Packet) /\ Request \subseteq Packet /\ External \subseteq Packet
  BY PacketSetAssumption DEF Packet
<1> QED
  BY <1>1, FS_Subset

-----------------------------------------------------------------------------
\* The tasks of S asleep at the places p.
Sleep == {"sleep", "timed", "late", "retry"}
Labels == Sleep \cup {"outside"}

AsleepAt(S, p) == Cardinality({t \in S : p[t] \in Sleep})

\* A task that falls asleep, wakes, or turns in its sleep.
LEMMA AsleepStep ==
  ASSUME NEW S, IsFiniteSet(S), NEW p, S \subseteq DOMAIN p, NEW t, t \in DOMAIN p, NEW b,
         NEW q, q = Placed(p, t, b)
  PROVE  /\ AsleepAt(S, p) \in Nat
         /\ t \notin S => AsleepAt(S, q) = AsleepAt(S, p)
         /\ t \in S /\ p[t] = "outside" /\ b \in Sleep
              => AsleepAt(S, q) = AsleepAt(S, p) + 1
         /\ t \in S /\ p[t] \in Sleep /\ b = "outside"
              => AsleepAt(S, q) = AsleepAt(S, p) - 1 /\ AsleepAt(S, p) >= 1
         /\ p[t] \in Sleep /\ b \in Sleep
              => AsleepAt(S, q) = AsleepAt(S, p)
<1> DEFINE A == {x \in S : p[x] \in Sleep}
           B == {x \in S : q[x] \in Sleep}
<1>1. IsFiniteSet(A)
  BY FS_Subset
<1>2. AsleepAt(S, p) = Cardinality(A) /\ AsleepAt(S, q) = Cardinality(B)
  BY DEF AsleepAt
<1>3. Cardinality(A) \in Nat
  BY <1>1, FS_CardinalityType
<1>4. t \notin S => B = A
  BY DEF Placed
<1>5. t \in S /\ p[t] = "outside" /\ b \in Sleep => B = A \cup {t} /\ t \notin A
  BY DEF Sleep, Placed
<1>6. t \in S /\ p[t] \in Sleep /\ b = "outside" => B = A \ {t} /\ t \in A
  BY DEF Sleep, Placed
<1>7. p[t] \in Sleep /\ b \in Sleep => B = A
  BY DEF Placed
<1> HIDE DEF A, B
<1> QED
  BY <1>1, <1>2, <1>3, <1>4, <1>5, <1>6, <1>7, OneMore, OneLess

-----------------------------------------------------------------------------
Apart == {"out", "getting", "got", "unlisted", "giving"}

\* A request whose packet is not in the set goes to another such place.
LEMMA DataApart ==
  ASSUME Data, NEW r \in Packet, loc[r] \in Apart, NEW b \in Apart, To(r, b),
         UNCHANGED <<list, ext, cancel, stage, todo, closed>>,
         \/ UNCHANGED at
         \/ at' = [c \in Canceller |-> IF at[c] = r /\ b = "out" THEN NoPacket ELSE at[c]]
  PROVE  Data'
<1>1. Types'
  BY DEF Data, Types, To, Apart
<1>2. PlacesMatch'
  BY DEF Data, Types, PlacesMatch, To, Apart, Listed, Unlocked
<1>3. StatesMatch'
  BY DEF Data, Types, StatesMatch, To, Apart, PlacesMatch, Listed
<1>4. OneCompletes'
  BY DEF Data, Types, OneCompletes, Doomed, To, Apart, Canceller
<1> QED
  BY <1>1, <1>2, <1>3, <1>4 DEF Data

\* The owner goes on, and nobody begins or ends a buildCancel().
LEMMA DataOwner ==
  ASSUME Data, NEW b \in {"idle", "due", "cancel", "wait", "asleep", "drain", "drained", "dead"},
         stage[Owner] # "build", stage' = [stage EXCEPT ![Owner] = b], closed' \in BOOLEAN,
         UNCHANGED <<loc, list, ext, cancel, todo, at>>
  PROVE  Data'
<1>1. Types'
  BY DEF Data, Types
<1>2. PlacesMatch'
  BY DEF Data, Types, PlacesMatch, Unlocked, Canceller
<1>3. StatesMatch'
  BY DEF Data, StatesMatch
<1>4. OneCompletes'
  BY DEF Data, OneCompletes, Doomed
<1> QED
  BY <1>1, <1>2, <1>3, <1>4 DEF Data

\* Whoever has a packet.
LEMMA DataHolding ==
  ASSUME Data, NEW r \in Packet, Holding(r)
  PROVE  Data'
<1> USE DEF Data, To, cancelVars
<1>1. CASE Add(r)
  <2>1. Types'
    BY <1>1 DEF Add, Types
  <2>2. PlacesMatch'
    BY <1>1 DEF Add, Types, PlacesMatch, Listed, Unlocked
  <2>3. StatesMatch'
    BY <1>1 DEF Add, Types, StatesMatch
  <2>4. OneCompletes'
    <3>1. PICK e \in {"none", "user"} : ext' = [ext EXCEPT ![r] = e]
      BY <1>1 DEF Add
    <3>2. e \notin Canceller
      BY PacketSetAssumption DEF Canceller
    <3> QED
      BY <1>1, <3>1, <3>2 DEF Add, Types, OneCompletes, Doomed
  <2> QED
    BY <2>1, <2>2, <2>3, <2>4
<1>2. CASE Put(r)
  <2>1. Types'
    BY <1>2 DEF Put, Types
  <2>2. PlacesMatch'
    BY <1>2 DEF Put, Types, PlacesMatch, Listed, Unlocked
  <2>3. StatesMatch'
    BY <1>2 DEF Put, Types, StatesMatch
  <2>4. OneCompletes'
    BY <1>2 DEF Put, Types, OneCompletes, Doomed, Canceller
  <2> QED
    BY <2>1, <2>2, <2>3, <2>4
<1>3. CASE Serve(r)
  <2>1. Types'
    BY <1>3 DEF Serve, Types
  <2>2. PlacesMatch'
    BY <1>3 DEF Serve, Types, PlacesMatch, Listed, Unlocked
  <2>3. StatesMatch'
    BY <1>3 DEF Serve, Types, StatesMatch
  <2>4. OneCompletes'
    BY <1>3 DEF Serve, Types, OneCompletes, Doomed, Canceller
  <2> QED
    BY <2>1, <2>2, <2>3, <2>4
<1>4. CASE Complete(r)
  <2>1. Types'
    BY <1>4 DEF Complete, Types
  <2>2. PlacesMatch'
    BY <1>4 DEF Complete, Types, PlacesMatch, Listed, Unlocked
  <2>3. StatesMatch'
    BY <1>4 DEF Complete, Types, StatesMatch
  <2>4. OneCompletes'
    BY <1>4 DEF Complete, Types, OneCompletes, Doomed, Canceller
  <2> QED
    BY <2>1, <2>2, <2>3, <2>4
<1>5. CASE Del(r)
  <2>1. Types'
    BY <1>5 DEF Del, Types, PlacesMatch
  <2>2. PlacesMatch'
    BY <1>5 DEF Del, Types, PlacesMatch, Listed, Unlocked
  <2>3. StatesMatch'
    BY <1>5 DEF Del, Types, StatesMatch
  <2>4. OneCompletes'
    BY <1>5, PacketSetAssumption DEF Del, Types, OneCompletes, Doomed, Canceller
  <2> QED
    BY <2>1, <2>2, <2>3, <2>4
<1> QED
  BY <1>1, <1>2, <1>3, <1>4, <1>5 DEF Holding

\* Cancellers.
LEMMA DataCancelling ==
  ASSUME Data, NEW c \in Canceller, Build(c) \/ Cancelling(c)
  PROVE  Data'
<1> USE DEF Data, Goes
<1>1. CASE Build(c)
  <2>1. Types'
    BY <1>1 DEF Build, Types, PlacesMatch
  <2>2. PlacesMatch'
    BY <1>1 DEF Build, Types, PlacesMatch, Listed, Unlocked
  <2>3. StatesMatch' /\ OneCompletes'
    BY <1>1 DEF Build, StatesMatch, OneCompletes, Doomed
  <2> QED
    BY <2>1, <2>2, <2>3
<1>2. CASE BuildOne(c)
  <2>1. PICK r \in todo : /\ todo' = todo \ {r}
                          /\ cancel' = [cancel EXCEPT ![r] = "cancelled"]
                          /\ ext' = [ext EXCEPT ![r] = IF cancel[r] = "has" THEN c ELSE @]
    BY <1>2 DEF BuildOne
  <2>2. UNCHANGED <<loc, list, stage, at, closed>>
    BY <1>2 DEF BuildOne
  <2>3. r \in list /\ r \in Packet
    BY DEF Types
  <2>4. Types'
    BY <2>1, <2>2, <2>3 DEF Types
  <2>5. PlacesMatch'
    BY <2>1, <2>2, <2>3 DEF Types, PlacesMatch, Listed, Unlocked
  <2>6. StatesMatch'
    BY <2>1, <2>2, <2>3 DEF Types, StatesMatch
  <2>7. OneCompletes'
    <3>1. loc[r] \in {"queue", "left"} => cancel[r] \in {"has", "cancelled"}
      BY <2>3 DEF StatesMatch, Types
    <3>2. cancel[r] = "has" => loc[r] = "queue"
      BY <2>3 DEF StatesMatch
    <3> QED
      BY <2>1, <2>2, <2>3, <3>1, <3>2 DEF Types, OneCompletes, Doomed
  <2> QED
    BY <2>4, <2>5, <2>6, <2>7
<1>3. CASE BuildEnd(c)
  <2>1. Types' /\ PlacesMatch'
    BY <1>3 DEF BuildEnd, Types, PlacesMatch, Listed
  <2>2. StatesMatch' /\ OneCompletes'
    BY <1>3 DEF BuildEnd, StatesMatch, OneCompletes, Doomed
  <2> QED
    BY <2>1, <2>2
<1>4. CASE CancelOne(c)
  <2>1. PICK r \in Packet : ext[r] = c /\ To(r, "completed") /\ at' = [at EXCEPT ![c] = r]
    BY <1>4 DEF CancelOne
  <2>2. UNCHANGED <<list, ext, cancel, stage, todo, closed>> /\ at[c] = NoPacket
    BY <1>4 DEF CancelOne
  <2>3. Doomed(r)
    BY <2>1, <2>2, PacketSetAssumption DEF OneCompletes
  <2>4. Types'
    BY <2>1, <2>2 DEF Types, To
  <2>5. PlacesMatch'
    BY <2>1, <2>2, <2>3 DEF Types, PlacesMatch, Listed, Unlocked, To, Doomed
  <2>6. StatesMatch'
    BY <2>1, <2>2, <2>3 DEF Types, StatesMatch, To, Doomed
  <2>7. OneCompletes'
    BY <2>1, <2>2, <2>3, PacketSetAssumption DEF Types, OneCompletes, Doomed, To
  <2> QED
    BY <2>4, <2>5, <2>6, <2>7
<1>5. CASE CancelEnd(c)
  <2>1. Types'
    BY <1>5 DEF CancelEnd, Types
  <2>2. PlacesMatch'
    BY <1>5 DEF CancelEnd, Types, PlacesMatch, Unlocked
  <2>3. StatesMatch' /\ OneCompletes'
    BY <1>5 DEF CancelEnd, StatesMatch, OneCompletes, Doomed
  <2> QED
    BY <2>1, <2>2, <2>3
<1> QED
  BY <1>1, <1>2, <1>3, <1>4, <1>5 DEF Cancelling

-----------------------------------------------------------------------------
\* The invariant of the ResSem about the values of its variables: units taken,
\* tasks counted and tokens of both SlowSems, what is owed, who has a unit, and
\* where the tasks are.
takes(g) == [u \in Request |-> g[u].take]
waits(g) == [u \in Request |-> g[u].wait]

Pcs == [Request \cup {Owner} -> Labels]

Units(n, tc, wc, ts, ws, g, h, p) ==
  /\ n \in 0..max_count /\ tc \in Nat /\ wc \in Nat /\ ts \in Nat /\ ws \in Nat
  /\ g \in [Request -> [take : 0..1, wait : Nat]]
  /\ h \subseteq Request
  /\ p \in Pcs
  /\ n = Cardinality(h) + ts + SumOf(takes(g))
  /\ AsleepAt(Request, p) = tc + ts + SumOf(takes(g))
  /\ AsleepAt({Owner}, p) = wc + ws + SumOf(waits(g))
  /\ n < max_count => tc = 0
  /\ n = 0 => wc = 0

LEMMA UnitsBefore == UnitsInv <=> Units(count, take_count, wait_count, take_sem, wait_sem, gives, holds, pc)
BY SameOperators
   DEF UnitsInv, Units, takes, waits, Pcs, Labels, Sleep, AsleepAt, Rsem!TypeOK, Rsem!UnitsMatch, Rsem!TokensMatch,
       Rsem!NoIdleUnits, Rsem!Asleep, Rsem!OwedTakes, Rsem!OwedWaits

LEMMA UnitsAfter ==
  UnitsInv' <=> Units(count', take_count', wait_count', take_sem', wait_sem', gives', holds', pc')
BY SameOperators
   DEF UnitsInv, Units, takes, waits, Pcs, Labels, Sleep, AsleepAt, Rsem!TypeOK, Rsem!UnitsMatch, Rsem!TokensMatch,
       Rsem!NoIdleUnits, Rsem!Asleep, Rsem!OwedTakes, Rsem!OwedWaits

LEMMA AsleepNat ==
  ASSUME NEW p
  PROVE  AsleepAt(Request, p) \in Nat /\ AsleepAt({Owner}, p) \in Nat
<1>1. IsFiniteSet({t \in Request : p[t] \in Sleep}) /\ IsFiniteSet({t \in {Owner} : p[t] \in Sleep})
  BY Finite, FS_Singleton, FS_Subset
<1> QED
  BY <1>1, FS_CardinalityType DEF AsleepAt

\* A task whose place changes from a to b: the tasks asleep.
LEMMA UserMoves ==
  ASSUME NEW p \in Pcs, NEW u \in Request,
         NEW b \in Labels, NEW q, q = Placed(p, u, b)
  PROVE  /\ q \in Pcs
         /\ AsleepAt(Request, p) \in Nat
         /\ AsleepAt({Owner}, q) = AsleepAt({Owner}, p)
         /\ p[u] = "outside" /\ b \in Sleep => AsleepAt(Request, q) = AsleepAt(Request, p) + 1
         /\ p[u] \in Sleep /\ b = "outside" => AsleepAt(Request, q) = AsleepAt(Request, p) - 1
         /\ p[u] \in Sleep /\ b \in Sleep => AsleepAt(Request, q) = AsleepAt(Request, p)
<1>1. u \notin {Owner}
  BY PacketSetAssumption DEF Packet
<1>2. IsFiniteSet({Owner})
  BY FS_Singleton
<1>3. {Owner} \subseteq DOMAIN p /\ Request \subseteq DOMAIN p /\ u \in DOMAIN p /\ IsFiniteSet(Request)
  BY Finite DEF Pcs
<1>4. q \in Pcs
  BY DEF Placed, Pcs
<1>5. AsleepAt({Owner}, q) = AsleepAt({Owner}, p)
  BY <1>1, <1>2, <1>3, AsleepStep
<1>6. /\ AsleepAt(Request, p) \in Nat
      /\ p[u] = "outside" /\ b \in Sleep
           => AsleepAt(Request, q) = AsleepAt(Request, p) + 1
      /\ p[u] \in Sleep /\ b = "outside"
           => AsleepAt(Request, q) = AsleepAt(Request, p) - 1
      /\ p[u] \in Sleep /\ b \in Sleep
           => AsleepAt(Request, q) = AsleepAt(Request, p)
  BY <1>3, AsleepStep
<1> QED
  BY <1>4, <1>5, <1>6

LEMMA OwnerMoves ==
  ASSUME NEW p \in Pcs, NEW b \in Labels, 
         NEW q, q = Placed(p, Owner, b)
  PROVE  /\ q \in Pcs
         /\ AsleepAt({Owner}, p) \in Nat
         /\ AsleepAt(Request, q) = AsleepAt(Request, p)
         /\ p[Owner] = "outside" /\ b \in Sleep => AsleepAt({Owner}, q) = AsleepAt({Owner}, p) + 1
         /\ p[Owner] \in Sleep /\ b = "outside" => AsleepAt({Owner}, q) = AsleepAt({Owner}, p) - 1
         /\ p[Owner] \in Sleep /\ b \in Sleep => AsleepAt({Owner}, q) = AsleepAt({Owner}, p)
<1>1. Owner \notin Request
  BY PacketSetAssumption DEF Packet
<1>2. IsFiniteSet({Owner})
  BY FS_Singleton
<1>3. {Owner} \subseteq DOMAIN p /\ Request \subseteq DOMAIN p /\ Owner \in DOMAIN p /\ IsFiniteSet(Request)
  BY Finite DEF Pcs
<1>4. q \in Pcs
  BY DEF Placed, Pcs
<1>5. AsleepAt(Request, q) = AsleepAt(Request, p)
  BY <1>1, <1>3, AsleepStep
<1>6. /\ AsleepAt({Owner}, p) \in Nat
      /\ p[Owner] = "outside" /\ b \in Sleep
           => AsleepAt({Owner}, q) = AsleepAt({Owner}, p) + 1
      /\ p[Owner] \in Sleep /\ b = "outside"
           => AsleepAt({Owner}, q) = AsleepAt({Owner}, p) - 1
      /\ p[Owner] \in Sleep /\ b \in Sleep
           => AsleepAt({Owner}, q) = AsleepAt({Owner}, p)
  BY <1>2, <1>3, AsleepStep
<1> QED
  BY <1>4, <1>5, <1>6

LEMMA UnitsNat ==
  ASSUME NEW n, NEW tc, NEW wc, NEW ts, NEW ws, NEW g, NEW h, NEW p,
         Units(n, tc, wc, ts, ws, g, h, p)
  PROVE  /\ IsFiniteSet(h) /\ Cardinality(h) \in Nat
         /\ takes(g) \in [Request -> Nat] /\ waits(g) \in [Request -> Nat]
         /\ SumOf(takes(g)) \in Nat /\ SumOf(waits(g)) \in Nat
<1>1. h \subseteq Request /\ g \in [Request -> [take : 0..1, wait : Nat]]
  BY DEF Units
<1>2. IsFiniteSet(h)
  BY <1>1, Finite, FS_Subset
<1>3. Cardinality(h) \in Nat
  BY <1>2, FS_CardinalityType
<1>4. takes(g) \in [Request -> Nat] /\ waits(g) \in [Request -> Nat]
  BY <1>1 DEF takes, waits
<1> QED
  BY <1>2, <1>3, <1>4, Finite, SumNat

\* A task gets a unit, now or by a token, or gives up.
LEMMA UnitsTake ==
  ASSUME UnitsInv, NEW u \in Request, pc[u] # "outside" => u \notin holds,
         Rsem!TakeNow(u) \/ Rsem!BeginTake(u) \/ Rsem!SemTake(u) \/ Rsem!TakeTimeout(u) \/ Rsem!EndTake(u)
  PROVE  UnitsInv'
<1> DEFINE H == Cardinality(holds)
           T == SumOf(takes(gives))
           W == SumOf(waits(gives))
           A == AsleepAt(Request, pc)
           O == AsleepAt({Owner}, pc)
<1>1. Units(count, take_count, wait_count, take_sem, wait_sem, gives, holds, pc)
  BY UnitsBefore
<1>2. pc \in Pcs
  BY <1>1 DEF Units
<1>0. IsFiniteSet(holds)
  BY <1>1, UnitsNat
<1>3. H \in Nat /\ T \in Nat /\ W \in Nat /\ A \in Nat
  BY <1>1, UnitsNat, AsleepNat
<1>4. /\ count \in 0..max_count /\ take_count \in Nat /\ wait_count \in Nat
      /\ take_sem \in Nat /\ wait_sem \in Nat
      /\ gives \in [Request -> [take : 0..1, wait : Nat]] /\ holds \subseteq Request
      /\ count = H + take_sem + T
      /\ A = take_count + take_sem + T
      /\ O = wait_count + wait_sem + W
      /\ count < max_count => take_count = 0
      /\ count = 0 => wait_count = 0
      /\ max_count \in Nat
  BY <1>1, PacketSetAssumption DEF Units
<1>5. u \notin holds => Cardinality(holds \cup {u}) = H + 1
  BY <1>0, OneMore
<1> DEFINE q(b) == Placed(pc, u, b)
<1>6. \A b \in Labels :
        /\ q(b) \in Pcs
        /\ AsleepAt({Owner}, q(b)) = O
        /\ pc[u] = "outside" /\ b \in Sleep => AsleepAt(Request, q(b)) = A + 1
        /\ pc[u] \in Sleep /\ b = "outside" => AsleepAt(Request, q(b)) = A - 1
        /\ pc[u] \in Sleep /\ b \in Sleep => AsleepAt(Request, q(b)) = A
  <2> SUFFICES ASSUME NEW b \in Labels
               PROVE  /\ q(b) \in Pcs
                      /\ AsleepAt({Owner}, q(b)) = O
                      /\ pc[u] = "outside" /\ b \in Sleep => AsleepAt(Request, q(b)) = A + 1
                      /\ pc[u] \in Sleep /\ b = "outside" => AsleepAt(Request, q(b)) = A - 1
                      /\ pc[u] \in Sleep /\ b \in Sleep => AsleepAt(Request, q(b)) = A
    OBVIOUS
  <2> DEFINE x == Placed(pc, u, b)
  <2>1. x = Placed(pc, u, b)
    OBVIOUS
  <2> HIDE DEF x
  <2>2. /\ x \in Pcs
        /\ AsleepAt({Owner}, x) = O
        /\ pc[u] = "outside" /\ b \in Sleep => AsleepAt(Request, x) = A + 1
        /\ pc[u] \in Sleep /\ b = "outside" => AsleepAt(Request, x) = A - 1
        /\ pc[u] \in Sleep /\ b \in Sleep => AsleepAt(Request, x) = A
    <3>1. x \in Pcs
      BY <1>2, <2>1, UserMoves
    <3>2. AsleepAt({Owner}, x) = O
      BY <1>2, <2>1, UserMoves
    <3>3. pc[u] = "outside" /\ b \in Sleep => AsleepAt(Request, x) = A + 1
      BY <1>2, <2>1, UserMoves
    <3>4. pc[u] \in Sleep /\ b = "outside" => AsleepAt(Request, x) = A - 1
      BY <1>2, <2>1, UserMoves
    <3>5. pc[u] \in Sleep /\ b \in Sleep => AsleepAt(Request, x) = A
      BY <1>2, <2>1, UserMoves
    <3> QED
      BY <3>1, <3>2, <3>3, <3>4, <3>5
  <2> QED
    BY <2>2 DEF x
<1>7. SUFFICES Units(count', take_count', wait_count', take_sem', wait_sem', gives', holds', pc')
  BY UnitsAfter
<1> HIDE DEF H, T, W, A, O, q
<1>8. CASE Rsem!TakeNow(u)
  <2>1. /\ count' = count + 1 /\ holds' = holds \cup {u} /\ u \notin holds /\ count < max_count
        /\ UNCHANGED <<take_count, wait_count, take_sem, wait_sem, gives, pc>>
    BY <1>8 DEF Rsem!TakeNow, Rsem!takeVars, Rsem!waitVars
  <2>2. count' = Cardinality(holds') + take_sem' + SumOf(takes(gives'))
    BY <1>3, <1>4, <1>5, <2>1 DEF T
  <2> QED
    BY <1>1, <1>3, <1>4, <2>1, <2>2 DEF Units, A, O, T, W
<1>9. CASE Rsem!BeginTake(u)
  <2>1. /\ pc[u] = "outside" /\ count = max_count /\ take_count' = take_count + 1
        /\ pc' = q("sleep") \/ pc' = q("timed")
        /\ UNCHANGED <<count, wait_count, take_sem, wait_sem, gives, holds>>
    BY <1>9 DEF Rsem!BeginTake, Rsem!waitVars, Rsem!Free, Rsem!To, q, Placed
  <2>2. /\ pc' \in Pcs
        /\ AsleepAt({Owner}, pc') = O /\ AsleepAt(Request, pc') = A + 1
    BY <1>6, <2>1 DEF Sleep, Labels
  <2> QED
    BY <1>1, <1>3, <1>4, <2>1, <2>2 DEF Units, T, W, H
<1>10. CASE Rsem!SemTake(u)
  <2>1. /\ pc[u] \in Sleep /\ pc[u] # "outside" /\ take_sem > 0 /\ take_sem' = take_sem - 1
        /\ holds' = holds \cup {u} /\ pc' = q("outside")
        /\ UNCHANGED <<count, take_count, wait_count, wait_sem, gives>>
    BY <1>10 DEF Rsem!SemTake, Rsem!waitVars, Rsem!To, q, Placed, Sleep
  <2>2. /\ pc' \in Pcs
        /\ AsleepAt({Owner}, pc') = O /\ AsleepAt(Request, pc') = A - 1
    BY <1>6, <2>1 DEF Sleep, Labels
  <2>3. Cardinality(holds') = H + 1
    BY <1>5, <2>1
  <2> QED
    BY <1>1, <1>3, <1>4, <2>1, <2>2, <2>3 DEF Units, T, W
<1>11. CASE Rsem!TakeTimeout(u)
  <2>1. /\ pc[u] \in Sleep /\ pc' = q("late")
        /\ UNCHANGED <<count, take_count, wait_count, take_sem, wait_sem, gives, holds>>
    BY <1>11 DEF Rsem!TakeTimeout, Rsem!takeVars, Rsem!waitVars, Rsem!To, q, Placed, Sleep
  <2>2. /\ pc' \in Pcs
        /\ AsleepAt({Owner}, pc') = O /\ AsleepAt(Request, pc') = A
    BY <1>6, <2>1 DEF Sleep, Labels
  <2> QED
    BY <1>1, <1>4, <2>1, <2>2 DEF Units, T, W, H
<1>12. CASE Rsem!EndTake(u)
  <2>1. /\ pc[u] \in Sleep
        /\ \/ take_count > 0 /\ take_count' = take_count - 1 /\ pc' = q("outside")
           \/ take_count = 0 /\ take_count' = take_count /\ pc' = q("retry")
        /\ UNCHANGED <<count, wait_count, take_sem, wait_sem, gives, holds>>
    BY <1>12 DEF Rsem!EndTake, Rsem!waitVars, Rsem!To, q, Placed, Sleep
  <2>2. /\ pc' \in Pcs
        /\ AsleepAt({Owner}, pc') = O
        /\ AsleepAt(Request, pc') = IF take_count > 0 THEN A - 1 ELSE A
    BY <1>6, <2>1, <1>4 DEF Sleep, Labels
  <2> QED
    BY <1>1, <1>3, <1>4, <2>1, <2>2 DEF Units, T, W, H
<1> QED
  BY <1>8, <1>9, <1>10, <1>11, <1>12

\* A task gives its unit back, and the tokens it owes.
LEMMA UnitsGive ==
  ASSUME UnitsInv, NEW u \in Request, Rsem!BeginGive(u) \/ Rsem!SemGive(u)
  PROVE  UnitsInv'
<1> DEFINE H == Cardinality(holds)
           T == SumOf(takes(gives))
           W == SumOf(waits(gives))
           A == AsleepAt(Request, pc)
           O == AsleepAt({Owner}, pc)
<1>1. Units(count, take_count, wait_count, take_sem, wait_sem, gives, holds, pc)
  BY UnitsBefore
<1>2. /\ IsFiniteSet(holds) /\ H \in Nat /\ T \in Nat /\ W \in Nat
      /\ takes(gives) \in [Request -> Nat] /\ waits(gives) \in [Request -> Nat]
  BY <1>1, UnitsNat
<1>3. /\ count \in 0..max_count /\ take_count \in Nat /\ wait_count \in Nat
      /\ take_sem \in Nat /\ wait_sem \in Nat
      /\ gives \in [Request -> [take : 0..1, wait : Nat]] /\ holds \subseteq Request
      /\ count = H + take_sem + T
      /\ A = take_count + take_sem + T
      /\ O = wait_count + wait_sem + W
      /\ count < max_count => take_count = 0
      /\ count = 0 => wait_count = 0
      /\ max_count \in Nat /\ pc \in Pcs
  BY <1>1, PacketSetAssumption DEF Units
<1>4. SUFFICES Units(count', take_count', wait_count', take_sem', wait_sem', gives', holds', pc')
  BY UnitsAfter
<1>5. CASE Rsem!BeginGive(u)
  <2>1. /\ gives[u].take = 0 /\ gives[u].wait = 0 /\ u \in holds /\ holds' = holds \ {u}
        /\ UNCHANGED <<take_sem, wait_sem, pc>>
    BY <1>5 DEF Rsem!BeginGive, Rsem!Free, Rsem!NoGive
  <2>2. takes(gives)[u] = 0 /\ waits(gives)[u] = 0
    BY <2>1 DEF takes, waits
  <2>3. Cardinality(holds') = H - 1 /\ H >= 1
    BY <1>2, <2>1, OneLess
  <2>4. CASE /\ take_count > 0 /\ take_count' = take_count - 1
             /\ gives' = [gives EXCEPT ![u].take = 1] /\ UNCHANGED <<count, wait_count>>
    <3>1. takes(gives') = Placed(takes(gives), u, 1) /\ waits(gives') = waits(gives)
      BY <1>3, <2>4 DEF takes, waits, Placed
    <3>2. SumOf(takes(gives')) = T + 1
      BY <1>2, <2>2, <3>1, Finite, SumMore
    <3>3. gives' \in [Request -> [take : 0..1, wait : Nat]]
      BY <1>3, <2>4
    <3>4. SumOf(waits(gives')) = W /\ AsleepAt(Request, pc') = A /\ AsleepAt({Owner}, pc') = O
      BY <2>1, <3>1
    <3> HIDE DEF H, T, W, A, O
    <3>5. take_count > 0 /\ take_count' = take_count - 1 /\ UNCHANGED <<count, wait_count>>
      BY <2>4
    <3> QED
      BY <1>2, <1>3, <2>1, <2>3, <3>2, <3>3, <3>4, <3>5 DEF Units
  <2>5. CASE /\ take_count = 0 /\ count > 1 /\ count' = count - 1
             /\ UNCHANGED <<take_count, gives, wait_count>>
    <3> HIDE DEF H, T, W, A, O
    <3> QED
      BY <1>2, <1>3, <2>1, <2>3, <2>5 DEF Units, T, W, A, O
  <2>6. CASE /\ take_count = 0 /\ count = 1 /\ count' = 0 /\ wait_count' = 0
             /\ gives' = [gives EXCEPT ![u].wait = wait_count] /\ UNCHANGED take_count
    <3>1. takes(gives') = takes(gives) /\ waits(gives') = Placed(waits(gives), u, wait_count)
      BY <1>3, <2>6 DEF takes, waits, Placed
    <3>2. SumOf(waits(gives')) = W + wait_count
      BY <1>2, <1>3, <2>2, <3>1, Finite, SumMore
    <3>3. gives' \in [Request -> [take : 0..1, wait : Nat]]
      BY <1>3, <2>6
    <3> HIDE DEF H, T, W, A, O
    <3> QED
      BY <1>2, <1>3, <2>1, <2>3, <2>6, <3>1, <3>2, <3>3 DEF Units, T, A, O
  <2> QED
    BY <1>5, <2>4, <2>5, <2>6 DEF Rsem!BeginGive
<1>6. CASE Rsem!SemGive(u)
  <2>1. /\ take_sem' = take_sem + gives[u].take /\ wait_sem' = wait_sem + gives[u].wait
        /\ gives' = [gives EXCEPT ![u] = Rsem!NoGive]
        /\ UNCHANGED <<count, take_count, wait_count, holds, pc>>
    BY <1>6 DEF Rsem!SemGive
  <2>6. /\ takes(gives') = Placed(takes(gives), u, 0)
        /\ waits(gives') = Placed(waits(gives), u, 0)
    BY <1>3, <2>1 DEF takes, waits, Placed, Rsem!NoGive
  <2>2. /\ gives' \in [Request -> [take : 0..1, wait : Nat]]
        /\ gives[u].take \in Nat /\ gives[u].wait \in Nat
        /\ takes(gives)[u] = gives[u].take /\ waits(gives)[u] = gives[u].wait
    BY <1>3, <2>1 DEF takes, waits, Rsem!NoGive
  <2>3. T = SumOf(takes(gives')) + gives[u].take
    BY <1>2, <2>2, <2>6, Finite, SumLess
  <2>4. W = SumOf(waits(gives')) + gives[u].wait
    BY <1>2, <2>2, <2>6, Finite, SumLess
  <2>5. SumOf(takes(gives')) \in Nat /\ SumOf(waits(gives')) \in Nat
    <3>1. takes(gives') \in [Request -> Nat] /\ waits(gives') \in [Request -> Nat]
      BY <2>2 DEF takes, waits
    <3> QED
      BY <3>1, Finite, SumNat
  <2> HIDE DEF H, T, W, A, O
  <2> QED
    BY <1>2, <1>3, <2>1, <2>2, <2>3, <2>4, <2>5 DEF Units, H, A, O
<1> QED
  BY <1>5, <1>6

\* The owner waits for all units.
LEMMA UnitsWait ==
  ASSUME UnitsInv,
         Rsem!BeginWait(Owner) \/ Rsem!SemWait(Owner) \/ Rsem!WaitTimeout(Owner) \/ Rsem!EndWait(Owner)
  PROVE  UnitsInv'
<1> DEFINE H == Cardinality(holds)
           T == SumOf(takes(gives))
           W == SumOf(waits(gives))
           A == AsleepAt(Request, pc)
           O == AsleepAt({Owner}, pc)
           q(b) == Placed(pc, Owner, b)
<1>1. Units(count, take_count, wait_count, take_sem, wait_sem, gives, holds, pc)
  BY UnitsBefore
<1>2. pc \in Pcs
  BY <1>1 DEF Units
<1>3. H \in Nat /\ T \in Nat /\ W \in Nat
  BY <1>1, UnitsNat
<1>4. /\ count \in 0..max_count /\ take_count \in Nat /\ wait_count \in Nat
      /\ take_sem \in Nat /\ wait_sem \in Nat
      /\ gives \in [Request -> [take : 0..1, wait : Nat]] /\ holds \subseteq Request
      /\ count = H + take_sem + T
      /\ A = take_count + take_sem + T
      /\ O = wait_count + wait_sem + W
      /\ count < max_count => take_count = 0
      /\ count = 0 => wait_count = 0
      /\ max_count \in Nat
  BY <1>1, PacketSetAssumption DEF Units
<1>5. \A b \in Labels :
        /\ q(b) \in Pcs
        /\ O \in Nat /\ AsleepAt(Request, q(b)) = A
        /\ pc[Owner] = "outside" /\ b \in Sleep => AsleepAt({Owner}, q(b)) = O + 1
        /\ pc[Owner] \in Sleep /\ b = "outside" => AsleepAt({Owner}, q(b)) = O - 1
        /\ pc[Owner] \in Sleep /\ b \in Sleep => AsleepAt({Owner}, q(b)) = O
  BY <1>2, OwnerMoves
<1>6. SUFFICES Units(count', take_count', wait_count', take_sem', wait_sem', gives', holds', pc')
  BY UnitsAfter
<1> HIDE DEF H, T, W, A, O, q
<1>7. CASE Rsem!BeginWait(Owner)
  <2>1. /\ pc[Owner] = "outside" /\ count > 0 /\ wait_count' = wait_count + 1
        /\ pc' = q("sleep") \/ pc' = q("timed")
        /\ UNCHANGED <<count, take_count, take_sem, wait_sem, gives, holds>>
    BY <1>7 DEF Rsem!BeginWait, Rsem!takeVars, Rsem!To, q, Placed
  <2>2. /\ pc' \in Pcs
        /\ AsleepAt(Request, pc') = A /\ AsleepAt({Owner}, pc') = O + 1
    BY <1>5, <2>1 DEF Sleep, Labels
  <2> QED
    BY <1>3, <1>4, <2>1, <2>2 DEF Units, T, W, H
<1>8. CASE Rsem!SemWait(Owner)
  <2>1. /\ pc[Owner] \in Sleep /\ wait_sem > 0 /\ wait_sem' = wait_sem - 1 /\ pc' = q("outside")
        /\ UNCHANGED <<count, take_count, wait_count, take_sem, gives, holds>>
    BY <1>8 DEF Rsem!SemWait, Rsem!takeVars, Rsem!To, q, Placed, Sleep
  <2>2. /\ pc' \in Pcs
        /\ AsleepAt(Request, pc') = A /\ AsleepAt({Owner}, pc') = O - 1
    BY <1>5, <2>1 DEF Sleep, Labels
  <2> QED
    BY <1>3, <1>4, <2>1, <2>2 DEF Units, T, W, H
<1>9. CASE Rsem!WaitTimeout(Owner)
  <2>1. /\ pc[Owner] \in Sleep /\ pc' = q("late")
        /\ UNCHANGED <<count, take_count, wait_count, take_sem, wait_sem, gives, holds>>
    BY <1>9 DEF Rsem!WaitTimeout, Rsem!takeVars, Rsem!waitVars, Rsem!To, q, Placed, Sleep
  <2>2. /\ pc' \in Pcs
        /\ AsleepAt(Request, pc') = A /\ AsleepAt({Owner}, pc') = O
    BY <1>5, <2>1 DEF Sleep, Labels
  <2> QED
    BY <1>3, <1>4, <2>1, <2>2 DEF Units, T, W, H
<1>10. CASE Rsem!EndWait(Owner)
  <2>1. /\ pc[Owner] \in Sleep
        /\ \/ wait_count > 0 /\ wait_count' = wait_count - 1 /\ pc' = q("outside")
           \/ wait_count = 0 /\ wait_count' = wait_count /\ pc' = q("retry")
        /\ UNCHANGED <<count, take_count, take_sem, wait_sem, gives, holds>>
    BY <1>10 DEF Rsem!EndWait, Rsem!takeVars, Rsem!To, q, Placed, Sleep
  <2>2. /\ pc' \in Pcs
        /\ AsleepAt(Request, pc') = A
        /\ AsleepAt({Owner}, pc') = IF wait_count > 0 THEN O - 1 ELSE O
    BY <1>4, <1>5, <2>1 DEF Sleep, Labels
  <2> QED
    BY <1>3, <1>4, <2>1, <2>2 DEF Units, T, W, H
<1> QED
  BY <1>7, <1>8, <1>9, <1>10

-----------------------------------------------------------------------------
\* The same for the AntiSem: things counted, the task counted, tokens, what is
\* owed, what each has added, and where the owner is.
Counts(n, wc, s, g, h, p) ==
  /\ n \in 0..Cardinality(External) /\ wc \in Nat /\ s \in Nat
  /\ g \in [External -> Nat] /\ h \in [External -> 0..Cardinality(External)]
  /\ p \in [{Owner} -> {"outside", "wait"}]
  /\ CountAt(p, "wait") = wc + s + SumOf(g)
  /\ n <= 0 => wc = 0

LEMMA CountsBefore == CountsInv <=> Counts(acount, await_count, asem, agives, aheld, apc)
BY SameOperators
   DEF CountsInv, Counts, Asem!TypeOK, Asem!TokensMatch, Asem!OpenWakesAll, Asem!Sleepers, Asem!N, Asem!Pending

LEMMA CountsAfter == CountsInv' <=> Counts(acount', await_count', asem', agives', aheld', apc')
BY SameOperators
   DEF CountsInv, Counts, Asem!TypeOK, Asem!TokensMatch, Asem!OpenWakesAll, Asem!Sleepers, Asem!N, Asem!Pending

\* A task adds its packet, takes it off, or gives the tokens that it owes.
LEMMA CountsUse ==
  ASSUME CountsInv, NEW e \in External, aheld[e] > 0 => acount >= 1,
         (Asem!Add(e) /\ aheld[e] = 0) \/ Asem!BeginSub(e) \/ Asem!SemGive(e)
  PROVE  CountsInv'
<1> DEFINE N == Cardinality(External)
           C == CountAt(apc, "wait")
           W == SumOf(agives)
<1>1. Counts(acount, await_count, asem, agives, aheld, apc)
  BY CountsBefore
<1>2. /\ acount \in 0..N /\ await_count \in Nat /\ asem \in Nat
      /\ agives \in [External -> Nat] /\ aheld \in [External -> 0..N]
      /\ apc \in [{Owner} -> {"outside", "wait"}]
      /\ C = await_count + asem + W
      /\ acount <= 0 => await_count = 0
  BY <1>1 DEF Counts
<1>3. N \in Nat /\ N >= 1
  BY Finite, FS_CardinalityType, FS_EmptySet
<1>4. W \in Nat
  BY <1>2, Finite, SumNat
<1>5. SUFFICES Counts(acount', await_count', asem', agives', aheld', apc')
  BY CountsAfter
<1>6. CASE Asem!Add(e) /\ aheld[e] = 0
  <2>1. /\ acount' = acount + 1 /\ acount < N /\ UNCHANGED <<await_count, asem, agives, apc>>
        /\ aheld' = [aheld EXCEPT ![e] = aheld[e] + 1]
    BY <1>6, SameOperators DEF Asem!Add
  <2>2. aheld' \in [External -> 0..N]
    BY <1>2, <1>3, <1>6, <2>1
  <2> HIDE DEF N, C, W
  <2>3. acount' \in 0..N /\ (acount' <= 0 => await_count' = 0)
    BY <1>2, <1>3, <2>1
  <2> QED
    BY <1>2, <2>1, <2>2, <2>3 DEF Counts, N, C, W
<1>7. CASE Asem!BeginSub(e)
  <2>1. /\ agives[e] = 0 /\ aheld[e] > 0 /\ acount' = acount - 1
        /\ aheld' = [aheld EXCEPT ![e] = aheld[e] - 1] /\ UNCHANGED <<asem, apc>>
        /\ \/ acount' <= 0 /\ agives' = Placed(agives, e, await_count) /\ await_count' = 0
           \/ acount' > 0 /\ UNCHANGED <<agives, await_count>>
    BY <1>7 DEF Asem!BeginSub, Placed
  <2>2. aheld' \in [External -> 0..N]
    BY <1>2, <1>3, <2>1
  <2>3. acount' \in 0..N
    BY <1>2, <1>3, <2>1
  <2>4. CASE acount' <= 0 /\ agives' = Placed(agives, e, await_count) /\ await_count' = 0
    <3>1. SumOf(agives') = W + await_count
      BY <1>2, <2>1, <2>4, Finite, SumMore
    <3>2. agives' \in [External -> Nat]
      BY <1>2, <2>4 DEF Placed
    <3>3. CountAt(apc', "wait") = await_count' + asem' + SumOf(agives')
      BY <1>2, <1>4, <2>1, <2>4, <3>1
    <3>4. await_count' = 0
      BY <2>4
    <3> HIDE DEF N, C, W
    <3> QED
      BY <1>2, <2>1, <2>2, <2>3, <3>2, <3>3, <3>4 DEF Counts, N
  <2>5. CASE acount' > 0 /\ UNCHANGED <<agives, await_count>>
    <3> HIDE DEF N, C, W
    <3> QED
      BY <1>2, <2>1, <2>2, <2>3, <2>5 DEF Counts, N, C, W
  <2> QED
    BY <2>1, <2>4, <2>5
<1>8. CASE Asem!SemGive(e)
  <2>1. /\ asem' = asem + agives[e] /\ agives' = Placed(agives, e, 0)
        /\ UNCHANGED <<acount, await_count, aheld, apc>>
    BY <1>8 DEF Asem!SemGive, Placed
  <2>2. W = SumOf(agives') + agives[e]
    BY <1>2, <2>1, Finite, SumLess
  <2>3. agives' \in [External -> Nat] /\ agives[e] \in Nat
    BY <1>2, <2>1 DEF Placed
  <2>4. SumOf(agives') \in Nat
    BY <2>3, Finite, SumNat
  <2> HIDE DEF N, C, W
  <2>5. CountAt(apc', "wait") = await_count' + asem' + SumOf(agives')
    BY <1>2, <1>4, <2>1, <2>2, <2>3, <2>4 DEF C
  <2>6. asem' \in Nat
    BY <1>2, <2>1, <2>3
  <2> QED
    BY <1>2, <2>1, <2>3, <2>5, <2>6 DEF Counts, N
<1> QED
  BY <1>6, <1>7, <1>8

\* The owner waits for the packets of others.
LEMMA CountsWait ==
  ASSUME CountsInv, Asem!BeginWait(Owner) \/ Asem!SemTake(Owner)
  PROVE  CountsInv'
<1> DEFINE C == CountAt(apc, "wait")
           W == SumOf(agives)
<1>1. Counts(acount, await_count, asem, agives, aheld, apc)
  BY CountsBefore
<1>2. /\ await_count \in Nat /\ asem \in Nat /\ acount \in 0..Cardinality(External)
      /\ apc \in [{Owner} -> {"outside", "wait"}]
      /\ C = await_count + asem + W
      /\ agives \in [External -> Nat] /\ aheld \in [External -> 0..Cardinality(External)]
      /\ acount <= 0 => await_count = 0
  BY <1>1 DEF Counts
<1>3. W \in Nat /\ IsFiniteSet({Owner})
  BY <1>2, Finite, SumNat, FS_Singleton
<1>4. SUFFICES Counts(acount', await_count', asem', agives', aheld', apc')
  BY CountsAfter
<1>5. CASE Asem!BeginWait(Owner)
  <2>1. /\ acount > 0 /\ await_count' = await_count + 1 /\ UNCHANGED <<acount, asem, agives, aheld>>
    BY <1>5 DEF Asem!BeginWait
  <2>2. Moves(apc, apc', Owner, "outside", "wait")
    BY <1>2, <1>5 DEF Asem!BeginWait, Asem!To, Moves
  <2>3. CountAt(apc', "wait") = C + 1
    <3> DEFINE T == {Owner}
               S == {"outside", "wait"}
               a == "outside"
               b == "wait"
               q == apc'
    <3>1. apc \in [T -> S] /\ IsFiniteSet(T) /\ Moves(apc, q, Owner, a, b)
      BY <1>2, <1>3, <2>2
    <3> HIDE DEF T, S, a, b, q
    <3>2. CountAt(q, b) = CountAt(apc, b) + 1
      BY <3>1, CountStep, Z3
    <3> QED
      BY <3>2 DEF b, q
  <2>4. apc' \in [{Owner} -> {"outside", "wait"}]
    BY <1>2, <2>2 DEF Moves
  <2> HIDE DEF C, W
  <2>5. CountAt(apc', "wait") = await_count' + asem' + W
    BY <1>2, <1>3, <2>1, <2>3
  <2> QED
    BY <1>2, <2>1, <2>4, <2>5 DEF Counts, W
<1>6. CASE Asem!SemTake(Owner)
  <2>1. /\ asem > 0 /\ asem' = asem - 1 /\ UNCHANGED <<acount, await_count, agives, aheld>>
    BY <1>6 DEF Asem!SemTake
  <2>2. Moves(apc, apc', Owner, "wait", "outside")
    BY <1>2, <1>6 DEF Asem!SemTake, Asem!To, Moves
  <2>3. CountAt(apc', "wait") = C - 1
    <3> DEFINE T == {Owner}
               S == {"outside", "wait"}
               a == "wait"
               b == "outside"
               q == apc'
    <3>1. apc \in [T -> S] /\ IsFiniteSet(T) /\ Moves(apc, q, Owner, a, b)
      BY <1>2, <1>3, <2>2
    <3> HIDE DEF T, S, a, b, q
    <3>2. CountAt(q, a) = CountAt(apc, a) - 1
      BY <3>1, CountStep
    <3> QED
      BY <3>2 DEF a, q
  <2>4. apc' \in [{Owner} -> {"outside", "wait"}]
    BY <1>2, <2>2 DEF Moves
  <2> HIDE DEF C, W
  <2>5. CountAt(apc', "wait") = await_count' + asem' + W
    BY <1>2, <1>3, <2>1, <2>3
  <2> QED
    BY <1>2, <2>1, <2>4, <2>5 DEF Counts, W
<1> QED
  BY <1>5, <1>6

-----------------------------------------------------------------------------
\* Steps that leave a semaphore alone.
LEMMA UnitsStay ==
  ASSUME UnitsInv, UNCHANGED rsemVars
  PROVE  UnitsInv'
BY UnitsBefore, UnitsAfter DEF rsemVars

LEMMA CountsStay ==
  ASSUME CountsInv, UNCHANGED asemVars
  PROVE  CountsInv'
BY CountsBefore, CountsAfter DEF asemVars

\* No request and external packet are the same.
LEMMA Distinct ==
  /\ Request \cap External = {} /\ Packet = Request \cup External
  /\ Owner \notin Packet /\ User \notin Packet /\ Owner # User
  /\ Owner \in Canceller /\ User \in Canceller
BY PacketSetAssumption DEF Packet, Canceller

\* A packet goes to another place where it has its unit, or a canceller goes on:
\* nothing changes for the semaphores.
LEMMA StaysIn ==
  ASSUME IInv, UNCHANGED <<semVars, closed>>,
         \/ UNCHANGED loc
         \/ \E r \in Packet, b \in HasUnit \ {"got"} : loc[r] \in HasUnit /\ To(r, b),
         \/ UNCHANGED stage
         \/ \E c \in Canceller, b \in {"idle", "due", "build", "cancel", "wait"} :
              stage[c] \in {"idle", "due", "build", "cancel", "wait"} /\ Goes(c, b)
  PROVE  RequestsMatch' /\ ExternalsMatch' /\ UnitsInv' /\ CountsInv' /\ ClosedInv'
<1> USE Distinct DEF semVars, rsemVars, asemVars
<1>1. UnitsInv' /\ CountsInv'
  BY UnitsStay, CountsStay DEF IInv
<1>2. /\ loc' \in [Packet -> {"out", "getting", "got", "held", "queue", "left",
                              "completed", "unlisted", "giving"}]
      /\ \A r \in Packet : loc'[r] = loc[r] \/ (loc[r] \in HasUnit /\ loc'[r] \in HasUnit \ {"got"})
  BY DEF IInv, Data, Types, To, HasUnit
<1>3. \/ stage'[Owner] = stage[Owner]
      \/ {stage[Owner], stage'[Owner]} \subseteq {"idle", "due", "build", "cancel", "wait"}
  BY DEF IInv, Data, Types, Goes
<1>4. RequestsMatch'
  BY <1>2, <1>3 DEF IInv, RequestsMatch, HasUnit, Rsem!NoGive
<1>5. ExternalsMatch'
  <2>1. \A e \in External : loc'[e] \notin {"out", "giving"} <=> loc[e] \notin {"out", "giving"}
    BY <1>2 DEF HasUnit
  <2>2. {e \in External : loc'[e] \notin {"out", "giving"}} = {e \in External : loc[e] \notin {"out", "giving"}}
    BY <2>1
  <2>3. acount' = Cardinality({e \in External : loc'[e] \notin {"out", "giving"}})
    BY <2>2 DEF IInv, ExternalsMatch
  <2>4. apc'[Owner] = "wait" <=> stage'[Owner] = "drained"
    BY <1>3 DEF IInv, ExternalsMatch
  <2>5. \A e \in External : /\ loc'[e] # "getting"
                            /\ aheld'[e] = IF loc'[e] \in HasUnit THEN 1 ELSE 0
                            /\ agives'[e] = 0 <=> loc'[e] # "giving"
    BY <1>2 DEF IInv, ExternalsMatch, HasUnit
  <2> QED
    BY <2>3, <2>4, <2>5 DEF ExternalsMatch
<1>6. ClosedInv'
  BY <1>2, <1>3 DEF IInv, ClosedInv, HasUnit
<1> QED
  BY <1>1, <1>4, <1>5, <1>6

LEMMA HoldingKept ==
  ASSUME IInv, NEW r \in Packet, Holding(r)
  PROVE  IInv'
<1>1. Data'
  BY DataHolding DEF IInv
<1>2. UNCHANGED <<semVars, closed, stage>>
  BY DEF Holding, Add, Put, Serve, Complete, Del, cancelVars
<1>3. \E b \in HasUnit \ {"got"} : loc[r] \in HasUnit /\ To(r, b)
  BY DEF Holding, Add, Put, Serve, Complete, Del, HasUnit
<1>4. RequestsMatch' /\ ExternalsMatch' /\ UnitsInv' /\ CountsInv' /\ ClosedInv'
  BY <1>2, <1>3, StaysIn
<1> QED
  BY <1>1, <1>4 DEF IInv

LEMMA CancellingKept ==
  ASSUME IInv, NEW c \in Canceller, Build(c) \/ Cancelling(c)
  PROVE  IInv'
<1>1. Data'
  BY DataCancelling DEF IInv
<1>2. UNCHANGED <<semVars, closed>>
  BY DEF Build, Cancelling, BuildOne, BuildEnd, CancelOne, CancelEnd
<1>3. \/ UNCHANGED stage
      \/ \E b \in {"idle", "due", "build", "cancel", "wait"} :
           stage[c] \in {"idle", "due", "build", "cancel", "wait"} /\ Goes(c, b)
  BY DEF Build, Cancelling, BuildOne, BuildEnd, CancelOne, CancelEnd
<1>4. \/ UNCHANGED loc
      \/ \E r \in Packet, b \in HasUnit \ {"got"} : loc[r] \in HasUnit /\ To(r, b)
  <2>1. CASE CancelOne(c)
    <3>1. PICK r \in Packet : ext[r] = c /\ To(r, "completed")
      BY <2>1 DEF CancelOne
    <3>2. at[c] = NoPacket
      BY <2>1 DEF CancelOne
    <3>3. Doomed(r)
      BY <3>1, <3>2, PacketSetAssumption DEF IInv, Data, OneCompletes
    <3> QED
      BY <3>1, <3>3 DEF Doomed, HasUnit
  <2>2. CASE ~CancelOne(c)
    BY <2>2 DEF Build, Cancelling, BuildOne, BuildEnd, CancelEnd
  <2> QED
    BY <2>1, <2>2
<1>5. RequestsMatch' /\ ExternalsMatch' /\ UnitsInv' /\ CountsInv' /\ ClosedInv'
  BY <1>2, <1>3, <1>4, StaysIn
<1> QED
  BY <1>1, <1>5 DEF IInv

-----------------------------------------------------------------------------
\* A step that leaves the packets of others alone, and one that leaves those of
\* the set alone.
LEMMA ExternalsStay ==
  ASSUME ExternalsMatch, UNCHANGED asemVars, \A e \in External : loc'[e] = loc[e],
         stage'[Owner] = "drained" <=> stage[Owner] = "drained"
  PROVE  ExternalsMatch'
<1>1. {e \in External : loc'[e] \notin {"out", "giving"}} = {e \in External : loc[e] \notin {"out", "giving"}}
  OBVIOUS
<1> QED
  BY <1>1 DEF ExternalsMatch, asemVars

LEMMA RequestsStay ==
  ASSUME RequestsMatch, UNCHANGED rsemVars, \A r \in Request : loc'[r] = loc[r],
         stage'[Owner] = "asleep" <=> stage[Owner] = "asleep"
  PROVE  RequestsMatch'
BY DEF RequestsMatch, rsemVars, Rsem!NoGive

\* A task gets a packet from the set.
LEMMA GettingKept ==
  ASSUME IInv, NEW r \in Request, Getting(r)
  PROVE  IInv'
<1> USE Distinct
<1>1. /\ loc \in [Packet -> {"out", "getting", "got", "held", "queue", "left",
                             "completed", "unlisted", "giving"}]
      /\ r \in Packet /\ r \notin External /\ r # Owner
      /\ pc \in [Request \cup {Owner} -> {"outside", "sleep", "timed", "late", "retry"}]
      /\ gives \in [Request -> [take : 0..1, wait : Nat]]
  BY DEF IInv, Data, Types, UnitsInv, Rsem!TypeOK
<1>2. /\ UNCHANGED <<list, ext, cancel, stage, todo, at, closed>>
      /\ UNCHANGED asemVars
  BY DEF Getting, Get, GetWoken, GetFails, cancelVars, semVars
<1>3. /\ loc[r] \in {"out", "getting", "got"}
      /\ loc[r] = "out" => ~closed
      /\ \E b \in Apart : To(r, b)
  <2>1. UNCHANGED loc => To(r, loc[r])
    BY <1>1 DEF To
  <2> QED
    BY <2>1 DEF Getting, Get, GetWoken, GetFails, May, Apart
<1>4. Data'
  BY <1>1, <1>2, <1>3, DataApart DEF IInv, Apart
<1>5. ExternalsMatch' /\ CountsInv'
  BY <1>1, <1>2, <1>3, ExternalsStay, CountsStay DEF IInv, To
<1>6. UnitsInv'
  <2>1. pc[r] # "outside" => r \notin holds
    BY DEF IInv, RequestsMatch, HasUnit
  <2>2. CASE GetFails(r)
    BY <2>2, UnitsStay DEF GetFails, semVars, IInv
  <2>3. CASE ~GetFails(r)
    BY <2>1, <2>3, UnitsTake DEF IInv, Getting, Get, GetWoken
  <2> QED
    BY <2>2, <2>3
<1>7. ClosedInv'
  <2>1. ~closed
    BY <1>1, <1>3 DEF IInv, ClosedInv
  <2> QED
    BY <2>1, <1>2 DEF IInv, ClosedInv
<1>8. RequestsMatch'
  <2>1. /\ \A x \in Request : /\ x \in holds <=> loc[x] \in HasUnit
                              /\ pc[x] = "outside" <=> loc[x] # "getting"
                              /\ gives[x] = Rsem!NoGive <=> loc[x] # "giving"
        /\ pc[Owner] = "outside" <=> stage[Owner] # "asleep"
    BY DEF IInv, RequestsMatch
  <2>2. Rsem!NoGive' = Rsem!NoGive
    BY DEF Rsem!NoGive
  <2>3. CASE Get(r)
    <3>1. loc[r] = "out" /\ UNCHANGED gives
      BY <2>3 DEF Get, May, Rsem!TakeNow, Rsem!BeginTake
    <3>2. CASE Rsem!TakeNow(r) /\ To(r, "got")
      BY <1>1, <1>2, <2>1, <2>2, <3>1, <3>2 DEF RequestsMatch, Rsem!TakeNow, To, HasUnit
    <3>3. CASE Rsem!BeginTake(r) /\ To(r, "getting")
      BY <1>1, <1>2, <2>1, <2>2, <3>1, <3>3 DEF RequestsMatch, Rsem!BeginTake, Rsem!To, To, HasUnit
    <3> QED
      BY <2>3, <3>2, <3>3 DEF Get
  <2>4. CASE GetWoken(r)
    <3>1. loc[r] = "getting" /\ UNCHANGED gives
      BY <2>4 DEF GetWoken, Rsem!SemTake, Rsem!TakeTimeout, Rsem!EndTake
    <3>2. CASE Rsem!SemTake(r) /\ To(r, "got")
      BY <1>1, <1>2, <2>1, <2>2, <3>1, <3>2 DEF RequestsMatch, Rsem!SemTake, Rsem!To, To, HasUnit
    <3>3. CASE Rsem!TakeTimeout(r) /\ UNCHANGED loc
      BY <1>1, <1>2, <2>1, <2>2, <3>1, <3>3 DEF RequestsMatch, Rsem!TakeTimeout, Rsem!To, HasUnit
    <3>4. CASE Rsem!EndTake(r) /\ To(r, IF pc'[r] = "outside" THEN "out" ELSE "getting")
      <4>1. UNCHANGED holds /\ pc' \in {[pc EXCEPT ![r] = "outside"], [pc EXCEPT ![r] = "retry"]}
        BY <3>4 DEF Rsem!EndTake, Rsem!To
      <4> QED
        BY <1>1, <1>2, <2>1, <2>2, <3>1, <3>4, <4>1 DEF RequestsMatch, To, HasUnit
    <3> QED
      BY <2>4, <3>2, <3>3, <3>4 DEF GetWoken
  <2>5. CASE GetFails(r)
    BY <1>1, <1>2, <2>1, <2>2, <2>5 DEF GetFails, RequestsMatch, To, HasUnit, semVars, rsemVars
  <2> QED
    BY <2>3, <2>4, <2>5 DEF Getting
<1> QED
  BY <1>4, <1>5, <1>6, <1>7, <1>8 DEF IInv

\* A request gives its unit back.
LEMMA GiveKept ==
  ASSUME IInv, NEW r \in Request, Give(r)
  PROVE  IInv'
<1> USE Distinct
<1>1. /\ loc \in [Packet -> {"out", "getting", "got", "held", "queue", "left",
                             "completed", "unlisted", "giving"}]
      /\ r \in Packet /\ r \notin External
      /\ gives \in [Request -> [take : 0..1, wait : Nat]] /\ wait_count \in Nat
      /\ count \in Nat
  BY PacketSetAssumption DEF IInv, Data, Types, UnitsInv, Rsem!TypeOK
<1>2. /\ UNCHANGED <<list, ext, cancel, stage, todo, closed>>
      /\ UNCHANGED asemVars
      /\ loc[r] \in {"unlisted", "giving"}
      /\ To(r, IF gives'[r] # Rsem!NoGive THEN "giving" ELSE "out")
      /\ at' = [c \in Canceller |-> IF at[c] = r /\ ~(gives'[r] # Rsem!NoGive) THEN NoPacket ELSE at[c]]
  BY DEF Give, Done
<1>3. Data'
  <2>1. \/ To(r, "giving") /\ at' = [c \in Canceller |-> IF at[c] = r /\ "giving" = "out" THEN NoPacket ELSE at[c]]
        \/ To(r, "out") /\ at' = [c \in Canceller |-> IF at[c] = r /\ "out" = "out" THEN NoPacket ELSE at[c]]
    BY <1>2
  <2>2. \E b \in Apart : /\ To(r, b)
                         /\ at' = [c \in Canceller |-> IF at[c] = r /\ b = "out" THEN NoPacket ELSE at[c]]
    BY <2>1 DEF Apart
  <2> QED
    BY <1>1, <1>2, <2>2, DataApart DEF IInv, Apart
<1>4. ExternalsMatch' /\ CountsInv'
  BY <1>1, <1>2, ExternalsStay, CountsStay DEF IInv, To
<1>5. (Rsem!BeginGive(r) /\ loc[r] = "unlisted") \/ (Rsem!SemGive(r) /\ loc[r] = "giving")
  BY Zenon DEF Give
<1>6. UnitsInv'
  BY <1>5, UnitsGive DEF IInv
<1>7. ClosedInv'
  <2>1. stage[Owner] \notin {"drain", "drained", "dead"}
    BY <1>2 DEF IInv, ClosedInv
  <2>2. closed /\ stage[Owner] = "asleep" /\ wait_count' = 0 => count' = 0
    BY <1>1, <1>5 DEF IInv, ClosedInv, Rsem!BeginGive, Rsem!SemGive
  <2>3. closed => \A x \in Packet : loc'[x] \notin {"getting", "got"}
    BY <1>1, <1>2 DEF IInv, ClosedInv, To
  <2> QED
    BY <1>2, <2>1, <2>2, <2>3 DEF ClosedInv
<1>8. RequestsMatch'
  <2>1. /\ \A x \in Request : /\ x \in holds <=> loc[x] \in HasUnit
                              /\ pc[x] = "outside" <=> loc[x] # "getting"
                              /\ gives[x] = Rsem!NoGive <=> loc[x] # "giving"
        /\ pc[Owner] = "outside" <=> stage[Owner] # "asleep"
    BY DEF IInv, RequestsMatch
  <2>2. Rsem!NoGive' = Rsem!NoGive
    BY DEF Rsem!NoGive
  <2>3. /\ holds' = holds \ {r} /\ UNCHANGED pc
        /\ \A x \in Request \ {r} : gives'[x] = gives[x]
    <3>1. CASE Rsem!BeginGive(r)
      BY <1>1, <3>1 DEF Rsem!BeginGive
    <3>2. CASE Rsem!SemGive(r) /\ loc[r] = "giving"
      BY <1>1, <2>1, <3>2 DEF Rsem!SemGive, HasUnit
    <3> QED
      BY <1>5, <3>1, <3>2
  <2>4. /\ \A x \in Request \ {r} : loc'[x] = loc[x]
        /\ loc'[r] = IF gives'[r] # Rsem!NoGive THEN "giving" ELSE "out"
    BY <1>1, <1>2 DEF To
  <2> QED
    BY <1>2, <2>1, <2>2, <2>3, <2>4 DEF RequestsMatch, HasUnit
<1> QED
  BY <1>3, <1>4, <1>6, <1>7, <1>8 DEF IInv

\* A task enlists the packet of another, and it comes back.
LEMMA EnlistKept ==
  ASSUME IInv, NEW e \in External, Enlist(e)
  PROVE  IInv'
<1> USE Distinct
<1>1. /\ loc \in [Packet -> {"out", "getting", "got", "held", "queue", "left",
                             "completed", "unlisted", "giving"}]
      /\ e \in Packet /\ e \notin Request
      /\ aheld \in [External -> 0..Cardinality(External)]
      /\ Cardinality(External) \in Nat
  BY SameOperators, Finite, FS_CardinalityType DEF IInv, Data, Types, CountsInv, Asem!TypeOK
<1>2. /\ UNCHANGED <<list, ext, cancel, stage, todo, at, closed>>
      /\ UNCHANGED rsemVars
      /\ loc[e] = "out" /\ ~closed /\ To(e, "got") /\ Asem!Add(e)
  BY DEF Enlist, May, cancelVars
<1>3. Data'
  BY <1>1, <1>2, DataApart DEF IInv, Apart
<1>4. RequestsMatch' /\ UnitsInv'
  BY <1>1, <1>2, RequestsStay, UnitsStay DEF IInv, To
<1>5. aheld[e] = 0
  BY <1>2 DEF IInv, ExternalsMatch, HasUnit
<1>6. CountsInv'
  BY <1>2, <1>5, CountsUse DEF IInv
<1>7. ClosedInv'
  BY <1>2 DEF IInv, ClosedInv
<1>8. ExternalsMatch'
  <2> DEFINE S == {x \in External : loc[x] \notin {"out", "giving"}}
             T == {x \in External : loc'[x] \notin {"out", "giving"}}
  <2>1. T = S \cup {e} /\ e \notin S
    BY <1>1, <1>2 DEF To
  <2>2. IsFiniteSet(S) /\ acount = Cardinality(S)
    BY Finite, FS_Subset DEF IInv, ExternalsMatch
  <2>3. acount' = Cardinality(T)
    <3>1. acount' = acount + 1
      BY <1>2 DEF Asem!Add
    <3> HIDE DEF S, T
    <3> QED
      BY <2>1, <2>2, <3>1, OneMore
  <2>4. \A x \in External : /\ loc'[x] # "getting"
                            /\ aheld'[x] = IF loc'[x] \in HasUnit THEN 1 ELSE 0
                            /\ agives'[x] = 0 <=> loc'[x] # "giving"
    <3>1. /\ \A x \in External \ {e} : loc'[x] = loc[x] /\ aheld'[x] = aheld[x]
          /\ UNCHANGED agives /\ loc'[e] = "got" /\ aheld'[e] = 1
      BY <1>1, <1>2, <1>5 DEF To, Asem!Add
    <3> QED
      BY <1>2, <3>1 DEF IInv, ExternalsMatch, HasUnit
  <2>5. apc'[Owner] = "wait" <=> stage'[Owner] = "drained"
    BY <1>2 DEF IInv, ExternalsMatch, Asem!Add
  <2> QED
    BY <2>3, <2>4, <2>5 DEF ExternalsMatch
<1> QED
  BY <1>3, <1>4, <1>6, <1>7, <1>8 DEF IInv

LEMMA DecKept ==
  ASSUME IInv, NEW e \in External, Dec(e)
  PROVE  IInv'
<1> USE Distinct
<1>1. /\ loc \in [Packet -> {"out", "getting", "got", "held", "queue", "left",
                             "completed", "unlisted", "giving"}]
      /\ e \in Packet /\ e \notin Request
      /\ aheld \in [External -> 0..Cardinality(External)]
      /\ agives \in [External -> Nat] /\ await_count \in Nat /\ acount \in Nat
      /\ Cardinality(External) \in Nat
  BY SameOperators, Finite, FS_CardinalityType DEF IInv, Data, Types, CountsInv, Asem!TypeOK
<1>2. /\ UNCHANGED <<list, ext, cancel, stage, todo, closed>>
      /\ UNCHANGED rsemVars
      /\ loc[e] \in {"unlisted", "giving"}
      /\ To(e, IF agives'[e] > 0 THEN "giving" ELSE "out")
      /\ at' = [c \in Canceller |-> IF at[c] = e /\ ~(agives'[e] > 0) THEN NoPacket ELSE at[c]]
  BY DEF Dec, Done
<1>3. Data'
  <2>1. \/ To(e, "giving") /\ at' = [c \in Canceller |-> IF at[c] = e /\ "giving" = "out" THEN NoPacket ELSE at[c]]
        \/ To(e, "out") /\ at' = [c \in Canceller |-> IF at[c] = e /\ "out" = "out" THEN NoPacket ELSE at[c]]
    BY <1>2
  <2>2. \E b \in Apart : /\ To(e, b)
                         /\ at' = [c \in Canceller |-> IF at[c] = e /\ b = "out" THEN NoPacket ELSE at[c]]
    BY <2>1 DEF Apart
  <2> QED
    BY <1>1, <1>2, <2>2, DataApart DEF IInv, Apart
<1>4. RequestsMatch' /\ UnitsInv'
  BY <1>1, <1>2, RequestsStay, UnitsStay DEF IInv, To
<1>5. (Asem!BeginSub(e) /\ loc[e] = "unlisted") \/ (Asem!SemGive(e) /\ loc[e] = "giving")
  BY Zenon DEF Dec
<1> DEFINE S == {x \in External : loc[x] \notin {"out", "giving"}}
           T == {x \in External : loc'[x] \notin {"out", "giving"}}
<1>6. IsFiniteSet(S) /\ acount = Cardinality(S)
  BY Finite, FS_Subset DEF IInv, ExternalsMatch
<1>7. aheld[e] > 0 => acount >= 1
  <2>1. aheld[e] > 0 => e \in S
    BY DEF IInv, ExternalsMatch, HasUnit
  <2> HIDE DEF S
  <2> QED
    BY <1>6, <2>1, OneLess
<1>8. CountsInv'
  BY <1>5, <1>7, CountsUse DEF IInv
<1>9. /\ \A x \in External \ {e} : loc'[x] = loc[x] /\ aheld'[x] = aheld[x] /\ agives'[x] = agives[x]
      /\ loc'[e] = IF agives'[e] > 0 THEN "giving" ELSE "out"
      /\ agives'[e] \in Nat /\ UNCHANGED apc
  BY <1>1, <1>2, <1>5 DEF To, Asem!BeginSub, Asem!SemGive
<1>10. ExternalsMatch'
  <2>1. T = S \ {e}
    BY <1>2, <1>9
  <2>2. e \in S <=> loc[e] = "unlisted"
    BY <1>2
  <2>3. acount' = IF e \in S THEN acount - 1 ELSE acount
    BY <1>5, <2>2 DEF Asem!BeginSub, Asem!SemGive
  <2>4. acount' = Cardinality(T)
    <3>1. CASE e \in S
      <4> HIDE DEF S, T
      <4> QED
        BY <1>6, <2>1, <2>3, <3>1, OneLess
    <3>2. CASE e \notin S
      <4>1. T = S
        BY <2>1, <3>2
      <4> QED
        BY <1>6, <2>3, <3>2, <4>1
    <3> QED
      BY <3>1, <3>2
  <2>5. aheld'[e] = 0
    <3>1. loc[e] = "unlisted" => aheld[e] = 1
      BY DEF IInv, ExternalsMatch, HasUnit
    <3>2. loc[e] = "giving" => aheld[e] = 0
      BY DEF IInv, ExternalsMatch, HasUnit
    <3> QED
      BY <1>1, <1>5, <3>1, <3>2 DEF Asem!BeginSub, Asem!SemGive
  <2>6. \A x \in External : /\ loc'[x] # "getting"
                            /\ aheld'[x] = IF loc'[x] \in HasUnit THEN 1 ELSE 0
                            /\ agives'[x] = 0 <=> loc'[x] # "giving"
    <3>1. \A x \in External \ {e} : /\ loc'[x] # "getting"
                                    /\ aheld'[x] = IF loc'[x] \in HasUnit THEN 1 ELSE 0
                                    /\ agives'[x] = 0 <=> loc'[x] # "giving"
      BY <1>9 DEF IInv, ExternalsMatch
    <3> QED
      BY <1>9, <2>5, <3>1 DEF HasUnit
  <2>7. apc'[Owner] = "wait" <=> stage'[Owner] = "drained"
    BY <1>2, <1>9 DEF IInv, ExternalsMatch
  <2> QED
    BY <2>4, <2>6, <2>7 DEF ExternalsMatch
<1>11. ClosedInv'
  <2>1. stage[Owner] # "dead"
    BY <1>2 DEF IInv, ClosedInv
  <2>2. \A x \in Packet \ {e} : loc'[x] = loc[x]
    BY <1>1, <1>2 DEF To
  <2>3. await_count' = 0 => acount' = 0 \/ await_count = 0
    BY <1>1, <1>5, <1>8, SameOperators DEF Asem!BeginSub, Asem!SemGive, CountsInv, Asem!TypeOK
  <2>4. acount = 0 => acount' = 0
    <3>1. acount = 0 => Asem!SemGive(e)
      BY <1>1, <1>5, <1>7 DEF Asem!BeginSub
    <3> QED
      BY <3>1 DEF Asem!SemGive
  <2>5. UNCHANGED <<count, wait_count>>
    BY <1>2 DEF rsemVars
  <2>6. closed => \A x \in Packet : loc'[x] \notin {"getting", "got"}
    BY <1>9, <2>2 DEF IInv, ClosedInv
  <2>7. stage[Owner] \in {"drain", "drained", "dead"} => closed /\ \A x \in Request : loc'[x] = "out"
    BY <1>1, <2>2 DEF IInv, ClosedInv
  <2> QED
    BY <1>2, <2>1, <2>3, <2>4, <2>5, <2>6, <2>7 DEF IInv, ClosedInv
<1> QED
  BY <1>3, <1>4, <1>8, <1>10, <1>11 DEF IInv

-----------------------------------------------------------------------------
\* The owner is one task.
LEMMA OwnerIsOne ==
  ASSUME NEW p
  PROVE  /\ AsleepAt({Owner}, p) \in Nat /\ AsleepAt({Owner}, p) <= 1
         /\ p[Owner] = "outside" => AsleepAt({Owner}, p) = 0
<1>1. {t \in {Owner} : p[t] \in Sleep} = IF p[Owner] \in Sleep THEN {Owner} ELSE {}
  OBVIOUS
<1>2. Cardinality({Owner}) = 1 /\ Cardinality({}) = 0
  BY FS_Singleton, FS_EmptySet
<1>3. p[Owner] = "outside" => p[Owner] \notin Sleep
  BY DEF Sleep
<1> QED
  BY <1>1, <1>2, <1>3 DEF AsleepAt

\* No unit is out, and nobody owes a token to the owner: the packets of the set
\* are all back, and their tasks are through with give().
LEMMA AllBack ==
  ASSUME IInv, closed, count = 0, SumOf(waits(gives)) = 0
  PROVE  \A r \in Request : loc[r] = "out"
<1> DEFINE H == Cardinality(holds)
           T == SumOf(takes(gives))
<1>1. Units(count, take_count, wait_count, take_sem, wait_sem, gives, holds, pc)
  BY UnitsBefore DEF IInv
<1>2. /\ IsFiniteSet(holds) /\ H \in Nat /\ T \in Nat
      /\ takes(gives) \in [Request -> Nat] /\ waits(gives) \in [Request -> Nat]
  BY <1>1, UnitsNat
<1>3. count = H + take_sem + T /\ take_sem \in Nat
      /\ gives \in [Request -> [take : 0..1, wait : Nat]]
  BY <1>1 DEF Units
<1>4. H = 0 /\ T = 0
  <2> HIDE DEF H, T
  <2> QED
    BY <1>2, <1>3
<1>5. holds = {}
  BY <1>2, <1>4, FS_EmptySet
<1>6. \A r \in Request : takes(gives)[r] = 0 /\ waits(gives)[r] = 0
  BY <1>2, <1>4, Finite, SumNone
<1>7. \A r \in Request : gives[r] = Rsem!NoGive
  BY <1>3, <1>6 DEF takes, waits, Rsem!NoGive
<1>8. \A r \in Request : loc[r] \notin HasUnit /\ loc[r] # "giving" /\ loc[r] # "getting"
  BY <1>5, <1>7, Distinct DEF IInv, RequestsMatch, ClosedInv
<1> QED
  BY <1>8, Distinct DEF IInv, Data, Types, HasUnit

\* The same for the packets of others.
LEMMA AllOthersBack ==
  ASSUME IInv, acount = 0, SumOf(agives) = 0
  PROVE  \A e \in External : loc[e] = "out"
<1> DEFINE S == {e \in External : loc[e] \notin {"out", "giving"}}
<1>1. IsFiniteSet(S) /\ Cardinality(S) = 0
  BY Finite, FS_Subset DEF IInv, ExternalsMatch
<1>2. S = {}
  BY <1>1, FS_EmptySet
<1>3. agives \in [External -> Nat]
  BY DEF IInv, CountsInv, Asem!TypeOK
<1>4. \A e \in External : agives[e] = 0
  BY <1>3, Finite, SumNone
<1> QED
  BY <1>2, <1>4 DEF IInv, ExternalsMatch

\* rsem.wait() : the owner sleeps until all units are back, or finds them back.
LEMMA WaitKept ==
  ASSUME IInv, Wait \/ TimedWait \/ Woken
  PROVE  IInv'
<1> USE Distinct
<1>1. /\ stage \in [Canceller -> {"idle", "due", "build", "cancel", "wait", "asleep",
                                  "drain", "drained", "dead"}]
      /\ pc \in [Request \cup {Owner} -> {"outside", "sleep", "timed", "late", "retry"}]
      /\ closed \in BOOLEAN /\ wait_count \in Nat /\ count \in Nat
  BY PacketSetAssumption DEF IInv, Data, Types, UnitsInv, Rsem!TypeOK
<1>2. /\ UNCHANGED <<loc, list, ext, cancel, todo, at, closed>>
      /\ UNCHANGED asemVars
      /\ stage[Owner] \in {"wait", "idle", "asleep"}
      /\ \E b \in {"idle", "due", "asleep", "drain"} : Goes(Owner, b)
  <2>1. UNCHANGED stage /\ stage[Owner] = "asleep" => Goes(Owner, "asleep")
    BY <1>1 DEF Goes
  <2> QED
    BY <2>1 DEF Wait, TimedWait, Woken, Returns
<1>3. stage' = [stage EXCEPT ![Owner] = stage'[Owner]] /\ stage'[Owner] \in {"idle", "due", "asleep", "drain"}
  BY <1>1, <1>2 DEF Goes
<1>4. Data'
  BY <1>1, <1>2, <1>3, DataOwner DEF IInv
<1>5. ExternalsMatch' /\ CountsInv'
  BY <1>2, <1>3, ExternalsStay, CountsStay DEF IInv
<1>6. \/ UNCHANGED rsemVars
      \/ Rsem!BeginWait(Owner) \/ Rsem!SemWait(Owner) \/ Rsem!WaitTimeout(Owner) \/ Rsem!EndWait(Owner)
  BY DEF Wait, TimedWait, Woken
<1>7. UnitsInv'
  BY <1>6, UnitsWait, UnitsStay DEF IInv
<1>8. UNCHANGED <<gives, holds, count>> /\ pc' = [pc EXCEPT ![Owner] = pc'[Owner]]
  BY <1>1, <1>6 DEF Rsem!BeginWait, Rsem!SemWait, Rsem!WaitTimeout, Rsem!EndWait, Rsem!To, rsemVars
<1>9. pc'[Owner] = "outside" <=> stage'[Owner] # "asleep"
  <2>1. pc[Owner] = "outside" <=> stage[Owner] # "asleep"
    BY DEF IInv, RequestsMatch
  <2>2. CASE Wait
    BY <1>1, <1>3, <2>1, <2>2 DEF Wait, Returns, Goes, rsemVars
  <2>3. CASE TimedWait
    BY <1>1, <1>3, <2>3 DEF TimedWait, Goes
  <2>4. CASE Woken
    <3>1. CASE Rsem!SemWait(Owner) /\ Returns
      BY <1>1, <3>1 DEF Rsem!SemWait, Rsem!To, Returns, Goes
    <3>2. CASE Rsem!WaitTimeout(Owner) /\ UNCHANGED stage
      BY <1>1, <2>4, <3>2 DEF Rsem!WaitTimeout, Rsem!To, Woken
    <3>3. CASE Rsem!EndWait(Owner) /\ Goes(Owner, IF pc'[Owner] = "outside" THEN "due" ELSE "asleep")
      BY <1>1, <3>3 DEF Goes
    <3> QED
      BY <2>4, <3>1, <3>2, <3>3 DEF Woken
  <2> QED
    BY <2>2, <2>3, <2>4
<1>10. RequestsMatch'
  BY <1>1, <1>2, <1>8, <1>9 DEF IInv, RequestsMatch, Rsem!NoGive
<1>11. stage'[Owner] = "drain" => closed /\ count = 0 /\ SumOf(waits(gives)) = 0
  <2>1. /\ wait_count \in Nat /\ wait_sem \in Nat /\ SumOf(waits(gives)) \in Nat
        /\ AsleepAt({Owner}, pc) = wait_count + wait_sem + SumOf(waits(gives))
    <3>1. Units(count, take_count, wait_count, take_sem, wait_sem, gives, holds, pc)
      BY UnitsBefore DEF IInv
    <3>2. SumOf(waits(gives)) \in Nat
      BY <3>1, UnitsNat
    <3> QED
      BY <3>1, <3>2 DEF Units
  <2>2. CASE Wait /\ stage'[Owner] = "drain"
    <3>1. closed /\ count = 0 /\ stage[Owner] = "wait"
      BY <1>1, <2>2 DEF Wait, Returns, Goes
    <3>2. AsleepAt({Owner}, pc) = 0
      BY <3>1, OwnerIsOne DEF IInv, RequestsMatch
    <3> QED
      BY <2>1, <3>1, <3>2
  <2>3. CASE Woken /\ stage'[Owner] = "drain"
    <3>1. Rsem!SemWait(Owner) /\ Returns /\ stage[Owner] = "asleep"
      BY <1>1, <2>3 DEF Woken, Goes
    <3>2. closed /\ wait_sem >= 1
      BY <1>1, <2>1, <2>3, <3>1 DEF Returns, Goes, Rsem!SemWait
    <3>3. AsleepAt({Owner}, pc) \in Nat /\ AsleepAt({Owner}, pc) <= 1
      BY OwnerIsOne
    <3>4. wait_count = 0 /\ SumOf(waits(gives)) = 0
      BY <2>1, <3>2, <3>3
    <3> QED
      BY <3>1, <3>2, <3>4 DEF IInv, ClosedInv
  <2>4. TimedWait => stage'[Owner] # "drain"
    BY <1>1 DEF TimedWait, Goes
  <2> QED
    BY <2>2, <2>3, <2>4
<1>12. closed /\ stage'[Owner] = "asleep" /\ wait_count' = 0 => count = 0
  <2>1. CASE Rsem!BeginWait(Owner)
    BY <1>1, <2>1 DEF Rsem!BeginWait
  <2>2. CASE Wait /\ ~Rsem!BeginWait(Owner)
    BY <2>2 DEF Wait
  <2>3. CASE Woken
    <3>1. stage[Owner] = "asleep"
      BY <2>3 DEF Woken
    <3>2. CASE Rsem!SemWait(Owner)
      BY <1>1, <1>9, <3>2 DEF Rsem!SemWait, Rsem!To
    <3>3. CASE Rsem!WaitTimeout(Owner)
      BY <3>1, <3>3 DEF Rsem!WaitTimeout, Rsem!waitVars, IInv, ClosedInv
    <3>4. CASE Rsem!EndWait(Owner)
      BY <1>1, <1>9, <3>1, <3>4 DEF Rsem!EndWait, Rsem!To, IInv, ClosedInv
    <3> QED
      BY <2>3, <3>2, <3>3, <3>4 DEF Woken
  <2> QED
    BY <2>1, <2>2, <2>3 DEF TimedWait
<1>13. ClosedInv'
  <2>1. stage'[Owner] = "drain" => \A r \in Request : loc[r] = "out"
    BY <1>11, AllBack
  <2> QED
    BY <1>2, <1>3, <1>8, <1>11, <1>12, <2>1 DEF IInv, ClosedInv
<1> QED
  BY <1>4, <1>5, <1>7, <1>10, <1>13 DEF IInv

\* ~PacketSet : asem.wait().
LEMMA DrainKept ==
  ASSUME IInv, Drain
  PROVE  IInv'
<1> USE Distinct
<1>1. /\ stage \in [Canceller -> {"idle", "due", "build", "cancel", "wait", "asleep",
                                  "drain", "drained", "dead"}]
      /\ closed \in BOOLEAN
      /\ apc \in [{Owner} -> {"outside", "wait"}]
      /\ await_count \in Nat /\ asem \in Nat /\ agives \in [External -> Nat]
      /\ CountAt(apc, "wait") = await_count + asem + SumOf(agives)
  <2>1. Counts(acount, await_count, asem, agives, aheld, apc)
    BY CountsBefore DEF IInv
  <2> QED
    BY <2>1 DEF IInv, Data, Types, Counts
<1>2. /\ UNCHANGED <<loc, list, ext, cancel, todo, at, closed>>
      /\ UNCHANGED rsemVars
      /\ stage[Owner] \in {"drain", "drained"}
      /\ \E b \in {"drained", "dead"} : Goes(Owner, b)
  BY DEF Drain
<1>3. stage' = [stage EXCEPT ![Owner] = stage'[Owner]] /\ stage'[Owner] \in {"drained", "dead"}
  BY <1>1, <1>2 DEF Goes
<1>4. Data'
  BY <1>1, <1>2, <1>3, DataOwner DEF IInv
<1>5. RequestsMatch' /\ UnitsInv'
  BY <1>2, <1>3, RequestsStay, UnitsStay DEF IInv
<1>6. \/ UNCHANGED asemVars
      \/ Asem!BeginWait(Owner) \/ Asem!SemTake(Owner)
  BY DEF Drain
<1>7. CountsInv'
  BY <1>6, CountsWait, CountsStay DEF IInv
<1>8. UNCHANGED <<acount, agives, aheld>> /\ apc' \in [{Owner} -> {"outside", "wait"}]
  BY <1>1, <1>6 DEF Asem!BeginWait, Asem!SemTake, Asem!To, asemVars
<1>9. apc'[Owner] = "wait" <=> stage'[Owner] = "drained"
  <2>1. apc[Owner] = "wait" <=> stage[Owner] = "drained"
    BY DEF IInv, ExternalsMatch
  <2>2. CASE stage[Owner] = "drain" /\ Goes(Owner, "dead") /\ UNCHANGED asemVars
    BY <1>1, <2>1, <2>2 DEF Goes, asemVars
  <2>3. CASE Asem!BeginWait(Owner) /\ Goes(Owner, "drained")
    BY <1>1, <2>3 DEF Goes, Asem!BeginWait, Asem!To
  <2>4. CASE Asem!SemTake(Owner) /\ Goes(Owner, "dead")
    BY <1>1, <2>4 DEF Goes, Asem!SemTake, Asem!To
  <2> QED
    BY <2>2, <2>3, <2>4 DEF Drain
<1>10. ExternalsMatch'
  BY <1>2, <1>8, <1>9 DEF IInv, ExternalsMatch
<1>11. stage'[Owner] = "dead" => acount = 0 /\ SumOf(agives) = 0
  <2> DEFINE C == CountAt(apc, "wait")
             W == SumOf(agives)
  <2>1. W \in Nat
    BY <1>1, Finite, SumNat
  <2>2. TasksAt(apc, "wait") = IF apc[Owner] = "wait" THEN {Owner} ELSE {}
    BY <1>1 DEF TasksAt
  <2>3. C = IF apc[Owner] = "wait" THEN 1 ELSE 0
    BY <2>2, FS_Singleton, FS_EmptySet DEF CountAt
  <2> HIDE DEF C, W
  <2>4. C = await_count + asem + W
    BY <1>1 DEF C, W
  <2>5. CASE stage[Owner] = "drain" /\ acount = 0
    <3>1. apc[Owner] # "wait"
      BY <2>5 DEF IInv, ExternalsMatch
    <3>2. W = 0
      BY <1>1, <2>1, <2>3, <2>4, <3>1
    <3> QED
      BY <2>5, <3>2 DEF W
  <2>6. CASE stage[Owner] = "drained" /\ asem > 0
    <3>1. await_count = 0 /\ W = 0
      BY <1>1, <2>1, <2>3, <2>4, <2>6
    <3> QED
      BY <2>6, <3>1 DEF W, IInv, ClosedInv
  <2>7. CASE Asem!BeginWait(Owner) /\ Goes(Owner, "drained")
    BY <1>1, <2>7 DEF Goes
  <2> QED
    BY <2>5, <2>6, <2>7 DEF Drain, Asem!SemTake
<1>12. stage'[Owner] = "drained" => await_count' > 0
  <2>1. stage'[Owner] = "drained" => Asem!BeginWait(Owner)
    BY <1>1 DEF Drain, Goes
  <2> QED
    BY <1>1, <2>1 DEF Asem!BeginWait
<1>13. ClosedInv'
  <2>1. stage'[Owner] = "dead" => \A e \in External : loc[e] = "out"
    BY <1>11, AllOthersBack
  <2>2. closed /\ (\A r \in Request : loc[r] = "out") /\ \A r \in Packet : loc[r] \notin {"getting", "got"}
    BY <1>2 DEF IInv, ClosedInv
  <2> QED
    BY <1>2, <1>3, <1>12, <2>1, <2>2 DEF ClosedInv
<1> QED
  BY <1>4, <1>5, <1>7, <1>10, <1>13 DEF IInv

\* ~PacketSet begins, and another set is made.
LEMMA CloseKept ==
  ASSUME IInv, Close \/ Create
  PROVE  IInv'
<1> USE Distinct
<1>1. /\ stage \in [Canceller -> {"idle", "due", "build", "cancel", "wait", "asleep",
                                  "drain", "drained", "dead"}]
      /\ UNCHANGED <<loc, list, ext, cancel, todo, at, semVars>> /\ closed' \in BOOLEAN
  BY DEF IInv, Data, Types, Close, Create
<1>2. /\ stage[Owner] \in {"idle", "dead"} /\ stage'[Owner] = "idle"
      /\ stage' = [stage EXCEPT ![Owner] = "idle"]
  BY <1>1 DEF Close, Create, Goes
<1>3. Data'
  BY <1>1, <1>2, DataOwner DEF IInv
<1>4. UNCHANGED rsemVars /\ UNCHANGED asemVars
  BY <1>1 DEF semVars
<1>5. RequestsMatch' /\ UnitsInv'
  BY <1>1, <1>2, <1>4, RequestsStay, UnitsStay DEF IInv
<1>6. ExternalsMatch' /\ CountsInv'
  BY <1>1, <1>2, <1>4, ExternalsStay, CountsStay DEF IInv
<1>7. ClosedInv'
  <2>1. closed' => \A r \in Packet : loc'[r] \notin {"getting", "got"}
    BY <1>1 DEF Close, Create
  <2> QED
    BY <1>2, <2>1 DEF ClosedInv
<1> QED
  BY <1>3, <1>5, <1>6, <1>7 DEF IInv

-----------------------------------------------------------------------------
LEMMA InitKept == Init => IInv
<1> SUFFICES ASSUME Init PROVE IInv
  OBVIOUS
<1> USE Distinct
<1>1. Data
  BY PacketSetAssumption DEF Init, Data, Types, PlacesMatch, StatesMatch, OneCompletes, Doomed, Canceller, Listed
<1>2. RequestsMatch
  BY DEF Init, RequestsMatch, Rsem!Init, HasUnit
<1>3. ExternalsMatch
  <2>1. {e \in External : loc[e] \notin {"out", "giving"}} = {}
    BY DEF Init
  <2>2. Cardinality({}) = 0
    BY FS_EmptySet
  <2>3. acount = Cardinality({e \in External : loc[e] \notin {"out", "giving"}})
    BY <2>1, <2>2 DEF Init, Asem!Init
  <2> QED
    BY <2>3 DEF Init, ExternalsMatch, Asem!Init, HasUnit
<1>4. UnitsInv
  <2>1. /\ count = 0 /\ take_count = 0 /\ wait_count = 0 /\ take_sem = 0 /\ wait_sem = 0
        /\ gives = [u \in Request |-> Rsem!NoGive] /\ holds = {}
        /\ pc = [t \in Request \cup {Owner} |-> "outside"]
    BY DEF Init, Rsem!Init
  <2>2. gives \in [Request -> [take : 0..1, wait : Nat]]
    BY <2>1 DEF Rsem!NoGive
  <2>3. /\ takes(gives) \in [Request -> Nat] /\ waits(gives) \in [Request -> Nat]
        /\ \A u \in Request : takes(gives)[u] = 0 /\ waits(gives)[u] = 0
    BY <2>1 DEF takes, waits, Rsem!NoGive
  <2>4. SumOf(takes(gives)) = 0 /\ SumOf(waits(gives)) = 0
    BY <2>3, Finite, SumNone
  <2>5. AsleepAt(Request, pc) = 0 /\ AsleepAt({Owner}, pc) = 0
    <3>1. {t \in Request : pc[t] \in Sleep} = {} /\ {t \in {Owner} : pc[t] \in Sleep} = {}
      BY <2>1 DEF Sleep
    <3> QED
      BY <3>1, FS_EmptySet DEF AsleepAt
  <2>6. Cardinality(holds) = 0
    BY <2>1, FS_EmptySet
  <2>7. pc \in Pcs
    BY <2>1 DEF Pcs, Labels
  <2> QED
    BY <2>1, <2>2, <2>4, <2>5, <2>6, <2>7, UnitsBefore, PacketSetAssumption DEF Units
<1>5. CountsInv
  <2>1. /\ acount = 0 /\ await_count = 0 /\ asem = 0
        /\ agives = [u \in External |-> 0] /\ aheld = [u \in External |-> 0]
        /\ apc = [t \in {Owner} |-> "outside"]
    BY DEF Init, Asem!Init
  <2>2. agives \in [External -> Nat] /\ \A e \in External : agives[e] = 0
    BY <2>1
  <2>3. SumOf(agives) = 0
    BY <2>2, Finite, SumNone
  <2>4. CountAt(apc, "wait") = 0
    <3>1. TasksAt(apc, "wait") = {}
      BY <2>1 DEF TasksAt
    <3> QED
      BY <3>1, FS_EmptySet DEF CountAt
  <2>5. Cardinality(External) \in Nat
    BY Finite, FS_CardinalityType
  <2> QED
    BY <2>1, <2>2, <2>3, <2>4, <2>5, CountsBefore DEF Counts
<1>6. ClosedInv
  BY DEF Init, ClosedInv
<1> QED
  BY <1>1, <1>2, <1>3, <1>4, <1>5, <1>6 DEF IInv

LEMMA NextKept == IInv /\ [Next]_vars => IInv'
<1> SUFFICES ASSUME IInv, [Next]_vars PROVE IInv'
  OBVIOUS
<1>1. ASSUME NEW r \in Request, Getting(r) \/ Give(r) PROVE IInv'
  BY <1>1, GettingKept, GiveKept
<1>2. ASSUME NEW e \in External, Enlist(e) \/ Dec(e) PROVE IInv'
  BY <1>2, EnlistKept, DecKept
<1>3. ASSUME NEW r \in Packet, Holding(r) PROVE IInv'
  BY <1>3, HoldingKept
<1>4. ASSUME NEW c \in Canceller, Build(c) \/ Cancelling(c) PROVE IInv'
  BY <1>4, CancellingKept
<1>5. CASE Destroying \/ TimedWait
  BY <1>5, WaitKept, DrainKept DEF Destroying
<1>6. CASE Close \/ Create
  BY <1>6, CloseKept
<1>7. CASE UNCHANGED vars
  <2>1. Data'
    BY <1>7 DEF vars, cancelVars, IInv, Data, Types, PlacesMatch, Unlocked, StatesMatch, OneCompletes, Doomed
  <2>2. UNCHANGED <<semVars, closed>> /\ UNCHANGED loc /\ UNCHANGED stage
    BY <1>7 DEF vars, cancelVars
  <2> QED
    BY <2>1, <2>2, StaysIn DEF IInv
<1> QED
  BY <1>1, <1>2, <1>3, <1>4, <1>5, <1>6, <1>7 DEF Next

LEMMA Invariant == Spec => []IInv
BY InitKept, NextKept, PTL DEF Spec

\* The cancel_state of a packet says what its queue does with it, with any number
\* of packets, however cancellers and services meet.
THEOREM StatesRight == Spec => []CancelStateMatches
<1>1. IInv => CancelStateMatches
  BY DEF IInv, Data, Types, StatesMatch, UnitsInv, CountsInv, CancelStateMatches, TypeOK
<1> QED
  BY <1>1, Invariant, PTL

\* One that is on a cancel_list is for one canceller to complete, and for nobody
\* else.
THEOREM OneCompleter == Spec => []OneCompletes
<1>1. IInv => OneCompletes
  BY DEF IInv, Data
<1> QED
  BY <1>1, Invariant, PTL

\* Both semaphores agree with the packets that are out, for any max_count, and
\* when the destructor is through with them nobody has still to touch them.
THEOREM SemaphoresRight == Spec => []SemMatches
<1>1. IInv => SemMatches
  <2> SUFFICES ASSUME IInv PROVE SemMatches
    OBVIOUS
  <2>1. list \cap Request \subseteq holds
    BY Distinct DEF IInv, Data, PlacesMatch, RequestsMatch, HasUnit, Listed
  <2>2. DestroyedIsUnused
    <3> SUFFICES ASSUME stage[Owner] = "dead"
                 PROVE  /\ list = {}
                        /\ \A r \in Packet : loc[r] = "out"
                        /\ \A r \in Request : gives[r] = Rsem!NoGive
                        /\ \A e \in External : agives[e] = 0
      BY DEF DestroyedIsUnused
    <3>1. \A r \in Packet : loc[r] = "out"
      BY Distinct DEF IInv, ClosedInv
    <3>2. list = {}
      BY <3>1 DEF IInv, Data, Types, PlacesMatch, Listed
    <3> QED
      BY <3>1, <3>2, Distinct DEF IInv, RequestsMatch, ExternalsMatch
  <2> QED
    BY <2>1, <2>2 DEF SemMatches, IInv, UnitsInv, CountsInv, ExternalsMatch
<1> QED
  BY <1>1, Invariant, PTL
=============================================================================
