------------------------------ MODULE PacketSet ------------------------------
(***************************************************************************)
(* class PacketSet : gives out packets, at most max_count at a time, and   *)
(* knows those that are out and those of others that it was asked to       *)
(* enlist, so that its owner may cancel them all and wait until they are   *)
(* back.  Below it are a ResSem and an AntiSem (their modules, step by     *)
(* step) and the atomic cancel_state of each packet; the services that the *)
(* packets are given to keep them in the queue of a CancelPacketList.  A   *)
(* canceller and a service that take a packet at one moment decide by its  *)
(* cancel_state which of them completes it.                                *)
(*                                                                         *)
(* A section under the Mutex of the set, or under that of the queue, is    *)
(* one step, except buildCancel(), whose loop reads and writes the         *)
(* cancel_state of packets that others use meanwhile.                      *)
(***************************************************************************)
EXTENDS Integers, FiniteSets

CONSTANTS Request,    \* the requests, each with a task that gets a packet for it
          External,   \* packets from elsewhere, each with a task that enlists it
          Owner,      \* the task that waits for all packets and destroys the set
          User,       \* the task that cancels the packets of one external list
          NoPacket,   \* no packet
          max_count,  \* the constructor's max_packets
          MaxBusy     \* bound of the requests and packets in use at a time

Packet == Request \cup External

ASSUME PacketSetAssumption == /\ IsFiniteSet(Packet) /\ Request \cap External = {}
                              /\ NoPacket \notin Packet
                              /\ Owner # User /\ {Owner, User} \cap Packet = {}
                              /\ {Owner, User} \cap {"none", "user"} = {}
                              /\ max_count \in Nat \ {0} /\ MaxBusy \in Nat

Canceller == {Owner, User}

VARIABLES loc,     \* each request or packet: where its task is in get() or enlist(), or
                   \* where the packet is
          list,    \* the packets of the set
          ext,     \* the list each packet is on besides: none, the user's, or a cancel_list
          cancel,  \* cancel_state of each packet
          stage,   \* where each canceller is
          todo,    \* packets that the loop of buildCancel() has still to visit
          at,      \* the packet a canceller completes
          closed,  \* ~PacketSet() has begun: no task is in get() or cancel() any more
          count, take_count, wait_count, take_sem, wait_sem, gives, holds, pc,  \* the ResSem
          acount, await_count, asem, agives, aheld, apc  \* the AntiSem

rsemVars == <<count, take_count, wait_count, take_sem, wait_sem, gives, holds, pc>>
asemVars == <<acount, await_count, asem, agives, aheld, apc>>
semVars == <<rsemVars, asemVars>>
cancelVars == <<stage, todo, at, closed>>
vars == <<loc, list, ext, cancel, cancelVars, semVars>>

Rsem == INSTANCE ResSem WITH User <- Request, Waiter <- {Owner}

Asem == INSTANCE AntiSem
          WITH Waiter <- {Owner}, User <- External, Level <- 0, MaxCount <- Cardinality(External),
               count <- acount, wait_count <- await_count, sem <- asem,
               gives <- agives, held <- aheld, pc <- apc

Init == /\ loc = [r \in Packet |-> "out"]
        /\ list = {}
        /\ ext = [r \in Packet |-> "none"]
        /\ cancel = [r \in Packet |-> "no"]
        /\ stage = [c \in Canceller |-> "idle"]
        /\ todo = {}
        /\ at = [c \in Canceller |-> NoPacket]
        /\ closed = FALSE
        /\ Rsem!Init /\ Asem!Init

To(r, place) == loc' = [loc EXCEPT ![r] = place]
Goes(c, place) == stage' = [stage EXCEPT ![c] = place]

\* A task may call get() or enlist() : not while the set is being destroyed
May(r) == loc[r] = "out" /\ ~closed /\ Cardinality({p \in Packet : loc[p] # "out"}) < MaxBusy

\* No task is in buildCancel(), the only place where the Mutex is kept.
Unlocked == \A c \in Canceller : stage[c] # "build"

\* What could be wrong in the code, to show that the properties see it: here
\* and below, the operators between two such comments.
ServeBlind(r) ==   \* the service does not look at what clearCancelFunction() returns
  /\ loc[r] = "queue"
  /\ cancel' = [cancel EXCEPT ![r] = "no"]
  /\ To(r, "held")
  /\ UNCHANGED <<list, ext, cancelVars, semVars>>

ServeKeeps(r) ==   \* the service does not clear the cancel function
  /\ loc[r] = "queue"
  /\ \/ cancel[r] = "has" /\ To(r, "held")
     \/ cancel[r] = "cancelled" /\ To(r, "left")
  /\ UNCHANGED <<list, ext, cancel, cancelVars, semVars>>

PutBlind(r) ==     \* put() queues a packet that is cancelled already
  /\ loc[r] = "held"
  /\ cancel' = [cancel EXCEPT ![r] = IF @ = "no" THEN "has" ELSE @]
  /\ To(r, "queue")
  /\ UNCHANGED <<list, ext, cancelVars, semVars>>

\* What the code does.
\* get, try_get, get(timeout) : rsem.take() ...
Get(r) ==
  /\ May(r)
  /\ \/ Rsem!TakeNow(r) /\ To(r, "got")
     \/ Rsem!BeginTake(r) /\ To(r, "getting")
  /\ UNCHANGED <<list, ext, cancel, cancelVars, asemVars>>

\* ... sleeps, and is woken or gives up
GetWoken(r) ==
  /\ loc[r] = "getting"
  /\ \/ Rsem!SemTake(r) /\ To(r, "got")
     \/ Rsem!TakeTimeout(r) /\ UNCHANGED loc
     \/ Rsem!EndTake(r) /\ To(r, IF pc'[r] = "outside" THEN "out" ELSE "getting")
  /\ UNCHANGED <<list, ext, cancel, cancelVars, asemVars>>

\* get : no memory for the packet, rsem.give() follows
GetFails(r) ==
  /\ loc[r] = "got" /\ r \in Request
  /\ To(r, "unlisted")
  /\ UNCHANGED <<list, ext, cancel, cancelVars, semVars>>

\* enlist : asem.inc()
Enlist(e) ==
  /\ May(e)
  /\ Asem!Add(e)
  /\ To(e, "got")
  /\ UNCHANGED <<list, ext, cancel, cancelVars, rsemVars>>

\* prepare, enlist, add : to the set, and to the user's list or to none
Add(r) ==
  /\ loc[r] = "got" /\ Unlocked
  /\ list' = list \cup {r}
  /\ \E e \in {"none", "user"} : ext' = [ext EXCEPT ![r] = e]
  /\ To(r, "held")
  /\ UNCHANGED <<cancel, cancelVars, semVars>>

\* CancelPacketList::put : the packet is queued, or completed if it is cancelled.
\* Its task puts it, and a service that has it may put it in the queue of another.
Put(r) ==
  /\ loc[r] = "held"
  /\ \/ cancel[r] = "no" /\ cancel' = [cancel EXCEPT ![r] = "has"] /\ To(r, "queue")
     \/ cancel[r] = "cancelled" /\ UNCHANGED cancel /\ To(r, "completed")
  /\ UNCHANGED <<list, ext, cancelVars, semVars>>

\* CancelPacketList::get : the service has the packet if it clears the cancel
\* function, and leaves it to the canceller otherwise
Serve(r) ==
  /\ loc[r] = "queue"
  /\ \/ cancel[r] = "has" /\ cancel' = [cancel EXCEPT ![r] = "no"] /\ To(r, "held")
     \/ cancel[r] = "cancelled" /\ UNCHANGED cancel /\ To(r, "left")
  /\ UNCHANGED <<list, ext, cancelVars, semVars>>

\* PacketHeader::complete : by the one that has it
Complete(r) ==
  /\ loc[r] = "held"
  /\ To(r, "completed")
  /\ UNCHANGED <<list, ext, cancel, cancelVars, semVars>>

\* complete : del, and the packet is recycled
Del(r) ==
  /\ loc[r] = "completed" /\ Unlocked
  /\ list' = list \ {r}
  /\ ext' = [ext EXCEPT ![r] = "none"]
  /\ cancel' = [cancel EXCEPT ![r] = "no"]
  /\ To(r, "unlisted")
  /\ UNCHANGED <<cancelVars, semVars>>

\* complete : rsem.give(), complete_external : asem.dec(), in their two steps;
\* a canceller is done with the packet then
Done(r, left) ==
  /\ To(r, IF left THEN "giving" ELSE "out")
  /\ at' = [c \in Canceller |-> IF at[c] = r /\ ~left THEN NoPacket ELSE at[c]]
  /\ UNCHANGED <<list, ext, cancel, stage, todo, closed>>

Give(r) ==
  /\ \/ loc[r] = "unlisted" /\ Rsem!BeginGive(r)
     \/ loc[r] = "giving" /\ Rsem!SemGive(r)
  /\ Done(r, gives'[r] # Rsem!NoGive)
  /\ UNCHANGED asemVars

Dec(e) ==
  /\ \/ loc[e] = "unlisted" /\ Asem!BeginSub(e)
     \/ loc[e] = "giving" /\ Asem!SemGive(e)
  /\ Done(e, agives'[e] > 0)
  /\ UNCHANGED rsemVars

\* buildCancel : takes the Mutex; the owner's call is for all packets, the
\* user's for those of its list ...
Build(c) ==
  /\ stage[c] \in {"idle", "due"} /\ Unlocked
  /\ c = User => ~closed
  /\ todo' = IF c = Owner THEN list ELSE {r \in Packet : ext[r] = "user"}
  /\ Goes(c, "build")
  /\ UNCHANGED <<loc, list, ext, cancel, at, closed, semVars>>

\* ... getCancelFunction() marks each, and those that had one are for c to complete
BuildOne(c) ==
  /\ stage[c] = "build"
  /\ \E r \in todo : /\ todo' = todo \ {r}
                     /\ cancel' = [cancel EXCEPT ![r] = "cancelled"]
                     /\ ext' = [ext EXCEPT ![r] = IF cancel[r] = "has" THEN c ELSE @]
  /\ UNCHANGED <<loc, list, stage, at, closed, semVars>>

BuildEnd(c) ==
  /\ stage[c] = "build" /\ todo = {}
  /\ Goes(c, "cancel")
  /\ UNCHANGED <<loc, list, ext, cancel, todo, at, closed, semVars>>

\* DoCancel : without the Mutex, the cancel function takes the packet off the
\* queue it may be in, and completes it
CancelOne(c) ==
  /\ stage[c] = "cancel" /\ at[c] = NoPacket
  /\ \E r \in Packet : /\ ext[r] = c
                       /\ To(r, "completed")
                       /\ at' = [at EXCEPT ![c] = r]
  /\ UNCHANGED <<list, ext, cancel, stage, todo, closed, semVars>>

CancelEnd(c) ==
  /\ stage[c] = "cancel" /\ at[c] = NoPacket /\ \A r \in Packet : ext[r] # c
  /\ Goes(c, IF c = Owner THEN "wait" ELSE "idle")
  /\ UNCHANGED <<loc, list, ext, cancel, todo, at, closed, semVars>>

\* cancel_and_wait, wait : the last line, and ~PacketSet goes on
Returns == Goes(Owner, IF closed THEN "drain" ELSE "idle")

\* cancel_and_wait : rsem.wait() finds all units back, or sleeps
Wait ==
  /\ stage[Owner] = "wait"
  /\ \/ count = 0 /\ Returns /\ UNCHANGED rsemVars
     \/ count > 0 /\ Rsem!BeginWait(Owner) /\ pc'[Owner] = "sleep" /\ Goes(Owner, "asleep")
  /\ UNCHANGED <<loc, list, ext, cancel, todo, at, closed, asemVars>>

\* wait(timeout) : rsem.wait(timeout)
TimedWait ==
  /\ stage[Owner] = "idle" /\ ~closed
  /\ Rsem!BeginWait(Owner) /\ pc'[Owner] = "timed"
  /\ Goes(Owner, "asleep")
  /\ UNCHANGED <<loc, list, ext, cancel, todo, at, closed, asemVars>>

\* both are woken, and wait(timeout) that is not goes on with cancel_and_wait()
Woken ==
  /\ stage[Owner] = "asleep"
  /\ \/ Rsem!SemWait(Owner) /\ Returns
     \/ Rsem!WaitTimeout(Owner) /\ UNCHANGED stage
     \/ Rsem!EndWait(Owner) /\ Goes(Owner, IF pc'[Owner] = "outside" THEN "due" ELSE "asleep")
  /\ UNCHANGED <<loc, list, ext, cancel, todo, at, closed, asemVars>>

\* ~PacketSet : asem.wait() finds the external packets back, sleeps, or is woken
Drain ==
  /\ \/ stage[Owner] = "drain" /\ acount = 0 /\ Goes(Owner, "dead") /\ UNCHANGED asemVars
     \/ stage[Owner] = "drain" /\ Asem!BeginWait(Owner) /\ Goes(Owner, "drained")
     \/ stage[Owner] = "drained" /\ Asem!SemTake(Owner) /\ Goes(Owner, "dead")
  /\ UNCHANGED <<loc, list, ext, cancel, todo, at, closed, rsemVars>>

\* ~PacketSet : not while a task is in another method of the set
Close ==
  /\ stage = [c \in Canceller |-> "idle"] /\ ~closed
  /\ \A r \in Packet : loc[r] \notin {"getting", "got"}
  /\ closed' = TRUE
  /\ UNCHANGED <<loc, list, ext, cancel, stage, todo, at, semVars>>

\* Another set is made in its place.
Create ==
  /\ stage[Owner] = "dead"
  /\ closed' = FALSE
  /\ Goes(Owner, "idle")
  /\ UNCHANGED <<loc, list, ext, cancel, todo, at, semVars>>

Getting(r)    == Get(r) \/ GetWoken(r) \/ GetFails(r)
Holding(r)    == Add(r) \/ Put(r) \/ Serve(r) \/ Complete(r) \/ Del(r)
Cancelling(c) == BuildOne(c) \/ BuildEnd(c) \/ CancelOne(c) \/ CancelEnd(c)
Destroying    == Wait \/ Woken \/ Drain

Next == \/ \E r \in Request : Getting(r) \/ Give(r)
        \/ \E e \in External : Enlist(e) \/ Dec(e)
        \/ \E r \in Packet : Holding(r)
        \/ \E c \in Canceller : Build(c) \/ Cancelling(c)
        \/ Destroying \/ TimedWait \/ Close \/ Create

Spec == Init /\ [][Next]_vars

\* Those that have packets go on, some of them at least, and cancellers do; the
\* Mutex is fair to Del, as LockGranted of module Mutex says.  Nothing makes a
\* service look into its queue, and nobody has to call cancel() or to destroy
\* the set; a destructor that has begun goes on.
FairSpec ==
  /\ Spec
  /\ WF_vars(\E r \in Packet : Put(r) \/ Complete(r))
  /\ SF_vars(\E r \in Packet : Del(r))
  /\ WF_vars((\E r \in Request : Give(r)) \/ (\E e \in External : Dec(e)))
  /\ WF_vars(\E c \in Canceller : Cancelling(c))
  /\ SF_vars(Build(Owner) /\ (closed \/ stage[Owner] = "due"))
  /\ WF_vars(Destroying)

-----------------------------------------------------------------------------
TypeOK ==
  /\ loc \in [Packet -> {"out", "getting", "got", "held", "queue", "left",
                         "completed", "unlisted", "giving"}]
  /\ list \subseteq Packet /\ todo \subseteq list
  /\ ext \in [Packet -> {"none", "user"} \cup Canceller]
  /\ cancel \in [Packet -> {"no", "has", "cancelled"}]
  /\ stage \in [Canceller -> {"idle", "due", "build", "cancel", "wait", "asleep",
                          "drain", "drained", "dead"}]
  /\ at \in [Canceller -> Packet \cup {NoPacket}]
  /\ closed \in BOOLEAN
  /\ Rsem!TypeOK /\ Asem!TypeOK

\* cancel_state says what the queues do with the packet, so the Aborts of
\* setCancelFunction(), clearCancelFunction() and recycle() are not reached,
\* however cancellers and services meet.
CancelStateMatches ==
  /\ TypeOK
  /\ \A r \in Packet : /\ cancel[r] = "has" => loc[r] = "queue"
                       /\ loc[r] = "queue" => cancel[r] # "no"
                       /\ loc[r] = "left" => cancel[r] = "cancelled"

\* A cancelled packet that is in a queue, or that a service has left, is on the
\* cancel_list of one canceller; and one that is on a cancel_list, which
\* DoCancel() walks without the Mutex, is nobody else's to complete.
Doomed(r) == loc[r] \in {"queue", "left"} /\ cancel[r] = "cancelled"

OneCompletes ==
  \A r \in Packet :
    /\ Doomed(r) => ext[r] \in Canceller
    /\ \A c \in Canceller :
         ext[r] = c => (Doomed(r) \/ (loc[r] = "completed" /\ at[c] = r))

\* When the destructor is through with wait(), no packet is out, and nobody has
\* still to touch the set or its semaphores.
DestroyedIsUnused ==
  stage[Owner] = "dead" => /\ list = {}
                           /\ \A r \in Packet : loc[r] = "out"
                           /\ \A r \in Request : gives[r] = Rsem!NoGive
                           /\ \A e \in External : agives[e] = 0

\* The destructor ends, even if the services never look into their queues.
DestroyReturns == closed ~> stage[Owner] = "dead"

\* The ResSem has a unit for each packet of the set and the AntiSem counts
\* those of others, both have a token for each task asleep, and nobody sleeps
\* that need not, whatever the two timeouts do; and they are at rest when the
\* destructor has waited for them.
SemMatches ==
  /\ Rsem!UnitsMatch /\ Rsem!TokensMatch /\ Rsem!NoIdleUnits
  /\ Asem!TokensMatch /\ Asem!OpenWakesAll
  /\ list \cap Request \subseteq holds
  /\ DestroyedIsUnused
  /\ acount = Cardinality({e \in External : loc[e] \notin {"out", "giving"}})
=============================================================================
