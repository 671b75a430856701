------------------------- MODULE AsyncFileProcessor -------------------------
(***************************************************************************)
(* class AsyncFileProcessor with the Engine of AsyncFileDevice : users     *)
(* bring packets, each a read or a write of a file.  A packet gets a slot  *)
(* and its I/O is started; when no slot is free it waits in delay_list,    *)
(* where a canceller may cancel it.  A slot whose I/O is pending is handed *)
(* over to the Completor, one task that waits for the end of the I/O       *)
(* (module SysWait), completes the packet and starts a delayed one in its  *)
(* slot.                                                                   *)
(***************************************************************************)
EXTENDS SysWait, FiniteSets

\* A slot is its index; Index is 0, 1, ...
CONSTANTS User,       \* the tasks that call read() and write()
          Completor,  \* the task of the Completor
          Work,       \* the packets; one that is completed may be brought again
          NoWork, NoSlot

Thread == User \cup {Completor}

VARIABLES max_slots,     \* of the constructor
          avail_list,    \* the slots of the Pool
          active_list,   \* the slots for the Completor
          work,          \* the work of each slot
          delay_list, delayed,
          cancel_state,  \* of each packet: "None", "Has" (a cancel function), "Cancelled"
          calling,       \* the packets whose cancel function is called
          pc, at,        \* where each task is, and with which slot
          bringing,      \* the packet of a user that has not got a slot yet
          pending,       \* the slots whose I/O is going on
          owner,         \* the owner: "running", "stopping", "stopped"
          completed      \* history: how often each packet was completed since it was brought

packetVars == <<delay_list, delayed, cancel_state, calling, completed>>
slotVars   == <<avail_list, active_list, work>>
taskVars   == <<pc, at, bringing>>
sysVars    == <<waitVars, sem, event, pending>>  \* of the system
vars == <<max_slots, packetVars, slotVars, taskVars, owner, sysVars>>

\* The Pool frees slot after slot, and the last one freed is the first in its list.
Init == /\ WaitInit
        /\ max_slots \in 1..Cardinality(Index)
        /\ avail_list = [i \in 1..max_slots |-> max_slots - i]
        /\ active_list = << >>
        /\ work = [s \in Index |-> NoWork]
        /\ delay_list = << >> /\ delayed = [p \in Work |-> FALSE]
        /\ cancel_state = [p \in Work |-> "None"]
        /\ calling = {}
        /\ completed = [p \in Work |-> 1]
        /\ pc = [t \in Thread |-> IF t = Completor THEN "wait" ELSE "idle"]
        /\ at = [t \in Thread |-> NoSlot]
        /\ bringing = [u \in User |-> NoWork]
        /\ pending = {}
        /\ owner = "running"

To(t, label) == pc' = [pc EXCEPT ![t] = label]
At(t, s) == at' = [at EXCEPT ![t] = s]

\* packet.complete() : it is as new when it is used again
Complete(p) == /\ completed' = [completed EXCEPT ![p] = @ + 1]
               /\ cancel_state' = [cancel_state EXCEPT ![p] = "None"]

\* A task that is through with process() or with a slot
Through(t) == To(t, IF t = Completor THEN "wait" ELSE "idle") /\ At(t, NoSlot)

-----------------------------------------------------------------------------
\* process

\* read, write : a user comes with a packet
Bring(u, p) ==
  /\ owner = "running" /\ pc[u] = "idle" /\ completed[p] = 1 /\ p \notin calling
  /\ bringing' = [bringing EXCEPT ![u] = p]
  /\ completed' = [completed EXCEPT ![p] = 0]
  /\ To(u, "alloc")
  /\ UNCHANGED <<delay_list, delayed, cancel_state, calling, at, slotVars, owner, sysVars>>

\* The mutex of the processor is kept over the loop of take().
Unlocked == \A t \in Thread : pc[t] # "taking"

\* alloc : a slot for the packet
AllocSlot(u) ==
  /\ pc[u] = "alloc" /\ Unlocked /\ avail_list # << >>
  /\ avail_list' = Tail(avail_list)
  /\ work' = [work EXCEPT ![Head(avail_list)] = bringing[u]]
  /\ bringing' = [bringing EXCEPT ![u] = NoWork]
  /\ At(u, Head(avail_list)) /\ To(u, "start")
  /\ UNCHANGED <<active_list, packetVars, owner, sysVars>>

\* alloc, delay : no slot, and the packet is delayed
AllocDelay(u) ==
  /\ pc[u] = "alloc" /\ Unlocked /\ avail_list = << >>
  /\ LET p == bringing[u] IN
     /\ cancel_state[p] = "None"
     /\ cancel_state' = [cancel_state EXCEPT ![p] = "Has"]
     /\ delayed' = [delayed EXCEPT ![p] = TRUE]
     /\ delay_list' = Append(delay_list, p)
  /\ bringing' = [bringing EXCEPT ![u] = NoWork]
  /\ Through(u)
  /\ UNCHANGED <<calling, completed, slotVars, owner, sysVars>>

\* alloc, delay, cancel : no slot, and the packet was cancelled before
AllocCancelled(u) ==
  /\ pc[u] = "alloc" /\ Unlocked /\ avail_list = << >>
  /\ cancel_state[bringing[u]] = "Cancelled"
  /\ Complete(bringing[u])
  /\ bringing' = [bringing EXCEPT ![u] = NoWork]
  /\ Through(u)
  /\ UNCHANGED <<delay_list, delayed, calling, slotVars, owner, sysVars>>

Alloc(u) == AllocSlot(u) \/ AllocDelay(u) \/ AllocCancelled(u)

-----------------------------------------------------------------------------
\* start, put and free, by a user or by the Completor

\* Slot::start : the I/O is pending, and its event is reset
StartPending(t) ==
  /\ pc[t] = "start"
  /\ pending' = pending \cup {at[t]} /\ event' = event \ {at[t]}
  /\ To(t, "put")
  /\ UNCHANGED <<at, bringing, slotVars, packetVars, owner, waitVars, sem>>

\* Slot::start : the I/O is done at once, or fails
StartDone(t) ==
  /\ pc[t] = "start"
  /\ Complete(work[at[t]])
  /\ work' = [work EXCEPT ![at[t]] = NoWork]
  /\ To(t, "free")
  /\ UNCHANGED <<delay_list, delayed, calling, avail_list, active_list, at, bringing, owner, sysVars>>

\* put : the slot is listed, under the mutex of the Completor
PutList(t) ==
  /\ pc[t] = "put"
  /\ active_list' = <<at[t]>> \o active_list
  /\ At(t, NoSlot) /\ To(t, "give")
  /\ UNCHANGED <<avail_list, work, bringing, packetVars, owner, sysVars>>

\* What could be wrong in the code, to show that the properties see it.
PutGiveIfAlone(t) ==   \* the Completor is interrupted for the first slot listed only
  /\ pc[t] = "give"
  /\ IF Len(active_list) > 1 THEN UNCHANGED sem ELSE Interrupt
  /\ Through(t)
  /\ UNCHANGED <<bringing, pending, slotVars, packetVars, owner, waitVars, event>>

\* What the code does.
\* put : wait.interrupt()
PutGive(t) ==
  /\ pc[t] = "give"
  /\ Interrupt
  /\ Through(t)
  /\ UNCHANGED <<bringing, pending, slotVars, packetVars, owner, waitVars, event>>

\* The task has, or gets, the mutex of the processor.
Frees(t) == pc[t] = "taking" \/ (pc[t] = "free" /\ Unlocked)

\* What could be wrong in the code, to show that the properties see it.
TakeBlind(t) ==    \* a packet whose cancel function is called is started all the same
  /\ Frees(t) /\ delay_list # << >>
  /\ LET p == Head(delay_list) IN
     /\ delay_list' = Tail(delay_list)
     /\ delayed' = [delayed EXCEPT ![p] = FALSE]
     /\ cancel_state' = [cancel_state EXCEPT ![p] = "None"]
     /\ work' = [work EXCEPT ![at[t]] = p]
  /\ To(t, "start")
  /\ UNCHANGED <<calling, completed, avail_list, active_list, at, bringing, owner, sysVars>>

\* What the code does.
\* try_free, take : the first delayed packet gets the slot
TakeWork(t) ==
  /\ Frees(t) /\ delay_list # << >>
  /\ LET p == Head(delay_list) IN
     /\ cancel_state[p] = "Has"
     /\ delay_list' = Tail(delay_list)
     /\ delayed' = [delayed EXCEPT ![p] = FALSE]
     /\ cancel_state' = [cancel_state EXCEPT ![p] = "None"]
     /\ work' = [work EXCEPT ![at[t]] = p]
  /\ To(t, "start")
  /\ UNCHANGED <<calling, completed, avail_list, active_list, at, bringing, owner, sysVars>>

\* take : a packet that is being cancelled is left to its canceller
TakeCancelled(t) ==
  /\ Frees(t) /\ delay_list # << >>
  /\ cancel_state[Head(delay_list)] = "Cancelled"
  /\ delay_list' = Tail(delay_list)
  /\ delayed' = [delayed EXCEPT ![Head(delay_list)] = FALSE]
  /\ To(t, "taking")
  /\ UNCHANGED <<cancel_state, calling, completed, slotVars, at, bringing, owner, sysVars>>

\* try_free : nothing is delayed, and the slot is free
TakeNone(t) ==
  /\ Frees(t) /\ delay_list = << >>
  /\ avail_list' = <<at[t]>> \o avail_list
  /\ Through(t)
  /\ UNCHANGED <<active_list, work, bringing, packetVars, owner, sysVars>>

Free(t) == TakeWork(t) \/ TakeCancelled(t) \/ TakeNone(t)

Slot(t) == StartPending(t) \/ StartDone(t) \/ PutList(t) \/ PutGive(t) \/ Free(t)

-----------------------------------------------------------------------------
\* Cancellers, and the system

\* A canceller takes the packet's cancel function, or finds none.
CancelBegin(p) ==
  /\ completed[p] = 0 /\ cancel_state[p] # "Cancelled"
  /\ cancel_state' = [cancel_state EXCEPT ![p] = "Cancelled"]
  /\ calling' = IF cancel_state[p] = "Has" THEN calling \cup {p} ELSE calling
  /\ UNCHANGED <<delay_list, delayed, completed, slotVars, taskVars, owner, sysVars>>

\* do_cancel : the packet leaves the list if it has not been taken
Cancel(p) ==
  /\ p \in calling
  /\ calling' = calling \ {p}
  /\ delay_list' = IF delayed[p] THEN RemoveFirst(delay_list, p) ELSE delay_list
  /\ delayed' = [delayed EXCEPT ![p] = FALSE]
  /\ Complete(p)
  /\ UNCHANGED <<slotVars, taskVars, owner, sysVars>>

\* The I/O ends.
IoEnds(s) ==
  /\ s \in pending
  /\ pending' = pending \ {s} /\ event' = event \cup {s}
  /\ UNCHANGED <<packetVars, slotVars, taskVars, owner, waitVars, sem>>

-----------------------------------------------------------------------------
\* The Completor

\* objRun : wait() returns Wait_interrupt
ObjInterrupt ==
  /\ pc[Completor] = "wait"
  /\ WaitInterrupt
  /\ To(Completor, "get")
  /\ UNCHANGED <<at, bringing, pending, packetVars, slotVars, owner>>

\* objRun, get : the slot listed last is waited for
ObjGet ==
  /\ pc[Completor] = "get" /\ active_list # << >>
  /\ active_list' = Tail(active_list)
  /\ AddWait(Head(active_list))
  /\ To(Completor, "wait")
  /\ UNCHANGED <<avail_list, work, at, bringing, pending, packetVars, owner, sem, event>>

\* objRun, get : no slot, and objRun returns
ObjStop ==
  /\ pc[Completor] = "get" /\ active_list = << >>
  /\ To(Completor, "stopped")
  /\ UNCHANGED <<at, bringing, packetVars, slotVars, owner, sysVars>>

\* objRun : wait() returns the index of a slot
ObjIndex ==
  /\ pc[Completor] = "wait"
  /\ \E s \in Index : WaitIndex(s) /\ At(Completor, s)
  /\ To(Completor, "complete")
  /\ UNCHANGED <<bringing, pending, packetVars, slotVars, owner>>

\* objRun, complete : wait.delWait(), and the packet is completed; free() follows
ObjComplete ==
  /\ pc[Completor] = "complete"
  /\ DelWait(at[Completor])
  /\ Complete(work[at[Completor]])
  /\ work' = [work EXCEPT ![at[Completor]] = NoWork]
  /\ To(Completor, "free")
  /\ UNCHANGED <<delay_list, delayed, calling, avail_list, active_list, at, bringing, pending, owner, sem, event>>

ObjRun == ObjInterrupt \/ ObjGet \/ ObjStop \/ ObjIndex \/ ObjComplete \/ Slot(Completor)

\* The owner destroys the device, which no user needs any more: wait.interrupt() ...
SignalStop ==
  /\ owner = "running" /\ calling = {}
  /\ \A u \in User : pc[u] = "idle"
  /\ \A p \in Work : completed[p] = 1
  /\ owner' = "stopping"
  /\ Interrupt
  /\ UNCHANGED <<packetVars, slotVars, taskVars, pending, waitVars, event>>

\* ... and stop_sem.take()
Stopped ==
  /\ owner = "stopping" /\ pc[Completor] = "stopped"
  /\ owner' = "stopped"
  /\ UNCHANGED <<packetVars, slotVars, taskVars, sysVars>>

\* What goes on by itself
Goes == \/ \E u \in User : Alloc(u) \/ Slot(u)
        \/ \E p \in Work : Cancel(p)
        \/ \E s \in Index : IoEnds(s)
        \/ ObjRun \/ Stopped

\* What others decide
Asked == SignalStop \/ \E p \in Work : CancelBegin(p) \/ \E u \in User : Bring(u, p)

Step == Goes /\ UNCHANGED max_slots

Next == Step \/ (Asked /\ UNCHANGED max_slots)

Spec == Init /\ [][Next]_vars

\* Tasks run, and each I/O ends.
Fairness == WF_vars(Step)

-----------------------------------------------------------------------------
TypeOK == /\ {avail_list, active_list} \subseteq Seq(Index)
          /\ work \in [Index -> Work \cup {NoWork}]
          /\ delay_list \in Seq(Work) /\ delayed \in [Work -> BOOLEAN]
          /\ cancel_state \in [Work -> {"None", "Has", "Cancelled"}]
          /\ calling \subseteq Work /\ pending \subseteq Index /\ event \subseteq Index
          /\ pc \in [Thread -> {"idle", "alloc", "start", "put", "give", "free", "taking",
                                "wait", "get", "complete", "stopped"}]
          /\ at \in [Thread -> Index \cup {NoSlot}]
          /\ bringing \in [User -> Work \cup {NoWork}]
          /\ sem \in Nat /\ owner \in {"running", "stopping", "stopped"}

N(label) == Cardinality({t \in Thread : pc[t] = label})

One(so) == IF so THEN 1 ELSE 0

\* Of those that have something nobody has the same.
Alone(f, none) == \A x, y \in DOMAIN f : f[x] = f[y] /\ f[x] # none => x = y

\* Each packet brought is in one place, with a user, in one slot, delayed or in
\* its canceller's hands, until it is completed, once.
OneCompletes ==
  /\ TypeOK /\ Alone(bringing, NoWork) /\ Alone(work, NoWork) /\ IsInjective(delay_list)
  /\ \A p \in Work :
       LET places == One(\E u \in User : bringing[u] = p) + One(\E s \in Index : work[s] = p)
                       + One(p \in ToSet(delay_list)) + One(p \in calling /\ ~delayed[p])
       IN  completed[p] \in 0..1 /\ places = 1 - completed[p]

\* Each slot is in one place, and waited for only while its I/O is pending or
\* has ended; none is free while a packet is delayed.
SlotsMatch ==
  /\ IsInjective(avail_list) /\ IsInjective(active_list) /\ Alone(at, NoSlot)
  /\ \A s \in 0..(max_slots - 1) :
       /\ One(s \in ToSet(avail_list)) + One(s \in ToSet(active_list)) + One(\E t \in Thread : at[t] = s)
            + One(slot[s] # 0 /\ at[Completor] # s) = 1
       /\ slot[s] # 0 => s \in pending \cup event
       /\ s \in ToSet(active_list) \/ slot[s] # 0 => work[s] # NoWork
  /\ delay_list # << >> => avail_list = << >>

\* Each slot listed for the Completor has its unit of the interrupt, or a task
\* that will give it, and the only unit more is that of the stop.  So objRun(),
\* which takes a unit with no slot for the order to stop, returns for no other.
UnitsMatch ==
  /\ pc[Completor] # "stopped" =>
       sem + N("give") + N("get") = Len(active_list) + (IF owner = "running" THEN 0 ELSE 1)
  /\ pc[Completor] = "stopped" => owner # "running" /\ sem = 0

\* Every packet is completed, and the delayed ones too, once users bring no more:
\* while they do, others may be served before it again and again, for
\* active_list is a stack.
AllComplete == <>[][\A u \in User, p \in Work : ~Bring(u, p)]_vars
                 => <>[](\A p \in Work : completed[p] = 1)

\* The Completor stops when it is told to.
StopReturns == owner = "stopping" ~> owner = "stopped"
=============================================================================
