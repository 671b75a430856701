------------------------------ MODULE SysWait ------------------------------
(***************************************************************************)
(* class WaitBase<AsyncState,Wait> (AsyncFileWait in front of it) : one    *)
(* task waits for the first of an interrupt, which is a semaphore, and the *)
(* events of the asyncs that it has added.  handle_buf, index_buf and the  *)
(* slot of each async are parallel arrays from which an async is deleted   *)
(* by moving the last one to its place; elements above count are never     *)
(* read and left out.  The handle of an async stands for its index.        *)
(***************************************************************************)
EXTENDS Integers, Sequences, SequencesExt

CONSTANT Index   \* of the asyncs

VARIABLES handle_buf, index_buf,  \* their elements 1..count
          slot,       \* where each async is in them, 0 for not at all
          sem,        \* units of the interrupt
          sem_first,  \* whether the interrupt goes before the events
          event       \* the events that are set

waitVars == <<handle_buf, index_buf, slot, sem_first>>

count == Len(handle_buf)

WaitInit == /\ handle_buf = << >> /\ index_buf = << >>
            /\ slot = [i \in Index |-> 0]
            /\ sem = 0 /\ sem_first = TRUE
            /\ event = {}

AddWait(i) ==
  /\ slot[i] = 0
  /\ slot' = [slot EXCEPT ![i] = count + 1]
  /\ handle_buf' = Append(handle_buf, i)
  /\ index_buf' = Append(index_buf, i)
  /\ UNCHANGED sem_first

\* The last element of a buffer takes the place s.
MoveLast(buf, s) == Front([buf EXCEPT ![s] = Last(buf)])

DelWait(i) ==
  /\ slot[i] # 0
  /\ handle_buf' = MoveLast(handle_buf, slot[i])
  /\ index_buf' = MoveLast(index_buf, slot[i])
  /\ slot' = [slot EXCEPT ![index_buf[count]] = slot[i], ![i] = 0]
  /\ UNCHANGED sem_first

\* WaitSome : the places whose events are set; the first of them counts
Set == {s \in 1..count : handle_buf[s] \in event}

\* wait : Wait_interrupt
WaitInterrupt ==
  /\ sem > 0 /\ (sem_first \/ Set = {})
  /\ sem' = sem - 1
  /\ sem_first' = FALSE
  /\ UNCHANGED <<handle_buf, index_buf, slot, event>>

\* What could be wrong in the code, to show that the properties see it.
RollKeepsSlot(s) ==   \* the async that is moved to s does not learn its new place
  /\ handle_buf' = [handle_buf EXCEPT ![s] = handle_buf[count], ![count] = handle_buf[s]]
  /\ index_buf' = [index_buf EXCEPT ![s] = index_buf[count], ![count] = index_buf[s]]
  /\ slot' = [slot EXCEPT ![index_buf[s]] = count]

\* What the code does.
\* rollWait : the async that is returned changes places with the last one
Roll(s) ==
  /\ handle_buf' = [handle_buf EXCEPT ![s] = handle_buf[count], ![count] = handle_buf[s]]
  /\ index_buf' = [index_buf EXCEPT ![s] = index_buf[count], ![count] = index_buf[s]]
  /\ slot' = [slot EXCEPT ![index_buf[count]] = s, ![index_buf[s]] = count]

\* wait : the index of an async
WaitIndex(i) ==
  \E s \in Set :
    /\ \A r \in Set : s <= r
    /\ sem = 0 \/ ~sem_first
    /\ i = index_buf[s]
    /\ Roll(s)
    /\ sem_first' = TRUE
    /\ UNCHANGED <<sem, event>>

\* interrupt
Interrupt == sem' = sem + 1

-----------------------------------------------------------------------------
\* The arrays agree: the index that wait() returns is that of the async whose
\* event is set, and delWait() takes off the one it is told to, in whatever
\* order asyncs were added, returned and deleted.
WaitListOK ==
  /\ handle_buf = index_buf
  /\ \A i \in Index : slot[i] \in 0..count /\ (slot[i] # 0 => index_buf[slot[i]] = i)
  /\ \A s \in 1..count : index_buf[s] \in Index /\ slot[index_buf[s]] = s
=============================================================================
