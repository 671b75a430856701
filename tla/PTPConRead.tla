----------------------------- MODULE PTPConRead -----------------------------
(***************************************************************************)
(* class PTPConRead : a read of the client waits in outbound until a key   *)
(* that triggers is pressed, or read_ticks ticks have passed, or another   *)
(* read comes.  The task of the network starts reads, ticks, opens and     *)
(* closes; the main task puts the keys; and a packet may be cancelled at   *)
(* any time.  What is decided under the mutex is done after it: the        *)
(* packets of complete_list, and the canceller that runs cancel() late.    *)
(***************************************************************************)
EXTENDS Integers, Sequences

CONSTANTS Read,      \* the reads, numbers in the order they come
          None,      \* no read
          Len_Fifo,  \* of the buffer of keys, 1000 in the code
          read_ticks

Tasks == {"net", "main"}

VARIABLES is_opened, fifo, avail,       \* Buf, the keys by their number
          is_started, outbound, ticks,
          where,     \* each read
          cancel,    \* cancel_state of its packet
          ext,       \* its PushExt<bool>, FALSE when the reader has let go of it
          complete_list  \* of each task

bufVars == <<is_opened, fifo, avail>>
readVars == <<is_started, outbound, ticks, where, cancel, ext, complete_list>>
vars == <<bufVars, readVars>>

Ended == {"answered", "dropped"}

Init == /\ is_opened = FALSE /\ fifo = 0 /\ avail = 0
        /\ is_started = FALSE /\ outbound = None /\ ticks = 0
        /\ where = [r \in Read |-> "new"] /\ cancel = [r \in Read |-> "no"] /\ ext = [r \in Read |-> FALSE]
        /\ complete_list = [t \in Tasks |-> << >>]

Free(t) == complete_list[t] = << >>

\* The state of a section: its operators pass it on.
Here == [started |-> is_started, out |-> outbound, where |-> where, cancel |-> cancel, ext |-> ext,
         avail |-> avail, fifo |-> fifo, list |-> << >>]

-----------------------------------------------------------------------------
\* What could be wrong in the code, to show that the properties see it: here
\* and below, the operators between two such comments.
ReleasedKeeps(h) ==    \* the canceller is not told that the reader has let go
  LET r == h.out IN
  [h EXCEPT !.started = FALSE, !.out = None,
            !.where[r] = IF h.cancel[r] = "has" THEN "listed" ELSE @,
            !.cancel[r] = IF @ = "has" THEN "no" ELSE @,
            !.list = IF h.cancel[r] = "has" THEN Append(@, r) ELSE @]

\* What the code does: outbound.packet is answered, or left to its canceller
Released(h) ==
  LET r == h.out IN
  [h EXCEPT !.started = FALSE, !.out = None,
            !.where[r] = IF h.cancel[r] = "has" THEN "listed" ELSE @,
            !.cancel[r] = IF @ = "has" THEN "no" ELSE @,
            !.ext[r] = IF h.cancel[r] = "has" THEN @ ELSE FALSE,
            !.list = IF h.cancel[r] = "has" THEN Append(@, r) ELSE @]

\* pump, with n keys at most
Pump(h, n, allow_empty) ==
  LET taken == IF h.cancel[h.out] = "has" THEN IF h.avail < n THEN h.avail ELSE n ELSE 0 IN
  IF h.avail = 0 /\ ~allow_empty THEN h
  ELSE [Released(h) EXCEPT !.avail = @ - taken, !.fifo = @ - taken]

\* stop, if a read is started
Stop(h) == IF h.started THEN Released(h) ELSE h

\* Outbound::init : of a packet that is cancelled already, it is left as it is
InitOutbound(h, r) ==
  IF h.cancel[r] = "no"
  THEN [h EXCEPT !.started = TRUE, !.out = r, !.cancel[r] = "has", !.ext[r] = TRUE, !.where[r] = "held"]
  ELSE h

\* The end of a section of a task
Leave(t, h) ==
  /\ is_started' = h.started /\ outbound' = h.out /\ where' = h.where /\ cancel' = h.cancel /\ ext' = h.ext
  /\ avail' = h.avail /\ fifo' = h.fifo
  /\ complete_list' = [complete_list EXCEPT ![t] = h.list]

-----------------------------------------------------------------------------
\* open
Open ==
  /\ ~is_opened /\ Free("net")
  /\ is_opened' = TRUE /\ fifo' = 0 /\ avail' = 0 /\ is_started' = FALSE
  /\ UNCHANGED <<outbound, ticks, where, cancel, ext, complete_list>>

\* PTPConProc::read, start; and function_Read completes a packet that it still has
Start(r) ==
  /\ is_opened /\ Free("net")
  /\ where[r] = "new" /\ \A q \in Read : q < r => where[q] # "new"
  /\ LET h == InitOutbound(Stop(Here), r) IN
     \/ /\ h.out # r
        /\ Leave("net", [h EXCEPT !.where[r] = "dropped"]) /\ UNCHANGED ticks
     \/ /\ h.out = r /\ ticks' = read_ticks
        /\ \E n \in 1..Len_Fifo : Leave("net", Pump(h, n, FALSE))
  /\ UNCHANGED is_opened

\* What could be wrong in the code, to show that the properties see it.
TickWaits ==      \* a read waits for its keys for ever
  /\ is_opened /\ is_started /\ Free("net")
  /\ ticks' = IF ticks > 0 THEN ticks - 1 ELSE 0
  /\ \E n \in 1..Len_Fifo : Leave("net", Pump(Here, n, FALSE))
  /\ UNCHANGED is_opened

\* What the code does.
\* tick
Tick ==
  /\ is_opened /\ is_started /\ Free("net")
  /\ ticks' = IF ticks > 0 THEN ticks - 1 ELSE 0
  /\ \E n \in 1..Len_Fifo : Leave("net", Pump(Here, n, ticks = 0))
  /\ UNCHANGED is_opened

\* close
Close ==
  /\ is_opened /\ Free("net") /\ is_opened' = FALSE
  /\ Leave("net", Stop(Here)) /\ UNCHANGED ticks

\* What could be wrong in the code, to show that the properties see it.
PutOnly ==        \* a read that waits is not answered
  /\ is_opened /\ Free("main") /\ fifo < Len_Fifo
  /\ \E trigger \in BOOLEAN :
       Leave("main", [Here EXCEPT !.fifo = @ + 1, !.avail = IF trigger THEN fifo + 1 ELSE @])
  /\ UNCHANGED <<is_opened, ticks>>

\* What the code does.
\* put : a key, that may trigger; without room it is dropped
Put ==
  /\ is_opened /\ Free("main")
  /\ \E trigger \in BOOLEAN :
       LET h == IF fifo = Len_Fifo THEN Here
                ELSE [Here EXCEPT !.fifo = @ + 1, !.avail = IF trigger THEN fifo + 1 ELSE @]
       IN \/ ~is_started /\ Leave("main", h)
          \/ is_started /\ \E n \in 1..Len_Fifo : Leave("main", Pump(h, n, FALSE))
  /\ UNCHANGED <<is_opened, ticks>>

\* complete_list.complete : each packet is sent with its answer
AnswerReads(t) ==
  /\ complete_list[t] # << >>
  /\ where' = [where EXCEPT ![Head(complete_list[t])] = "answered"]
  /\ complete_list' = [complete_list EXCEPT ![t] = Tail(@)]
  /\ UNCHANGED <<bufVars, is_started, outbound, ticks, cancel, ext>>

\* PacketHeader::cancel : a packet with a cancel function is its canceller's now
Cancel(r) ==
  /\ where[r] \notin Ended /\ cancel[r] # "cancelled"
  /\ cancel' = [cancel EXCEPT ![r] = "cancelled"]
  /\ where' = [where EXCEPT ![r] = IF cancel[r] = "has" THEN "calling" ELSE @]
  /\ UNCHANGED <<bufVars, is_started, outbound, ticks, ext, complete_list>>

\* cancel, when its canceller gets to it
CancelCall(r) ==
  /\ where[r] = "calling" /\ where' = [where EXCEPT ![r] = "dropped"]
  /\ outbound' = IF ext[r] THEN None ELSE outbound
  /\ is_started' = (is_started /\ ~ext[r])
  /\ UNCHANGED <<bufVars, ticks, cancel, ext, complete_list>>

TasksRun == Tick \/ (\E t \in Tasks : AnswerReads(t)) \/ \E r \in Read : CancelCall(r)

Next == Open \/ Close \/ Put \/ TasksRun \/ \E r \in Read : Start(r) \/ Cancel(r)

Spec == Init /\ [][Next]_vars

\* The tasks run, and the device ticks.
Fairness == WF_vars(TasksRun)

-----------------------------------------------------------------------------
\* The reader has the read that it has started last and not let go of, and no
\* other: not one that is answered, or that its canceller has completed, and no
\* late canceller takes the next read from it.
OneIsHeld ==
  /\ is_started <=> outbound # None
  /\ \A r \in Read : r = outbound <=> where[r] \in {"held", "calling"} /\ ext[r]
  /\ \A r \in Read : where[r] = "held" <=> cancel[r] = "has"

\* No read waits while keys that have triggered are there.
NoneWaits == is_started => avail = 0

\* A read that is started is answered, in time at the latest, or dropped by its
\* canceller.
ReadsEnd == <>[]\A r \in Read : where[r] \in {"new"} \cup Ended
=============================================================================
