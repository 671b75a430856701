------------------------------- MODULE PTPCon -------------------------------
(***************************************************************************)
(* The console service.  PTPCon::ClientDevice keeps the packets of write() *)
(* in a list and sends one at a time: whoever finds none on its way pushes *)
(* the next one.  PTPConProc has one console, opened, written and closed   *)
(* by calls that name its connection; PTPConWrite below it puts the texts  *)
(* in order.  Between them is PTP: a call is executed at most once, maybe  *)
(* after its caller has given it up, and its answer may get lost.          *)
(*                                                                         *)
(* The packets in the list may be cancelled; what get() and a canceller do *)
(* to one packet is in PacketSet, here each is one step.                   *)
(***************************************************************************)
EXTENDS Integers, Sequences, SequencesExt, FiniteSets

CONSTANTS Write,     \* the packets given to write(), numbers in the order they are
          Task,
          MaxOpens,  \* bound of the calls to open()
          BufLen, NumMod, write_ticks

VARIABLES c_opened, con_id, write_number,    \* is_opened of the client, and of what
          list, list_count, packet_count,
          status,    \* each packet of write(): where it is, and WriteExt
          sent,      \* its connection and number
          pc, at,    \* each task that writes or completes, and its packet
          owner,     \* of OpenClose
          opens,     \* history: the calls to open()
          calls,     \* what the server has still to execute
          is_opened, server_id, writer,      \* the server
          last, skipped, shown               \* history: what was printed, and for which connection

clientVars == <<c_opened, con_id, write_number>>
pushVars == <<list, list_count, packet_count, status, sent, pc, at>>
ownerVars == <<owner, opens>>
serverVars == <<is_opened, server_id, writer, last, skipped, shown>>
vars == <<clientVars, pushVars, ownerVars, calls, serverVars>>

Con == INSTANCE PTPConWrite WITH MaxLead <- 0, MaxLate <- 0

NotSent == [con |-> 0, number |-> 0]

Init == /\ c_opened = FALSE /\ con_id = 0 /\ write_number = 0
        /\ list = << >> /\ list_count = 0 /\ packet_count = 0
        /\ status = [w \in Write |-> "new"] /\ sent = [w \in Write |-> NotSent]
        /\ pc = [t \in Task |-> "idle"] /\ at = [t \in Task |-> 0]
        /\ owner = [state |-> "closed", con |-> 0] /\ opens = 0 /\ calls = {}
        /\ Con!Init /\ server_id = 0 /\ shown = {}

Steps(t, from, to) == pc[t] = from /\ pc' = [pc EXCEPT ![t] = to]
Becomes(w, state) == status' = [status EXCEPT ![w] = state]

Completed == {"Ok", "Failed"}

-----------------------------------------------------------------------------
\* write : canlist.put ...
Put(t, w) ==
  /\ status[w] = "new" /\ \A v \in Write : v < w => status[v] # "new"
  /\ Steps(t, "idle", "count")
  /\ list' = Append(list, w) /\ Becomes(w, "listed")
  /\ UNCHANGED <<list_count, packet_count, sent, at>>

\* ... list_count++
Count(t) ==
  /\ Steps(t, "count", "push") /\ list_count' = list_count + 1
  /\ UNCHANGED <<list, packet_count, status, sent, at>>

\* CancelPacketList::cancel : list_count does not know.
Cancel(w) ==
  /\ status[w] = "listed"
  /\ list' = RemoveFirst(list, w) /\ Becomes(w, "Failed")
  /\ UNCHANGED <<list_count, packet_count, sent, pc, at>>

\* What could be wrong in the code, to show that the properties see it: here
\* and below, the operators between two such comments.
PushUncounted(t) ==    \* packets on their way are not looked at
  /\ Steps(t, "push", IF list_count = 0 THEN "idle" ELSE "get")
  /\ list_count' = IF list_count = 0 THEN 0 ELSE list_count - 1
  /\ packet_count' = IF list_count = 0 THEN packet_count ELSE packet_count + 1
  /\ UNCHANGED <<list, status, sent, at>>

\* What the code does: push_write, the first section
Push(t) ==
  \/ /\ list_count = 0 \/ packet_count # 0
     /\ Steps(t, "push", "idle")
     /\ UNCHANGED <<list, list_count, packet_count, status, sent, at>>
  \/ /\ list_count # 0 /\ packet_count = 0
     /\ Steps(t, "push", "get")
     /\ list_count' = list_count - 1 /\ packet_count' = packet_count + 1
     /\ UNCHANGED <<list, status, sent, at>>

\* start_write() : canlist.get
Get(t) ==
  /\ \/ list = << >> /\ Steps(t, "get", "pushed") /\ UNCHANGED <<list, status, at>>
     \/ /\ list # << >> /\ Steps(t, "get", "start")
        /\ list' = Tail(list) /\ at' = [at EXCEPT ![t] = Head(list)] /\ Becomes(Head(list), "taken")
  /\ UNCHANGED <<list_count, packet_count, sent>>

\* start_write(packet) : the first section ...
Start(t) ==
  /\ Steps(t, "start", "number") /\ packet_count' = packet_count + 1
  /\ UNCHANGED <<list, list_count, status, sent, at>>

\* ... and the second: the write has its number, or fails
Number(t) ==
  /\ Steps(t, "number", IF c_opened THEN "send" ELSE "fail")
  /\ sent' = IF c_opened THEN [sent EXCEPT ![at[t]] = [con |-> con_id, number |-> write_number]] ELSE sent
  /\ write_number' = IF c_opened THEN (write_number + 1) % NumMod ELSE write_number
  /\ UNCHANGED <<c_opened, con_id, list, list_count, packet_count, status, at>>

\* ptp->start_format
Send(t) ==
  /\ Steps(t, "send", "pushed") /\ Becomes(at[t], "sent")
  /\ calls' = calls \cup {[what |-> "write", from |-> at[t], con |-> sent[at[t]].con]}
  /\ UNCHANGED <<list, list_count, packet_count, sent, at>>

\* fail(Trans_Aborted), complete_write : push_write there does nothing, for this
\* task has counted itself
Fail(t) ==
  /\ Steps(t, "fail", "pushed") /\ Becomes(at[t], "Failed")
  /\ packet_count' = packet_count - 1 /\ packet_count' # 0
  /\ UNCHANGED <<list, list_count, sent, at>>

\* push_write, the second section
Pushed(t) ==
  /\ Steps(t, "pushed", "push") /\ packet_count' = packet_count - 1
  /\ at' = [at EXCEPT ![t] = 0]
  /\ UNCHANGED <<list, list_count, status, sent>>

\* The transaction of a write ends without an answer: it times out, is cancelled
\* or the connection is lost.
GiveUp(w) ==
  /\ status[w] = "sent" /\ Becomes(w, "lost")
  /\ UNCHANGED <<list, list_count, packet_count, sent, pc, at>>

\* complete_write : the packet is completed ...
CompleteWrite(t, w) ==
  /\ status[w] \in {"ok", "error", "lost"} /\ Steps(t, "idle", "completed")
  /\ Becomes(w, IF status[w] = "ok" THEN "Ok" ELSE "Failed")
  /\ UNCHANGED <<list, list_count, packet_count, sent, at>>

\* What could be wrong in the code, to show that the properties see it.
UncountStops(t) ==     \* complete_write() does not push the next
  /\ Steps(t, "completed", "idle") /\ packet_count' = packet_count - 1
  /\ UNCHANGED <<list, list_count, status, sent, at>>

\* What the code does: ... and the next one is pushed
Uncount(t) ==
  /\ Steps(t, "completed", "push") /\ packet_count' = packet_count - 1
  /\ UNCHANGED <<list, list_count, status, sent, at>>

PushStep(t) == Push(t) \/ Get(t) \/ Start(t) \/ Fail(t) \/ Pushed(t) \/ Uncount(t) \/ Count(t)

\* What the tasks do of themselves, and the ends of the transactions
TasksRun ==
  \/ \E t \in Task : Number(t) /\ UNCHANGED <<ownerVars, calls, serverVars>>
  \/ \E t \in Task : Send(t) /\ UNCHANGED <<clientVars, ownerVars, serverVars>>
  \/ /\ \/ \E t \in Task : PushStep(t) \/ \E w \in Write : CompleteWrite(t, w)
        \/ \E w \in Write : GiveUp(w)
     /\ UNCHANGED <<clientVars, ownerVars, calls, serverVars>>

\* What the users do
UserNext == /\ \E w \in Write : Cancel(w) \/ \E t \in Task : Put(t, w)
            /\ UNCHANGED <<clientVars, ownerVars, calls, serverVars>>

-----------------------------------------------------------------------------
\* OpenClose : the call to open ...
Open ==
  /\ owner.state = "closed" /\ opens < MaxOpens
  /\ owner' = [state |-> "opening", con |-> 0] /\ opens' = opens + 1
  /\ calls' = calls \cup {[what |-> "open", from |-> opens', con |-> 0]}
  /\ UNCHANGED <<clientVars, pushVars, serverVars>>

\* ... do_open, when it is answered ...
DoOpen ==
  /\ owner.state = "answered" /\ owner' = [owner EXCEPT !.state = "open"]
  /\ c_opened' = TRUE /\ con_id' = owner.con /\ write_number' = 0
  /\ UNCHANGED <<pushVars, opens, calls, serverVars>>

\* ... close: do_close and the call
Close ==
  /\ owner.state = "open" /\ owner' = [owner EXCEPT !.state = "closing"]
  /\ c_opened' = FALSE
  /\ calls' = calls \cup {[what |-> "close", from |-> opens, con |-> con_id]}
  /\ UNCHANGED <<con_id, write_number, pushVars, opens, serverVars>>

\* A call to open or close ends without an answer
OwnerGivesUp ==
  /\ owner.state \in {"opening", "closing"} /\ owner' = [owner EXCEPT !.state = "closed"]
  /\ UNCHANGED <<clientVars, pushVars, opens, calls, serverVars>>

OwnerNext == Open \/ DoOpen \/ Close \/ OwnerGivesUp

-----------------------------------------------------------------------------
\* A step of the server that prints: for whom
Prints(con) == shown' = shown \cup {[con |-> con, number |-> writer'.printed[i]] : i \in DOMAIN writer'.printed}

\* PTPConProc::open
ExecuteOpen(c) ==
  /\ c.what = "open"
  /\ \/ is_opened /\ UNCHANGED serverVars
     \/ Con!Open /\ server_id' = server_id + 1 /\ UNCHANGED shown
  /\ \/ /\ owner.state = "opening" /\ c.from = opens
        /\ owner' = IF is_opened THEN [owner EXCEPT !.state = "closed"]
                    ELSE [state |-> "answered", con |-> server_id']
     \/ UNCHANGED owner
  /\ UNCHANGED <<clientVars, pushVars, opens>>

\* PTPConProc::write : whom it finds open, and the id
ExecuteWrite(c) ==
  LET known == is_opened /\ server_id = c.con
      ok == known /\ writer'.ok
  IN /\ c.what = "write"
     /\ \/ known /\ Con!PutText(sent[c.from].number) /\ Prints(server_id) /\ UNCHANGED server_id
        \/ ~known /\ UNCHANGED serverVars
     /\ \/ status[c.from] = "sent" /\ Becomes(c.from, IF ok THEN "ok" ELSE "error")
        \/ UNCHANGED status
     /\ UNCHANGED <<clientVars, list, list_count, packet_count, sent, pc, at, ownerVars>>

\* do_close
DoClose == Con!Close /\ Prints(server_id) /\ UNCHANGED server_id

\* PTPConProc::close
ExecuteClose(c) ==
  LET known == is_opened /\ server_id = c.con
  IN /\ c.what = "close"
     /\ \/ known /\ DoClose
        \/ ~known /\ UNCHANGED serverVars
     /\ \/ owner.state = "closing" /\ c.from = opens /\ owner' = [owner EXCEPT !.state = "closed"]
        \/ UNCHANGED owner
     /\ UNCHANGED <<clientVars, pushVars, opens>>

\* inbound : a call is executed, and its answer may get lost
Execute(c) == (ExecuteOpen(c) \/ ExecuteWrite(c) \/ ExecuteClose(c)) /\ calls' = calls \ {c}

\* tick
Tick == Con!Tick /\ Prints(server_id) /\ UNCHANGED <<server_id, clientVars, pushVars, ownerVars, calls>>

\* session : from the client's point
Session == is_opened /\ DoClose /\ UNCHANGED <<clientVars, pushVars, ownerVars, calls>>

ServerNext == Tick \/ Session \/ \E c \in calls : Execute(c)

Next == TasksRun \/ UserNext \/ OwnerNext \/ ServerNext

Spec == Init /\ [][Next]_vars

\* The tasks run, and each transaction ends (PTPClient!StartedCompletes).
Fairness == WF_vars(TasksRun)

-----------------------------------------------------------------------------
\* Whoever pushes and whatever is cancelled, closed or late meanwhile, at most
\* one write is on its way; and packet_count counts it and who pushes.
OnTheWay == {w \in Write : status[w] \in {"sent", "ok", "error", "lost"}}
Pushers == {t \in Task : pc[t] \in {"get", "start", "number", "send", "fail", "pushed"}}
Started == {t \in Task : pc[t] \in {"number", "send", "fail", "completed"}}

OneOnTheWay == /\ Cardinality(OnTheWay) <= 1 /\ Cardinality(Pushers) <= 1
               /\ packet_count = Cardinality(OnTheWay) + Cardinality(Pushers) + Cardinality(Started)

\* A text that the client was told is written is printed, or waits in its frame
\* while its connection is open: close(), a new session, frames that are given
\* up and late calls of other connections lose none.
Waiting == {[con |-> server_id, number |-> Con!FrameOf(writer, n).number] :
              n \in {n \in 1..BufLen : is_opened /\ Con!Waits(writer, n)}}

OkIsKept == \A w \in Write : status[w] \in {"ok", "Ok"} => sent[w] \in shown \cup Waiting

\* Every packet given to write() is completed.
WritesEnd == <>[]\A w \in Write : status[w] \in {"new"} \cup Completed
=============================================================================
