--------------------------- MODULE AsyncUDPDevice ---------------------------
(***************************************************************************)
(* class AsyncUDPDevice<T> : one task waits for the end of a write, for    *)
(* the end of a read, for an interrupt and for the tick, and starts the    *)
(* next write and read.  Users put packets, which cancellers may cancel,   *)
(* and keep up to max_packets read ones; the owner starts and stops the    *)
(* task and destroys the device.  Packets read differ by nothing but where *)
(* they are, so they are counted.                                          *)
(***************************************************************************)
EXTENDS Integers, Sequences, SequencesExt

CONSTANTS Out,         \* the packets to send; one that is completed may be sent again
          NoPacket,
          max_packets,
          PushLimit,   \* the loops of push_out and push_in, 100 in the code
          MaxInside    \* bound: the tasks that are inside complete() at a time

VARIABLES \* outbound
          out_list, out_packet,
          cancel_state,   \* of each packet: "None", "Has" (a cancel function), "Cancelled"
          ext,            \* of each packet: in the list for its canceller to remove
          calling,        \* the packets whose cancel function is called
          interrupting,   \* the packets whose put() has still to interrupt the task
          completed,      \* history: how often each packet was completed since its put()
          \* inbound
          in_packet,      \* a read is started
          use_count, interrupt_flag, exit_count, exit_flag, exit_sem,
          held,           \* packets read and not completed
          waking,         \* calls of complete() that have still to interrupt the task
          leaving,        \* and those that have still to take themselves off exit_count
          \* the task and its owner
          dev, cur, cnt, next,   \* where the task is, its packet, its loop's counter, where it goes then
          interrupted, stop_flag, owner,
          restarted       \* history: the task was started again

outVars   == <<out_list, out_packet, cancel_state, ext, calling, interrupting, completed>>
inVars    == <<in_packet, use_count, interrupt_flag, exit_count, exit_flag, exit_sem, held, waking, leaving>>
loopVars  == <<dev, cur, cnt, next>>
ownerVars == <<stop_flag, owner, restarted>>
vars == <<outVars, inVars, loopVars, interrupted, ownerVars>>

Init == /\ out_list = << >> /\ out_packet = NoPacket
        /\ cancel_state = [p \in Out |-> "None"]
        /\ ext = [p \in Out |-> FALSE]
        /\ calling = {} /\ interrupting = {}
        /\ completed = [p \in Out |-> 1]
        /\ in_packet = FALSE
        /\ use_count = 0 /\ interrupt_flag = FALSE
        /\ exit_count = 0 /\ exit_flag = FALSE /\ exit_sem = 0
        /\ held = 0 /\ waking = 0 /\ leaving = 0
        /\ dev = "in" /\ cur = NoPacket /\ cnt = PushLimit /\ next = "wait"
        /\ interrupted = FALSE
        /\ stop_flag = FALSE /\ owner = "running" /\ restarted = FALSE

\* packet.complete()
Complete(p) == completed' = [completed EXCEPT ![p] = @ + 1]

\* Users and cancellers let the device alone when its owner destroys it.
InService == owner \in {"running", "stopping", "stopped"}

-----------------------------------------------------------------------------
\* Users and cancellers of the packets to send

\* What could be wrong in the code, to show that the properties see it: here
\* and below, the operators between two such comments.
PutWhileWaits(p) ==    \* the task is interrupted only if it waits
  /\ InService /\ completed[p] = 1 /\ p \notin calling \cup interrupting /\ cancel_state[p] = "None"
  /\ cancel_state' = [cancel_state EXCEPT ![p] = "Has"]
  /\ out_list' = Append(out_list, p)
  /\ ext' = [ext EXCEPT ![p] = TRUE]
  /\ completed' = [completed EXCEPT ![p] = 0]
  /\ interrupting' = IF dev = "wait" THEN interrupting \cup {p} ELSE interrupting
  /\ UNCHANGED <<out_packet, calling, inVars, loopVars, interrupted, ownerVars>>

\* What the code does.
\* put : the packet is listed, and the task interrupted unless a write is started.
\* (A packet that was cancelled before is completed and the device not changed.)
Put(p) ==
  /\ InService /\ completed[p] = 1 /\ p \notin calling \cup interrupting /\ cancel_state[p] = "None"
  /\ cancel_state' = [cancel_state EXCEPT ![p] = "Has"]
  /\ out_list' = Append(out_list, p)
  /\ ext' = [ext EXCEPT ![p] = TRUE]
  /\ completed' = [completed EXCEPT ![p] = 0]
  /\ interrupting' = IF out_packet = NoPacket THEN interrupting \cup {p} ELSE interrupting
  /\ UNCHANGED <<out_packet, calling, inVars, loopVars, interrupted, ownerVars>>

\* outbound : wait.interrupt()
PutInterrupt(p) ==
  /\ p \in interrupting
  /\ interrupting' = interrupting \ {p}
  /\ interrupted' = TRUE
  /\ UNCHANGED <<out_list, out_packet, cancel_state, ext, calling, completed, inVars, loopVars, ownerVars>>

\* A canceller takes the packet's cancel function.
CancelBegin(p) ==
  /\ cancel_state[p] = "Has"
  /\ cancel_state' = [cancel_state EXCEPT ![p] = "Cancelled"]
  /\ calling' = calling \cup {p}
  /\ UNCHANGED <<out_list, out_packet, ext, interrupting, completed, inVars, loopVars, interrupted, ownerVars>>

\* cancel : the packet leaves the list if the task has not taken it off
Cancel(p) ==
  /\ p \in calling
  /\ calling' = calling \ {p}
  /\ out_list' = IF ext[p] THEN RemoveFirst(out_list, p) ELSE out_list
  /\ ext' = [ext EXCEPT ![p] = FALSE]
  /\ Complete(p)
  /\ cancel_state' = [cancel_state EXCEPT ![p] = "None"]
  /\ UNCHANGED <<out_packet, interrupting, inVars, loopVars, interrupted, ownerVars>>

-----------------------------------------------------------------------------
\* push_out

\* push_out returns false
Back == dev' = next /\ cnt' = PushLimit /\ cur' = NoPacket /\ UNCHANGED next

\* What could be wrong in the code, to show that the properties see it.
GetBlind ==    \* a packet whose cancel function is called is sent all the same
  /\ dev = "out" /\ cnt > 0 /\ out_packet = NoPacket /\ ~stop_flag /\ out_list # << >>
  /\ out_list' = Tail(out_list)
  /\ cur' = Head(out_list) /\ dev' = "start_out"
  /\ cancel_state' = [cancel_state EXCEPT ![Head(out_list)] = "None"]
  /\ ext' = [ext EXCEPT ![Head(out_list)] = FALSE]
  /\ UNCHANGED <<out_packet, calling, interrupting, completed, cnt, next, inVars, interrupted, ownerVars>>

\* What the code does.
\* get : the first packet of the list; one that is being cancelled is left to
\* its canceller, and the next one is looked at
Get ==
  /\ dev = "out" /\ cnt > 0 /\ out_packet = NoPacket /\ ~stop_flag /\ out_list # << >>
  /\ LET p == Head(out_list) IN
     \/ /\ cancel_state[p] = "Has"
        /\ cancel_state' = [cancel_state EXCEPT ![p] = "None"]
        /\ cur' = p /\ dev' = "start_out"
     \/ /\ cancel_state[p] = "Cancelled"
        /\ UNCHANGED <<cancel_state, dev, cur>>
  /\ ext' = [ext EXCEPT ![Head(out_list)] = FALSE]
  /\ out_list' = Tail(out_list)
  /\ UNCHANGED <<out_packet, calling, interrupting, completed, cnt, next, inVars, interrupted, ownerVars>>

\* get : a write is started, or nothing is listed
GetNothing ==
  /\ dev = "out" /\ cnt > 0
  /\ out_packet # NoPacket \/ (~stop_flag /\ out_list = << >>)
  /\ Back
  /\ UNCHANGED <<outVars, inVars, interrupted, ownerVars>>

\* get : stop_flag is looked at when no write is started, and objRun returns
GetStop ==
  /\ dev = "out" /\ cnt > 0 /\ out_packet = NoPacket /\ stop_flag
  /\ dev' = "stopped"
  /\ UNCHANGED <<cur, cnt, next, outVars, inVars, interrupted, ownerVars>>

\* push_out : after PushLimit packets the task interrupts itself
PushOutEnds ==
  /\ dev = "out" /\ cnt = 0
  /\ interrupted' = TRUE
  /\ Back
  /\ UNCHANGED <<outVars, inVars, ownerVars>>

\* start_out : the write ends at once, or fails
StartOutDone ==
  /\ dev = "start_out"
  /\ Complete(cur)
  /\ dev' = "out" /\ cnt' = cnt - 1 /\ cur' = NoPacket
  /\ UNCHANGED <<out_list, out_packet, cancel_state, ext, calling, interrupting, next, inVars, interrupted, ownerVars>>

\* start_out : the write is started
StartOutPending ==
  /\ dev = "start_out"
  /\ out_packet' = cur
  /\ Back
  /\ UNCHANGED <<out_list, cancel_state, ext, calling, interrupting, completed, inVars, interrupted, ownerVars>>

PushOut == Get \/ GetNothing \/ GetStop \/ PushOutEnds \/ StartOutDone \/ StartOutPending

-----------------------------------------------------------------------------
\* push_in

\* push_in returns
WaitAgain == dev' = "wait" /\ cnt' = PushLimit /\ UNCHANGED <<cur, next>>

\* push_in : a read is started already
PushInBusy ==
  /\ dev = "in" /\ in_packet
  /\ WaitAgain
  /\ UNCHANGED <<outVars, inVars, interrupted, ownerVars>>

\* get_in : the packet is counted before it is allocated
GetIn ==
  /\ dev = "in" /\ ~in_packet /\ cnt > 0 /\ use_count < max_packets
  /\ use_count' = use_count + 1 /\ exit_count' = exit_count + 1
  /\ dev' = "alloc_in"
  /\ UNCHANGED <<cur, cnt, next, in_packet, interrupt_flag, exit_flag, exit_sem, held, waking, leaving,
                 outVars, interrupted, ownerVars>>

\* get_in : max_packets are in use, and the next one that is completed interrupts the task
GetInFull ==
  /\ dev = "in" /\ ~in_packet /\ cnt > 0 /\ use_count >= max_packets
  /\ interrupt_flag' = TRUE
  /\ WaitAgain
  /\ UNCHANGED <<in_packet, use_count, exit_count, exit_flag, exit_sem, held, waking, leaving,
                 outVars, interrupted, ownerVars>>

\* get_in : there is no packet; only the tick tries again
GetInNoPacket ==
  /\ dev = "alloc_in"
  /\ use_count' = use_count - 1 /\ exit_count' = exit_count - 1
  /\ WaitAgain
  /\ UNCHANGED <<in_packet, interrupt_flag, exit_flag, exit_sem, held, waking, leaving,
                 outVars, interrupted, ownerVars>>

\* start_in : the read is started
StartInPending ==
  /\ dev = "alloc_in"
  /\ in_packet' = TRUE
  /\ WaitAgain
  /\ UNCHANGED <<use_count, interrupt_flag, exit_count, exit_flag, exit_sem, held, waking, leaving,
                 outVars, interrupted, ownerVars>>

\* start_in : the read ends at once; the packet goes to the attached proc, or is completed
StartInDone ==
  /\ dev = "alloc_in"
  /\ held' = held + 1
  /\ dev' = "in" /\ cnt' = cnt - 1
  /\ UNCHANGED <<cur, next, in_packet, use_count, interrupt_flag, exit_count, exit_flag, exit_sem, waking, leaving,
                 outVars, interrupted, ownerVars>>

\* push_in : after PushLimit packets the task interrupts itself
PushInEnds ==
  /\ dev = "in" /\ ~in_packet /\ cnt = 0
  /\ interrupted' = TRUE
  /\ WaitAgain
  /\ UNCHANGED <<outVars, inVars, ownerVars>>

PushIn == PushInBusy \/ GetIn \/ GetInFull \/ StartInPending \/ StartInDone \/ PushInEnds

-----------------------------------------------------------------------------
\* complete, of a packet read

\* What could be wrong in the code, to show that the properties see it.
InCompleteEarly ==      \* exit_count goes down before the interrupt
  /\ held > 0 /\ waking + leaving < MaxInside
  /\ held' = held - 1 /\ use_count' = use_count - 1
  /\ interrupt_flag' = FALSE
  /\ waking' = IF interrupt_flag THEN waking + 1 ELSE waking
  /\ exit_count' = exit_count - 1
  /\ exit_sem' = IF exit_flag /\ exit_count = 1 THEN exit_sem + 1 ELSE exit_sem
  /\ UNCHANGED <<in_packet, exit_flag, leaving, outVars, loopVars, interrupted, ownerVars>>

InCompleteQuietly ==    \* interrupt_flag is left for the next one
  /\ held > 0 /\ waking + leaving < MaxInside
  /\ held' = held - 1 /\ use_count' = use_count - 1
  /\ exit_count' = exit_count - 1
  /\ exit_sem' = IF exit_flag /\ exit_count = 1 THEN exit_sem + 1 ELSE exit_sem
  /\ UNCHANGED <<in_packet, interrupt_flag, exit_flag, waking, leaving, outVars, loopVars, interrupted, ownerVars>>

LeavesLate ==           \* exit_count is compared after it went down as if it had not
  /\ exit_count' = exit_count - 1
  /\ exit_sem' = IF exit_flag /\ exit_count' = 1 THEN exit_sem + 1 ELSE exit_sem

\* What the code does.
\* A task takes itself off exit_count, and the last one wakes finish().
Leaves ==
  /\ exit_count' = exit_count - 1
  /\ exit_sem' = IF exit_flag /\ exit_count = 1 THEN exit_sem + 1 ELSE exit_sem

\* complete : the packet counts no more, and the task is to be interrupted if it waits for that
InComplete ==
  /\ held > 0 /\ waking + leaving < MaxInside
  /\ held' = held - 1 /\ use_count' = use_count - 1
  /\ \/ interrupt_flag /\ interrupt_flag' = FALSE /\ waking' = waking + 1 /\ UNCHANGED <<exit_count, exit_sem>>
     \/ ~interrupt_flag /\ Leaves /\ UNCHANGED <<interrupt_flag, waking>>
  /\ UNCHANGED <<in_packet, exit_flag, leaving, outVars, loopVars, interrupted, ownerVars>>

\* complete : wait.interrupt()
InInterrupt ==
  /\ waking > 0
  /\ waking' = waking - 1 /\ leaving' = leaving + 1
  /\ interrupted' = TRUE
  /\ UNCHANGED <<in_packet, use_count, interrupt_flag, exit_count, exit_flag, exit_sem, held,
                 outVars, loopVars, ownerVars>>

\* complete : exit_count-- after the interrupt
InLeave ==
  /\ leaving > 0
  /\ leaving' = leaving - 1
  /\ Leaves
  /\ UNCHANGED <<in_packet, use_count, interrupt_flag, exit_flag, held, waking,
                 outVars, loopVars, interrupted, ownerVars>>

-----------------------------------------------------------------------------
\* objRun : what wait() returns

WaitTick ==
  /\ dev = "wait" /\ dev' = "in"
  /\ UNCHANGED <<cur, cnt, next, outVars, inVars, interrupted, ownerVars>>

WaitInterrupt ==
  /\ dev = "wait" /\ interrupted
  /\ interrupted' = FALSE
  /\ dev' = "out" /\ next' = "in"
  /\ UNCHANGED <<cur, cnt, outVars, inVars, ownerVars>>

\* complete_out : the write has ended
WaitOutbound ==
  /\ dev = "wait" /\ out_packet # NoPacket
  /\ Complete(out_packet)
  /\ out_packet' = NoPacket
  /\ dev' = "out" /\ next' = "wait"
  /\ UNCHANGED <<out_list, cancel_state, ext, calling, interrupting, cur, cnt, inVars, interrupted, ownerVars>>

\* complete_in : the read has ended
WaitInbound ==
  /\ dev = "wait" /\ in_packet
  /\ in_packet' = FALSE /\ held' = held + 1
  /\ dev' = "in"
  /\ UNCHANGED <<cur, cnt, next, use_count, interrupt_flag, exit_count, exit_flag, exit_sem, waking, leaving,
                 outVars, interrupted, ownerVars>>

-----------------------------------------------------------------------------
\* The owner

To(stage) == owner' = stage

\* signalStop : stop_flag=true
SignalStop ==
  /\ owner = "running" /\ To("signalling")
  /\ stop_flag' = TRUE
  /\ UNCHANGED <<restarted, outVars, inVars, loopVars, interrupted>>

\* signalStop : wait.interrupt()
StopInterrupt ==
  /\ owner = "signalling" /\ To("stopping")
  /\ interrupted' = TRUE
  /\ UNCHANGED <<stop_flag, restarted, outVars, inVars, loopVars>>

\* ~StartStopObject : stop_sem.take(), when objRun has returned
Stopped ==
  /\ owner = "stopping" /\ dev = "stopped" /\ To("stopped")
  /\ UNCHANGED <<stop_flag, restarted, outVars, inVars, loopVars, interrupted>>

\* StartStopObject : prepareRun, and the task begins with push_in
Restart ==
  /\ owner = "stopped" /\ To("running")
  /\ stop_flag' = FALSE /\ restarted' = TRUE
  /\ dev' = "in" /\ cnt' = PushLimit /\ cur' = NoPacket /\ next' = "wait"
  /\ UNCHANGED <<outVars, inVars, interrupted>>

\* finish : reads and writes have ended, and their packets are completed; the
\* list must be empty, or the program is aborted, and no user is in the device
Finish ==
  /\ owner = "stopped" /\ To("finishing")
  /\ out_list = << >> /\ calling = {} /\ interrupting = {}
  /\ out_packet' = NoPacket
  /\ completed' = [p \in Out |-> IF p = out_packet THEN completed[p] + 1 ELSE completed[p]]
  /\ in_packet' = FALSE
  /\ held' = IF in_packet THEN held + 1 ELSE held
  /\ UNCHANGED <<out_list, cancel_state, ext, calling, interrupting, use_count, interrupt_flag, exit_count,
                 exit_flag, exit_sem, waking, leaving, loopVars, interrupted, stop_flag, restarted>>

\* cancel_and_wait
CancelAndWait ==
  /\ owner = "finishing"
  /\ exit_flag' = TRUE /\ interrupt_flag' = FALSE
  /\ To(IF exit_count > 0 THEN "waiting" ELSE "finished")
  /\ UNCHANGED <<in_packet, use_count, exit_count, exit_sem, held, waking, leaving,
                 outVars, loopVars, interrupted, stop_flag, restarted>>

\* cancel_and_wait : exit_sem.take(), and the device is destroyed
Exit ==
  /\ owner = "waiting" /\ exit_sem > 0 /\ To("finished")
  /\ exit_sem' = exit_sem - 1
  /\ UNCHANGED <<in_packet, use_count, interrupt_flag, exit_count, exit_flag, held, waking, leaving,
                 outVars, loopVars, interrupted, stop_flag, restarted>>

Next == \/ \E p \in Out : Put(p) \/ PutInterrupt(p) \/ CancelBegin(p) \/ Cancel(p)
        \/ PushOut \/ PushIn \/ GetInNoPacket
        \/ InComplete \/ InInterrupt \/ InLeave
        \/ WaitTick \/ WaitInterrupt \/ WaitOutbound \/ WaitInbound
        \/ SignalStop \/ StopInterrupt \/ Stopped \/ Restart \/ Finish \/ CancelAndWait \/ Exit

Spec == Init /\ [][Next]_vars

\* The owner in signalStop, in ~StartStopObject and in finish
Owner == StopInterrupt \/ Stopped \/ CancelAndWait \/ Exit

\* Tasks run, a write ends, and users complete what they have read.  The tick is
\* not needed, and no read has to end.
TaskRuns == WF_vars(PushOut \/ PushIn)

OthersRun == /\ SF_vars(WaitInterrupt) /\ SF_vars(WaitOutbound)
             /\ WF_vars(InComplete) /\ WF_vars(InInterrupt \/ InLeave)
             /\ WF_vars(\E p \in Out : PutInterrupt(p))
             /\ WF_vars(Owner)

Fairness == TaskRuns /\ OthersRun

FairSpec == Spec /\ Fairness

-----------------------------------------------------------------------------
TypeOK == /\ out_list \in Seq(Out) /\ out_packet \in Out \cup {NoPacket}
          /\ cancel_state \in [Out -> {"None", "Has", "Cancelled"}]
          /\ ext \in [Out -> BOOLEAN]
          /\ calling \subseteq Out /\ interrupting \subseteq Out
          /\ {use_count, exit_count, exit_sem, held, waking, leaving} \subseteq Nat
          /\ dev \in {"in", "alloc_in", "out", "start_out", "wait", "stopped"}
          /\ cur \in Out \cup {NoPacket} /\ cnt \in 0..PushLimit /\ next \in {"in", "wait"}
          /\ owner \in {"running", "signalling", "stopping", "stopped", "finishing", "waiting", "finished"}

One(so) == IF so THEN 1 ELSE 0

\* Each packet put is in one place, the list, the task's hands or a canceller's,
\* until it is completed, once: the task and a canceller that meet over it agree
\* who completes it and who takes it off the list.
OneCompletes ==
  /\ TypeOK /\ IsInjective(out_list)
  /\ \A p \in Out :
       LET places == One(p \in ToSet(out_list)) + One(cur = p) + One(out_packet = p)
                       + One(p \in calling /\ ~ext[p])
       IN  completed[p] \in 0..1 /\ places = 1 - completed[p] /\ (p \in calling => completed[p] = 0)

\* When finish() returns no packet read is left, and no complete() is still to
\* call wait.interrupt() or to touch the counters: the device may be destroyed.
FinishIsLast ==
  /\ exit_count = held + waking + leaving + One(in_packet) + One(dev = "alloc_in")
  /\ owner = "finished" => exit_count = 0 /\ use_count = 0 /\ exit_sem = 0

\* A packet in the list leaves it, unless the task is stopped: no put() between
\* the task's last look at the list and its wait is lost.  It does not hold
\* once the task was started again, for objRun() begins with push_in() only,
\* and what was left in the list waits for the next put().
PutIsSent ==
  \A p \in Out : p \in ToSet(out_list) ~> p \notin ToSet(out_list) \/ stop_flag \/ restarted

\* When a packet comes back to a device that had max_packets in use and has
\* ended its last read, the task tries to read again without the tick: no
\* complete() between the task's look at use_count and its wait is lost.
ReadsAgain == interrupt_flag ~> dev = "alloc_in" \/ in_packet \/ stop_flag

\* The task stops when it is told to, a write that is started included, and
\* finish() returns.
StopReturns == /\ owner = "signalling" ~> owner = "stopped"
               /\ owner = "finishing" ~> owner = "finished"
=============================================================================
