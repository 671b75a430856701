----------------------------- MODULE JobMachine -----------------------------
(***************************************************************************)
(* class JobMachine : workers that take a unit of a Sem (here what it      *)
(* promises, module CountSpec) for each job, then a job from a list under  *)
(* a Mutex.  stop() gives one unit more, which the workers that find no    *)
(* job pass on as they leave.  Clients add jobs, and jobs add jobs; the    *)
(* unit is given after the job is in the list.                             *)
(***************************************************************************)
EXTENDS Integers, Sequences, SequencesExt, FiniteSets, TaskCount

CONSTANTS Worker, Client,
          Owner,  \* the task that calls stop()
          Job   \* the jobs; one that has run may be added again

VARIABLES pri, normal,  \* the JobList
          units,        \* of sem
          stop_flag, ex_flag,
          job,          \* the job of each worker, if any
          told,         \* whether it was told to stop
          pc            \* where each task is

vars == <<pri, normal, units, stop_flag, ex_flag, job, told, pc>>

Actor == Worker \cup Client \cup {Owner}

NoJob == << >>

\* A job in a list or with a worker.
Busy == ToSet(pri) \cup ToSet(normal) \cup {j \in Job : \E w \in Worker : j \in ToSet(job[w])}

\* start : each worker is a task counted in asem until work() returns
Init == /\ pri = << >> /\ normal = << >>
        /\ units = 0
        /\ stop_flag = FALSE /\ ex_flag = FALSE
        /\ job = [w \in Worker |-> NoJob]
        /\ told = [w \in Worker |-> FALSE]
        /\ pc = [t \in Actor |-> IF t \in Worker THEN "take" ELSE "free"]

To(t, label) == pc' = [pc EXCEPT ![t] = label]

\* A task that may add a job: a client until the workers are gone (the loop at
\* the end of stop() takes no mutex, and an add() beside it breaks the contract),
\* and a worker from inside its job; FuncJobObject::job() does nothing when it
\* is told to stop.
MayAdd(t) ==
  \/ t \in Client /\ pc[t] = "free" /\ pc[Owner] \in {"free", "stop", "wait"}
  \/ t \in Worker /\ pc[t] = "run" /\ ~told[t]

\* What could be wrong in the code, to show that the properties see it: here
\* and below, the operators between two such comments.
FinishGetsNext(w) == \* after a job the worker looks for the next one without a unit
  /\ pc[w] = "run"
  /\ job' = [job EXCEPT ![w] = NoJob] /\ told' = [told EXCEPT ![w] = FALSE]
  /\ ex_flag' \in {ex_flag, TRUE}
  /\ To(w, "get")
  /\ UNCHANGED <<pri, normal, units, stop_flag>>

LeaveQuietly(w) ==   \* a worker that leaves keeps the unit
  /\ pc[w] = "leave"
  /\ To(w, "gone")
  /\ UNCHANGED <<pri, normal, units, stop_flag, ex_flag, job, told>>

\* What the code does.
\* add, addPri : list.add under the mutex
Add(t) ==
  /\ MayAdd(t)
  /\ \E j \in Job \ Busy :
       \/ normal' = Append(normal, j) /\ UNCHANGED pri
       \/ pri' = Append(pri, j) /\ UNCHANGED normal
  /\ To(t, IF t \in Client THEN "add" ELSE "add_run")
  /\ UNCHANGED <<units, stop_flag, ex_flag, job, told>>

\* add, addPri : sem.give()
AddGive(t) ==
  /\ pc[t] \in {"add", "add_run"}
  /\ units' = units + 1
  /\ To(t, IF t \in Client THEN "free" ELSE "run")
  /\ UNCHANGED <<pri, normal, stop_flag, ex_flag, job, told>>

\* work : sem.take()
SemTake(w) ==
  /\ pc[w] = "take" /\ units > 0
  /\ units' = units - 1
  /\ To(w, "get")
  /\ UNCHANGED <<pri, normal, stop_flag, ex_flag, job, told>>

\* JobList::get : the job got is removed, one of pri if there is any
Got(j) ==
  \/ pri # << >> /\ j = Head(pri) /\ pri' = Tail(pri) /\ UNCHANGED normal
  \/ pri = << >> /\ normal # << >> /\ j = Head(normal) /\ normal' = Tail(normal) /\ UNCHANGED pri

\* work : getJob() finds a job, and the job begins with stop_flag as it is then
GetJob(w) ==
  /\ pc[w] = "get"
  /\ \E j \in Job :
       /\ Got(j)
       /\ job' = [job EXCEPT ![w] = <<j>>]
       /\ told' = [told EXCEPT ![w] = stop_flag]
  /\ To(w, "run")
  /\ UNCHANGED <<units, stop_flag, ex_flag>>

\* work : getJob() finds none
GetNoJob(w) ==
  /\ pc[w] = "get" /\ pri = << >> /\ normal = << >>
  /\ To(w, "leave")
  /\ UNCHANGED <<pri, normal, units, stop_flag, ex_flag, job, told>>

\* work : job->job() returns, or throws
Finish(w) ==
  /\ pc[w] = "run"
  /\ job' = [job EXCEPT ![w] = NoJob] /\ told' = [told EXCEPT ![w] = FALSE]
  /\ ex_flag' \in {ex_flag, TRUE}
  /\ To(w, "take")
  /\ UNCHANGED <<pri, normal, units, stop_flag>>

\* work : sem.give(), and the task is over
Leave(w) ==
  /\ pc[w] = "leave"
  /\ units' = units + 1
  /\ To(w, "gone")
  /\ UNCHANGED <<pri, normal, stop_flag, ex_flag, job, told>>

\* stop : stop_flag=1
StopFlag ==
  /\ pc[Owner] = "free"
  /\ stop_flag' = TRUE
  /\ To(Owner, "stop")
  /\ UNCHANGED <<pri, normal, units, ex_flag, job, told>>

\* stop : sem.give()
StopGive ==
  /\ pc[Owner] = "stop"
  /\ units' = units + 1
  /\ To(Owner, "wait")
  /\ UNCHANGED <<pri, normal, stop_flag, ex_flag, job, told>>

\* stop : asem.wait(), until all workers are gone
StopWait ==
  /\ pc[Owner] = "wait" /\ \A w \in Worker : pc[w] = "gone"
  /\ To(Owner, "drain")
  /\ UNCHANGED <<pri, normal, units, stop_flag, ex_flag, job, told>>

\* stop : the jobs still in the list are run by the owner, told to stop
StopDrain ==
  /\ pc[Owner] = "drain"
  /\ \/ (\E j \in Job : Got(j)) /\ ex_flag' \in {ex_flag, TRUE} /\ UNCHANGED pc
     \/ pri = << >> /\ normal = << >> /\ To(Owner, "done") /\ UNCHANGED <<pri, normal, ex_flag>>
  /\ UNCHANGED <<units, stop_flag, job, told>>

Work(w) == SemTake(w) \/ GetJob(w) \/ GetNoJob(w) \/ Finish(w) \/ Leave(w)

Stop == StopGive \/ StopWait \/ StopDrain

Next == \/ \E t \in Actor : Add(t) \/ AddGive(t)
        \/ \E w \in Worker : Work(w)
        \/ StopFlag \/ Stop

Spec == Init /\ [][Next]_vars

\* A job returns, however many it adds, and tasks are not stopped.
Fairness == /\ \A t \in Actor : WF_vars(AddGive(t))
            /\ \A w \in Worker : WF_vars(Work(w)) /\ SF_vars(Finish(w))
            /\ WF_vars(Stop)

-----------------------------------------------------------------------------
TypeOK == /\ {pri, normal} \subseteq Seq(Job)
          /\ units \in Nat
          /\ stop_flag \in BOOLEAN /\ ex_flag \in BOOLEAN
          /\ job \in [Worker -> Seq(Job)]
          /\ told \in [Worker -> BOOLEAN]
          /\ pc \in [Actor -> {"free", "add", "add_run", "stop", "wait", "drain", "done",
                                "take", "get", "run", "leave", "gone"}]

N(label) == CountAt(pc, label)

Listed == Len(pri) + Len(normal)

StopUnit == IF pc[Owner] = "wait" THEN 1 ELSE 0

\* Each job in the list has its unit, in sem, with a worker that has taken it
\* or with a task that will give it, and the only unit more is that of stop(),
\* until stop() empties the list itself.
\* So no worker leaves before stop(), although a unit does not say which job
\* it is for, and each job added before stop() is run by a worker or, told to
\* stop, at the end of stop().
JobsHaveUnits ==
  /\ pc[Owner] \notin {"drain", "done"} =>
       units + N("get") + N("leave") + N("add") + N("add_run") = Listed + StopUnit
  /\ \A w \in Worker : pc[w] \in {"leave", "gone"} => stop_flag

\* stop() returns, with every worker gone and no job left, whatever the jobs
\* add meanwhile, unless a client adds jobs again and again.
StopReturns == <>[][\A c \in Client : ~Add(c)]_vars
                 => (stop_flag ~> pc[Owner] = "done" /\ Busy = {})
=============================================================================
