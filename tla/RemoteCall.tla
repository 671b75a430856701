---------------------------- MODULE RemoteCall ----------------------------
(***************************************************************************)
(* What PTP promises its user: a request is executed by the server at most *)
(* once while its client waits for it, unless the server has forsaken it,  *)
(* and the client gets the answer of one execution of its own request or   *)
(* an error.  Nothing is promised of requests whose client has gone: a     *)
(* late copy of one may be executed again.                                 *)
(***************************************************************************)
CONSTANTS Trans, Execution, Failure

VARIABLES outcome,  \* of each request: "New", "Asked", "Ok" or a failure, and the execution
                    \* the answer is from
          executed, \* the executions, with the request of each
          forsaken  \* requests the server has given up or was told to cancel

vars == <<outcome, executed, forsaken>>

Init == /\ outcome = [t \in Trans |-> [how |-> "New", from |-> <<>>]]
        /\ executed = {}
        /\ forsaken = {}

ExecutionsOf(t) == {x \in executed : x[1] = t}

\* What a step of the client may make of request t : ask it, fail it, take
\* the answer of one of its executions.
Asked(t)    == outcome[t].how = "New" /\ outcome'[t] = [outcome[t] EXCEPT !.how = "Asked"]
Failed(t)   == /\ outcome[t].how \in {"New", "Asked"}
               /\ \E f \in Failure : outcome'[t] = [outcome[t] EXCEPT !.how = f]
Answered(t) == /\ outcome[t].how = "Asked"
               /\ \E x \in ExecutionsOf(t) : outcome'[t] = [how |-> "Ok", from |-> x]

\* One request that ends lets others start, or fail, in the same step.
Client == /\ DOMAIN outcome' = Trans
          /\ \A t \in Trans : outcome'[t] = outcome[t] \/ Asked(t) \/ Failed(t) \/ Answered(t)
          /\ UNCHANGED <<executed, forsaken>>

Execute(t, e) ==
  /\ outcome[t].how # "New"
  /\ e \notin {x[2] : x \in executed}
  /\ outcome[t].how = "Asked" /\ t \notin forsaken => ExecutionsOf(t) = {}
  /\ executed' = executed \cup {<<t, e>>}
  /\ UNCHANGED <<outcome, forsaken>>

Forsake(ts) == forsaken' = forsaken \cup ts /\ UNCHANGED <<outcome, executed>>

Next == Client \/ (\E ts \in SUBSET Trans : Forsake(ts)) \/ (\E t \in Trans, e \in Execution : Execute(t, e))

Spec == Init /\ [][Next]_vars
=============================================================================
