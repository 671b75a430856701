----------------------------- MODULE IPTickList -----------------------------
(***************************************************************************)
(* classes IPTickList and IPTickEndpoint : at each tick the task of a      *)
(* NanoIPDevice goes round a circular list and calls the endpoints in it,  *)
(* with the Mutex free during a call, while other tasks attach endpoints   *)
(* and detach them.  guard is where the round has begun and ends.  An      *)
(* endpoint that is detached waits for its call, as its AntiSem promises.  *)
(***************************************************************************)
EXTENDS Naturals, Sequences, SequencesExt

CONSTANTS Endpoint, NoEndpoint

VARIABLES list,      \* from its top; its last element is before its first
          guard,
          called,    \* the endpoint that the device has a Hook of
          state,     \* of each endpoint: "out", "in" (the list), "waiting" (in its destructor)
          ticking,   \* the device is in a round
          ticks,     \* history: how often each endpoint was called in the last round
          stayed     \* history: the endpoints in the list since its beginning

vars == <<list, guard, called, state, ticking, ticks, stayed>>

Init == /\ list = << >> /\ guard = NoEndpoint /\ called = NoEndpoint
        /\ state = [e \in Endpoint |-> "out"]
        /\ ticking = FALSE
        /\ ticks = [e \in Endpoint |-> 0] /\ stayed = {}

-----------------------------------------------------------------------------
\* attach : as the bottom, before the top
Attach(e) ==
  /\ state[e] = "out"
  /\ state' = [state EXCEPT ![e] = "in"]
  /\ list' = Append(list, e)
  /\ ticks' = [ticks EXCEPT ![e] = 0]
  /\ UNCHANGED <<guard, called, ticking, stayed>>

Place(e) == CHOOSE i \in DOMAIN list : list[i] = e

After(e) == IF Place(e) = Len(list) THEN Head(list) ELSE list[Place(e) + 1]

Leave(e, new_guard) ==
  /\ state[e] = "in"
  /\ state' = [state EXCEPT ![e] = "waiting"]
  /\ guard' = IF e = guard THEN new_guard ELSE guard
  /\ list' = RemoveAt(list, Place(e))
  /\ stayed' = stayed \ {e}
  /\ UNCHANGED <<called, ticking, ticks>>

\* What could be wrong in the code, to show that the properties see it: here
\* and below, the operators between two such comments.
DetachForgets(e) == Leave(e, NoEndpoint)    \* guard is only cleared

DetachMoves(e) == Leave(e, After(e))        \* the next endpoint may be the next to be called

\* What the code does.
\* detach : the guard moves on, unless nobody is called after it
Detach(e) == Leave(e, IF After(e) # Head(list) THEN After(e) ELSE NoEndpoint)

\* ~IPTickEndpoint : asem.wait()
Destroy(e) ==
  /\ state[e] = "waiting" /\ called # e
  /\ state' = [state EXCEPT ![e] = "out"]
  /\ UNCHANGED <<list, guard, called, ticking, ticks, stayed>>

-----------------------------------------------------------------------------
\* tick of the list
Tick ==
  /\ ~ticking /\ ticking' = TRUE
  /\ guard' = NoEndpoint
  /\ ticks' = [e \in Endpoint |-> 0] /\ stayed' = ToSet(list)
  /\ UNCHANGED <<list, called, state>>

\* take : the top becomes the bottom; the guard itself ends the round
Take ==
  /\ ticking /\ called = NoEndpoint /\ list # << >>
  /\ list' = Append(Tail(list), Head(list))
  /\ IF Head(list) = guard
       THEN ticking' = FALSE /\ UNCHANGED <<guard, called, ticks>>
       ELSE /\ guard' = IF guard = NoEndpoint THEN Head(list) ELSE guard
            /\ called' = Head(list)
            /\ ticks' = [ticks EXCEPT ![Head(list)] = @ + 1]
            /\ UNCHANGED ticking
  /\ UNCHANGED <<state, stayed>>

\* take : nobody is there
TakeNobody ==
  /\ ticking /\ called = NoEndpoint /\ list = << >>
  /\ ticking' = FALSE
  /\ UNCHANGED <<list, guard, called, state, ticks, stayed>>

\* tick_function returns, and the Hook lets go
Return ==
  /\ called # NoEndpoint /\ called' = NoEndpoint
  /\ UNCHANGED <<list, guard, state, ticking, ticks, stayed>>

DeviceRuns == Tick \/ Take \/ TakeNobody \/ Return

Next == DeviceRuns \/ \E e \in Endpoint : Attach(e) \/ Detach(e) \/ Destroy(e)

Spec == Init /\ [][Next]_vars

\* The device ticks, a call returns, and a destructor goes on when it may.
Fairness == WF_vars(DeviceRuns) /\ \A e \in Endpoint : WF_vars(Destroy(e))

-----------------------------------------------------------------------------
\* Whoever comes and goes meanwhile, the guard included, a round calls no
\* endpoint twice, and when it ends it has called all that were in the list
\* from its beginning.
CalledOnce == /\ \A e \in ToSet(list) : ticks[e] <= 1
              /\ ~ticking => \A e \in stayed : ticks[e] = 1

\* An endpoint that stays is called at tick after tick, though others come and go.
CallsGoOn == \A e \in Endpoint : <>[](state[e] = "in") => []<>(called = e)

\* A destructor returns.
DestroyReturns == \A e \in Endpoint : state[e] = "waiting" ~> state[e] = "out"
=============================================================================
