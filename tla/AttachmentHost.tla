--------------------------- MODULE AttachmentHost ---------------------------
(***************************************************************************)
(* class AttachmentHost<T> : a device's pointer to the object attached to  *)
(* it.  A task that calls the object makes a Hook, which adds 1 to an      *)
(* AntiSem (module AntiSem, step by step) for as long as it lives.         *)
(* detach() lets no new Hook find the object, waits until the AntiSem is   *)
(* at 0, and forgets the object: its owner may then destroy it.            *)
(***************************************************************************)
EXTENDS Integers, Sequences, FiniteSets

CONSTANTS Task,    \* the tasks that make hooks
          Object,  \* the objects; each has its owner, a task that attaches and detaches it
          NoObject,
          Nesting, \* bound: hooks one task has at a time
          MaxHooks \* bound: hooks at a time

ASSUME HostAssumption == /\ IsFiniteSet(Task) /\ IsFiniteSet(Object) /\ NoObject \notin Object
                         /\ Nesting \in Nat /\ MaxHooks \in Nat

VARIABLES obj, enable,
          stage,  \* where each object's owner is in attach() and detach()
          hooks,  \* the objects of each task's hooks, the last one first
          count, wait_count, sem, gives, held, pc  \* the AntiSem

asemVars == <<count, wait_count, sem, gives, held, pc>>
vars == <<obj, enable, stage, hooks, asemVars>>

Asem == INSTANCE AntiSem WITH Waiter <- Object, User <- Task, Level <- 0, MaxCount <- MaxHooks

Init == /\ obj = NoObject /\ enable = FALSE
        /\ stage = [o \in Object |-> "out"]
        /\ hooks = [t \in Task |-> << >>]
        /\ Asem!Init

Goes(o, label) == stage' = [stage EXCEPT ![o] = label]

\* What could be wrong in the code, to show that the properties see it: here
\* and below, the operators between two such comments.
AttachWhileDisabled(o) == \* attach() looks at enable, not at obj
  /\ stage[o] = "out" /\ ~enable
  /\ obj' = o /\ enable' = TRUE
  /\ Goes(o, "in")
  /\ UNCHANGED <<hooks, asemVars>>

WaitLost ==             \* the last hook's dec does not wake detach()
  \E t \in Task : /\ gives[t] > 0
                  /\ gives' = [gives EXCEPT ![t] = 0]
                  /\ UNCHANGED <<obj, enable, stage, hooks, count, wait_count, sem, held, pc>>

\* What the code does.
\* Hook::Hook : finds the object while it is enabled
HookOpen(t) ==
  /\ Len(hooks[t]) < Nesting /\ enable
  /\ hooks' = [hooks EXCEPT ![t] = <<obj>> \o @]
  /\ Asem!Add(t)
  /\ UNCHANGED <<obj, enable, stage>>

\* Hook::~Hook : asem->dec(), up to the unlock of its mutex
HookClose(t) ==
  /\ hooks[t] # << >>
  /\ hooks' = [hooks EXCEPT ![t] = Tail(@)]
  /\ Asem!BeginSub(t)
  /\ UNCHANGED <<obj, enable, stage>>

\* Hook::~Hook : asem->dec() wakes detach()
HookWake ==
  /\ \E t \in Task : Asem!SemGive(t)
  /\ UNCHANGED <<obj, enable, stage, hooks>>

\* attach : while an object is there, its own detach() in progress included,
\* another one's attach() ends with an exception
Attach(o) ==
  /\ stage[o] = "out" /\ obj = NoObject
  /\ obj' = o /\ enable' = TRUE
  /\ Goes(o, "in")
  /\ UNCHANGED <<hooks, asemVars>>

\* detach : enable=false; an owner detaches what it has attached
Disable(o) ==
  /\ stage[o] = "in"
  /\ enable' = FALSE
  /\ Goes(o, "draining")
  /\ UNCHANGED <<obj, hooks, asemVars>>

\* detach : asem.wait() finds the counter at 0, or sleeps
Drain(o) ==
  /\ stage[o] = "draining"
  /\ \/ count = 0 /\ Goes(o, "drained") /\ UNCHANGED asemVars
     \/ count > 0 /\ Goes(o, "asleep") /\ Asem!BeginWait(o)
  /\ UNCHANGED <<obj, enable, hooks>>

\* detach : asem.wait() is woken
Woken(o) ==
  /\ stage[o] = "asleep"
  /\ Asem!SemTake(o)
  /\ Goes(o, "drained")
  /\ UNCHANGED <<obj, enable, hooks>>

\* detach : obj=0, and the owner may destroy the object
Forget(o) ==
  /\ stage[o] = "drained"
  /\ obj' = NoObject
  /\ Goes(o, "out")
  /\ UNCHANGED <<enable, hooks, asemVars>>

Next == \/ \E t \in Task : HookOpen(t) \/ HookClose(t)
        \/ HookWake
        \/ \E o \in Object : Attach(o) \/ Disable(o) \/ Drain(o) \/ Woken(o) \/ Forget(o)

Spec == Init /\ [][Next]_vars

\* A hook lives as long as one call of the object, and tasks are not stopped.
Fairness == /\ \A t \in Task : WF_vars(HookClose(t))
            /\ WF_vars(HookWake)
            /\ \A o \in Object : WF_vars(Drain(o) \/ Woken(o) \/ Forget(o))

-----------------------------------------------------------------------------
TypeOK == /\ obj \in Object \cup {NoObject}
          /\ enable \in BOOLEAN
          /\ stage \in [Object -> {"out", "in", "draining", "asleep", "drained"}]
          /\ hooks \in [Task -> Seq(Object)]
          /\ Asem!TypeOK

\* A sleeping detach() is counted or has its token coming, no token is left for
\* the next one, and nobody sleeps while the AntiSem is at 0.
TokensMatch == Asem!TokensMatch /\ Asem!OpenWakesAll

\* No hook finds no object, or an object that its owner has detached and may
\* have destroyed.
HooksAreAlive == \A t \in Task : \A k \in DOMAIN hooks[t] : hooks[t][k] = obj

\* detach() forgets the object only when no hook is left, although it does not
\* look at the AntiSem again after it was woken.
DrainedIsEmpty == \A o \in Object : stage[o] = "drained" => \A t \in Task : hooks[t] = << >>

\* An object stays attached and open to hooks until its own owner detaches it:
\* another one's detach(), whose obj=0 comes long after its enable=false, never
\* undoes an attach().
AttachmentKept == \A o \in Object : stage[o] = "in" => obj = o /\ enable

\* detach() returns.
DetachReturns == \A o \in Object : stage[o] = "draining" ~> stage[o] = "out"
=============================================================================
