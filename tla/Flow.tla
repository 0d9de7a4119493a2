-------------------------------- MODULE Flow --------------------------------
(***************************************************************************)
(* cortexflow::Flow (include/cortexflow/flow.hpp): a state machine owned   *)
(* by a module, with a buffer that holds the locals of its current state.  *)
(*                                                                         *)
(* Everything happens on the loop thread; what makes it hard is nesting.   *)
(* A state that returns done() ends step() with a call of the owner's      *)
(* on_flow_done(), which may restart the flow; restarting steps the        *)
(* initial state with the init envelope, which may return done() in turn.  *)
(* `frames` is that call stack, innermost first: "state" while a state     *)
(* function runs, "callback" while on_flow_done() does.  With neither, the *)
(* module's own handler runs, or nothing of the module at all.             *)
(*                                                                         *)
(* User code may call any member function at any time, also wrongly: then  *)
(* an assertion fails and the process ends.  Constructors and destructors  *)
(* of locals are assumed not to call the flow that holds them.             *)
(***************************************************************************)
EXTENDS Integers, Sequences

CONSTANTS
    States,      \* the flow's state tags
    Initial,     \* InitialStateTag
    DepthBound   \* bound: nesting of calls

ASSUME InitialIsAState == Initial \in States
ASSUME DepthBoundIsNat == DepthBound \in Nat

VARIABLES
    current,     \* current_
    active,      \* active_
    inStep,      \* in_step_
    owner,       \* owner_ is bound
    localsPtr,   \* ctx_.locals_ptr_ is set
    buffer,      \* buffer[s]: objects of type s::Locals alive in the buffer
    frames,      \* the call stack
    gone,        \* the flow has been destroyed
    fault        \* the assertion that failed, or "none"

vars == <<current, active, inStep, owner, localsPtr, buffer, frames, gone,
          fault>>

Init ==
    /\ current = Initial
    /\ active = FALSE
    /\ inStep = FALSE
    /\ owner = FALSE
    /\ localsPtr = FALSE
    /\ buffer = [s \in States |-> 0]
    /\ frames = <<>>
    /\ gone = FALSE
    /\ fault = "none"

-----------------------------------------------------------------------------
Runs == ~gone /\ fault = "none"

\* A state function is running.
InState == frames # <<>> /\ Head(frames) = "state"

MayNest == Len(frames) < DepthBound

Push(frame) == frames' = <<frame>> \o frames
Pop == frames' = Tail(frames)

Destruct(b, s) == [b EXCEPT ![s] = @ - 1]
Construct(b, s) == [b EXCEPT ![s] = @ + 1]

Fail(assertion) ==
    /\ Runs
    /\ fault' = assertion
    /\ UNCHANGED <<current, active, inStep, owner, localsPtr, buffer, frames, gone>>

\* enter_initial_(), on a buffer b; it ends by stepping the initial state.
EnterInitial(b) ==
    /\ MayNest
    /\ current' = Initial
    /\ active' = TRUE
    /\ localsPtr' = TRUE
    /\ buffer' = Construct(b, Initial)
    /\ fault' = IF inStep THEN "reentrant step" ELSE fault
    /\ inStep' = TRUE
    /\ Push("state")
    /\ UNCHANGED gone

-----------------------------------------------------------------------------
(***************************************************************************)
(* Calls by user code.                                                     *)
(***************************************************************************)

Start ==
    /\ Runs
    /\ ~active
    /\ owner' = TRUE
    /\ EnterInitial(buffer)

StartFails == active /\ Fail("already started")

\* Mutant of Step: the second assertion is missing.
StepUnguarded ==
    /\ Runs
    /\ active
    /\ MayNest
    /\ inStep' = TRUE
    /\ Push("state")
    /\ UNCHANGED <<current, active, owner, localsPtr, buffer, gone, fault>>

\* step() up to the call of the state function.
Step ==
    /\ Runs
    /\ active /\ ~inStep
    /\ MayNest
    /\ inStep' = TRUE
    /\ Push("state")
    /\ UNCHANGED <<current, active, owner, localsPtr, buffer, gone, fault>>

StepFails ==
    \/ ~active /\ Fail("step of an inactive flow")
    \/ active /\ inStep /\ Fail("reentrant step")

\* A no-op on an inactive flow.
Terminate ==
    /\ Runs
    /\ active /\ ~inStep
    /\ buffer' = Destruct(buffer, current)
    /\ localsPtr' = FALSE
    /\ active' = FALSE
    /\ UNCHANGED <<current, inStep, owner, frames, gone, fault>>

TerminateFails == inStep /\ Fail("terminate inside a step")

\* Mutant of Restart: the locals of the run that is broken off stay.
RestartLeaks ==
    /\ Runs
    /\ owner /\ ~inStep
    /\ EnterInitial(buffer)
    /\ UNCHANGED owner

Restart ==
    /\ Runs
    /\ owner /\ ~inStep
    /\ EnterInitial(IF active THEN Destruct(buffer, current) ELSE buffer)
    /\ UNCHANGED owner

RestartFails ==
    \/ inStep /\ Fail("restart inside a step")
    \/ ~inStep /\ ~owner /\ Fail("owner not bound")

\* Mutant of Destroy: the destructor does not ask whether the flow is active.
DestroyAlways ==
    /\ Runs
    /\ frames = <<>>
    /\ gone' = TRUE
    /\ buffer' = Destruct(buffer, current)
    /\ UNCHANGED <<current, active, inStep, owner, localsPtr, frames, fault>>

\* ~Flow(), with the module.
Destroy ==
    /\ Runs
    /\ frames = <<>>
    /\ gone' = TRUE
    /\ buffer' = IF active THEN Destruct(buffer, current) ELSE buffer
    /\ UNCHANGED <<current, active, inStep, owner, localsPtr, frames, fault>>

-----------------------------------------------------------------------------
(***************************************************************************)
(* What step() does with the directive a state function returns.           *)
(***************************************************************************)

Stay ==
    /\ Runs /\ InState
    /\ inStep' = FALSE
    /\ Pop
    /\ UNCHANGED <<current, active, owner, localsPtr, buffer, gone, fault>>

\* Destruct, switch, construct.
Enter(s) ==
    /\ buffer' = Construct(Destruct(buffer, current), s)
    /\ current' = s
    /\ localsPtr' = TRUE

TransitionTo(s) ==
    /\ Runs /\ InState
    /\ Enter(s)
    /\ inStep' = FALSE
    /\ Pop
    /\ UNCHANGED <<active, owner, gone, fault>>

\* The new state's function runs at once, in the same step.
TransitionToNow(s) ==
    /\ Runs /\ InState
    /\ Enter(s)
    /\ UNCHANGED <<active, inStep, owner, frames, gone, fault>>

\* Mutant of Done: the callback comes before in_step_ is cleared.
DoneInsideStep ==
    /\ Runs /\ InState
    /\ buffer' = Destruct(buffer, current)
    /\ localsPtr' = FALSE
    /\ active' = FALSE
    /\ frames' = <<"callback">> \o Tail(frames)
    /\ UNCHANGED <<current, inStep, owner, gone, fault>>

\* done(): on_flow_done() is called once in_step_ is cleared.
Done ==
    /\ Runs /\ InState
    /\ buffer' = Destruct(buffer, current)
    /\ localsPtr' = FALSE
    /\ active' = FALSE
    /\ inStep' = FALSE
    /\ frames' = <<"callback">> \o Tail(frames)
    /\ fault' = IF owner THEN fault ELSE "owner not bound"
    /\ UNCHANGED <<current, owner, gone>>

\* on_flow_done() returns, and with it the step() that called it.
CallbackReturns ==
    /\ Runs
    /\ frames # <<>> /\ ~InState
    /\ Pop
    /\ UNCHANGED <<current, active, inStep, owner, localsPtr, buffer, gone, fault>>

-----------------------------------------------------------------------------
Next ==
    \/ Start \/ StartFails
    \/ Step \/ StepFails
    \/ Terminate \/ TerminateFails
    \/ Restart \/ RestartFails
    \/ Destroy
    \/ Stay
    \/ \E s \in States : TransitionTo(s) \/ TransitionToNow(s)
    \/ Done
    \/ CallbackReturns

Spec == Init /\ [][Next]_vars

-----------------------------------------------------------------------------
(***************************************************************************)
(* Properties.                                                             *)
(***************************************************************************)

Assertions == {"already started", "step of an inactive flow", "reentrant step",
               "terminate inside a step", "restart inside a step",
               "owner not bound"}

\* Every variable has its type; in particular no locals are destructed twice.
TypeOK ==
    /\ current \in States
    /\ active \in BOOLEAN
    /\ inStep \in BOOLEAN
    /\ owner \in BOOLEAN
    /\ localsPtr \in BOOLEAN
    /\ buffer \in [States -> Nat]
    /\ frames \in Seq({"state", "callback"})
    /\ gone \in BOOLEAN
    /\ fault \in Assertions \cup {"none"}

\* The buffer holds the locals of the current state while the flow is active,
\* and nothing else ever: none are leaked, shared or destructed twice, along
\* whatever nest of steps, callbacks, restarts and terminations.  (flow.hpp,
\* FlowCtx: "the type at the buffer never disagrees with the active state".)
LocalsFollowState ==
    fault = "none" =>
        buffer = [s \in States |->
                     IF active /\ ~gone /\ s = current THEN 1 ELSE 0]

\* in_step_, one flag for all nested steps, tells the truth about the stack: it
\* is set exactly while a state function runs, at most one of them runs, it is
\* one of an active flow, and an active flow can reach its locals and owner.
\* (flow.hpp: step(), FlowCtx::locals().)
FlagFollowsStack ==
    Runs =>
        /\ inStep <=> InState
        /\ \A i \in DOMAIN frames : frames[i] = "state" => i = 1
        /\ InState => active
        /\ active => localsPtr /\ owner

\* The assertions against calls from inside a step stop state functions only.
\* Module code and on_flow_done(), however deeply nested, may restart and
\* terminate the flow.  (flow.hpp on step(): "a handler that calls
\* flow.restart() from within on_flow_done does not trip the assert".)
OwnerMayRestart ==
    [][fault' # fault => \/ InState
                         \/ ~active /\ fault' = "step of an inactive flow"
                         \/ active /\ fault' = "already started"
                         \/ ~owner /\ fault' = "owner not bound"]_vars
=============================================================================
