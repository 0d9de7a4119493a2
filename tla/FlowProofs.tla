----------------------------- MODULE FlowProofs -----------------------------
(***************************************************************************)
(* Theorems about Flow, for every set of states and every depth of nesting.*)
(***************************************************************************)
EXTENDS Flow, TLAPS

\* The three invariants carry each other: a destruct is sound because the
\* locals of the current state are there, and start() steps soundly because no
\* state function of an inactive flow is running.
IInv == TypeOK /\ LocalsFollowState /\ FlagFollowsStack

Frame == {"state", "callback"}

\* The stack after a call.
LEMMA PushShape ==
    ASSUME NEW f \in Frame, NEW s \in Seq(Frame)
    PROVE  /\ <<f>> \o s \in Seq(Frame)
           /\ <<f>> \o s # <<>>
           /\ Head(<<f>> \o s) = f
           /\ DOMAIN (<<f>> \o s) = 1..(Len(s) + 1)
           /\ (<<f>> \o s)[1] = f
           /\ \A i \in 2..(Len(s) + 1) : (<<f>> \o s)[i] = s[i - 1]
BY DEF Frame

\* The stack after a return.
LEMMA PopShape ==
    ASSUME NEW s \in Seq(Frame), s # <<>>
    PROVE  /\ Tail(s) \in Seq(Frame)
           /\ DOMAIN Tail(s) = 1..(Len(s) - 1)
           /\ \A i \in 1..(Len(s) - 1) : Tail(s)[i] = s[i + 1]
           /\ Head(s) = s[1]
           /\ 1 \in DOMAIN s
BY DEF Frame

\* The first conjunction of them: a flow that was never started.
LEMMA InitIInv == Init => IInv
<1> SUFFICES ASSUME Init PROVE IInv
  OBVIOUS
<1>1. TypeOK
  <2>1. active \in BOOLEAN /\ inStep \in BOOLEAN /\ owner \in BOOLEAN
        /\ localsPtr \in BOOLEAN /\ gone \in BOOLEAN
    BY Zenon DEF Init
  <2>2. /\ current \in States
        /\ buffer \in [States -> Nat]
        /\ frames \in Seq({"state", "callback"})
        /\ fault \in Assertions \cup {"none"}
    BY InitialIsAState DEF Init
  <2> QED
    BY <2>1, <2>2, Zenon DEF TypeOK
<1>2. LocalsFollowState
  BY DEF Init, LocalsFollowState
<1>3. FlagFollowsStack
  BY DEF Init, FlagFollowsStack, InState
<1> QED
  BY <1>1, <1>2, <1>3 DEF IInv

-----------------------------------------------------------------------------
\* A failed assertion ends the process: nothing is claimed of what follows.
LEMMA FailKeepsIInv ==
    ASSUME IInv, NEW a \in Assertions, Fail(a)
    PROVE  IInv'
<1>1. TypeOK'
  BY DEF IInv, TypeOK, Fail
<1>2. fault' # "none"
  BY DEF Fail, Assertions
<1> QED
  BY <1>1, <1>2 DEF IInv, LocalsFollowState, FlagFollowsStack, Runs

\* While the flow runs, its buffer is known.
LEMMA BufferWhileRunning ==
    ASSUME IInv, Runs
    PROVE  /\ buffer \in [States -> Nat]
           /\ current \in States
           /\ active => buffer = [s \in States |-> IF s = current THEN 1 ELSE 0]
           /\ ~active => buffer = [s \in States |-> 0]
BY DEF IInv, TypeOK, LocalsFollowState, Runs

\* Destructing the current state's locals empties the buffer.
LEMMA DestructEmpties ==
    ASSUME IInv, Runs, active
    PROVE  Destruct(buffer, current) = [s \in States |-> 0]
<1>1. /\ buffer \in [States -> Nat]
      /\ current \in States
      /\ buffer = [s \in States |-> IF s = current THEN 1 ELSE 0]
  BY BufferWhileRunning
<1>2. ASSUME NEW s \in States PROVE Destruct(buffer, current)[s] = 0
  <2>1. CASE s = current
    BY <1>1, <2>1 DEF Destruct
  <2>2. CASE s # current
    BY <1>1, <2>2 DEF Destruct
  <2> QED
    BY <2>1, <2>2
<1>3. Destruct(buffer, current) = [s \in States |-> Destruct(buffer, current)[s]]
  BY <1>1 DEF Destruct
<1> QED
  BY <1>2, <1>3

\* Constructing in an empty buffer.
LEMMA ConstructFills ==
    ASSUME NEW t \in States
    PROVE  Construct([s \in States |-> 0], t)
              = [s \in States |-> IF s = t THEN 1 ELSE 0]
BY DEF Construct

\* No state function of an inactive flow is running.
LEMMA InactiveIsNotInStep ==
    ASSUME IInv, Runs, ~active
    PROVE  ~inStep
BY DEF IInv, FlagFollowsStack

\* A state function is entered from module code or a callback only.
LEMMA PushState ==
    ASSUME IInv, Runs, ~inStep, Push("state")
    PROVE  /\ frames' \in Seq(Frame)
           /\ InState'
           /\ \A i \in DOMAIN frames' : frames'[i] = "state" => i = 1
<1>1. frames \in Seq(Frame)
  BY DEF IInv, TypeOK, Frame
<1>2. \A i \in 1..Len(frames) : frames[i] # "state"
  <2> SUFFICES ASSUME NEW i \in 1..Len(frames), frames[i] = "state"
               PROVE  FALSE
    OBVIOUS
  <2>1. i = 1
    BY <1>1 DEF IInv, FlagFollowsStack
  <2>2. frames # <<>> /\ Head(frames) = "state"
    BY <1>1, <2>1
  <2> QED
    BY <2>2 DEF IInv, FlagFollowsStack, InState
<1>3. "state" \in Frame
  BY DEF Frame
<1> QED
  BY <1>1, <1>2, <1>3, PushShape DEF Push, InState

\* start() and restart() leave the initial state's locals in the buffer and
\* its function running.
LEMMA EnterInitialKeepsIInv ==
    ASSUME IInv, Runs, ~inStep, owner' = TRUE,
           EnterInitial([s \in States |-> 0])
    PROVE  IInv'
<1> USE InitialIsAState
<1>1. /\ frames' \in Seq(Frame)
      /\ InState'
      /\ \A i \in DOMAIN frames' : frames'[i] = "state" => i = 1
  BY PushState DEF EnterInitial
<1>2. buffer' = [s \in States |-> IF s = Initial THEN 1 ELSE 0]
  BY ConstructFills DEF EnterInitial
<1>3. ~gone /\ gone' = gone
  BY DEF Runs, EnterInitial
<1>4. TypeOK'
  BY <1>1, <1>2, <1>3 DEF IInv, TypeOK, EnterInitial, Frame
<1>5. LocalsFollowState'
  BY <1>2, <1>3 DEF LocalsFollowState, EnterInitial
<1>6. FlagFollowsStack'
  BY <1>1 DEF FlagFollowsStack, EnterInitial
<1> QED
  BY <1>4, <1>5, <1>6 DEF IInv

\* What the end of a state function finds and leaves on the stack.
LEMMA LeaveState ==
    ASSUME IInv, Runs, InState
    PROVE  /\ active /\ inStep /\ owner /\ localsPtr
           /\ Tail(frames) \in Seq(Frame)
           /\ \A i \in DOMAIN Tail(frames) : Tail(frames)[i] # "state"
<1>1. frames \in Seq(Frame) /\ frames # <<>>
  BY DEF IInv, TypeOK, Frame, InState
<1>2. \A i \in DOMAIN frames : frames[i] = "state" => i = 1
  BY DEF IInv, FlagFollowsStack
<1>3. active /\ inStep /\ owner /\ localsPtr
  BY DEF IInv, FlagFollowsStack, TypeOK
<1> QED
  BY <1>1, <1>2, <1>3, PopShape

\* A stack without state functions has none at its top.
LEMMA NoStateOnTop ==
    ASSUME NEW s \in Seq(Frame), \A i \in DOMAIN s : s[i] # "state"
    PROVE  ~(s # <<>> /\ Head(s) = "state")
OBVIOUS

\* Every step keeps them.
LEMMA NextKeepsIInv == IInv /\ [Next]_vars => IInv'
<1> SUFFICES ASSUME IInv, [Next]_vars PROVE IInv'
  OBVIOUS
<1> USE DEF Frame
<1>1. CASE Start
  <2>1. Runs /\ ~active /\ owner' = TRUE /\ EnterInitial(buffer)
    BY <1>1 DEF Start
  <2>2. ~inStep /\ buffer = [s \in States |-> 0]
    BY <2>1, InactiveIsNotInStep, BufferWhileRunning
  <2> QED
    BY <2>1, <2>2, EnterInitialKeepsIInv
<1>2. CASE StartFails
  BY <1>2, FailKeepsIInv DEF StartFails, Assertions
<1>3. CASE Step
  <2>1. Runs /\ active /\ ~inStep /\ Push("state")
    BY <1>3 DEF Step
  <2>2. /\ frames' \in Seq(Frame)
        /\ InState'
        /\ \A i \in DOMAIN frames' : frames'[i] = "state" => i = 1
    BY <2>1, PushState
  <2>3. TypeOK'
    BY <1>3, <2>2 DEF IInv, TypeOK, Step
  <2>4. LocalsFollowState'
    BY <1>3 DEF IInv, LocalsFollowState, Step
  <2>5. FlagFollowsStack'
    BY <1>3, <2>2 DEF IInv, FlagFollowsStack, Step, Runs
  <2> QED
    BY <2>3, <2>4, <2>5 DEF IInv
<1>4. CASE StepFails
  BY <1>4, FailKeepsIInv DEF StepFails, Assertions
<1>5. CASE Terminate
  <2>1. buffer' = [s \in States |-> 0]
    BY <1>5, DestructEmpties DEF Terminate
  <2>2. TypeOK'
    <3>1. /\ active' \in BOOLEAN /\ inStep' \in BOOLEAN /\ owner' \in BOOLEAN
          /\ localsPtr' \in BOOLEAN /\ gone' \in BOOLEAN
      BY <1>5, Zenon DEF IInv, TypeOK, Terminate
    <3>2. /\ current' \in States
          /\ buffer' \in [States -> Nat]
          /\ frames' \in Seq({"state", "callback"})
          /\ fault' \in Assertions \cup {"none"}
      BY <1>5, <2>1 DEF IInv, TypeOK, Terminate
    <3> QED
      BY <3>1, <3>2, Zenon DEF TypeOK
  <2>3. LocalsFollowState'
    BY <1>5, <2>1 DEF LocalsFollowState, Terminate
  <2>4. FlagFollowsStack'
    BY <1>5 DEF IInv, FlagFollowsStack, Terminate, Runs, InState
  <2> QED
    BY <2>2, <2>3, <2>4 DEF IInv
<1>6. CASE TerminateFails
  BY <1>6, FailKeepsIInv DEF TerminateFails, Assertions
<1>7. CASE Restart
  <2>1. Runs /\ owner' = TRUE /\ ~inStep
    BY <1>7 DEF Restart, IInv, TypeOK
  <2>2. (IF active THEN Destruct(buffer, current) ELSE buffer)
          = [s \in States |-> 0]
    BY <2>1, DestructEmpties, BufferWhileRunning
  <2>3. EnterInitial([s \in States |-> 0])
    BY <1>7, <2>2 DEF Restart
  <2> QED
    BY <2>1, <2>3, EnterInitialKeepsIInv
<1>8. CASE RestartFails
  BY <1>8, FailKeepsIInv DEF RestartFails, Assertions
<1>9. CASE Destroy
  <2>1. buffer' = [s \in States |-> 0]
    BY <1>9, DestructEmpties, BufferWhileRunning DEF Destroy
  <2>2. TypeOK'
    BY <1>9, <2>1 DEF IInv, TypeOK, Destroy
  <2>3. LocalsFollowState'
    BY <1>9, <2>1 DEF LocalsFollowState, Destroy
  <2>4. FlagFollowsStack'
    BY <1>9 DEF FlagFollowsStack, Destroy, Runs
  <2> QED
    BY <2>2, <2>3, <2>4 DEF IInv
<1>10. CASE Stay
  <2>1. /\ frames' \in Seq(Frame)
        /\ \A i \in DOMAIN frames' : frames'[i] # "state"
        /\ ~InState'
    BY <1>10, LeaveState, NoStateOnTop DEF Stay, Pop, InState
  <2>2. TypeOK'
    BY <1>10, <2>1 DEF IInv, TypeOK, Stay
  <2>3. LocalsFollowState'
    BY <1>10 DEF IInv, LocalsFollowState, Stay
  <2>4. FlagFollowsStack'
    BY <1>10, <2>1, LeaveState DEF FlagFollowsStack, Stay
  <2> QED
    BY <2>2, <2>3, <2>4 DEF IInv
<1>11. ASSUME NEW s \in States, TransitionTo(s)
       PROVE  IInv'
  <2>1. /\ frames' \in Seq(Frame)
        /\ \A i \in DOMAIN frames' : frames'[i] # "state"
        /\ ~InState'
    BY <1>11, LeaveState, NoStateOnTop DEF TransitionTo, Pop, InState
  <2>2. active /\ active' = active
    BY <1>11, LeaveState DEF TransitionTo
  <2>3. buffer' = [t \in States |-> IF t = s THEN 1 ELSE 0]
    BY <1>11, <2>2, DestructEmpties, ConstructFills DEF TransitionTo, Enter
  <2>4. TypeOK'
    <3>1. /\ active' \in BOOLEAN /\ inStep' \in BOOLEAN /\ owner' \in BOOLEAN
          /\ localsPtr' \in BOOLEAN /\ gone' \in BOOLEAN
      BY <1>11, Zenon DEF IInv, TypeOK, TransitionTo, Enter
    <3>2. /\ current' \in States
          /\ buffer' \in [States -> Nat]
          /\ frames' \in Seq({"state", "callback"})
          /\ fault' \in Assertions \cup {"none"}
      BY <1>11, <2>1, <2>3 DEF IInv, TypeOK, TransitionTo, Enter
    <3> QED
      BY <3>1, <3>2, Zenon DEF TypeOK
  <2>5. LocalsFollowState'
    BY <1>11, <2>2, <2>3 DEF LocalsFollowState, TransitionTo, Enter, Runs
  <2>6. FlagFollowsStack'
    BY <1>11, <2>1, LeaveState DEF FlagFollowsStack, TransitionTo, Enter
  <2> QED
    BY <2>4, <2>5, <2>6 DEF IInv
<1>12. ASSUME NEW s \in States, TransitionToNow(s)
       PROVE  IInv'
  <2>1. active /\ active' = active
    BY <1>12, LeaveState DEF TransitionToNow
  <2>2. buffer' = [t \in States |-> IF t = s THEN 1 ELSE 0]
    BY <1>12, <2>1, DestructEmpties, ConstructFills DEF TransitionToNow, Enter
  <2>3. TypeOK'
    BY <1>12, <2>2 DEF IInv, TypeOK, TransitionToNow, Enter
  <2>4. LocalsFollowState'
    BY <1>12, <2>1, <2>2 DEF LocalsFollowState, TransitionToNow, Enter, Runs
  <2>5. FlagFollowsStack'
    BY <1>12 DEF IInv, FlagFollowsStack, TransitionToNow, Enter, Runs, InState
  <2> QED
    BY <2>3, <2>4, <2>5 DEF IInv
<1>13. CASE Done
  <2> DEFINE rest == Tail(frames)
  <2>1. /\ active /\ inStep /\ owner
        /\ rest \in Seq(Frame)
        /\ \A i \in DOMAIN rest : rest[i] # "state"
    BY <1>13, LeaveState DEF Done
  <2>2. frames' = <<"callback">> \o rest
    BY <1>13 DEF Done
  <2> HIDE DEF rest
  <2>3. /\ frames' \in Seq(Frame)
        /\ frames' # <<>> /\ Head(frames') = "callback"
        /\ \A i \in DOMAIN frames' : frames'[i] # "state"
    BY <2>1, <2>2, PushShape
  <2>4. buffer' = [s \in States |-> 0]
    BY <1>13, <2>1, DestructEmpties DEF Done
  <2>5. TypeOK'
    <3>1. /\ active' \in BOOLEAN /\ inStep' \in BOOLEAN /\ owner' \in BOOLEAN
          /\ localsPtr' \in BOOLEAN /\ gone' \in BOOLEAN
      BY <1>13, Zenon DEF IInv, TypeOK, Done
    <3>2. /\ current' \in States
          /\ buffer' \in [States -> Nat]
          /\ frames' \in Seq({"state", "callback"})
          /\ fault' \in Assertions \cup {"none"}
      <4>1. current' = current /\ fault' = fault
        BY <1>13, <2>1 DEF Done
      <4>2. buffer' \in [States -> Nat]
        BY <2>4
      <4> QED
        BY <2>3, <4>1, <4>2 DEF IInv, TypeOK
    <3> QED
      BY <3>1, <3>2, Zenon DEF TypeOK
  <2>6. LocalsFollowState'
    BY <1>13, <2>4 DEF LocalsFollowState, Done
  <2>7. FlagFollowsStack'
    BY <1>13, <2>3 DEF FlagFollowsStack, Done, InState
  <2> QED
    BY <2>5, <2>6, <2>7 DEF IInv
<1>14. CASE CallbackReturns
  <2>1. frames \in Seq(Frame) /\ frames # <<>> /\ frames' = Tail(frames)
    BY <1>14 DEF IInv, TypeOK, CallbackReturns, Pop
  <2>2. /\ \A i \in DOMAIN frames : frames[i] = "state" => i = 1
        /\ ~inStep
    BY <1>14 DEF IInv, TypeOK, FlagFollowsStack, CallbackReturns
  <2>3. /\ frames' \in Seq(Frame)
        /\ \A i \in DOMAIN frames' : frames'[i] # "state"
    BY <2>1, <2>2, PopShape
  <2>4. ~InState'
    BY <2>3, NoStateOnTop DEF InState
  <2>5. TypeOK'
    BY <1>14, <2>3 DEF IInv, TypeOK, CallbackReturns
  <2>6. LocalsFollowState'
    BY <1>14 DEF IInv, LocalsFollowState, CallbackReturns
  <2>7. FlagFollowsStack'
    BY <1>14, <2>2, <2>3, <2>4 DEF IInv, FlagFollowsStack, CallbackReturns
  <2> QED
    BY <2>5, <2>6, <2>7 DEF IInv
<1>15. CASE UNCHANGED vars
  BY <1>15 DEF IInv, TypeOK, LocalsFollowState, FlagFollowsStack, Runs, InState, vars
<1> QED
  BY <1>1, <1>2, <1>3, <1>4, <1>5, <1>6, <1>7, <1>8, <1>9, <1>10, <1>11,
     <1>12, <1>13, <1>14, <1>15 DEF Next

-----------------------------------------------------------------------------
\* So they hold in every state of every behaviour.
LEMMA SpecIInv == Spec => []IInv
BY InitIInv, NextKeepsIInv, PTL DEF Spec

\* Every variable keeps its type; in particular no locals are destructed twice.
THEOREM TypeCorrect == Spec => []TypeOK
BY SpecIInv, PTL DEF IInv

\* The buffer holds exactly the current state's locals while the flow is
\* active, for every set of states and every depth of nesting.
THEOREM LocalsHold == Spec => []LocalsFollowState
BY SpecIInv, PTL DEF IInv

\* The one flag in_step_ agrees with the stack at every depth.
THEOREM FlagHolds == Spec => []FlagFollowsStack
BY SpecIInv, PTL DEF IInv

\* Assertions about being inside a step stop only calls from state functions.
THEOREM OwnerCalls == Spec => OwnerMayRestart
<1>1. IInv /\ [Next]_vars =>
        [fault' # fault => \/ InState
                           \/ ~active /\ fault' = "step of an inactive flow"
                           \/ active /\ fault' = "already started"
                           \/ ~owner /\ fault' = "owner not bound"]_vars
  <2> SUFFICES ASSUME IInv, [Next]_vars, fault' # fault, ~InState
               PROVE  \/ ~active /\ fault' = "step of an inactive flow"
                      \/ active /\ fault' = "already started"
                      \/ ~owner /\ fault' = "owner not bound"
    OBVIOUS
  <2>1. Runs => ~inStep
    BY DEF IInv, FlagFollowsStack
  <2> QED
    BY <2>1 DEF Next, vars, Start, StartFails, Step, StepFails, Terminate,
       TerminateFails, Restart, RestartFails, Destroy, Stay, TransitionTo,
       TransitionToNow, Done, CallbackReturns, Enter, EnterInitial, Fail
<1> QED
  BY <1>1, SpecIInv, PTL DEF Spec, OwnerMayRestart
=============================================================================
