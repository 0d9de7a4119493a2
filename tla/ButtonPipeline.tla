--------------------------- MODULE ButtonPipeline ---------------------------
(***************************************************************************)
(* The button pipeline (examples/button_pipeline) on a runtime with a      *)
(* SteadyClock: a reader thread posts raw transitions; Debouncer,          *)
(* ClickClassifier and UiController are flows on the loop thread; three    *)
(* timers live in the locals of their states.                              *)
(*                                                                         *)
(* The loop is RunLoop with less detail: a post is one step (RunLoop shows *)
(* that the queue is FIFO and closed by stop()), and so is a dispatch,     *)
(* because no handler here posts more than once.                           *)
(***************************************************************************)
EXTENDS Integers, Sequences, FiniteSets

CONSTANTS
    DebounceWindow,      \* kDebounceWindow, in ticks
    DoubleClickWindow,   \* kDoubleClickWindow
    LongPressThreshold,  \* kLongPressThreshold
    NotArmed,            \* a timer that is not armed
    PostBound,           \* bound: raw transitions posted
    LateBound            \* bound: ticks the loop may be late for a timer

ASSUME WindowsArePositive ==
    /\ DebounceWindow \in Nat \ {0}
    /\ DoubleClickWindow \in Nat \ {0}
    /\ LongPressThreshold \in Nat \ {0}
ASSUME NotArmedIsNoTime == NotArmed \notin Int
ASSUME PipelineBoundsAreNat == PostBound \in Nat /\ LateBound \in Nat

VARIABLES
    queue,        \* the runtime's queue
    open,         \* stop() has not been called
    phase,        \* where run() is
    batch,        \* timers fire_due() has collected and not yet posted
    remaining,    \* remaining[k]: ticks until timer k is due, or NotArmed
    level,        \* DebouncedButtonState, FALSE before the first write
    debouncer,    \* state of each of the three flows
    classifier,
    ui,           \* UiController's state, and with it UiMode_Key
    posts,        \* history: raw transitions posted so far
    owed,         \* history: presses announced and not yet answered
    said          \* history: the gesture sent last

vars == <<queue, open, phase, batch, remaining, level, debouncer, classifier,
          ui, posts, owed, said>>

-----------------------------------------------------------------------------
\* Envelopes.  A timer is named by the payload it posts.
Message(type) == [type |-> type, pressed |-> FALSE]
RawTransition(p) == [type |-> "RawTransition", pressed |-> p]
KeyChanged(p) == [type |-> "KeyChanged", pressed |-> p]

Timers == {"DebounceExpired", "LongPressExpired", "DoubleClickExpired"}

Window == [DebounceExpired |-> DebounceWindow,
           LongPressExpired |-> LongPressThreshold,
           DoubleClickExpired |-> DoubleClickWindow]

\* Mutant of TimerOf: two states forget to arm their timers.
TimerOfPressedOnly == [Pressed |-> "LongPressExpired"]

\* The timer held by the locals of each state that has one.
TimerOf == [CoolingDown |-> "DebounceExpired",
            Pressed |-> "LongPressExpired",
            AwaitingSecondClick |-> "DoubleClickExpired"]

ArmedIn(state) == {TimerOf[s] : s \in {state} \cap DOMAIN TimerOf}

\* A transition destructs the old state's locals, which cancels its timer, and
\* then constructs the new state's, which arms its own.
Rearmed(from, to) ==
    [k \in Timers |-> IF k \in ArmedIn(to) THEN Window[k]
                      ELSE IF k \in ArmedIn(from) THEN NotArmed
                      ELSE remaining[k]]

Transit(from, to) ==
    remaining' = IF from = to THEN remaining ELSE Rearmed(from, to)

\* A state function: where the table has no row, stay().
StepTo(table, state, env) ==
    IF \E row \in table : row[1] = state /\ row[2] = env
    THEN (CHOOSE row \in table : row[1] = state /\ row[2] = env)[3]
    ELSE state

\* The states of the three flows; UiController's are the modes it writes.
DebouncerStates == {"Settled", "CoolingDown"}
ClassifierStates == {"Idle", "Pressed", "AwaitingSecondClick", "SecondPressed"}
UiModes == {"Idle", "Active", "Configuring"}

-----------------------------------------------------------------------------
Init ==
    /\ queue = <<>>
    /\ open = TRUE
    /\ phase = "wait"
    /\ batch = <<>>
    /\ remaining = [k \in Timers |-> NotArmed]
    /\ level = FALSE
    /\ debouncer = "Settled"
    /\ classifier = "Idle"
    /\ ui = "Idle"
    /\ posts = 0
    /\ owed = 0
    /\ said = "nothing"

loop == <<phase, batch>>
flows == <<level, debouncer, classifier, ui>>

\* The reader thread posts a transition; after stop() it is dropped.
ReaderPost(p) ==
    /\ posts < PostBound
    /\ posts' = posts + 1
    /\ queue' = IF open THEN Append(queue, RawTransition(p)) ELSE queue
    /\ UNCHANGED <<open, remaining, owed, said, loop, flows>>

\* End of input, or SIGINT.
ReaderStop ==
    /\ open
    /\ open' = FALSE
    /\ UNCHANGED <<queue, remaining, posts, owed, said, loop, flows>>

\* Time passes while some timer runs.
Running == {k \in Timers : remaining[k] # NotArmed}

Tick ==
    /\ Running # {}
    /\ \A k \in Running : remaining[k] > -LateBound
    /\ remaining' =
          [k \in Timers |-> IF k \in Running THEN remaining[k] - 1 ELSE NotArmed]
    /\ UNCHANGED <<queue, open, posts, owed, said, loop, flows>>

-----------------------------------------------------------------------------
(***************************************************************************)
(* run().                                                                  *)
(***************************************************************************)

Due == {k \in Running : remaining[k] <= 0}

\* The order in which fire_due() pops them: earliest due first.
DueOrders ==
    {s \in [1..Cardinality(Due) -> Due] :
        /\ {s[i] : i \in DOMAIN s} = Due
        /\ \A i, j \in DOMAIN s : i < j => remaining[s[i]] <= remaining[s[j]]}

WaitReturn ==
    /\ phase = "wait"
    /\ queue = <<>> /\ ~open
    /\ phase' = "returned"
    /\ UNCHANGED <<queue, open, batch, remaining, posts, owed, said, flows>>

\* The wait ends: something is queued, or a deadline has come.  fire_due()
\* takes what is due out of the heap.
Wake ==
    /\ phase = "wait"
    /\ queue # <<>> \/ (open /\ Due # {})
    /\ phase' = "fire"
    /\ batch' \in DueOrders
    /\ remaining' = [k \in Timers |-> IF k \in Due THEN NotArmed ELSE remaining[k]]
    /\ UNCHANGED <<queue, open, posts, owed, said, flows>>

FirePost ==
    /\ phase = "fire"
    /\ batch # <<>>
    /\ queue' = IF open THEN Append(queue, Message(Head(batch))) ELSE queue
    /\ batch' = Tail(batch)
    /\ UNCHANGED <<open, phase, remaining, posts, owed, said, flows>>

FireEnd ==
    /\ phase = "fire"
    /\ batch = <<>>
    /\ phase' = "drain"
    /\ UNCHANGED <<queue, open, batch, remaining, posts, owed, said, flows>>

\* Mutant of DrainEnd: run_one() may return with envelopes still queued.
DrainEndEarly ==
    /\ phase = "drain"
    /\ phase' = "check"
    /\ UNCHANGED <<queue, open, batch, remaining, posts, owed, said, flows>>

\* run_one() returns when the queue is empty.
DrainEnd ==
    /\ phase \in {"drain", "last"}
    /\ queue = <<>>
    /\ phase' = IF phase = "drain" THEN "check" ELSE "returned"
    /\ UNCHANGED <<queue, open, batch, remaining, posts, owed, said, flows>>

CheckStop ==
    /\ phase = "check"
    /\ phase' = IF open THEN "wait" ELSE "last"
    /\ UNCHANGED <<queue, open, batch, remaining, posts, owed, said, flows>>

\* Dispatch of an envelope of one of these types to its module's handle(),
\* which posts `answer` (at most one envelope).
Dispatch(types, answer) ==
    /\ phase \in {"drain", "last"}
    /\ queue # <<>>
    /\ Head(queue).type \in types
    /\ queue' = Tail(queue) \o (IF open THEN answer ELSE <<>>)
    /\ UNCHANGED <<open, posts, loop>>

Env == Head(queue)

-----------------------------------------------------------------------------
(***************************************************************************)
(* Debouncer.                                                              *)
(***************************************************************************)

\* Settled: an edge that differs from the cached level is written to the
\* cache, which announces it to the classifier, and starts the lockout.
DebouncerCommit ==
    /\ debouncer = "Settled"
    /\ Dispatch({"RawTransition"}, <<KeyChanged(Env.pressed)>>)
    /\ Env.pressed # level
    /\ level' = Env.pressed
    /\ debouncer' = "CoolingDown"
    /\ Transit("Settled", "CoolingDown")
    /\ owed' = IF open /\ Env.pressed THEN owed + 1 ELSE owed
    /\ UNCHANGED <<classifier, ui, said>>

\* Settled: no edge.  CoolingDown: inside the lockout everything is ignored.
DebouncerIgnore ==
    /\ Dispatch({"RawTransition"}, <<>>)
    /\ debouncer = "CoolingDown" \/ Env.pressed = level
    /\ UNCHANGED <<remaining, owed, said, flows>>

DebouncerExpire ==
    /\ Dispatch({"DebounceExpired"}, <<>>)
    /\ debouncer' = "Settled"
    /\ Transit(debouncer, "Settled")
    /\ UNCHANGED <<level, classifier, ui, owed, said>>

-----------------------------------------------------------------------------
(***************************************************************************)
(* ClickClassifier.                                                        *)
(***************************************************************************)

\* Mutant of ClassifierTable: after a long press the release is awaited.
ClassifierTableLongWaits ==
    {<<"Idle", KeyChanged(TRUE), "Pressed">>,
     <<"Pressed", KeyChanged(FALSE), "AwaitingSecondClick">>,
     <<"Pressed", Message("LongPressExpired"), "AwaitingSecondClick">>,
     <<"AwaitingSecondClick", Message("DoubleClickExpired"), "Idle">>,
     <<"AwaitingSecondClick", KeyChanged(TRUE), "SecondPressed">>,
     <<"SecondPressed", KeyChanged(FALSE), "Idle">>}

ClassifierTable ==
    {<<"Idle", KeyChanged(TRUE), "Pressed">>,
     <<"Pressed", KeyChanged(FALSE), "AwaitingSecondClick">>,
     <<"Pressed", Message("LongPressExpired"), "Idle">>,
     <<"AwaitingSecondClick", Message("DoubleClickExpired"), "Idle">>,
     <<"AwaitingSecondClick", KeyChanged(TRUE), "SecondPressed">>,
     <<"SecondPressed", KeyChanged(FALSE), "Idle">>}

\* Mutant of GestureOf: a double click is not tied to SecondPressed.
GestureOfAnyRelease(env) ==
    CASE env = Message("DoubleClickExpired") -> <<"Click">>
      [] env = Message("LongPressExpired") -> <<"LongPress">>
      [] env = KeyChanged(FALSE) -> <<"DoubleClick">>
      [] OTHER -> <<>>

\* What the module-level handle() sends before the state function runs: timer
\* payloads are judged by their type alone, a release by the state as well.
GestureOf(env) ==
    CASE env = Message("DoubleClickExpired") -> <<"Click">>
      [] env = Message("LongPressExpired") -> <<"LongPress">>
      [] env = KeyChanged(FALSE) /\ classifier = "SecondPressed" -> <<"DoubleClick">>
      [] OTHER -> <<>>

Answers(gesture) == IF gesture = "DoubleClick" THEN 2 ELSE 1

ClassifierHandle ==
    /\ Dispatch({"KeyChanged", "LongPressExpired", "DoubleClickExpired"},
                [i \in DOMAIN GestureOf(Env) |-> Message(GestureOf(Env)[i])])
    /\ classifier' = StepTo(ClassifierTable, classifier, Env)
    /\ Transit(classifier, classifier')
    /\ IF GestureOf(Env) = <<>>
       THEN UNCHANGED <<owed, said>>
       ELSE /\ said' = GestureOf(Env)[1]
            /\ owed' = owed - Answers(said')
    /\ UNCHANGED <<level, debouncer, ui>>

-----------------------------------------------------------------------------
(***************************************************************************)
(* UiController.  The locals of each state write that state to UiMode_Key. *)
(***************************************************************************)

\* Mutant of UiTable: a click leaves configuration.
UiTableClickLeaves ==
    {<<"Idle", Message("Click"), "Active">>,
     <<"Idle", Message("LongPress"), "Configuring">>,
     <<"Active", Message("Click"), "Idle">>,
     <<"Active", Message("LongPress"), "Configuring">>,
     <<"Configuring", Message("LongPress"), "Idle">>,
     <<"Configuring", Message("Click"), "Idle">>}

UiTable ==
    {<<"Idle", Message("Click"), "Active">>,
     <<"Idle", Message("LongPress"), "Configuring">>,
     <<"Active", Message("Click"), "Idle">>,
     <<"Active", Message("LongPress"), "Configuring">>,
     <<"Configuring", Message("LongPress"), "Idle">>}

UiHandle ==
    /\ Dispatch({"Click", "DoubleClick", "LongPress"}, <<>>)
    /\ ui' = StepTo(UiTable, ui, Env)
    /\ UNCHANGED <<remaining, level, debouncer, classifier, owed, said>>

-----------------------------------------------------------------------------
LoopStep ==
    \/ WaitReturn \/ Wake \/ FirePost \/ FireEnd \/ DrainEnd \/ CheckStop
    \/ DebouncerCommit \/ DebouncerIgnore \/ DebouncerExpire
    \/ ClassifierHandle \/ UiHandle

Next ==
    \/ \E p \in BOOLEAN : ReaderPost(p)
    \/ ReaderStop
    \/ Tick
    \/ LoopStep

Spec == Init /\ [][Next]_vars

\* The loop thread is scheduled and time goes on; the reader need not do
\* anything.
FairSpec == Spec /\ WF_vars(LoopStep) /\ WF_vars(Tick)

-----------------------------------------------------------------------------
(***************************************************************************)
(* Properties.                                                             *)
(***************************************************************************)

Gestures == {"Click", "DoubleClick", "LongPress"}

Envelopes ==
    {Message(type) : type \in Timers \cup Gestures}
    \cup {RawTransition(p) : p \in BOOLEAN} \cup {KeyChanged(p) : p \in BOOLEAN}

\* Every variable has its type; in particular no gesture is sent for which no
\* press is owed.
TypeOK ==
    /\ queue \in Seq(Envelopes)
    /\ open \in BOOLEAN
    /\ phase \in {"wait", "fire", "drain", "check", "last", "returned"}
    /\ batch \in Seq(Timers)
    /\ remaining \in [Timers -> Int \cup {NotArmed}]
    /\ level \in BOOLEAN
    /\ debouncer \in DebouncerStates
    /\ classifier \in ClassifierStates
    /\ ui \in UiModes
    /\ posts \in Nat
    /\ owed \in Nat
    /\ said \in Gestures \cup {"nothing"}

Arrives(env) == queue # <<>> /\ Env = env

\* A timer's payload is handled in the state that armed the timer, although a
\* cancel does not recall a payload that is already queued and handle() does
\* not look at the state.  (click_classifier.cpp, comment in handle(): each
\* payload is "only ever armed by exactly one state's Locals"; debouncer.cpp.)
\* It rests on the loop: timers fire only when run_one() has left nothing
\* behind that could still move a flow.
TimersMeetTheirState ==
    /\ Arrives(Message("LongPressExpired")) => classifier = "Pressed"
    /\ Arrives(Message("DoubleClickExpired")) => classifier = "AwaitingSecondClick"
    /\ Arrives(Message("DebounceExpired")) => debouncer = "CoolingDown"

\* The edges the classifier's comments call impossible do not arrive: no
\* release without a press, no second press without a release.
\* (click_classifier.cpp on AwaitingSecondClick and SecondPressed.)
NoImpossibleEdge ==
    /\ Arrives(KeyChanged(FALSE)) => classifier # "AwaitingSecondClick"
    /\ Arrives(KeyChanged(TRUE)) => classifier \notin {"Pressed", "SecondPressed"}

Announced == Cardinality({i \in DOMAIN queue : queue[i] = KeyChanged(TRUE)})

Unresolved == CASE classifier = "Idle" -> 0
                [] classifier = "SecondPressed" -> 2
                [] OTHER -> 1

\* Every debounced press is answered exactly once: the presses that no gesture
\* has answered are those on their way to the classifier and those its state
\* stands for.  (click_classifier.cpp: handle() and the state functions agree
\* on what ends a gesture.)
EveryPressIsAnswered == owed = Announced + Unresolved

\* The mode once the gesture in the queue, if there is one, has been handled:
\* a drain recognises at most one.
QueuedGestures == {g \in Gestures : \E i \in DOMAIN queue : queue[i].type = g}

UiAfterQueue ==
    IF QueuedGestures = {} THEN ui
    ELSE StepTo(UiTable, ui, Message(CHOOSE g \in QueuedGestures : TRUE))

Ui == INSTANCE ButtonUi WITH on <- open, mode <- UiAfterQueue

\* The pipeline implements what the user is promised, once the gestures still
\* in the queue are counted as seen: the way through four modules, two cache
\* keys and three timers loses, repeats and reorders no gesture.
ImplementsUi == Ui!USpec

\* The lockout ends, and a press or the wait for a second one is resolved, by
\* its timer if by nothing else, unless the program is stopped.
TimersEndStates ==
    /\ debouncer = "CoolingDown" ~> debouncer = "Settled" \/ ~open
    /\ classifier \in {"Pressed", "AwaitingSecondClick"}
          ~> classifier \in {"Idle", "SecondPressed"} \/ ~open
=============================================================================
