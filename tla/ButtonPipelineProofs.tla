------------------------ MODULE ButtonPipelineProofs ------------------------
(***************************************************************************)
(* Theorems about ButtonPipeline, for all windows, any number of raw       *)
(* transitions and any lateness of the loop: timers meet the state that    *)
(* armed them, no impossible edge arrives, every press is answered, and    *)
(* the pipeline implements ButtonUi.                                       *)
(*                                                                         *)
(* What makes it true is the rhythm of the loop.  Timers are posted only   *)
(* after a drain that has left nothing behind, so they come before         *)
(* anything the next drain announces; the lockout of the debouncer is      *)
(* longer than a drain, so a drain announces one edge at most, and         *)
(* recognises one gesture at most.                                         *)
(***************************************************************************)
EXTENDS ButtonPipeline, TLAPS, FiniteSetTheorems

\* Of a sequence of envelopes: one of these types is in it; it is the only
\* one; those of T come before those of U; the edges in it tell this level.
Has(q, T) == \E i \in DOMAIN q : q[i].type \in T
Lone(q, T) == \A i, j \in DOMAIN q : q[i].type \in T /\ q[j].type \in T => i = j
Before(q, T, U) ==
    \A i, j \in DOMAIN q : q[i].type \in U /\ q[j].type \in T => j < i
Tells(q, p) == \A i \in DOMAIN q : q[i].type = "KeyChanged" => q[i].pressed = p

\* Of a batch: this timer is in it; none is in it twice.
Holds(s, k) == \E i \in DOMAIN s : s[i] = k
NoRepeats(s) == \A i, j \in DOMAIN s : s[i] = s[j] => i = j

-----------------------------------------------------------------------------
(***************************************************************************)
(* Sequences.                                                              *)
(***************************************************************************)

\* Nothing is in the empty queue.
LEMMA EmptyQueue ==
    /\ \A T : ~Has(<<>>, T) /\ Lone(<<>>, T)
    /\ \A T, U : Before(<<>>, T, U)
    /\ \A p : Tells(<<>>, p)
BY DEF Has, Lone, Before, Tells

\* An envelope is posted.
LEMMA Posted ==
    ASSUME NEW q \in Seq(Envelopes), NEW x \in Envelopes
    PROVE  /\ Append(q, x) \in Seq(Envelopes) /\ Append(q, x) # <<>>
           /\ \A T : Has(Append(q, x), T) <=> Has(q, T) \/ x.type \in T
           /\ \A T : Lone(q, T) /\ (x.type \in T => ~Has(q, T)) => Lone(Append(q, x), T)
           /\ \A T, U : Before(q, T, U) /\ (x.type \in T => x.type \notin U /\ ~Has(q, U))
                           => Before(Append(q, x), T, U)
           /\ \A p : Tells(q, p) /\ (x.type = "KeyChanged" => x.pressed = p)
                           => Tells(Append(q, x), p)
<1> DEFINE a == Append(q, x)
           n == Len(q) + 1
<1>1. /\ a \in Seq(Envelopes) /\ a # <<>> /\ Len(q) \in Nat /\ DOMAIN q = 1..Len(q)
      /\ DOMAIN a = 1..n /\ a[n] = x
      /\ \A i \in DOMAIN q : a[i] = q[i]
    OBVIOUS
<1>2. /\ \A i \in DOMAIN q : i \in DOMAIN a /\ i < n /\ i \in Nat /\ a[i] = q[i]
      /\ \A i \in DOMAIN a : i \in DOMAIN q \/ i = n
      /\ n \in DOMAIN a /\ n \in Nat /\ a[n] = x
    BY <1>1
<1> HIDE DEF a, n
<1>3. \A T : Has(a, T) <=> Has(q, T) \/ x.type \in T
    BY <1>2 DEF Has
<1>4. \A T : Lone(q, T) /\ (x.type \in T => ~Has(q, T)) => Lone(a, T)
    BY <1>2 DEF Has, Lone
<1>5. ASSUME NEW T, NEW U, Before(q, T, U), x.type \in T => x.type \notin U /\ ~Has(q, U)
      PROVE  Before(a, T, U)
    BY <1>2, <1>5 DEF Has, Before
<1>6. \A p : Tells(q, p) /\ (x.type = "KeyChanged" => x.pressed = p) => Tells(a, p)
    BY <1>2 DEF Tells
<1> QED
    BY <1>1, <1>3, <1>4, <1>5, <1>6 DEF a

\* The front is taken.
LEMMA Taken ==
    ASSUME NEW q \in Seq(Envelopes), q # <<>>
    PROVE  /\ Tail(q) \in Seq(Envelopes) /\ Head(q) \in Envelopes
           /\ \A T : Has(q, T) <=> Has(Tail(q), T) \/ Head(q).type \in T
           /\ \A T : Lone(q, T) => /\ Lone(Tail(q), T)
                                   /\ Head(q).type \in T => ~Has(Tail(q), T)
           /\ \A T, U : Before(q, T, U) => /\ Before(Tail(q), T, U)
                                           /\ Head(q).type \in U => ~Has(Tail(q), T)
           /\ \A p : Tells(q, p) => /\ Tells(Tail(q), p)
                                    /\ Head(q).type = "KeyChanged" => Head(q).pressed = p
<1> DEFINE r == Tail(q)
<1>1. /\ r \in Seq(Envelopes) /\ Head(q) \in Envelopes /\ Head(q) = q[1]
      /\ Len(q) \in Nat /\ Len(q) > 0 /\ DOMAIN q = 1..Len(q)
      /\ DOMAIN r = 1..(Len(q) - 1)
      /\ \A i \in DOMAIN r : r[i] = q[i + 1]
    OBVIOUS
<1>2. /\ \A i \in DOMAIN q : i \in Nat /\ (i = 1 \/ (i - 1 \in DOMAIN r /\ r[i - 1] = q[i]))
      /\ \A i \in DOMAIN r : i \in Nat /\ i + 1 \in DOMAIN q /\ i + 1 # 1 /\ 1 < i + 1
                             /\ r[i] = q[i + 1]
      /\ 1 \in DOMAIN q /\ Head(q) = q[1]
    BY <1>1
<1> HIDE DEF r
<1>3. \A T : Has(q, T) <=> Has(r, T) \/ Head(q).type \in T
    BY <1>2 DEF Has
<1>4. ASSUME NEW T, Lone(q, T)
      PROVE  Lone(r, T) /\ (Head(q).type \in T => ~Has(r, T))
    <2>1. Lone(r, T)
        <3> SUFFICES ASSUME NEW i \in DOMAIN r, NEW j \in DOMAIN r,
                            r[i].type \in T, r[j].type \in T
                     PROVE  i = j
            BY DEF Lone
        <3>1. i + 1 = j + 1
            BY <1>2, <1>4 DEF Lone
        <3> QED
            BY <1>2, <3>1
    <2>2. Head(q).type \in T => ~Has(r, T)
        BY <1>2, <1>4 DEF Lone, Has
    <2> QED
        BY <2>1, <2>2
<1>5. ASSUME NEW T, NEW U, Before(q, T, U)
      PROVE  Before(r, T, U) /\ (Head(q).type \in U => ~Has(r, T))
    <2>1. Before(r, T, U)
        <3> SUFFICES ASSUME NEW i \in DOMAIN r, NEW j \in DOMAIN r,
                            r[i].type \in U, r[j].type \in T
                     PROVE  j < i
            BY DEF Before
        <3>1. j + 1 < i + 1
            BY <1>2, <1>5 DEF Before
        <3> QED
            BY <1>2, <3>1
    <2>2. Head(q).type \in U => ~Has(r, T)
        BY <1>2, <1>5 DEF Before, Has
    <2> QED
        BY <2>1, <2>2
<1>6. \A p : Tells(q, p) => /\ Tells(r, p)
                            /\ Head(q).type = "KeyChanged" => Head(q).pressed = p
    BY <1>2 DEF Tells
<1> QED
    BY <1>1, <1>3, <1>4, <1>5, <1>6 DEF r

\* No edge, no level told.
LEMMA NothingTold ==
    ASSUME NEW q, ~Has(q, {"KeyChanged"}), NEW p PROVE Tells(q, p)
BY DEF Has, Tells

\* A set of types, and its parts.
LEMMA HasParts ==
    ASSUME NEW q
    PROVE  /\ \A T, U : Has(q, T \cup U) <=> Has(q, T) \/ Has(q, U)
           /\ \A T : Has(q, T) <=> \E k \in T : Has(q, {k})
BY DEF Has

\* A timer of the batch is posted.
LEMMA BatchTail ==
    ASSUME NEW s \in Seq(Timers), s # <<>>, NoRepeats(s)
    PROVE  /\ Tail(s) \in Seq(Timers) /\ Head(s) \in Timers /\ NoRepeats(Tail(s))
           /\ \A k : Holds(s, k) <=> (Holds(Tail(s), k) \/ k = Head(s))
           /\ ~Holds(Tail(s), Head(s))
<1> DEFINE r == Tail(s)
<1>1. /\ r \in Seq(Timers) /\ Head(s) \in Timers /\ Head(s) = s[1]
      /\ Len(s) \in Nat /\ Len(s) > 0 /\ DOMAIN s = 1..Len(s)
      /\ DOMAIN r = 1..(Len(s) - 1)
      /\ \A i \in DOMAIN r : r[i] = s[i + 1]
    OBVIOUS
<1>2. /\ \A i \in DOMAIN s : i \in Nat /\ (i = 1 \/ (i - 1 \in DOMAIN r /\ r[i - 1] = s[i]))
      /\ \A i \in DOMAIN r : i \in Nat /\ i + 1 \in DOMAIN s /\ i + 1 # 1 /\ r[i] = s[i + 1]
      /\ 1 \in DOMAIN s /\ Head(s) = s[1]
    BY <1>1
<1> HIDE DEF r
<1>3. NoRepeats(r) /\ ~Holds(r, Head(s))
    BY <1>2 DEF NoRepeats, Holds
<1>4. \A k : Holds(s, k) <=> (Holds(r, k) \/ k = Head(s))
    BY <1>2 DEF Holds
<1> QED
    BY <1>1, <1>3, <1>4 DEF r

-----------------------------------------------------------------------------
(***************************************************************************)
(* Envelopes and transitions.                                              *)
(***************************************************************************)

Loose == Timers \cup Gestures

\* An envelope is known by its type and its level.
LEMMA EnvelopeShape ==
    ASSUME NEW e \in Envelopes
    PROVE  /\ e.type \in Loose \cup {"RawTransition", "KeyChanged"}
           /\ e.pressed \in BOOLEAN
           /\ e.type \in Loose => e = Message(e.type)
           /\ e.type = "KeyChanged" => e = KeyChanged(e.pressed)
<1>1. CASE e \in {Message(type) : type \in Timers \cup Gestures}
    <2>1. PICK type \in Loose : e = Message(type)
        BY <1>1 DEF Loose
    <2>2. e.type = type /\ e.pressed = FALSE /\ type # "KeyChanged"
        BY <2>1 DEF Message, Loose, Timers, Gestures
    <2> QED
        BY <2>1, <2>2
<1>2. CASE e \in {RawTransition(p) : p \in BOOLEAN}
    BY <1>2 DEF RawTransition, Loose, Timers, Gestures
<1>3. CASE e \in {KeyChanged(p) : p \in BOOLEAN}
    BY <1>3 DEF KeyChanged, Loose, Timers, Gestures
<1> QED
    BY <1>1, <1>2, <1>3 DEF Envelopes

\* What is posted is an envelope.
LEMMA AreEnvelopes ==
    /\ \A k \in Loose : /\ Message(k) \in Envelopes /\ Message(k).type = k
                        /\ Message(k).pressed = FALSE
    /\ \A p \in BOOLEAN : /\ KeyChanged(p) \in Envelopes
                          /\ KeyChanged(p).type = "KeyChanged"
                          /\ KeyChanged(p).pressed = p
    /\ \A p \in BOOLEAN : /\ RawTransition(p) \in Envelopes
                          /\ RawTransition(p).type = "RawTransition"
BY DEF Envelopes, Message, KeyChanged, RawTransition, Loose

\* A table's row, found or missing.
LEMMA RowFound ==
    ASSUME NEW table, NEW s, NEW e, NEW to, <<s, e, to>> \in table,
           \A row \in table : row[1] = s /\ row[2] = e => row = <<s, e, to>>
    PROVE  StepTo(table, s, e) = to
<1>1. \E row \in table : row[1] = s /\ row[2] = e
    OBVIOUS
<1>2. (CHOOSE row \in table : row[1] = s /\ row[2] = e) = <<s, e, to>>
    BY <1>1
<1> QED
    BY <1>1, <1>2 DEF StepTo

\* Where the table has no row, the state stays.
LEMMA RowMissing ==
    ASSUME NEW table, NEW s, NEW e,
           \A row \in table : ~(row[1] = s /\ row[2] = e)
    PROVE  StepTo(table, s, e) = s
BY DEF StepTo

\* The classifier's rows.
LEMMA ClassifierRows ==
    /\ StepTo(ClassifierTable, "Idle", KeyChanged(TRUE)) = "Pressed"
    /\ StepTo(ClassifierTable, "Pressed", KeyChanged(FALSE)) = "AwaitingSecondClick"
    /\ StepTo(ClassifierTable, "Pressed", Message("LongPressExpired")) = "Idle"
    /\ StepTo(ClassifierTable, "AwaitingSecondClick", Message("DoubleClickExpired")) = "Idle"
    /\ StepTo(ClassifierTable, "AwaitingSecondClick", KeyChanged(TRUE)) = "SecondPressed"
    /\ StepTo(ClassifierTable, "SecondPressed", KeyChanged(FALSE)) = "Idle"
    /\ StepTo(ClassifierTable, "Idle", KeyChanged(FALSE)) = "Idle"
<1>1. /\ KeyChanged(TRUE) # KeyChanged(FALSE)
      /\ \A k \in Timers : /\ Message(k) # KeyChanged(TRUE)
                           /\ Message(k) # KeyChanged(FALSE)
      /\ Message("LongPressExpired") # Message("DoubleClickExpired")
    BY DEF KeyChanged, Message, Timers
<1> DEFINE T == KeyChanged(TRUE)
           F == KeyChanged(FALSE)
           L == Message("LongPressExpired")
           D == Message("DoubleClickExpired")
<1>2. T # F /\ L # T /\ L # F /\ D # T /\ D # F /\ L # D
    BY <1>1 DEF Timers
<1>3. ClassifierTable = {<<"Idle", T, "Pressed">>,
                         <<"Pressed", F, "AwaitingSecondClick">>,
                         <<"Pressed", L, "Idle">>,
                         <<"AwaitingSecondClick", D, "Idle">>,
                         <<"AwaitingSecondClick", T, "SecondPressed">>,
                         <<"SecondPressed", F, "Idle">>}
    BY DEF ClassifierTable
<1> HIDE DEF T, F, L, D
<1>4. StepTo(ClassifierTable, "Idle", T) = "Pressed"
    <2>1. <<"Idle", T, "Pressed">> \in ClassifierTable
        BY <1>3
    <2>2. \A row \in ClassifierTable :
             row[1] = "Idle" /\ row[2] = T => row = <<"Idle", T, "Pressed">>
        BY <1>2, <1>3
    <2> QED
        BY <2>1, <2>2, RowFound
<1>5. StepTo(ClassifierTable, "Pressed", F) = "AwaitingSecondClick"
    <2>1. <<"Pressed", F, "AwaitingSecondClick">> \in ClassifierTable
        BY <1>3
    <2>2. \A row \in ClassifierTable :
             row[1] = "Pressed" /\ row[2] = F => row = <<"Pressed", F, "AwaitingSecondClick">>
        BY <1>2, <1>3
    <2> QED
        BY <2>1, <2>2, RowFound
<1>6. StepTo(ClassifierTable, "Pressed", L) = "Idle"
    <2>1. <<"Pressed", L, "Idle">> \in ClassifierTable
        BY <1>3
    <2>2. \A row \in ClassifierTable :
             row[1] = "Pressed" /\ row[2] = L => row = <<"Pressed", L, "Idle">>
        BY <1>2, <1>3
    <2> QED
        BY <2>1, <2>2, RowFound
<1>7. StepTo(ClassifierTable, "AwaitingSecondClick", D) = "Idle"
    <2>1. <<"AwaitingSecondClick", D, "Idle">> \in ClassifierTable
        BY <1>3
    <2>2. \A row \in ClassifierTable :
             row[1] = "AwaitingSecondClick" /\ row[2] = D =>
                row = <<"AwaitingSecondClick", D, "Idle">>
        BY <1>2, <1>3
    <2> QED
        BY <2>1, <2>2, RowFound
<1>8. StepTo(ClassifierTable, "AwaitingSecondClick", T) = "SecondPressed"
    <2>1. <<"AwaitingSecondClick", T, "SecondPressed">> \in ClassifierTable
        BY <1>3
    <2>2. \A row \in ClassifierTable :
             row[1] = "AwaitingSecondClick" /\ row[2] = T =>
                row = <<"AwaitingSecondClick", T, "SecondPressed">>
        BY <1>2, <1>3
    <2> QED
        BY <2>1, <2>2, RowFound
<1>9. StepTo(ClassifierTable, "SecondPressed", F) = "Idle"
    <2>1. <<"SecondPressed", F, "Idle">> \in ClassifierTable
        BY <1>3
    <2>2. \A row \in ClassifierTable :
             row[1] = "SecondPressed" /\ row[2] = F => row = <<"SecondPressed", F, "Idle">>
        BY <1>2, <1>3
    <2> QED
        BY <2>1, <2>2, RowFound
<1>10. StepTo(ClassifierTable, "Idle", F) = "Idle"
    BY <1>2, <1>3, RowMissing
<1> QED
    BY <1>4, <1>5, <1>6, <1>7, <1>8, <1>9, <1>10 DEF T, F, L, D

\* Three states have timers.
LEMMA Armed ==
    /\ ArmedIn("CoolingDown") = {"DebounceExpired"}
    /\ ArmedIn("Pressed") = {"LongPressExpired"}
    /\ ArmedIn("AwaitingSecondClick") = {"DoubleClickExpired"}
    /\ \A s \in {"Settled", "Idle", "SecondPressed"} : ArmedIn(s) = {}
<1>1. /\ DOMAIN TimerOf = {"CoolingDown", "Pressed", "AwaitingSecondClick"}
      /\ TimerOf["CoolingDown"] = "DebounceExpired"
      /\ TimerOf["Pressed"] = "LongPressExpired"
      /\ TimerOf["AwaitingSecondClick"] = "DoubleClickExpired"
    BY DEF TimerOf
<1> QED
    BY <1>1 DEF ArmedIn

\* A transition arms the new state's timers, disarms the old state's, and
\* leaves the others alone.
LEMMA TransitEffect ==
    ASSUME remaining \in [Timers -> Int \cup {NotArmed}], NEW from, NEW to,
           Transit(from, to)
    PROVE  /\ remaining' \in [Timers -> Int \cup {NotArmed}]
           /\ \A k \in Timers :
                 /\ from # to /\ k \in ArmedIn(from) \ ArmedIn(to) => remaining'[k] = NotArmed
                 /\ from = to \/ k \notin ArmedIn(from) \cup ArmedIn(to)
                       => remaining'[k] = remaining[k]
<1>1. \A k \in Timers : Window[k] \in Int
    BY WindowsArePositive DEF Window, Timers
<1> QED
    BY <1>1 DEF Transit, Rearmed

-----------------------------------------------------------------------------
(***************************************************************************)
(* The inductive invariant.                                                *)
(***************************************************************************)

\* Every variable but the count of owed presses has its type.
Types ==
    /\ queue \in Seq(Envelopes)
    /\ open \in BOOLEAN
    /\ phase \in {"wait", "fire", "drain", "check", "last", "returned"}
    /\ batch \in Seq(Timers)
    /\ remaining \in [Timers -> Int \cup {NotArmed}]
    /\ level \in BOOLEAN
    /\ debouncer \in DebouncerStates
    /\ classifier \in ClassifierStates
    /\ ui \in UiModes
    /\ posts \in Nat
    /\ said \in Gestures \cup {"nothing"}

ClassifierTimers == {"LongPressExpired", "DoubleClickExpired"}

\* What may be queued in each part of the loop.
Rhythm ==
    /\ phase \in {"wait", "check", "returned"} =>
          ~Has(queue, {"KeyChanged"} \cup Gestures \cup Timers)
    /\ phase = "fire" => ~Has(queue, {"KeyChanged"} \cup Gestures)
    /\ phase # "fire" => batch = <<>>

AtHome(k) ==
    \/ k = "DebounceExpired" /\ debouncer = "CoolingDown"
    \/ k = "LongPressExpired" /\ classifier = "Pressed"
    \/ k = "DoubleClickExpired" /\ classifier = "AwaitingSecondClick"

\* A timer is armed, collected or queued, one of the three, and in each case
\* the state that armed it has not been left.  The classifier's timers come
\* before any edge.
TimersAtHome ==
    /\ \A k \in Timers :
          /\ remaining[k] # NotArmed \/ Holds(batch, k) \/ Has(queue, {k}) => AtHome(k)
          /\ Holds(batch, k) \/ Has(queue, {k}) => remaining[k] = NotArmed
          /\ ~(Holds(batch, k) /\ Has(queue, {k}))
          /\ Lone(queue, {k})
    /\ NoRepeats(batch)
    /\ Before(queue, ClassifierTimers, {"KeyChanged"})

\* The debouncer is in its lockout, and the lockout has not just ended.
Locked == debouncer = "CoolingDown" /\ ~Has(queue, {"DebounceExpired"})

\* One edge is queued at most, in the lockout it began, and it tells the level.
OneEdge ==
    /\ Lone(queue, {"KeyChanged"})
    /\ Has(queue, {"KeyChanged"}) => Locked
    /\ Tells(queue, level)

\* The classifier is in a state the edge in the queue fits, or, if there is
\* none, in one that fits the level, as long as edges are not dropped.
EdgeFits ==
    /\ Has(queue, {"KeyChanged"}) =>
          /\ level = TRUE => classifier \notin {"Pressed", "SecondPressed"}
          /\ level = FALSE => classifier # "AwaitingSecondClick"
    /\ ~Has(queue, {"KeyChanged"}) /\ open = TRUE =>
          /\ level = FALSE => classifier \notin {"Pressed", "SecondPressed"}
          /\ level = TRUE => classifier # "AwaitingSecondClick"

\* One gesture is queued at most, and no other will be while it is.
OneGesture ==
    /\ Lone(queue, Gestures)
    /\ Has(queue, Gestures) =>
          \/ classifier = "Idle"
          \/ /\ classifier = "Pressed" /\ Locked
             /\ ~Has(queue, {"KeyChanged"}) /\ ~Has(queue, {"LongPressExpired"})

\* EveryPressIsAnswered, with one edge in the queue at most.
Answered ==
    owed = Unresolved + (IF Has(queue, {"KeyChanged"}) /\ level = TRUE THEN 1 ELSE 0)

IInv ==
    Types /\ Rhythm /\ TimersAtHome /\ OneEdge /\ EdgeFits /\ OneGesture /\ Answered

\* At the start nothing is queued and nothing is armed.
LEMMA IInvInit == Init => IInv
<1> SUFFICES ASSUME Init PROVE IInv
    OBVIOUS
<1>1. /\ queue = <<>> /\ batch = <<>> /\ open = TRUE /\ phase = "wait"
      /\ level = FALSE /\ debouncer = "Settled" /\ classifier = "Idle"
      /\ ui = "Idle" /\ posts = 0 /\ owed = 0 /\ said = "nothing"
      /\ remaining = [k \in Timers |-> NotArmed]
    BY DEF Init
<1>2. Types
    <2>1. open \in BOOLEAN /\ level \in BOOLEAN
        BY <1>1, Zenon
    <2>2. /\ queue \in Seq(Envelopes) /\ batch \in Seq(Timers)
          /\ phase \in {"wait", "fire", "drain", "check", "last", "returned"}
          /\ remaining \in [Timers -> Int \cup {NotArmed}]
          /\ debouncer \in DebouncerStates /\ classifier \in ClassifierStates
          /\ ui \in UiModes /\ posts \in Nat /\ said \in Gestures \cup {"nothing"}
        BY <1>1 DEF DebouncerStates, ClassifierStates, UiModes
    <2> QED
        BY <2>1, <2>2, Zenon DEF Types
<1>3. NoRepeats(batch) /\ \A k : ~Holds(batch, k)
    BY <1>1 DEF NoRepeats, Holds
<1>4. Rhythm
    BY <1>1, EmptyQueue DEF Rhythm
<1>5. TimersAtHome
    BY <1>1, <1>3, EmptyQueue DEF TimersAtHome
<1>6. OneEdge /\ OneGesture
    BY <1>1, EmptyQueue DEF OneEdge, OneGesture
<1>7. EdgeFits
    BY <1>1, EmptyQueue DEF EdgeFits
<1>8. Answered
    BY <1>1, EmptyQueue DEF Answered, Unresolved
<1> QED
    BY <1>2, <1>4, <1>5, <1>6, <1>7, <1>8 DEF IInv

-----------------------------------------------------------------------------
(***************************************************************************)
(* The loop.                                                               *)
(***************************************************************************)

\* Steps that leave the queue, the timers and the flows alone.
LEMMA QuietSteps ==
    ASSUME IInv,
           \/ WaitReturn \/ FireEnd \/ DrainEnd \/ CheckStop \/ ReaderStop
           \/ UNCHANGED vars
    PROVE  IInv'
<1>0. Types /\ Rhythm /\ TimersAtHome /\ OneEdge /\ EdgeFits /\ OneGesture /\ Answered
    BY DEF IInv
<1>1. UNCHANGED <<queue, batch, remaining, posts, owed, said, level, debouncer,
                  classifier, ui>>
    BY DEF WaitReturn, FireEnd, DrainEnd, CheckStop, ReaderStop, vars, loop, flows
<1>2. /\ open' \in {open, FALSE}
      /\ phase' \in {"wait", "fire", "drain", "check", "last", "returned"}
    BY <1>0 DEF WaitReturn, FireEnd, DrainEnd, CheckStop, ReaderStop, vars, loop, Types
<1>3. Types'
    BY <1>0, <1>1, <1>2 DEF Types
<1>4. Rhythm'
    <2>1. CASE WaitReturn \/ DrainEnd
        BY <1>0, <1>1, <2>1, EmptyQueue DEF WaitReturn, DrainEnd, Rhythm
    <2>2. CASE FireEnd \/ CheckStop
        BY <1>0, <1>1, <2>2 DEF FireEnd, CheckStop, Rhythm
    <2>3. CASE ReaderStop \/ UNCHANGED vars
        BY <1>0, <1>1, <2>3 DEF ReaderStop, vars, loop, Rhythm
    <2> QED
        BY <2>1, <2>2, <2>3
<1>5. TimersAtHome' /\ OneEdge' /\ OneGesture'
    BY <1>0, <1>1 DEF TimersAtHome, AtHome, OneEdge, OneGesture, Locked
<1>6. EdgeFits'
    BY <1>0, <1>1, <1>2 DEF EdgeFits
<1>7. Answered'
    BY <1>0, <1>1 DEF Answered, Unresolved
<1> QED
    BY <1>3, <1>4, <1>5, <1>6, <1>7 DEF IInv

\* Time passes.
LEMMA TickKeeps == ASSUME IInv, Tick PROVE IInv'
<1>0. Types /\ Rhythm /\ TimersAtHome /\ OneEdge /\ EdgeFits /\ OneGesture /\ Answered
    BY DEF IInv
<1>1. UNCHANGED <<queue, open, phase, batch, posts, owed, said, level, debouncer,
                  classifier, ui>>
    BY DEF Tick, loop, flows
<1>2. /\ remaining' \in [Timers -> Int \cup {NotArmed}]
      /\ \A k \in Timers : remaining[k] = NotArmed <=> remaining'[k] = NotArmed
    BY <1>0, NotArmedIsNoTime DEF Tick, Running, Types
<1>3. Types'
    BY <1>0, <1>1, <1>2 DEF Types
<1>4. TimersAtHome'
    BY <1>0, <1>1, <1>2 DEF TimersAtHome, AtHome
<1>5. Rhythm' /\ OneEdge' /\ OneGesture' /\ EdgeFits'
    BY <1>0, <1>1 DEF Rhythm, OneEdge, OneGesture, EdgeFits, Locked
<1>6. Answered'
    BY <1>0, <1>1 DEF Answered, Unresolved
<1> QED
    BY <1>3, <1>4, <1>5, <1>6 DEF IInv

\* A raw transition is posted, or dropped.
LEMMA ReaderKeeps == ASSUME IInv, NEW p \in BOOLEAN, ReaderPost(p) PROVE IInv'
<1> DEFINE x == RawTransition(p)
<1>0. Types /\ Rhythm /\ TimersAtHome /\ OneEdge /\ EdgeFits /\ OneGesture /\ Answered
    BY DEF IInv
<1>1. /\ UNCHANGED <<open, phase, batch, remaining, owed, said, level, debouncer,
                     classifier, ui>>
      /\ posts' \in Nat
      /\ queue' = Append(queue, x) \/ queue' = queue
    BY <1>0 DEF ReaderPost, loop, flows, Types
<1>2. /\ x \in Envelopes /\ x.type = "RawTransition"
      /\ x.type \notin {"KeyChanged"} \cup Gestures \cup Timers
    BY AreEnvelopes DEF Gestures, Timers
<1> HIDE DEF x
<1>3. queue \in Seq(Envelopes)
    BY <1>0 DEF Types
<1>4. /\ queue' \in Seq(Envelopes)
      /\ \A T : "RawTransition" \notin T =>
            /\ Has(queue', T) <=> Has(queue, T)
            /\ Lone(queue, T) => Lone(queue', T)
      /\ \A T, U : "RawTransition" \notin T /\ Before(queue, T, U) => Before(queue', T, U)
      /\ \A l : Tells(queue, l) => Tells(queue', l)
    <2>1. CASE queue' = queue
        BY <1>3, <2>1
    <2>2. CASE queue' = Append(queue, x)
        <3>1. queue' \in Seq(Envelopes)
            BY <1>2, <1>3, <2>2, Posted
        <3>2. \A T : "RawTransition" \notin T =>
                 /\ Has(queue', T) <=> Has(queue, T)
                 /\ Lone(queue, T) => Lone(queue', T)
            BY <1>2, <1>3, <2>2, Posted
        <3>3. \A T, U : "RawTransition" \notin T /\ Before(queue, T, U)
                           => Before(queue', T, U)
            BY <1>2, <1>3, <2>2, Posted
        <3>4. \A l : Tells(queue, l) => Tells(queue', l)
            BY <1>2, <1>3, <2>2, Posted
        <3> QED
            BY <3>1, <3>2, <3>3, <3>4
    <2> QED
        BY <1>1, <2>1, <2>2
<1>5. /\ \A k \in Timers : "RawTransition" \notin {k}
      /\ "RawTransition" \notin Gestures /\ "RawTransition" \notin ClassifierTimers
      /\ "RawTransition" \notin {"KeyChanged"} \cup Gestures \cup Timers
      /\ "RawTransition" \notin {"KeyChanged"} \cup Gestures
    BY DEF Gestures, Timers, ClassifierTimers
<1>6. Types'
    BY <1>0, <1>1, <1>4 DEF Types
<1>7. Rhythm'
    BY <1>0, <1>1, <1>4, <1>5 DEF Rhythm
<1>8. TimersAtHome'
    BY <1>0, <1>1, <1>4, <1>5 DEF TimersAtHome, AtHome
<1>9. OneEdge' /\ EdgeFits'
    BY <1>0, <1>1, <1>4 DEF OneEdge, EdgeFits, Locked
<1>10. OneGesture'
    BY <1>0, <1>1, <1>4, <1>5 DEF OneGesture, Locked
<1>11. Answered'
    BY <1>0, <1>1, <1>4 DEF Answered, Unresolved
<1> QED
    BY <1>6, <1>7, <1>8, <1>9, <1>10, <1>11 DEF IInv


\* fire_due() collects each due timer once.
LEMMA Collected ==
    ASSUME NEW s \in DueOrders
    PROVE  /\ s \in Seq(Timers) /\ NoRepeats(s)
           /\ \A k : Holds(s, k) <=> k \in Due
<1> DEFINE n == Cardinality(Due)
<1>1. IsFiniteSet(Due)
    <2>1. IsFiniteSet({}) /\ IsFiniteSet({} \cup {"DebounceExpired"})
        BY FS_EmptySet, FS_AddElement
    <2>2. IsFiniteSet(({} \cup {"DebounceExpired"}) \cup {"LongPressExpired"})
        BY <2>1, FS_AddElement
    <2>3. IsFiniteSet((({} \cup {"DebounceExpired"}) \cup {"LongPressExpired"})
                      \cup {"DoubleClickExpired"})
        BY <2>2, FS_AddElement
    <2>4. Timers = (({} \cup {"DebounceExpired"}) \cup {"LongPressExpired"})
                   \cup {"DoubleClickExpired"}
        BY DEF Timers
    <2>5. IsFiniteSet(Timers)
        BY <2>3, <2>4
    <2>6. Due \subseteq Timers
        BY DEF Due, Running
    <2> QED
        BY <2>5, <2>6, FS_Subset
<1>2. n \in Nat
    BY <1>1, FS_CardinalityType
<1>3. s \in [1..n -> Due] /\ {s[i] : i \in DOMAIN s} = Due
    BY DEF DueOrders
<1> HIDE DEF n
<1>4. DOMAIN s = 1..n /\ \A k : Holds(s, k) <=> k \in Due
    BY <1>3 DEF Holds
<1>5. s \in Surjection(1..n, Due)
    BY <1>3, <1>4 DEF Surjection, Holds
<1>6. IsFiniteSet(1..n) /\ Cardinality(1..n) = n
    BY <1>2, FS_Interval
<1>7. Cardinality(Due) = n
    BY DEF n
<1>8. s \in Injection(1..n, Due)
    BY <1>5, <1>6, <1>7, FS_Surjection
<1>9. NoRepeats(s)
    BY <1>8, Zenon DEF Injection, IsInjective, NoRepeats
<1>10. s \in Seq(Timers)
    <2>1. Due \subseteq Timers
        BY DEF Due, Running
    <2> QED
        BY <1>2, <1>3, <2>1
<1> QED
    BY <1>4, <1>9, <1>10

\* The wait ends and what is due is collected.
LEMMA WakeKeeps == ASSUME IInv, Wake PROVE IInv'
<1>0. Types /\ Rhythm /\ TimersAtHome /\ OneEdge /\ EdgeFits /\ OneGesture /\ Answered
    BY DEF IInv
<1>1. /\ UNCHANGED <<queue, open, posts, owed, said, level, debouncer, classifier, ui>>
      /\ phase = "wait" /\ phase' = "fire"
      /\ remaining' = [k \in Timers |-> IF k \in Due THEN NotArmed ELSE remaining[k]]
      /\ batch' \in DueOrders
    BY DEF Wake, flows
<1>2. /\ batch' \in Seq(Timers) /\ NoRepeats(batch')
      /\ \A k : Holds(batch', k) <=> k \in Due
    BY <1>1, Collected
<1>3. \A k \in Due : k \in Timers /\ remaining[k] # NotArmed
    BY DEF Due, Running
<1>4. /\ remaining' \in [Timers -> Int \cup {NotArmed}]
      /\ \A k \in Timers : remaining'[k] = IF k \in Due THEN NotArmed ELSE remaining[k]
    BY <1>0, <1>1 DEF Types
<1>5. /\ ~Has(queue, {"KeyChanged"}) /\ ~Has(queue, Gestures)
      /\ \A k \in Timers : ~Has(queue, {k})
    BY <1>0, <1>1 DEF Rhythm, Has
<1>6. Types'
    BY <1>0, <1>1, <1>2, <1>4 DEF Types
<1>7. Rhythm'
    BY <1>1, <1>5, HasParts DEF Rhythm
<1>8. TimersAtHome'
    BY <1>0, <1>1, <1>2, <1>3, <1>4, <1>5 DEF TimersAtHome, AtHome
<1>9. OneEdge' /\ OneGesture' /\ EdgeFits'
    BY <1>0, <1>1 DEF OneEdge, OneGesture, EdgeFits, Locked
<1>10. Answered'
    BY <1>0, <1>1 DEF Answered, Unresolved
<1> QED
    BY <1>6, <1>7, <1>8, <1>9, <1>10 DEF IInv

\* A collected timer is posted, or dropped.
LEMMA FireKeeps == ASSUME IInv, FirePost PROVE IInv'
<1> DEFINE k0 == Head(batch)
           x == Message(k0)
<1>0. Types /\ Rhythm /\ TimersAtHome /\ OneEdge /\ EdgeFits /\ OneGesture /\ Answered
    BY DEF IInv
<1>1. /\ UNCHANGED <<open, phase, remaining, posts, owed, said, level, debouncer,
                     classifier, ui>>
      /\ phase = "fire" /\ batch # <<>> /\ batch' = Tail(batch)
      /\ queue' = Append(queue, x) \/ queue' = queue
    BY DEF FirePost, flows
<1>2. batch \in Seq(Timers) /\ NoRepeats(batch) /\ queue \in Seq(Envelopes)
    BY <1>0 DEF Types, TimersAtHome
<1>3. /\ batch' \in Seq(Timers) /\ k0 \in Timers /\ NoRepeats(batch')
      /\ \A k : Holds(batch, k) <=> (Holds(batch', k) \/ k = k0)
      /\ ~Holds(batch', k0)
    BY <1>1, <1>2, BatchTail
<1>4. /\ x \in Envelopes /\ x.type = k0
      /\ k0 \notin Gestures /\ k0 # "KeyChanged"
    BY <1>3, AreEnvelopes DEF Loose, Timers, Gestures
<1> HIDE DEF k0, x
<1>5. ~Has(queue, {"KeyChanged"}) /\ ~Has(queue, Gestures) /\ ~Has(queue, {k0})
    BY <1>0, <1>1, <1>3, HasParts DEF Rhythm, TimersAtHome
<1>6. /\ queue' \in Seq(Envelopes)
      /\ \A T : Has(queue', T) => Has(queue, T) \/ k0 \in T
      /\ \A k \in Timers : Lone(queue, {k}) => Lone(queue', {k})
    <2>1. CASE queue' = queue
        BY <1>2, <2>1
    <2>2. CASE queue' = Append(queue, x)
        <3>1. queue' \in Seq(Envelopes)
            BY <1>2, <1>4, <2>2, Posted
        <3>2. \A T : Has(queue', T) => Has(queue, T) \/ k0 \in T
            BY <1>2, <1>4, <2>2, Posted
        <3>3. \A T : Lone(queue, T) /\ (k0 \in T => ~Has(queue, T)) => Lone(queue', T)
            BY <1>2, <1>4, <2>2, Posted
        <3> QED
            BY <1>5, <3>1, <3>2, <3>3
    <2> QED
        BY <1>1, <2>1, <2>2
<1>7. ~Has(queue', {"KeyChanged"}) /\ ~Has(queue', Gestures)
    BY <1>4, <1>5, <1>6
<1>8. /\ Before(queue', ClassifierTimers, {"KeyChanged"})
      /\ Lone(queue', {"KeyChanged"}) /\ Lone(queue', Gestures)
      /\ Tells(queue', level)
    BY <1>7 DEF Has, Before, Lone, Tells
<1>9. Types'
    BY <1>0, <1>1, <1>3, <1>6 DEF Types
<1>10. Rhythm'
    BY <1>1, <1>7, HasParts DEF Rhythm
<1>11. TimersAtHome'
    <2>1. \A k \in Timers : Has(queue', {k}) => Has(queue, {k}) \/ k = k0
        BY <1>6
    <2>2. ASSUME NEW k \in Timers
          PROVE  /\ remaining[k] # NotArmed \/ Holds(batch', k) \/ Has(queue', {k})
                       => AtHome(k)
                 /\ Holds(batch', k) \/ Has(queue', {k}) => remaining[k] = NotArmed
                 /\ ~(Holds(batch', k) /\ Has(queue', {k}))
                 /\ Lone(queue', {k})
        BY <1>0, <1>3, <1>6, <2>1 DEF TimersAtHome
    <2>3. \A k : AtHome(k)' = AtHome(k)
        BY <1>1 DEF AtHome
    <2> QED
        BY <1>1, <1>3, <1>8, <2>2, <2>3 DEF TimersAtHome
<1>12. OneEdge' /\ OneGesture'
    BY <1>1, <1>7, <1>8 DEF OneEdge, OneGesture
<1>13. EdgeFits'
    BY <1>0, <1>1, <1>5, <1>7 DEF EdgeFits
<1>14. Answered'
    BY <1>0, <1>1, <1>5, <1>7 DEF Answered, Unresolved
<1> QED
    BY <1>9, <1>10, <1>11, <1>12, <1>13, <1>14 DEF IInv


-----------------------------------------------------------------------------
(***************************************************************************)
(* The modules.                                                            *)
(***************************************************************************)

\* A dispatch takes the front; its answer, if it has one, goes to the back.
LEMMA DispatchEffect ==
    ASSUME Types, NEW types, NEW answer, Dispatch(types, answer)
    PROVE  /\ queue # <<>> /\ Env.type \in types /\ phase \in {"drain", "last"}
           /\ UNCHANGED <<open, phase, batch, posts>>
           /\ answer = <<>> => queue' = Tail(queue)
           /\ \A x \in Envelopes : answer = <<x>> =>
                 queue' = IF open THEN Append(Tail(queue), x) ELSE Tail(queue)
<1>1. /\ queue # <<>> /\ Env.type \in types /\ phase \in {"drain", "last"}
      /\ UNCHANGED <<open, phase, batch, posts>>
      /\ queue' = Tail(queue) \o (IF open THEN answer ELSE <<>>)
    BY DEF Dispatch, loop, Env
<1>2. Tail(queue) \in Seq(Envelopes)
    BY <1>1, Taken DEF Types
<1>3. Tail(queue) \o <<>> = Tail(queue)
    BY <1>2
<1>4. \A x \in Envelopes : Tail(queue) \o <<x>> = Append(Tail(queue), x)
    BY <1>2
<1> QED
    BY <1>1, <1>3, <1>4, Zenon

\* An envelope that is no edge is taken and changes nothing the flows and
\* timers depend on.
LEMMA PopKeeps ==
    ASSUME IInv, queue # <<>>, phase \in {"drain", "last"}, queue' = Tail(queue),
           Head(queue).type # "KeyChanged", ui' \in UiModes,
           UNCHANGED <<open, phase, batch, remaining, posts, owed, said, level,
                       debouncer, classifier>>
    PROVE  IInv'
<1>0. Types /\ Rhythm /\ TimersAtHome /\ OneEdge /\ EdgeFits /\ OneGesture /\ Answered
    BY DEF IInv
<1>1. queue \in Seq(Envelopes)
    BY <1>0 DEF Types
<1>2. /\ queue' \in Seq(Envelopes)
      /\ \A T : Has(queue', T) => Has(queue, T)
      /\ \A T : Lone(queue, T) => Lone(queue', T)
      /\ \A T, U : Before(queue, T, U) => Before(queue', T, U)
      /\ \A p : Tells(queue, p) => Tells(queue', p)
      /\ Has(queue, {"KeyChanged"}) => Has(queue', {"KeyChanged"})
    BY <1>1, Taken
<1>3. Types'
    BY <1>0, <1>2 DEF Types
<1>4. Rhythm'
    BY <1>0 DEF Rhythm
<1>5. TimersAtHome'
    BY <1>0, <1>2 DEF TimersAtHome, AtHome
<1>6. OneEdge' /\ EdgeFits'
    BY <1>0, <1>2 DEF OneEdge, EdgeFits, Locked
<1>7. OneGesture'
    BY <1>0, <1>2 DEF OneGesture, Locked
<1>8. Answered'
    BY <1>0, <1>2 DEF Answered, Unresolved
<1> QED
    BY <1>3, <1>4, <1>5, <1>6, <1>7, <1>8 DEF IInv

\* The debouncer ignores a transition, or the interface handles a gesture.
LEMMA IgnoreAndUiKeep == ASSUME IInv, DebouncerIgnore \/ UiHandle PROVE IInv'
<1>0. Types
    BY DEF IInv
<1>1. CASE DebouncerIgnore
    <2>1. Dispatch({"RawTransition"}, <<>>)
          /\ UNCHANGED <<remaining, owed, said, level, debouncer, classifier, ui>>
        BY <1>1 DEF DebouncerIgnore, flows
    <2>2. /\ queue # <<>> /\ Env.type = "RawTransition" /\ phase \in {"drain", "last"}
          /\ UNCHANGED <<open, phase, batch, posts>> /\ queue' = Tail(queue)
        BY <1>0, <2>1, DispatchEffect
    <2> QED
        BY <1>0, <2>1, <2>2, PopKeeps DEF Env, Types
<1>2. CASE UiHandle
    <2>1. /\ Dispatch({"Click", "DoubleClick", "LongPress"}, <<>>)
          /\ ui' = StepTo(UiTable, ui, Env)
          /\ UNCHANGED <<remaining, owed, said, level, debouncer, classifier>>
        BY <1>2 DEF UiHandle
    <2>2. /\ queue # <<>> /\ Env.type \in {"Click", "DoubleClick", "LongPress"}
          /\ phase \in {"drain", "last"}
          /\ UNCHANGED <<open, phase, batch, posts>> /\ queue' = Tail(queue)
        BY <1>0, <2>1, DispatchEffect
    <2>3. \A row \in UiTable : row[3] \in UiModes
        BY DEF UiTable, UiModes
    <2>4. ui' \in UiModes
        BY <1>0, <2>1, <2>3 DEF StepTo, Types
    <2> QED
        BY <2>1, <2>2, <2>4, PopKeeps DEF Env
<1> QED
    BY <1>1, <1>2

\* The lockout ends.
LEMMA ExpireKeeps == ASSUME IInv, DebouncerExpire PROVE IInv'
<1>0. Types /\ Rhythm /\ TimersAtHome /\ OneEdge /\ EdgeFits /\ OneGesture /\ Answered
    BY DEF IInv
<1>1. /\ Dispatch({"DebounceExpired"}, <<>>) /\ debouncer' = "Settled"
      /\ Transit(debouncer, "Settled")
      /\ UNCHANGED <<level, classifier, ui, owed, said>>
    BY DEF DebouncerExpire
<1>2. /\ queue # <<>> /\ Head(queue).type = "DebounceExpired"
      /\ phase \in {"drain", "last"}
      /\ UNCHANGED <<open, phase, batch, posts>> /\ queue' = Tail(queue)
    BY <1>0, <1>1, DispatchEffect DEF Env
<1>3. queue \in Seq(Envelopes) /\ batch = <<>>
    BY <1>0, <1>2 DEF Types, Rhythm
<1>4. /\ queue' \in Seq(Envelopes)
      /\ \A T : Has(queue', T) => Has(queue, T)
      /\ \A T : Lone(queue, T) => Lone(queue', T)
      /\ \A T, U : Before(queue, T, U) => Before(queue', T, U)
      /\ Has(queue, {"DebounceExpired"})
      /\ Lone(queue, {"DebounceExpired"}) => ~Has(queue', {"DebounceExpired"})
    BY <1>2, <1>3, Taken
<1>5. debouncer = "CoolingDown" /\ ~Has(queue', {"DebounceExpired"})
    BY <1>0, <1>4 DEF TimersAtHome, AtHome, Timers
<1>6. ~Has(queue, {"KeyChanged"}) /\ ~Has(queue', {"KeyChanged"})
    BY <1>0, <1>4 DEF OneEdge, Locked
<1>7. /\ remaining' \in [Timers -> Int \cup {NotArmed}]
      /\ remaining'["DebounceExpired"] = NotArmed
      /\ \A k \in Timers \ {"DebounceExpired"} : remaining'[k] = remaining[k]
    <2>1. remaining \in [Timers -> Int \cup {NotArmed}]
        BY <1>0 DEF Types
    <2>2. "DebounceExpired" \in Timers
        BY DEF Timers
    <2> QED
        BY <1>1, <1>5, <2>1, <2>2, Armed, TransitEffect
<1>8. Types'
    BY <1>0, <1>1, <1>2, <1>4, <1>7 DEF Types, DebouncerStates
<1>9. Rhythm'
    BY <1>0, <1>2 DEF Rhythm
<1>10. TimersAtHome'
    <2>1. \A k : ~Holds(batch, k)
        BY <1>3 DEF Holds
    <2>2. \A k \in Timers \ {"DebounceExpired"} : AtHome(k)' = AtHome(k)
        BY <1>1 DEF AtHome
    <2> QED
        BY <1>0, <1>2, <1>4, <1>5, <1>7, <2>1, <2>2 DEF TimersAtHome
<1>11. OneEdge'
    BY <1>0, <1>4, <1>6, NothingTold DEF OneEdge
<1>12. OneGesture'
    BY <1>0, <1>1, <1>4 DEF OneGesture, Locked
<1>13. EdgeFits'
    BY <1>0, <1>1, <1>2, <1>6 DEF EdgeFits
<1>14. Answered'
    BY <1>0, <1>1, <1>6 DEF Answered, Unresolved
<1> QED
    BY <1>8, <1>9, <1>10, <1>11, <1>12, <1>13, <1>14 DEF IInv

\* The debouncer commits an edge and announces it.
LEMMA CommitKeeps == ASSUME IInv, DebouncerCommit PROVE IInv'
<1> DEFINE e == Head(queue)
           r == Tail(queue)
           x == KeyChanged(e.pressed)
<1>0. Types /\ Rhythm /\ TimersAtHome /\ OneEdge /\ EdgeFits /\ OneGesture /\ Answered
    BY DEF IInv
<1>1. /\ debouncer = "Settled" /\ debouncer' = "CoolingDown"
      /\ Dispatch({"RawTransition"}, <<x>>)
      /\ e.pressed # level /\ level' = e.pressed
      /\ Transit("Settled", "CoolingDown")
      /\ owed' = IF open /\ e.pressed THEN owed + 1 ELSE owed
      /\ UNCHANGED <<classifier, ui, said>>
    BY DEF DebouncerCommit, Env
<1>2. /\ queue # <<>> /\ e.type = "RawTransition" /\ phase \in {"drain", "last"}
      /\ UNCHANGED <<open, phase, batch, posts>>
    BY <1>0, <1>1, DispatchEffect DEF Env
<1>3. queue \in Seq(Envelopes) /\ batch = <<>>
    BY <1>0, <1>2 DEF Types, Rhythm
<1>4. /\ r \in Seq(Envelopes) /\ e \in Envelopes
      /\ \A T : Has(queue, T) <=> Has(r, T) \/ e.type \in T
      /\ \A T : Lone(queue, T) => Lone(r, T)
      /\ \A T, U : Before(queue, T, U) => Before(r, T, U)
    BY <1>2, <1>3, Taken
<1>5. /\ e.pressed \in BOOLEAN /\ x \in Envelopes /\ x.type = "KeyChanged"
      /\ x.pressed = e.pressed
    BY <1>4, EnvelopeShape, AreEnvelopes
<1>6. queue' = IF open THEN Append(r, x) ELSE r
    BY <1>0, <1>1, <1>5, DispatchEffect
<1> HIDE DEF e, r, x
<1>7. ~Has(queue, {"KeyChanged"}) /\ ~Has(queue, {"DebounceExpired"})
    BY <1>0, <1>1 DEF OneEdge, Locked, TimersAtHome, AtHome, Timers
<1>8. ~Has(r, {"KeyChanged"}) /\ ~Has(r, {"DebounceExpired"})
    BY <1>4, <1>7
<1>9. /\ queue' \in Seq(Envelopes)
      /\ \A T : "KeyChanged" \notin T =>
            /\ Has(queue', T) => Has(queue, T)
            /\ Lone(queue, T) => Lone(queue', T)
      /\ Before(queue, ClassifierTimers, {"KeyChanged"})
            => Before(queue', ClassifierTimers, {"KeyChanged"})
      /\ Lone(queue', {"KeyChanged"})
      /\ Tells(queue', e.pressed)
      /\ open = TRUE => Has(queue', {"KeyChanged"})
      /\ open = FALSE => ~Has(queue', {"KeyChanged"})
    <2>0. Lone(r, {"KeyChanged"}) /\ Tells(r, e.pressed)
        BY <1>8, NothingTold DEF Lone, Has
    <2>1. CASE open = FALSE
        BY <1>4, <1>6, <1>8, <2>0, <2>1
    <2>2. CASE open = TRUE
        <3>1. queue' = Append(r, x)
            BY <1>6, <2>2
        <3>2. queue' \in Seq(Envelopes)
            BY <1>4, <1>5, <3>1, Posted
        <3>3. \A T : "KeyChanged" \notin T =>
                 /\ Has(queue', T) => Has(queue, T)
                 /\ Lone(queue, T) => Lone(queue', T)
            BY <1>4, <1>5, <3>1, Posted
        <3>4. Before(queue, ClassifierTimers, {"KeyChanged"})
                 => Before(queue', ClassifierTimers, {"KeyChanged"})
            BY <1>4, <1>5, <3>1, Posted DEF ClassifierTimers
        <3>5. Lone(queue', {"KeyChanged"}) /\ Has(queue', {"KeyChanged"})
            BY <1>4, <1>5, <1>8, <2>0, <3>1, Posted
        <3>6. Tells(queue', e.pressed)
            BY <1>4, <1>5, <2>0, <3>1, Posted
        <3> QED
            BY <2>2, <3>2, <3>3, <3>4, <3>5, <3>6
    <2> QED
        BY <1>0, <2>1, <2>2 DEF Types
<1>10. /\ remaining' \in [Timers -> Int \cup {NotArmed}]
       /\ \A k \in Timers \ {"DebounceExpired"} : remaining'[k] = remaining[k]
    <2>1. remaining \in [Timers -> Int \cup {NotArmed}]
        BY <1>0 DEF Types
    <2> QED
        BY <1>1, <2>1, Armed, TransitEffect
<1>11. Types'
    BY <1>0, <1>1, <1>2, <1>5, <1>9, <1>10, Zenon DEF Types, DebouncerStates
<1>12. Rhythm'
    BY <1>0, <1>2 DEF Rhythm
<1>13. TimersAtHome'
    <2>1. \A k : ~Holds(batch, k)
        BY <1>3 DEF Holds
    <2>2. \A k \in Timers \ {"DebounceExpired"} : AtHome(k)' = AtHome(k)
        BY <1>1 DEF AtHome
    <2>3. AtHome("DebounceExpired")'
        BY <1>1 DEF AtHome
    <2>4. \A k \in Timers : /\ Has(queue', {k}) => Has(queue, {k})
                            /\ Lone(queue, {k}) => Lone(queue', {k})
        BY <1>9 DEF Timers
    <2>5. ~Has(queue', {"DebounceExpired"})
        BY <1>7, <2>4 DEF Timers
    <2> QED
        BY <1>0, <1>2, <1>9, <1>10, <2>1, <2>2, <2>3, <2>4, <2>5 DEF TimersAtHome
<1>14. OneEdge'
    <2>1. ~Has(queue', {"DebounceExpired"})
        BY <1>7, <1>9
    <2> QED
        BY <1>1, <1>9, <2>1 DEF OneEdge, Locked
<1>15. OneGesture'
    <2>1. (Has(queue', Gestures) => Has(queue, Gestures)) /\ Lone(queue', Gestures)
        BY <1>0, <1>9 DEF OneGesture, Gestures
    <2> QED
        BY <1>0, <1>1, <2>1 DEF OneGesture, Locked
<1>16. open \in BOOLEAN /\ level \in BOOLEAN
    BY <1>0 DEF Types
<1>17. EdgeFits'
    BY <1>0, <1>1, <1>2, <1>5, <1>7, <1>9, <1>16 DEF EdgeFits
<1>18. Answered'
    BY <1>0, <1>1, <1>2, <1>5, <1>7, <1>9, <1>16 DEF Answered, Unresolved
<1> QED
    BY <1>11, <1>12, <1>13, <1>14, <1>15, <1>17, <1>18 DEF IInv


\* The timers of the classifier follow its state.
LEMMA ClassifierTimersMove ==
    ASSUME Types, \A k \in Timers : remaining[k] # NotArmed => AtHome(k),
           Transit(classifier, classifier'), debouncer' = debouncer
    PROVE  /\ remaining' \in [Timers -> Int \cup {NotArmed}]
           /\ \A k \in Timers : remaining'[k] # NotArmed => AtHome(k)'
           /\ remaining'["DebounceExpired"] = remaining["DebounceExpired"]
<1>1. remaining \in [Timers -> Int \cup {NotArmed}] /\ classifier \in ClassifierStates
    BY DEF Types
<1>2. /\ remaining' \in [Timers -> Int \cup {NotArmed}]
      /\ \A k \in Timers :
            /\ classifier # classifier' /\ k \in ArmedIn(classifier) \ ArmedIn(classifier')
                  => remaining'[k] = NotArmed
            /\ classifier = classifier' \/ k \notin ArmedIn(classifier) \cup ArmedIn(classifier')
                  => remaining'[k] = remaining[k]
    BY <1>1, TransitEffect
<1>3. \A s \in ClassifierStates :
         /\ "DebounceExpired" \notin ArmedIn(s)
         /\ "LongPressExpired" \in ArmedIn(s) <=> s = "Pressed"
         /\ "DoubleClickExpired" \in ArmedIn(s) <=> s = "AwaitingSecondClick"
    BY Armed DEF ClassifierStates
<1>4. /\ "DebounceExpired" \notin ArmedIn(classifier')
      /\ "LongPressExpired" \in ArmedIn(classifier') => classifier' = "Pressed"
      /\ "DoubleClickExpired" \in ArmedIn(classifier') => classifier' = "AwaitingSecondClick"
    BY DEF ArmedIn, TimerOf
<1>5. remaining'["DebounceExpired"] = remaining["DebounceExpired"]
    BY <1>1, <1>2, <1>3, <1>4 DEF Timers
<1>6. ASSUME NEW k \in Timers, remaining'[k] # NotArmed PROVE AtHome(k)'
    <2>1. CASE k = "DebounceExpired"
        BY <1>5, <1>6, <2>1 DEF AtHome, Timers
    <2>2. CASE k = "LongPressExpired"
        BY <1>1, <1>2, <1>3, <1>4, <1>6, <2>2 DEF AtHome, Timers
    <2>3. CASE k = "DoubleClickExpired"
        BY <1>1, <1>2, <1>3, <1>4, <1>6, <2>3 DEF AtHome, Timers
    <2> QED
        BY <2>1, <2>2, <2>3 DEF Timers
<1> QED
    BY <1>2, <1>5, <1>6

\* What handle() sends for an envelope.
LEMMA GestureSays ==
    /\ GestureOf(Message("DoubleClickExpired")) = <<"Click">>
    /\ GestureOf(Message("LongPressExpired")) = <<"LongPress">>
    /\ GestureOf(KeyChanged(TRUE)) = <<>>
    /\ GestureOf(KeyChanged(FALSE)) =
          IF classifier = "SecondPressed" THEN <<"DoubleClick">> ELSE <<>>
<1>1. /\ Message("DoubleClickExpired") # Message("LongPressExpired")
      /\ KeyChanged(TRUE) # Message("DoubleClickExpired")
      /\ KeyChanged(TRUE) # Message("LongPressExpired")
      /\ KeyChanged(FALSE) # Message("DoubleClickExpired")
      /\ KeyChanged(FALSE) # Message("LongPressExpired")
      /\ KeyChanged(TRUE) # KeyChanged(FALSE)
    BY DEF Message, KeyChanged
<1> QED
    BY <1>1, Zenon DEF GestureOf

\* What ClassifierHandle posts and counts.
LEMMA HandleEffect ==
    ASSUME Types, ClassifierHandle
    PROVE  /\ queue # <<>> /\ phase \in {"drain", "last"}
           /\ Env.type \in {"KeyChanged", "LongPressExpired", "DoubleClickExpired"}
           /\ UNCHANGED <<open, phase, batch, posts, level, debouncer, ui>>
           /\ classifier' = StepTo(ClassifierTable, classifier, Env)
           /\ Transit(classifier, classifier')
           /\ GestureOf(Env) = <<>> =>
                 queue' = Tail(queue) /\ UNCHANGED <<owed, said>>
           /\ \A g \in Gestures : GestureOf(Env) = <<g>> =>
                 /\ queue' = IF open THEN Append(Tail(queue), Message(g)) ELSE Tail(queue)
                 /\ said' = g /\ owed' = owed - Answers(g)
<1> DEFINE answer == [i \in DOMAIN GestureOf(Env) |-> Message(GestureOf(Env)[i])]
<1>1. /\ Dispatch({"KeyChanged", "LongPressExpired", "DoubleClickExpired"}, answer)
      /\ classifier' = StepTo(ClassifierTable, classifier, Env)
      /\ Transit(classifier, classifier')
      /\ IF GestureOf(Env) = <<>>
         THEN UNCHANGED <<owed, said>>
         ELSE said' = GestureOf(Env)[1] /\ owed' = owed - Answers(said')
      /\ UNCHANGED <<level, debouncer, ui>>
    BY DEF ClassifierHandle
<1>2. GestureOf(Env) = <<>> => answer = <<>>
    OBVIOUS
<1>3. \A g \in Gestures : GestureOf(Env) = <<g>> => answer = <<Message(g)>>
    OBVIOUS
<1>4. \A g \in Gestures : Message(g) \in Envelopes
    BY AreEnvelopes DEF Loose
<1> HIDE DEF answer
<1>5. /\ queue # <<>> /\ phase \in {"drain", "last"}
      /\ Env.type \in {"KeyChanged", "LongPressExpired", "DoubleClickExpired"}
      /\ UNCHANGED <<open, phase, batch, posts>>
      /\ answer = <<>> => queue' = Tail(queue)
      /\ \A x \in Envelopes : answer = <<x>> =>
            queue' = IF open THEN Append(Tail(queue), x) ELSE Tail(queue)
    BY <1>1, DispatchEffect
<1>6. \A g \in Gestures : GestureOf(Env) = <<g>> =>
         /\ queue' = IF open THEN Append(Tail(queue), Message(g)) ELSE Tail(queue)
         /\ said' = g /\ owed' = owed - Answers(g)
    <2>1. ASSUME NEW g \in Gestures, GestureOf(Env) = <<g>>
          PROVE  /\ queue' = IF open THEN Append(Tail(queue), Message(g)) ELSE Tail(queue)
                 /\ said' = g /\ owed' = owed - Answers(g)
        <3>1. <<g>> # <<>> /\ <<g>>[1] = g
            OBVIOUS
        <3>2. said' = g /\ owed' = owed - Answers(g)
            BY <1>1, <2>1, <3>1
        <3> QED
            BY <1>3, <1>4, <1>5, <2>1, <3>2
    <2> QED
        BY <2>1
<1> QED
    BY <1>1, <1>2, <1>5, <1>6

\* An edge moves the classifier and sends nothing.
EdgeMoves ==
    /\ Head(queue).type = "KeyChanged"
    /\ queue' = Tail(queue)
    /\ UNCHANGED <<owed, said>>
    /\ \/ level = TRUE /\ classifier = "Idle" /\ classifier' = "Pressed"
       \/ level = TRUE /\ classifier = "AwaitingSecondClick" /\ classifier' = "SecondPressed"
       \/ level = FALSE /\ classifier = "Idle" /\ classifier' = "Idle"
       \/ level = FALSE /\ classifier = "Pressed" /\ classifier' = "AwaitingSecondClick"

\* A gesture g is recognised.
Recognises(g) ==
    /\ queue' = IF open THEN Append(Tail(queue), Message(g)) ELSE Tail(queue)
    /\ said' = g /\ owed' = owed - Answers(g)
    /\ classifier' = "Idle"
    /\ \/ /\ Head(queue).type = "KeyChanged" /\ level = FALSE
          /\ classifier = "SecondPressed" /\ g = "DoubleClick"
       \/ /\ Head(queue).type = "LongPressExpired"
          /\ classifier = "Pressed" /\ g = "LongPress"
       \/ /\ Head(queue).type = "DoubleClickExpired"
          /\ classifier = "AwaitingSecondClick" /\ g = "Click"

\* handle() and the state function agree.
LEMMA ClassifierCases ==
    ASSUME IInv, ClassifierHandle
    PROVE  EdgeMoves \/ \E g \in Gestures : Recognises(g)
<1>0. Types /\ TimersAtHome /\ OneEdge /\ EdgeFits
    BY DEF IInv
<1>1. /\ queue # <<>>
      /\ Env.type \in {"KeyChanged", "LongPressExpired", "DoubleClickExpired"}
      /\ classifier' = StepTo(ClassifierTable, classifier, Env)
      /\ GestureOf(Env) = <<>> => queue' = Tail(queue) /\ UNCHANGED <<owed, said>>
      /\ \A g \in Gestures : GestureOf(Env) = <<g>> =>
            /\ queue' = IF open THEN Append(Tail(queue), Message(g)) ELSE Tail(queue)
            /\ said' = g /\ owed' = owed - Answers(g)
    BY <1>0, HandleEffect
<1>2. queue \in Seq(Envelopes) /\ level \in BOOLEAN /\ classifier \in ClassifierStates
    BY <1>0 DEF Types
<1>3. /\ Env \in Envelopes
      /\ \A T : Env.type \in T => Has(queue, T)
      /\ \A p : Tells(queue, p) /\ Env.type = "KeyChanged" => Env.pressed = p
    BY <1>1, <1>2, Taken DEF Env
<1>4. CASE Env.type = "KeyChanged"
    <2>1. Env = KeyChanged(level)
        BY <1>0, <1>3, <1>4, EnvelopeShape DEF OneEdge
    <2>2. Has(queue, {"KeyChanged"})
        BY <1>3, <1>4
    <2>3. CASE level = TRUE
        <3>1. classifier \in {"Idle", "AwaitingSecondClick"}
            BY <1>0, <1>2, <2>2, <2>3 DEF EdgeFits, ClassifierStates
        <3>2. GestureOf(Env) = <<>>
            BY <2>1, <2>3, GestureSays
        <3>3. \/ classifier = "Idle" /\ classifier' = "Pressed"
              \/ classifier = "AwaitingSecondClick" /\ classifier' = "SecondPressed"
            BY <1>1, <2>1, <2>3, <3>1, ClassifierRows
        <3> QED
            BY <1>1, <1>4, <2>3, <3>2, <3>3 DEF EdgeMoves, Env
    <2>4. CASE level = FALSE /\ classifier # "SecondPressed"
        <3>1. classifier \in {"Idle", "Pressed"}
            BY <1>0, <1>2, <2>2, <2>4 DEF EdgeFits, ClassifierStates
        <3>2. GestureOf(Env) = <<>>
            BY <2>1, <2>4, GestureSays
        <3>3. \/ classifier = "Idle" /\ classifier' = "Idle"
              \/ classifier = "Pressed" /\ classifier' = "AwaitingSecondClick"
            BY <1>1, <2>1, <2>4, <3>1, ClassifierRows
        <3> QED
            BY <1>1, <1>4, <2>4, <3>2, <3>3 DEF EdgeMoves, Env
    <2>5. CASE level = FALSE /\ classifier = "SecondPressed"
        <3>1. GestureOf(Env) = <<"DoubleClick">> /\ "DoubleClick" \in Gestures
            BY <2>1, <2>5, GestureSays DEF Gestures
        <3>2. classifier' = "Idle"
            BY <1>1, <2>1, <2>5, ClassifierRows
        <3> QED
            BY <1>1, <1>4, <2>5, <3>1, <3>2 DEF Recognises, Env
    <2> QED
        BY <1>2, <2>3, <2>4, <2>5
<1>5. CASE Env.type = "LongPressExpired"
    <2>1. Env = Message("LongPressExpired")
        BY <1>3, <1>5, EnvelopeShape DEF Loose, Timers
    <2>2. classifier = "Pressed"
        BY <1>0, <1>3, <1>5 DEF TimersAtHome, AtHome, Timers
    <2>3. GestureOf(Env) = <<"LongPress">> /\ "LongPress" \in Gestures
        BY <2>1, GestureSays DEF Gestures
    <2>4. classifier' = "Idle"
        BY <1>1, <2>1, <2>2, ClassifierRows
    <2> QED
        BY <1>1, <1>5, <2>2, <2>3, <2>4 DEF Recognises, Env
<1>6. CASE Env.type = "DoubleClickExpired"
    <2>1. Env = Message("DoubleClickExpired")
        BY <1>3, <1>6, EnvelopeShape DEF Loose, Timers
    <2>2. classifier = "AwaitingSecondClick"
        BY <1>0, <1>3, <1>6 DEF TimersAtHome, AtHome, Timers
    <2>3. GestureOf(Env) = <<"Click">> /\ "Click" \in Gestures
        BY <2>1, GestureSays DEF Gestures
    <2>4. classifier' = "Idle"
        BY <1>1, <2>1, <2>2, ClassifierRows
    <2> QED
        BY <1>1, <1>6, <2>2, <2>3, <2>4 DEF Recognises, Env
<1> QED
    BY <1>1, <1>4, <1>5, <1>6


\* When the classifier handles something, none of its timers is queued behind.
LEMMA NoTimerBehind ==
    ASSUME IInv, queue # <<>>,
           \/ Head(queue).type = "KeyChanged"
           \/ Head(queue).type \in ClassifierTimers
    PROVE  \A k \in ClassifierTimers : ~Has(Tail(queue), {k})
<1>0. queue \in Seq(Envelopes) /\ TimersAtHome
    BY DEF IInv, Types
<1>1. CASE Head(queue).type = "KeyChanged"
    <2>1. ~Has(Tail(queue), ClassifierTimers)
        BY <1>0, <1>1, Taken DEF TimersAtHome
    <2> QED
        BY <2>1, HasParts
<1>2. CASE Head(queue).type \in ClassifierTimers
    <2>1. \A k \in ClassifierTimers : /\ Has(queue, {k}) => AtHome(k)
                                      /\ Lone(queue, {k})
        BY <1>0 DEF TimersAtHome, ClassifierTimers, Timers
    <2>2. \A k \in ClassifierTimers :
             /\ Has(queue, {k}) <=> Has(Tail(queue), {k}) \/ Head(queue).type = k
             /\ Lone(queue, {k}) /\ Head(queue).type = k => ~Has(Tail(queue), {k})
        BY <1>0, Taken
    <2>3. AtHome("LongPressExpired") => ~AtHome("DoubleClickExpired")
        BY DEF AtHome
    <2> QED
        BY <1>2, <2>1, <2>2, <2>3 DEF ClassifierTimers
<1> QED
    BY <1>1, <1>2

\* The classifier's timers stay where they belong, whatever it handles.
LEMMA ClassifierKeepsTimers ==
    ASSUME IInv, ClassifierHandle, queue' \in Seq(Envelopes),
           \A T : Has(queue', T) => Has(Tail(queue), T) \/ \E g \in Gestures : g \in T,
           \A k \in Timers : Lone(queue, {k}) => Lone(queue', {k}),
           Before(queue', ClassifierTimers, {"KeyChanged"})
    PROVE  TimersAtHome' /\ remaining' \in [Timers -> Int \cup {NotArmed}]
<1>0. Types /\ Rhythm /\ TimersAtHome
    BY DEF IInv
<1>1. /\ queue # <<>> /\ phase \in {"drain", "last"}
      /\ Env.type \in {"KeyChanged", "LongPressExpired", "DoubleClickExpired"}
      /\ UNCHANGED <<batch, debouncer>>
      /\ Transit(classifier, classifier')
    BY <1>0, HandleEffect
<1>2. queue \in Seq(Envelopes) /\ batch = <<>>
    BY <1>0, <1>1 DEF Types, Rhythm
<1>3. \A k \in ClassifierTimers : ~Has(Tail(queue), {k})
    BY <1>1, NoTimerBehind DEF Env, ClassifierTimers
<1>4. \A k \in Timers : Has(queue', {k}) => Has(Tail(queue), {k})
    BY DEF Timers, Gestures
<1>5. \A k \in Timers : Has(Tail(queue), {k}) => Has(queue, {k})
    BY <1>1, <1>2, Taken
<1>6. /\ remaining' \in [Timers -> Int \cup {NotArmed}]
      /\ \A k \in Timers : remaining'[k] # NotArmed => AtHome(k)'
      /\ remaining'["DebounceExpired"] = remaining["DebounceExpired"]
    BY <1>0, <1>1, ClassifierTimersMove DEF TimersAtHome
<1>7. \A k : ~Holds(batch', k)
    BY <1>1, <1>2 DEF Holds
<1>8. \A k \in Timers : Has(queue', {k}) =>
         k = "DebounceExpired" /\ AtHome(k)' /\ remaining'[k] = NotArmed
    <2> SUFFICES ASSUME NEW k \in Timers, Has(queue', {k})
                 PROVE  k = "DebounceExpired" /\ AtHome(k)' /\ remaining'[k] = NotArmed
        OBVIOUS
    <2>1. k = "DebounceExpired"
        BY <1>3, <1>4 DEF Timers, ClassifierTimers
    <2>2. AtHome(k) /\ remaining[k] = NotArmed
        BY <1>0, <1>4, <1>5 DEF TimersAtHome
    <2> QED
        BY <1>1, <1>6, <2>1, <2>2 DEF AtHome
<1>9. \A k \in Timers : Lone(queue', {k})
    BY <1>0 DEF TimersAtHome
<1>10. NoRepeats(batch')
    BY <1>0, <1>1 DEF TimersAtHome
<1> QED
    BY <1>6, <1>7, <1>8, <1>9, <1>10 DEF TimersAtHome

\* The classifier handles an edge that ends no gesture.
LEMMA EdgeKeeps == ASSUME IInv, ClassifierHandle, EdgeMoves PROVE IInv'
<1>0. Types /\ Rhythm /\ TimersAtHome /\ OneEdge /\ EdgeFits /\ OneGesture /\ Answered
    BY DEF IInv
<1>1. /\ queue # <<>> /\ phase \in {"drain", "last"}
      /\ UNCHANGED <<open, phase, batch, posts, level, debouncer, ui>>
    BY <1>0, HandleEffect
<1>2. /\ Head(queue).type = "KeyChanged" /\ queue' = Tail(queue)
      /\ UNCHANGED <<owed, said>>
      /\ classifier' \in ClassifierStates
    BY DEF EdgeMoves, ClassifierStates
<1>3. queue \in Seq(Envelopes)
    BY <1>0 DEF Types
<1>4. /\ queue' \in Seq(Envelopes)
      /\ \A T : Has(queue', T) => Has(queue, T)
      /\ \A T : Lone(queue, T) => Lone(queue', T)
      /\ \A T, U : Before(queue, T, U) => Before(queue', T, U)
      /\ \A p : Tells(queue, p) => Tells(queue', p)
      /\ Has(queue, {"KeyChanged"})
      /\ Lone(queue, {"KeyChanged"}) => ~Has(queue', {"KeyChanged"})
    BY <1>1, <1>2, <1>3, Taken
<1>5. ~Has(queue', {"KeyChanged"})
    BY <1>0, <1>4 DEF OneEdge
<1>6. \A k \in ClassifierTimers : ~Has(queue', {k})
    BY <1>1, <1>2, NoTimerBehind
<1>7. TimersAtHome' /\ remaining' \in [Timers -> Int \cup {NotArmed}]
    BY <1>0, <1>2, <1>4, ClassifierKeepsTimers DEF TimersAtHome
<1>8. Types'
    BY <1>0, <1>1, <1>2, <1>4, <1>7 DEF Types
<1>9. Rhythm'
    BY <1>0, <1>1 DEF Rhythm
<1>10. OneEdge'
    BY <1>0, <1>1, <1>4, <1>5 DEF OneEdge
<1>11. EdgeFits'
    BY <1>1, <1>5 DEF EdgeFits, EdgeMoves
<1>12. OneGesture'
    <2>1. Has(queue', Gestures) => classifier = "Idle"
        BY <1>0, <1>4 DEF OneGesture
    <2>2. Locked /\ ~Has(queue', {"DebounceExpired"})
        BY <1>0, <1>4 DEF OneEdge, Locked
    <2>3. Locked'
        BY <1>1, <2>2 DEF Locked
    <2>4. ~Has(queue', {"LongPressExpired"})
        BY <1>6 DEF ClassifierTimers
    <2>5. Lone(queue', Gestures)
        BY <1>0, <1>4 DEF OneGesture
    <2> QED
        BY <1>5, <2>1, <2>3, <2>4, <2>5 DEF OneGesture, EdgeMoves
<1>13. Answered'
    BY <1>0, <1>1, <1>2, <1>4, <1>5 DEF Answered, Unresolved, EdgeMoves
<1> QED
    BY <1>7, <1>8, <1>9, <1>10, <1>11, <1>12, <1>13 DEF IInv

\* When a gesture is recognised, no other is queued.
LEMMA NoOtherGesture ==
    ASSUME IInv, queue # <<>>, NEW g \in Gestures, Recognises(g)
    PROVE  ~Has(queue, Gestures)
<1>0. OneGesture /\ queue \in Seq(Envelopes)
    BY DEF IInv, Types
<1>1. \A T : Head(queue).type \in T => Has(queue, T)
    BY <1>0, Taken
<1>2. Head(queue).type = "LongPressExpired" => Has(queue, {"LongPressExpired"})
    BY <1>1
<1> QED
    BY <1>0, <1>2 DEF OneGesture, Recognises

\* The classifier recognises a gesture.
LEMMA GestureKeeps ==
    ASSUME IInv, ClassifierHandle, NEW g \in Gestures, Recognises(g) PROVE IInv'
<1> DEFINE e == Head(queue)
           r == Tail(queue)
           x == Message(g)
<1>0. Types /\ Rhythm /\ TimersAtHome /\ OneEdge /\ EdgeFits /\ OneGesture /\ Answered
    BY DEF IInv
<1>1. /\ queue # <<>> /\ phase \in {"drain", "last"}
      /\ UNCHANGED <<open, phase, batch, posts, level, debouncer, ui>>
    BY <1>0, HandleEffect
<1>2. /\ queue' = IF open THEN Append(r, x) ELSE r
      /\ said' = g /\ owed' = owed - Answers(g) /\ classifier' = "Idle"
      /\ e.type \in {"KeyChanged", "LongPressExpired", "DoubleClickExpired"}
    BY DEF Recognises
<1>3. queue \in Seq(Envelopes)
    BY <1>0 DEF Types
<1>4. /\ r \in Seq(Envelopes)
      /\ \A T : Has(queue, T) <=> Has(r, T) \/ e.type \in T
      /\ \A T : Lone(queue, T) => /\ Lone(r, T)
                                  /\ e.type \in T => ~Has(r, T)
      /\ \A T, U : Before(queue, T, U) => Before(r, T, U)
      /\ \A p : Tells(queue, p) => Tells(r, p)
    BY <1>1, <1>3, Taken
<1>5. x \in Envelopes /\ x.type = g
    BY AreEnvelopes DEF Loose
<1>6. ~Has(queue, Gestures) /\ ~Has(r, Gestures)
    BY <1>1, <1>4, NoOtherGesture
<1> HIDE DEF e, r, x
<1>7. g # "KeyChanged" /\ g \notin Timers /\ g \notin ClassifierTimers
    BY DEF Gestures, Timers, ClassifierTimers
<1>8. /\ queue' \in Seq(Envelopes)
      /\ \A T : Has(queue', T) => Has(r, T) \/ g \in T
      /\ \A T : Has(r, T) => Has(queue', T)
      /\ \A T : Lone(r, T) /\ (g \in T => ~Has(r, T)) => Lone(queue', T)
      /\ Before(r, ClassifierTimers, {"KeyChanged"})
            => Before(queue', ClassifierTimers, {"KeyChanged"})
      /\ \A p : Tells(r, p) => Tells(queue', p)
    <2>1. CASE queue' = r
        BY <1>4, <2>1
    <2>2. CASE queue' = Append(r, x)
        <3>1. queue' \in Seq(Envelopes)
            BY <1>4, <1>5, <2>2, Posted
        <3>2. \A T : Has(queue', T) <=> Has(r, T) \/ g \in T
            BY <1>4, <1>5, <2>2, Posted
        <3>3. \A T : Lone(r, T) /\ (g \in T => ~Has(r, T)) => Lone(queue', T)
            BY <1>4, <1>5, <2>2, Posted
        <3>4. Before(r, ClassifierTimers, {"KeyChanged"})
                 => Before(queue', ClassifierTimers, {"KeyChanged"})
            BY <1>4, <1>5, <1>7, <2>2, Posted
        <3>5. \A p : Tells(r, p) => Tells(queue', p)
            BY <1>4, <1>5, <1>7, <2>2, Posted
        <3> QED
            BY <3>1, <3>2, <3>3, <3>4, <3>5
    <2> QED
        BY <1>2, <2>1, <2>2
<1>9. /\ Has(queue', {"KeyChanged"}) <=> Has(r, {"KeyChanged"})
      /\ Has(queue', {"DebounceExpired"}) => Has(queue, {"DebounceExpired"})
    BY <1>4, <1>7, <1>8 DEF Timers
<1>10. TimersAtHome' /\ remaining' \in [Timers -> Int \cup {NotArmed}]
    <2>1. \A T : Has(queue', T) => Has(Tail(queue), T) \/ \E h \in Gestures : h \in T
        BY <1>8 DEF r
    <2>2. \A k \in Timers : Lone(queue, {k}) => Lone(queue', {k})
        BY <1>4, <1>7, <1>8
    <2>3. Before(queue', ClassifierTimers, {"KeyChanged"})
        BY <1>0, <1>4, <1>8 DEF TimersAtHome
    <2> QED
        BY <1>8, <2>1, <2>2, <2>3, ClassifierKeepsTimers
<1>11. Types'
    BY <1>0, <1>1, <1>2, <1>8, <1>10 DEF Types, ClassifierStates
<1>12. Rhythm'
    BY <1>0, <1>1 DEF Rhythm
<1>13. OneEdge'
    <2>1. Lone(queue', {"KeyChanged"})
        BY <1>0, <1>4, <1>7, <1>8 DEF OneEdge
    <2>2. Has(queue', {"KeyChanged"}) => Locked'
        BY <1>0, <1>1, <1>4, <1>9 DEF OneEdge, Locked
    <2>3. Tells(queue', level)
        BY <1>0, <1>4, <1>8 DEF OneEdge
    <2> QED
        BY <1>1, <2>1, <2>2, <2>3 DEF OneEdge
<1>14. EdgeFits'
    BY <1>2 DEF EdgeFits
<1>15. OneGesture'
    <2>1. Lone(r, Gestures)
        BY <1>0, <1>4 DEF OneGesture
    <2> QED
        BY <1>2, <1>6, <1>8, <2>1 DEF OneGesture
<1>16. Answered'
    <2>1. CASE e.type = "KeyChanged" /\ level = FALSE /\ classifier = "SecondPressed"
                  /\ g = "DoubleClick"
        BY <1>0, <1>1, <1>2, <2>1 DEF Answered, Unresolved, Answers
    <2>2. CASE classifier \in {"Pressed", "AwaitingSecondClick"} /\ e.type # "KeyChanged"
                  /\ g # "DoubleClick"
        <3>1. Has(queue', {"KeyChanged"}) <=> Has(queue, {"KeyChanged"})
            BY <1>4, <1>9, <2>2
        <3> QED
            BY <1>0, <1>1, <1>2, <2>2, <3>1 DEF Answered, Unresolved, Answers
    <2> QED
        BY <2>1, <2>2 DEF Recognises, e
<1> QED
    BY <1>10, <1>11, <1>12, <1>13, <1>14, <1>15, <1>16 DEF IInv

\* Every step keeps it.
LEMMA NextKeeps == IInv /\ [Next]_vars => IInv'
<1> SUFFICES ASSUME IInv, [Next]_vars PROVE IInv'
    OBVIOUS
<1>1. CASE ClassifierHandle
    BY <1>1, ClassifierCases, EdgeKeeps, GestureKeeps
<1> QED
    BY <1>1, QuietSteps, TickKeeps, ReaderKeeps, WakeKeeps, FireKeeps,
       IgnoreAndUiKeep, ExpireKeeps, CommitKeeps DEF Next, LoopStep

\* So the invariant holds in every state of every behaviour.
LEMMA Invariant == Spec => []IInv
BY IInvInit, NextKeeps, PTL DEF Spec


-----------------------------------------------------------------------------
(***************************************************************************)
(* The theorems.                                                           *)
(***************************************************************************)

\* Every variable keeps its type, for any number of transitions and whatever
\* the windows are; no gesture is sent for which no press is owed.
THEOREM PipelineTypes == Spec => []TypeOK
<1>1. ASSUME IInv PROVE TypeOK
    <2>1. Types /\ Answered
        BY <1>1 DEF IInv
    <2>2. owed \in Nat
        BY <2>1 DEF Answered, Unresolved
    <2> QED
        BY <2>1, <2>2, Zenon DEF Types, TypeOK
<1> QED
    BY <1>1, Invariant, PTL

\* A timer's payload arrives in the state that armed the timer, however late
\* the loop is and however the transitions fall.
THEOREM TimersMeetTheirs == Spec => []TimersMeetTheirState
<1>1. ASSUME IInv PROVE TimersMeetTheirState
    <2>1. TimersAtHome /\ queue \in Seq(Envelopes)
        BY <1>1 DEF IInv, Types
    <2>2. ASSUME NEW k \in Timers, Arrives(Message(k)) PROVE AtHome(k)
        <3>1. queue # <<>> /\ Head(queue).type = k
            BY <2>2, AreEnvelopes DEF Arrives, Env, Loose
        <3>2. Has(queue, {k})
            BY <2>1, <3>1, Taken
        <3> QED
            BY <2>1, <3>2 DEF TimersAtHome
    <2> QED
        BY <2>2 DEF TimersMeetTheirState, AtHome, Timers
<1> QED
    BY <1>1, Invariant, PTL

\* The edge at the front of the queue.
LEMMA EdgeArrives ==
    ASSUME IInv, NEW p \in BOOLEAN, Arrives(KeyChanged(p))
    PROVE  Has(queue, {"KeyChanged"}) /\ level = p
<1>1. OneEdge /\ queue \in Seq(Envelopes)
    BY DEF IInv, Types
<1>2. queue # <<>> /\ Head(queue).type = "KeyChanged" /\ Head(queue).pressed = p
    BY AreEnvelopes DEF Arrives, Env
<1>3. Tells(queue, level)
    BY <1>1 DEF OneEdge
<1>4. Has(queue, {"KeyChanged"}) /\ Head(queue).pressed = level
    BY <1>1, <1>2, <1>3, Taken
<1> QED
    BY <1>2, <1>4

\* No release without a press, no second press without a release.
THEOREM EdgesAreExpected == Spec => []NoImpossibleEdge
<1>1. ASSUME IInv PROVE NoImpossibleEdge
    <2>1. EdgeFits
        BY <1>1 DEF IInv
    <2>2. Arrives(KeyChanged(FALSE)) => Has(queue, {"KeyChanged"}) /\ level = FALSE
        BY <1>1, EdgeArrives
    <2>3. Arrives(KeyChanged(TRUE)) => Has(queue, {"KeyChanged"}) /\ level = TRUE
        BY <1>1, EdgeArrives
    <2> QED
        BY <2>1, <2>2, <2>3 DEF EdgeFits, NoImpossibleEdge
<1> QED
    BY <1>1, Invariant, PTL

\* One press is announced in the queue at most.
LEMMA AnnouncedIsOne ==
    ASSUME IInv
    PROVE  Announced = IF Has(queue, {"KeyChanged"}) /\ level = TRUE THEN 1 ELSE 0
<1> DEFINE I == {i \in DOMAIN queue : queue[i] = KeyChanged(TRUE)}
<1>1. OneEdge /\ queue \in Seq(Envelopes) /\ level \in BOOLEAN
    BY DEF IInv, Types
<1>2. Lone(queue, {"KeyChanged"}) /\ Tells(queue, level)
    BY <1>1 DEF OneEdge
<1>3. \A i \in DOMAIN queue : queue[i] \in Envelopes
    BY <1>1
<1>4. \A i \in DOMAIN queue : queue[i] = KeyChanged(TRUE) =>
         queue[i].type = "KeyChanged" /\ level = TRUE
    BY <1>2, AreEnvelopes DEF Tells
<1>5. CASE Has(queue, {"KeyChanged"}) /\ level = TRUE
    <2>1. PICK i \in DOMAIN queue : queue[i].type = "KeyChanged"
        BY <1>5 DEF Has
    <2>2. queue[i].pressed = TRUE
        BY <1>2, <1>5, <2>1 DEF Tells
    <2>3. queue[i] = KeyChanged(TRUE)
        BY <1>3, <2>1, <2>2, EnvelopeShape
    <2>4. I = {i}
        BY <1>2, <1>4, <2>1, <2>3 DEF Lone
    <2> QED
        BY <1>5, <2>4, FS_Singleton DEF Announced
<1>6. CASE ~(Has(queue, {"KeyChanged"}) /\ level = TRUE)
    <2>1. I = {}
        BY <1>4, <1>6 DEF Has
    <2> QED
        BY <1>6, <2>1, FS_EmptySet DEF Announced
<1> QED
    BY <1>5, <1>6

\* Every debounced press is answered exactly once: handle() and the state
\* functions of the classifier agree, for any number of presses.
THEOREM PressesAreAnswered == Spec => []EveryPressIsAnswered
<1>1. ASSUME IInv PROVE EveryPressIsAnswered
    <2>1. Unresolved \in Nat
        BY DEF Unresolved
    <2> DEFINE one == IF Has(queue, {"KeyChanged"}) /\ level = TRUE THEN 1 ELSE 0
    <2>2. one \in Nat
        OBVIOUS
    <2>3. owed = Unresolved + one
        BY <1>1 DEF IInv, Answered
    <2>4. Announced = one
        BY <1>1, AnnouncedIsOne
    <2> HIDE DEF one
    <2>5. owed = Announced + Unresolved
        BY <2>1, <2>2, <2>3, <2>4
    <2> QED
        BY <2>5 DEF EveryPressIsAnswered
<1> QED
    BY <1>1, Invariant, PTL

-----------------------------------------------------------------------------
(***************************************************************************)
(* The refinement.                                                         *)
(***************************************************************************)

\* The interface's table is what the user is promised.
LEMMA UiRows ==
    \A m \in UiModes, g \in Gestures : StepTo(UiTable, m, Message(g)) = Ui!React(m, g)
<1> DEFINE C == Message("Click")
           D == Message("DoubleClick")
           L == Message("LongPress")
<1>2. C # D /\ C # L /\ D # L
    BY DEF Message
<1>3. UiTable = {<<"Idle", C, "Active">>, <<"Idle", L, "Configuring">>,
                 <<"Active", C, "Idle">>, <<"Active", L, "Configuring">>,
                 <<"Configuring", L, "Idle">>}
    BY DEF UiTable
<1>0. \A g \in Gestures : \/ g = "Click" /\ Message(g) = C
                          \/ g = "DoubleClick" /\ Message(g) = D
                          \/ g = "LongPress" /\ Message(g) = L
    BY DEF Gestures
<1> HIDE DEF C, D, L
<1>4. StepTo(UiTable, "Idle", C) = "Active"
    <2>1. <<"Idle", C, "Active">> \in UiTable
        BY <1>3
    <2>2. \A row \in UiTable :
             row[1] = "Idle" /\ row[2] = C => row = <<"Idle", C, "Active">>
        BY <1>2, <1>3
    <2> QED
        BY <2>1, <2>2, RowFound
<1>5. StepTo(UiTable, "Idle", L) = "Configuring"
    <2>1. <<"Idle", L, "Configuring">> \in UiTable
        BY <1>3
    <2>2. \A row \in UiTable :
             row[1] = "Idle" /\ row[2] = L => row = <<"Idle", L, "Configuring">>
        BY <1>2, <1>3
    <2> QED
        BY <2>1, <2>2, RowFound
<1>6. StepTo(UiTable, "Active", C) = "Idle"
    <2>1. <<"Active", C, "Idle">> \in UiTable
        BY <1>3
    <2>2. \A row \in UiTable :
             row[1] = "Active" /\ row[2] = C => row = <<"Active", C, "Idle">>
        BY <1>2, <1>3
    <2> QED
        BY <2>1, <2>2, RowFound
<1>7. StepTo(UiTable, "Active", L) = "Configuring"
    <2>1. <<"Active", L, "Configuring">> \in UiTable
        BY <1>3
    <2>2. \A row \in UiTable :
             row[1] = "Active" /\ row[2] = L => row = <<"Active", L, "Configuring">>
        BY <1>2, <1>3
    <2> QED
        BY <2>1, <2>2, RowFound
<1>8. StepTo(UiTable, "Configuring", L) = "Idle"
    <2>1. <<"Configuring", L, "Idle">> \in UiTable
        BY <1>3
    <2>2. \A row \in UiTable :
             row[1] = "Configuring" /\ row[2] = L => row = <<"Configuring", L, "Idle">>
        BY <1>2, <1>3
    <2> QED
        BY <2>1, <2>2, RowFound
<1>9. /\ StepTo(UiTable, "Configuring", C) = "Configuring"
      /\ \A m \in UiModes : StepTo(UiTable, m, D) = m
    BY <1>2, <1>3, RowMissing
<1>20. ASSUME NEW m \in UiModes, NEW g \in Gestures
       PROVE  StepTo(UiTable, m, Message(g)) = Ui!React(m, g)
    <2>1. CASE g = "Click" /\ Message(g) = C
        BY <1>3, <1>4, <1>5, <1>6, <1>7, <1>8, <1>9, <2>1 DEF Ui!React, UiModes
    <2>2. CASE g = "DoubleClick" /\ Message(g) = D
        BY <1>4, <1>5, <1>6, <1>7, <1>8, <1>9, <2>2 DEF Ui!React, UiModes
    <2>3. CASE g = "LongPress" /\ Message(g) = L
        BY <1>4, <1>5, <1>6, <1>7, <1>8, <1>9, <2>3 DEF Ui!React, UiModes
    <2> QED
        BY <1>0, <2>1, <2>2, <2>3
<1> QED
    BY <1>20

\* The mode the interface will have, of a queue and a mode.
GesturesIn(q) == {g \in Gestures : \E i \in DOMAIN q : q[i].type = g}
ModeWith(q, m) ==
    IF GesturesIn(q) = {} THEN m
    ELSE StepTo(UiTable, m, Message(CHOOSE g \in GesturesIn(q) : TRUE))


\* It is the mode of the refinement, before and after a step.
LEMMA ModeIs == UiAfterQueue = ModeWith(queue, ui) /\ UiAfterQueue' = ModeWith(queue', ui')
BY DEF UiAfterQueue, QueuedGestures, ModeWith, GesturesIn

\* No gesture, or a single one.
LEMMA ModeOfOne ==
    ASSUME NEW q, NEW m
    PROVE  /\ ~Has(q, Gestures) => ModeWith(q, m) = m
           /\ \A g \in Gestures : Lone(q, Gestures) /\ Has(q, {g})
                 => ModeWith(q, m) = StepTo(UiTable, m, Message(g))
<1>1. ASSUME ~Has(q, Gestures) PROVE ModeWith(q, m) = m
    <2>1. GesturesIn(q) = {}
        BY <1>1 DEF GesturesIn, Has
    <2> QED
        BY <2>1 DEF ModeWith
<1>2. ASSUME NEW g \in Gestures, Lone(q, Gestures), Has(q, {g})
      PROVE  ModeWith(q, m) = StepTo(UiTable, m, Message(g))
    <2>1. GesturesIn(q) = {g}
        BY <1>2 DEF GesturesIn, Has, Lone
    <2>2. (CHOOSE h \in {g} : TRUE) = g
        OBVIOUS
    <2> QED
        BY <2>1, <2>2 DEF ModeWith
<1> QED
    BY <1>1, <1>2


\* A step that brings, takes and reacts to no gesture is none for the user, but
\* for a press or the stop.
LEMMA NoGestureSeen ==
    ASSUME IInv, \A g \in Gestures : Has(queue', {g}) <=> Has(queue, {g}), ui' = ui
    PROVE  UiAfterQueue' = UiAfterQueue
<1>1. GesturesIn(queue') = GesturesIn(queue)
    BY DEF GesturesIn, Has
<1> QED
    BY <1>1, ModeIs DEF ModeWith

\* What is posted and taken, when it is no gesture.
LEMMA NoGestureMoved ==
    ASSUME Types, NEW x \in Envelopes, x.type \notin Gestures,
           \/ queue' = queue
           \/ queue' = Append(queue, x)
           \/ /\ queue # <<>> /\ Head(queue).type \notin Gestures
              /\ queue' = Tail(queue) \/ queue' = Append(Tail(queue), x)
    PROVE  \A g \in Gestures : Has(queue', {g}) <=> Has(queue, {g})
<1>0. queue \in Seq(Envelopes)
    BY DEF Types
<1>1. CASE queue' = queue
    BY <1>1
<1>2. CASE queue' = Append(queue, x)
    BY <1>0, <1>2, Posted
<1>3. ASSUME queue # <<>>, Head(queue).type \notin Gestures
      PROVE  /\ Tail(queue) \in Seq(Envelopes)
             /\ \A g \in Gestures : Has(Tail(queue), {g}) <=> Has(queue, {g})
    BY <1>0, <1>3, Taken
<1>4. CASE queue # <<>> /\ Head(queue).type \notin Gestures /\ queue' = Tail(queue)
    BY <1>3, <1>4
<1>5. CASE queue # <<>> /\ Head(queue).type \notin Gestures
           /\ queue' = Append(Tail(queue), x)
    BY <1>3, <1>5, Posted
<1> QED
    BY <1>1, <1>2, <1>4, <1>5

\* A step of the loop, of time or of the reader is nothing to the user.
LEMMA LoopIsHidden ==
    ASSUME IInv,
           \/ WaitReturn \/ Wake \/ FirePost \/ FireEnd \/ DrainEnd \/ CheckStop
           \/ Tick \/ UNCHANGED vars \/ (\E p \in BOOLEAN : ReaderPost(p))
    PROVE  UNCHANGED Ui!uvars
<1>0. Types
    BY DEF IInv
<1>1. UNCHANGED <<open, owed, said, ui>>
    BY DEF WaitReturn, Wake, FirePost, FireEnd, DrainEnd, CheckStop, Tick, vars,
           ReaderPost, loop, flows
<1>2. \A g \in Gestures : Has(queue', {g}) <=> Has(queue, {g})
    <2>1. CASE WaitReturn \/ Wake \/ FireEnd \/ DrainEnd \/ CheckStop \/ Tick
               \/ UNCHANGED vars
        BY <2>1 DEF WaitReturn, Wake, FireEnd, DrainEnd, CheckStop, Tick, vars
    <2>2. CASE FirePost
        <3>1. Message(Head(batch)) \in Envelopes /\ Message(Head(batch)).type \notin Gestures
            <4>1. Head(batch) \in Timers
                BY <1>0, <2>2 DEF FirePost, Types
            <4> QED
                BY <4>1, AreEnvelopes DEF Loose, Timers, Gestures
        <3>2. queue' = Append(queue, Message(Head(batch))) \/ queue' = queue
            BY <2>2 DEF FirePost
        <3> QED
            BY <1>0, <3>1, <3>2, NoGestureMoved
    <2>3. ASSUME NEW p \in BOOLEAN, ReaderPost(p)
          PROVE  \A g \in Gestures : Has(queue', {g}) <=> Has(queue, {g})
        <3>1. RawTransition(p) \in Envelopes /\ RawTransition(p).type \notin Gestures
            BY AreEnvelopes DEF Gestures
        <3>2. queue' = Append(queue, RawTransition(p)) \/ queue' = queue
            BY <2>3 DEF ReaderPost
        <3> QED
            BY <1>0, <3>1, <3>2, NoGestureMoved
    <2> QED
        BY <2>1, <2>2, <2>3
<1> QED
    BY <1>1, <1>2, NoGestureSeen DEF Ui!uvars

\* The debouncer's steps, and the classifier's that end no gesture: nothing, or
\* a press.
LEMMA EdgesArePresses ==
    ASSUME IInv,
           \/ DebouncerCommit \/ DebouncerIgnore \/ DebouncerExpire
           \/ ClassifierHandle /\ EdgeMoves
    PROVE  Ui!Press \/ UNCHANGED Ui!uvars
<1>0. Types
    BY DEF IInv
<1>1. CASE DebouncerIgnore
    <2>1. Dispatch({"RawTransition"}, <<>>) /\ UNCHANGED <<owed, said, ui>>
        BY <1>1 DEF DebouncerIgnore, flows
    <2>2. /\ queue # <<>> /\ Head(queue).type = "RawTransition"
          /\ queue' = Tail(queue) /\ open' = open
        BY <1>0, <2>1, DispatchEffect DEF Env
    <2>3. \A g \in Gestures : Has(queue', {g}) <=> Has(queue, {g})
        BY <1>0, <2>2, AreEnvelopes, NoGestureMoved DEF Gestures
    <2> QED
        BY <2>1, <2>2, <2>3, NoGestureSeen DEF Ui!uvars
<1>2. CASE DebouncerExpire
    <2>1. Dispatch({"DebounceExpired"}, <<>>) /\ UNCHANGED <<owed, said, ui>>
        BY <1>2 DEF DebouncerExpire
    <2>2. /\ queue # <<>> /\ Head(queue).type = "DebounceExpired"
          /\ queue' = Tail(queue) /\ open' = open
        BY <1>0, <2>1, DispatchEffect DEF Env
    <2>3. \A g \in Gestures : Has(queue', {g}) <=> Has(queue, {g})
        BY <1>0, <2>2, AreEnvelopes, NoGestureMoved DEF Gestures
    <2> QED
        BY <2>1, <2>2, <2>3, NoGestureSeen DEF Ui!uvars
<1>3. CASE ClassifierHandle /\ EdgeMoves
    <2>1. queue # <<>> /\ UNCHANGED <<open, ui>>
        BY <1>0, <1>3, HandleEffect
    <2>2. Head(queue).type = "KeyChanged" /\ queue' = Tail(queue) /\ UNCHANGED <<owed, said>>
        BY <1>3 DEF EdgeMoves
    <2>3. \A g \in Gestures : Has(queue', {g}) <=> Has(queue, {g})
        BY <1>0, <2>1, <2>2, AreEnvelopes, NoGestureMoved DEF Gestures
    <2> QED
        BY <2>1, <2>2, <2>3, NoGestureSeen DEF Ui!uvars
<1>4. CASE DebouncerCommit
    <2> DEFINE x == KeyChanged(Env.pressed)
    <2>1. /\ Dispatch({"RawTransition"}, <<x>>) /\ UNCHANGED <<said, ui>>
          /\ owed' = IF open /\ Env.pressed THEN owed + 1 ELSE owed
        BY <1>4 DEF DebouncerCommit
    <2>2. queue # <<>> /\ Head(queue).type = "RawTransition" /\ open' = open
        BY <1>0, <2>1, DispatchEffect DEF Env
    <2>3. x \in Envelopes /\ x.type \notin Gestures
        <3>1. Env.pressed \in BOOLEAN
            BY <1>0, <2>2, Taken, EnvelopeShape DEF Env, Types
        <3> QED
            BY <3>1, AreEnvelopes DEF Gestures
    <2>4. queue' = IF open THEN Append(Tail(queue), x) ELSE Tail(queue)
        BY <1>0, <2>1, <2>3, DispatchEffect
    <2> HIDE DEF x
    <2>5. Head(queue).type \notin Gestures
        BY <2>2 DEF Gestures
    <2>6. \A g \in Gestures : Has(queue', {g}) <=> Has(queue, {g})
        BY <1>0, <2>2, <2>3, <2>4, <2>5, NoGestureMoved
    <2>7. UiAfterQueue' = UiAfterQueue
        BY <2>1, <2>6, NoGestureSeen
    <2> QED
        BY <2>1, <2>2, <2>7 DEF Ui!Press, Ui!uvars
<1> QED
    BY <1>1, <1>2, <1>3, <1>4

\* A gesture is recognised: the user sees it answered.
LEMMA GesturesAnswer ==
    ASSUME IInv, IInv', ClassifierHandle, NEW g \in Gestures, Recognises(g)
    PROVE  Ui!Answer(g)
<1>0. Types /\ ui \in UiModes /\ open \in BOOLEAN
    BY DEF IInv, Types
<1>1. queue # <<>> /\ UNCHANGED <<open, ui>>
    BY <1>0, HandleEffect
<1>2. /\ queue' = IF open THEN Append(Tail(queue), Message(g)) ELSE Tail(queue)
      /\ said' = g /\ owed' = owed - Answers(g)
    BY DEF Recognises
<1>3. queue \in Seq(Envelopes) /\ Message(g) \in Envelopes /\ Message(g).type = g
    BY <1>0, AreEnvelopes DEF Types, Loose
<1>4. Tail(queue) \in Seq(Envelopes) /\ ~Has(Tail(queue), Gestures) /\ ~Has(queue, Gestures)
    BY <1>1, <1>3, NoOtherGesture, Taken
<1>5. UiAfterQueue = ui
    BY <1>4, ModeIs, ModeOfOne
<1>6. UiAfterQueue' = IF open THEN Ui!React(ui, g) ELSE ui
    <2>1. CASE open = TRUE
        <3>1. Has(queue', {g})
            BY <1>2, <1>3, <1>4, <2>1, Posted
        <3>2. Lone(queue', Gestures)
            BY DEF IInv, OneGesture
        <3>3. UiAfterQueue' = StepTo(UiTable, ui, Message(g))
            BY <1>1, <3>1, <3>2, ModeIs, ModeOfOne
        <3> QED
            BY <1>0, <2>1, <3>3, UiRows
    <2>2. CASE open = FALSE
        <3>1. queue' = Tail(queue)
            BY <1>2, <2>2
        <3> QED
            BY <1>1, <1>4, <2>2, <3>1, ModeIs, ModeOfOne
    <2> QED
        BY <1>0, <2>1, <2>2
<1>7. owed \in Nat /\ owed' \in Nat
    BY DEF IInv, Answered, Unresolved
<1>8. Ui!Answers(g) = Answers(g) /\ Answers(g) \in Nat
    BY DEF Ui!Answers, Answers
<1>9. owed >= Ui!Answers(g) /\ owed' = owed - Ui!Answers(g)
    BY <1>2, <1>7, <1>8
<1> QED
    BY <1>0, <1>1, <1>2, <1>5, <1>6, <1>9 DEF Ui!Answer

\* The interface handles a gesture that the user has seen already.
LEMMA UiIsHidden == ASSUME IInv, UiHandle PROVE UNCHANGED Ui!uvars
<1>0. Types /\ OneGesture
    BY DEF IInv
<1>1. /\ Dispatch({"Click", "DoubleClick", "LongPress"}, <<>>)
      /\ ui' = StepTo(UiTable, ui, Env) /\ UNCHANGED <<owed, said>>
    BY DEF UiHandle
<1>2. /\ queue # <<>> /\ Env.type \in Gestures
      /\ open' = open /\ queue' = Tail(queue)
    BY <1>0, <1>1, DispatchEffect DEF Gestures
<1>3. queue \in Seq(Envelopes) /\ Lone(queue, Gestures)
    BY <1>0 DEF Types, OneGesture
<1>4. /\ Env \in Envelopes /\ Has(queue, {Env.type}) /\ ~Has(queue', Gestures)
    BY <1>2, <1>3, Taken DEF Env
<1>5. Env = Message(Env.type)
    BY <1>2, <1>4, EnvelopeShape DEF Loose
<1>6. UiAfterQueue = StepTo(UiTable, ui, Env)
    BY <1>2, <1>3, <1>4, <1>5, ModeIs, ModeOfOne
<1>7. UiAfterQueue' = ui'
    BY <1>4, ModeIs, ModeOfOne
<1> QED
    BY <1>1, <1>2, <1>6, <1>7 DEF Ui!uvars

\* The way through four modules, two cache keys, a queue and three timers
\* loses, repeats and reorders no gesture, however late the loop is, for any
\* number of transitions.
THEOREM PipelineImplementsUi == Spec => ImplementsUi
<1>1. Init => Ui!UInit
    <2> SUFFICES ASSUME Init PROVE Ui!UInit
        OBVIOUS
    <2>1. queue = <<>> /\ ui = "Idle" /\ open = TRUE /\ owed = 0 /\ said = "nothing"
        BY DEF Init
    <2>2. UiAfterQueue = ui
        BY <2>1, EmptyQueue, ModeIs, ModeOfOne
    <2> QED
        BY <2>1, <2>2 DEF Ui!UInit
<1>2. IInv /\ IInv' /\ [Next]_vars => [Ui!UNext]_(Ui!uvars)
    <2> SUFFICES ASSUME IInv, IInv', [Next]_vars PROVE [Ui!UNext]_(Ui!uvars)
        OBVIOUS
    <2>1. CASE ClassifierHandle
        <3>1. CASE EdgeMoves
            BY <2>1, <3>1, EdgesArePresses DEF Ui!UNext
        <3>2. ASSUME NEW g \in Gestures, Recognises(g) PROVE Ui!UNext
            <4>1. Ui!Answer(g) /\ g \in Ui!Gestures
                BY <2>1, <3>2, GesturesAnswer DEF Gestures, Ui!Gestures
            <4> QED
                BY <4>1 DEF Ui!UNext
        <3> QED
            BY <2>1, <3>1, <3>2, ClassifierCases
    <2>2. CASE UiHandle
        BY <2>2, UiIsHidden
    <2>3. CASE DebouncerCommit \/ DebouncerIgnore \/ DebouncerExpire
        BY <2>3, EdgesArePresses DEF Ui!UNext
    <2>4. CASE ReaderStop
        <3>1. UNCHANGED <<queue, ui, owed, said>> /\ open' = FALSE
            BY <2>4 DEF ReaderStop, flows
        <3>2. UiAfterQueue' = UiAfterQueue
            BY <3>1, NoGestureSeen
        <3> QED
            BY <3>1, <3>2 DEF Ui!UNext, Ui!SwitchOff
    <2>5. CASE \/ WaitReturn \/ Wake \/ FirePost \/ FireEnd \/ DrainEnd \/ CheckStop
               \/ Tick \/ UNCHANGED vars \/ (\E p \in BOOLEAN : ReaderPost(p))
        BY <2>5, LoopIsHidden
    <2> QED
        BY <2>1, <2>2, <2>3, <2>4, <2>5 DEF Next, LoopStep
<1> QED
    BY <1>1, <1>2, Invariant, PTL DEF Spec, ImplementsUi, Ui!USpec

=============================================================================
