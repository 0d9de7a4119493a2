--------------------------- MODULE TimedLoopProofs ---------------------------
(***************************************************************************)
(* Theorems about TimedLoop, for all delays, widths and bounds: the order  *)
(* of the two mutexes, that no timer is early, how long the loop sleeps,   *)
(* and that its timers implement Alarms.                                   *)
(***************************************************************************)
EXTENDS TimedLoop, TLAPS, FiniteSetTheorems, SequenceTheorems,
        WellFoundedInduction

Places == {"handler", "drain", "check", "last", "lastHandler", "wait", "budget",
           "remaining", "deadline", "awake", "asleep", "fire", "collected",
           "post", "returned", "idle"}

\* The types the proofs need; a SteadyClock is steady_clock.
Types ==
    /\ manual \in BOOLEAN /\ (~manual => now = steady)
    /\ now \in 0..LastTime /\ steady \in 0..LastTime
    /\ asked \in 0..LastTime /\ measured \in 0..LastTime
    /\ next \in Durations \cup {Never}
    /\ budget \in 0..Never
    /\ deadline \in Durations \cup {Never}
    /\ armed \in Nat
    /\ pc \in [Threads -> Places]
    /\ timer \in [Timers -> Fates]
    /\ due \in [Timers -> Durations]
    /\ armedAt \in [Timers -> 0..LastTime]
    /\ delayOf \in [Timers -> 0..LastTime]
    /\ batch \in [Threads -> Seq(Timers)]

-----------------------------------------------------------------------------
(***************************************************************************)
(* The operators.                                                          *)
(***************************************************************************)

\* Two times add up to a duration that is their sum, or negative.
LEMMA SumsWrap ==
    ASSUME NEW a \in 0..LastTime, NEW b \in 0..LastTime
    PROVE  /\ Wrap(a + b) \in Durations
           /\ a + b <= LastTime => Wrap(a + b) = a + b
           /\ a + b > LastTime => Wrap(a + b) = a + b - 2 * (LastTime + 1)
BY TimedBoundsAreNat DEF Wrap, Durations

\* The time that is left until a due time is a duration, and so is its clamp.
LEMMA DifferencesWrap ==
    ASSUME NEW n \in Durations, NEW a \in 0..LastTime
    PROVE  /\ Wrap(n - a) \in Durations
           /\ n - a >= -(LastTime + 1) => Wrap(n - a) = n - a
           /\ n - a < -(LastTime + 1) => Wrap(n - a) = n - a + 2 * (LastTime + 1)
           /\ NotNegative(Wrap(n - a)) \in 0..LastTime
BY TimedBoundsAreNat DEF Wrap, Durations, NotNegative

\* What fire_due() collects is a sequence of live timers that are due.
LEMMA OrdersAreSequences ==
    ASSUME NEW s \in DueOrders
    PROVE  /\ s \in Seq(Timers)
           /\ \A k \in DOMAIN s : s[k] \in Live /\ IsDue(s[k])
<1> DEFINE D == {i \in Live : IsDue(i)}
<1>1. IsFiniteSet(Timers)
    BY FS_Interval, TimedBoundsAreNat DEF Timers
<1>2. D \subseteq Timers
    BY DEF Live
<1>3. Cardinality(D) \in Nat
    BY <1>1, <1>2, FS_Subset, FS_CardinalityType
<1>4. s \in [1..Cardinality(D) -> D]
    BY DEF DueOrders
<1>5. s \in Seq(Timers)
    <2> HIDE DEF D
    <2>1. s \in [1..Cardinality(D) -> Timers]
        BY <1>2, <1>4
    <2> QED
        BY <1>3, <2>1, SeqDef
<1> QED
    BY <1>4, <1>5

\* A set of due times has an earliest one, and that is what the loop waits for.
LEMMA EarliestIsLeast ==
    ASSUME NEW times, times \subseteq Durations, times # {}
    PROVE  Earliest(times) \in times /\ \A d \in times : Earliest(times) <= d
<1> DEFINE up == LastTime + 1
           shifted == {d + up : d \in times}
<1>0. up \in Nat /\ \A d \in times : d \in Int /\ d + up \in Nat
    BY TimedBoundsAreNat DEF Durations
<1>1. shifted \subseteq Nat /\ shifted # {}
    BY <1>0
<1>2. PICK x \in shifted : \A y \in shifted : <<y, x>> \notin OpToRel(<, Nat)
    BY <1>1, WFMin, NatLessThanWellFounded, Zenon
<1>3. \A y \in shifted : ~(y < x)
    BY <1>1, <1>2, Zenon DEF OpToRel
<1>4. PICK d \in times : x = d + up
    BY <1>2
<1>5. ASSUME NEW e \in times PROVE d <= e
    <2>1. ~(e + up < d + up)
        BY <1>3, <1>4, <1>5
    <2> HIDE DEF up
    <2> QED
        BY <1>0, <1>4, <1>5, <2>1
<1> QED
    BY <1>4, <1>5, Zenon DEF Earliest

-----------------------------------------------------------------------------
\* Every action keeps the types.
LEMMA TypesHold == Types /\ [Next]_vars => Types'
<1> SUFFICES ASSUME Types, [Next]_vars PROVE Types'
    OBVIOUS
<1> USE DEF Types
<1>0. Woken \in [Threads -> Places]
    BY DEF Woken, Threads, Places
<1>1. ASSUME NEW d \in Delays, Arm(d) PROVE Types'
    <2>1. armed + 1 \in Timers /\ armed + 1 \in Nat
        BY <1>1, TimedBoundsAreNat DEF Arm, Armed, Timers
    <2>2. DueAt(d) \in Durations /\ d \in 0..LastTime
        BY SumsWrap, TimedBoundsAreNat DEF DueAt
    <2>3. "live" \in Fates
        BY DEF Fates
    <2>4. /\ timer' \in [Timers -> Fates] /\ due' \in [Timers -> Durations]
          /\ armedAt' \in [Timers -> 0..LastTime]
          /\ delayOf' \in [Timers -> 0..LastTime]
        BY <1>1, <2>1, <2>2, <2>3 DEF Arm, Armed
    <2> QED
        BY <1>1, <2>1, <2>4 DEF Arm, Armed, wait
<1>2. ASSUME NEW i \in Timers, Cancel(i) PROVE Types'
    BY <1>2 DEF Cancel, clocks, wait, Fates
<1>3. CASE ForeignPost
    BY <1>0, <1>3 DEF ForeignPost, mutexes, wait
<1>4. CASE Stop
    BY <1>0, <1>4 DEF Stop, clocks, mutexes, wait
<1>5. CASE Tick
    <2>1. steady < LastTime
        BY <1>5, TimedBoundsAreNat DEF Tick, MayTick, Durations, Never
    <2>2. /\ steady' \in 0..LastTime /\ now' \in 0..LastTime
          /\ ~manual => now' = steady'
        BY <1>5, <2>1, TimedBoundsAreNat DEF Tick
    <2> QED
        BY <1>5, <2>2 DEF Tick, mutexes, wait
<1>6. ASSUME NEW delta \in 0..ClockBound, Advance(delta) PROVE Types'
    <2>1. now' \in 0..LastTime
        BY <1>6, TimedBoundsAreNat DEF Advance
    <2>2. pc' \in [Threads -> Places]
        BY <1>6 DEF Advance, Goes, Places
    <2> QED
        BY <1>6, <2>1, <2>2 DEF Advance, mutexes, wait
<1>7. ASSUME NEW t \in Threads, FireStep(t) PROVE Types'
    <2>1. CASE FireCollect(t)
        <3>1. PICK s \in DueOrders : batch' = [batch EXCEPT ![t] = s]
            BY <2>1 DEF FireCollect
        <3>2. batch' \in [Threads -> Seq(Timers)]
            BY <3>1, OrdersAreSequences
        <3>3. timer' \in [Timers -> Fates]
            BY <2>1 DEF FireCollect, Fates
        <3>4. pc' \in [Threads -> Places]
            BY <2>1 DEF FireCollect, Goes, Places
        <3> QED
            BY <2>1, <3>2, <3>3, <3>4 DEF FireCollect, clocks, wait
    <2>2. CASE FireUnlock(t)
        BY <2>2 DEF FireUnlock, Goes, clocks, wait, Places
    <2>3. CASE FirePost(t)
        <3>1. Head(batch[t]) \in Timers /\ Tail(batch[t]) \in Seq(Timers)
            BY <2>3, HeadTailProperties DEF FirePost
        <3>2. {"posted", "dropped"} \subseteq Fates
            BY DEF Fates
        <3> QED
            BY <1>0, <2>3, <3>1, <3>2 DEF FirePost, clocks, wait
    <2>4. CASE FireEnd(t)
        BY <2>4 DEF FireEnd, Goes, clocks, wait, Places
    <2> QED
        BY <1>7, <2>1, <2>2, <2>3, <2>4 DEF FireStep
<1>8. CASE HandlerEnd \/ WaitLock \/ Sleep \/ TimeOut
    BY <1>8 DEF HandlerEnd, WaitLock, Sleep, TimeOut, Goes, clocks, wait, Places
<1>9. CASE NextDue
    <2>1. NextDueAt \subseteq Durations
        BY DEF NextDueAt, Live
    <2>2. Earliest(NextDueAt) \in Durations \cup {Never}
        BY <2>1, EarliestIsLeast DEF Earliest
    <2>3. pc' \in [Threads -> Places]
        BY <1>9 DEF NextDue, Goes, Places
    <2> QED
        BY <1>9, <2>2, <2>3 DEF NextDue, clocks
<1>10. CASE Budget
    <2>1. UntilNext \in 0..Never
        <3>1. CASE next = Never
            BY <3>1, TimedBoundsAreNat DEF UntilNext, Never
        <3>2. CASE next # Never
            <4>1. NotNegative(Wrap(next - now)) \in 0..LastTime
                BY <3>2, DifferencesWrap
            <4> QED
                BY <3>2, <4>1, TimedBoundsAreNat DEF UntilNext, Never
        <3> QED
            BY <3>1, <3>2
    <2>2. pc' \in [Threads -> Places]
        BY <1>10 DEF Budget, Goes, Places
    <2> QED
        BY <1>10, <2>1, <2>2 DEF Budget, clocks
<1>11. CASE Deadline
    <2>1. budget # Never => budget \in 0..LastTime
        BY TimedBoundsAreNat DEF Never
    <2>2. deadline' \in Durations \cup {Never}
        BY <1>11, <2>1, SumsWrap DEF Deadline
    <2>3. pc' \in [Threads -> Places]
        BY <1>11 DEF Deadline, Goes, Places
    <2> QED
        BY <1>11, <2>2, <2>3 DEF Deadline, clocks
<1>12. CASE Relock \/ Pop \/ DrainEnd \/ CheckStop
    BY <1>12 DEF Relock, Pop, DrainEnd, CheckStop, Goes, clocks, wait, Places
<1>13. CASE WaitEnd
    <2>1. 0 \in 0..LastTime /\ Never \in 0..Never
        BY TimedBoundsAreNat DEF Never
    <2>2. pc' \in [Threads -> Places]
        BY <1>13 DEF WaitEnd, Goes, Places
    <2> QED
        BY <1>13, <2>1, <2>2 DEF WaitEnd, clocks
<1>14. CASE UNCHANGED vars
    BY <1>14 DEF vars
<1> QED
    BY <1>1, <1>2, <1>3, <1>4, <1>5, <1>6, <1>7, <1>8, <1>9, <1>10, <1>11,
       <1>12, <1>13, <1>14 DEF Next, LoopStep, Threads

-----------------------------------------------------------------------------
\* Whoever takes the timers' mutex is in fire_due()'s section and leaves it
\* with the mutex.
LEMMA OrderHolds == Types /\ MutexesAreOrdered /\ [Next]_vars => MutexesAreOrdered'
<1> SUFFICES ASSUME Types, MutexesAreOrdered, [Next]_vars
             PROVE  MutexesAreOrdered'
    OBVIOUS
<1> USE PartsDiffer DEF Types, MutexesAreOrdered, Threads
<1>1. ASSUME NEW d \in Delays, Arm(d) PROVE MutexesAreOrdered'
    BY <1>1 DEF Arm, Armed, mutexes
<1>2. ASSUME NEW i \in Timers, Cancel(i) PROVE MutexesAreOrdered'
    BY <1>2 DEF Cancel, mutexes
<1>3. CASE ForeignPost
    BY <1>3 DEF ForeignPost, Woken, mutexes
<1>4. CASE Stop
    BY <1>4 DEF Stop, Woken, mutexes
<1>5. CASE Tick
    BY <1>5 DEF Tick, mutexes
<1>6. ASSUME NEW delta \in 0..ClockBound, Advance(delta) PROVE MutexesAreOrdered'
    BY <1>6 DEF Advance, Goes, mutexes
<1>7. ASSUME NEW t \in Threads, FireStep(t) PROVE MutexesAreOrdered'
    <2>1. CASE FireCollect(t)
        BY <2>1 DEF FireCollect, Goes
    <2>2. CASE FireUnlock(t)
        BY <2>2 DEF FireUnlock, Goes
    <2>3. CASE FirePost(t)
        BY <2>3 DEF FirePost, Woken, mutexes
    <2>4. CASE FireEnd(t)
        BY <2>4 DEF FireEnd, Goes, mutexes
    <2> QED
        BY <1>7, <2>1, <2>2, <2>3, <2>4 DEF FireStep
<1>8. CASE HandlerEnd \/ WaitLock \/ NextDue \/ Budget \/ Deadline \/ Sleep \/ TimeOut
    BY <1>8 DEF HandlerEnd, WaitLock, NextDue, Budget, Deadline, Sleep, TimeOut,
                Goes, mutexes
<1>9. CASE Relock \/ WaitEnd \/ Pop \/ DrainEnd \/ CheckStop
    BY <1>9 DEF Relock, WaitEnd, Pop, DrainEnd, CheckStop, Goes, mutexes
<1>10. CASE UNCHANGED vars
    BY <1>10 DEF vars
<1> QED
    BY <1>1, <1>2, <1>3, <1>4, <1>5, <1>6, <1>7, <1>8, <1>9, <1>10
       DEF Next, LoopStep

\* At the start both mutexes are free.
LEMMA InitHolds == Init => Types /\ MutexesAreOrdered
<1> SUFFICES ASSUME Init PROVE Types /\ MutexesAreOrdered
    OBVIOUS
<1>1. pc \in [Threads -> Places]
    BY DEF Init, Places
<1>2. batch \in [Threads -> Seq(Timers)]
    BY EmptySeq DEF Init
<1>3. timer \in [Timers -> Fates]
    BY DEF Init, Fates
<1>4. MutexesAreOrdered
    BY PartsDiffer DEF Init, MutexesAreOrdered, Threads
<1>5. 0 \in 0..LastTime /\ 0 \in Durations /\ Never \in 0..Never
    BY TimedBoundsAreNat DEF Never, Durations
<1>6. /\ due \in [Timers -> Durations] /\ armedAt \in [Timers -> 0..LastTime]
      /\ delayOf \in [Timers -> 0..LastTime]
    BY <1>5 DEF Init
<1> QED
    BY <1>1, <1>2, <1>3, <1>4, <1>5, <1>6 DEF Init, Types

\* Whatever the threads, timers and bounds: no thread that has the timers'
\* mutex goes on to wait for mutex_ (timer.hpp: fire_due() posts after the
\* unlock), so the two cannot end in a circle.
THEOREM LockOrder == Spec => []MutexesAreOrdered
BY InitHolds, TypesHold, OrderHolds, PTL DEF Spec

-----------------------------------------------------------------------------
(***************************************************************************)
(* No timer is early.                                                      *)
(***************************************************************************)

UnarmedAreNone == \A i \in Timers : i > armed => timer[i] = "none"

\* A due time is the sum arm() made, in the width of a duration.
DueIsTheSum ==
    \A i \in Timers : timer[i] # "none" =>
        due[i] = Wrap(armedAt[i] + delayOf[i]) /\ armedAt[i] <= now

FiredWasDue == \A i \in Timers : timer[i] \in {"fired", "posted"} => due[i] <= now

BatchWasDue ==
    \A t \in Threads : \A k \in DOMAIN batch[t] :
        timer[batch[t][k]] # "none" /\ due[batch[t][k]] <= now

Timing == UnarmedAreNone /\ DueIsTheSum /\ FiredWasDue /\ BatchWasDue

timing == <<now, armed, timer, due, armedAt, delayOf, batch>>

\* Time passes: the clock goes on, and nothing else of the timers changes.
ClockGoesOn == now' >= now /\ UNCHANGED <<armed, timer, due, armedAt, delayOf, batch>>

\* The other steps change no timer.
LEMMA OtherSteps ==
    Types /\ [Next]_vars =>
        \/ \E d \in Delays : Arm(d)
        \/ \E i \in Timers : Cancel(i)
        \/ \E t \in Threads : FireCollect(t) \/ FirePost(t)
        \/ ClockGoesOn
        \/ UNCHANGED timing
<1> SUFFICES ASSUME Types
             PROVE  [Next]_vars =>
                        \/ \E d \in Delays : Arm(d)
                        \/ \E i \in Timers : Cancel(i)
                        \/ \E t \in Threads : FireCollect(t) \/ FirePost(t)
                        \/ ClockGoesOn
                        \/ UNCHANGED timing
    OBVIOUS
<1>1. ForeignPost \/ Stop \/ UNCHANGED vars => UNCHANGED timing
    BY DEF ForeignPost, Stop, vars, clocks, timing
<1>2. \A t \in Threads : FireUnlock(t) \/ FireEnd(t) => UNCHANGED timing
    BY DEF FireUnlock, FireEnd, clocks, timing
<1>3. HandlerEnd \/ WaitLock \/ NextDue \/ Budget \/ Deadline => UNCHANGED timing
    BY DEF HandlerEnd, WaitLock, NextDue, Budget, Deadline, clocks, timing
<1>4. Sleep \/ TimeOut \/ Relock \/ WaitEnd \/ Pop \/ DrainEnd \/ CheckStop
          => UNCHANGED timing
    BY DEF Sleep, TimeOut, Relock, WaitEnd, Pop, DrainEnd, CheckStop, clocks, timing
<1>5. Tick => ClockGoesOn
    BY DEF Types, Tick, ClockGoesOn
<1>6. \A delta \in 0..ClockBound : Advance(delta) => ClockGoesOn
    BY TimedBoundsAreNat DEF Types, Advance, ClockGoesOn
<1> QED
    BY <1>1, <1>2, <1>3, <1>4, <1>5, <1>6 DEF Next, LoopStep, FireStep, Threads

\* The envelope fire_due() posts is a timer's that was due, and so are the rest.
LEMMA BatchShrinks ==
    ASSUME Types, BatchWasDue, NEW t \in Threads, FirePost(t)
    PROVE  /\ Head(batch[t]) \in Timers
           /\ timer[Head(batch[t])] # "none" /\ due[Head(batch[t])] <= now
           /\ BatchWasDue'
<1> DEFINE b == batch[t]
<1>1. b \in Seq(Timers) /\ b # <<>>
    BY DEF Types, FirePost
<1>2. Head(b) \in Timers /\ Head(b) = b[1] /\ 1 \in DOMAIN b
    BY <1>1
<1>3. timer[Head(b)] # "none" /\ due[Head(b)] <= now
    BY <1>2 DEF BatchWasDue
<1>4. \A i \in Timers : timer[i] # "none" => timer'[i] # "none"
    BY DEF FirePost, Types
<1>5. due' = due /\ now' = now
    BY DEF FirePost, clocks
<1>6. ASSUME NEW u \in Threads, NEW k \in DOMAIN batch'[u]
      PROVE  \E l \in DOMAIN batch[u] : batch'[u][k] = batch[u][l]
    <2>1. CASE u = t
        <3>1. batch'[u] = Tail(b)
            BY <2>1 DEF FirePost, Types
        <3>2. k + 1 \in DOMAIN b /\ Tail(b)[k] = b[k + 1]
            BY <1>1, <1>6, <3>1
        <3> QED
            BY <2>1, <3>1, <3>2
    <2>2. CASE u # t
        BY <1>6, <2>2 DEF FirePost, Types
    <2> QED
        BY <2>1, <2>2
<1>7. \A u \in Threads : \A l \in DOMAIN batch[u] : batch[u][l] \in Timers
    BY DEF Types
<1> QED
    BY <1>2, <1>3, <1>4, <1>5, <1>6, <1>7 DEF BatchWasDue

\* Every step keeps due times as arm() made them and collects only what is due.
LEMMA TimingHolds == Types /\ Timing /\ [Next]_vars => Timing'
<1> SUFFICES ASSUME Types, Timing, [Next]_vars PROVE Timing'
    OBVIOUS
<1> USE DEF Timing
<1>1. ASSUME NEW d \in Delays, Arm(d) PROVE Timing'
    <2> DEFINE n == armed + 1
    <2>1. n \in Timers /\ n > armed /\ timer[n] = "none"
        BY <1>1, TimedBoundsAreNat DEF Arm, Armed, Timers, Types, UnarmedAreNone
    <2>2. /\ due'[n] = Wrap(armedAt'[n] + delayOf'[n]) /\ armedAt'[n] <= now'
          /\ timer'[n] = "live" /\ armed' = n /\ now' = now
          /\ \A i \in Timers \ {n} : /\ timer'[i] = timer[i] /\ due'[i] = due[i]
                                    /\ armedAt'[i] = armedAt[i]
                                    /\ delayOf'[i] = delayOf[i]
        BY <1>1, <2>1 DEF Arm, Armed, DueAt, Types
    <2>3. UnarmedAreNone' /\ DueIsTheSum' /\ FiredWasDue'
        <3> HIDE DEF n
        <3>1. armed \in Nat /\ n \in Nat /\ n > armed
            BY <2>1 DEF Types, n
        <3> QED
            BY <2>1, <2>2, <3>1
               DEF Timers, UnarmedAreNone, DueIsTheSum, FiredWasDue
    <2>4. BatchWasDue'
        <3>1. \A t \in Threads : \A k \in DOMAIN batch[t] :
                  batch[t][k] \in Timers /\ batch[t][k] # n
            BY <2>1 DEF BatchWasDue, Types
        <3> QED
            BY <1>1, <2>1, <3>1 DEF Arm, Armed, Types, BatchWasDue
    <2> QED
        BY <2>3, <2>4
<1>2. ASSUME NEW i \in Timers, Cancel(i) PROVE Timing'
    BY <1>2 DEF Cancel, clocks, Types, UnarmedAreNone, DueIsTheSum, FiredWasDue,
                BatchWasDue
<1>3. CASE ClockGoesOn
    <2>0. \A i \in Timers : due[i] \in Int /\ armedAt[i] \in Int
          /\ now \in Int /\ now' \in Int
        BY TypesHold, TimedBoundsAreNat DEF Types, Durations
    <2>1. BatchWasDue'
        <3>1. \A t \in Threads : \A k \in DOMAIN batch[t] : batch[t][k] \in Timers
            BY DEF Types
        <3> QED
            BY <1>3, <2>0, <3>1 DEF ClockGoesOn, BatchWasDue
    <2> QED
        BY <1>3, <2>0, <2>1 DEF ClockGoesOn, UnarmedAreNone, DueIsTheSum, FiredWasDue
<1>4. ASSUME NEW t \in Threads, FireCollect(t) PROVE Timing'
    <2>1. UnarmedAreNone' /\ DueIsTheSum' /\ FiredWasDue'
        BY <1>4 DEF FireCollect, IsDue, clocks, Types, UnarmedAreNone,
                    DueIsTheSum, FiredWasDue
    <2>2. PICK s \in DueOrders : batch' = [batch EXCEPT ![t] = s]
        BY <1>4 DEF FireCollect
    <2>3. \A i \in Timers : timer[i] # "none" => timer'[i] # "none"
        BY <1>4 DEF FireCollect, Types
    <2>4. \A k \in DOMAIN s : /\ s[k] \in Timers
                              /\ timer[s[k]] # "none" /\ due[s[k]] <= now
        BY OrdersAreSequences DEF Live, IsDue
    <2>5. due' = due /\ now' = now
        BY <1>4 DEF FireCollect, clocks
    <2>6. \A u \in Threads : batch'[u] = IF u = t THEN s ELSE batch[u]
        BY <2>2 DEF Types
    <2>7. \A u \in Threads : \A k \in DOMAIN batch[u] : batch[u][k] \in Timers
        BY DEF Types
    <2>8. BatchWasDue'
        BY <2>3, <2>4, <2>5, <2>6, <2>7 DEF BatchWasDue
    <2> QED
        BY <2>1, <2>8
<1>5. ASSUME NEW t \in Threads, FirePost(t) PROVE Timing'
    <2>1. /\ Head(batch[t]) \in Timers /\ due[Head(batch[t])] <= now
          /\ timer[Head(batch[t])] # "none" /\ BatchWasDue'
        BY <1>5, BatchShrinks
    <2>2. UnarmedAreNone' /\ DueIsTheSum' /\ FiredWasDue'
        BY <1>5, <2>1 DEF FirePost, clocks, Types, UnarmedAreNone, DueIsTheSum,
                          FiredWasDue
    <2> QED
        BY <2>1, <2>2
<1>6. CASE UNCHANGED timing
    BY <1>6 DEF timing, UnarmedAreNone, DueIsTheSum, FiredWasDue, BatchWasDue
<1> QED
    BY <1>1, <1>2, <1>3, <1>4, <1>5, <1>6, OtherSteps

\* At the start nothing is armed.
LEMMA TimingInit == Init => Timing
BY DEF Init, Timing, UnarmedAreNone, DueIsTheSum, FiredWasDue, BatchWasDue

\* A sum that can be represented, and is reached, means a delay that has passed.
LEMMA TimingIsEnough == Types /\ Timing => NeverEarly
<1> SUFFICES ASSUME Types, Timing, NEW i \in Timers, timer[i] \in {"fired", "posted"},
                    armedAt[i] + delayOf[i] <= LastTime
             PROVE  armedAt[i] + delayOf[i] <= now
    BY DEF NeverEarly
<1>1. armedAt[i] \in 0..LastTime /\ delayOf[i] \in 0..LastTime
    BY DEF Types
<1>2. due[i] = Wrap(armedAt[i] + delayOf[i]) /\ due[i] <= now
    BY DEF Timing, DueIsTheSum, FiredWasDue
<1> QED
    BY <1>1, <1>2, SumsWrap

\* Whatever the delays and the width of a duration: no timer fires before its
\* delay has passed, provided its due time can be represented (timer.hpp:
\* arm(), fire_due()).
THEOREM NoTimerIsEarly == Spec => []NeverEarly
BY InitHolds, TypesHold, TimingInit, TimingHolds, TimingIsEnough, PTL DEF Spec

-----------------------------------------------------------------------------
(***************************************************************************)
(* How long the loop sleeps.                                               *)
(***************************************************************************)

\* The three readings behind a wait, and what each leaves behind.
Bounding == pc[Loop] \in {"remaining", "deadline", "awake", "asleep"}
Budgeted == pc[Loop] \in {"deadline", "awake", "asleep"}
Waiting == pc[Loop] \in {"awake", "asleep"}

NextIsNext ==
    Bounding =>
        /\ \A i \in Live : next <= due[i]
        /\ next = Never
           \/ \E i \in Timers : due[i] = next
                 /\ timer[i] \in {"live", "fired", "posted", "dropped"}

BudgetIsTheRest ==
    Budgeted =>
        /\ budget = IF next = Never THEN Never ELSE NotNegative(Wrap(next - asked))
        /\ \A i \in Timers : timer[i] # "none" => armedAt[i] <= asked
        /\ ~manual => asked <= steady

DeadlineIsTheSum ==
    Waiting =>
        /\ deadline = IF budget = Never THEN Never ELSE Wrap(measured + budget)
        /\ measured <= steady
        /\ ~manual => asked <= measured

SleepsLonger == pc[Loop] = "asleep" => deadline > measured

Bounds == NextIsNext /\ BudgetIsTheRest /\ DeadlineIsTheSum /\ SleepsLonger

\* While the loop waits nobody arms or cancels: time passes, and a timer only
\* goes on from the heap to the queue.
LEMMA GoingOnKeepsBounds ==
    ASSUME Types, Types', Bounds, UNCHANGED <<wait, manual, due, armedAt>>,
           steady' >= steady,
           pc'[Loop] = pc[Loop] \/ ~Bounding' \/ (Waiting /\ pc'[Loop] = "awake"),
           \A i \in Timers : \/ timer'[i] = timer[i]
                            \/ /\ timer[i] # "none"
                               /\ timer'[i] \in {"fired", "posted", "dropped"}
    PROVE  Bounds'
<1>1. /\ next' = next /\ budget' = budget /\ deadline' = deadline
      /\ asked' = asked /\ measured' = measured
      /\ manual' = manual /\ due' = due /\ armedAt' = armedAt
    BY DEF wait
<1>2. /\ Bounding' => Bounding
      /\ Budgeted' => Budgeted
      /\ Waiting' => Waiting
      /\ (pc'[Loop] = "asleep") => pc[Loop] = "asleep"
    BY DEF Bounding, Budgeted, Waiting
<1>3. NextIsNext'
    BY <1>1, <1>2 DEF Bounds, NextIsNext, Live
<1>4. steady \in Int /\ steady' \in Int /\ asked \in Int /\ measured \in Int
    BY DEF Types
<1>5. BudgetIsTheRest'
    <2>1. ~manual /\ Budgeted => asked <= steady'
        BY <1>4 DEF Bounds, BudgetIsTheRest
    <2>2. \A i \in Timers : timer'[i] # "none" => timer[i] # "none"
        OBVIOUS
    <2> QED
        BY <1>1, <1>2, <2>1, <2>2 DEF Bounds, BudgetIsTheRest
<1>6. DeadlineIsTheSum'
    <2>1. Waiting => measured <= steady'
        BY <1>4 DEF Bounds, DeadlineIsTheSum
    <2> QED
        BY <1>1, <1>2, <2>1 DEF Bounds, DeadlineIsTheSum
<1>7. SleepsLonger'
    BY <1>1, <1>2 DEF Bounds, SleepsLonger
<1> QED
    BY <1>3, <1>5, <1>6, <1>7 DEF Bounds

\* The loop is woken out of a wait only.
LEMMA WokenFromWaiting ==
    ASSUME Types, pc' = Woken
    PROVE  pc'[Loop] = pc[Loop] \/ (Waiting /\ pc'[Loop] = "awake")
BY DEF Types, Woken, Waiting, Threads

\* A step outside the wait has nothing to bound.
LEMMA OutsideNothing ==
    ASSUME ~Bounding' PROVE Bounds'
BY DEF Bounding, Budgeted, Waiting, Bounds, NextIsNext, BudgetIsTheRest,
       DeadlineIsTheSum, SleepsLonger

\* next_due_at() returns the least due time of a live timer.
LEMMA NextDueIsNext ==
    ASSUME Types, NextDue
    PROVE  Bounds'
<1>1. /\ next' = Earliest(NextDueAt) /\ pc'[Loop] = "remaining"
      /\ due' = due /\ timer' = timer /\ Live' = Live
    BY DEF NextDue, Goes, clocks, Live, Types, Threads
<1>2. \A i \in Live : i \in Timers /\ timer[i] = "live" /\ due[i] \in NextDueAt
    BY DEF Live, NextDueAt
<1>3. NextIsNext'
    <2>1. CASE Live = {}
        <3>1. NextDueAt = {}
            BY <2>1 DEF NextDueAt
        <3>2. next' = Never
            BY <1>1, <3>1 DEF Earliest
        <3> QED
            BY <1>1, <2>1, <3>2 DEF NextIsNext
    <2>2. CASE Live # {}
        <3>1. NextDueAt \subseteq Durations /\ NextDueAt # {}
            BY <1>2, <2>2 DEF NextDueAt, Types
        <3>2. next' \in NextDueAt /\ \A d \in NextDueAt : next' <= d
            BY <1>1, <3>1, EarliestIsLeast
        <3>3. PICK i \in Live : due[i] = next'
            BY <3>2 DEF NextDueAt
        <3>4. \A j \in Live' : next' <= due'[j]
            BY <1>1, <1>2, <3>2
        <3>5. i \in Timers /\ due'[i] = next' /\ timer'[i] = "live"
            BY <1>1, <1>2, <3>3
        <3> QED
            BY <3>4, <3>5 DEF NextIsNext
    <2> QED
        BY <2>1, <2>2
<1> QED
    BY <1>1, <1>3 DEF Bounds, Budgeted, Waiting, BudgetIsTheRest, DeadlineIsTheSum,
                      SleepsLonger

\* compute_wait_budget() reads the clock after whatever armed a timer did.
LEMMA BudgetIsBounded ==
    ASSUME Types, Timing, Bounds, Budget
    PROVE  Bounds'
<1>1. /\ budget' = UntilNext /\ asked' = now
      /\ pc[Loop] = "remaining" /\ pc'[Loop] = "deadline"
      /\ next' = next /\ due' = due /\ timer' = timer /\ armedAt' = armedAt
      /\ manual' = manual /\ steady' = steady
    BY DEF Budget, Goes, clocks, Types, Threads
<1>2. NextIsNext'
    BY <1>1 DEF Bounds, NextIsNext, Bounding, Live
<1>3. budget' = IF next' = Never THEN Never ELSE NotNegative(Wrap(next' - asked'))
    BY <1>1 DEF UntilNext
<1>4. \A i \in Timers : timer'[i] # "none" => armedAt'[i] <= asked'
    BY <1>1 DEF Timing, DueIsTheSum
<1>5. ~manual' => asked' <= steady'
    BY <1>1 DEF Types
<1> QED
    BY <1>1, <1>2, <1>3, <1>4, <1>5
       DEF Bounds, BudgetIsTheRest, Waiting, DeadlineIsTheSum, SleepsLonger

\* run() reads steady_clock after that.
LEMMA DeadlineIsBounded ==
    ASSUME Types, Bounds, Deadline
    PROVE  Bounds'
<1>1. /\ deadline' = IF budget = Never THEN Never ELSE Wrap(steady + budget)
      /\ measured' = steady
      /\ pc[Loop] = "deadline" /\ pc'[Loop] = "awake"
      /\ next' = next /\ budget' = budget /\ asked' = asked
      /\ due' = due /\ timer' = timer /\ armedAt' = armedAt
      /\ manual' = manual /\ steady' = steady
    BY DEF Deadline, Goes, clocks, Types, Threads
<1>2. NextIsNext'
    BY <1>1 DEF Bounds, NextIsNext, Bounding, Live
<1>3. BudgetIsTheRest /\ Budgeted
    BY <1>1 DEF Bounds, Budgeted
<1>4. BudgetIsTheRest'
    BY <1>1, <1>3, Zenon DEF BudgetIsTheRest
<1>5. ~manual' => asked' <= measured'
    BY <1>1, <1>3 DEF BudgetIsTheRest
<1>6. measured' <= steady'
    BY <1>1 DEF Types
<1> QED
    BY <1>1, <1>2, <1>4, <1>5, <1>6
       DEF Bounds, DeadlineIsTheSum, SleepsLonger

\* A loop that goes to sleep does so before its deadline.
LEMMA SleepIsBounded ==
    ASSUME Types, Bounds, Sleep
    PROVE  Bounds'
<1>1. /\ UNCHANGED <<clocks, wait, timer>> /\ ~TimedOut
      /\ pc[Loop] = "awake" /\ pc'[Loop] = "asleep"
    BY DEF Sleep, Goes, Types, Threads
<1>2. /\ next' = next /\ budget' = budget /\ deadline' = deadline
      /\ asked' = asked /\ measured' = measured /\ steady' = steady
      /\ manual' = manual /\ due' = due /\ armedAt' = armedAt /\ timer' = timer
    BY <1>1 DEF wait, clocks
<1>3. Bounding /\ Budgeted /\ Waiting
    BY <1>1 DEF Bounding, Budgeted, Waiting
<1>4. NextIsNext'
    BY <1>2, <1>3 DEF Bounds, NextIsNext, Live
<1>5. BudgetIsTheRest' /\ DeadlineIsTheSum'
    BY <1>2, <1>3, Zenon DEF Bounds, BudgetIsTheRest, DeadlineIsTheSum
<1>6. deadline > measured
    <2>1. measured <= steady
        BY <1>3 DEF Bounds, DeadlineIsTheSum
    <2>2. deadline \in Int
        BY TimedBoundsAreNat DEF Types, Durations, Never
    <2> QED
        BY <1>1, <2>1, <2>2 DEF Types, TimedOut
<1> QED
    BY <1>2, <1>4, <1>5, <1>6 DEF Bounds, SleepsLonger

\* Every step keeps it so until the loop is awake again.
LEMMA BoundsStay == Types /\ Timing /\ Bounds /\ [Next]_vars => Bounds'
<1> SUFFICES ASSUME Types, Timing, Bounds, [Next]_vars PROVE Bounds'
    OBVIOUS
<1>0. Types'
    BY TypesHold
<1>1. ASSUME NEW d \in Delays, Arm(d) PROVE Bounds'
    BY <1>1, OutsideNothing DEF Arm, Armed, Handling, Bounding
<1>2. ASSUME NEW i \in Timers, Cancel(i) PROVE Bounds'
    BY <1>2, OutsideNothing DEF Cancel, Handling, Bounding
<1>3. CASE ForeignPost \/ Stop
    <2>1. UNCHANGED <<wait, manual, due, armedAt, timer, steady>>
        BY <1>3 DEF ForeignPost, Stop, clocks
    <2>2. steady' >= steady
        BY <2>1 DEF Types
    <2> QED
        BY <1>0, <1>3, <2>1, <2>2, WokenFromWaiting, GoingOnKeepsBounds
           DEF ForeignPost, Stop
<1>4. CASE Tick
    <2>1. steady' >= steady
        BY <1>4 DEF Tick, Types
    <2> QED
        BY <1>0, <1>4, <2>1, GoingOnKeepsBounds DEF Tick
<1>5. ASSUME NEW delta \in 0..ClockBound, Advance(delta) PROVE Bounds'
    <2>1. steady' >= steady /\ pc'[Loop] = pc[Loop]
        BY <1>5, PartsDiffer DEF Advance, Goes, Types, Threads
    <2> QED
        BY <1>0, <1>5, <2>1, GoingOnKeepsBounds DEF Advance
<1>6. ASSUME NEW t \in Threads, FireStep(t) PROVE Bounds'
    <2>1. UNCHANGED <<wait, manual, due, armedAt, steady>>
        BY <1>6 DEF FireStep, FireCollect, FireUnlock, FirePost, FireEnd, clocks
    <2>2. steady' >= steady
        BY <2>1 DEF Types
    <2>3. \A i \in Timers : \/ timer'[i] = timer[i]
                           \/ /\ timer[i] # "none"
                              /\ timer'[i] \in {"fired", "posted", "dropped"}
        <3>1. CASE FireCollect(t)
            BY <3>1 DEF FireCollect
        <3>2. CASE FirePost(t)
            <4>1. /\ Head(batch[t]) \in Timers /\ timer[Head(batch[t])] # "none"
                BY <3>2, BatchShrinks DEF Timing
            <4> QED
                BY <3>2, <4>1 DEF FirePost, Types
        <3>3. CASE FireUnlock(t) \/ FireEnd(t)
            BY <3>3 DEF FireUnlock, FireEnd
        <3> QED
            BY <1>6, <3>1, <3>2, <3>3 DEF FireStep
    <2>4. pc'[Loop] = pc[Loop] \/ ~Bounding' \/ (Waiting /\ pc'[Loop] = "awake")
        <3>1. CASE FirePost(t)
            BY <3>1, WokenFromWaiting DEF FirePost
        <3>2. CASE FireCollect(t) \/ FireUnlock(t) \/ FireEnd(t)
            BY <3>2, PartsDiffer
               DEF FireCollect, FireUnlock, FireEnd, Goes, Types, Threads, Bounding
        <3> QED
            BY <1>6, <3>1, <3>2 DEF FireStep
    <2> QED
        BY <1>0, <2>1, <2>2, <2>3, <2>4, GoingOnKeepsBounds
<1>7. CASE NextDue
    BY <1>7, NextDueIsNext
<1>8. CASE Budget
    BY <1>8, BudgetIsBounded
<1>9. CASE Deadline
    BY <1>9, DeadlineIsBounded
<1>10. CASE Sleep
    BY <1>10, SleepIsBounded
<1>11. CASE TimeOut \/ Relock
    <2>1. UNCHANGED <<wait, manual, due, armedAt, timer, steady>>
        BY <1>11 DEF TimeOut, Relock, clocks
    <2>2. steady' >= steady
        BY <2>1 DEF Types
    <2>3. pc'[Loop] = pc[Loop] \/ (Waiting /\ pc'[Loop] = "awake")
        BY <1>11 DEF TimeOut, Relock, Goes, Types, Threads, Waiting
    <2> QED
        BY <1>0, <2>1, <2>2, <2>3, GoingOnKeepsBounds
<1>12. CASE HandlerEnd \/ WaitLock \/ WaitEnd \/ Pop \/ DrainEnd \/ CheckStop
    <2>1. ~Bounding'
        BY <1>12 DEF HandlerEnd, WaitLock, WaitEnd, Pop, DrainEnd, CheckStop, Goes,
                     Types, Bounding, Threads
    <2> QED
        BY <2>1, OutsideNothing
<1>13. CASE UNCHANGED vars
    <2>1. UNCHANGED <<wait, manual, due, armedAt, timer, steady, pc>>
        BY <1>13 DEF vars, wait
    <2>2. steady' >= steady
        BY <2>1 DEF Types
    <2> QED
        BY <1>0, <2>1, <2>2, GoingOnKeepsBounds
<1> QED
    BY <1>1, <1>2, <1>3, <1>4, <1>5, <1>6, <1>7, <1>8, <1>9, <1>10, <1>11,
       <1>12, <1>13 DEF Next, LoopStep, Threads

\* At the start the loop is not waiting.
LEMMA BoundsInit == Init => Bounds
BY DEF Init, Bounds, NextIsNext, BudgetIsTheRest, DeadlineIsTheSum, SleepsLonger,
       Bounding, Budgeted, Waiting, Threads

\* A loop that sleeps has waited out neither a due time that has overflowed, nor
\* a deadline that has: the one is over at once on a SteadyClock, the other on
\* any.  So what was added up and subtracted is what is left to sleep.
LEMMA SleepIsTheRest ==
    ASSUME Types, Timing, Bounds, pc[Loop] = "asleep", manual => next >= 0,
           next # Never
    PROVE  deadline - measured = next - asked
<1>1. Bounding /\ Budgeted /\ Waiting
    BY DEF Bounding, Budgeted, Waiting
<1>2. next \in Durations /\ asked \in 0..LastTime /\ measured \in 0..LastTime
      /\ steady \in 0..LastTime
    BY DEF Types
<1>3. /\ budget = NotNegative(Wrap(next - asked)) /\ budget \in 0..LastTime
    BY <1>1, <1>2, DifferencesWrap DEF Bounds, BudgetIsTheRest
<1>4. deadline = Wrap(measured + budget)
    <2>1. budget # Never
        BY <1>3, TimedBoundsAreNat DEF Never
    <2> QED
        BY <1>1, <2>1 DEF Bounds, DeadlineIsTheSum
<1>5. deadline > measured
    BY DEF Bounds, SleepsLonger
<1>6. measured + budget <= LastTime /\ deadline = measured + budget /\ budget > 0
    BY <1>2, <1>3, <1>4, <1>5, SumsWrap, TimedBoundsAreNat
<1>7. Wrap(next - asked) = budget
    <2>1. Wrap(next - asked) \in Int
        BY <1>2, DifferencesWrap, TimedBoundsAreNat DEF Durations
    <2> QED
        BY <1>3, <1>6, <2>1 DEF NotNegative
<1>8. next >= 0
    <2>1. SUFFICES ASSUME next < 0 /\ ~manual PROVE FALSE
        BY <1>2, TimedBoundsAreNat DEF Durations
    <2>2. PICK i \in Timers : due[i] = next /\ timer[i] # "none"
        BY <1>1 DEF Bounds, NextIsNext
    <2>3. /\ armedAt[i] \in 0..LastTime /\ delayOf[i] \in 0..LastTime
          /\ next = Wrap(armedAt[i] + delayOf[i]) /\ armedAt[i] <= asked
        BY <1>1, <2>2 DEF Types, Timing, DueIsTheSum, Bounds, BudgetIsTheRest
    <2>4. asked <= measured
        BY <1>1, <2>1 DEF Bounds, DeadlineIsTheSum
    <2>5. /\ armedAt[i] + delayOf[i] > LastTime
          /\ next = armedAt[i] + delayOf[i] - 2 * (LastTime + 1)
        BY <2>1, <2>3, SumsWrap, TimedBoundsAreNat
    <2>6. budget = next - asked + 2 * (LastTime + 1)
        <3>1. /\ next - asked >= -(LastTime + 1) => Wrap(next - asked) = next - asked
              /\ next - asked < -(LastTime + 1)
                    => Wrap(next - asked) = next - asked + 2 * (LastTime + 1)
            BY <1>2, DifferencesWrap
        <3> QED
            BY <1>2, <1>6, <1>7, <2>1, <3>1, TimedBoundsAreNat DEF Durations
    <2>7. measured + budget >= armedAt[i] + delayOf[i]
        BY <1>2, <2>3, <2>4, <2>5, <2>6, TimedBoundsAreNat
    <2> QED
        BY <1>2, <1>3, <1>6, <2>3, <2>5, <2>7, TimedBoundsAreNat
<1>9. Wrap(next - asked) = next - asked
    BY <1>2, <1>8, DifferencesWrap, TimedBoundsAreNat DEF Durations
<1> QED
    BY <1>2, <1>3, <1>6, <1>7, <1>9, TimedBoundsAreNat DEF Durations

\* So it sleeps as long as the earliest timer has to run.
LEMMA BoundsAreEnough == Types /\ Timing /\ Bounds => SleepsUntilTheNextTimer
<1> SUFFICES ASSUME Types, Timing, Bounds, pc[Loop] = "asleep", manual => next >= 0
             PROVE  /\ \A i \in Live : deadline - measured <= due[i] - asked
                    /\ deadline = Never
                       \/ \E i \in Timers : deadline - measured = due[i] - asked
                             /\ timer[i] \in {"live", "fired", "posted", "dropped"}
                    /\ ~manual => asked <= measured
    BY DEF SleepsUntilTheNextTimer
<1>1. Bounding /\ Budgeted /\ Waiting
    BY DEF Bounding, Budgeted, Waiting
<1>2. \A i \in Live : next <= due[i] /\ due[i] \in Durations
    BY <1>1 DEF Bounds, NextIsNext, Live, Types
<1>3. CASE next = Never
    <2>1. budget = Never /\ deadline = Never
        BY <1>1, <1>3 DEF Bounds, BudgetIsTheRest, DeadlineIsTheSum
    <2>2. Live = {}
        BY <1>2, <1>3, TimedBoundsAreNat DEF Durations, Never
    <2> QED
        BY <1>1, <2>1, <2>2 DEF Bounds, DeadlineIsTheSum
<1>4. CASE next # Never
    <2>1. deadline - measured = next - asked
        BY <1>4, SleepIsTheRest
    <2>2. next \in Int /\ asked \in Int
        BY <1>4, TimedBoundsAreNat DEF Types, Durations
    <2>3. \A i \in Live : deadline - measured <= due[i] - asked
        BY <1>2, <2>1, <2>2, TimedBoundsAreNat DEF Durations
    <2>4. \E i \in Timers : deadline - measured = due[i] - asked
              /\ timer[i] \in {"live", "fired", "posted", "dropped"}
        BY <1>1, <1>4, <2>1 DEF Bounds, NextIsNext
    <2> QED
        BY <1>1, <2>3, <2>4 DEF Bounds, DeadlineIsTheSum
<1> QED
    BY <1>3, <1>4

\* Whatever the delays, the width of a duration, and what passes or is fired
\* between the three readings: a loop that sleeps, sleeps for as long as the
\* earliest live timer had to run when the clock was read, so it is late by no
\* more than the time between that reading and steady_clock's (runtime.hpp:
\* run(), compute_wait_budget(); timer.hpp: next_due_at()).
THEOREM SleepIsRight == Spec => []SleepsUntilTheNextTimer
BY InitHolds, TypesHold, TimingInit, TimingHolds, BoundsInit, BoundsStay,
   BoundsAreEnough, PTL DEF Spec

-----------------------------------------------------------------------------
(***************************************************************************)
(* Types, with the bounds.                                                 *)
(***************************************************************************)

LoopPlaces == Places \ {"idle"}
TickerPlaces == {"idle", "fire", "collected", "post"}

\* Each thread stays in its own part of the program.
EachInItsPlace == pc[Loop] \in LoopPlaces /\ pc[Ticker] \in TickerPlaces

\* Counters, delays and mutexes.
Bounded ==
    /\ {queueMutex, timerMutex} \subseteq Threads \cup {Nobody}
    /\ queue \in Seq(Timers \cup {Plain})
    /\ stop \in BOOLEAN
    /\ delayOf \in [Timers -> Delays \cup {0}]
    /\ armed \in 0..ArmBound
    /\ posts \in 0..PostBound

\* Only fire_due() is on both threads, and it returns to where it was called.
LEMMA PlaceHolds == Types /\ EachInItsPlace /\ [Next]_vars => EachInItsPlace'
<1> SUFFICES ASSUME Types, EachInItsPlace, [Next]_vars PROVE EachInItsPlace'
    OBVIOUS
<1> USE PartsDiffer DEF Types, EachInItsPlace, Threads, LoopPlaces, TickerPlaces, Places
<1>1. CASE \E d \in Delays : Arm(d)
    BY <1>1 DEF Arm, Armed
<1>2. CASE \E i \in Timers : Cancel(i)
    BY <1>2 DEF Cancel
<1>3. CASE ForeignPost \/ Stop \/ Tick \/ \E delta \in 0..ClockBound : Advance(delta)
    BY <1>3 DEF ForeignPost, Stop, Tick, Advance, Goes, Woken
<1>4. ASSUME NEW t \in Threads, FireStep(t) PROVE EachInItsPlace'
    <2>1. CASE FireCollect(t) \/ FireUnlock(t) \/ FireEnd(t)
        BY <2>1 DEF FireCollect, FireUnlock, FireEnd, Goes
    <2>2. CASE FirePost(t)
        BY <2>2 DEF FirePost, Woken
    <2> QED
        BY <1>4, <2>1, <2>2 DEF FireStep
<1>5. CASE HandlerEnd \/ WaitLock \/ NextDue \/ Budget \/ Deadline \/ Sleep
    BY <1>5 DEF HandlerEnd, WaitLock, NextDue, Budget, Deadline, Sleep, Goes
<1>6. CASE TimeOut \/ Relock \/ WaitEnd \/ Pop \/ DrainEnd \/ CheckStop
    BY <1>6 DEF TimeOut, Relock, WaitEnd, Pop, DrainEnd, CheckStop, Goes
<1>7. CASE UNCHANGED vars
    BY <1>7 DEF vars
<1> QED
    BY <1>1, <1>2, <1>3, <1>4, <1>5, <1>6, <1>7 DEF Next, LoopStep

\* No action goes past a bound.
LEMMA BoundsHold == Types /\ Bounded /\ [Next]_vars => Bounded'
<1> SUFFICES ASSUME Types, Bounded, [Next]_vars PROVE Bounded'
    OBVIOUS
<1> USE DEF Bounded
<1>0. {LastTime, ArmBound, ClockBound, PostBound} \subseteq Nat /\ Delays \subseteq Nat
    BY TimedBoundsAreNat
<1>1. ASSUME NEW d \in Delays, Arm(d) PROVE Bounded'
    <2>1. armed + 1 \in 0..ArmBound
        BY <1>0, <1>1 DEF Arm, Armed
    <2> QED
        BY <1>1, <2>1 DEF Arm, Armed, mutexes
<1>2. CASE \E i \in Timers : Cancel(i)
    BY <1>2 DEF Cancel, clocks, mutexes
<1>3. CASE ForeignPost
    <2>1. queue' \in Seq(Timers \cup {Plain})
        BY <1>3 DEF ForeignPost
    <2>2. posts' \in 0..PostBound
        BY <1>0, <1>3 DEF ForeignPost
    <2> QED
        BY <1>3, <2>1, <2>2 DEF ForeignPost, mutexes
<1>4. CASE Stop \/ UNCHANGED vars
    BY <1>4 DEF Stop, vars, clocks, mutexes
<1>5. CASE Tick \/ \E delta \in 0..ClockBound : Advance(delta)
    BY <1>5 DEF Tick, Advance, mutexes
<1>6. ASSUME NEW t \in Threads, FireStep(t) PROVE Bounded'
    <2>1. CASE FireCollect(t) \/ FireUnlock(t) \/ FireEnd(t)
        BY <1>6, <2>1 DEF FireCollect, FireUnlock, FireEnd, clocks, mutexes
    <2>2. CASE FirePost(t)
        <3>1. Head(batch[t]) \in Timers
            BY <2>2, HeadTailProperties DEF FirePost, Types
        <3>2. queue' \in Seq(Timers \cup {Plain})
            BY <2>2, <3>1 DEF FirePost
        <3> QED
            BY <2>2, <3>2 DEF FirePost, clocks, mutexes
    <2> QED
        BY <1>6, <2>1, <2>2 DEF FireStep
<1>7. CASE HandlerEnd \/ WaitLock \/ NextDue \/ Budget \/ Deadline
    BY <1>7 DEF HandlerEnd, WaitLock, NextDue, Budget, Deadline, clocks, mutexes,
                Threads
<1>8. CASE Sleep \/ TimeOut \/ Relock
    BY <1>8 DEF Sleep, TimeOut, Relock, clocks, mutexes, Threads
<1>9. CASE WaitEnd \/ DrainEnd \/ CheckStop
    BY <1>9 DEF WaitEnd, DrainEnd, CheckStop, clocks, mutexes
<1>10. CASE Pop
    <2>1. queue' \in Seq(Timers \cup {Plain})
        BY <1>10, HeadTailProperties DEF Pop
    <2> QED
        BY <1>10, <2>1 DEF Pop, clocks, mutexes
<1> QED
    BY <1>1, <1>2, <1>3, <1>4, <1>5, <1>6, <1>7, <1>8, <1>9, <1>10
       DEF Next, LoopStep, Threads

\* run() starts within them.
LEMMA BoundedInit == Init => EachInItsPlace /\ Bounded
<1> SUFFICES ASSUME Init PROVE EachInItsPlace /\ Bounded
    OBVIOUS
<1>1. EachInItsPlace
    BY PartsDiffer DEF Init, EachInItsPlace, LoopPlaces, TickerPlaces, Places, Threads
<1>2. queue \in Seq(Timers \cup {Plain})
    BY EmptySeq DEF Init
<1>3. 0 \in 0..ArmBound /\ 0 \in 0..PostBound
    BY TimedBoundsAreNat
<1>4. delayOf \in [Timers -> Delays \cup {0}]
    BY DEF Init
<1> QED
    BY <1>1, <1>2, <1>3, <1>4 DEF Init, Bounded

\* Every variable keeps its type, whatever the bounds: what wraps stays in the
\* width of a duration, no budget is negative, and neither thread runs the
\* other's code.
THEOREM TimedTypes == Spec => []TypeOK
<1>1. Types /\ EachInItsPlace /\ Bounded => TypeOK
    BY DEF Types, EachInItsPlace, Bounded, LoopPlaces, TickerPlaces, Places, TypeOK
<1> QED
    BY <1>1, InitHolds, BoundedInit, TypesHold, PlaceHolds, BoundsHold, PTL
       DEF Spec

-----------------------------------------------------------------------------
(***************************************************************************)
(* The timers of the loop implement the abstract service.                  *)
(***************************************************************************)

\* What is collected is fired and not yet posted, and is in one batch, once:
\* the two threads that fire never have a timer in common.
OneBatchEach ==
    /\ \A t \in Threads : \A k \in DOMAIN batch[t] : timer[batch[t][k]] = "fired"
    /\ \A t, u \in Threads : \A k \in DOMAIN batch[t], l \in DOMAIN batch[u] :
          batch[t][k] = batch[u][l] => t = u /\ k = l

\* A thread that is not in fire_due() has nothing to post.
EmptyHanded ==
    \A t \in Threads : pc[t] \notin {"collected", "post"} => batch[t] = <<>>

\* fire_due() collects each live timer that is due, once.
LEMMA OrdersListDue ==
    ASSUME NEW s \in DueOrders
    PROVE  /\ {s[k] : k \in DOMAIN s} = {i \in Live : IsDue(i)}
           /\ \A k, l \in DOMAIN s : s[k] = s[l] => k = l
<1> DEFINE D == {i \in Live : IsDue(i)}
           n == Cardinality(D)
<1>1. IsFiniteSet(Timers) /\ D \subseteq Timers
    BY FS_Interval, TimedBoundsAreNat DEF Timers, Live
<1>2. n \in Nat
    BY <1>1, FS_Subset, FS_CardinalityType
<1>3. s \in [1..n -> D] /\ {s[k] : k \in DOMAIN s} = D
    BY DEF DueOrders
<1> HIDE DEF D, n
<1>4. s \in Surjection(1..n, D)
    BY <1>3 DEF Surjection
<1>5. IsFiniteSet(1..n) /\ Cardinality(1..n) = n
    BY <1>2, FS_Interval
<1>6. s \in Injection(1..n, D)
    BY <1>4, <1>5, FS_SurjSameCardinalityImpliesInj DEF n
<1>7. \A k, l \in 1..n : s[k] = s[l] => k = l
    BY <1>6 DEF Injection, IsInjective
<1> QED
    BY <1>3, <1>7 DEF D

\* Posting moves a batch up by one.
LEMMA PostShifts ==
    ASSUME Types, NEW t \in Threads, FirePost(t)
    PROVE  /\ 1 \in DOMAIN batch[t] /\ Head(batch[t]) = batch[t][1]
           /\ Head(batch[t]) \in Timers
           /\ \A k \in DOMAIN batch'[t] :
                 k \in Nat /\ k + 1 \in DOMAIN batch[t] /\ k + 1 # 1
                 /\ batch'[t][k] = batch[t][k + 1]
           /\ \A l \in DOMAIN batch[t] :
                 l # 1 => l - 1 \in DOMAIN batch'[t] /\ batch'[t][l - 1] = batch[t][l]
           /\ \A u \in Threads \ {t} : batch'[u] = batch[u]
<1> DEFINE b == batch[t]
<1>1. b \in Seq(Timers) /\ b # <<>>
    BY DEF Types, FirePost
<1>2. batch'[t] = Tail(b) /\ \A u \in Threads \ {t} : batch'[u] = batch[u]
    BY DEF FirePost, Types
<1> HIDE DEF b
<1>3. /\ 1 \in DOMAIN b /\ Head(b) = b[1] /\ Head(b) \in Timers
      /\ \A k \in DOMAIN Tail(b) :
            k \in Nat /\ k + 1 \in DOMAIN b /\ k + 1 # 1 /\ Tail(b)[k] = b[k + 1]
      /\ \A l \in DOMAIN b :
            l # 1 => l - 1 \in DOMAIN Tail(b) /\ Tail(b)[l - 1] = b[l]
    BY <1>1
<1> QED
    BY <1>2, <1>3 DEF b

\* fire_due() ends when its batch is posted.
LEMMA EmptyHandedHolds == Types /\ EmptyHanded /\ [Next]_vars => EmptyHanded'
<1> SUFFICES ASSUME Types, EmptyHanded, [Next]_vars PROVE EmptyHanded'
    OBVIOUS
<1> USE DEF Types, EmptyHanded
<1>1. CASE \E d \in Delays : Arm(d)
    BY <1>1 DEF Arm, Armed
<1>2. CASE \E i \in Timers : Cancel(i)
    BY <1>2 DEF Cancel
<1>3. CASE ForeignPost \/ Stop \/ Tick \/ \E delta \in 0..ClockBound : Advance(delta)
    BY <1>3 DEF ForeignPost, Stop, Tick, Advance, Goes, Woken
<1>4. ASSUME NEW t \in Threads, FireCollect(t) PROVE EmptyHanded'
    <2>1. /\ \A u \in Threads \ {t} : batch'[u] = batch[u] /\ pc'[u] = pc[u]
          /\ pc'[t] = "collected"
        BY <1>4 DEF FireCollect, Goes
    <2> QED
        BY <2>1
<1>5. ASSUME NEW t \in Threads, FirePost(t) PROVE EmptyHanded'
    <2>1. /\ \A u \in Threads \ {t} : batch'[u] = batch[u]
          /\ \A u \in Threads : pc'[u] \in {"collected", "post"}
                                <=> pc[u] \in {"collected", "post"}
          /\ pc[t] = "post"
        BY <1>5 DEF FirePost, Woken
    <2> QED
        BY <2>1
<1>6. ASSUME NEW t \in Threads, FireUnlock(t) \/ FireEnd(t) PROVE EmptyHanded'
    BY <1>6 DEF FireUnlock, FireEnd, Goes
<1>7. CASE HandlerEnd \/ WaitLock \/ NextDue \/ Budget \/ Deadline \/ Sleep
    BY <1>7 DEF HandlerEnd, WaitLock, NextDue, Budget, Deadline, Sleep, Goes, Threads
<1>8. CASE TimeOut \/ Relock \/ WaitEnd \/ Pop \/ DrainEnd \/ CheckStop
    BY <1>8 DEF TimeOut, Relock, WaitEnd, Pop, DrainEnd, CheckStop, Goes, Threads
<1>9. CASE UNCHANGED vars
    BY <1>9 DEF vars
<1> QED
    BY <1>1, <1>2, <1>3, <1>4, <1>5, <1>6, <1>7, <1>8, <1>9
       DEF Next, LoopStep, FireStep, Threads

\* Every step keeps the batches apart.
LEMMA BatchesHold ==
    Types /\ UnarmedAreNone /\ EmptyHanded /\ OneBatchEach /\ [Next]_vars
        => OneBatchEach'
<1> SUFFICES ASSUME Types, UnarmedAreNone, EmptyHanded, OneBatchEach, [Next]_vars
             PROVE  OneBatchEach'
    OBVIOUS
<1>0. \A t \in Threads : \A k \in DOMAIN batch[t] : batch[t][k] \in Timers
    BY DEF Types
<1>1. ASSUME NEW d \in Delays, Arm(d) PROVE OneBatchEach'
    <2>1. timer[armed + 1] = "none" /\ batch' = batch
        BY <1>1, TimedBoundsAreNat DEF Arm, Armed, Timers, Types, UnarmedAreNone
    <2>2. \A i \in Timers : timer[i] = "fired" => timer'[i] = "fired"
        BY <1>1, <2>1 DEF Arm, Armed, Types
    <2> QED
        BY <1>0, <2>1, <2>2 DEF OneBatchEach
<1>2. ASSUME NEW i \in Timers, Cancel(i) PROVE OneBatchEach'
    <2>1. batch' = batch /\ \A j \in Timers : timer[j] = "fired" => timer'[j] = "fired"
        BY <1>2 DEF Cancel, Types
    <2> QED
        BY <1>0, <2>1 DEF OneBatchEach
<1>3. ASSUME NEW t \in Threads, FireCollect(t) PROVE OneBatchEach'
    <2>1. PICK s \in DueOrders : batch' = [batch EXCEPT ![t] = s]
        BY <1>3 DEF FireCollect
    <2>2. \A u \in Threads : batch'[u] = IF u = t THEN s ELSE batch[u]
        BY <2>1 DEF Types
    <2>3. /\ \A k \in DOMAIN s : s[k] \in Timers /\ timer[s[k]] = "live" /\ IsDue(s[k])
          /\ \A k, l \in DOMAIN s : s[k] = s[l] => k = l
        BY OrdersAreSequences, OrdersListDue DEF Live
    <2>4. \A i \in Timers :
              /\ timer[i] = "fired" => timer'[i] = "fired"
              /\ timer[i] = "live" /\ IsDue(i) => timer'[i] = "fired"
        BY <1>3 DEF FireCollect, Types
    <2>5. \A u \in Threads : \A k \in DOMAIN batch'[u] : timer'[batch'[u][k]] = "fired"
        BY <1>0, <2>2, <2>3, <2>4 DEF OneBatchEach
    <2>6. ASSUME NEW u \in Threads, NEW w \in Threads,
                 NEW k \in DOMAIN batch'[u], NEW l \in DOMAIN batch'[w],
                 batch'[u][k] = batch'[w][l]
          PROVE  u = w /\ k = l
        <3>1. CASE u = t /\ w = t
            BY <2>2, <2>3, <2>6, <3>1
        <3>2. CASE u # t /\ w # t
            BY <2>2, <2>6, <3>2 DEF OneBatchEach
        <3>3. CASE u = t /\ w # t
            BY <2>2, <2>3, <2>6, <3>3 DEF OneBatchEach
        <3>4. CASE u # t /\ w = t
            BY <2>2, <2>3, <2>6, <3>4 DEF OneBatchEach
        <3> QED
            BY <3>1, <3>2, <3>3, <3>4
    <2> QED
        BY <2>5, <2>6 DEF OneBatchEach
<1>4. ASSUME NEW t \in Threads, FirePost(t) PROVE OneBatchEach'
    <2>1. \A u \in Threads : \A k \in DOMAIN batch'[u] :
              /\ u = t => k \in Nat /\ k + 1 \in DOMAIN batch[u] /\ k + 1 # 1
                          /\ batch'[u][k] = batch[u][k + 1]
              /\ u # t => k \in DOMAIN batch[u] /\ batch'[u][k] = batch[u][k]
        BY <1>4, PostShifts
    <2>2. /\ 1 \in DOMAIN batch[t]
          /\ \A i \in Timers : i # batch[t][1] => timer'[i] = timer[i]
        BY <1>4, PostShifts DEF FirePost, Types
    <2>3. \A u \in Threads : \A k \in DOMAIN batch'[u] :
              /\ batch'[u][k] # batch[t][1] /\ batch'[u][k] \in Timers
              /\ timer[batch'[u][k]] = "fired"
        BY <1>0, <2>1, <2>2 DEF OneBatchEach
    <2>4. \A u \in Threads : \A k \in DOMAIN batch'[u] : timer'[batch'[u][k]] = "fired"
        BY <2>2, <2>3
    <2>5. ASSUME NEW u \in Threads, NEW w \in Threads,
                 NEW k \in DOMAIN batch'[u], NEW l \in DOMAIN batch'[w],
                 batch'[u][k] = batch'[w][l]
          PROVE  u = w /\ k = l
        <3>1. CASE u = t /\ w = t
            BY <2>1, <2>5, <3>1 DEF OneBatchEach
        <3>2. CASE u # t /\ w # t
            BY <2>1, <2>5, <3>2 DEF OneBatchEach
        <3>3. CASE u = t /\ w # t
            BY <2>1, <2>5, <3>3 DEF OneBatchEach
        <3>4. CASE u # t /\ w = t
            BY <2>1, <2>5, <3>4 DEF OneBatchEach
        <3> QED
            BY <3>1, <3>2, <3>3, <3>4
    <2> QED
        BY <2>4, <2>5 DEF OneBatchEach
<1>5. CASE ClockGoesOn \/ UNCHANGED timing
    BY <1>5 DEF ClockGoesOn, timing, OneBatchEach
<1> QED
    BY <1>1, <1>2, <1>3, <1>4, <1>5, OtherSteps

\* A new loop has collected nothing.
LEMMA BatchesInit == Init => EmptyHanded /\ OneBatchEach
BY DEF Init, EmptyHanded, OneBatchEach

\* A due time that cannot be represented is a time that has passed.
LEMMA DueTimeIsDueAt ==
    ASSUME Types, NEW d \in Delays
    PROVE  NotNegative(DueAt(d)) = Alarm!DueTime(d)
<1>1. now \in 0..LastTime /\ d \in 0..LastTime
    BY TimedBoundsAreNat DEF Types
<1> QED
    BY <1>1, SumsWrap, TimedBoundsAreNat DEF DueAt, NotNegative, Alarm!DueTime

\* arm() sets the next alarm.
LEMMA ArmSets ==
    ASSUME Types, UnarmedAreNone, OneBatchEach, NEW d \in Delays, Arm(d)
    PROVE  Alarm!Set(d)
<1> DEFINE n == armed + 1
<1>1. /\ n \in Timers /\ timer[n] = "none"
      /\ armed' = n /\ now' = now /\ batch' = batch
    BY TimedBoundsAreNat DEF Arm, Armed, Timers, Types, UnarmedAreNone
<1>2. /\ timer' = [timer EXCEPT ![n] = "live"]
      /\ due' = [due EXCEPT ![n] = DueAt(d)]
    BY DEF Arm, Armed, Types
<1> HIDE DEF n
<1>3. /\ timer'[n] = "live" /\ \A i \in Timers \ {n} : timer'[i] = timer[i]
      /\ due'[n] = DueAt(d) /\ \A i \in Timers \ {n} : due'[i] = due[i]
    BY <1>1, <1>2 DEF Types
<1>4. Live' = Live \cup {n} /\ n \notin Live
    BY <1>1, <1>3 DEF Live
<1>5. AlarmsWaiting' = AlarmsWaiting \cup {[id |-> n, due |-> Alarm!DueTime(d)]}
    <2>1. \A i \in Live : due'[i] = due[i]
        BY <1>3, <1>4 DEF Live
    <2>2. NotNegative(due'[n]) = Alarm!DueTime(d)
        BY <1>3, DueTimeIsDueAt
    <2> QED
        BY <1>4, <2>1, <2>2 DEF AlarmsWaiting, AlarmsOf
<1>6. InBatches' = InBatches
    BY <1>1 DEF InBatches
<1>7. AlarmsTaken' = AlarmsTaken
    <2>1. \A i \in InBatches : i \in Timers /\ timer[i] = "fired"
        BY DEF Types, OneBatchEach, InBatches
    <2>2. \A i \in InBatches : due'[i] = due[i]
        BY <1>1, <1>3, <2>1
    <2> QED
        BY <1>6, <2>2 DEF AlarmsTaken, AlarmsOf
<1>8. Rung' = Rung /\ Off' = Off
    BY <1>1, <1>3 DEF Rung, Off, InFate
<1> QED
    BY <1>1, <1>5, <1>7, <1>8 DEF Alarm!Set, n

\* While no due time changes, alarms are told apart by their numbers.
LEMMA AlarmsWithout ==
    ASSUME NEW X, NEW i \in X
    PROVE  /\ [id |-> i, due |-> NotNegative(due[i])] \in AlarmsOf(X)
           /\ AlarmsOf(X \ {i}) = AlarmsOf(X) \ {[id |-> i, due |-> NotNegative(due[i])]}
<1> DEFINE A(j) == [id |-> j, due |-> NotNegative(due[j])]
<1>1. \A j : A(j).id = j
    OBVIOUS
<1>2. AlarmsOf(X) = {A(j) : j \in X} /\ AlarmsOf(X \ {i}) = {A(j) : j \in X \ {i}}
    BY DEF AlarmsOf
<1> HIDE DEF A
<1>3. \A j \in X \ {i} : A(j) # A(i)
    BY <1>1
<1>4. A(i) \in AlarmsOf(X) /\ AlarmsOf(X \ {i}) = AlarmsOf(X) \ {A(i)}
    BY <1>2, <1>3
<1> QED
    BY <1>4 DEF A

\* Cancelling calls off a live timer.
LEMMA CancelCallsOff ==
    ASSUME Types, NEW i \in Timers, Cancel(i)
    PROVE  \E alarm \in AlarmsWaiting : Alarm!CallOff(alarm)
<1> DEFINE a == [id |-> i, due |-> NotNegative(due[i])]
<1>1. /\ timer[i] = "live" /\ timer'[i] = "cancelled"
      /\ \A j \in Timers \ {i} : timer'[j] = timer[j]
      /\ UNCHANGED <<now, armed, due, batch>>
    BY DEF Cancel, clocks, Types
<1>2. i \in Live /\ Live' = Live \ {i}
    BY <1>1 DEF Live
<1>3. AlarmsWaiting' = AlarmsOf(Live \ {i})
    BY <1>1, <1>2 DEF AlarmsWaiting, AlarmsOf
<1>4. a \in AlarmsWaiting /\ AlarmsWaiting' = AlarmsWaiting \ {a}
    BY <1>2, <1>3, AlarmsWithout DEF AlarmsWaiting
<1>5. AlarmsTaken' = AlarmsTaken
    BY <1>1 DEF AlarmsTaken, AlarmsOf, InBatches
<1>6. Rung' = Rung /\ Off' = Off \cup {a.id}
    BY <1>1 DEF Rung, Off, InFate
<1> QED
    BY <1>1, <1>4, <1>5, <1>6 DEF Alarm!CallOff

\* fire_due() takes out all that is due; the tombstones it drops were called
\* off before.
LEMMA CollectTakesDue ==
    ASSUME Types, EmptyHanded, NEW t \in Threads, FireCollect(t)
    PROVE  Alarm!TakeDue
<1> DEFINE D == {i \in Live : IsDue(i)}
<1>1. PICK s \in DueOrders : batch' = [batch EXCEPT ![t] = s]
    BY DEF FireCollect
<1>2. UNCHANGED <<now, armed, due>>
    BY DEF FireCollect, clocks
<1>3. \A i \in Timers : /\ IsDue(i) <=> NotNegative(due[i]) <= now
                        /\ ~IsDue(i) <=> NotNegative(due[i]) > now
    BY TimedBoundsAreNat DEF Types, Durations, IsDue, NotNegative
<1>4. batch[t] = <<>>
    BY DEF FireCollect, Goes, EmptyHanded
<1>5. {s[k] : k \in DOMAIN s} = D
    BY OrdersListDue
<1>6. InBatches' = InBatches \cup D
    <2>1. \A u \in Threads : batch'[u] = IF u = t THEN s ELSE batch[u]
        BY <1>1 DEF Types
    <2>2. \A u \in Threads : \A k \in DOMAIN batch[u] : u # t
        BY <1>4
    <2>3. InBatches' \subseteq InBatches \cup D
        <3>1. ASSUME NEW u \in Threads, NEW k \in DOMAIN batch'[u]
              PROVE  batch'[u][k] \in InBatches \cup D
            BY <1>5, <2>1, <3>1 DEF InBatches
        <3> QED
            BY <3>1 DEF InBatches
    <2>4. InBatches \subseteq InBatches'
        BY <2>1, <2>2 DEF InBatches
    <2>5. D \subseteq InBatches'
        <3>1. {s[k] : k \in DOMAIN s} = {batch'[t][k] : k \in DOMAIN batch'[t]}
            BY <2>1
        <3> QED
            BY <1>5, <3>1 DEF InBatches
    <2> HIDE DEF D
    <2> QED
        BY <2>3, <2>4, <2>5
<1>7. Live' = {i \in Live : ~IsDue(i)}
    BY DEF FireCollect, Live
<1> DEFINE A(i) == [id |-> i, due |-> NotNegative(due[i])]
<1>8. /\ \A i \in Live : A(i).due <= now <=> IsDue(i)
      /\ \A i \in Live : A(i).due > now <=> ~IsDue(i)
      /\ AlarmsWaiting = {A(i) : i \in Live} /\ AlarmsOf(D) = {A(i) : i \in D}
    <2>1. \A i : A(i).due = NotNegative(due[i])
        OBVIOUS
    <2>2. AlarmsWaiting = {A(i) : i \in Live} /\ AlarmsOf(D) = {A(i) : i \in D}
        BY DEF AlarmsWaiting, AlarmsOf
    <2>3. Live \subseteq Timers
        BY DEF Live
    <2> HIDE DEF A
    <2> QED
        BY <1>3, <2>1, <2>2, <2>3 DEF IsDue
<1>9. AlarmsWaiting' = {A(i) : i \in {j \in Live : ~IsDue(j)}}
    BY <1>2, <1>7 DEF AlarmsWaiting, AlarmsOf
<1> HIDE DEF A
<1>10. AlarmsWaiting' = {a \in AlarmsWaiting : a.due > now}
    BY <1>8, <1>9
<1>11. AlarmsTaken' = AlarmsOf(InBatches \cup D)
    BY <1>2, <1>6 DEF AlarmsTaken, AlarmsOf
<1>12. AlarmsOf(InBatches \cup D) = AlarmsOf(InBatches) \cup AlarmsOf(D)
    BY DEF AlarmsOf
<1>13. AlarmsOf(D) = {a \in AlarmsWaiting : a.due <= now}
    BY <1>8
<1>14. AlarmsTaken' = AlarmsTaken \cup {a \in AlarmsWaiting : a.due <= now}
    BY <1>11, <1>12, <1>13 DEF AlarmsTaken
<1>15. Rung' = Rung /\ Off' = Off
    BY DEF FireCollect, Types, Rung, Off, InFate, Fates
<1> QED
    BY <1>2, <1>10, <1>14, <1>15 DEF Alarm!TakeDue

\* What is posted rings, or is refused once the program is stopping; either way
\* it leaves the one batch it was in.
LEMMA PostRings ==
    ASSUME Types, OneBatchEach, NEW t \in Threads, FirePost(t)
    PROVE  \E alarm \in AlarmsTaken : Alarm!Ring(alarm) \/ Alarm!Refuse(alarm)
<1> DEFINE i == Head(batch[t])
           a == [id |-> i, due |-> NotNegative(due[i])]
<1>1. /\ 1 \in DOMAIN batch[t] /\ i = batch[t][1] /\ i \in Timers
      /\ \A k \in DOMAIN batch'[t] :
            k + 1 \in DOMAIN batch[t] /\ k + 1 # 1 /\ batch'[t][k] = batch[t][k + 1]
      /\ \A l \in DOMAIN batch[t] :
            l # 1 => l - 1 \in DOMAIN batch'[t] /\ batch'[t][l - 1] = batch[t][l]
      /\ \A u \in Threads \ {t} : batch'[u] = batch[u]
    BY PostShifts
<1>2. /\ timer' = [timer EXCEPT ![i] = IF stop THEN "dropped" ELSE "posted"]
      /\ UNCHANGED <<now, armed, due>>
    BY DEF FirePost, clocks
<1> HIDE DEF i
<1>3. timer[i] = "fired"
    BY <1>1 DEF OneBatchEach
<1>4. \A j \in Timers \ {i} : timer'[j] = timer[j]
    BY <1>2 DEF Types
<1>5. timer'[i] = IF stop THEN "dropped" ELSE "posted"
    BY <1>1, <1>2 DEF Types
<1>6. Live' = Live
    BY <1>1, <1>3, <1>4, <1>5 DEF Live
<1>7. AlarmsWaiting' = AlarmsWaiting
    BY <1>2, <1>6 DEF AlarmsWaiting, AlarmsOf
<1>8. i \in InBatches
    BY <1>1 DEF InBatches
<1>9. InBatches' = InBatches \ {i}
    <2>1. ASSUME NEW u \in Threads, NEW k \in DOMAIN batch'[u]
          PROVE  batch'[u][k] \in InBatches \ {i}
        <3>1. CASE u = t
            BY <1>1, <2>1, <3>1 DEF InBatches, OneBatchEach
        <3>2. CASE u # t
            BY <1>1, <2>1, <3>2 DEF InBatches, OneBatchEach
        <3> QED
            BY <3>1, <3>2
    <2>2. ASSUME NEW u \in Threads, NEW l \in DOMAIN batch[u], batch[u][l] # i
          PROVE  batch[u][l] \in InBatches'
        <3>1. CASE u = t
            <4>1. l # 1
                BY <1>1, <2>2, <3>1
            <4> QED
                BY <1>1, <3>1, <4>1 DEF InBatches
        <3>2. CASE u # t
            BY <1>1, <3>2 DEF InBatches
        <3> QED
            BY <3>1, <3>2
    <2> QED
        BY <2>1, <2>2 DEF InBatches
<1>10. AlarmsTaken' = AlarmsOf(InBatches \ {i})
    BY <1>2, <1>9 DEF AlarmsTaken, AlarmsOf
<1>11. a \in AlarmsTaken /\ AlarmsTaken' = AlarmsTaken \ {a}
    BY <1>8, <1>10, AlarmsWithout DEF AlarmsTaken
<1>12. CASE stop
    <2>1. Rung' = Rung /\ Off' = Off \cup {a.id}
        BY <1>1, <1>3, <1>4, <1>5, <1>12 DEF Rung, Off, InFate
    <2> QED
        BY <1>2, <1>7, <1>11, <2>1 DEF Alarm!Refuse
<1>13. CASE ~stop
    <2>1. Off' = Off /\ Rung' = Rung \cup {a.id}
        BY <1>1, <1>3, <1>4, <1>5, <1>13 DEF Rung, Off, InFate
    <2> QED
        BY <1>2, <1>7, <1>11, <2>1 DEF Alarm!Ring
<1> QED
    BY <1>12, <1>13

\* All that the refinement needs.
AlarmInv == Types /\ Timing /\ EmptyHanded /\ OneBatchEach

\* Every step is one of the abstract service, or none.
LEMMA AlarmStep == AlarmInv /\ [Next]_vars => [Alarm!ANext]_Alarm!avars
<1> SUFFICES ASSUME AlarmInv, [Next]_vars
             PROVE  Alarm!ANext \/ UNCHANGED Alarm!avars
    OBVIOUS
<1>0. Types /\ UnarmedAreNone /\ EmptyHanded /\ OneBatchEach
    BY DEF AlarmInv, Timing
<1>1. ASSUME NEW d \in Delays, Arm(d) PROVE Alarm!ANext
    BY <1>0, <1>1, ArmSets DEF Alarm!ANext
<1>2. ASSUME NEW i \in Timers, Cancel(i) PROVE Alarm!ANext
    BY <1>0, <1>2, CancelCallsOff DEF Alarm!ANext
<1>3. ASSUME NEW t \in Threads, FireCollect(t) PROVE Alarm!ANext
    BY <1>0, <1>3, CollectTakesDue DEF Alarm!ANext
<1>4. ASSUME NEW t \in Threads, FirePost(t) PROVE Alarm!ANext
    BY <1>0, <1>4, PostRings DEF Alarm!ANext
<1>5. CASE ClockGoesOn
    <2>1. UNCHANGED <<armed, AlarmsWaiting, AlarmsTaken, Rung, Off>>
        BY <1>5 DEF ClockGoesOn, AlarmsWaiting, AlarmsTaken, AlarmsOf, InBatches,
                    Live, Rung, Off, InFate
    <2>2. now' > now \/ now' = now
        BY <1>0, <1>5, TypesHold DEF ClockGoesOn, Types
    <2> QED
        BY <2>1, <2>2 DEF Alarm!ANext, Alarm!Advance, Alarm!avars
<1>6. CASE UNCHANGED timing
    BY <1>6 DEF timing, Alarm!avars, AlarmsWaiting, AlarmsTaken, AlarmsOf,
                InBatches, Live, Rung, Off, InFate
<1> QED
    BY <1>0, <1>1, <1>2, <1>3, <1>4, <1>5, <1>6, OtherSteps

\* For all delays, widths and bounds, with the clock's thread and the loop
\* firing at once: the timers keep the promise that TimerService keeps for any
\* threads.  None is posted twice, early, or after it was cancelled while it
\* waited; a post that comes after stop() is refused.
THEOREM LoopImplementsAlarms == Spec => ImplementsAlarms
<1>1. Init => Alarm!AInit
    BY DEF Init, Alarm!AInit, AlarmsWaiting, AlarmsTaken, AlarmsOf, InBatches,
           Live, Rung, Off, InFate
<1>2. Init => AlarmInv
    BY InitHolds, TimingInit, BatchesInit DEF AlarmInv
<1>3. AlarmInv /\ [Next]_vars => AlarmInv'
    BY TypesHold, TimingHolds, EmptyHandedHolds, BatchesHold DEF AlarmInv, Timing
<1> QED
    BY <1>1, <1>2, <1>3, AlarmStep, PTL DEF Spec, ImplementsAlarms, Alarm!ASpec
=============================================================================
