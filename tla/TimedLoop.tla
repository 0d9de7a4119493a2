----------------------------- MODULE TimedLoop -----------------------------
(***************************************************************************)
(* run() and the timer service together: the wait that is bounded by the   *)
(* next due time (include/cortexflow/runtime.hpp, run() and                *)
(* compute_wait_budget()), fire_due() on the loop thread and on the thread *)
(* that advances a ManualClock (timer.hpp, clock.cpp), and the two mutexes *)
(* they take.                                                              *)
(*                                                                         *)
(* Timers live on the runtime's clock, the wait on steady_clock.  The two  *)
(* are one if the runtime was given a SteadyClock; a ManualClock goes only *)
(* when it is advanced.  Durations have the width of their integer.        *)
(*                                                                         *)
(* RunLoop has the queue without timers and TimerService the timers        *)
(* without the loop; both have one mutex and sections that take no other.  *)
(* Here the sections that may wait for a second mutex are split where they *)
(* could.  Timers are armed and cancelled on the loop thread only, as the  *)
(* comment on compute_wait_budget() takes for granted.                     *)
(***************************************************************************)
EXTENDS Integers, Sequences, FiniteSets

CONSTANTS
    Loop,         \* the loop thread
    Ticker,       \* the thread that advances a ManualClock
    Nobody,       \* a mutex that is free
    Plain,        \* an envelope that no timer posted
    Delays,       \* delays passed to arm()
    LastTime,     \* the greatest Clock::duration
    ArmBound,     \* bound: calls to arm()
    ClockBound,   \* bound: the clocks, except that a sleep may end later
    PostBound     \* bound: plain posts by foreign threads

Timers == 1..ArmBound

ASSUME PartsDiffer == Loop # Ticker /\ Nobody \notin {Loop, Ticker}
                      /\ Plain \notin Timers
ASSUME TimedBoundsAreNat ==
    /\ {LastTime, ArmBound, ClockBound, PostBound} \subseteq Nat
    /\ Delays \subseteq 0..LastTime
    /\ ClockBound <= LastTime

Threads == {Loop, Ticker}

\* Signed integers of the width of Clock::duration.
Durations == -(LastTime + 1)..LastTime

\* std::nullopt: no timer is armed, and the wait has no deadline.
Never == LastTime + 1

VARIABLES
    manual,       \* the clock is a ManualClock, not a SteadyClock
    now,          \* clock_->now()
    steady,       \* std::chrono::steady_clock::now()
    queueMutex,   \* mutex_ of the runtime: its owner, or Nobody
    timerMutex,   \* mutex_ of the timer service: its owner, or Nobody
    queue,        \* queue_
    stop,         \* stop_requested_
    pc,           \* pc[t]: where thread t is
    next,         \* compute_wait_budget(): what next_due_at() returned
    budget,       \* what compute_wait_budget() returned
    deadline,     \* when the wait times out
    timer,        \* timer[i]: what has become of the i-th timer
    due,          \* due[i]: its due time
    batch,        \* batch[t]: collected by t, in due order, not yet posted
    armedAt,      \* history: armedAt[i]: when it was armed, and
    delayOf,      \* history: delayOf[i]: for how long
    armed,        \* history: calls to arm() so far
    posts,        \* history: plain posts so far
    asked,        \* history: the reading of the clock behind budget, and
    measured      \* history: that of steady_clock behind deadline

vars == <<manual, now, steady, queueMutex, timerMutex, queue, stop, pc, next,
          budget, deadline, timer, due, batch, armedAt, delayOf, armed, posts,
          asked, measured>>

\* "cancelled" is a tombstone in the heap; "fired" is out of it.
Fates == {"none", "live", "cancelled", "fired", "posted", "dropped"}

\* run() is entered from start(), whose on_start() callbacks may arm.
Init ==
    /\ manual \in BOOLEAN
    /\ now = 0
    /\ steady = 0
    /\ queueMutex = Nobody
    /\ timerMutex = Nobody
    /\ queue = <<>>
    /\ stop = FALSE
    /\ pc = [t \in Threads |-> IF t = Loop THEN "handler" ELSE "idle"]
    /\ next = Never
    /\ budget = Never
    /\ deadline = Never
    /\ timer = [i \in Timers |-> "none"]
    /\ due = [i \in Timers |-> 0]
    /\ batch = [t \in Threads |-> <<>>]
    /\ armedAt = [i \in Timers |-> 0]
    /\ delayOf = [i \in Timers |-> 0]
    /\ armed = 0
    /\ posts = 0
    /\ asked = 0
    /\ measured = 0

clocks == <<manual, now, steady, due, armedAt, delayOf, armed, posts>>
wait == <<next, budget, deadline, asked, measured>>
mutexes == <<queueMutex, timerMutex>>

Goes(t, from, to) == pc[t] = from /\ pc' = [pc EXCEPT ![t] = to]

Live == {i \in Timers : timer[i] = "live"}

-----------------------------------------------------------------------------
(***************************************************************************)
(* A handler on the loop thread: arm(), cancel(), stop().                  *)
(***************************************************************************)

Handling == pc[Loop] \in {"handler", "lastHandler"}

\* A sum or a difference of two durations that leaves their range comes out at
\* the other end.
Wrap(x) ==
    IF x > LastTime THEN x - 2 * (LastTime + 1)
    ELSE IF x < -(LastTime + 1) THEN x + 2 * (LastTime + 1)
    ELSE x

\* arm() adds without a look at the range.
DueAt(delay) == Wrap(now + delay)

\* arm() on whatever thread, under the timers' mutex.
Armed(delay) ==
    /\ timerMutex = Nobody
    /\ armed < ArmBound
    /\ armed' = armed + 1
    /\ timer' = [timer EXCEPT ![armed + 1] = "live"]
    /\ due' = [due EXCEPT ![armed + 1] = DueAt(delay)]
    /\ armedAt' = [armedAt EXCEPT ![armed + 1] = now]
    /\ delayOf' = [delayOf EXCEPT ![armed + 1] = delay]
    /\ UNCHANGED <<manual, now, steady, posts, mutexes, queue, stop, pc, wait,
                   batch>>

\* Mutant of Arm: a foreign thread arms, whatever the loop is doing.
ArmAnywhere(delay) == Armed(delay)

Arm(delay) == Handling /\ Armed(delay)

\* Mutant of Cancel: no look whether the number is still live.
CancelCollected(i) ==
    /\ Handling
    /\ timerMutex = Nobody
    /\ timer[i] \in {"live", "fired"}
    /\ timer' = [timer EXCEPT ![i] = "cancelled"]
    /\ UNCHANGED <<clocks, mutexes, queue, stop, pc, wait, batch>>

Cancel(i) ==
    /\ Handling
    /\ timerMutex = Nobody
    /\ timer[i] = "live"
    /\ timer' = [timer EXCEPT ![i] = "cancelled"]
    /\ UNCHANGED <<clocks, mutexes, queue, stop, pc, wait, batch>>

HandlerEnd ==
    /\ Goes(Loop, "handler", "drain") \/ Goes(Loop, "lastHandler", "last")
    /\ UNCHANGED <<clocks, mutexes, queue, stop, wait, timer, batch>>

-----------------------------------------------------------------------------
(***************************************************************************)
(* Foreign threads and time.  A wake-up is cv_.notify_one() / _all(); its  *)
(* delay after the unlock is RunLoop's subject.                            *)
(***************************************************************************)

\* The loop, if it sleeps, wants mutex_ back.
Woken == [pc EXCEPT ![Loop] = IF @ = "asleep" THEN "awake" ELSE @]

ForeignPost ==
    /\ posts < PostBound
    /\ queueMutex = Nobody
    /\ ~stop
    /\ posts' = posts + 1
    /\ queue' = Append(queue, Plain)
    /\ pc' = Woken
    /\ UNCHANGED <<manual, now, steady, due, armedAt, delayOf, armed, mutexes,
                   stop, wait, timer, batch>>

Stop ==
    /\ ~stop
    /\ queueMutex = Nobody
    /\ stop' = TRUE
    /\ pc' = Woken
    /\ UNCHANGED <<clocks, mutexes, queue, wait, timer, batch>>

\* A sleep with a deadline may outlast the bound.
MayTick ==
    \/ steady < ClockBound
    \/ ~manual /\ pc[Loop] = "asleep" /\ steady < deadline /\ deadline # Never

Tick ==
    /\ MayTick
    /\ steady' = steady + 1
    /\ now' = IF manual THEN now ELSE now + 1
    /\ UNCHANGED <<manual, mutexes, queue, stop, pc, wait, timer, due, batch,
                   armedAt, delayOf, armed, posts>>

\* ManualClock::advance(delta), which goes on to fire_due().
Advance(delta) ==
    /\ manual
    /\ now + delta <= ClockBound
    /\ Goes(Ticker, "idle", "fire")
    /\ now' = now + delta
    /\ UNCHANGED <<manual, steady, mutexes, queue, stop, wait, timer, due, batch,
                   armedAt, delayOf, armed, posts>>

-----------------------------------------------------------------------------
(***************************************************************************)
(* fire_due(), by either thread: lock, collect, unlock, post one by one.   *)
(***************************************************************************)

IsDue(i) == due[i] <= now

\* Earliest due first; equal due times come out in any order.
DueOrders ==
    LET D == {i \in Live : IsDue(i)}
    IN {s \in [1..Cardinality(D) -> D] :
          /\ {s[k] : k \in DOMAIN s} = D
          /\ \A k, l \in DOMAIN s : k < l => due[s[k]] <= due[s[l]]}

\* Tombstones that are due are dropped.
FireCollect(t) ==
    /\ Goes(t, "fire", "collected")
    /\ timerMutex = Nobody
    /\ timerMutex' = t
    /\ \E s \in DueOrders : batch' = [batch EXCEPT ![t] = s]
    /\ timer' = [i \in Timers |->
          IF IsDue(i) /\ timer[i] = "live" THEN "fired"
          ELSE IF IsDue(i) /\ timer[i] = "cancelled" THEN "dropped"
          ELSE timer[i]]
    /\ UNCHANGED <<clocks, queueMutex, queue, stop, wait>>

\* Mutant of FireUnlock: the lock is kept while the batch is posted.
FireUnlockLate(t) ==
    /\ Goes(t, "collected", "post")
    /\ UNCHANGED <<clocks, mutexes, queue, stop, wait, timer, batch>>

FireUnlock(t) ==
    /\ Goes(t, "collected", "post")
    /\ timerMutex' = Nobody
    /\ UNCHANGED <<clocks, queueMutex, queue, stop, wait, timer, batch>>

\* post(): after stop() the envelope is dropped.
FirePost(t) ==
    /\ pc[t] = "post"
    /\ batch[t] # <<>>
    /\ queueMutex = Nobody
    /\ batch' = [batch EXCEPT ![t] = Tail(@)]
    /\ timer' = [timer EXCEPT ![Head(batch[t])] =
                    IF stop THEN "dropped" ELSE "posted"]
    /\ queue' = IF stop THEN queue ELSE Append(queue, Head(batch[t]))
    /\ pc' = IF stop THEN pc ELSE Woken
    /\ UNCHANGED <<clocks, mutexes, stop, wait>>

FireEnd(t) ==
    /\ Goes(t, "post", IF t = Loop THEN "drain" ELSE "idle")
    /\ batch[t] = <<>>
    /\ UNCHANGED <<clocks, mutexes, queue, stop, wait, timer, batch>>

-----------------------------------------------------------------------------
(***************************************************************************)
(* run().                                                                  *)
(***************************************************************************)

WaitLock ==
    /\ Goes(Loop, "wait", "budget")
    /\ queueMutex = Nobody
    /\ queueMutex' = Loop
    /\ UNCHANGED <<clocks, timerMutex, queue, stop, wait, timer, batch>>

\* Mutant of NextDueAt: the heap's top, tombstone or not.
NextDueAtTop ==
    {due[i] : i \in {j \in Timers : timer[j] \in {"live", "cancelled"}}}

\* next_due_at(): tombstones are skipped.
NextDueAt == {due[i] : i \in Live}

Earliest(times) ==
    IF times = {} THEN Never ELSE CHOOSE d \in times : \A e \in times : d <= e

\* compute_wait_budget(), called with mutex_ held, takes the timers' mutex for
\* next_due_at() and gives it back before it reads the clock.
NextDue ==
    /\ Goes(Loop, "budget", "remaining")
    /\ timerMutex = Nobody
    /\ next' = Earliest(NextDueAt)
    /\ UNCHANGED <<clocks, mutexes, queue, stop, budget, deadline, timer, batch,
                   asked, measured>>

\* Mutant of UntilNext: what is overdue is not clamped.
UntilNextUnclamped == IF next = Never THEN Never ELSE Wrap(next - now)

NotNegative(x) == IF x <= 0 THEN 0 ELSE x

UntilNext == IF next = Never THEN Never ELSE NotNegative(Wrap(next - now))

Budget ==
    /\ Goes(Loop, "remaining", "deadline")
    /\ budget' = UntilNext
    /\ asked' = now
    /\ UNCHANGED <<clocks, mutexes, queue, stop, next, deadline, timer, batch,
                   measured>>

\* run() adds the budget to a later reading of steady_clock.
Deadline ==
    /\ Goes(Loop, "deadline", "awake")
    /\ deadline' = IF budget = Never THEN Never ELSE Wrap(steady + budget)
    /\ measured' = steady
    /\ UNCHANGED <<clocks, mutexes, queue, stop, next, budget, timer, batch, asked>>

\* wait_until(lock, deadline, pred): pred is tested under the lock, on entry
\* and after every wake-up.
Pred == queue # <<>> \/ stop

TimedOut == deadline <= steady

Sleep ==
    /\ Goes(Loop, "awake", "asleep")
    /\ queueMutex = Loop
    /\ ~Pred /\ ~TimedOut
    /\ queueMutex' = Nobody
    /\ UNCHANGED <<clocks, timerMutex, queue, stop, wait, timer, batch>>

TimeOut ==
    /\ Goes(Loop, "asleep", "awake")
    /\ TimedOut
    /\ UNCHANGED <<clocks, mutexes, queue, stop, wait, timer, batch>>

\* A notified or timed-out thread locks mutex_ again.
Relock ==
    /\ pc[Loop] = "awake"
    /\ queueMutex = Nobody
    /\ queueMutex' = Loop
    /\ UNCHANGED <<clocks, timerMutex, queue, stop, pc, wait, timer, batch>>

\* The wait is over, and the lock with it: return, or fire.
WaitEnd ==
    /\ Goes(Loop, "awake", IF stop /\ queue = <<>> THEN "returned" ELSE "fire")
    /\ queueMutex = Loop
    /\ Pred \/ TimedOut
    /\ queueMutex' = Nobody
    /\ next' = Never /\ budget' = Never /\ deadline' = Never
    /\ asked' = 0 /\ measured' = 0
    /\ UNCHANGED <<clocks, timerMutex, queue, stop, timer, batch>>

\* run_one(), and the last one before run() returns.
Pop ==
    /\ Goes(Loop, "drain", "handler") \/ Goes(Loop, "last", "lastHandler")
    /\ queueMutex = Nobody
    /\ queue # <<>>
    /\ queue' = Tail(queue)
    /\ UNCHANGED <<clocks, mutexes, stop, wait, timer, batch>>

DrainEnd ==
    /\ Goes(Loop, "drain", "check") \/ Goes(Loop, "last", "returned")
    /\ queueMutex = Nobody
    /\ queue = <<>>
    /\ UNCHANGED <<clocks, mutexes, queue, stop, wait, timer, batch>>

\* The stop flag is read without the lock.
CheckStop ==
    /\ Goes(Loop, "check", IF stop THEN "last" ELSE "wait")
    /\ UNCHANGED <<clocks, mutexes, queue, stop, wait, timer, batch>>

-----------------------------------------------------------------------------
FireStep(t) == FireCollect(t) \/ FireUnlock(t) \/ FirePost(t) \/ FireEnd(t)

LoopStep ==
    \/ HandlerEnd \/ WaitLock \/ NextDue \/ Budget \/ Deadline
    \/ Sleep \/ TimeOut \/ Relock \/ WaitEnd
    \/ Pop \/ DrainEnd \/ CheckStop \/ FireStep(Loop)

Next ==
    \/ \E d \in Delays : Arm(d)
    \/ \E i \in Timers : Cancel(i)
    \/ ForeignPost \/ Stop \/ Tick
    \/ \E delta \in 0..ClockBound : Advance(delta)
    \/ FireStep(Ticker)
    \/ LoopStep

\* A thread that can go on goes on; handlers return; advance() fires before it
\* returns; time passes.  Nothing is assumed of stop(), or of anybody advancing
\* the ManualClock.
Fairness == WF_vars(LoopStep) /\ WF_vars(FireStep(Ticker)) /\ WF_vars(Tick)

Spec == Init /\ [][Next]_vars /\ Fairness

-----------------------------------------------------------------------------
(***************************************************************************)
(* Properties.                                                             *)
(***************************************************************************)

\* Every variable has its type; the budget is never negative.
TypeOK ==
    /\ manual \in BOOLEAN
    /\ {now, steady, asked, measured} \subseteq 0..LastTime
    /\ {queueMutex, timerMutex} \subseteq Threads \cup {Nobody}
    /\ queue \in Seq(Timers \cup {Plain})
    /\ stop \in BOOLEAN
    /\ pc[Loop] \in {"handler", "drain", "check", "last", "lastHandler", "wait",
                     "budget", "remaining", "deadline", "awake", "asleep",
                     "fire", "collected", "post", "returned"}
    /\ pc[Ticker] \in {"idle", "fire", "collected", "post"}
    /\ {next, deadline} \subseteq Durations \cup {Never}
    /\ budget \in 0..Never
    /\ timer \in [Timers -> Fates]
    /\ due \in [Timers -> Durations]
    /\ \A t \in Threads : batch[t] \in Seq(Timers)
    /\ armedAt \in [Timers -> 0..LastTime]
    /\ delayOf \in [Timers -> Delays \cup {0}]
    /\ armed \in 0..ArmBound
    /\ posts \in 0..PostBound

\* A sleeping loop sleeps no longer than any live timer still had to run when
\* the clock was asked, and exactly as long as one that nobody has cancelled:
\* it neither oversleeps nor wakes for nothing, whatever was fired, advanced or
\* let pass between the readings.  So with a SteadyClock it is never early, and
\* late by the time between the two readings.  A ManualClock's earliest due time
\* must not have overflowed for this.  (runtime.hpp: compute_wait_budget() and
\* the deadline run() makes of it; timer.hpp: next_due_at() skips tombstones,
\* whose due time "would over-wake the run loop".)
SleepsUntilTheNextTimer ==
    pc[Loop] = "asleep" /\ (manual => next >= 0) =>
        /\ \A i \in Live : deadline - measured <= due[i] - asked
        /\ deadline = Never
           \/ \E i \in Timers : deadline - measured = due[i] - asked
                 /\ timer[i] \in {"live", "fired", "posted", "dropped"}
        /\ ~manual => asked <= measured

\* No timer fires before its delay has passed, up to the last due time that
\* can be represented.  (timer.hpp: arm() adds in Clock::duration, fire_due()
\* compares with the same clock.)
NeverEarly ==
    \A i \in Timers :
        timer[i] \in {"fired", "posted"} /\ armedAt[i] + delayOf[i] <= LastTime
            => armedAt[i] + delayOf[i] <= now

\* The two mutexes are ordered: who holds the timers' mutex never goes on to
\* wait for mutex_, which run() holds when it asks for the next due time.
\* (timer.hpp: "post after releasing so the runtime's own queue mutex cannot
\* deadlock against ours".)
MutexesAreOrdered ==
    \A t \in Threads : timerMutex = t => pc[t] = "collected"

\* A timer that is due is fired, unless it is cancelled first or the loop is
\* told to stop, although nothing but the deadline may ever wake the loop.  On
\* a ManualClock one whose due time overflowed may keep the loop asleep.
\* (runtime.hpp: "wall-clock-armed timers fire on schedule under production
\* SteadyClock without a ticker thread".)
DueTimersFire ==
    \A i \in Timers :
        timer[i] = "live" /\ IsDue(i)
            ~> \/ timer[i] # "live" \/ stop
               \/ manual /\ \E j \in Live : due[j] < 0

InFate(fates) == {i \in Timers : timer[i] \in fates}

AlarmsOf(timers) == {[id |-> i, due |-> NotNegative(due[i])] : i \in timers}

InBatches == UNION {{batch[t][k] : k \in DOMAIN batch[t]} : t \in Threads}

AlarmsWaiting == AlarmsOf(Live)
AlarmsTaken == AlarmsOf(InBatches)
Rung == InFate({"posted"})
Off == InFate({"cancelled", "dropped"})

Alarm == INSTANCE Alarms
    WITH Representable <- 0..LastTime, clock <- now, count <- armed, waiting <- AlarmsWaiting,
         taken <- AlarmsTaken, rung <- Rung, off <- Off

\* The loop and the clock's thread, firing at once, keep what a timer service
\* promises: no timer is posted twice, early, or after it was cancelled in the
\* heap, and a batch takes out all that is due.  TimerService implements the
\* same abstract service: the two modules agree on what becomes of a timer.
\* (runtime.hpp: run() fires on the loop thread; timer.hpp: fire_due() may run
\* on the clock's at the same time, and cancel_by_seq() looks at live_seqs_.)
ImplementsAlarms == Alarm!ASpec
=============================================================================
