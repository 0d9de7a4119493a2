---------------------------- MODULE TimerService ----------------------------
(***************************************************************************)
(* cortexflow::TimerService and its RAII handle cortexflow::Timer          *)
(* (include/cortexflow/timer.hpp).                                         *)
(*                                                                         *)
(* Each critical section of the service's mutex_ is one action.  fire_due()*)
(* has two phases, as in the code: it collects what is due under the lock  *)
(* and posts it, one envelope at a time, after the unlock; every other     *)
(* thread may run in between.  Assigning a freshly armed Timer to a        *)
(* variable that already holds one is two critical sections as well: arm() *)
(* and then the release of the old timer.                                  *)
(*                                                                         *)
(* Time is a counter that may advance at any moment (SteadyClock);         *)
(* ManualClock::advance() is the special case of a Tick followed at once   *)
(* by fire_due() on the same thread.                                       *)
(***************************************************************************)
EXTENDS Integers, FiniteSets

CONSTANTS
    Threads,      \* threads that arm, move, cancel and fire timers
    Handles,      \* variables of type Timer
    Delays,       \* delays passed to arm()
    NoTimer,      \* what an inert handle holds
    ArmBound,     \* bound: calls to arm()
    ClockBound,   \* bound: ticks of the clock
    ClearBound    \* bound: calls to clear()

ASSUME DelaysAreNat == Delays \subseteq Nat
ASSUME NoTimerIsNone == NoTimer \notin [seq : Nat, id : Nat]
ASSUME TimerBoundsAreNat ==
    /\ ArmBound \in Nat
    /\ ClockBound \in Nat
    /\ ClearBound \in Nat

VARIABLES
    now,          \* clock_->now()
    heap,         \* heap_: entries, cancelled ones included
    live,         \* live_seqs_
    nextSeq,      \* next_seq_
    bound,        \* post_fn_ is set
    handle,       \* handle[h]: what the Timer variable h holds
    pc,           \* pc[t]: where thread t is
    fresh,        \* fresh[t]: the temporary Timer that arm() returned to t
    target,       \* target[t]: the variable the temporary is assigned to
    firing,       \* firing[t]: entries t has collected and not yet posted
    armed,        \* history: calls to arm() so far
    posted,       \* history: timers whose envelope was posted
    gone,         \* history: timers whose live mark cancel or clear() erased
    released,     \* history: who released the handle of which timer
    lastDue,      \* history: lastDue[t]: due time of the last timer t posted
    clears        \* history: calls to clear() so far

vars == <<now, heap, live, nextSeq, bound, handle, pc, fresh, target, firing,
          armed, posted, gone, released, lastDue, clears>>

\* An arming is identified by its rank among all calls to arm(); `seq` is the
\* number the service gave it, and all the service knows it by.
Timer == [seq : Nat, id : Nat]
Entry == [seq : Nat, due : Nat, id : Nat]

\* A failed assertion ends the process.
Running == \A t \in Threads : pc[t] # "faulted"

Idle(t) == Running /\ pc[t] = "idle"

Init ==
    /\ now = 0
    /\ heap = {}
    /\ live = {}
    /\ nextSeq = 1
    /\ bound = FALSE
    /\ handle = [h \in Handles |-> NoTimer]
    /\ pc = [t \in Threads |-> "idle"]
    /\ fresh = [t \in Threads |-> NoTimer]
    /\ target = [t \in Threads |-> NoTimer]
    /\ firing = [t \in Threads |-> {}]
    /\ armed = 0
    /\ posted = {}
    /\ gone = {}
    /\ released = {}
    /\ lastDue = [t \in Threads |-> 0]
    /\ clears = 0

-----------------------------------------------------------------------------
Seqs(entries) == {e.seq : e \in entries}
Ids(entries) == {e.id : e \in entries}

LiveEntries == {e \in heap : e.seq \in live}

\* Mutant of CancelSeq: the number stays live.
CancelSeqForgets(seq) ==
    /\ UNCHANGED live
    /\ gone' = gone \cup Ids({e \in LiveEntries : e.seq = seq})

\* cancel_by_seq(seq), the work of a handle's release().  It is lazy: the heap
\* entry stays behind as a tombstone.  A number that is no longer live (fired,
\* cancelled) is ignored.
CancelSeq(seq) ==
    /\ live' = live \ {seq}
    /\ gone' = gone \cup Ids({e \in LiveEntries : e.seq = seq})

\* release(): an inert handle does nothing.
Release(t, timer) ==
    IF timer = NoTimer
    THEN UNCHANGED <<live, gone, released>>
    ELSE /\ CancelSeq(timer.seq)
         /\ released' = released \cup {<<t, timer.id>>}

\* A variable that another thread is assigning to is that thread's business.
Free(h) == \A t \in Threads : pc[t] = "assign" => target[t] # h

-----------------------------------------------------------------------------
(***************************************************************************)
(* arm(), and the assignment of the handle it returns.                     *)
(***************************************************************************)

\* Mutant of Due: the delay counts backwards.
DueBackwards(delay) == now - delay

Due(delay) == now + delay

ArmTimer(t, h, delay) ==
    /\ Idle(t) /\ Free(h)
    /\ armed < ArmBound
    /\ armed' = armed + 1
    /\ heap' = heap \cup
          {[seq |-> nextSeq, due |-> Due(delay), id |-> armed + 1]}
    /\ live' = live \cup {nextSeq}
    /\ nextSeq' = nextSeq + 1
    /\ fresh' = [fresh EXCEPT ![t] = [seq |-> nextSeq, id |-> armed + 1]]
    /\ target' = [target EXCEPT ![t] = h]
    /\ pc' = [pc EXCEPT ![t] = "assign"]
    /\ UNCHANGED <<now, bound, handle, firing, posted, gone, released, lastDue,
                   clears>>

\* operator=(Timer&&): release the old timer, take over the new one, and
\* leave the temporary inert.
Assign(t) ==
    /\ Running
    /\ pc[t] = "assign"
    /\ Release(t, handle[target[t]])
    /\ handle' = [handle EXCEPT ![target[t]] = fresh[t]]
    /\ fresh' = [fresh EXCEPT ![t] = NoTimer]
    /\ target' = [target EXCEPT ![t] = NoTimer]
    /\ pc' = [pc EXCEPT ![t] = "idle"]
    /\ UNCHANGED <<now, heap, nextSeq, bound, firing, armed, posted, lastDue,
                   clears>>

\* to = std::move(from): release what `to` held, and leave `from` inert.
MoveHandle(t, from, to) ==
    /\ Idle(t) /\ Free(from) /\ Free(to)
    /\ from # to
    /\ handle[from] # NoTimer
    /\ Release(t, handle[to])
    /\ handle' = [handle EXCEPT ![to] = handle[from], ![from] = NoTimer]
    /\ UNCHANGED <<now, heap, nextSeq, bound, pc, fresh, target, firing, armed,
                   posted, lastDue, clears>>

\* cancel() or the destructor of a handle.
DropHandle(t, h) ==
    /\ Idle(t) /\ Free(h)
    /\ handle[h] # NoTimer
    /\ Release(t, handle[h])
    /\ handle' = [handle EXCEPT ![h] = NoTimer]
    /\ UNCHANGED <<now, heap, nextSeq, bound, pc, fresh, target, firing, armed,
                   posted, lastDue, clears>>

-----------------------------------------------------------------------------
(***************************************************************************)
(* fire_due().                                                             *)
(***************************************************************************)

IsDue(e) == e.due <= now

\* Mutant of Collected: tombstones fire as well.
CollectedWithTombstones == {e \in heap : IsDue(e)}

\* Entries that will be posted: due, and not cancelled.
Collected == {e \in LiveEntries : IsDue(e)}

\* First phase, under the lock: due entries leave the heap, tombstones among
\* them are dropped, live ones are collected.  Posting with no sink asserts.
FireCollect(t) ==
    /\ Idle(t)
    /\ \E e \in heap : IsDue(e)
    /\ heap' = {e \in heap : ~IsDue(e)}
    /\ live' = live \ Seqs(Collected)
    /\ firing' = [firing EXCEPT ![t] = Collected]
    /\ pc' = [pc EXCEPT ![t] = IF Collected = {} THEN "idle"
                               ELSE IF bound THEN "firing"
                               ELSE "faulted"]
    /\ UNCHANGED <<now, nextSeq, bound, handle, fresh, target, armed, posted,
                   gone, released, lastDue, clears>>

\* Mutant of MayPostNext: a comparator the wrong way round.
MayPostNextLatest(e, batch) == \A f \in batch : f.due <= e.due

\* Earliest due first; the order of equal due times is the heap's secret.
MayPostNext(e, batch) == \A f \in batch : e.due <= f.due

\* Second phase, lock released: post the next one of the batch.
FirePost(t) ==
    /\ Running
    /\ pc[t] = "firing"
    /\ \E e \in firing[t] :
          /\ MayPostNext(e, firing[t])
          /\ posted' = posted \cup {e.id}
          /\ lastDue' = [lastDue EXCEPT ![t] = e.due]
          /\ firing' = [firing EXCEPT ![t] = @ \ {e}]
          /\ pc' = [pc EXCEPT ![t] = IF firing[t] = {e} THEN "idle" ELSE @]
    /\ UNCHANGED <<now, heap, live, nextSeq, bound, handle, fresh, target,
                   armed, gone, released, clears>>

-----------------------------------------------------------------------------
(***************************************************************************)
(* The runtime's calls, and time.                                          *)
(***************************************************************************)

\* bind_post(), from start().
Bind(t) ==
    /\ Idle(t)
    /\ bound' = TRUE
    /\ UNCHANGED <<now, heap, live, nextSeq, handle, pc, fresh, target, firing,
                   armed, posted, gone, released, lastDue, clears>>

\* Mutant of Clear: next_seq_ starts over.
ClearRestartsCount(t) ==
    /\ Idle(t)
    /\ clears < ClearBound
    /\ clears' = clears + 1
    /\ heap' = {}
    /\ live' = {}
    /\ nextSeq' = 1
    /\ bound' = FALSE
    /\ gone' = gone \cup Ids(LiveEntries)
    /\ UNCHANGED <<now, handle, pc, fresh, target, firing, armed, posted,
                   released, lastDue>>

\* clear(), from shutdown().  next_seq_ goes on counting.
Clear(t) ==
    /\ Idle(t)
    /\ clears < ClearBound
    /\ clears' = clears + 1
    /\ heap' = {}
    /\ live' = {}
    /\ bound' = FALSE
    /\ gone' = gone \cup Ids(LiveEntries)
    /\ UNCHANGED <<now, nextSeq, handle, pc, fresh, target, firing, armed,
                   posted, released, lastDue>>

Tick ==
    /\ Running
    /\ now < ClockBound
    /\ now' = now + 1
    /\ UNCHANGED <<heap, live, nextSeq, bound, handle, pc, fresh, target,
                   firing, armed, posted, gone, released, lastDue, clears>>

-----------------------------------------------------------------------------
Next ==
    \/ \E t \in Threads, h \in Handles, d \in Delays : ArmTimer(t, h, d)
    \/ \E t \in Threads : Assign(t)
    \/ \E t \in Threads, h, g \in Handles : MoveHandle(t, h, g)
    \/ \E t \in Threads, h \in Handles : DropHandle(t, h)
    \/ \E t \in Threads : FireCollect(t)
    \/ \E t \in Threads : FirePost(t)
    \/ \E t \in Threads : Bind(t)
    \/ \E t \in Threads : Clear(t)
    \/ Tick

Spec == Init /\ [][Next]_vars

-----------------------------------------------------------------------------
(***************************************************************************)
(* Properties.                                                             *)
(***************************************************************************)

\* Every variable has its type.
TypeOK ==
    /\ now \in Nat
    /\ heap \subseteq Entry
    /\ live \subseteq Nat
    /\ nextSeq \in Nat
    /\ bound \in BOOLEAN
    /\ handle \in [Handles -> Timer \cup {NoTimer}]
    /\ pc \in [Threads -> {"idle", "assign", "firing", "faulted"}]
    /\ fresh \in [Threads -> Timer \cup {NoTimer}]
    /\ target \in [Threads -> Handles \cup {NoTimer}]
    /\ firing \in [Threads -> SUBSET Entry]
    /\ armed \in Nat
    /\ posted \subseteq Nat
    /\ gone \subseteq Nat
    /\ released \subseteq Threads \X Nat
    /\ lastDue \in [Threads -> Nat]
    /\ clears \in Nat

Waiting == Ids(LiveEntries)
InFlight == UNION {Ids(firing[t]) : t \in Threads}

\* Every timer ever armed is in exactly one place: waiting, collected by one
\* firing thread, posted, or gone (cancelled while it waited, or cleared).  So
\* no timer fires twice, none fires that was cancelled while it waited, and
\* none is forgotten.  (timer.hpp: arm(), cancel_by_seq(), fire_due(), clear().)
EveryTimerInOnePlace ==
    /\ 1..armed = Waiting \cup InFlight \cup posted \cup gone
    /\ Waiting \cap InFlight = {}
    /\ (Waiting \cup InFlight) \cap (posted \cup gone) = {}
    /\ posted \cap gone = {}
    /\ \A t, u \in Threads : t # u => Ids(firing[t]) \cap Ids(firing[u]) = {}

HandleValues == {handle[h] : h \in Handles} \cup {fresh[t] : t \in Threads}

\* A live timer has exactly one handle, and a handle that still carries a live
\* number was made by the arming that number stands for: dropping a handle
\* never cancels somebody else's timer, not even across clear().
\* (timer.hpp: the moves and release() of Timer; clear() keeps next_seq_.)
EveryLiveTimerHasItsHandle ==
    /\ \A e \in LiveEntries :
          /\ \E v \in HandleValues : v # NoTimer /\ v.seq = e.seq
          /\ \A v \in HandleValues :
                v # NoTimer /\ v.seq = e.seq => v.id = e.id
    /\ \A h, g \in Handles : handle[h] = handle[g] /\ h # g => handle[h] = NoTimer
    /\ \A h \in Handles, t \in Threads : handle[h] = fresh[t] => handle[h] = NoTimer

\* Each thread posts expiries in the order of their due times, across its
\* batches too: what another thread leaves or arms meanwhile is never due
\* earlier than what was posted.  (timer.hpp: the whole heap walk happens under
\* the lock, and arm() refuses negative delays.)
PostedInDueOrder ==
    \A t \in Threads : \A e \in firing[t] : lastDue[t] <= e.due

Released(by) == {r[2] : r \in {p \in released : p[1] \in by}}

PostedBy(t) == (posted' \ posted) \cap Ids(firing[t])

\* Cancelling is synchronous: once the handle is released, the envelope of its
\* timer is not posted any more.  (timer.hpp, on Timer: "cancels the timer
\* synchronously -- its envelope is not posted".)
CancelIsSynchronous == [][(posted' \ posted) \cap Released(Threads) = {}]_vars

\* What the code does keep of that promise: a thread never posts a timer whose
\* handle it has itself released, whatever the others collect meanwhile.
\* (timer.hpp: a number leaves live_seqs_ under the lock that collects.)
OwnCancelIsSynchronous ==
    [][\A t \in Threads : PostedBy(t) \cap Released({t}) = {}]_vars

\* An entry as the code that armed the timer sees it.
AlarmsOf(entries) == {[id |-> e.id, due |-> e.due] : e \in entries}

AlarmsWaiting == AlarmsOf(LiveEntries)
AlarmsTaken == AlarmsOf(UNION {firing[t] : t \in Threads})

Alarm == INSTANCE Alarms
    WITH Representable <- Nat, clock <- now, count <- armed, waiting <- AlarmsWaiting,
         taken <- AlarmsTaken, rung <- posted, off <- gone

\* The service implements the abstract one, whatever threads and handles do.
\* (timer.hpp: what arm() promises of a timer is kept by the heap with its
\* tombstones, the live numbers and the two phases of fire_due().)
ImplementsAlarms == Alarm!ASpec
=============================================================================
