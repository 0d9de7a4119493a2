------------------------------ MODULE RunLoop ------------------------------
(***************************************************************************)
(* The event loop of cortexflow::Runtime (include/cortexflow/runtime.hpp): *)
(* the envelope queue, its mutex and condition variable, the stop flag,    *)
(* the loop thread that starts, runs and shuts the runtime down, and the   *)
(* foreign threads that call post() and stop().                            *)
(*                                                                         *)
(* Granularity.  Every critical section of mutex_ touches memory only, so  *)
(* one section is one action.  Between two sections of the same call, and  *)
(* between the unlock and the notify that follows it, any other thread may *)
(* run.  The loop thread's own posts need no second check: only the loop   *)
(* thread ever clears the stop flag, so the unlocked and the locked check  *)
(* cannot disagree in a way it could see, and its notify finds nobody      *)
(* asleep (it is the only waiter, and it is awake).                        *)
(***************************************************************************)
EXTENDS Integers, Sequences, FiniteSets

CONSTANTS
    Foreign,      \* threads other than the loop thread
    Loop,         \* the thread that owns start(), run() and shutdown()
    NoEnvelope,   \* held by a thread that has no envelope in hand
    DrainBudget,  \* ConfigT::kDrainBudget
    PostBound,    \* bound: posts begun by each thread
    StopBound,    \* bound: calls to stop()
    LifeBound     \* bound: start()..shutdown() lives of the runtime

Threads == Foreign \cup {Loop}

\* An envelope is told apart by who posted it, when, and during which life
\* of the runtime the call to post() began.
Envelope == [from : Threads, n : 1..PostBound, life : 0..LifeBound]

ASSUME LoopIsNotForeign == Loop \notin Foreign
ASSUME NoEnvelopeIsNone == NoEnvelope \notin Envelope
ASSUME BoundsAreNat ==
    /\ DrainBudget \in Nat
    /\ PostBound \in Nat
    /\ StopBound \in Nat
    /\ LifeBound \in Nat

VARIABLES
    queue,        \* queue_
    stop,         \* stop_requested_
    pc,           \* pc[t]: where thread t is
    held,         \* held[t]: the envelope thread t carries, or NoEnvelope
    frame,        \* which call of the loop thread is draining the queue
    drained,      \* shutdown()'s local `drained`
    quiet,        \* history: run() returned and shutdown() has not ended
    sent,         \* history: sent[t] posts begun by thread t
    stops,        \* history: calls to stop() so far
    life,         \* history: calls to start() so far
    accepted,     \* history: envelopes that entered the queue, in order
    served,       \* history: envelopes dispatched or discarded, in order
    lost          \* history: envelopes discarded by shutdown()

vars == <<queue, stop, pc, held, frame, drained, quiet, sent, stops, life,
          accepted, served, lost>>

\* Places where the loop thread runs user code, from which it may post and
\* call stop(): on_start(), a timer's expiry, a handler, on_stop().
Callbacks == {"on_start", "fire", "handler", "on_stop"}

\* Places of the loop thread inside run().
Running == {"wait", "asleep", "fire", "check"}

LoopPC == Callbacks \cup Running
            \cup {"down", "up", "drain", "dispatch", "clear"}

ForeignPC == {"idle", "post", "notify"}

Frames == {"run_one", "run", "last", "shutdown"}

InRun == pc[Loop] \in Running
            \/ (pc[Loop] \in {"drain", "dispatch", "handler"}
                   /\ frame \in {"run", "last"})

InHand == IF pc[Loop] = "dispatch" THEN <<held[Loop]>> ELSE <<>>

Init ==
    /\ queue = <<>>
    /\ stop = FALSE
    /\ pc = [t \in Threads |-> IF t = Loop THEN "down" ELSE "idle"]
    /\ held = [t \in Threads |-> NoEnvelope]
    /\ frame = "run_one"
    /\ drained = 0
    /\ quiet = FALSE
    /\ sent = [t \in Threads |-> 0]
    /\ stops = 0
    /\ life = 0
    /\ accepted = <<>>
    /\ served = <<>>
    /\ lost = {}

history == <<stops, life, lost>>

-----------------------------------------------------------------------------
(***************************************************************************)
(* post(), called by a foreign thread.                                     *)
(***************************************************************************)

NextEnvelope(t) == [from |-> t, n |-> sent[t] + 1, life |-> life]

\* The unlocked check: a call that sees the flag drops its envelope.
PostCheck(t) ==
    /\ pc[t] = "idle"
    /\ sent[t] < PostBound
    /\ sent' = [sent EXCEPT ![t] = @ + 1]
    /\ IF stop
       THEN UNCHANGED <<pc, held>>
       ELSE /\ pc' = [pc EXCEPT ![t] = "post"]
            /\ held' = [held EXCEPT ![t] = NextEnvelope(t)]
    /\ UNCHANGED <<queue, stop, frame, drained, quiet, accepted, served, history>>

\* Mutant of PostLocked: the flag is not read again under the lock.
PostLockedNoRecheck(t) ==
    /\ pc[t] = "post"
    /\ queue' = Append(queue, held[t])
    /\ accepted' = Append(accepted, held[t])
    /\ pc' = [pc EXCEPT ![t] = "notify"]
    /\ held' = [held EXCEPT ![t] = NoEnvelope]
    /\ UNCHANGED <<stop, frame, drained, quiet, sent, served, history>>

\* Mutant of PostLocked: a post notifies only if the queue held something.
PostLockedNoNotify(t) ==
    /\ pc[t] = "post"
    /\ pc' = [pc EXCEPT ![t] = IF stop \/ queue = <<>> THEN "idle" ELSE "notify"]
    /\ queue' = IF stop THEN queue ELSE Append(queue, held[t])
    /\ accepted' = IF stop THEN accepted ELSE Append(accepted, held[t])
    /\ held' = [held EXCEPT ![t] = NoEnvelope]
    /\ UNCHANGED <<stop, frame, drained, quiet, sent, served, history>>

\* The critical section: the flag is read again before the push.
PostLocked(t) ==
    /\ pc[t] = "post"
    /\ IF stop
       THEN /\ pc' = [pc EXCEPT ![t] = "idle"]
            /\ UNCHANGED <<queue, accepted>>
       ELSE /\ queue' = Append(queue, held[t])
            /\ accepted' = Append(accepted, held[t])
            /\ pc' = [pc EXCEPT ![t] = "notify"]
    /\ held' = [held EXCEPT ![t] = NoEnvelope]
    /\ UNCHANGED <<stop, frame, drained, quiet, sent, served, history>>

\* Mutant of StopLocked: notify_all() is left out.
StopLockedNoNotify(t) ==
    /\ pc[t] = "idle"
    /\ stops < StopBound
    /\ stops' = stops + 1
    /\ stop' = TRUE
    /\ UNCHANGED <<queue, pc, held, frame, drained, quiet, sent, life, accepted,
                   served, lost>>

\* stop(), called by a foreign thread: the critical section.
StopLocked(t) ==
    /\ pc[t] = "idle"
    /\ stops < StopBound
    /\ stops' = stops + 1
    /\ stop' = TRUE
    /\ pc' = [pc EXCEPT ![t] = "notify"]
    /\ UNCHANGED <<queue, held, frame, drained, quiet, sent, life, accepted,
                   served, lost>>

\* cv_.notify_one() and cv_.notify_all() after the unlock: the loop thread
\* is the only waiter, so both wake it if it is asleep and do nothing if not.
Notify(t) ==
    /\ pc[t] = "notify"
    /\ pc' = [pc EXCEPT ![t] = "idle",
                        ![Loop] = IF @ = "asleep" THEN "wait" ELSE @]
    /\ UNCHANGED <<queue, stop, held, frame, drained, quiet, sent, accepted,
                   served, history>>

-----------------------------------------------------------------------------
(***************************************************************************)
(* Calls made by user code on the loop thread.                             *)
(***************************************************************************)

\* post() from a handler, on_start(), on_stop() or fire_due().
LoopPost ==
    /\ pc[Loop] \in Callbacks
    /\ sent[Loop] < PostBound
    /\ sent' = [sent EXCEPT ![Loop] = @ + 1]
    /\ IF stop
       THEN UNCHANGED <<queue, accepted>>
       ELSE /\ queue' = Append(queue, NextEnvelope(Loop))
            /\ accepted' = Append(accepted, NextEnvelope(Loop))
    /\ UNCHANGED <<stop, pc, held, frame, drained, quiet, served, history>>

\* stop() from a handler, on_start() or on_stop().
LoopStop ==
    /\ pc[Loop] \in Callbacks \ {"fire"}
    /\ stops < StopBound
    /\ stops' = stops + 1
    /\ stop' = TRUE
    /\ UNCHANGED <<queue, pc, held, frame, drained, quiet, sent, life,
                   accepted, served, lost>>

-----------------------------------------------------------------------------
(***************************************************************************)
(* start(), run_one(), run() and shutdown(), called by the loop thread.    *)
(***************************************************************************)

LoopGoes(from, to) ==
    /\ pc[Loop] = from
    /\ pc' = [pc EXCEPT ![Loop] = to]

\* start() up to on_start().  It touches neither queue_ nor the stop flag.
Start ==
    /\ LoopGoes("down", "on_start")
    /\ life < LifeBound
    /\ life' = life + 1
    /\ UNCHANGED <<queue, stop, held, frame, drained, quiet, sent, stops,
                   accepted, served, lost>>

StartEnd ==
    /\ LoopGoes("on_start", "up")
    /\ UNCHANGED <<queue, stop, held, frame, drained, quiet, sent, accepted,
                   served, history>>

RunOne ==
    /\ LoopGoes("up", "drain")
    /\ frame' = "run_one"
    /\ UNCHANGED <<queue, stop, held, drained, quiet, sent, accepted, served,
                   history>>

Run ==
    /\ LoopGoes("up", "wait")
    /\ UNCHANGED <<queue, stop, held, frame, drained, quiet, sent, accepted,
                   served, history>>

Shutdown ==
    /\ LoopGoes("up", "drain")
    /\ frame' = "shutdown"
    /\ drained' = 0
    /\ UNCHANGED <<queue, stop, held, quiet, sent, accepted, served, history>>

-----------------------------------------------------------------------------
(***************************************************************************)
(* Inside run().                                                           *)
(***************************************************************************)

\* Mutant of WaitSleep: the wait's predicate looks at the queue only.
WaitSleepNoStop ==
    /\ LoopGoes("wait", "asleep")
    /\ queue = <<>>
    /\ UNCHANGED <<queue, stop, held, frame, drained, quiet, sent, accepted,
                   served, history>>

\* cv_.wait(lock, pred) finds pred false: the thread unlocks and sleeps.
WaitSleep ==
    /\ LoopGoes("wait", "asleep")
    /\ queue = <<>>
    /\ ~stop
    /\ UNCHANGED <<queue, stop, held, frame, drained, quiet, sent, accepted,
                   served, history>>

\* A wait may also end with nobody having notified.
SpuriousWake ==
    /\ LoopGoes("asleep", "wait")
    /\ UNCHANGED <<queue, stop, held, frame, drained, quiet, sent, accepted,
                   served, history>>

\* Or because a timer's due time has come: it is fired, whatever the queue.
WaitTimeOut ==
    /\ LoopGoes("asleep", "fire")
    /\ queue = <<>>
    /\ ~stop
    /\ UNCHANGED <<queue, stop, held, frame, drained, quiet, sent, accepted,
                   served, history>>

\* Still under the lock: nothing is queued and stop was requested.
WaitReturn ==
    /\ LoopGoes("wait", "up")
    /\ queue = <<>>
    /\ stop
    /\ quiet' = TRUE
    /\ UNCHANGED <<queue, stop, held, frame, drained, sent, accepted, served,
                   history>>

WaitPass ==
    /\ LoopGoes("wait", "fire")
    /\ queue # <<>>
    /\ UNCHANGED <<queue, stop, held, frame, drained, quiet, sent, accepted,
                   served, history>>

\* fire_due() has posted what was due (LoopPost); run_one() is called.
FireEnd ==
    /\ LoopGoes("fire", "drain")
    /\ frame' = "run"
    /\ UNCHANGED <<queue, stop, held, drained, quiet, sent, accepted, served,
                   history>>

\* Mutant of CheckStop: run() returns without the second run_one().
CheckStopNoSecondDrain ==
    /\ pc[Loop] = "check"
    /\ pc' = [pc EXCEPT ![Loop] = IF stop THEN "up" ELSE "wait"]
    /\ quiet' = (quiet \/ stop)
    /\ UNCHANGED <<queue, stop, held, frame, drained, sent, accepted, served,
                   history>>

\* The flag is read without the lock after the drain.
CheckStop ==
    /\ pc[Loop] = "check"
    /\ IF stop
       THEN /\ pc' = [pc EXCEPT ![Loop] = "drain"]
            /\ frame' = "last"
       ELSE /\ pc' = [pc EXCEPT ![Loop] = "wait"]
            /\ UNCHANGED frame
    /\ UNCHANGED <<queue, stop, held, drained, quiet, sent, accepted, served,
                   history>>

-----------------------------------------------------------------------------
(***************************************************************************)
(* Draining: the pop-and-dispatch loop of run_one() and of shutdown().     *)
(***************************************************************************)

\* Mutant of MayPop: one envelope too many.
MayPopOneMore == frame = "shutdown" => drained <= DrainBudget

MayPop == frame = "shutdown" => drained < DrainBudget

\* Mutant of Pop: the newest envelope is taken first.
PopBack ==
    /\ LoopGoes("drain", "dispatch")
    /\ MayPop
    /\ queue # <<>>
    /\ held' = [held EXCEPT ![Loop] = queue[Len(queue)]]
    /\ queue' = SubSeq(queue, 1, Len(queue) - 1)
    /\ UNCHANGED <<stop, frame, drained, quiet, sent, accepted, served, history>>

Pop ==
    /\ LoopGoes("drain", "dispatch")
    /\ MayPop
    /\ queue # <<>>
    /\ held' = [held EXCEPT ![Loop] = Head(queue)]
    /\ queue' = Tail(queue)
    /\ UNCHANGED <<stop, frame, drained, quiet, sent, accepted, served, history>>

\* dispatch() hands the envelope to its module's handler.
Dispatch ==
    /\ LoopGoes("dispatch", "handler")
    /\ served' = Append(served, held[Loop])
    /\ UNCHANGED <<queue, stop, held, frame, drained, quiet, sent, accepted,
                   history>>

HandlerEnd ==
    /\ LoopGoes("handler", "drain")
    /\ held' = [held EXCEPT ![Loop] = NoEnvelope]
    /\ drained' = IF frame = "shutdown" THEN drained + 1 ELSE drained
    /\ UNCHANGED <<queue, stop, frame, quiet, sent, accepted, served, history>>

\* run_one() finds the queue empty and returns to its caller.
RunOneEnd ==
    /\ pc[Loop] = "drain"
    /\ frame # "shutdown"
    /\ queue = <<>>
    /\ pc' = [pc EXCEPT ![Loop] = IF frame = "run" THEN "check" ELSE "up"]
    /\ quiet' = (quiet \/ frame = "last")
    /\ UNCHANGED <<queue, stop, held, frame, drained, sent, accepted, served,
                   history>>

-----------------------------------------------------------------------------
(***************************************************************************)
(* Inside shutdown().                                                      *)
(***************************************************************************)

ShutdownDrainEnd ==
    /\ LoopGoes("drain", "clear")
    /\ frame = "shutdown"
    /\ queue = <<>> \/ ~MayPop
    /\ UNCHANGED <<queue, stop, held, frame, drained, quiet, sent, accepted,
                   served, history>>

\* A second critical section: whatever is queued by now is discarded.
ShutdownClear ==
    /\ LoopGoes("clear", "on_stop")
    /\ lost' = lost \cup {queue[i] : i \in DOMAIN queue}
    /\ served' = served \o queue
    /\ queue' = <<>>
    /\ UNCHANGED <<stop, held, frame, drained, quiet, sent, stops, life,
                   accepted>>

\* Modules, cache and timers are gone; the two flags are reset.
ShutdownEnd ==
    /\ LoopGoes("on_stop", "down")
    /\ stop' = FALSE
    /\ quiet' = FALSE
    /\ UNCHANGED <<queue, held, frame, drained, sent, accepted, served, history>>

-----------------------------------------------------------------------------
ForeignStep(t) == PostCheck(t) \/ PostLocked(t) \/ StopLocked(t) \/ Notify(t)

\* Steps the loop thread takes once a call is under way.
LoopProgress ==
    \/ StartEnd
    \/ WaitSleep \/ WaitReturn \/ WaitPass \/ FireEnd \/ CheckStop
    \/ Pop \/ Dispatch \/ HandlerEnd \/ RunOneEnd
    \/ ShutdownDrainEnd \/ ShutdownClear \/ ShutdownEnd

LoopStep ==
    \/ LoopPost \/ LoopStop
    \/ Start \/ RunOne \/ Run \/ Shutdown
    \/ SpuriousWake \/ WaitTimeOut
    \/ LoopProgress

Next == (\E t \in Foreign : ForeignStep(t)) \/ LoopStep

Spec == Init /\ [][Next]_vars

(***************************************************************************)
(* Fairness: the operating system schedules the loop thread, and a thread  *)
(* that has left its critical section reaches its notify.  Handlers return *)
(* (HandlerEnd is part of LoopProgress).  Nothing is assumed about timers or*)
(* spurious wake-ups, about posts being made, or about stop() being called.*)
(***************************************************************************)
Fairness ==
    /\ WF_vars(LoopProgress)
    /\ \A t \in Foreign : WF_vars(Notify(t))

FairSpec == Spec /\ Fairness

-----------------------------------------------------------------------------
(***************************************************************************)
(* Properties.                                                             *)
(***************************************************************************)

\* Every variable has its type; `drained` never exceeds the drain budget, so
\* one shutdown() dispatches at most DrainBudget envelopes.
TypeOK ==
    /\ queue \in Seq(Envelope)
    /\ stop \in BOOLEAN
    /\ pc \in [Threads -> LoopPC \cup ForeignPC]
    /\ pc[Loop] \in LoopPC
    /\ \A t \in Foreign : pc[t] \in ForeignPC
    /\ held \in [Threads -> Envelope \cup {NoEnvelope}]
    /\ frame \in Frames
    /\ drained \in 0..DrainBudget
    /\ quiet \in BOOLEAN
    /\ sent \in [Threads -> 0..PostBound]
    /\ stops \in 0..StopBound
    /\ life \in 0..LifeBound
    /\ accepted \in Seq(Envelope)
    /\ served \in Seq(Envelope)
    /\ lost \in SUBSET Envelope

\* No envelope is lost, duplicated or overtaken: what was accepted is, in
\* acceptance order, what was served, then the one in the loop thread's hand,
\* then the queue.  (runtime.hpp: post() appends, run_one() and shutdown()
\* pop the front, each under mutex_.)
Ledger == accepted = served \o InHand \o queue

\* No lost wake-up: whenever the loop thread sleeps although its predicate
\* holds, some thread has left its critical section and will still notify.
\* (runtime.hpp: post() and stop() notify after the unlock, run() tests the
\* predicate under the lock.)
NoLostWakeup ==
    pc[Loop] = "asleep" /\ (queue # <<>> \/ stop)
        => \E t \in Foreign : pc[t] = "notify"

\* From the moment run() returns to the end of shutdown(), the stop flag is
\* set, the queue is empty and stays empty whatever foreign threads do, and no
\* module handler runs: the drain in shutdown() finds nothing.
QuietAfterRun ==
    quiet => /\ stop
             /\ queue = <<>>
             /\ pc[Loop] \notin {"dispatch", "handler"}

Queue == INSTANCE EventQueue WITH open <- ~stop

\* The loop implements the abstract queue: nothing is accepted after stop(),
\* service is in acceptance order, only shutdown() abandons envelopes.
ImplementsQueue == Queue!QSpec

\* An accepted envelope is served (dispatched, in fact: run() discards
\* nothing) as long as the loop thread is inside run().
AcceptedIsServed ==
    \A i \in 1..(PostBound * Cardinality(Threads)) :
        InRun /\ Len(accepted) >= i ~> Len(served) >= i

\* After stop(), run() returns, wherever the request found it.
StopEndsRun == stop /\ InRun ~> ~InRun

\* Once stop() has been called, a late post() by a thread that has not noticed
\* is dropped (runtime.hpp: "posts arriving after `stop()` has been observed
\* are silently dropped").  The code does not keep this promise up to the next
\* start(): shutdown() resets the flag, and a post that arrives afterwards is
\* accepted and waits in queue_ for the next life.
LatePostIsDropped ==
    [][stops > 0 /\ life' <= 1 => accepted' = accepted]_vars
=============================================================================
