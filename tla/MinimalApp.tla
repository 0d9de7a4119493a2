----------------------------- MODULE MinimalApp -----------------------------
(***************************************************************************)
(* The minimal example (examples/minimal_app): Producer counts and writes  *)
(* the cache key Counter, Consumer's flow answers each change, after a     *)
(* delay, with Done, and Done makes Producer count again.                  *)
(*                                                                         *)
(* The runtime below it is RunLoop, TimedLoop and Cache with less detail:  *)
(* the queue is FIFO and closed by stop(), a handler is one step (none of  *)
(* these posts more than once), an armed timer fires some time later, and  *)
(* a change is announced to the one subscriber while there is one.         *)
(***************************************************************************)
EXTENDS Integers, Sequences, FiniteSets

CONSTANTS
    CountBound,   \* bound: bumps handled in one life
    PostBound,    \* bound: bumps posted from outside
    LifeBound     \* bound: start()..shutdown() lives

ASSUME AppBoundsAreNat == {CountBound, PostBound, LifeBound} \subseteq Nat

VARIABLES
    phase,        \* which call of the App the loop thread is in
    open,         \* stop() has not been called
    queue,        \* the runtime's queue
    counter,      \* Producer::counter_
    acks,         \* Producer::acks_
    cached,       \* the cache's value of Counter
    state,        \* the state of Consumer's flow; Idle's locals subscribe
    armed,        \* Processing's timer waits in the timer service
    visits,       \* history: subscriptions made in this life
    early,        \* history: bumps left in the queue by posts before start()
    outside,      \* history: bumps accepted from outside since start()
    posts,        \* history: bumps posted from outside
    lives         \* history: calls to start()

vars == <<phase, open, queue, counter, acks, cached, state, armed, visits,
          early, outside, posts, lives>>

Bump == [type |-> "Bump"]
Done == [type |-> "Done"]
ProcessingTick == [type |-> "ProcessingTick"]
KeyChanged == [type |-> "KeyChanged", visit |-> visits]

\* The states of Consumer's flow.
States == {"Idle", "Processing"}

Init ==
    /\ phase = "down"
    /\ open = TRUE
    /\ queue = <<>>
    /\ counter = 0 /\ acks = 0 /\ cached = 0
    /\ state = "Idle" /\ armed = FALSE /\ visits = 0
    /\ early = 0 /\ outside = 0 /\ posts = 0 /\ lives = 0

history == <<early, posts, lives>>
producer == <<counter, acks, cached>>
consumer == <<state, armed, visits>>

Accepted(env) == IF open THEN <<env>> ELSE <<>>

-----------------------------------------------------------------------------
\* start(): the cache and the two modules are new; Producer::on_start() seeds
\* a Bump, Consumer::on_start() starts the flow in Idle, which subscribes and
\* ignores the init envelope.  The queue is not cleared.
Start ==
    /\ phase = "down"
    /\ lives < LifeBound
    /\ lives' = lives + 1
    /\ phase' = "run"
    /\ early' = Len(queue)
    /\ outside' = 0
    /\ queue' = queue \o Accepted(Bump)
    /\ counter' = 0 /\ acks' = 0 /\ cached' = 0
    /\ state' = "Idle" /\ armed' = FALSE /\ visits' = 1
    /\ UNCHANGED <<open, posts>>

\* App::post() and App::stop(), from any thread.
PostBump ==
    /\ posts < PostBound
    /\ posts' = posts + 1
    /\ queue' = queue \o Accepted(Bump)
    /\ outside' = outside + Len(Accepted(Bump))
    /\ UNCHANGED <<phase, open, producer, consumer, early, lives>>

Stop ==
    /\ open
    /\ open' = FALSE
    /\ UNCHANGED <<phase, queue, producer, consumer, outside, history>>

\* The timer service posts what is due, while run() waits.
TimerFires ==
    /\ phase = "run"
    /\ armed
    /\ armed' = FALSE
    /\ queue' = queue \o Accepted(ProcessingTick)
    /\ UNCHANGED <<phase, open, producer, state, visits, outside, history>>

-----------------------------------------------------------------------------
(***************************************************************************)
(* Handlers.  Takes(env, more): env is at the front, and what its handler  *)
(* posts goes to the back.                                                 *)
(***************************************************************************)
Takes(env, more) ==
    /\ phase \in {"run", "shutdown"}
    /\ queue # <<>>
    /\ Head(queue) = env
    /\ queue' = Tail(queue) \o more
    /\ UNCHANGED <<phase, open, outside, history>>

\* Mutant of OnBump: the value is written before it is counted up.
OnBumpWritesOld ==
    /\ counter < CountBound
    /\ Takes(Bump, IF state = "Idle" THEN Accepted(KeyChanged) ELSE <<>>)
    /\ counter' = counter + 1
    /\ cached' = counter
    /\ UNCHANGED <<acks, consumer>>

\* Producer::on(Bump&): the write always changes the value; whoever has
\* subscribed is told.
OnBump ==
    /\ counter < CountBound
    /\ Takes(Bump, IF state = "Idle" THEN Accepted(KeyChanged) ELSE <<>>)
    /\ counter' = counter + 1
    /\ cached' = counter + 1
    /\ UNCHANGED <<acks, consumer>>

\* Mutant of OnDone: the acknowledgement does not start the next round.
OnDoneStops ==
    /\ Takes(Done, <<>>)
    /\ acks' = acks + 1
    /\ UNCHANGED <<counter, cached, consumer>>

\* Producer::on(Done&).
OnDone ==
    /\ Takes(Done, Accepted(Bump))
    /\ acks' = acks + 1
    /\ UNCHANGED <<counter, cached, consumer>>

\* Mutant of EnterProcessing: Processing forgets its timer.
EnterProcessingUnarmed ==
    /\ state' = "Processing"
    /\ UNCHANGED <<armed, visits>>

\* transition_to<Processing>(): Idle's subscription ends, the timer is armed.
EnterProcessing ==
    /\ state' = "Processing"
    /\ armed' = TRUE
    /\ UNCHANGED visits

\* transition_to<Idle>(): the timer, should it still run, is cancelled, and
\* Idle subscribes anew.
EnterIdle ==
    /\ state' = "Idle"
    /\ armed' = FALSE
    /\ visits' = visits + 1

\* Consumer::handle() hands KeyChanged to the flow: Idle leaves, Processing
\* stays.  A change announced to an earlier subscription looks the same.
OnKeyChanged ==
    /\ \E v \in 1..visits : Takes([type |-> "KeyChanged", visit |-> v], <<>>)
    /\ IF state = "Idle" THEN EnterProcessing ELSE UNCHANGED consumer
    /\ UNCHANGED producer

\* Mutant of OnTick: the tick is answered and not handed to the flow.
OnTickStays ==
    /\ Takes(ProcessingTick, Accepted(Done))
    /\ UNCHANGED <<producer, consumer>>

\* Consumer::handle() answers a tick with Done in whatever state it comes, and
\* hands it to the flow: Processing leaves, Idle stays.
OnTick ==
    /\ Takes(ProcessingTick, Accepted(Done))
    /\ IF state = "Processing" THEN EnterIdle ELSE UNCHANGED consumer
    /\ UNCHANGED producer

-----------------------------------------------------------------------------
\* run() returns once stop() is seen and the queue is drained; or the loop is
\* driven by run_one() and left without a stop().  shutdown() drains what
\* there is, fires no timer any more, and destructs: Processing's locals
\* cancel their timer, Idle's give back their subscription.
Shutdown ==
    /\ phase = "run"
    /\ phase' = "shutdown"
    /\ UNCHANGED <<open, queue, producer, consumer, outside, history>>

ShutdownDrained ==
    /\ phase = "shutdown"
    /\ queue = <<>>
    /\ phase' = "drained"
    /\ UNCHANGED <<open, queue, producer, consumer, outside, history>>

\* What was accepted since the drain is discarded.
ShutdownEnd ==
    /\ phase = "drained"
    /\ phase' = "down"
    /\ queue' = <<>>
    /\ open' = TRUE
    /\ armed' = FALSE
    /\ UNCHANGED <<producer, state, visits, outside, history>>

-----------------------------------------------------------------------------
LoopStep ==
    OnBump \/ OnDone \/ OnKeyChanged \/ OnTick \/ ShutdownDrained \/ ShutdownEnd

Next == Start \/ PostBump \/ Stop \/ TimerFires \/ LoopStep \/ Shutdown

\* The loop goes on, and an armed timer is due some day (TimedLoop shows that
\* it then fires).  Nothing is assumed of the App's callers.
Spec == Init /\ [][Next]_vars /\ WF_vars(LoopStep) /\ WF_vars(TimerFires)

-----------------------------------------------------------------------------
(***************************************************************************)
(* Properties.                                                             *)
(***************************************************************************)

Envelope == {Bump, Done, ProcessingTick}
              \cup {[type |-> "KeyChanged", visit |-> v] : v \in 1..visits}

\* Every variable has its type; the cache shows what Producer counted.
TypeOK ==
    /\ phase \in {"down", "run", "shutdown", "drained"}
    /\ {open, armed} \subseteq BOOLEAN
    /\ queue \in Seq(Envelope)
    /\ counter \in 0..CountBound /\ cached = counter
    /\ state \in States
    /\ {acks, visits, early, outside, posts, lives} \subseteq Nat

Queued(type) == Cardinality({i \in DOMAIN queue : queue[i].type = type})
One(condition) == IF condition THEN 1 ELSE 0

\* Nothing is counted twice and no round is lost: every bump is the seed, one
\* from outside or the answer to an acknowledgement; every visit to Processing
\* ends in one acknowledgement.  (producer.cpp: on_start(), on(Bump&),
\* on(Done&); consumer.cpp: handle().)
WorkIsConserved ==
    open /\ phase # "down" =>
        /\ counter + Queued("Bump") = 1 + acks + early + outside
        /\ visits - 1 = acks + Queued("Done")

\* Processing has exactly one tick on its way, in the timer service or in the
\* queue, and Idle none: Consumer::handle() acknowledges a tick whatever the
\* state, so a stale one would start a second round.  What is queued for Idle
\* was announced to its present subscription.  (consumer.cpp: the timer and
\* the subscription live in the locals of their states.)
TokensMeetTheirState ==
    open /\ phase # "down" =>
        /\ One(armed) + Queued("ProcessingTick") = One(state = "Processing")
        /\ state = "Idle" => \A i \in DOMAIN queue :
              queue[i].type = "KeyChanged" => queue[i].visit = visits

\* The rounds go on for as long as run() does: a change is never missed for
\* want of a subscription at the moment it is made.  (producer.cpp: Done is
\* sent before Idle subscribes, but handled after.)
RoundsGoOn ==
    \A n \in 0..(CountBound - 1) :
        phase = "run" /\ counter = n ~> counter > n \/ ~open \/ phase # "run"
=============================================================================
