# CortexFlow: specifications, model checks and proofs

CortexFlow is a header-only C++17 framework for event-driven embedded programs.
An application is a list of *modules*; a *runtime* owns them, a queue of
*envelopes*, a *cache* of typed keys with subscriptions, and a *timer service*.
One thread runs the loop; any thread may post. This directory specifies the
framework in TLA+, checks the specifications with TLC and proves with TLAPS, for
every value of the constants, the safety properties of nine of its ten systems:
the loop, its wait, the timers, the cache, the flow engine, the messages, the
runtime's teardown and the two example applications; only the button example's
driver has a model and no proof.

## Inventory

| component | state | operations | who calls it |
|---|---|---|---|
| Runtime loop (`runtime.hpp`) | `queue_`, `stop_requested_`, `mutex_`, `cv_`, `started_` | `post`, `stop`, `start`, `run_one`, `run`, `shutdown` | `post` and `stop`: any thread, handlers, cache, timers; the rest: the loop thread |
| Timer service, `Timer` (`timer.hpp`) | heap, live numbers, next number, post sink | `arm`, cancel through a handle, `fire_due`, `clear`, `bind_post`, `next_due_at` | handlers and foreign threads; `run` and `ManualClock::advance` fire |
| Cache, `Subscription` (`cache.hpp`, `subscription.hpp`) | one slot per key, subscription pool, registration order | `get`, `set` (fan-out), `subscribe`, release through a handle | loop thread only |
| Flow (`flow.hpp`) | current state, state-locals buffer, `active_`, `in_step_` | `start`, `step`, `terminate`, `restart` | the owning module |
| Messages (`messaging.hpp`) | payload ownership, allocator lock | `make_message`, envelope moves, destruction | every poster, the queue |
| Module (`module.hpp`) | inbox table | `handle`, `send`, `reply_to` | `dispatch` |
| Lifecycle (`runtime.hpp`) | modules, cache, timers, `started_` | constructor, `start`, `on_start`, `on_stop`, `shutdown`, destructor | the owner's thread |
| Clock (`clock.hpp`, `clock.cpp`) | manual time, one advance handler | `now`, `advance` | timer service, tests |
| Example applications (`examples/`) | producer and consumer; debouncer, classifier, UI; a driver with its signal mask | handlers, flows, a reader thread, a signal handler | the runtime |
| Trace, faults, type names, platform backends, diagram scripts | none the rest reads | | |

How they interact. `post()` appends under `mutex_` and notifies after the
unlock; `run()` sleeps on the condition variable until the queue is not empty or
stop was requested, fires due timers (each firing is a `post()`), drains, and
looks at the stop flag without the lock. A handler may post, stop, write the
cache (each write is a `post()` per subscriber) and arm or cancel timers. The
cache and the timer service know the runtime only as a post sink. `Timer` and
`Subscription` are move-only handles whose destructor cancels.

What is hard, and what makes each part correct:

- **Loop.** Producers race with the stop request, with the predicate of the wait
  and with shutdown's two critical sections. Correct means: nothing lost,
  duplicated or overtaken; no lost wake-up; `run()` returns after `stop()`; what
  was accepted is served; the runtime is silent after `run()`.
- **Timers.** `fire_due()` posts outside its lock; cancelling is lazy; handles
  may outlive `clear()`. Correct means: each timer fires at most once and only
  if not cancelled, expiries come in due order, a handle only ever cancels its
  own timer.
- **Cache.** The pool is an array with a separate order list, changed by handles
  that are moved and dropped in any order. Correct means: the two agree, no slot
  leaks, only overflow faults, subscribers learn every change although it comes to
  them through the queue, under the module's address.
- **Flow.** `step()`, callbacks and restarts nest. Correct means: the locals of
  the current state, and no others, are alive while the flow is active; the
  reentrancy flag is right at every depth.
- **Button example.** A timer's payload may be queued when its state is left, and
  two functions judge each envelope by different criteria. Correct means: one
  gesture per debounced press, the mode follows the gestures, no state waits for
  ever.
- **Messages.** Ownership passes from allocator to envelope to queue to handler.
  Correct means: each payload is freed once, under the allocator that made it,
  and nobody locks the allocator twice.
- **Dispatch.** `send` is checked when compiled, `reply_to` and `post` are not; of the
  two checks, that the target has a handler is always made, that it is in the
  `ModuleList` only if the sending module names the list. Correct means: a typed send
  never fails on dispatch, but for a target outside a list its sender does not name.
- **Loop and timers together.** `run()` holds one mutex while it asks for the
  other, and sleeps on a deadline put together from three readings, of two clocks, with
  time passing in between. Correct means: the two mutexes are ordered, the sleep is as
  long as the next timer had still to run, and a due timer fires though nothing else
  wakes the loop.
- **Minimal example.** One token goes round between queue, cache, flow and timer.
  Correct means: it is neither lost nor doubled.
- **Lifecycle.** Modules hold handles into cache and timers. Correct means: nothing
  is used after its destruction.
- **Driver.** A signal handler locks the mutex of the thread it interrupts. Correct
  means: the signal ends the program.

PROJECT.json lists the hazards, each at its line.

## Modules

| module | models | proved in |
|---|---|---|
| `EventQueue` | abstract specification: a FIFO queue that opens and closes | |
| `RunLoop` | the loop thread and foreign threads around `mutex_` and `cv_` | `RunLoopProofs` |
| `Alarms` | abstract specification: what becomes of a timer | |
| `TimerService`, `MCTimerService` | the timer service, its handles, time | `TimerServiceProofs` |
| `TimedLoop` | `run()` and the timer service together: bounded wait, two mutexes | `TimedLoopProofs` |
| `Cache`, `MCCache` | the cache, the subscription pool, its handles | `CacheProofs` |
| `Flow` | the flow engine: directives, nested callbacks, lifetime of locals | `FlowProofs` |
| `Messaging`, `MCMessaging` | payloads and their owners, the allocator's lock, typed sends, replies, routing | `MessagingProofs` |
| `Lifecycle` | construction and destruction of a runtime and its parts | `MinimalAppProofs` |
| `MinimalApp` | the minimal example on queue, cache, flow and timer | `MinimalAppProofs` |
| `ButtonUi` | abstract specification: one gesture per press | |
| `ButtonPipeline` | the button example on the loop, the queue and three timers | `ButtonPipelineProofs` |
| `ButtonMain` | the button example's driver: main, reader, SIGINT handler | |

Each module holds, next to the definition it stands for, the mutants of that
definition: what a plausible bug there would look like. They are not part of
`Next`; with a mutant in place of its original, the property it is listed with
in PROJECT.json must fail.

### RunLoop

One action per critical section of `mutex_`. `pc[t]` is where a thread is;
`held[t]` the envelope it carries; `frame` which of `run_one()`, the first or
last drain of `run()`, or `shutdown()` the loop thread is draining for.

- A foreign `post()` is `PostCheck` (unlocked read of the stop flag),
  `PostLocked` (second read, push) and `Notify`; `stop()` is `StopLocked` and
  `Notify`. Anything may happen in between, up to a whole `shutdown()` and
  `start()`.
- The loop thread's `post()` and `stop()` are one action each (`LoopPost`,
  `LoopStop`), possible wherever user code runs: `on_start`, a timer's expiry, a
  handler, `on_stop`. The module comment says why that loses nothing.
- `run()` is `WaitSleep`, `SpuriousWake`, `WaitTimeOut`, `WaitReturn`, `WaitPass`,
  `FireEnd`, the drain, and `CheckStop`; a wait may time out with an empty queue at any
  moment or never, as there are no timers here and `TimedLoop` says when; the drain is `Pop`, `Dispatch`, `HandlerEnd`, and
  `RunOneEnd`. `Pop` and `Dispatch` are apart because a post or a stop may come
  in between.
- `shutdown()` is the same drain under a budget, `ShutdownDrainEnd`,
  `ShutdownClear` (the second critical section) and `ShutdownEnd`, where the
  flags are reset. `start()` resets nothing, as in the code.

`sent`, `stops`, `life`, `accepted`, `served`, `lost`, `quiet` are history: they
bound the model or let a property speak of the past.

The refinement to `EventQueue` maps `open` to `~stop`. A foreign `post()` that
passed its first check before `stop()` is the interesting case: without the
second check it would be an `Accept` of a closed queue.

### TimerService

`heap` holds every entry, cancelled ones too; `live` the numbers not yet fired
or cancelled. `FireCollect` is the locked phase of `fire_due()`, `FirePost` one
turn of the loop that posts after the unlock; every thread may fire, each with its
own `firing` set. Assigning an armed timer to a variable is `ArmTimer` then
`Assign`, since the old timer is released only after the new one is armed. `id`
(the rank of the arming) is history: the service knows a timer by `seq` only, and
`EveryLiveTimerHasItsHandle` says that this suffices. `lastDue[t]`, the due time
thread t posted last, is history too: what the code promises of order and of
synchronous cancelling it promises to each firing thread by itself.

`Alarms` says what becomes of a timer, without heap, numbers, handles or threads: it
is called off while it waits, or taken out when due, all that is due at once, and then
rings or is refused. `TimerService` implements it with `AlarmsWaiting` (the live
entries of the heap) and `AlarmsTaken` (all batches).

### TimedLoop

`RunLoop` has no timers and `TimerService` no loop, and both have one mutex. Here
are both mutexes with their owners, and the sections that may wait for a second
one are split there: `WaitLock` takes `mutex_`, `NextDue` asks for the next due
time under it, `Sleep`, `TimeOut`, `Relock` and `WaitEnd` are
`wait_until(lock, deadline, pred)`; `FireCollect` and `FireUnlock` are the two
ends of `fire_due()`'s section. `DrainEnd` is the drain that finds the queue empty,
`CheckStop` the unlocked look at the stop flag after it.

There are two clocks. Timers live on the runtime's (`now`), the wait on
`steady_clock` (`steady`). `manual` chooses: given a `SteadyClock` the two are one and
`Tick` moves both; a `ManualClock` stands still until `Advance`, whose thread, `Ticker`,
then fires by itself. What bounds the wait is put together in three steps, and anything
may happen between them, time included: `NextDue` is `next_due_at()`, `Budget` subtracts
a reading of the clock and clamps at zero, `Deadline` adds the rest to a reading of
`steady_clock`. `asked` and `measured` are history: the two readings.

Durations have the width of the clock's integer. `Wrap` is applied to each of the three
sums and differences: the due time, what is left of it, the deadline. In C++ the
overflow of a signed integer is undefined; the model takes the outcome that the
compilers of the build give, which is wrapping. `ManualClock` reads and writes `now_`
without a lock; a reading is the value before or after an advance, as it is on every
target of the build.

Timers are armed and cancelled on the loop thread only. timer.hpp permits `arm()` on
any thread and so does the architecture, but the comment on `compute_wait_budget()` knows
that a loop in an indefinite wait would miss it and relies on handlers being the only
callers; the mutant `ArmAnywhere` shows that this is needed. Posts are one step: what comes
between their parts is `RunLoop`'s subject.

This module too implements `Alarms`, so it and `TimerService` agree on what becomes of
a timer; a post that finds the queue closed is an alarm refused. An alarm set for later
than `Representable` is due at once (`DueTime`), which is what an overflowing `arm()`
comes to.

### Cache

All calls come from the loop thread, so each is one action, but for the fan-out of
`set()`: it takes one cell of `order` per step (`FanOut`), since another thread may call
`stop()` between two posts, and no other call comes in between. `order` is the C array,
stale cells beyond `numActive` included.

A `KeyChanged` is addressed to the module, not to its subscription, and waits in
`queue`; `Deliver` is its dispatch. `knows[m][k]` is what module m takes k's value to be: what it
read when it subscribed, then what each envelope brought, in the order of arrival. So a
module that dropped its subscription and made another may get news older than what
it read, and is misled until the next write: the code cannot tell its subscriptions
apart. `behind[s]` marks that case: older news was queued for the module when it got
slot s, and none has been announced to the slot since. `SubscribersKnowTheValue` excepts it,
and only it. The two example applications do resubscribe, and handle a `KeyChanged` by
its value; `MinimalApp` has the interleaving (`visits`).

`Renew` is a shutdown, which clears the queue, and a new start; the modules, and with
them the handles, are destroyed before the cache.

### Flow

The flow engine is sequential, and hard through nesting: `step()` may end in
`on_flow_done()`, which may restart the flow, which steps the initial state,
which may be done again. `frames` is the call stack of state functions and
callbacks; `buffer` counts the locals objects alive in the flow's one buffer, of
every state's type. All calls are open to user code at all times; a wrong one
fails an assertion (`fault`) and ends the process. The one assumption is that
constructors and destructors of locals do not call the flow that holds them;
none in the repository does, and the engine asserts nothing against it.

### Messaging

The C++ variables that may own a payload are places in the state: a thread's
`MessagePtr` (`ptr`), an envelope in the queue, the one being dispatched, a
`MessagePtr` inside another payload (`inner`), and the payloads a thread is in
the middle of destroying (`dying`). The entries of the timers' heap and the batches of
`fire_due()` own payloads too and are not among them: `TimerService` keeps account of
those. Moves copy the pointer and clear the source,
so single ownership is a property and no variable. `MakeLock`, `Allocate`,
`Construct` are `make_message_with()`, `DestroyInner`, `FreeLock`, `Deallocate` a
destruction. The allocator itself does not lock, as a pool on bare metal does not:
looking for a block and taking it are two steps, and the lock must keep them
together. `Send` has the static assertions of `send<>()` as its guard (`MaySend`), `Reply`
the one assertion of `reply_to()`, `Route` those of the dispatch. `Checked` are the
modules that name the `ModuleList` as the second argument of `Module<>`; the others, all
modules of both examples among them, may send to a `Stranger` that is not in the list,
and the property says that nothing else can go wrong with a typed send. The payload
constructors of the repository make no messages, and `Construct` makes none: one
that did would wait for the lock its own thread holds, and no property here says so.

### Lifecycle

`holds[m]` says which services module m has live handles of; user code takes and
drops them at will in `OnStart`, `Handle` and `OnStop`. `ResetModules` and
`DestroyModules` destroy one module at a time, in any order: the standard does
not fix the order in which a tuple's elements are destroyed. The three `Destroy`
actions are the implicit member destruction of `~Runtime()`.

### MinimalApp

A handler is one action with what it posts. `visits` counts Idle's subscriptions,
so that a `KeyChanged` can be told from one announced to an earlier subscription,
which the code cannot do. `stop()` may come in any phase, before `start()` and during
`shutdown()` too; between the end of shutdown's drain and the clear a bump may still be
accepted, and `ShutdownEnd` discards it. The timer is one Boolean: `TimedLoop` shows that
an armed timer fires.

### ButtonMain

The handler runs on the reader's stack: while `handler` is not `"none"` the reader
does not move, whatever it holds. A parked `read()` is interrupted, as the handler
is installed without `SA_RESTART`. Of the runtime there is the mutex, the stop
flag and the number of queued envelopes.

### ButtonPipeline

The application the framework is shown with, as a system: a reader thread
(`ReaderPost`, `ReaderStop`), time (`Tick`), the loop, and three flows. The loop
has less detail than `RunLoop`: a post is one step, as that module shows the
queue to be FIFO and closed by `stop()`, and so is a dispatch, since no handler
of this application posts more than one envelope. What stays apart is what the
properties depend on: firing collects first and posts afterwards, with other
posts in between, and fires again only after a complete drain.

A state's timer lives in its locals, so `Transit` cancels and arms as the flow
engine destructs and constructs locals. `ClassifierHandle` is the module's
`handle()` and the state function together: the first decides on the gesture
(`GestureOf`), the second on the next state (`ClassifierTable`), by different
criteria, and the properties say that they agree. `level` is the cache key
`DebouncedButtonState`; every state of the classifier subscribes to it, so a
change is always announced. `ui` is also the cache key `UiMode_Key`, written by
the locals of each state.

`owed` is history: debounced presses announced and not yet answered. A click or
a long press answers one, a double click two. The refinement to `ButtonUi` counts a
gesture as seen when it is sent: `mode` is the mode the interface will have when
it has handled what is queued (`UiAfterQueue`). That is at most one gesture, as
`ButtonPipelineProofs` proves (`OneGesture`).

## Runs

| run | instance | shows |
|---|---|---|
| `loop` | 2 foreign threads, 1 post per thread, budget 1, 1 stop, 2 lives | `Ledger`, `NoLostWakeup`, `QuietAfterRun`, refinement of `EventQueue`, types and budget, `AcceptedIsServed`, `StopEndsRun` |
| `loop_late_post` | violated | a late post reaches the next life |
| `timers` | 2 threads that both fire, 2 handles, 4 armings, 3 clock readings, 1 clear | `EveryTimerInOnePlace`, `EveryLiveTimerHasItsHandle`, `PostedInDueOrder`, `OwnCancelIsSynchronous` |
| `timer_foreign_cancel` | violated | `CancelIsSynchronous` fails when another thread cancels |
| `timed_loop` | both kinds of clock, to 1 (a sleep may end later), delays of 0, 1 and 2, a duration of at most 2, 2 armings, 1 plain post | `SleepsUntilTheNextTimer`, `MutexesAreOrdered`, refinement of `Alarms`, `DueTimersFire` |
| `cache_pool` | 2 keys, 2 values, 2 modules, 2 slots, 3 handles, 4 subscriptions, 3 writes | the pool's books, handles, subscribers' knowledge |
| `flow` | 3 states, 5 nested calls | `LocalsFollowState`, `FlagFollowsStack`, `OwnerMayRestart` |
| `messaging` | 2 foreign threads, 2 modules of which one names the list, a stranger, 2 types, 3 blocks | `ExactlyOneOwner`, `LockHolderNeverWaits`, `TypedSendsAreRouted` |
| `minimal_app` | 7 counts, 4 bumps from outside, 2 lives | `WorkIsConserved`, `TokensMeetTheirState`, `RoundsGoOn` |
| `button_pipeline` | windows of 1, 2 and 3 ticks, 6 raw transitions, loop late by up to 4 ticks | `TimersMeetTheirState`, `NoImpossibleEdge`, `EveryPressIsAnswered`, refinement of `ButtonUi`, `TimersEndStates` |
| `button_sigint` | 1 key, 1 signal; violated | a SIGINT need not end the program |
| `destroy_running` | 3 modules, 2 lives; violated | `~Runtime()` without `shutdown()` leaves handles into dead services |

**Bounds.** Every bound is a constant and a guard. Two foreign threads give one
that holds an envelope across the other's stop; the three posts of three threads
make order visible; a budget of one is both met and exceeded by the queues that occur; one
stop suffices because the flag is a Boolean and a second stop changes nothing
until `shutdown()`; two lives give every race across a restart. For timers, two
handles give a move and an assignment onto a live handle; four armings and three
clock readings give two batches of two. For the cache, two slots give a
gap to close in the order list, three handles one more than the pool, four
subscriptions the reuse of freed slots and a module that subscribes again while a
change is queued for it; `CacheProofs` has the books of every pool size. For the buttons, the windows keep the
order of 5, 300 and 500 ms; six transitions are two double clicks' worth of edges
less a release, or a click inside a long press inside bounces; four ticks of
lateness exceed every window, so that all timers can be due at one wake. For
flows, five nested calls are two runs that end inside callbacks of others. For
`timed_loop`, the delay of 2 reaches the last duration exactly when armed at 0 and
overflows when armed at 1, and so does a deadline computed at 1; two timers give a next
one after the first is fired or cancelled, one plain post an early wake. For `messaging`, three blocks give a
message inside a message while a third is made, and exhaustion. For `minimal_app`,
the counts leave room for the seed, the outside bumps and two rounds after them.

**Deadlock.** The models stop when their bounds are used up, or at a failed
assertion, so `CHECK_DEADLOCK FALSE` is set; that the loop does not stop while
work is pending is what `AcceptedIsServed` and `StopEndsRun` say.

`ButtonMain` and `Lifecycle` come to an end by themselves.

**Symmetry.** Threads and handles of `TimerService`, handles, keys, modules and values of
`Cache`, blocks of `Messaging` are interchangeable and are reduced by symmetry; these runs have no
liveness property. The others use none.

**Fairness.** `FairSpec` assumes weak fairness of the loop thread's progress
(the operating system schedules it, handlers return) and of each foreign
thread's pending notify (a thread that left its critical section goes on).
Nothing is assumed of spurious wake-ups, of a wait timing out, of posts, of `stop()` being called. The
calls `start()`, `run()`, `run_one()` and `shutdown()` are the user's choice and
not fair.

In `ButtonPipeline`, `FairSpec` assumes weak fairness of the loop thread and of
time while a timer runs; the reader need not post or stop.

In `TimedLoop`, of the loop thread, of the thread that advances a `ManualClock` going
on with the `fire_due()` it has begun, and of time passing on `steady_clock`; nothing of
a stop, or of anybody advancing the `ManualClock`. In
`MinimalApp`, of the loop thread and of an armed timer. In `ButtonMain`, of both
threads; the user need not type, press ^C or close stdin.

## Findings

Four runs end in a violation on purpose; each checks one sentence of the
documentation that the code does not keep. All are under "findings" in
PROJECT.json, with the sentence quoted.

1. A producer that is late by one `shutdown()` finds the stop flag reset; its
   envelope waits for the next life instead of being dropped.
2. Cancelling a timer from a thread other than the firing one does not stop an
   envelope that `fire_due()` has collected.
3. A SIGINT that finds the reader of the button example outside `read()`
   interrupts no `read()`: the reader parks in the next one and `main()` waits in
   `join()`. One that finds it inside `post()` or `stop()` waits for a mutex its
   own thread holds.
4. A runtime destroyed without `shutdown()`, which the destructor's comment
   allows, destroys timers and cache before the modules whose handles point there.
   `TeardownIsOrderly` proves that this is the only way.

Also met while modelling, stated by no run of its own:

- `shutdown()` without `stop()`: an envelope posted between the end of the drain
  and the clear is discarded with budget left, and the warning blames the budget.
  `QuietAfterRun` shows that it cannot happen after a `run()` ended by `stop()`.
- The drain that follows `stop()` happens in `run()`, which has no budget.
- `terminate()` does not call `on_flow_done()`, as the architecture says.
- The order in which a tuple's elements are constructed and destroyed, which
  runtime.hpp and the architecture state, is the library's choice.
- The header comments of both examples say that timers do not expire on the host;
  since the wait of `run()` is bounded by the next deadline they do, and
  `TimersEndStates` and `RoundsGoOn` depend on it.
- That a send to a target outside the `ModuleList` is a compile-time error, as the `app.hpp`
  of both examples, the PRD and the architecture say, holds only for modules that name
  the list, and none of the examples' modules does. `TypedSendsAreRouted` has the
  exception in its statement.
- `arm()` adds without a look at the range. A delay that leads past the last duration
  gives a due time in the past: with a `SteadyClock` the timer fires at once. With a
  `ManualClock` what is left until that due time may overflow once more, into a long
  wait, and the loop sleeps past timers that are due (`DueTimersFire` excepts the case).
- `cancel_by_seq()` calls the heap "bounded by armed_count"; tombstones stay in it until
  they are due, so it is not.
- "Subscribe-during-write does not observe current write", as the PRD and the comment
  in `fanout()` have it, is true of a module's first subscription. One that is subscribed,
  drops it and subscribes again gets the envelope addressed to it before.

## Proofs

`RunLoopProofs` proves, for every set of foreign threads and all bounds:

- `TypeCorrect`, `NoWakeupIsLost`, `LedgerHolds`, `QuietHolds`: the four
  invariants of the runs.
- `LoopImplementsQueue`: `Spec => ImplementsQueue`.

They assume only the module's assumptions: the loop thread is not a foreign
thread, `NoEnvelope` is no envelope, the bounds are naturals.

The argument. `TypeOK` is not inductive: `Pop` and `Dispatch` put what a thread
holds into `served`, so one must know that a thread that is about to push or to
dispatch holds an envelope (`HandTyped`), and that `drained` grows only where
`MayPop` was tested (`BudgetLeft`). With these, `TypeInv` is inductive.
`NoLostWakeup` and `Ledger` are inductive over it. `QuietAfterRun` needs
`LastDrain`: once `run()` has entered its last drain, and while `shutdown()`
drains a quiet runtime, the stop flag is set; only `ShutdownEnd` resets it, and
`PostLocked` pushes nothing while it is set. The refinement uses `Ledger`: the
envelope a `Dispatch` serves is the next one accepted. Steps of the foreign
threads and of the loop thread are grouped by what they leave alone.

`FlowProofs` proves, for every set of states and every depth of nesting, the three
invariants of the run `flow` and `OwnerMayRestart`, assuming only that the initial
state is a state. The invariants carry each other: a destruct is sound
(`buffer` stays natural) because `LocalsFollowState` says the current state's
locals are there; `start()` steps soundly, though it does not look at `in_step_`,
because by `FlagFollowsStack` no state function of an inactive flow runs.

`TimedLoopProofs` proves, for all delays, widths of the clock and bounds, the
invariants of the run `timed_loop`, its refinement of `Alarms`, and `NeverEarly`:

- `LockOrder`: `MutexesAreOrdered` is inductive over the types.
- `NoTimerIsEarly`: needs `Timing`, that a due time is the wrapped sum of arming and
  delay (`DueIsTheSum`) and that what `fire_due()` has collected was due (`BatchWasDue`),
  also while it lies outside both mutexes. The property speaks of sums that can be
  represented, and there the wrapped sum is the sum.
- `SleepIsRight`: needs `Bounds`, which follows the deadline through its three
  readings: what was answered is still no later than any live timer's due time
  (`NextIsNext`; nobody arms while the loop waits), the budget is what was left of it at
  the second reading (`BudgetIsTheRest`), the deadline the wrapped sum with the third
  (`DeadlineIsTheSum`), and a loop that sleeps had not reached it (`SleepsLonger`). From
  the last it follows that neither sum nor difference has overflowed (`SleepIsTheRest`).
  That a set of due times has a least element comes from the well-foundedness of the
  naturals.
- `TimedTypes`: the types are inductive.
- `LoopImplementsAlarms`: needs `OneBatchEach`, that what is in a batch is fired and
  not yet posted, and there once, in one thread's batch only. Within a batch this is a
  counting argument (`OrdersListDue`: as many cells as timers that are due, and each
  timer in one); across threads it holds since only live timers are collected, and
  collecting ends that. The tombstones `fire_due()` drops were called off before.

They assume that the two threads differ, that `Nobody` and `Plain` are no thread and no
timer, and that delays and bounds are naturals.

`MinimalAppProofs` proves, for any numbers of counts, outside bumps and lives, the
three invariants of the run `minimal_app`, assuming only that the bounds are naturals.
The example is a token that changes its form: a bump in the queue, a change announced
to Idle, a tick armed or queued while in Processing, an acknowledgement, a bump.
`WorkIsConserved` and `TokensMeetTheirState` hold while the program runs and need each
other. What they need besides:

- `OnlyBumpsWhileDown`: between two lives only `App::post()` queues anything, and the
  equations start from there;
- `TicksLast`: behind a tick no change is queued, since nothing is announced while the
  flow is in Processing; so no change announced to one visit of Idle is left for the
  next.

`Queued(type)` counts positions of the queue, so what `Append` and `Tail` do to it are
lemmas about finite sets (`CountAppend`, `CountTail`, the latter by a bijection of the
positions), without recursion.

The module also proves `TeardownIsOrderly`, of `Lifecycle`, over variables of its own:
what the example takes for granted, that handles in state-locals find their services
when the program ends, holds for any number of modules and lives. Until a runtime that
was not shut down is destroyed, every handle of a live module points to a live service.
`TeardownInv` adds what makes it inductive: the timer service is there outside
`~Runtime()`, there is a cache wherever there are modules, and a runtime that is not
started has no modules, so that destroying it is safe.

`TimerServiceProofs` proves, for any threads, handles, delays and number of
armings, the four invariants of the run `timers`, `OwnCancelIsSynchronous` and the
refinement of `Alarms`.
All rests on `Numbered`: `next_seq_` is never reset, not even by `clear()`, so the
number of a timer is the rank of its arming, and what the service knows by number
it knows by arming.

- `EveryTimerIsInOnePlace` needs `Partition`, the same statement with the live
  numbers in place of the waiting entries (cancelled entries stay in the heap),
  and `Unique`, that no two entries have one number.
- `DroppingCancelsOnlyItsOwn` needs `LiveIsHeld` and `OneHandleEach`: a live number
  has a handle and no two handles, one between `arm()` and its assignment included.
- `ExpiriesAreInOrder` needs `DueInOrder`: what a thread has posted was due no later
  than what it still has to post, and that no later than all that is in the heap.
- `CancelIsSynchronousForOneself` needs `ReleasedIsDead`: what a thread has released
  is in no batch of its own; it may be in another thread's, which is finding 2.
- `ServiceImplementsAlarms` needs `Numbered`, `Unique`, `Partition` and that no two
  handles hold one timer. A lemma per action names the abstract step it is: releasing a
  handle calls off one alarm or none, since a live number has one entry
  (`ReleaseCallsOff`); posting takes an alarm out of the only batch it is in
  (`PostRings`, by `BatchesDiffer`).

Assumed: delays and bounds are naturals, an inert handle is no timer
(`NoTimerIsNone`).

`CacheProofs` proves, for any keys, values, handles and size of the pool, the three
invariants and the type invariant of the run `cache_pool`, and `OnlyOverflowFaults`.
Subscriptions are stamped, and `PoolBalanced` says that the cells of `order_` hold
the active slots by increasing stamp; so no slot is in two cells (`CellsDiffer`),
`release_slot()` finds exactly one cell and closes the gap (`ReleaseEffect`), and a
pool that counts `kMaxSubscriptions` has no free slot and the other way round
(`FullPoolIsAllActive`, a pigeonhole argument), so `find_free_slot()` is never
called in vain. `HandlesOwnSlots` is needed in the same induction: that a handle is
dropped onto an active slot is what the assertions of `release_slot()` ask.
`SubscribersAreUpToDate` needs the state of a fan-out under way: which cells it has
passed, and that the subscribers of other keys, and those passed, are informed
(`Served`). An envelope that is announced informs its module, as it is the last about
its key (`NewsInforms`), and one that is delivered takes nothing from what is queued
behind it (`DeliveryInforms`). Assumed: bounds are naturals, `NoSub` is no slot,
`NoKey` no key, `Unset` no value.

`MessagingProofs` proves, for any threads, modules, types, inboxes and memory, the
three invariants and the action property of the run `messaging`. The induction goes
over five sets of pointers: threads' variables, payloads inside payloads, payloads
being destroyed, the queue, the envelope in hand. `Partition` says that they are
disjoint and make up the constructed blocks, the `Once` conjuncts that none holds a
pointer twice; a step takes a pointer from one set to another.
`EveryPayloadHasOneOwner` follows by telling places and pointers one to one.
`Phases` says what a thread holds at each step of making and destroying, from
which the lock is only asked for by a thread that does not own it;
`Envelopes` that a typed envelope's target has its type in the inbox, and is in the list
if the sender names it, which `TypedSendsFindTheirHandler` needs at the moment of
dispatch. Assumed: the values
that mean "nothing" and "free" are no blocks, types, threads or envelopes.

`ButtonPipelineProofs` proves, for any windows of at least one tick, any number of
transitions and any lateness of the loop, the four invariants of the run
`button_pipeline` and its refinement of `ButtonUi` (`PipelineImplementsUi`). None of
the invariants is inductive by itself; what carries them is the rhythm of the loop:

- `Rhythm`: timers are posted only when the drain before them left nothing behind,
  so in the queue they come before anything the next drain announces;
- `TimersAtHome`: a timer that is armed, collected or queued belongs to the state
  its module is in;
- `OneEdge`, `EdgeFits`: the debouncer's lockout ends with a timer, and so not in the
  drain it began in; at most one edge is queued, and it is the edge the classifier's state waits for;
- `OneGesture`: so at most one gesture is queued;
- `Answered`: the presses owed are those the classifier's state stands for, and the
  one whose edge is queued.

`EdgeFits` gives `NoImpossibleEdge`, `Answered` gives `EveryPressIsAnswered`, and
`OneGesture` makes the refinement mapping computable at each step. Assumed:
windows positive, bounds natural, `NotArmed` no time.

**Only model-checked.** The five liveness properties `AcceptedIsServed`,
`StopEndsRun`, `DueTimersFire`, `RoundsGoOn`, `TimersEndStates`: fairness and ENABLED
are outside the prover. `ButtonMain`, whose one property is refuted, as are
`LatePostIsDropped`, `CancelIsSynchronous` and `HandlesMeetTheirService`.

**Only proved.** `NeverEarly`, `OrderlyTeardown` and the refinement of `Alarms` by
`TimerService` are in no run: the first follows from the refinement that `timed_loop`
checks, the second is `HandlesMeetTheirService` without the case that refutes it, the
third rests on the invariants that `timers` checks.

## Not modelled, and why

- Trace output, type-name hashing, compile-time composition checks: no state, or
  the compiler's business.
- Platform backends: wrappers of the operating system.
- The diagram generator: a batch text tool.
- A handler that calls `run_one()` itself: the code allows it, nothing in the
  repository does it.
- A second runtime on the same `ManualClock`, whose handler replaces the first
  one's: no program or test of the repository has one, and no document says what
  it should see.
- Payloads that hold `Timer` handles: none in the repository does.
- The POSIX clock and heap, siblings of the host ones that are modelled.

## Plan

All modules of the plan are there: `RunLoop`, `EventQueue`, `TimerService`, `Alarms`,
`TimedLoop`, `Cache`, `Flow`, `Messaging` (with the dispatch), `Lifecycle`,
`MinimalApp`, `ButtonPipeline`, `ButtonUi`, `ButtonMain`. Proofs are there for all but
the last.
