------------------------------ MODULE Lifecycle ------------------------------
(***************************************************************************)
(* Who outlives whom in cortexflow::Runtime (include/cortexflow/           *)
(* runtime.hpp): the modules, the cache and the timer service, and the     *)
(* handles that modules hold into the latter two (subscription.hpp,        *)
(* timer.hpp).                                                             *)
(*                                                                         *)
(* The runtime may be destroyed whenever its owner's thread is outside it: *)
(* the destructor does not insist on shutdown().  All calls come from one  *)
(* thread, the queue and its races are RunLoop's.                          *)
(***************************************************************************)
EXTENDS Naturals

CONSTANTS
    Modules,      \* number of modules in the ModuleList, declared as 1, 2, ...
    LifeBound     \* bound: calls to start()

VARIABLES
    phase,        \* the call the owner's thread is in, "idle" between calls
    at,           \* the module on_start_each or on_stop_reverse is at
    modules,      \* elements of modules_ that are alive
    cache,        \* cache_ holds a value
    timers,       \* timers_ is alive
    holds,        \* holds[m]: the services module m has live handles of
    started,      \* started_
    lives         \* history: calls to start() so far

vars == <<phase, at, modules, cache, timers, holds, started, lives>>

Declared == 1..Modules
Services == {"timer", "subscription"}

\* Runtime(clock): the timer service is a member, modules and cache are not
\* there before start().
Init ==
    /\ phase = "idle"
    /\ at = 0
    /\ modules = {}
    /\ cache = FALSE
    /\ timers = TRUE
    /\ holds = [m \in Declared |-> {}]
    /\ started = FALSE
    /\ lives = 0

\* User code of module m: it may take and drop handles as it likes.
UserCode(m) == \E kept \in SUBSET Services : holds' = [holds EXCEPT ![m] = kept]

\* The destructor of one element of the tuple, and with it of the handles the
\* module holds, each of which calls its service.  The C++ standard does not
\* fix the order of a tuple's elements.
DestroyModule ==
    \E m \in modules :
        /\ modules' = modules \ {m}
        /\ holds' = [holds EXCEPT ![m] = {}]

-----------------------------------------------------------------------------
(***************************************************************************)
(* start(), handlers, shutdown().                                          *)
(***************************************************************************)

\* start(), up to the first on_start(): a new cache, the sinks, all modules.
Start ==
    /\ phase = "idle"
    /\ ~started
    /\ lives < LifeBound
    /\ lives' = lives + 1
    /\ phase' = "on_start"
    /\ at' = 1
    /\ cache' = TRUE
    /\ modules' = Declared
    /\ UNCHANGED <<timers, holds, started>>

\* on_start() in declaration order, then started_.
OnStart ==
    /\ phase = "on_start"
    /\ UserCode(at)
    /\ at' = (at % Modules) + 1
    /\ IF at = Modules
       THEN phase' = "idle" /\ started' = TRUE
       ELSE UNCHANGED <<phase, started>>
    /\ UNCHANGED <<modules, cache, timers, lives>>

\* A handler of module m, dispatched by run() or run_one().
Handle(m) ==
    /\ phase = "idle"
    /\ started
    /\ UserCode(m)
    /\ UNCHANGED <<phase, at, modules, cache, timers, started, lives>>

\* shutdown(), up to the first on_stop(); handlers of its drain are Handle's.
Shutdown ==
    /\ phase = "idle"
    /\ started
    /\ phase' = "on_stop"
    /\ at' = Modules
    /\ UNCHANGED <<modules, cache, timers, holds, started, lives>>

\* on_stop() in reverse declaration order.
OnStop ==
    /\ phase = "on_stop"
    /\ UserCode(at)
    /\ at' = at - 1
    /\ phase' = IF at = 1 THEN "reset" ELSE phase
    /\ UNCHANGED <<modules, cache, timers, started, lives>>

\* modules_.reset(), before the services the handles point into.
ResetModules ==
    /\ phase = "reset"
    /\ DestroyModule
    /\ UNCHANGED <<phase, at, cache, timers, started, lives>>

\* cache_.reset(), timers_.clear() and the flags.
ShutdownEnd ==
    /\ phase = "reset"
    /\ modules = {}
    /\ phase' = "idle"
    /\ cache' = FALSE
    /\ started' = FALSE
    /\ UNCHANGED <<at, modules, timers, holds, lives>>

\* A call that asserts it comes in the other state ends the process.
WrongCall ==
    /\ phase = "idle"
    /\ phase' = "faulted"
    /\ UNCHANGED <<at, modules, cache, timers, holds, started, lives>>

-----------------------------------------------------------------------------
(***************************************************************************)
(* ~Runtime(): the members in reverse order of their declaration: timers_, *)
(* then cache_, then modules_.                                             *)
(***************************************************************************)

DestroyTimers ==
    /\ phase = "idle"
    /\ phase' = "no timers"
    /\ timers' = FALSE
    /\ UNCHANGED <<at, modules, cache, holds, started, lives>>

DestroyCache ==
    /\ phase = "no timers"
    /\ phase' = "no cache"
    /\ cache' = FALSE
    /\ UNCHANGED <<at, modules, timers, holds, started, lives>>

DestroyModules ==
    /\ phase = "no cache"
    /\ DestroyModule
    /\ UNCHANGED <<phase, at, cache, timers, started, lives>>

-----------------------------------------------------------------------------
Next ==
    \/ Start
    \/ OnStart
    \/ \E m \in Declared : Handle(m)
    \/ Shutdown
    \/ OnStop
    \/ ResetModules
    \/ ShutdownEnd
    \/ WrongCall
    \/ DestroyTimers
    \/ DestroyCache
    \/ DestroyModules

Spec == Init /\ [][Next]_vars

-----------------------------------------------------------------------------
\* Every handle a live module holds points to a service that is alive, so its
\* destructor releases something that is there.  (docs/architecture.md: "RAII
\* for every CortexFlow-managed resource. Subscriptions, timers, state-locals.
\* Construct = acquire; destruct = release.")  The code does not keep this:
\* without shutdown(), ~Runtime() destroys timers_ and cache_ before modules_.
HandlesMeetTheirService ==
    \A m \in modules :
        /\ "timer" \in holds[m] => timers
        /\ "subscription" \in holds[m] => cache

\* What the code does keep: it is so until a runtime that was not shut down is
\* destroyed, whatever handlers, on_start() and on_stop() take and drop.
\* (runtime.hpp: shutdown() resets modules_ before cache_.)
OrderlyTeardown ==
    ~(started /\ phase \in {"no timers", "no cache"}) => HandlesMeetTheirService
=============================================================================
