------------------------------- MODULE Cache -------------------------------
(***************************************************************************)
(* cortexflow::Cache (include/cortexflow/cache.hpp) and its RAII handle    *)
(* cortexflow::Subscription (subscription.hpp): typed slots, a fixed pool  *)
(* of subscriptions, and the fan-out of KeyChanged envelopes to modules    *)
(* through the runtime's queue.                                            *)
(*                                                                         *)
(* The cache has no lock: all of it runs on the loop thread.  What other   *)
(* threads can do to it is one thing only: once Runtime::stop() has been   *)
(* called, be it in the middle of a fan-out, the sink drops what the cache *)
(* posts.                                                                  *)
(***************************************************************************)
EXTENDS Integers, Sequences, FiniteSets

CONSTANTS
    Keys,         \* cache keys
    Values,       \* values of the keys, up to operator==
    Unset,        \* a slot before its first write
    NoKey,        \* the id 0, of no key; or no set() is under way
    Modules,      \* the modules that subscribe, by type id
    NoModule,     \* the id 0
    Handles,      \* variables of type Subscription
    NoSub,        \* what an inert handle holds
    MaxSubs,      \* kMaxSubscriptions
    WriteBound,   \* bound: writes that change a value
    SubBound      \* bound: subscriptions made

ASSUME UnsetIsNoValue == Unset \notin Values
ASSUME NoKeyIsNoKey == NoKey \notin Keys
ASSUME CacheBoundsAreNat ==
    /\ MaxSubs \in Nat
    /\ WriteBound \in Nat
    /\ SubBound \in Nat
ASSUME NoSubIsNoSlot == NoSub \notin 0..(MaxSubs - 1)

Slots == 0..(MaxSubs - 1)

VARIABLES
    value,        \* slots_
    sub,          \* subs_
    order,        \* order_, an array: only its first numActive cells count
    numActive,    \* num_active_
    handle,       \* handle[h]: the slot index the variable h holds, or NoSub
    announcing,   \* the key whose change set() is announcing, or NoKey
    cell,         \* the cell of order_ its fan-out comes to next
    snapshot,     \* and where it ends
    queue,        \* the KeyChanged envelopes in the runtime's queue
    open,         \* the post sink accepts: stop() has not been called
    faulted,      \* an assertion of the cache has failed
    writes,       \* history: writes that changed a value
    subscribed,   \* history: subscriptions made so far
    stamp,        \* history: stamp[s]: which subscription slot s was given to
    behind,       \* history: behind[s]: when slot s was given to its module,
                  \* older news of the key was queued for it, and no later
    knows         \* history: knows[m][k]: what module m takes the value of k
                  \* to be, from get() on subscribing and from KeyChanged

fan == <<announcing, cell, snapshot>>
books == <<sub, order, numActive>>

vars == <<value, books, handle, fan, queue, open, faulted, writes, subscribed,
          stamp, behind, knows>>

Subscriber ==
    [key : Keys \cup {NoKey}, module : Modules \cup {NoModule}, active : BOOLEAN]

KeyChanged == [to : Modules, key : Keys, value : Values]

Free == [key |-> NoKey, module |-> NoModule, active |-> FALSE]

Init ==
    /\ value = [k \in Keys |-> Unset]
    /\ sub = [s \in Slots |-> Free]
    /\ order = [s \in Slots |-> 0]
    /\ numActive = 0
    /\ handle = [h \in Handles |-> NoSub]
    /\ announcing = NoKey
    /\ cell = 0
    /\ snapshot = 0
    /\ queue = <<>>
    /\ open = TRUE
    /\ faulted = FALSE
    /\ writes = 0
    /\ subscribed = 0
    /\ stamp = [s \in Slots |-> 0]
    /\ behind = [s \in Slots |-> FALSE]
    /\ knows = [m \in Modules |-> [k \in Keys |-> Unset]]

\* The loop thread can make another call: no set() is under way.
Idle == ~faulted /\ announcing = NoKey

-----------------------------------------------------------------------------
(***************************************************************************)
(* set(), with its fan-out.                                                *)
(***************************************************************************)

\* Slots in the cells that count.
Visited == {order[i] : i \in 0..(numActive - 1)}

\* Mutant of Snapshot: the fan-out stops one cell early.
SnapshotButLast == IF numActive = 0 THEN 0 ELSE numActive - 1

\* How far the fan-out goes.
Snapshot == numActive

\* A write that compares equal is silent; a real change is committed first and
\* then announced.
Set(k, v) ==
    /\ Idle
    /\ value[k] # v
    /\ writes < WriteBound
    /\ writes' = writes + 1
    /\ value' = [value EXCEPT ![k] = v]
    /\ announcing' = k
    /\ cell' = 0
    /\ snapshot' = Snapshot
    /\ UNCHANGED <<books, handle, queue, open, faulted, subscribed, stamp, behind,
                   knows>>

\* One cell of the fan-out: an envelope to the module that has the slot, unless
\* it has it for another key.  Another thread may call stop() before the next.
FanOut ==
    /\ announcing # NoKey
    /\ cell < snapshot
    /\ cell' = cell + 1
    /\ LET s == order[cell]
       IN IF open /\ sub[s].key = announcing
          THEN /\ queue' = Append(queue, [to |-> sub[s].module, key |-> announcing,
                                          value |-> value[announcing]])
               /\ behind' = [behind EXCEPT ![s] = FALSE]
          ELSE UNCHANGED <<queue, behind>>
    /\ UNCHANGED <<value, books, handle, announcing, snapshot, open, faulted,
                   writes, subscribed, stamp, knows>>

SetEnd ==
    /\ announcing # NoKey
    /\ cell = snapshot
    /\ announcing' = NoKey
    /\ cell' = 0
    /\ snapshot' = 0
    /\ UNCHANGED <<value, books, handle, queue, open, faulted, writes, subscribed,
                   stamp, behind, knows>>

\* dispatch(): an envelope has the module's address, not the subscription's, and
\* arrives whether or not the module still has one.
Deliver ==
    /\ Idle
    /\ queue # <<>>
    /\ queue' = Tail(queue)
    /\ knows' = [knows EXCEPT ![Head(queue).to][Head(queue).key] = Head(queue).value]
    /\ UNCHANGED <<value, books, handle, fan, open, faulted, writes, subscribed,
                   stamp, behind>>

-----------------------------------------------------------------------------
(***************************************************************************)
(* The subscription pool.                                                  *)
(***************************************************************************)

\* release_slot(idx) keeps the order of the others: the cells behind its own
\* move up by one.  Each failing assertion faults.
OrderPos(idx) == {i \in 0..(numActive - 1) : order[i] = idx}

Position(idx) == CHOOSE i \in OrderPos(idx) : \A j \in OrderPos(idx) : i <= j

\* Mutant of Compacted: the move starts one cell late.
CompactedLate(idx) ==
    [i \in Slots |-> IF Position(idx) < i /\ i < numActive - 1
                     THEN order[i + 1] ELSE order[i]]

Compacted(idx) ==
    [i \in Slots |-> IF Position(idx) <= i /\ i < numActive - 1
                     THEN order[i + 1] ELSE order[i]]

ReleaseSlot(idx) ==
    IF sub[idx].active /\ OrderPos(idx) # {}
    THEN /\ sub' = [sub EXCEPT ![idx].active = FALSE]
         /\ order' = Compacted(idx)
         /\ numActive' = numActive - 1
         /\ UNCHANGED faulted
    ELSE /\ faulted' = TRUE
         /\ UNCHANGED books

\* release(): an inert handle does nothing.
Release(idx) ==
    IF idx = NoSub THEN UNCHANGED <<books, faulted>>
                   ELSE ReleaseSlot(idx)

\* find_free_slot(): the lowest slot that is not active.
FreeSlots == {s \in Slots : ~sub[s].active}

\* Mutant of FreeSlot: the search runs from 1 to kMaxSubscriptions.
FreeSlotFromOne ==
    CHOOSE s \in 1..MaxSubs :
        /\ s \in FreeSlots \/ s = MaxSubs
        /\ \A r \in 1..(s - 1) : r \notin FreeSlots

FreeSlot == CHOOSE s \in FreeSlots : \A r \in FreeSlots : s <= r

\* The envelopes queued for m about k, by their places in the queue.
About(m, k) == {i \in DOMAIN queue : queue[i].to = m /\ queue[i].key = k}

\* subscribe(), its handle stored in a variable that holds none.  A full pool
\* is a system fault; so is a pool with room but no free slot.
Subscribe(h, k, m) ==
    /\ Idle
    /\ handle[h] = NoSub
    /\ subscribed < SubBound
    /\ subscribed' = subscribed + 1
    /\ IF numActive >= MaxSubs \/ FreeSlots = {}
       THEN /\ faulted' = TRUE
            /\ UNCHANGED <<books, handle, stamp, behind, knows>>
       ELSE /\ sub' = [sub EXCEPT ![FreeSlot] =
                          [key |-> k, module |-> m, active |-> TRUE]]
            /\ order' = [order EXCEPT ![numActive] = FreeSlot]
            /\ numActive' = numActive + 1
            /\ handle' = [handle EXCEPT ![h] = FreeSlot]
            /\ stamp' = [stamp EXCEPT ![FreeSlot] = subscribed + 1]
            /\ behind' = [behind EXCEPT ![FreeSlot] = About(m, k) # {}]
            /\ knows' = [knows EXCEPT ![m][k] = value[k]]
            /\ UNCHANGED faulted
    /\ UNCHANGED <<value, fan, queue, open, writes>>

\* reset() or the destructor of a handle.
DropHandle(h) ==
    /\ Idle
    /\ handle[h] # NoSub
    /\ Release(handle[h])
    /\ handle' = [handle EXCEPT ![h] = NoSub]
    /\ UNCHANGED <<value, fan, queue, open, writes, subscribed, stamp, behind, knows>>

\* Mutant of MoveHandle: what `to` held is not released.
MoveHandleLeaks(from, to) ==
    /\ Idle
    /\ from # to
    /\ handle[from] # NoSub
    /\ handle' = [handle EXCEPT ![to] = handle[from], ![from] = NoSub]
    /\ UNCHANGED <<value, books, fan, queue, open, faulted, writes, subscribed,
                   stamp, behind, knows>>

\* Mutant of MoveHandle: `from` still holds the slot.
MoveHandleCopies(from, to) ==
    /\ Idle
    /\ from # to
    /\ handle[from] # NoSub
    /\ Release(handle[to])
    /\ handle' = [handle EXCEPT ![to] = handle[from]]
    /\ UNCHANGED <<value, fan, queue, open, writes, subscribed, stamp, behind, knows>>

\* to = std::move(from): release what `to` held, and leave `from` inert.
MoveHandle(from, to) ==
    /\ Idle
    /\ from # to
    /\ handle[from] # NoSub
    /\ Release(handle[to])
    /\ handle' = [handle EXCEPT ![to] = handle[from], ![from] = NoSub]
    /\ UNCHANGED <<value, fan, queue, open, writes, subscribed, stamp, behind, knows>>

-----------------------------------------------------------------------------
\* Runtime::stop(), by any thread: from now on posts are dropped.
Stop ==
    /\ ~faulted
    /\ open
    /\ open' = FALSE
    /\ UNCHANGED <<value, books, handle, fan, queue, faulted, writes, subscribed,
                   stamp, behind, knows>>

\* shutdown() and the next start(): a new cache, once the modules, and with
\* them every handle, are gone; the queue is cleared, the stop flag reset.
Renew ==
    /\ Idle
    /\ \A h \in Handles : handle[h] = NoSub
    /\ value' = [k \in Keys |-> Unset]
    /\ sub' = [s \in Slots |-> Free]
    /\ order' = [s \in Slots |-> 0]
    /\ numActive' = 0
    /\ queue' = <<>>
    /\ open' = TRUE
    /\ stamp' = [s \in Slots |-> 0]
    /\ behind' = [s \in Slots |-> FALSE]
    /\ knows' = [m \in Modules |-> [k \in Keys |-> Unset]]
    /\ UNCHANGED <<handle, fan, faulted, writes, subscribed>>

Next ==
    \/ \E k \in Keys, v \in Values : Set(k, v)
    \/ FanOut \/ SetEnd \/ Deliver
    \/ \E h \in Handles, k \in Keys, m \in Modules : Subscribe(h, k, m)
    \/ \E h \in Handles : DropHandle(h)
    \/ \E h, g \in Handles : MoveHandle(h, g)
    \/ Stop
    \/ Renew

Spec == Init /\ [][Next]_vars

-----------------------------------------------------------------------------
(***************************************************************************)
(* Properties.                                                             *)
(***************************************************************************)

\* Every variable has its type; in particular num_active_ never passes the
\* capacity of the pool nor falls below zero (it is a std::size_t).
TypeOK ==
    /\ value \in [Keys -> Values \cup {Unset}]
    /\ sub \in [Slots -> Subscriber]
    /\ order \in [Slots -> Nat]
    /\ numActive \in 0..MaxSubs
    /\ handle \in [Handles -> Slots \cup {NoSub}]
    /\ announcing \in Keys \cup {NoKey}
    /\ cell \in 0..snapshot
    /\ snapshot \in 0..numActive
    /\ queue \in Seq(KeyChanged)
    /\ open \in BOOLEAN
    /\ faulted \in BOOLEAN
    /\ writes \in Nat
    /\ subscribed \in Nat
    /\ stamp \in [Slots -> Nat]
    /\ behind \in [Slots -> BOOLEAN]
    /\ knows \in [Modules -> [Keys -> Values \cup {Unset}]]

\* The pool's books balance: the first num_active_ cells of order_ name the
\* active slots, each once, oldest subscription first, whatever sequence of
\* subscriptions, drops and moves came before.  So the fan-out visits every
\* subscription once, in registration order.  (cache.hpp: subscribe(),
\* release_slot(), fanout().)
PoolBalanced ==
    /\ \A s \in Slots : sub[s].active <=> s \in Visited
    /\ \A i, j \in 0..(numActive - 1) : i < j => stamp[order[i]] < stamp[order[j]]

\* Every active slot belongs to exactly one handle and every handle that is
\* not inert to an active slot: nothing leaks, and the assertions in
\* release_slot() cannot fail.  (subscription.hpp: moves and release().)
HandlesOwnSlots ==
    /\ \A h \in Handles : handle[h] # NoSub => sub[handle[h]].active
    /\ \A h, g \in Handles : h # g /\ handle[h] = handle[g] => handle[h] = NoSub
    /\ \A s \in Slots : sub[s].active => \E h \in Handles : handle[h] = s

\* The only fault is a subscription too many.  (cache.hpp: the assertions in
\* find_free_slot() and release_slot() guard the pool's own accounting.)
OnlyOverflowFaults ==
    [][faulted' => \A s \in Slots : sub[s].active]_vars

\* The last that m hears of k is its value: what is queued last, or what m knows
\* already.
Informed(m, k) ==
    \/ About(m, k) = {} /\ knows[m][k] = value[k]
    \/ \E i \in About(m, k) :
          queue[i].value = value[k] /\ \A j \in About(m, k) : j <= i

\* A module that reads the value when it subscribes and applies every
\* KeyChanged it gets ends up with the current value, as long as the runtime
\* has not been told to stop.  The exception is a module that unsubscribed and
\* subscribed again while older news was on its way to it: that news arrives
\* after it read the value, and misleads it until the next write.  (cache.hpp:
\* "real changes post a KeyChanged<K> envelope to every subscriber for that
\* key", addressed to the module.)
SubscribersKnowTheValue ==
    open /\ announcing = NoKey =>
        \A s \in Slots : sub[s].active /\ ~behind[s]
            => Informed(sub[s].module, sub[s].key)
=============================================================================
