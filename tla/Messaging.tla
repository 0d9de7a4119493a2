----------------------------- MODULE Messaging -----------------------------
(***************************************************************************)
(* Messages and their owners: MessagePtr, Envelope, AllocatorLock and      *)
(* make_message_with() (include/cortexflow/messaging.hpp), the module base *)
(* that sends, replies and dispatches (module.hpp), and the runtime's      *)
(* routing (runtime.hpp, dispatch()).                                      *)
(*                                                                         *)
(* A payload is a block of the allocator.  The C++ variables through which *)
(* a message passes are places in the state: a local MessagePtr, an        *)
(* envelope in the queue, the envelope being dispatched, a MessagePtr      *)
(* inside another payload, and what a thread is destroying.  Payloads kept *)
(* by the timer service, in its heap or in a firing batch, are not here.   *)
(* Moves copy the pointer and clear the source; ownership is a property,   *)
(* not a variable.  The allocator trusts its lock (a bare-metal pool       *)
(* does), so looking for a free block and taking it are two steps.         *)
(***************************************************************************)
EXTENDS Sequences, FiniteSets

CONSTANTS
    Foreign,      \* threads other than the loop thread
    Loop,         \* the loop thread
    Modules,      \* the ModuleList
    Checked,      \* modules that name the ModuleList as Module<>'s second argument
    Stranger,     \* a module that is not in the list
    NoSender,     \* kNoSender
    Types,        \* payload types
    Inbox,        \* Inbox[m]: the types module m declares handlers for
    Blocks,       \* memory
    Null          \* no block, no thread, no envelope

ASSUME IdsDiffer == {Stranger, NoSender} \cap Modules = {} /\ Stranger # NoSender
ASSUME InboxesHoldTypes == Inbox \in [Modules \cup {Stranger} -> SUBSET Types]
ASSUME CheckedAreModules == Checked \subseteq Modules
ASSUME NullIsNothing == Null \notin Blocks \cup Types \cup Foreign \cup {Loop}
ASSUME FreeIsNoType == "free" \notin Types

VARIABLES
    lock,         \* the allocator's mutex: its owner, or Null
    content,      \* content[b]: the type constructed in block b, or "free"
    inner,        \* inner[b]: the MessagePtr inside the payload in b
    pc,           \* pc[t]: where thread t is
    found,        \* found[t]: the free block thread t has found
    ptr,          \* ptr[t]: the MessagePtr of thread t
    dying,        \* dying[t]: payloads thread t is destroying, innermost first
    queue,        \* the runtime's queue
    current,      \* the envelope being dispatched
    open,         \* post() accepts: stop() has not been called
    fault         \* the assertion that failed

vars == <<lock, content, inner, pc, found, ptr, dying, queue, current, open,
          fault>>

Threads == Foreign \cup {Loop}

\* `via` tells who built the envelope: send<>(), reply_to() or plain post().
Envelope == [from : Modules \cup {NoSender}, to : Modules \cup {Stranger},
             type : Types, ptr : Blocks \cup {Null},
             via : {"send", "reply", "post"}]

ASSUME NullIsNoEnvelope == Null \notin Envelope

Init ==
    /\ lock = Null
    /\ content = [b \in Blocks |-> "free"]
    /\ inner = [b \in Blocks |-> Null]
    /\ pc = [t \in Threads |-> "idle"]
    /\ found = [t \in Threads |-> Null]
    /\ ptr = [t \in Threads |-> Null]
    /\ dying = [t \in Threads |-> <<>>]
    /\ queue = <<>>
    /\ current = Null
    /\ open = TRUE
    /\ fault = "none"

memory == <<lock, content, inner, found>>
routing == <<queue, current, open, fault>>

\* Mutant of MovedFrom: the move constructor leaves its source as it was.
MovedFromCopies(env) == env

\* What a moved-from envelope still holds.
MovedFrom(env) == [env EXCEPT !.ptr = Null]

\* What a destructor has to destroy.
Owned(p) == IF p = Null THEN <<>> ELSE <<p>>

\* Thread t destroys `blocks`, then goes on.
Destroys(t, blocks) ==
    /\ dying' = [dying EXCEPT ![t] = blocks]
    /\ pc' = [pc EXCEPT ![t] = IF blocks = <<>> THEN "idle" ELSE "destroy"]

-----------------------------------------------------------------------------
(***************************************************************************)
(* make_message_with(): lock, allocate, construct, unlock.                 *)
(***************************************************************************)

\* The loop thread makes messages in handlers only.
MayMake(t) == pc[t] = "idle" /\ (t = Loop => current # Null)

\* Mutant of MakeLock: the guard is forgotten.
MakeLockForgets(t) ==
    /\ MayMake(t)
    /\ pc' = [pc EXCEPT ![t] = "allocate"]
    /\ UNCHANGED <<memory, ptr, dying, routing>>

MakeLock(t) ==
    /\ MayMake(t)
    /\ lock = Null
    /\ lock' = t
    /\ pc' = [pc EXCEPT ![t] = "allocate"]
    /\ UNCHANGED <<content, inner, found, ptr, dying, routing>>

Free == {b \in Blocks : content[b] = "free"}

\* allocate(): which of the free blocks is the allocator's business; there is
\* an assertion for none.
Allocate(t) ==
    /\ pc[t] = "allocate"
    /\ IF Free = {}
       THEN fault' = "memory" /\ UNCHANGED <<found, pc>>
       ELSE /\ \E b \in Free : found' = [found EXCEPT ![t] = b]
            /\ pc' = [pc EXCEPT ![t] = "construct"]
            /\ UNCHANGED fault
    /\ UNCHANGED <<lock, content, inner, ptr, dying, queue, current, open>>

\* Placement new, and the unlock when make_message_with() returns.  A message
\* the thread already holds is moved into the new payload, or it is replaced
\* by it, MessagePtr::operator= destroying what it held.
Construct(t, type) ==
    /\ pc[t] = "construct"
    /\ content' = [content EXCEPT ![found[t]] = type]
    /\ lock' = Null
    /\ found' = [found EXCEPT ![t] = Null]
    /\ ptr' = [ptr EXCEPT ![t] = found[t]]
    /\ \/ /\ inner' = [inner EXCEPT ![found[t]] = ptr[t]]
          /\ pc' = [pc EXCEPT ![t] = "idle"]
          /\ UNCHANGED dying
       \/ /\ ptr[t] # Null
          /\ Destroys(t, Owned(ptr[t]))
          /\ UNCHANGED inner
    /\ UNCHANGED routing

-----------------------------------------------------------------------------
(***************************************************************************)
(* Destruction: ~T() first, without the lock; then lock, deallocate,       *)
(* unlock.  ~T() may itself destroy a message.                             *)
(***************************************************************************)

Top(t) == Head(dying[t])

DestroyInner(t) ==
    /\ pc[t] = "destroy"
    /\ inner[Top(t)] # Null
    /\ dying' = [dying EXCEPT ![t] = <<inner[Top(t)]>> \o @]
    /\ inner' = [inner EXCEPT ![Top(t)] = Null]
    /\ UNCHANGED <<lock, content, found, pc, ptr, routing>>

\* Mutant of FreeLock: the guard is taken before ~T() has run.
FreeLockEarly(t) ==
    /\ pc[t] = "destroy"
    /\ lock = Null
    /\ lock' = t
    /\ pc' = [pc EXCEPT ![t] = "deallocate"]
    /\ UNCHANGED <<content, inner, found, ptr, dying, routing>>

FreeLock(t) ==
    /\ pc[t] = "destroy"
    /\ inner[Top(t)] = Null
    /\ lock = Null
    /\ lock' = t
    /\ pc' = [pc EXCEPT ![t] = "deallocate"]
    /\ UNCHANGED <<content, inner, found, ptr, dying, routing>>

Deallocate(t) ==
    /\ pc[t] = "deallocate"
    /\ content' = [content EXCEPT ![Top(t)] = "free"]
    /\ lock' = Null
    /\ Destroys(t, Tail(dying[t]))
    /\ UNCHANGED <<inner, found, ptr, routing>>

\* A MessagePtr goes out of scope with its message.
DropMessage(t) ==
    /\ pc[t] = "idle"
    /\ ptr[t] # Null
    /\ Destroys(t, Owned(ptr[t]))
    /\ ptr' = [ptr EXCEPT ![t] = Null]
    /\ UNCHANGED <<memory, routing>>

-----------------------------------------------------------------------------
(***************************************************************************)
(* Building an envelope from the message in hand, and posting it.          *)
(***************************************************************************)

\* post() moves the envelope into the queue, or, after stop(), leaves it where
\* it is; the caller's variable is then destroyed.
Post(t, from, to, via) ==
    LET env == [from |-> from, to |-> to, type |-> content[ptr[t]],
                ptr |-> ptr[t], via |-> via]
    IN /\ queue' = IF open THEN Append(queue, env) ELSE queue
       /\ Destroys(t, Owned(IF open THEN MovedFrom(env).ptr ELSE env.ptr))
       /\ ptr' = [ptr EXCEPT ![t] = Null]

HoldsMessage(t) == pc[t] = "idle" /\ ptr[t] # Null

\* A boundary thread addresses any module, or none, with any payload.
PostRaw(t, to) ==
    /\ t \in Foreign
    /\ HoldsMessage(t)
    /\ Post(t, NoSender, to, "post")
    /\ UNCHANGED <<memory, current, open, fault>>

\* Module m's dispatch table has a handler for this type.
Handles(m, type) == type \in Inbox[m]

\* Mutant of MaySend: the assertion about the target's Inbox is left out.
MaySendAnything(m, type, to) == m \in Checked => to \in Modules

\* The static assertions of send<Target>(msg) in module m.  That the target is
\* in the ModuleList is asserted only if m names the list, which is optional.
MaySend(m, type, to) ==
    /\ Handles(to, type)
    /\ m \in Checked => to \in Modules

\* send<Target>(msg), from a handler.
Send(to) ==
    /\ HoldsMessage(Loop)
    /\ MaySend(current.to, content[ptr[Loop]], to)
    /\ Post(Loop, current.to, to, "send")
    /\ UNCHANGED <<memory, current, open, fault>>

\* reply_to(env, msg): the sender of a boundary post is refused; whether the
\* requester has a handler for the reply is not looked at.
Reply ==
    /\ HoldsMessage(Loop)
    /\ IF current.from = NoSender
       THEN fault' = "sentinel" /\ UNCHANGED <<queue, pc, dying, ptr>>
       ELSE Post(Loop, current.to, current.from, "reply") /\ UNCHANGED fault
    /\ UNCHANGED <<memory, current, open>>

-----------------------------------------------------------------------------
(***************************************************************************)
(* The loop thread.                                                        *)
(***************************************************************************)

\* dispatch(), dispatch_one() and Module::handle().
Route(env) ==
    IF env.to \notin Modules THEN "target"
    ELSE IF ~Handles(env.to, env.type) THEN "inbox"
    ELSE "none"

\* run_one(): the front is moved out, popped (and destroyed, moved-from), and
\* handed to its module.
Dispatch ==
    /\ pc[Loop] = "idle"
    /\ current = Null
    /\ queue # <<>>
    /\ current' = Head(queue)
    /\ queue' = Tail(queue)
    /\ Destroys(Loop, Owned(MovedFrom(Head(queue)).ptr))
    /\ fault' = Route(Head(queue))
    /\ UNCHANGED <<memory, ptr, open>>

\* The handler has returned and its locals are gone; so is the envelope.
HandlerEnd ==
    /\ pc[Loop] = "idle"
    /\ current # Null
    /\ ptr[Loop] = Null
    /\ Destroys(Loop, Owned(current.ptr))
    /\ current' = Null
    /\ UNCHANGED <<memory, ptr, queue, open, fault>>

Stop ==
    /\ open
    /\ open' = FALSE
    /\ UNCHANGED <<memory, pc, ptr, dying, queue, current, fault>>

\* The end of shutdown(): what is queued is destroyed, the stop flag reset.
Shutdown ==
    /\ pc[Loop] = "idle"
    /\ current = Null
    /\ Destroys(Loop, [i \in DOMAIN queue |-> queue[i].ptr])
    /\ queue' = <<>>
    /\ open' = TRUE
    /\ UNCHANGED <<memory, ptr, current, fault>>

-----------------------------------------------------------------------------
Next ==
    /\ fault = "none"
    /\ \/ \E t \in Threads :
             \/ MakeLock(t) \/ Allocate(t)
             \/ \E type \in Types : Construct(t, type)
             \/ DestroyInner(t) \/ FreeLock(t) \/ Deallocate(t)
             \/ DropMessage(t)
             \/ \E to \in Modules \cup {Stranger} : PostRaw(t, to)
       \/ \E to \in Modules \cup {Stranger} : Send(to)
       \/ Reply \/ Dispatch \/ HandlerEnd \/ Stop \/ Shutdown

Spec == Init /\ [][Next]_vars

-----------------------------------------------------------------------------
(***************************************************************************)
(* Properties.                                                             *)
(***************************************************************************)

\* Every variable has its type.
TypeOK ==
    /\ lock \in Threads \cup {Null}
    /\ content \in [Blocks -> Types \cup {"free"}]
    /\ inner \in [Blocks -> Blocks \cup {Null}]
    /\ pc \in [Threads -> {"idle", "allocate", "construct", "destroy",
                           "deallocate"}]
    /\ found \in [Threads -> Blocks \cup {Null}]
    /\ ptr \in [Threads -> Blocks \cup {Null}]
    /\ \A t \in Threads : dying[t] \in Seq(Blocks)
    /\ queue \in Seq(Envelope)
    /\ current \in Envelope \cup {Null}
    /\ open \in BOOLEAN
    /\ fault \in {"none", "memory", "sentinel", "target", "inbox"}

\* Every place that may hold a pointer, with the pointer it holds.
PtrPlaces == {<<"ptr", t, ptr[t]>> : t \in Threads}
InnerPlaces == {<<"inner", b, inner[b]>> : b \in Blocks}
DyingPlaces == UNION {{<<t, i, dying[t][i]>> : i \in DOMAIN dying[t]} : t \in Threads}
QueuePlaces == {<<"queue", i, queue[i].ptr>> : i \in DOMAIN queue}
CurrentPlaces == IF current = Null THEN {} ELSE {<<"current", 0, current.ptr>>}

Places == PtrPlaces \cup InnerPlaces \cup DyingPlaces \cup QueuePlaces \cup CurrentPlaces

Owners(b) == {p \in Places : p[3] = b}

\* Every constructed payload has exactly one owner, and no free block has one:
\* nothing is freed twice, nothing leaks and no handler or destructor sees a
\* payload that is gone, whatever is dropped, replaced, nested or discarded.
\* An envelope's type id is that of its payload.  (messaging.hpp: the moves
\* and destructors of MessagePtr and Envelope; runtime.hpp: a dropped post
\* destroys its envelope in place.)
ExactlyOneOwner ==
    /\ \A b \in Blocks :
          Cardinality(Owners(b)) = IF content[b] = "free" THEN 0 ELSE 1
    /\ \A i \in DOMAIN queue : queue[i].type = content[queue[i].ptr]
    /\ current # Null => current.type = content[current.ptr]

\* A thread that holds the allocator's lock is about to release it: it never
\* comes to a point where it would wait for the same lock.  That rests on
\* payload constructors that make no message and on ~T() running unlocked.
\* (messaging.hpp: AllocatorLock in make_message_with() and in the destroys.)
LockHolderNeverWaits ==
    \A t \in Threads : lock = t =>
        \/ pc[t] \in {"allocate", "construct"}
        \/ pc[t] = "deallocate" /\ inner[Top(t)] = Null

\* What compiles with send<>() never fails for want of a handler, and fails
\* for want of the module itself only if its sender did not name the list: the
\* two assertions of the dispatch are otherwise for plain posts and replies.
\* (module.hpp: the static assertions of send<>() against handle()'s table and
\* dispatch_one(), which runs only when the envelope has left the queue.)
TypedSendsAreRouted ==
    [][LET env == Head(queue) IN
       fault' \in {"target", "inbox"} /\ env.via = "send" =>
           fault' = "target" /\ env.from \notin Checked]_vars
=============================================================================
