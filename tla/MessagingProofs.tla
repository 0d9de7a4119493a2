--------------------------- MODULE MessagingProofs ---------------------------
(***************************************************************************)
(* Theorems about Messaging, for all threads, modules, types, inboxes and  *)
(* memories: every payload has exactly one owner, the allocator's lock is  *)
(* never asked for by who holds it, and typed sends find a handler.        *)
(*                                                                         *)
(* Pointers are kept in five kinds of places: the threads' variables, the  *)
(* payloads, the lists of what is being destroyed, the queue and the       *)
(* envelope in hand.  The five sets of pointers are disjoint and make up   *)
(* the constructed blocks (Partition), and within a kind no pointer is     *)
(* kept twice (OncePtr and the others).  A step takes a pointer from one   *)
(* set to another, so it is enough to see what it does to two of them.     *)
(***************************************************************************)
EXTENDS Messaging, TLAPS, SequenceTheorems, FiniteSetTheorems

MaybeBlock == Blocks \cup {Null}

Items(s) == {s[i] : i \in DOMAIN s}
NoRepeats(s) == \A i, j \in DOMAIN s : s[i] = s[j] => i = j

QueuePtrs == [i \in DOMAIN queue |-> queue[i].ptr]

InPtrs == {ptr[t] : t \in Threads} \ {Null}
InInners == {inner[b] : b \in Blocks} \ {Null}
InDying == UNION {Items(dying[t]) : t \in Threads}
InQueue == Items(QueuePtrs)
InCurrent == IF current = Null THEN {} ELSE {current.ptr}

Constructed == {b \in Blocks : content[b] # "free"}

\* Where the constructed blocks are kept.
Partition ==
    /\ Constructed = InPtrs \cup InInners \cup InDying \cup InQueue \cup InCurrent
    /\ InPtrs \cap (InInners \cup InDying \cup InQueue \cup InCurrent) = {}
    /\ InInners \cap (InDying \cup InQueue \cup InCurrent) = {}
    /\ InDying \cap (InQueue \cup InCurrent) = {}
    /\ InQueue \cap InCurrent = {}

\* No two places of a kind keep one pointer.
OncePtr == \A t, u \in Threads : ptr[t] = ptr[u] /\ t # u => ptr[t] = Null
OnceInner == \A b, c \in Blocks : inner[b] = inner[c] /\ b # c => inner[b] = Null
OnceDying ==
    /\ \A t \in Threads : NoRepeats(dying[t])
    /\ \A t, u \in Threads : t # u => Items(dying[t]) \cap Items(dying[u]) = {}
OnceQueued == NoRepeats(QueuePtrs)

-----------------------------------------------------------------------------
(***************************************************************************)
(* Sequences of pointers.                                                  *)
(***************************************************************************)

\* What a destructor has to destroy is a pointer or nothing.
LEMMA OwnedItems ==
    ASSUME NEW p \in MaybeBlock
    PROVE  /\ Owned(p) \in Seq(Blocks) /\ NoRepeats(Owned(p))
           /\ Items(Owned(p)) = {p} \ {Null}
           /\ Owned(p) = <<>> <=> p = Null
<1>1. CASE p = Null
    BY <1>1 DEF Owned, NoRepeats, Items
<1>2. CASE p # Null
    <2>1. Owned(p) = <<p>> /\ p \in Blocks
        BY <1>2 DEF Owned, MaybeBlock
    <2>2. /\ <<p>> \in Seq(Blocks) /\ DOMAIN <<p>> = {1} /\ <<p>>[1] = p
          /\ <<p>> # <<>>
        BY <2>1
    <2> QED
        BY <1>2, <2>1, <2>2 DEF NoRepeats, Items
<1> QED
    BY <1>1, <1>2

\* A list is its head and the rest.
LEMMA TailItems ==
    ASSUME NEW S, NEW s \in Seq(S), s # <<>>
    PROVE  /\ Tail(s) \in Seq(S) /\ Head(s) \in S
           /\ Items(s) = {Head(s)} \cup Items(Tail(s))
           /\ NoRepeats(s) => /\ NoRepeats(Tail(s))
                              /\ Head(s) \notin Items(Tail(s))
<1>1. /\ Tail(s) \in Seq(S) /\ Head(s) \in S /\ Head(s) = s[1]
      /\ Len(s) \in Nat /\ Len(s) > 0 /\ DOMAIN s = 1..Len(s)
      /\ DOMAIN Tail(s) = 1..(Len(s) - 1)
      /\ \A i \in 1..(Len(s) - 1) : Tail(s)[i] = s[i + 1]
    BY HeadTailProperties
<1>2. \A i \in DOMAIN s : i = 1 \/ (i - 1 \in DOMAIN Tail(s) /\ Tail(s)[i - 1] = s[i])
    BY <1>1
<1>3. \A i \in DOMAIN Tail(s) : /\ i + 1 \in DOMAIN s /\ i + 1 # 1
                               /\ Tail(s)[i] = s[i + 1]
    BY <1>1
<1>4. Items(s) = {Head(s)} \cup Items(Tail(s))
    <2> DEFINE r == Tail(s)
    <2>0. /\ \A i \in DOMAIN s : i = 1 \/ (i - 1 \in DOMAIN r /\ r[i - 1] = s[i])
          /\ \A i \in DOMAIN r : i + 1 \in DOMAIN s /\ r[i] = s[i + 1]
          /\ 1 \in DOMAIN s /\ Head(s) = s[1]
        BY <1>1, <1>2, <1>3
    <2> HIDE DEF r
    <2>1. \A i \in DOMAIN s : s[i] \in {Head(s)} \cup Items(r)
        BY <2>0 DEF Items
    <2>2. \A i \in DOMAIN r : r[i] \in Items(s)
        BY <2>0 DEF Items
    <2>3. Head(s) \in Items(s)
        BY <2>0 DEF Items
    <2> QED
        BY <2>1, <2>2, <2>3 DEF Items, r
<1>5. ASSUME NoRepeats(s)
      PROVE  NoRepeats(Tail(s)) /\ Head(s) \notin Items(Tail(s))
    BY <1>1, <1>3, <1>5 DEF NoRepeats, Items
<1> QED
    BY <1>1, <1>4, <1>5

\* A pointer put in front of a list.
LEMMA ConsItems ==
    ASSUME NEW S, NEW s \in Seq(S), NEW x \in S
    PROVE  /\ <<x>> \o s \in Seq(S) /\ <<x>> \o s # <<>> /\ Head(<<x>> \o s) = x
           /\ Items(<<x>> \o s) = {x} \cup Items(s)
           /\ NoRepeats(s) /\ x \notin Items(s) => NoRepeats(<<x>> \o s)
<1> DEFINE c == <<x>> \o s
<1>1. /\ c \in Seq(S) /\ Len(s) \in Nat /\ DOMAIN s = 1..Len(s)
      /\ DOMAIN c = 1..(Len(s) + 1) /\ c[1] = x
      /\ \A i \in DOMAIN c : i = 1 \/ c[i] = s[i - 1]
    OBVIOUS
<1>2. c # <<>> /\ Head(c) = x
    BY <1>1
<1> HIDE DEF c
<1>3. /\ 1 \in DOMAIN c
      /\ \A i \in DOMAIN c : i = 1 \/ (i - 1 \in DOMAIN s /\ c[i] = s[i - 1])
      /\ \A i \in DOMAIN s : i + 1 \in DOMAIN c /\ c[i + 1] = s[i]
    BY <1>1
<1>4. Items(c) = {x} \cup Items(s)
    BY <1>1, <1>3 DEF Items
<1>5. ASSUME NoRepeats(s), x \notin Items(s) PROVE NoRepeats(c)
    BY <1>1, <1>3, <1>5 DEF NoRepeats, Items
<1> QED
    BY <1>1, <1>2, <1>4, <1>5 DEF c

\* A pointer put at the end of a list.
LEMMA AppendItems ==
    ASSUME NEW S, NEW s \in Seq(S), NEW x \in S
    PROVE  /\ Append(s, x) \in Seq(S)
           /\ Items(Append(s, x)) = Items(s) \cup {x}
           /\ NoRepeats(s) /\ x \notin Items(s) => NoRepeats(Append(s, x))
<1> DEFINE a == Append(s, x)
<1>1. /\ a \in Seq(S) /\ Len(s) \in Nat /\ DOMAIN s = 1..Len(s)
      /\ DOMAIN a = 1..(Len(s) + 1) /\ a[Len(s) + 1] = x
      /\ \A i \in DOMAIN s : a[i] = s[i]
    OBVIOUS
<1> HIDE DEF a
<1>2. \A i \in DOMAIN a : i \in DOMAIN s \/ i = Len(s) + 1
    BY <1>1
<1>3. Items(a) = Items(s) \cup {x}
    BY <1>1, <1>2 DEF Items
<1>4. ASSUME NoRepeats(s), x \notin Items(s) PROVE NoRepeats(a)
    BY <1>1, <1>2, <1>4 DEF NoRepeats, Items
<1> QED
    BY <1>1, <1>3, <1>4 DEF a

-----------------------------------------------------------------------------
(***************************************************************************)
(* One place changes.                                                      *)
(***************************************************************************)

\* A thread's MessagePtr.
LEMMA PtrChanges ==
    ASSUME ptr \in [Threads -> MaybeBlock], OncePtr,
           NEW t \in Threads, NEW x \in MaybeBlock, x \notin InPtrs,
           ptr' = [ptr EXCEPT ![t] = x]
    PROVE  /\ InPtrs' = (InPtrs \ {ptr[t]}) \cup ({x} \ {Null})
           /\ OncePtr' /\ ptr' \in [Threads -> MaybeBlock]
<1>1. /\ ptr' \in [Threads -> MaybeBlock]
      /\ ptr'[t] = x /\ \A u \in Threads \ {t} : ptr'[u] = ptr[u]
    OBVIOUS
<1>2. \A u \in Threads \ {t} : ptr[u] = Null \/ (ptr[u] # x /\ ptr[u] # ptr[t])
    BY DEF OncePtr, InPtrs
<1>3. OncePtr'
    BY <1>1, <1>2 DEF OncePtr
<1>4. InPtrs' = (InPtrs \ {ptr[t]}) \cup ({x} \ {Null})
    BY <1>1, <1>2 DEF InPtrs
<1> QED
    BY <1>1, <1>3, <1>4

\* The MessagePtr inside a payload.
LEMMA InnerChanges ==
    ASSUME inner \in [Blocks -> MaybeBlock], OnceInner,
           NEW b \in Blocks, NEW x \in MaybeBlock, x \notin InInners,
           inner' = [inner EXCEPT ![b] = x]
    PROVE  /\ InInners' = (InInners \ {inner[b]}) \cup ({x} \ {Null})
           /\ OnceInner' /\ inner' \in [Blocks -> MaybeBlock]
<1>1. /\ inner' \in [Blocks -> MaybeBlock]
      /\ inner'[b] = x /\ \A c \in Blocks \ {b} : inner'[c] = inner[c]
    OBVIOUS
<1>2. \A c \in Blocks \ {b} : inner[c] = Null \/ (inner[c] # x /\ inner[c] # inner[b])
    BY DEF OnceInner, InInners
<1>3. OnceInner'
    BY <1>1, <1>2 DEF OnceInner
<1>4. InInners' = (InInners \ {inner[b]}) \cup ({x} \ {Null})
    BY <1>1, <1>2 DEF InInners
<1> QED
    BY <1>1, <1>3, <1>4

\* A thread's list of payloads to destroy.
LEMMA DyingChanges ==
    ASSUME dying \in [Threads -> Seq(Blocks)], OnceDying,
           NEW t \in Threads, NEW s \in Seq(Blocks), NoRepeats(s),
           Items(s) \cap (InDying \ Items(dying[t])) = {},
           dying' = [dying EXCEPT ![t] = s]
    PROVE  /\ InDying' = (InDying \ Items(dying[t])) \cup Items(s)
           /\ OnceDying' /\ dying' \in [Threads -> Seq(Blocks)]
<1>1. /\ dying' \in [Threads -> Seq(Blocks)]
      /\ dying'[t] = s /\ \A u \in Threads \ {t} : dying'[u] = dying[u]
    OBVIOUS
<1>2. \A u \in Threads \ {t} : /\ Items(dying[u]) \cap Items(dying[t]) = {}
                              /\ Items(dying[u]) \cap Items(s) = {}
    BY Zenon DEF OnceDying, InDying
<1>3. \A u \in Threads : dying'[u] = IF u = t THEN s ELSE dying[u]
    BY <1>1
<1>4. OnceDying'
    <2>1. \A u \in Threads : NoRepeats(dying'[u])
        BY <1>3 DEF OnceDying
    <2>2. \A u, w \in Threads : u # w => Items(dying'[u]) \cap Items(dying'[w]) = {}
        BY <1>2, <1>3 DEF OnceDying
    <2> QED
        BY <2>1, <2>2 DEF OnceDying
<1>5. InDying' = (InDying \ Items(dying[t])) \cup Items(s)
    BY <1>2, <1>3 DEF InDying
<1> QED
    BY <1>1, <1>4, <1>5

\* The queue, an envelope in.
LEMMA QueueGrows ==
    ASSUME queue \in Seq(Envelope), OnceQueued, InQueue \subseteq Blocks,
           NEW env \in Envelope, env.ptr \in Blocks \ InQueue,
           queue' = Append(queue, env)
    PROVE  queue' \in Seq(Envelope) /\ InQueue' = InQueue \cup {env.ptr} /\ OnceQueued'
<1>1. QueuePtrs \in Seq(Blocks)
    BY DEF QueuePtrs, InQueue, Items
<1>2. QueuePtrs' = Append(QueuePtrs, env.ptr)
    BY DEF QueuePtrs
<1> QED
    BY <1>1, <1>2, AppendItems DEF InQueue, OnceQueued

\* The queue, an envelope out.
LEMMA QueueShrinks ==
    ASSUME queue \in Seq(Envelope), queue # <<>>, OnceQueued, InQueue \subseteq Blocks,
           queue' = Tail(queue)
    PROVE  /\ queue' \in Seq(Envelope) /\ Head(queue) \in Envelope
           /\ Head(queue).ptr \in InQueue
           /\ InQueue' = InQueue \ {Head(queue).ptr} /\ OnceQueued'
<1>1. QueuePtrs \in Seq(Blocks) /\ QueuePtrs # <<>>
    BY DEF QueuePtrs, InQueue, Items
<1>2. /\ QueuePtrs' = Tail(QueuePtrs) /\ Head(QueuePtrs) = Head(queue).ptr
      /\ Tail(queue) \in Seq(Envelope) /\ Head(queue) \in Envelope
    BY <1>1 DEF QueuePtrs
<1> QED
    BY <1>1, <1>2, TailItems DEF InQueue, OnceQueued

-----------------------------------------------------------------------------
(***************************************************************************)
(* The inductive invariant.                                                *)
(***************************************************************************)

Typed == TypeOK /\ dying \in [Threads -> Seq(Blocks)]

\* What a thread has at each place: the lock, a free block, payloads to destroy.
\* A free block holds no message.
Phases ==
    /\ \A t \in Threads :
          /\ pc[t] \in {"allocate", "construct", "deallocate"} <=> lock = t
          /\ pc[t] = "construct" => found[t] \in Blocks /\ content[found[t]] = "free"
          /\ pc[t] \in {"destroy", "deallocate"} <=> dying[t] # <<>>
          /\ pc[t] = "deallocate" => inner[Top(t)] = Null
    /\ \A b \in Blocks : content[b] = "free" => inner[b] = Null

\* The loop thread has messages in handlers only, and a handler's module is in
\* the list.
Handling ==
    /\ pc[Loop] \in {"allocate", "construct"} \/ ptr[Loop] # Null => current # Null
    /\ fault = "none" /\ current # Null => current.to \in Modules

TypeMatches(env) == env.type = content[env.ptr]

Routable(env) == env.via = "send" => MaySend(env.from, env.type, env.to)

\* The type id of an envelope is that of its payload, and a typed send has a
\* handler.
Envelopes ==
    /\ \A e \in Items(queue) : TypeMatches(e) /\ Routable(e)
    /\ current # Null => TypeMatches(current)

Ownership ==
    Partition /\ OncePtr /\ OnceInner /\ OnceDying /\ OnceQueued

IInv == Typed /\ Phases /\ Handling /\ Envelopes /\ Ownership

\* What the types say of pointers.
LEMMA PointerTypes ==
    ASSUME Typed
    PROVE  /\ ptr \in [Threads -> MaybeBlock]
           /\ inner \in [Blocks -> MaybeBlock]
           /\ found \in [Threads -> MaybeBlock]
           /\ dying \in [Threads -> Seq(Blocks)]
           /\ queue \in Seq(Envelope)
BY DEF Typed, TypeOK, MaybeBlock

\* Pointers lead to constructed blocks, each in one kind of place.
LEMMA Apart ==
    ASSUME Partition
    PROVE  /\ InPtrs \subseteq Blocks /\ InInners \subseteq Blocks
           /\ InDying \subseteq Blocks /\ InQueue \subseteq Blocks
           /\ Null \notin InQueue \cup InCurrent
           /\ \A b \in Blocks : content[b] = "free" =>
                 b \notin InPtrs \cup InInners \cup InDying \cup InQueue \cup InCurrent
<1>1. Constructed \subseteq Blocks /\ Null \notin Constructed
    BY NullIsNothing DEF Constructed
<1>2. \A b \in Blocks : content[b] = "free" => b \notin Constructed
    BY DEF Constructed
<1> QED
    BY <1>1, <1>2 DEF Partition

-----------------------------------------------------------------------------
(***************************************************************************)
(* Ownership, action by action.                                            *)
(***************************************************************************)

\* A new payload is its maker's; what the maker held goes inside, or is destroyed.
LEMMA ConstructOwns ==
    ASSUME IInv, NEW t \in Threads, NEW type \in Types, Construct(t, type)
    PROVE  Ownership'
<1> DEFINE f == found[t]
           p == ptr[t]
<1>1. Typed /\ Phases /\ Partition /\ OncePtr /\ OnceInner /\ OnceDying /\ OnceQueued
    BY DEF IInv, Ownership
<1>2. f \in Blocks /\ content[f] = "free" /\ inner[f] = Null /\ dying[t] = <<>>
    BY <1>1 DEF Construct, Phases
<1>3. f \notin InPtrs \cup InInners \cup InDying \cup InQueue \cup InCurrent
    BY <1>1, <1>2, Apart
<1>4. /\ content' = [content EXCEPT ![f] = type]
      /\ ptr' = [ptr EXCEPT ![t] = f]
      /\ UNCHANGED <<queue, current>>
    BY DEF Construct, routing
<1>5. InQueue' = InQueue /\ InCurrent' = InCurrent /\ OnceQueued'
    BY <1>1, <1>4 DEF InQueue, InCurrent, QueuePtrs, OnceQueued
<1>6. Constructed' = Constructed \cup {f}
    <2>1. type # "free" /\ content \in [Blocks -> Types \cup {"free"}]
        BY <1>1, FreeIsNoType DEF Typed, TypeOK
    <2> QED
        BY <1>2, <1>4, <2>1 DEF Constructed
<1>7. f \in MaybeBlock /\ f # Null /\ p \in MaybeBlock /\ (p = Null \/ p \in InPtrs)
    BY <1>1, <1>2, PointerTypes, NullIsNothing DEF MaybeBlock, InPtrs
<1>8. InPtrs' = (InPtrs \ {p}) \cup {f} /\ OncePtr'
    <2>1. InPtrs' = (InPtrs \ {p}) \cup ({f} \ {Null}) /\ OncePtr'
        BY <1>1, <1>3, <1>4, <1>7, PointerTypes, PtrChanges
    <2> QED
        BY <1>7, <2>1
<1>9. Null \notin InInners /\ Null \notin InPtrs /\ Items(dying[t]) = {}
    BY <1>2 DEF InInners, InPtrs, Items
<1>10. (p \notin InInners /\ p \notin InDying) \/ p = Null
    BY <1>1, <1>7 DEF Partition
<1>11. CASE inner' = [inner EXCEPT ![f] = p] /\ dying' = dying
    <2>1. InInners' = (InInners \ {Null}) \cup ({p} \ {Null}) /\ OnceInner'
        BY <1>1, <1>2, <1>7, <1>9, <1>10, <1>11, PointerTypes, InnerChanges
    <2>2. InDying' = InDying /\ OnceDying'
        BY <1>1, <1>11 DEF InDying, OnceDying
    <2> HIDE DEF f, p
    <2>3. Partition'
        BY <1>1, <1>3, <1>5, <1>6, <1>7, <1>8, <1>9, <2>1, <2>2 DEF Partition
    <2> QED
        BY <1>5, <1>8, <2>1, <2>2, <2>3 DEF Ownership
<1>12. CASE p # Null /\ dying' = [dying EXCEPT ![t] = Owned(p)] /\ inner' = inner
    <2>1. InInners' = InInners /\ OnceInner'
        BY <1>1, <1>12 DEF InInners, OnceInner
    <2>2. /\ Owned(p) \in Seq(Blocks) /\ NoRepeats(Owned(p))
          /\ Items(Owned(p)) = {p} \ {Null}
        BY <1>7, OwnedItems
    <2>3. InDying' = (InDying \ {}) \cup ({p} \ {Null}) /\ OnceDying'
        <3>1. Items(Owned(p)) \cap (InDying \ Items(dying[t])) = {}
            BY <1>10, <1>12, <2>2
        <3> QED
            BY <1>1, <1>9, <1>12, <2>2, <3>1, PointerTypes, DyingChanges
    <2> HIDE DEF f, p
    <2>4. Partition'
        BY <1>1, <1>3, <1>5, <1>6, <1>7, <1>8, <1>12, <2>1, <2>3 DEF Partition
    <2> QED
        BY <1>5, <1>8, <2>1, <2>3, <2>4 DEF Ownership
<1> QED
    BY <1>11, <1>12 DEF Construct, Destroys

\* ~T() hands the message inside to the list.
LEMMA DestroyInnerOwns ==
    ASSUME IInv, NEW t \in Threads, DestroyInner(t)
    PROVE  Ownership'
<1> DEFINE b == Top(t)
           p == inner[b]
<1>1. Typed /\ Phases /\ Partition /\ OncePtr /\ OnceInner /\ OnceDying /\ OnceQueued
    BY DEF IInv, Ownership
<1>2. dying[t] # <<>> /\ dying[t] \in Seq(Blocks)
    BY <1>1, PointerTypes DEF DestroyInner, Phases
<1>3. b \in Blocks /\ p \in Blocks /\ p \in InInners /\ p # Null
    BY <1>1, <1>2, PointerTypes, TailItems DEF DestroyInner, Top, MaybeBlock, InInners
<1>4. /\ dying' = [dying EXCEPT ![t] = <<p>> \o dying[t]]
      /\ inner' = [inner EXCEPT ![b] = Null]
      /\ UNCHANGED <<content, ptr, queue, current>>
    BY DEF DestroyInner, routing
<1>5. /\ UNCHANGED <<InQueue, InCurrent, InPtrs, Constructed>>
      /\ OnceQueued' /\ OncePtr'
    BY <1>1, <1>4 DEF InQueue, InCurrent, InPtrs, Constructed, QueuePtrs,
                      OnceQueued, OncePtr
<1>6. p \notin InDying /\ Items(dying[t]) \subseteq InDying
    BY <1>1, <1>3 DEF Partition, InDying
<1>7. InInners' = (InInners \ {p}) \cup ({Null} \ {Null}) /\ OnceInner'
    <2>1. Null \in MaybeBlock /\ Null \notin InInners
        BY DEF MaybeBlock, InInners
    <2> QED
        BY <1>1, <1>3, <1>4, <2>1, PointerTypes, InnerChanges
<1>8. /\ <<p>> \o dying[t] \in Seq(Blocks)
      /\ Items(<<p>> \o dying[t]) = {p} \cup Items(dying[t])
      /\ NoRepeats(<<p>> \o dying[t])
    BY <1>1, <1>2, <1>3, <1>6, ConsItems DEF OnceDying
<1>9. InDying' = InDying \cup {p} /\ OnceDying'
    <2>1. Items(<<p>> \o dying[t]) \cap (InDying \ Items(dying[t])) = {}
        BY <1>6, <1>8
    <2>2. /\ InDying' = (InDying \ Items(dying[t])) \cup Items(<<p>> \o dying[t])
          /\ OnceDying'
        BY <1>1, <1>4, <1>8, <2>1, PointerTypes, DyingChanges
    <2> QED
        BY <1>6, <1>8, <2>2
<1> HIDE DEF b, p
<1>10. Partition'
    BY <1>1, <1>3, <1>5, <1>7, <1>9 DEF Partition
<1> QED
    BY <1>5, <1>7, <1>9, <1>10 DEF Ownership

\* A block is freed when its last and only pointer goes.
LEMMA DeallocateOwns ==
    ASSUME IInv, NEW t \in Threads, Deallocate(t)
    PROVE  Ownership'
<1> DEFINE b == Top(t)
           s == Tail(dying[t])
<1>1. Typed /\ Phases /\ Partition /\ OncePtr /\ OnceInner /\ OnceDying /\ OnceQueued
    BY DEF IInv, Ownership
<1>2. dying[t] # <<>> /\ dying[t] \in Seq(Blocks) /\ NoRepeats(dying[t])
    BY <1>1, PointerTypes DEF Deallocate, Phases, OnceDying
<1>3. /\ b \in Blocks /\ s \in Seq(Blocks) /\ NoRepeats(s)
      /\ Items(dying[t]) = {b} \cup Items(s) /\ b \notin Items(s)
    BY <1>2, TailItems DEF Top
<1>4. /\ dying' = [dying EXCEPT ![t] = s]
      /\ content' = [content EXCEPT ![b] = "free"]
      /\ UNCHANGED <<inner, ptr, queue, current>>
    BY DEF Deallocate, Destroys, routing
<1>5. /\ UNCHANGED <<InQueue, InCurrent, InPtrs, InInners>>
      /\ OnceQueued' /\ OncePtr' /\ OnceInner'
    BY <1>1, <1>4 DEF InQueue, InCurrent, InPtrs, InInners, QueuePtrs,
                      OnceQueued, OncePtr, OnceInner
<1>6. Items(dying[t]) \subseteq InDying
    BY DEF InDying
<1>7. Constructed' = Constructed \ {b}
    BY <1>1, <1>3, <1>4 DEF Constructed, Typed, TypeOK
<1>8. InDying' = InDying \ {b} /\ OnceDying'
    <2>1. Items(s) \cap (InDying \ Items(dying[t])) = {}
        BY <1>3
    <2>2. InDying' = (InDying \ Items(dying[t])) \cup Items(s) /\ OnceDying'
        BY <1>1, <1>3, <1>4, <2>1, PointerTypes, DyingChanges
    <2> QED
        BY <1>3, <1>6, <2>2
<1> HIDE DEF b, s
<1>9. b \in InDying
    BY <1>3, <1>6
<1>10. Partition'
    BY <1>1, <1>5, <1>7, <1>8, <1>9 DEF Partition
<1> QED
    BY <1>5, <1>8, <1>10 DEF Ownership

\* An idle thread has nothing to destroy; when it starts with one pointer, that
\* is all it has.
LEMMA DyingStarts ==
    ASSUME Typed, Phases, OnceDying, NEW t \in Threads, pc[t] = "idle",
           NEW p \in MaybeBlock, p = Null \/ p \notin InDying,
           dying' = [dying EXCEPT ![t] = Owned(p)]
    PROVE  InDying' = InDying \cup ({p} \ {Null}) /\ OnceDying'
<1>1. Items(dying[t]) = {}
    BY DEF Phases, Items
<1>2. /\ Owned(p) \in Seq(Blocks) /\ NoRepeats(Owned(p))
      /\ Items(Owned(p)) = {p} \ {Null}
    BY OwnedItems
<1>3. Items(Owned(p)) \cap (InDying \ Items(dying[t])) = {}
    BY <1>1, <1>2
<1>4. InDying' = (InDying \ {}) \cup ({p} \ {Null}) /\ OnceDying'
    BY <1>1, <1>2, <1>3, PointerTypes, DyingChanges
<1> QED
    BY <1>4

\* A local that goes out of scope.
LEMMA DropOwns ==
    ASSUME IInv, NEW t \in Threads, DropMessage(t)
    PROVE  Ownership'
<1> DEFINE p == ptr[t]
<1>1. Typed /\ Phases /\ Partition /\ OncePtr /\ OnceInner /\ OnceDying /\ OnceQueued
    BY DEF IInv, Ownership
<1>2. p \in MaybeBlock /\ p # Null /\ p \in InPtrs /\ pc[t] = "idle"
    BY <1>1, PointerTypes DEF DropMessage, InPtrs
<1>3. /\ dying' = [dying EXCEPT ![t] = Owned(p)]
      /\ ptr' = [ptr EXCEPT ![t] = Null]
      /\ UNCHANGED <<content, inner, queue, current>>
    BY DEF DropMessage, Destroys, memory, routing
<1>4. /\ UNCHANGED <<InQueue, InCurrent, InInners, Constructed>>
      /\ OnceQueued' /\ OnceInner'
    BY <1>1, <1>3 DEF InQueue, InCurrent, InInners, Constructed, QueuePtrs,
                      OnceQueued, OnceInner
<1>5. InPtrs' = (InPtrs \ {p}) \cup ({Null} \ {Null}) /\ OncePtr'
    <2>1. Null \in MaybeBlock /\ Null \notin InPtrs
        BY DEF MaybeBlock, InPtrs
    <2> QED
        BY <1>1, <1>3, <2>1, PointerTypes, PtrChanges
<1>6. p \notin InDying
    BY <1>1, <1>2 DEF Partition
<1>7. InDying' = InDying \cup ({p} \ {Null}) /\ OnceDying'
    BY <1>1, <1>2, <1>3, <1>6, DyingStarts
<1> HIDE DEF p
<1>8. Partition'
    BY <1>1, <1>2, <1>4, <1>5, <1>7 DEF Partition
<1> QED
    BY <1>4, <1>5, <1>7, <1>8 DEF Ownership

\* What Post builds, from the message in hand.
Built(t, from, to, via) ==
    [from |-> from, to |-> to, type |-> content[ptr[t]], ptr |-> ptr[t], via |-> via]

\* It is an envelope, and post() moves it into the queue or destroys it.
LEMMA PostEffect ==
    ASSUME IInv, NEW t \in Threads, HoldsMessage(t),
           NEW from \in Modules \cup {NoSender}, NEW to \in Modules \cup {Stranger},
           NEW via \in {"send", "reply", "post"}, Post(t, from, to, via)
    PROVE  LET env == Built(t, from, to, via)
           IN  /\ env \in Envelope /\ env.ptr = ptr[t] /\ TypeMatches(env)
               /\ ptr' = [ptr EXCEPT ![t] = Null]
               /\ \/ /\ queue' = Append(queue, env)
                     /\ dying' = [dying EXCEPT ![t] = <<>>]
                     /\ pc' = [pc EXCEPT ![t] = "idle"]
                  \/ /\ queue' = queue
                     /\ dying' = [dying EXCEPT ![t] = Owned(ptr[t])]
                     /\ pc' = [pc EXCEPT ![t] = "destroy"]
<1> DEFINE env == Built(t, from, to, via)
           p == ptr[t]
<1>1. Typed /\ Partition
    BY DEF IInv, Ownership
<1>2. p \in Blocks /\ p # Null /\ p \in InPtrs
    BY <1>1, PointerTypes DEF HoldsMessage, MaybeBlock, InPtrs
<1>3. content[p] \in Types
    <2>1. p \in Constructed
        BY <1>1, <1>2 DEF Partition
    <2> QED
        BY <1>1, <2>1 DEF Constructed, Typed, TypeOK
<1>4. env \in Envelope /\ env.ptr = p /\ TypeMatches(env)
    BY <1>2, <1>3 DEF Built, Envelope, TypeMatches
<1>5. MovedFrom(env).ptr = Null /\ Owned(Null) = <<>>
    BY DEF MovedFrom, Built, Owned
<1>6. Owned(p) # <<>>
    BY <1>2 DEF Owned
<1>7. /\ queue' = IF open THEN Append(queue, env) ELSE queue
      /\ Destroys(t, Owned(IF open THEN MovedFrom(env).ptr ELSE p))
      /\ ptr' = [ptr EXCEPT ![t] = Null]
    BY <1>4 DEF Post, Built
<1>8. CASE open
    <2>1. queue' = Append(queue, env) /\ Destroys(t, <<>>)
        BY <1>5, <1>7, <1>8, Zenon
    <2>2. dying' = [dying EXCEPT ![t] = <<>>] /\ pc' = [pc EXCEPT ![t] = "idle"]
        BY <2>1 DEF Destroys
    <2> QED
        BY <1>4, <1>7, <2>1, <2>2
<1>9. CASE ~open
    <2>1. queue' = queue /\ Destroys(t, Owned(p))
        BY <1>7, <1>9, Zenon
    <2>2. dying' = [dying EXCEPT ![t] = Owned(p)] /\ pc' = [pc EXCEPT ![t] = "destroy"]
        BY <1>6, <2>1 DEF Destroys
    <2> QED
        BY <1>4, <1>7, <2>1, <2>2
<1> QED
    BY <1>8, <1>9

\* The pointer goes to the queue, or to the list.
LEMMA PostOwns ==
    ASSUME IInv, NEW t \in Threads, HoldsMessage(t),
           NEW from \in Modules \cup {NoSender}, NEW to \in Modules \cup {Stranger},
           NEW via \in {"send", "reply", "post"}, Post(t, from, to, via),
           UNCHANGED <<content, inner, current>>
    PROVE  Ownership'
<1> DEFINE env == Built(t, from, to, via)
           p == ptr[t]
<1>1. Typed /\ Phases /\ Partition /\ OncePtr /\ OnceInner /\ OnceDying /\ OnceQueued
    BY DEF IInv, Ownership
<1>2. p \in MaybeBlock /\ p # Null /\ p \in InPtrs /\ pc[t] = "idle"
    BY <1>1, PointerTypes DEF HoldsMessage, InPtrs
<1>3. /\ env \in Envelope /\ env.ptr = p /\ ptr' = [ptr EXCEPT ![t] = Null]
      /\ \/ queue' = Append(queue, env) /\ dying' = [dying EXCEPT ![t] = <<>>]
         \/ queue' = queue /\ dying' = [dying EXCEPT ![t] = Owned(p)]
    BY PostEffect
<1>4. /\ UNCHANGED <<InCurrent, InInners, Constructed>>
      /\ OnceInner'
    BY <1>1 DEF InCurrent, InInners, Constructed, OnceInner
<1>5. InPtrs' = (InPtrs \ {p}) \cup ({Null} \ {Null}) /\ OncePtr'
    <2>1. Null \in MaybeBlock /\ Null \notin InPtrs
        BY DEF MaybeBlock, InPtrs
    <2> QED
        BY <1>1, <1>3, <2>1, PointerTypes, PtrChanges
<1>6. p \notin InDying /\ p \notin InQueue /\ p \in Blocks
    BY <1>1, <1>2, Apart DEF Partition
<1>7. CASE queue' = Append(queue, env) /\ dying' = [dying EXCEPT ![t] = <<>>]
    <2>1. InQueue' = InQueue \cup {p} /\ OnceQueued'
        BY <1>1, <1>3, <1>6, <1>7, PointerTypes, Apart, QueueGrows
    <2>2. Null \in MaybeBlock /\ Owned(Null) = <<>>
        BY DEF MaybeBlock, Owned
    <2>3. InDying' = InDying \cup ({Null} \ {Null}) /\ OnceDying'
        <3>1. dying' = [dying EXCEPT ![t] = Owned(Null)]
            BY <1>7, <2>2
        <3> QED
            BY <1>1, <1>2, <2>2, <3>1, DyingStarts
    <2> HIDE DEF p
    <2>4. Partition'
        BY <1>1, <1>2, <1>4, <1>5, <2>1, <2>3 DEF Partition
    <2> QED
        BY <1>4, <1>5, <2>1, <2>3, <2>4 DEF Ownership
<1>8. CASE queue' = queue /\ dying' = [dying EXCEPT ![t] = Owned(p)]
    <2>1. InQueue' = InQueue /\ OnceQueued'
        BY <1>1, <1>8 DEF InQueue, QueuePtrs, OnceQueued
    <2>2. InDying' = InDying \cup ({p} \ {Null}) /\ OnceDying'
        BY <1>1, <1>2, <1>6, <1>8, DyingStarts
    <2> HIDE DEF p
    <2>3. Partition'
        BY <1>1, <1>2, <1>4, <1>5, <2>1, <2>2 DEF Partition
    <2> QED
        BY <1>4, <1>5, <2>1, <2>2, <2>3 DEF Ownership
<1> QED
    BY <1>3, <1>7, <1>8

\* An envelope goes from the queue to the handler.
LEMMA DispatchOwns ==
    ASSUME IInv, Dispatch
    PROVE  /\ Ownership'
           /\ current' = Head(queue) /\ queue' = Tail(queue)
           /\ Head(queue) \in Envelope /\ queue' \in Seq(Envelope)
           /\ UNCHANGED dying
           /\ pc' = [pc EXCEPT ![Loop] = "idle"]
<1> DEFINE env == Head(queue)
<1>1. Typed /\ Phases /\ Partition /\ OncePtr /\ OnceInner /\ OnceDying /\ OnceQueued
    BY DEF IInv, Ownership
<1>2. /\ queue # <<>> /\ queue' = Tail(queue) /\ current = Null /\ current' = env
      /\ pc[Loop] = "idle" /\ Loop \in Threads
      /\ UNCHANGED <<content, inner, ptr>>
    BY DEF Dispatch, memory, Threads
<1>3. /\ InQueue' = InQueue \ {env.ptr} /\ OnceQueued' /\ env.ptr \in InQueue
      /\ env \in Envelope /\ queue' \in Seq(Envelope)
    BY <1>1, <1>2, PointerTypes, Apart, QueueShrinks
<1>4. Owned(MovedFrom(env).ptr) = <<>>
    BY <1>3 DEF MovedFrom, Owned, Envelope
<1>5. dying' = [dying EXCEPT ![Loop] = <<>>] /\ pc' = [pc EXCEPT ![Loop] = "idle"]
    BY <1>4 DEF Dispatch, Destroys
<1>6. dying' = dying
    BY <1>1, <1>2, <1>5, PointerTypes DEF Phases
<1>7. InCurrent = {} /\ InCurrent' = {env.ptr}
    BY <1>2, <1>3, NullIsNoEnvelope DEF InCurrent
<1>8. /\ UNCHANGED <<InPtrs, InInners, InDying, Constructed>>
      /\ OncePtr' /\ OnceInner' /\ OnceDying'
    BY <1>1, <1>2, <1>6 DEF InPtrs, InInners, InDying, Constructed, OncePtr,
                            OnceInner, OnceDying
<1>9. Partition'
    <2> HIDE DEF env
    <2> QED
        BY <1>1, <1>3, <1>7, <1>8 DEF Partition
<1> QED
    BY <1>2, <1>3, <1>5, <1>6, <1>8, <1>9 DEF Ownership

\* What is left in the envelope is destroyed with it.
LEMMA HandlerEndOwns ==
    ASSUME IInv, HandlerEnd
    PROVE  Ownership'
<1> DEFINE p == current.ptr
<1>1. Typed /\ Phases /\ Partition /\ OncePtr /\ OnceInner /\ OnceDying /\ OnceQueued
    BY DEF IInv, Ownership
<1>2. /\ current # Null /\ current' = Null /\ pc[Loop] = "idle" /\ Loop \in Threads
      /\ dying' = [dying EXCEPT ![Loop] = Owned(p)]
      /\ UNCHANGED <<content, inner, ptr, queue>>
    BY DEF HandlerEnd, Destroys, memory, Threads
<1>3. p \in MaybeBlock /\ p # Null /\ InCurrent = {p} /\ InCurrent' = {}
    <2>1. InCurrent = {p} /\ InCurrent' = {}
        BY <1>2 DEF InCurrent
    <2>2. current \in Envelope
        BY <1>1, <1>2 DEF Typed, TypeOK
    <2> QED
        BY <1>1, <2>1, <2>2, Apart DEF Envelope, MaybeBlock
<1>4. /\ UNCHANGED <<InQueue, InPtrs, InInners, Constructed>>
      /\ OnceQueued' /\ OncePtr' /\ OnceInner'
    BY <1>1, <1>2 DEF InQueue, InPtrs, InInners, Constructed, QueuePtrs,
                      OnceQueued, OncePtr, OnceInner
<1>5. p \notin InDying
    BY <1>1, <1>3 DEF Partition
<1>6. InDying' = InDying \cup ({p} \ {Null}) /\ OnceDying'
    BY <1>1, <1>2, <1>3, <1>5, DyingStarts
<1> HIDE DEF p
<1>7. Partition'
    BY <1>1, <1>3, <1>4, <1>6 DEF Partition
<1> QED
    BY <1>4, <1>6, <1>7 DEF Ownership

\* The queue's payloads are destroyed in its order.
LEMMA ShutdownOwns ==
    ASSUME IInv, Shutdown
    PROVE  Ownership' /\ dying' = [dying EXCEPT ![Loop] = QueuePtrs]
                      /\ QueuePtrs \in Seq(Blocks)
<1>1. Typed /\ Phases /\ Partition /\ OncePtr /\ OnceInner /\ OnceDying /\ OnceQueued
    BY DEF IInv, Ownership
<1>2. /\ current = Null /\ current' = Null /\ pc[Loop] = "idle" /\ Loop \in Threads
      /\ dying' = [dying EXCEPT ![Loop] = QueuePtrs] /\ queue' = <<>>
      /\ UNCHANGED <<content, inner, ptr>>
    BY DEF Shutdown, Destroys, memory, Threads, QueuePtrs
<1>3. QueuePtrs \in Seq(Blocks) /\ NoRepeats(QueuePtrs) /\ InQueue = Items(QueuePtrs)
    <2>1. InQueue \subseteq Blocks /\ queue \in Seq(Envelope)
        BY <1>1, Apart, PointerTypes
    <2> QED
        BY <1>1, <2>1 DEF QueuePtrs, InQueue, Items, OnceQueued
<1>4. InQueue' = {} /\ OnceQueued'
    BY <1>2 DEF InQueue, QueuePtrs, Items, OnceQueued, NoRepeats
<1>5. /\ UNCHANGED <<InCurrent, InPtrs, InInners, Constructed>>
      /\ OncePtr' /\ OnceInner'
    BY <1>1, <1>2 DEF InCurrent, InPtrs, InInners, Constructed, OncePtr, OnceInner
<1>6. Items(dying[Loop]) = {}
    BY <1>1, <1>2 DEF Phases, Items
<1>7. InDying' = (InDying \ {}) \cup InQueue /\ OnceDying'
    <2>1. Items(QueuePtrs) \cap (InDying \ Items(dying[Loop])) = {}
        BY <1>1, <1>3 DEF Partition
    <2> QED
        BY <1>1, <1>2, <1>3, <1>6, <2>1, PointerTypes, DyingChanges
<1>8. Partition'
    BY <1>1, <1>4, <1>5, <1>7 DEF Partition
<1> QED
    BY <1>2, <1>3, <1>4, <1>5, <1>7, <1>8 DEF Ownership

\* Steps that move no pointer.
LEMMA OthersOwn ==
    ASSUME IInv, UNCHANGED <<content, inner, ptr, dying, queue, current>>
    PROVE  Ownership'
<1>1. Partition /\ OncePtr /\ OnceInner /\ OnceDying /\ OnceQueued
    BY DEF IInv, Ownership
<1>2. UNCHANGED <<InPtrs, InInners, InDying, InQueue, InCurrent, Constructed>>
    BY DEF InPtrs, InInners, InDying, InQueue, InCurrent, Constructed, QueuePtrs
<1>3. OncePtr' /\ OnceInner' /\ OnceDying' /\ OnceQueued'
    BY <1>1 DEF OncePtr, OnceInner, OnceDying, OnceQueued, QueuePtrs
<1> QED
    BY <1>1, <1>2, <1>3 DEF Ownership, Partition

-----------------------------------------------------------------------------
(***************************************************************************)
(* The cases of Next.                                                      *)
(***************************************************************************)

\* A post, whoever makes it.  Only a typed send has been looked at.
Posting(t) ==
    \E from \in Modules \cup {NoSender}, to \in Modules \cup {Stranger},
       via \in {"send", "reply", "post"} :
          /\ HoldsMessage(t)
          /\ Post(t, from, to, via)
          /\ via = "send" => MaySend(from, content[ptr[t]], to)
          /\ UNCHANGED <<memory, current, open, fault>>

\* The assertion of reply_to() fails.
RefusedReply ==
    /\ fault' = "sentinel"
    /\ UNCHANGED <<memory, pc, ptr, dying, queue, current, open>>

\* send(), reply_to() and a plain post come to the same; a handler has a
\* sender to name.
LEMMA StepCases ==
    ASSUME IInv, Next
    PROVE  \/ \E t \in Threads : MakeLock(t) \/ Allocate(t) \/ FreeLock(t)
           \/ \E t \in Threads, type \in Types : Construct(t, type)
           \/ \E t \in Threads : DestroyInner(t) \/ Deallocate(t) \/ DropMessage(t)
           \/ \E t \in Threads : Posting(t)
           \/ RefusedReply \/ Dispatch \/ HandlerEnd \/ Stop \/ Shutdown
<1>1. ASSUME HoldsMessage(Loop), fault = "none"
      PROVE  current \in Envelope /\ current.to \in Modules /\ Loop \in Threads
    BY <1>1 DEF HoldsMessage, IInv, Handling, Typed, TypeOK, Threads
<1>2. ASSUME NEW t \in Threads, NEW to \in Modules \cup {Stranger}, PostRaw(t, to)
      PROVE  Posting(t)
    BY <1>2 DEF PostRaw, Posting
<1>3. ASSUME NEW to \in Modules \cup {Stranger}, Send(to), fault = "none" PROVE Posting(Loop)
    <2>1. current.to \in Modules
        BY <1>1, <1>3 DEF Send
    <2> QED
        BY <1>3, <2>1 DEF Send, Posting
<1>4. ASSUME Reply, fault = "none" PROVE RefusedReply \/ Posting(Loop)
    <2>1. CASE current.from = NoSender
        BY <1>4, <2>1 DEF Reply, RefusedReply
    <2>2. CASE current.from # NoSender
        <3>1. current.to \in Modules /\ current.from \in Modules
            BY <1>1, <1>4, <2>2 DEF Reply, Envelope
        <3>2. /\ HoldsMessage(Loop) /\ Post(Loop, current.to, current.from, "reply")
              /\ UNCHANGED <<memory, current, open, fault>>
            BY <1>4, <2>2 DEF Reply
        <3> QED
            BY <3>1, <3>2 DEF Posting
    <2> QED
        BY <2>1, <2>2
<1> QED
    BY <1>1, <1>2, <1>3, <1>4 DEF Next, Threads

\* Pointers keep their owners.
LEMMA OwnershipHolds == IInv /\ [Next]_vars => Ownership'
<1> SUFFICES ASSUME IInv, [Next]_vars PROVE Ownership'
    OBVIOUS
<1>1. ASSUME NEW t \in Threads, MakeLock(t) \/ Allocate(t) \/ FreeLock(t)
      PROVE  Ownership'
    BY <1>1, OthersOwn DEF MakeLock, Allocate, FreeLock, routing
<1>2. ASSUME NEW t \in Threads, Posting(t) PROVE Ownership'
    BY <1>2, PostOwns DEF Posting, memory
<1>3. CASE RefusedReply \/ Stop \/ UNCHANGED vars
    BY <1>3, OthersOwn DEF RefusedReply, Stop, vars, memory
<1> QED
    BY <1>1, <1>2, <1>3, ConstructOwns, DestroyInnerOwns, DeallocateOwns, DropOwns,
       DispatchOwns, HandlerEndOwns, ShutdownOwns, StepCases

-----------------------------------------------------------------------------
(***************************************************************************)
(* Types and places.                                                       *)
(***************************************************************************)

PcPlaces == {"idle", "allocate", "construct", "destroy", "deallocate"}

\* What a step on a thread's own variables has to show.
LEMMA TypedIf ==
    ASSUME Typed,
           lock' \in Threads \cup {Null},
           content' \in [Blocks -> Types \cup {"free"}],
           inner' \in [Blocks -> MaybeBlock],
           pc' \in [Threads -> PcPlaces],
           found' \in [Threads -> MaybeBlock],
           ptr' \in [Threads -> MaybeBlock],
           dying' \in [Threads -> Seq(Blocks)],
           queue' \in Seq(Envelope),
           current' \in Envelope \cup {Null},
           open' \in BOOLEAN,
           fault' \in {"none", "memory", "sentinel", "target", "inbox"}
    PROVE  Typed'
<1>1. \A t \in Threads : dying'[t] \in Seq(Blocks)
    OBVIOUS
<1> QED
    BY <1>1, Zenon DEF Typed, TypeOK, MaybeBlock, PcPlaces

\* Every step keeps the types.
LEMMA TypedHolds == IInv /\ [Next]_vars => Typed'
<1> SUFFICES ASSUME IInv, [Next]_vars PROVE Typed'
    OBVIOUS
<1>0. /\ Typed /\ Phases /\ Partition
      /\ lock \in Threads \cup {Null}
      /\ content \in [Blocks -> Types \cup {"free"}]
      /\ inner \in [Blocks -> MaybeBlock]
      /\ pc \in [Threads -> PcPlaces]
      /\ found \in [Threads -> MaybeBlock]
      /\ ptr \in [Threads -> MaybeBlock]
      /\ dying \in [Threads -> Seq(Blocks)]
      /\ queue \in Seq(Envelope)
      /\ current \in Envelope \cup {Null}
      /\ open \in BOOLEAN
      /\ fault \in {"none", "memory", "sentinel", "target", "inbox"}
    BY Zenon DEF IInv, Ownership, Typed, TypeOK, MaybeBlock, PcPlaces
<1>1. Null \in MaybeBlock /\ Blocks \subseteq MaybeBlock /\ <<>> \in Seq(Blocks)
    BY DEF MaybeBlock
<1>2. ASSUME NEW t \in Threads, NEW s \in Seq(Blocks), Destroys(t, s)
      PROVE  dying' \in [Threads -> Seq(Blocks)] /\ pc' \in [Threads -> PcPlaces]
    BY <1>0, <1>2 DEF Destroys, PcPlaces
<1>3. ASSUME NEW t \in Threads, MakeLock(t) \/ FreeLock(t) PROVE Typed'
    <2>1. lock' \in Threads \cup {Null} /\ pc' \in [Threads -> PcPlaces]
        BY <1>0, <1>3 DEF MakeLock, FreeLock, PcPlaces
    <2>2. UNCHANGED <<content, inner, found, ptr, dying, routing>>
        BY <1>3 DEF MakeLock, FreeLock
    <2> QED
        BY <1>0, <2>1, <2>2, TypedIf, Zenon DEF routing
<1>4. ASSUME NEW t \in Threads, Allocate(t) PROVE Typed'
    <2>1. /\ found' \in [Threads -> MaybeBlock] /\ pc' \in [Threads -> PcPlaces]
          /\ fault' = fault \/ fault' = "memory"
        BY <1>0, <1>1, <1>4 DEF Allocate, Free, PcPlaces
    <2>2. UNCHANGED <<lock, content, inner, ptr, dying, queue, current, open>>
        BY <1>4 DEF Allocate
    <2> QED
        BY <1>0, <2>1, <2>2, TypedIf, Zenon
<1>5. ASSUME NEW t \in Threads, NEW type \in Types, Construct(t, type) PROVE Typed'
    <2>1. found[t] \in Blocks
        BY <1>0, <1>5 DEF Construct, Phases
    <2>2. /\ content' \in [Blocks -> Types \cup {"free"}]
          /\ lock' = Null
          /\ found' \in [Threads -> MaybeBlock] /\ ptr' \in [Threads -> MaybeBlock]
        BY <1>0, <1>1, <1>5, <2>1 DEF Construct
    <2>3. /\ inner' \in [Blocks -> MaybeBlock]
          /\ dying' \in [Threads -> Seq(Blocks)] /\ pc' \in [Threads -> PcPlaces]
        <3>1. CASE /\ inner' = [inner EXCEPT ![found[t]] = ptr[t]]
                   /\ pc' = [pc EXCEPT ![t] = "idle"]
                   /\ UNCHANGED dying
            BY <1>0, <3>1 DEF PcPlaces
        <3>2. CASE Destroys(t, Owned(ptr[t])) /\ UNCHANGED inner
            BY <1>0, <1>2, <3>2, OwnedItems
        <3> QED
            BY <1>5, <3>1, <3>2 DEF Construct
    <2>4. UNCHANGED routing
        BY <1>5 DEF Construct
    <2> QED
        BY <1>0, <2>2, <2>3, <2>4, TypedIf, Zenon DEF routing
<1>6. ASSUME NEW t \in Threads, DestroyInner(t) PROVE Typed'
    <2>1. dying[t] # <<>> /\ dying[t] \in Seq(Blocks)
        BY <1>0, <1>6 DEF DestroyInner, Phases
    <2>2. Top(t) \in Blocks /\ inner[Top(t)] \in Blocks
        BY <1>0, <1>6, <2>1, TailItems DEF DestroyInner, Top, MaybeBlock
    <2>3. <<inner[Top(t)]>> \o dying[t] \in Seq(Blocks)
        BY <2>1, <2>2, ConsItems
    <2>4. dying' \in [Threads -> Seq(Blocks)] /\ inner' \in [Blocks -> MaybeBlock]
        BY <1>0, <1>1, <1>6, <2>3 DEF DestroyInner
    <2>5. UNCHANGED <<lock, content, found, pc, ptr, routing>>
        BY <1>6 DEF DestroyInner
    <2> QED
        BY <1>0, <2>4, <2>5, TypedIf, Zenon DEF routing
<1>7. ASSUME NEW t \in Threads, Deallocate(t) PROVE Typed'
    <2>1. dying[t] # <<>> /\ dying[t] \in Seq(Blocks)
        BY <1>0, <1>7 DEF Deallocate, Phases
    <2>2. Tail(dying[t]) \in Seq(Blocks)
        BY <2>1, TailItems
    <2>3. /\ dying' \in [Threads -> Seq(Blocks)] /\ pc' \in [Threads -> PcPlaces]
          /\ content' \in [Blocks -> Types \cup {"free"}] /\ lock' = Null
        BY <1>0, <1>2, <1>7, <2>2 DEF Deallocate
    <2>4. UNCHANGED <<inner, found, ptr, routing>>
        BY <1>7 DEF Deallocate
    <2> QED
        BY <1>0, <2>3, <2>4, TypedIf, Zenon DEF routing
<1>8. ASSUME NEW t \in Threads, DropMessage(t) PROVE Typed'
    <2>1. Owned(ptr[t]) \in Seq(Blocks)
        BY <1>0, OwnedItems
    <2>2. /\ dying' \in [Threads -> Seq(Blocks)] /\ pc' \in [Threads -> PcPlaces]
          /\ ptr' \in [Threads -> MaybeBlock]
        BY <1>0, <1>1, <1>2, <1>8, <2>1 DEF DropMessage
    <2>3. UNCHANGED <<memory, routing>>
        BY <1>8 DEF DropMessage
    <2> QED
        BY <1>0, <2>2, <2>3, TypedIf, Zenon DEF routing, memory
<1>9. ASSUME NEW t \in Threads, Posting(t) PROVE Typed'
    <2>1. PICK from \in Modules \cup {NoSender}, to \in Modules \cup {Stranger},
               via \in {"send", "reply", "post"} :
              HoldsMessage(t) /\ Post(t, from, to, via)
        BY <1>9 DEF Posting
    <2> DEFINE env == Built(t, from, to, via)
    <2>2. /\ env \in Envelope
          /\ ptr' = [ptr EXCEPT ![t] = Null]
          /\ \/ /\ queue' = Append(queue, env)
                /\ dying' = [dying EXCEPT ![t] = <<>>]
                /\ pc' = [pc EXCEPT ![t] = "idle"]
             \/ /\ queue' = queue
                /\ dying' = [dying EXCEPT ![t] = Owned(ptr[t])]
                /\ pc' = [pc EXCEPT ![t] = "destroy"]
        BY <2>1, PostEffect
    <2> HIDE DEF env
    <2>3. queue' \in Seq(Envelope)
        <3>1. Append(queue, env) \in Seq(Envelope)
            BY <1>0, <2>2, AppendItems
        <3> QED
            BY <1>0, <2>2, <3>1, Zenon
    <2>4. dying' \in [Threads -> Seq(Blocks)]
        <3>1. Owned(ptr[t]) \in Seq(Blocks)
            BY <1>0, OwnedItems
        <3>2. \A s \in Seq(Blocks) : [dying EXCEPT ![t] = s] \in [Threads -> Seq(Blocks)]
            BY <1>0
        <3> QED
            BY <1>1, <2>2, <3>1, <3>2, Zenon
    <2>5. pc' \in [Threads -> PcPlaces] /\ ptr' \in [Threads -> MaybeBlock]
        BY <1>0, <1>1, <2>2 DEF PcPlaces
    <2>6. UNCHANGED <<memory, current, open, fault>>
        BY <1>9 DEF Posting
    <2> QED
        BY <1>0, <2>3, <2>4, <2>5, <2>6, TypedIf, Zenon DEF memory
<1>10. CASE Dispatch
    <2>1. /\ current' \in Envelope \cup {Null} /\ queue' \in Seq(Envelope)
          /\ pc' \in [Threads -> PcPlaces] /\ UNCHANGED dying
        BY <1>0, <1>10, DispatchOwns DEF PcPlaces
    <2>2. fault' \in {"none", "target", "inbox"}
        BY <1>10 DEF Dispatch, Route
    <2>3. UNCHANGED <<memory, ptr, open>>
        BY <1>10 DEF Dispatch
    <2> QED
        BY <1>0, <2>1, <2>2, <2>3, TypedIf, Zenon DEF memory
<1>11. CASE HandlerEnd
    <2>1. current \in Envelope /\ current.ptr \in MaybeBlock
        BY <1>0, <1>11 DEF HandlerEnd, Envelope, MaybeBlock
    <2>2. dying' \in [Threads -> Seq(Blocks)] /\ pc' \in [Threads -> PcPlaces]
        BY <1>2, <1>11, <2>1, OwnedItems DEF HandlerEnd, Threads
    <2>3. current' = Null /\ UNCHANGED <<memory, ptr, queue, open, fault>>
        BY <1>11 DEF HandlerEnd
    <2> QED
        BY <1>0, <2>2, <2>3, TypedIf, Zenon DEF memory
<1>12. CASE Shutdown
    <2>1. dying' \in [Threads -> Seq(Blocks)] /\ pc' \in [Threads -> PcPlaces]
        BY <1>2, <1>12, ShutdownOwns DEF Shutdown, Threads, QueuePtrs
    <2>2. queue' \in Seq(Envelope) /\ open' \in BOOLEAN
        BY <1>12 DEF Shutdown
    <2>3. UNCHANGED <<memory, ptr, current, fault>>
        BY <1>12 DEF Shutdown
    <2> QED
        BY <1>0, <2>1, <2>2, <2>3, TypedIf, Zenon DEF memory
<1>13. CASE RefusedReply
    BY <1>0, <1>13, TypedIf, Zenon DEF RefusedReply, memory
<1>14. CASE Stop
    BY <1>0, <1>14, TypedIf, Zenon DEF Stop, memory
<1>15. CASE UNCHANGED vars
    BY <1>0, <1>15, TypedIf, Zenon DEF vars
<1> QED
    BY <1>3, <1>4, <1>5, <1>6, <1>7, <1>8, <1>9, <1>10, <1>11, <1>12, <1>13,
       <1>14, <1>15, StepCases

\* Only the thread that has the lock takes or frees a block.
LEMMA PhasesHold == IInv /\ [Next]_vars => Phases'
<1> SUFFICES ASSUME IInv, [Next]_vars PROVE Phases'
    OBVIOUS
<1>0. /\ Typed /\ Phases /\ Partition
      /\ content \in [Blocks -> Types \cup {"free"}]
      /\ inner \in [Blocks -> MaybeBlock]
      /\ pc \in [Threads -> PcPlaces]
      /\ found \in [Threads -> MaybeBlock]
      /\ ptr \in [Threads -> MaybeBlock]
      /\ dying \in [Threads -> Seq(Blocks)]
      /\ Null \notin Threads
    BY NullIsNothing DEF IInv, Ownership, Typed, TypeOK, MaybeBlock, PcPlaces, Threads
<1>1. \A u \in Threads : pc[u] \in {"destroy", "deallocate"} => Top(u) \in Blocks
    BY <1>0, TailItems DEF Phases, Top
<1>2. ASSUME NEW t \in Threads, MakeLock(t) \/ FreeLock(t) PROVE Phases'
    <2>1. /\ lock = Null /\ lock' = t
          /\ pc' = [pc EXCEPT ![t] = IF pc[t] = "destroy" THEN "deallocate" ELSE "allocate"]
          /\ pc[t] \in {"idle", "destroy"}
          /\ pc[t] = "destroy" => inner[Top(t)] = Null
          /\ UNCHANGED <<content, inner, found, dying>>
        BY <1>2 DEF MakeLock, FreeLock, MayMake
    <2> QED
        BY <1>0, <2>1 DEF Phases, Top
<1>3. ASSUME NEW t \in Threads, Allocate(t) PROVE Phases'
    <2>1. /\ UNCHANGED <<lock, content, inner, dying>>
          /\ pc[t] = "allocate"
          /\ \/ UNCHANGED <<found, pc>>
             \/ \E b \in Free : /\ found' = [found EXCEPT ![t] = b]
                                /\ pc' = [pc EXCEPT ![t] = "construct"]
        BY <1>3 DEF Allocate
    <2>2. CASE UNCHANGED <<found, pc>>
        BY <1>0, <2>1, <2>2 DEF Phases, Top
    <2>3. ASSUME NEW b \in Free, found' = [found EXCEPT ![t] = b],
                 pc' = [pc EXCEPT ![t] = "construct"]
          PROVE  Phases'
        BY <1>0, <2>1, <2>3 DEF Phases, Top, Free
    <2> QED
        BY <2>1, <2>2, <2>3
<1>4. ASSUME NEW t \in Threads, NEW type \in Types, Construct(t, type) PROVE Phases'
    <2> DEFINE f == found[t]
    <2>1. /\ pc[t] = "construct" /\ lock = t /\ lock' = Null
          /\ f \in Blocks /\ content[f] = "free" /\ dying[t] = <<>>
          /\ content' = [content EXCEPT ![f] = type]
          /\ found' = [found EXCEPT ![t] = Null]
        BY <1>0, <1>4 DEF Construct, Phases
    <2>2. type # "free"
        BY FreeIsNoType
    <2>3. /\ \A u \in Threads \ {t} : pc[u] \in {"idle", "destroy"}
          /\ pc[t] = "construct"
        BY <1>0, <2>1 DEF Phases, PcPlaces
    <2>4. inner' = inner \/ inner' = [inner EXCEPT ![f] = ptr[t]]
        BY <1>4 DEF Construct
    <2>5. \A b \in Blocks : content'[b] = "free" => inner'[b] = Null
        BY <1>0, <2>1, <2>2, <2>4 DEF Phases
    <2>6. \/ dying' = dying /\ pc' = [pc EXCEPT ![t] = "idle"]
          \/ /\ dying' = [dying EXCEPT ![t] = Owned(ptr[t])]
             /\ pc' = [pc EXCEPT ![t] = "destroy"]
             /\ Owned(ptr[t]) # <<>>
        BY <1>0, <1>4, OwnedItems DEF Construct, Destroys
    <2>7. \A u \in Threads \ {t} : dying'[u] = dying[u] /\ pc'[u] = pc[u]
        BY <1>0, <2>6
    <2>8. /\ pc'[t] \in {"idle", "destroy"}
          /\ pc'[t] = "destroy" <=> dying'[t] # <<>>
        BY <1>0, <2>1, <2>6
    <2> QED
        BY <1>0, <2>1, <2>3, <2>5, <2>7, <2>8 DEF Phases
<1>5. ASSUME NEW t \in Threads, DestroyInner(t) PROVE Phases'
    <2>1. /\ pc[t] = "destroy" /\ dying[t] \in Seq(Blocks) /\ Top(t) \in Blocks
          /\ inner[Top(t)] \in Blocks
          /\ dying' = [dying EXCEPT ![t] = <<inner[Top(t)]>> \o dying[t]]
          /\ inner' = [inner EXCEPT ![Top(t)] = Null]
          /\ UNCHANGED <<lock, content, found, pc>>
        BY <1>0, <1>1, <1>5 DEF DestroyInner, MaybeBlock
    <2>2. <<inner[Top(t)]>> \o dying[t] # <<>>
        BY <2>1, ConsItems
    <2>3. /\ \A u \in Threads \ {t} : dying'[u] = dying[u]
          /\ dying'[t] # <<>>
        BY <1>0, <2>1, <2>2
    <2>4. \A b \in Blocks : inner[b] = Null => inner'[b] = Null
        BY <1>0, <2>1
    <2> QED
        BY <1>0, <1>1, <2>1, <2>3, <2>4 DEF Phases, Top
<1>6. ASSUME NEW t \in Threads, Deallocate(t) PROVE Phases'
    <2>1. /\ pc[t] = "deallocate" /\ lock = t /\ lock' = Null
          /\ Top(t) \in Blocks /\ inner[Top(t)] = Null
          /\ content' = [content EXCEPT ![Top(t)] = "free"]
          /\ UNCHANGED <<inner, found>>
        BY <1>0, <1>1, <1>6 DEF Deallocate, Phases
    <2>2. \A u \in Threads \ {t} : pc[u] \in {"idle", "destroy"}
        BY <1>0, <2>1 DEF Phases, PcPlaces
    <2>3. /\ dying' = [dying EXCEPT ![t] = Tail(dying[t])]
          /\ pc' = [pc EXCEPT ![t] = IF Tail(dying[t]) = <<>> THEN "idle" ELSE "destroy"]
        BY <1>6 DEF Deallocate, Destroys
    <2>4. /\ \A u \in Threads \ {t} : dying'[u] = dying[u] /\ pc'[u] = pc[u]
          /\ pc'[t] \in {"idle", "destroy"}
          /\ pc'[t] = "destroy" <=> dying'[t] # <<>>
        BY <1>0, <2>3
    <2>5. \A b \in Blocks : content'[b] = "free" => inner'[b] = Null
        BY <1>0, <2>1 DEF Phases
    <2> QED
        BY <1>0, <2>1, <2>2, <2>4, <2>5 DEF Phases
\* A thread that was idle starts to destroy something, or nothing.
<1>7. ASSUME NEW t \in Threads, pc[t] = "idle", NEW s,
             dying' = [dying EXCEPT ![t] = s],
             pc' = [pc EXCEPT ![t] = IF s = <<>> THEN "idle" ELSE "destroy"],
             UNCHANGED memory
      PROVE  Phases'
    <2>1. /\ \A u \in Threads \ {t} : dying'[u] = dying[u] /\ pc'[u] = pc[u]
          /\ pc'[t] \in {"idle", "destroy"}
          /\ pc'[t] = "destroy" <=> dying'[t] # <<>>
        BY <1>0, <1>7
    <2>2. UNCHANGED <<lock, content, inner, found>>
        BY <1>7 DEF memory
    <2> QED
        BY <1>0, <1>7, <2>1, <2>2 DEF Phases, Top
<1>8. ASSUME NEW t \in Threads, DropMessage(t) PROVE Phases'
    BY <1>7, <1>8 DEF DropMessage, Destroys
<1>9. ASSUME NEW t \in Threads, Posting(t) PROVE Phases'
    <2>1. PICK from \in Modules \cup {NoSender}, to \in Modules \cup {Stranger},
               via \in {"send", "reply", "post"} :
              HoldsMessage(t) /\ Post(t, from, to, via)
        BY <1>9 DEF Posting
    <2>2. pc[t] = "idle" /\ UNCHANGED memory
        BY <1>9, <2>1 DEF Posting, HoldsMessage
    <2> QED
        BY <1>7, <2>1, <2>2 DEF Post, Destroys
<1>10. CASE Dispatch \/ HandlerEnd \/ Shutdown
    BY <1>7, <1>10 DEF Dispatch, HandlerEnd, Shutdown, Destroys, Threads
<1>11. CASE UNCHANGED <<memory, pc, dying>>
    <2>1. UNCHANGED <<lock, content, inner, found, pc, dying>>
        BY <1>11 DEF memory
    <2> QED
        BY <1>0, <2>1 DEF Phases, Top
<1>12. CASE RefusedReply \/ Stop \/ UNCHANGED vars
    BY <1>11, <1>12 DEF RefusedReply, Stop, vars, memory
<1> QED
    BY <1>2, <1>3, <1>4, <1>5, <1>6, <1>8, <1>9, <1>10, <1>12, StepCases

-----------------------------------------------------------------------------
(***************************************************************************)
(* Handlers and envelopes.                                                 *)
(***************************************************************************)

\* The loop thread takes hold of a message in handlers only, and a handler runs
\* for a module of the list.
LEMMA HandlingHolds == IInv /\ [Next]_vars => Handling'
<1> SUFFICES ASSUME IInv, [Next]_vars PROVE Handling'
    OBVIOUS
<1>0. /\ Typed /\ Handling /\ Loop \in Threads
      /\ pc \in [Threads -> PcPlaces] /\ ptr \in [Threads -> MaybeBlock]
    BY DEF IInv, Typed, TypeOK, PcPlaces, MaybeBlock, Threads
<1>1. ASSUME NEW t \in Threads, MakeLock(t) \/ Allocate(t) \/ FreeLock(t)
      PROVE  Handling'
    <2>1. /\ UNCHANGED <<ptr, current>>
          /\ \/ pc' = pc
             \/ pc' = [pc EXCEPT ![t] = "deallocate"]
             \/ pc' = [pc EXCEPT ![t] = "allocate"] /\ (t = Loop => current # Null)
             \/ pc' = [pc EXCEPT ![t] = "construct"] /\ pc[t] = "allocate"
          /\ fault' = fault \/ fault' = "memory"
        BY <1>1 DEF MakeLock, MayMake, Allocate, FreeLock, routing
    <2> QED
        BY <1>0, <2>1 DEF Handling
<1>2. ASSUME NEW t \in Threads, NEW type \in Types, Construct(t, type) PROVE Handling'
    <2>1. /\ UNCHANGED routing /\ pc[t] = "construct"
          /\ \A u \in Threads \ {t} : pc'[u] = pc[u] /\ ptr'[u] = ptr[u]
        BY <1>0, <1>2 DEF Construct, Destroys
    <2> QED
        BY <1>0, <2>1 DEF Handling, routing
<1>3. ASSUME NEW t \in Threads, pc'[t] \in {"idle", "destroy"},
             ptr'[t] \in {ptr[t], Null},
             \A u \in Threads \ {t} : pc'[u] = pc[u] /\ ptr'[u] = ptr[u],
             UNCHANGED <<current, fault>>
      PROVE  Handling'
    BY <1>0, <1>3 DEF Handling
<1>4. ASSUME NEW t \in Threads, DestroyInner(t) \/ Deallocate(t) \/ DropMessage(t)
      PROVE  Handling'
    BY <1>0, <1>3, <1>4 DEF DestroyInner, Deallocate, DropMessage, Destroys, routing
<1>5. ASSUME NEW t \in Threads, Posting(t) PROVE Handling'
    BY <1>0, <1>3, <1>5 DEF Posting, Post, Destroys
<1>6. CASE Dispatch
    <2>1. /\ current' \in Envelope /\ current' # Null
          /\ fault' = Route(current')
        BY <1>6, DispatchOwns, NullIsNoEnvelope DEF Dispatch
    <2>2. fault' = "none" => current'.to \in Modules
        BY <2>1 DEF Route
    <2> QED
        BY <2>1, <2>2 DEF Handling
<1>7. CASE HandlerEnd \/ Shutdown
    <2>1. /\ ptr'[Loop] = Null /\ current' = Null
          /\ pc'[Loop] \in {"idle", "destroy"}
        BY <1>0, <1>7 DEF HandlerEnd, Shutdown, Destroys, Handling
    <2> QED
        BY <2>1 DEF Handling
<1>8. CASE RefusedReply \/ Stop \/ UNCHANGED vars
    BY <1>0, <1>8 DEF RefusedReply, Stop, vars, Handling
<1> QED
    BY <1>1, <1>2, <1>4, <1>5, <1>6, <1>7, <1>8, StepCases

\* An envelope's payload is in its place of the queue, or in hand.
LEMMA EnvelopesHold == IInv /\ [Next]_vars => Envelopes'
<1> SUFFICES ASSUME IInv, [Next]_vars PROVE Envelopes'
    OBVIOUS
<1>0. /\ Typed /\ Phases /\ Envelopes /\ Partition
      /\ content \in [Blocks -> Types \cup {"free"}]
      /\ dying \in [Threads -> Seq(Blocks)]
      /\ queue \in Seq(Envelope)
    BY DEF IInv, Ownership, Typed, TypeOK
<1>1. /\ \A e \in Items(queue) : e.ptr \in InQueue
      /\ current # Null => current.ptr \in InCurrent
    BY DEF Items, InQueue, QueuePtrs, InCurrent
<1>2. ASSUME NEW b \in Blocks, NEW x, b \notin InQueue, b \notin InCurrent,
             content' = [content EXCEPT ![b] = x], UNCHANGED <<queue, current>>
      PROVE  Envelopes'
    <2>1. \A c : c # b /\ c \in Blocks => content'[c] = content[c]
        BY <1>0, <1>2
    <2>2. InQueue \subseteq Blocks /\ InCurrent \subseteq Blocks
        BY <1>0 DEF Partition, Constructed
    <2> QED
        BY <1>0, <1>1, <1>2, <2>1, <2>2 DEF Envelopes, TypeMatches, Routable
<1>3. ASSUME NEW t \in Threads, NEW type \in Types, Construct(t, type) PROVE Envelopes'
    <2>1. found[t] \in Blocks /\ content[found[t]] = "free"
        BY <1>0, <1>3 DEF Construct, Phases
    <2>2. found[t] \notin InQueue /\ found[t] \notin InCurrent
        BY <1>0, <2>1, Apart
    <2> QED
        BY <1>2, <1>3, <2>1, <2>2 DEF Construct, routing
<1>4. ASSUME NEW t \in Threads, Deallocate(t) PROVE Envelopes'
    <2>1. dying[t] # <<>> /\ dying[t] \in Seq(Blocks)
        BY <1>0, <1>4 DEF Deallocate, Phases
    <2>2. Top(t) \in Blocks /\ Top(t) \in Items(dying[t])
        BY <2>1, TailItems DEF Top
    <2>3. Top(t) \in InDying
        BY <2>2 DEF InDying
    <2>4. Top(t) \notin InQueue /\ Top(t) \notin InCurrent
        BY <1>0, <2>3 DEF Partition
    <2> QED
        BY <1>2, <1>4, <2>2, <2>4 DEF Deallocate, routing
<1>5. ASSUME NEW t \in Threads, Posting(t) PROVE Envelopes'
    <2>1. PICK from \in Modules \cup {NoSender}, to \in Modules \cup {Stranger},
               via \in {"send", "reply", "post"} :
              /\ HoldsMessage(t) /\ Post(t, from, to, via)
              /\ via = "send" => MaySend(from, content[ptr[t]], to)
        BY <1>5 DEF Posting
    <2> DEFINE env == Built(t, from, to, via)
    <2>2. /\ env \in Envelope /\ TypeMatches(env)
          /\ queue' = Append(queue, env) \/ queue' = queue
        BY <2>1, PostEffect
    <2>3. Routable(env)
        BY <2>1 DEF Routable, Built
    <2>4. UNCHANGED <<content, current>>
        BY <1>5 DEF Posting, memory
    <2> HIDE DEF env
    <2>5. Items(queue') \subseteq Items(queue) \cup {env}
        <3>1. Items(Append(queue, env)) = Items(queue) \cup {env}
            BY <1>0, <2>2, AppendItems
        <3> QED
            BY <2>2, <3>1, Zenon
    <2> QED
        BY <1>0, <2>2, <2>3, <2>4, <2>5 DEF Envelopes, TypeMatches, Routable
<1>6. CASE Dispatch
    <2>1. /\ queue # <<>> /\ current' = Head(queue) /\ queue' = Tail(queue)
          /\ UNCHANGED content
        BY <1>6 DEF Dispatch, memory
    <2>2. Items(queue) = {Head(queue)} \cup Items(Tail(queue))
        BY <1>0, <2>1, TailItems
    <2> QED
        BY <1>0, <2>1, <2>2 DEF Envelopes, TypeMatches, Routable
<1>7. CASE HandlerEnd \/ Shutdown
    <2>1. /\ current' = Null /\ queue' \in {queue, <<>>} /\ UNCHANGED content
        BY <1>7 DEF HandlerEnd, Shutdown, memory
    <2>2. Items(queue') \subseteq Items(queue)
        BY <2>1 DEF Items
    <2> QED
        BY <1>0, <2>1, <2>2 DEF Envelopes, TypeMatches, Routable
<1>8. CASE UNCHANGED <<content, queue, current>>
    BY <1>0, <1>8 DEF Envelopes, TypeMatches, Routable
<1>9. ASSUME NEW t \in Threads, \/ MakeLock(t) \/ Allocate(t) \/ FreeLock(t)
                                \/ DestroyInner(t) \/ DropMessage(t)
      PROVE  Envelopes'
    BY <1>8, <1>9 DEF MakeLock, Allocate, FreeLock, DestroyInner, DropMessage,
                      memory, routing
<1>10. CASE RefusedReply \/ Stop \/ UNCHANGED vars
    BY <1>8, <1>10 DEF RefusedReply, Stop, vars, memory
<1> QED
    BY <1>3, <1>4, <1>5, <1>6, <1>7, <1>9, <1>10, StepCases

\* At the start there is nothing to own.
LEMMA IInvInit == Init => IInv
<1> SUFFICES ASSUME Init PROVE IInv
    OBVIOUS
<1>1. /\ lock = Null /\ current = Null /\ queue = <<>> /\ fault = "none" /\ open = TRUE
      /\ \A b \in Blocks : content[b] = "free" /\ inner[b] = Null
      /\ \A t \in Threads : /\ pc[t] = "idle" /\ ptr[t] = Null
                            /\ dying[t] = <<>>
      /\ Loop \in Threads /\ Null \notin Threads
    BY NullIsNothing DEF Init, Threads
<1>2. /\ content \in [Blocks -> Types \cup {"free"}]
      /\ inner \in [Blocks -> Blocks \cup {Null}]
      /\ pc \in [Threads -> {"idle", "allocate", "construct", "destroy", "deallocate"}]
      /\ found \in [Threads -> Blocks \cup {Null}]
      /\ ptr \in [Threads -> Blocks \cup {Null}]
      /\ dying \in [Threads -> Seq(Blocks)]
      /\ queue \in Seq(Envelope)
    BY DEF Init
<1>3. Typed
    BY <1>1, <1>2 DEF Typed, TypeOK
<1>4. Phases /\ Handling
    BY <1>1 DEF Phases, Handling
<1>5. Items(<<>>) = {} /\ NoRepeats(<<>>)
    BY DEF Items, NoRepeats
<1>6. Envelopes
    BY <1>1, <1>5 DEF Envelopes
<1>7. QueuePtrs = <<>>
    BY <1>1 DEF QueuePtrs
<1>8. InPtrs = {} /\ InInners = {} /\ InDying = {} /\ InQueue = {} /\ InCurrent = {}
    BY <1>1, <1>5, <1>7 DEF InPtrs, InInners, InDying, InQueue, InCurrent
<1>9. Constructed = {}
    BY <1>1 DEF Constructed
<1>10. Partition
    BY <1>8, <1>9 DEF Partition
<1>11. OncePtr /\ OnceInner /\ OnceDying /\ OnceQueued
    BY <1>1, <1>5, <1>7 DEF OncePtr, OnceInner, OnceDying, OnceQueued
<1> QED
    BY <1>3, <1>4, <1>6, <1>10, <1>11 DEF IInv, Ownership

\* So it holds in every state of every behaviour.
LEMMA Invariant == Spec => []IInv
<1>1. IInv /\ [Next]_vars => IInv'
    BY TypedHolds, PhasesHold, HandlingHolds, EnvelopesHold, OwnershipHolds DEF IInv
<1> QED
    BY <1>1, IInvInit, PTL DEF Spec

-----------------------------------------------------------------------------
(***************************************************************************)
(* The theorems.                                                           *)
(***************************************************************************)

\* Every variable of the allocator, the threads and the queue keeps its type.
THEOREM MessagingTypes == Spec => []TypeOK
<1>1. IInv => TypeOK
    BY DEF IInv, Typed
<1> QED
    BY <1>1, Invariant, PTL

\* A thread that owns the allocator's lock is between the lock and the unlock
\* of make_message_with() or of a deallocation, and ~T() is behind it.
THEOREM TheLockIsNeverAskedForTwice == Spec => []LockHolderNeverWaits
<1>1. IInv => LockHolderNeverWaits
    BY DEF IInv, Phases, LockHolderNeverWaits
<1> QED
    BY <1>1, Invariant, PTL

\* Where the places of one pointer are: in as many kinds as keep it.
LEMMA PlacesOf ==
    ASSUME NEW b \in Blocks, NEW place \in Owners(b)
    PROVE  \/ \E t \in Threads : ptr[t] = b /\ place = <<"ptr", t, b>>
           \/ \E c \in Blocks : inner[c] = b /\ place = <<"inner", c, b>>
           \/ \E t \in Threads : \E i \in DOMAIN dying[t] :
                 dying[t][i] = b /\ place = <<t, i, b>>
           \/ \E i \in DOMAIN queue : queue[i].ptr = b /\ place = <<"queue", i, b>>
           \/ current # Null /\ current.ptr = b /\ place = <<"current", 0, b>>
<1>1. place \in Places /\ place[3] = b
    BY DEF Owners
<1>2. CASE place \in PtrPlaces
    BY <1>1, <1>2 DEF PtrPlaces
<1>3. CASE place \in InnerPlaces
    BY <1>1, <1>3 DEF InnerPlaces
<1>4. CASE place \in DyingPlaces
    <2>1. PICK t \in Threads : \E i \in DOMAIN dying[t] : place = <<t, i, dying[t][i]>>
        BY <1>4 DEF DyingPlaces
    <2> QED
        BY <1>1, <2>1
<1>5. CASE place \in QueuePlaces
    BY <1>1, <1>5 DEF QueuePlaces
<1>6. CASE place \in CurrentPlaces
    BY <1>1, <1>6 DEF CurrentPlaces
<1> QED
    BY <1>1, <1>2, <1>3, <1>4, <1>5, <1>6 DEF Places

\* Any place is where the five sets say it is.
LEMMA KindsOf ==
    ASSUME NEW b \in Blocks
    PROVE  /\ \A t \in Threads : ptr[t] = b => b \in InPtrs
           /\ \A c \in Blocks : inner[c] = b => b \in InInners
           /\ \A t \in Threads : \A i \in DOMAIN dying[t] :
                 dying[t][i] = b => b \in InDying
           /\ \A i \in DOMAIN queue : queue[i].ptr = b => b \in InQueue
           /\ current # Null /\ current.ptr = b => b \in InCurrent
<1>1. b # Null
    BY NullIsNothing
<1>2. \A t \in Threads : \A i \in DOMAIN dying[t] : dying[t][i] = b => b \in InDying
    BY DEF InDying, Items
<1>3. \A i \in DOMAIN queue : queue[i].ptr = b => b \in InQueue
    BY DEF InQueue, QueuePtrs, Items
<1>4. /\ \A t \in Threads : ptr[t] = b => b \in InPtrs
      /\ \A c \in Blocks : inner[c] = b => b \in InInners
    BY <1>1 DEF InPtrs, InInners
<1>5. current # Null /\ current.ptr = b => b \in InCurrent
    BY DEF InCurrent
<1> QED
    BY <1>2, <1>3, <1>4, <1>5

\* No pointer is in two places.
LEMMA AtMostOnePlace ==
    ASSUME Ownership, NEW b \in Blocks, NEW p \in Owners(b), NEW q \in Owners(b)
    PROVE  p = q
<1>0. b # Null
    BY NullIsNothing
<1>1. /\ b \in InPtrs => b \notin InInners \cup InDying \cup InQueue \cup InCurrent
      /\ b \in InInners => b \notin InDying \cup InQueue \cup InCurrent
      /\ b \in InDying => b \notin InQueue \cup InCurrent
      /\ b \in InQueue => b \notin InCurrent
    BY DEF Ownership, Partition
<1>2. CASE b \in InPtrs
    <2>1. PICK t \in Threads : ptr[t] = b /\ p = <<"ptr", t, b>>
        BY <1>1, <1>2, PlacesOf, KindsOf
    <2>2. PICK u \in Threads : ptr[u] = b /\ q = <<"ptr", u, b>>
        BY <1>1, <1>2, PlacesOf, KindsOf
    <2>3. t = u
        BY <1>0, <2>1, <2>2 DEF Ownership, OncePtr
    <2> QED
        BY <2>1, <2>2, <2>3
<1>3. CASE b \in InInners
    <2>1. PICK c \in Blocks : inner[c] = b /\ p = <<"inner", c, b>>
        BY <1>1, <1>3, PlacesOf, KindsOf
    <2>2. PICK d \in Blocks : inner[d] = b /\ q = <<"inner", d, b>>
        BY <1>1, <1>3, PlacesOf, KindsOf
    <2>3. c = d
        BY <1>0, <2>1, <2>2 DEF Ownership, OnceInner
    <2> QED
        BY <2>1, <2>2, <2>3
<1>4. CASE b \in InDying
    <2>1. PICK t \in Threads : \E i \in DOMAIN dying[t] :
             dying[t][i] = b /\ p = <<t, i, b>>
        BY <1>1, <1>4, PlacesOf, KindsOf
    <2>2. PICK i \in DOMAIN dying[t] : dying[t][i] = b /\ p = <<t, i, b>>
        BY <2>1
    <2>3. PICK u \in Threads : \E j \in DOMAIN dying[u] :
             dying[u][j] = b /\ q = <<u, j, b>>
        BY <1>1, <1>4, PlacesOf, KindsOf
    <2>4. PICK j \in DOMAIN dying[u] : dying[u][j] = b /\ q = <<u, j, b>>
        BY <2>3
    <2>5. b \in Items(dying[t]) /\ b \in Items(dying[u])
        BY <2>2, <2>4 DEF Items
    <2>6. t = u
        BY <2>5 DEF Ownership, OnceDying
    <2>7. i = j
        BY <2>2, <2>4, <2>6 DEF Ownership, OnceDying, NoRepeats
    <2> QED
        BY <2>2, <2>4, <2>6, <2>7
<1>5. CASE b \in InQueue
    <2>1. PICK i \in DOMAIN queue : queue[i].ptr = b /\ p = <<"queue", i, b>>
        BY <1>1, <1>5, PlacesOf, KindsOf
    <2>2. PICK j \in DOMAIN queue : queue[j].ptr = b /\ q = <<"queue", j, b>>
        BY <1>1, <1>5, PlacesOf, KindsOf
    <2>3. i = j
        BY <2>1, <2>2 DEF Ownership, OnceQueued, NoRepeats, QueuePtrs
    <2> QED
        BY <2>1, <2>2, <2>3
<1>6. CASE b \notin InPtrs \cup InInners \cup InDying \cup InQueue
    BY <1>6, PlacesOf, KindsOf
<1> QED
    BY <1>2, <1>3, <1>4, <1>5, <1>6

\* What one of the five sets has is in a place.
LEMMA SomePlace ==
    ASSUME Ownership, NEW b \in Constructed
    PROVE  Owners(b) # {}
<1>1. CASE b \in InPtrs
    <2>1. PICK t \in Threads : ptr[t] = b
        BY <1>1 DEF InPtrs
    <2>2. <<"ptr", t, ptr[t]>> \in Places
        BY DEF Places, PtrPlaces
    <2> QED
        BY <2>1, <2>2 DEF Owners
<1>2. CASE b \in InInners
    <2>1. PICK c \in Blocks : inner[c] = b
        BY <1>2 DEF InInners
    <2>2. <<"inner", c, inner[c]>> \in Places
        BY DEF Places, InnerPlaces
    <2> QED
        BY <2>1, <2>2 DEF Owners
<1>3. CASE b \in InDying
    <2>1. PICK t \in Threads : b \in Items(dying[t])
        BY <1>3 DEF InDying
    <2>2. PICK i \in DOMAIN dying[t] : dying[t][i] = b
        BY <2>1 DEF Items
    <2>3. <<t, i, dying[t][i]>> \in {<<t, j, dying[t][j]>> : j \in DOMAIN dying[t]}
        OBVIOUS
    <2>4. <<t, i, dying[t][i]>> \in DyingPlaces
        BY <2>3, Zenon DEF DyingPlaces
    <2> QED
        BY <2>2, <2>4 DEF Owners, Places
<1>4. CASE b \in InQueue
    <2>1. PICK i \in DOMAIN queue : queue[i].ptr = b
        BY <1>4 DEF InQueue, QueuePtrs, Items
    <2>2. <<"queue", i, queue[i].ptr>> \in Places
        BY DEF Places, QueuePlaces
    <2> QED
        BY <2>1, <2>2 DEF Owners
<1>5. CASE b \in InCurrent
    <2>1. current # Null /\ current.ptr = b
        BY <1>5 DEF InCurrent
    <2>2. <<"current", 0, current.ptr>> \in Places
        BY <2>1 DEF Places, CurrentPlaces
    <2> QED
        BY <2>1, <2>2 DEF Owners
<1> QED
    BY <1>1, <1>2, <1>3, <1>4, <1>5 DEF Ownership, Partition

\* Whatever is moved, nested, replaced, dropped, discarded by a stopped runtime
\* or destroyed at its shutdown, by any number of threads: every constructed
\* payload has one owner, a free block has none, and an envelope's type id is
\* that of its payload.
THEOREM EveryPayloadHasOneOwner == Spec => []ExactlyOneOwner
<1>1. ASSUME IInv, NEW b \in Blocks
      PROVE  Cardinality(Owners(b)) = IF content[b] = "free" THEN 0 ELSE 1
    <2>0. Ownership /\ Partition
        BY <1>1 DEF IInv, Ownership
    <2>1. CASE content[b] = "free"
        <3>1. b \notin InPtrs \cup InInners \cup InDying \cup InQueue \cup InCurrent
            BY <2>0, <2>1, Apart
        <3>2. Owners(b) = {}
            BY <3>1, PlacesOf, KindsOf
        <3> QED
            BY <2>1, <3>2, FS_EmptySet
    <2>2. CASE content[b] # "free"
        <3>1. b \in Constructed
            BY <2>2 DEF Constructed
        <3>2. PICK p : p \in Owners(b)
            BY <2>0, <3>1, SomePlace
        <3>3. Owners(b) = {p}
            BY <2>0, <3>2, AtMostOnePlace
        <3> QED
            BY <2>2, <3>3, FS_Singleton
    <2> QED
        BY <2>1, <2>2
<1>2. ASSUME IInv
      PROVE  /\ \A i \in DOMAIN queue : queue[i].type = content[queue[i].ptr]
             /\ current # Null => current.type = content[current.ptr]
    <2>1. \A i \in DOMAIN queue : queue[i] \in Items(queue)
        BY DEF Items
    <2> QED
        BY <1>2, <2>1 DEF IInv, Envelopes, TypeMatches
<1>3. IInv => ExactlyOneOwner
    BY <1>1, <1>2 DEF ExactlyOneOwner
<1> QED
    BY <1>3, Invariant, PTL

\* The assertion of the dispatch on the handler fails for no envelope that
\* send<>() built, and the one on the target for none from a module that
\* names the list.
THEOREM TypedSendsFindTheirHandler == Spec => TypedSendsAreRouted
<1>1. ASSUME IInv, [Next]_vars
      PROVE  [LET env == Head(queue) IN
              fault' \in {"target", "inbox"} /\ env.via = "send" =>
                  fault' = "target" /\ env.from \notin Checked]_vars
    <2>1. CASE Dispatch /\ Next
        <3>1. queue \in Seq(Envelope) /\ queue # <<>> /\ fault' = Route(Head(queue))
            BY <1>1, <2>1 DEF Dispatch, IInv, Typed, TypeOK
        <3>2. Head(queue) \in Items(queue)
            BY <3>1, TailItems
        <3>3. Routable(Head(queue))
            BY <1>1, <3>2 DEF IInv, Envelopes
        <3> QED
            BY <3>1, <3>3 DEF Routable, MaySend, Route
    <2>2. CASE UNCHANGED vars
        BY <2>2
    <2>3. ASSUME NEW t \in Threads, Next,
                 \/ MakeLock(t) \/ Allocate(t) \/ FreeLock(t) \/ DestroyInner(t)
                 \/ Deallocate(t) \/ DropMessage(t) \/ Posting(t)
                 \/ \E type \in Types : Construct(t, type)
          PROVE  fault' \notin {"target", "inbox"}
        <3>1. fault = "none"
            BY <2>3 DEF Next
        <3> QED
            BY <2>3, <3>1 DEF MakeLock, Allocate, FreeLock, DestroyInner, Deallocate,
               DropMessage, Posting, Construct, routing
    <2>4. CASE Next /\ (RefusedReply \/ HandlerEnd \/ Stop \/ Shutdown)
        <3>1. fault = "none"
            BY <2>4 DEF Next
        <3> QED
            BY <2>4, <3>1 DEF RefusedReply, HandlerEnd, Stop, Shutdown
    <2> QED
        BY <1>1, <2>1, <2>2, <2>3, <2>4, StepCases
<1> QED
    BY <1>1, Invariant, PTL DEF Spec, TypedSendsAreRouted
=============================================================================
