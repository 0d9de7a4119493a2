-------------------------- MODULE MinimalAppProofs --------------------------
(***************************************************************************)
(* Theorems about MinimalApp, for any number of bumps and lives: its types,*)
(* that no round is lost or doubled, and that Processing has exactly one   *)
(* tick on its way.                                                        *)
(*                                                                         *)
(* The argument follows the token.  Idle has no tick, so while it is there *)
(* changes are announced to its present subscription; Processing's tick is *)
(* posted after whatever was announced before, and nothing is announced    *)
(* while Processing is there.  So when the tick comes no stale KeyChanged  *)
(* is left that could wake the next Idle.                                  *)
(***************************************************************************)
EXTENDS MinimalApp, TLAPS, FiniteSetTheorems, SequenceTheorems

-----------------------------------------------------------------------------
(***************************************************************************)
(* Counting the envelopes of a queue.                                      *)
(***************************************************************************)

Positions(q, type) == {i \in DOMAIN q : q[i].type = type}
Count(q, type) == Cardinality(Positions(q, type))

\* A count is a number, and zero just when there is nothing to count.
LEMMA CountType ==
    ASSUME NEW S, NEW q \in Seq(S), NEW type
    PROVE  /\ IsFiniteSet(Positions(q, type))
           /\ Count(q, type) \in Nat
           /\ Count(q, type) = 0 <=> \A i \in DOMAIN q : q[i].type # type
<1>1. DOMAIN q = 1..Len(q) /\ Len(q) \in Nat
    OBVIOUS
<1>2. IsFiniteSet(DOMAIN q)
    BY <1>1, FS_Interval
<1>3. IsFiniteSet(Positions(q, type))
    BY <1>2, FS_Subset DEF Positions
<1>4. Count(q, type) \in Nat
    BY <1>3, FS_CardinalityType DEF Count
<1>5. Count(q, type) = 0 <=> Positions(q, type) = {}
    BY <1>3, FS_EmptySet DEF Count
<1> QED
    BY <1>3, <1>4, <1>5 DEF Positions

\* An envelope posted at the end counts for its own type.
LEMMA CountAppend ==
    ASSUME NEW S, NEW q \in Seq(S), NEW x \in S, NEW type
    PROVE  Count(Append(q, x), type) = Count(q, type) + One(x.type = type)
<1> DEFINE a == Append(q, x)
           n == Len(q) + 1
<1>1. /\ DOMAIN q = 1..Len(q) /\ Len(q) \in Nat
      /\ DOMAIN a = 1..n /\ a[n] = x
      /\ \A i \in DOMAIN q : a[i] = q[i]
    OBVIOUS
<1>2. DOMAIN a = DOMAIN q \cup {n} /\ n \notin DOMAIN q
    BY <1>1
<1> HIDE DEF a, n
<1>3. IsFiniteSet(Positions(q, type)) /\ Count(q, type) \in Nat
    BY CountType
<1>4. CASE x.type = type
    <2>1. Positions(a, type) = Positions(q, type) \cup {n}
        BY <1>1, <1>2, <1>4 DEF Positions
    <2>2. n \notin Positions(q, type)
        BY <1>2 DEF Positions
    <2>3. Count(a, type) = Count(q, type) + 1
        BY <1>3, <2>1, <2>2, FS_AddElement DEF Count
    <2> QED
        BY <1>4, <2>3 DEF a, One
<1>5. CASE x.type # type
    <2>1. Positions(a, type) = Positions(q, type)
        BY <1>1, <1>2, <1>5 DEF Positions
    <2> QED
        BY <1>3, <1>5, <2>1 DEF Count, a, One
<1> QED
    BY <1>4, <1>5

\* The envelope taken from the front counts for its own type.
LEMMA CountTail ==
    ASSUME NEW S, NEW q \in Seq(S), q # <<>>, NEW type
    PROVE  Count(q, type) = Count(Tail(q), type) + One(Head(q).type = type)
<1> DEFINE r == Tail(q)
           P == Positions(q, type) \ {1}
           R == Positions(r, type)
           f == [i \in R |-> i + 1]
<1>1. /\ Len(q) \in Nat /\ Len(q) > 0 /\ DOMAIN q = 1..Len(q) /\ Head(q) = q[1]
      /\ r \in Seq(S) /\ DOMAIN r = 1..(Len(q) - 1)
      /\ \A i \in DOMAIN r : r[i] = q[i + 1]
    OBVIOUS
<1> HIDE DEF r
<1>2. R \subseteq Nat /\ P \subseteq Nat
    BY <1>1 DEF Positions
<1>3. \A i \in R : i + 1 \in P
    BY <1>1 DEF Positions
<1>4. \A j \in P : j - 1 \in R
    BY <1>1 DEF Positions
<1>5. f \in Bijection(R, P)
    <2>1. f \in [R -> P]
        BY <1>3
    <2>2. \A i, j \in R : f[i] = f[j] => i = j
        BY <1>2
    <2>3. \A j \in P : \E i \in R : f[i] = j
        <3> SUFFICES ASSUME NEW j \in P PROVE f[j - 1] = j /\ j - 1 \in R
            OBVIOUS
        <3> QED
            BY <1>2, <1>4
    <2> HIDE DEF f, R, P
    <2> QED
        BY <2>1, <2>2, <2>3 DEF Bijection, Injection, Surjection, IsInjective
<1>6. IsFiniteSet(R) /\ Cardinality(R) \in Nat /\ IsFiniteSet(Positions(q, type))
    BY <1>1, CountType DEF Count
<1>7. Cardinality(P) = Cardinality(R)
    <2> HIDE DEF f, R, P
    <2> QED
        BY <1>5, <1>6, FS_Bijection DEF ExistsBijection
<1>8. CASE q[1].type = type
    <2>1. 1 \in Positions(q, type)
        BY <1>1, <1>8 DEF Positions
    <2>2. Cardinality(P) = Count(q, type) - 1 /\ Count(q, type) \in Nat
        BY <1>6, <2>1, FS_RemoveElement, CountType DEF Count
    <2> QED
        BY <1>1, <1>6, <1>7, <1>8, <2>2 DEF Count, One, r
<1>9. CASE q[1].type # type
    <2>1. P = Positions(q, type)
        BY <1>9 DEF Positions
    <2>2. Cardinality(P) = Count(q, type)
        BY <2>1, Zenon DEF Count
    <2> QED
        BY <1>1, <1>6, <1>7, <1>9, <2>2 DEF Count, One, r
<1> QED
    BY <1>8, <1>9

\* A queue of one kind of envelope is as long as their count.
LEMMA CountAll ==
    ASSUME NEW S, NEW q \in Seq(S), NEW type,
           \A i \in DOMAIN q : q[i].type = type
    PROVE  Count(q, type) = Len(q)
<1>1. DOMAIN q = 1..Len(q) /\ Len(q) \in Nat
    OBVIOUS
<1>2. Positions(q, type) = 1..Len(q)
    BY <1>1 DEF Positions
<1>3. Cardinality(1..Len(q)) = IF 1 > Len(q) THEN 0 ELSE Len(q) - 1 + 1
    BY <1>1, FS_Interval
<1> QED
    BY <1>1, <1>2, <1>3 DEF Count

-----------------------------------------------------------------------------
(***************************************************************************)
(* The inductive invariant.                                                *)
(***************************************************************************)

\* Of a queue: every tick is behind every change; every change was announced
\* to subscription v; nothing but bumps.
TicksLast(q) ==
    \A i, j \in DOMAIN q :
        q[i].type = "ProcessingTick" /\ q[j].type = "KeyChanged" => j < i
Fresh(q, v) == \A i \in DOMAIN q : q[i].type = "KeyChanged" => q[i].visit = v
OnlyBumps(q) == \A i \in DOMAIN q : q[i] = Bump

\* TypeOK, variable by variable.
Types ==
    /\ phase \in {"down", "run", "shutdown", "drained"}
    /\ open \in BOOLEAN
    /\ armed \in BOOLEAN
    /\ queue \in Seq(Envelope)
    /\ counter \in Nat /\ counter <= CountBound
    /\ cached = counter
    /\ state \in States
    /\ acks \in Nat /\ visits \in Nat
    /\ early \in Nat /\ outside \in Nat /\ posts \in Nat /\ lives \in Nat

\* Between two lives only App::post() has put anything into the queue.
OnlyBumpsWhileDown == phase = "down" => OnlyBumps(queue)

\* After a stop() nothing is conserved: what handlers post is dropped.
Working == open = TRUE /\ phase # "down"

\* The properties of the run, and that ticks come last: nothing is announced to
\* Processing, so what was announced is handled before its tick.
Good ==
    /\ counter + Count(queue, "Bump") = 1 + acks + early + outside
    /\ visits - 1 = acks + Count(queue, "Done")
    /\ One(armed) + Count(queue, "ProcessingTick") = One(state = "Processing")
    /\ state = "Idle" => Fresh(queue, visits)
    /\ TicksLast(queue)

IInv == Types /\ OnlyBumpsWhileDown /\ (Working => Good)

\* The bound that the types speak of.
LEMMA BoundIsNat == CountBound \in Nat /\ 0 <= CountBound
<1>1. CountBound \in Nat
    BY AppBoundsAreNat
<1> QED
    BY <1>1

\* The two ways to write the types.
LEMMA TypesAreTypeOK == Types <=> TypeOK
<1>2. counter \in 0..CountBound <=> counter \in Nat /\ counter <= CountBound
    BY BoundIsNat
<1>3. {open, armed} \subseteq BOOLEAN <=> open \in BOOLEAN /\ armed \in BOOLEAN
    OBVIOUS
<1>4. {acks, visits, early, outside, posts, lives} \subseteq Nat
         <=> /\ acks \in Nat /\ visits \in Nat
             /\ early \in Nat /\ outside \in Nat /\ posts \in Nat /\ lives \in Nat
    OBVIOUS
<1> QED
    BY <1>2, <1>3, <1>4, Zenon DEF Types, TypeOK

\* Envelopes stay envelopes when there are more subscriptions.
LEMMA EnvelopesGrow ==
    ASSUME NEW S, NEW T, S \subseteq T, NEW q \in Seq(S)
    PROVE  q \in Seq(T)
OBVIOUS

-----------------------------------------------------------------------------
(***************************************************************************)
(* What posting and taking do to a queue.                                  *)
(***************************************************************************)

\* post(): after stop() the envelope is dropped.
LEMMA PostedToQueue ==
    ASSUME NEW S, NEW q \in Seq(S), NEW x \in S, open \in BOOLEAN
    PROVE  /\ open = TRUE => q \o Accepted(x) = Append(q, x) /\ Len(Accepted(x)) = 1
           /\ open = FALSE => q \o Accepted(x) = q /\ Len(Accepted(x)) = 0
           /\ q \o Accepted(x) \in Seq(S)
           /\ q \o <<>> = q
<1>1. q \o <<>> = q /\ q \o <<x>> = Append(q, x) /\ Append(q, x) \in Seq(S)
    OBVIOUS
<1>2. Len(<<x>>) = 1 /\ Len(<<>>) = 0
    OBVIOUS
<1> QED
    BY <1>1, <1>2 DEF Accepted

\* The order of ticks and changes, and whom a change was announced to, after
\* a post.
LEMMA AppendOrder ==
    ASSUME NEW S, NEW q \in Seq(S), NEW x \in S, NEW v
    PROVE  /\ TicksLast(q) /\ (x.type = "KeyChanged" => Count(q, "ProcessingTick") = 0)
                 => TicksLast(Append(q, x))
           /\ Fresh(q, v) /\ (x.type = "KeyChanged" => x.visit = v)
                 => Fresh(Append(q, x), v)
           /\ OnlyBumps(q) /\ x = Bump => OnlyBumps(Append(q, x))
<1> DEFINE a == Append(q, x)
           n == Len(q) + 1
<1>1. /\ DOMAIN q = 1..Len(q) /\ Len(q) \in Nat
      /\ DOMAIN a = 1..n /\ a[n] = x
      /\ \A i \in DOMAIN q : a[i] = q[i]
    OBVIOUS
<1>2. /\ \A i \in DOMAIN a : i \in DOMAIN q \/ i = n
      /\ \A i \in DOMAIN q : i < n /\ a[i] = q[i]
      /\ a[n] = x
    BY <1>1
<1>3. Count(q, "ProcessingTick") = 0 => \A i \in DOMAIN q : q[i].type # "ProcessingTick"
    BY CountType
<1> HIDE DEF a, n
<1>4. ASSUME TicksLast(q), x.type = "KeyChanged" => Count(q, "ProcessingTick") = 0
      PROVE  TicksLast(a)
    <2> SUFFICES ASSUME NEW i \in DOMAIN a, NEW j \in DOMAIN a,
                        a[i].type = "ProcessingTick", a[j].type = "KeyChanged"
                 PROVE  j < i
        BY DEF TicksLast
    <2>1. CASE j = n
        <3>1. i # n
            BY <2>1
        <3> QED
            BY <1>2, <1>3, <1>4, <2>1, <3>1
    <2>2. CASE j \in DOMAIN q
        BY <1>2, <1>4, <2>2 DEF TicksLast
    <2> QED
        BY <1>2, <2>1, <2>2
<1>5. Fresh(q, v) /\ (x.type = "KeyChanged" => x.visit = v) => Fresh(a, v)
    BY <1>2 DEF Fresh
<1>6. OnlyBumps(q) /\ x = Bump => OnlyBumps(a)
    BY <1>2 DEF OnlyBumps
<1> QED
    BY <1>4, <1>5, <1>6 DEF a

\* The same after an envelope is taken: behind a tick there is no change.
LEMMA TailOrder ==
    ASSUME NEW S, NEW q \in Seq(S), q # <<>>, NEW v
    PROVE  /\ Tail(q) \in Seq(S) /\ Head(q) \in S
           /\ TicksLast(q) => TicksLast(Tail(q))
           /\ Fresh(q, v) => Fresh(Tail(q), v)
           /\ TicksLast(q) /\ Head(q).type = "ProcessingTick" =>
                 \A w : Fresh(Tail(q), w)
<1> DEFINE r == Tail(q)
<1>1. /\ r \in Seq(S) /\ Head(q) \in S /\ Head(q) = q[1]
      /\ Len(q) \in Nat /\ Len(q) > 0 /\ DOMAIN q = 1..Len(q)
      /\ DOMAIN r = 1..(Len(q) - 1)
      /\ \A i \in DOMAIN r : r[i] = q[i + 1]
    OBVIOUS
<1>2. /\ \A i \in DOMAIN r : i \in Nat /\ i + 1 \in DOMAIN q /\ ~(i + 1 < 1)
                             /\ r[i] = q[i + 1]
      /\ 1 \in DOMAIN q
    BY <1>1
<1> HIDE DEF r
<1>3. ASSUME TicksLast(q) PROVE TicksLast(r)
    <2> SUFFICES ASSUME NEW i \in DOMAIN r, NEW j \in DOMAIN r,
                        r[i].type = "ProcessingTick", r[j].type = "KeyChanged"
                 PROVE  j < i
        BY DEF TicksLast
    <2>1. j + 1 < i + 1
        BY <1>2, <1>3 DEF TicksLast
    <2> QED
        BY <1>2, <2>1
<1>4. Fresh(q, v) => Fresh(r, v)
    BY <1>2 DEF Fresh
<1>5. ASSUME TicksLast(q), Head(q).type = "ProcessingTick"
      PROVE  \A i \in DOMAIN r : r[i].type # "KeyChanged"
    BY <1>1, <1>2, <1>5 DEF TicksLast
<1> QED
    BY <1>1, <1>3, <1>4, <1>5 DEF Fresh, r

-----------------------------------------------------------------------------
(***************************************************************************)
(* The invariant holds.                                                    *)
(***************************************************************************)

\* What a queue of bumps counts.
LEMMA BumpsCount ==
    ASSUME NEW S, NEW q \in Seq(S), OnlyBumps(q)
    PROVE  /\ Count(q, "Bump") = Len(q) /\ Count(q, "Done") = 0
           /\ Count(q, "ProcessingTick") = 0
           /\ TicksLast(q) /\ \A v : Fresh(q, v)
           /\ q \in Seq({Bump})
<1>1. \A i \in DOMAIN q : q[i].type = "Bump"
    BY DEF OnlyBumps, Bump
<1>2. Count(q, "Bump") = Len(q)
    BY <1>1, CountAll
<1>3. Count(q, "Done") = 0 /\ Count(q, "ProcessingTick") = 0
    BY <1>1, CountType
<1>4. TicksLast(q) /\ \A v : Fresh(q, v)
    BY <1>1 DEF TicksLast, Fresh
<1>5. q \in [1..Len(q) -> {Bump}] /\ Len(q) \in Nat
    BY DEF OnlyBumps
<1>6. q \in Seq({Bump})
    BY <1>5, SeqDef
<1> QED
    BY <1>2, <1>3, <1>4, <1>6

\* Counts of the queue are numbers.
LEMMA CountsAreNat ==
    ASSUME Types
    PROVE  /\ Count(queue, "Bump") \in Nat /\ Count(queue, "Done") \in Nat
           /\ Count(queue, "ProcessingTick") \in Nat
BY CountType DEF Types

\* The empty queue has only bumps.
LEMMA EmptyIsBumps == <<>> \in Seq({Bump}) /\ OnlyBumps(<<>>)
BY DEF OnlyBumps

\* At the start the queue is empty and no life has begun.
LEMMA IInvInit == Init => IInv
<1> SUFFICES ASSUME Init PROVE IInv
    OBVIOUS
<1>1. Types
    <2>1. queue \in Seq(Envelope)
        BY DEF Init
    <2>2. open \in BOOLEAN /\ armed \in BOOLEAN
        BY Zenon DEF Init
    <2> QED
        BY <2>1, <2>2, BoundIsNat DEF Init, Types, States
<1> QED
    BY <1>1, EmptyIsBumps DEF Init, IInv, OnlyBumpsWhileDown, Working

\* start() meets a queue of bumps, which it counts, and adds the seed.
LEMMA StartHolds == IInv /\ Start => IInv'
<1> SUFFICES ASSUME IInv, Start PROVE IInv'
    OBVIOUS
<1>1. Types /\ OnlyBumps(queue)
    BY DEF IInv, OnlyBumpsWhileDown, Start
<1>2. queue \in Seq(Envelope) /\ Len(queue) \in Nat
    BY <1>1 DEF Types
<1>3. /\ Count(queue, "Bump") = Len(queue) /\ Count(queue, "Done") = 0
      /\ Count(queue, "ProcessingTick") = 0
      /\ TicksLast(queue) /\ Fresh(queue, 1)
      /\ queue \in Seq({Bump})
    BY <1>1, <1>2, BumpsCount
<1>4. open \in BOOLEAN /\ open' = open /\ queue' = queue \o Accepted(Bump)
    BY <1>1 DEF Start, Types
<1>5. queue' \in Seq({Bump}) /\ {Bump} \subseteq Envelope'
    BY <1>3, <1>4, PostedToQueue DEF Envelope
<1>6. queue' \in Seq(Envelope')
    BY <1>5, EnvelopesGrow
<1>7. Types'
    <2>1. open' \in BOOLEAN /\ armed' \in BOOLEAN
        BY <1>4 DEF Start
    <2>2. counter' \in Nat /\ counter' <= CountBound /\ cached' = counter'
        BY BoundIsNat DEF Start
    <2> QED
        BY <1>1, <1>2, <1>6, <2>1, <2>2 DEF Start, Types, States
<1>8. ASSUME open = TRUE PROVE Good'
    <2>1. queue' = Append(queue, Bump)
        BY <1>3, <1>4, <1>8, PostedToQueue
    <2>2. /\ Count(queue', "Bump") = Len(queue) + 1
          /\ Count(queue', "Done") = 0 /\ Count(queue', "ProcessingTick") = 0
        BY <1>3, <2>1, CountAppend DEF One, Bump
    <2>3. TicksLast(queue') /\ Fresh(queue', 1)
        BY <1>3, <2>1, AppendOrder DEF Bump
    <2> QED
        BY <1>2, <2>2, <2>3 DEF Start, Good, One
<1> QED
    BY <1>4, <1>7, <1>8 DEF IInv, OnlyBumpsWhileDown, Working, Start

\* A bump from outside is counted as such, if it is accepted.
LEMMA PostBumpHolds == IInv /\ PostBump => IInv'
<1> SUFFICES ASSUME IInv, PostBump PROVE IInv'
    OBVIOUS
<1>1. Types /\ Bump \in Envelope /\ Envelope' = Envelope
    BY DEF IInv, PostBump, consumer, Envelope
<1>2. /\ open = TRUE => queue' = Append(queue, Bump) /\ outside' = outside + 1
      /\ open = FALSE => queue' = queue /\ outside' = outside
      /\ queue' \in Seq(Envelope')
    <2>1. /\ open \in BOOLEAN /\ queue \in Seq(Envelope) /\ outside \in Nat
          /\ queue' = queue \o Accepted(Bump)
          /\ outside' = outside + Len(Accepted(Bump))
        BY <1>1 DEF PostBump, Types
    <2>2. /\ open = TRUE => queue' = Append(queue, Bump) /\ Len(Accepted(Bump)) = 1
          /\ open = FALSE => queue' = queue /\ Len(Accepted(Bump)) = 0
          /\ queue' \in Seq(Envelope)
        BY <1>1, <2>1, PostedToQueue, Zenon
    <2> QED
        BY <1>1, <2>1, <2>2
<1>3. Types'
    BY <1>1, <1>2 DEF PostBump, Types, producer, consumer
<1>4. OnlyBumpsWhileDown'
    <2> SUFFICES ASSUME phase' = "down" PROVE OnlyBumps(queue')
        BY DEF OnlyBumpsWhileDown
    <2>1. OnlyBumps(queue) /\ open \in BOOLEAN
        BY <1>1 DEF IInv, OnlyBumpsWhileDown, PostBump, Types
    <2> QED
        BY <1>1, <1>2, <2>1, AppendOrder DEF Types
<1>5. ASSUME Working' PROVE Good'
    <2>1. Working /\ Good /\ queue' = Append(queue, Bump) /\ outside' = outside + 1
        BY <1>2, <1>5 DEF IInv, Working, PostBump
    <2>2. /\ Count(queue', "Bump") = Count(queue, "Bump") + 1
          /\ Count(queue', "Done") = Count(queue, "Done")
          /\ Count(queue', "ProcessingTick") = Count(queue, "ProcessingTick")
        BY <1>1, <2>1, CountAppend, CountsAreNat DEF One, Bump, Types
    <2>3. TicksLast(queue') /\ (state = "Idle" => Fresh(queue', visits))
        BY <1>1, <2>1, AppendOrder DEF Bump, Types, Good
    <2>4. /\ UNCHANGED <<counter, acks, early, visits, state>>
          /\ UNCHANGED One(armed)
        BY DEF PostBump, producer, consumer
    <2>5. counter + Count(queue', "Bump") = 1 + acks + early + outside'
        BY <1>1, <2>1, <2>2, CountsAreNat DEF Good, Types
    <2> QED
        BY <2>1, <2>2, <2>3, <2>4, <2>5 DEF Good
<1> QED
    BY <1>3, <1>4, <1>5 DEF IInv

\* stop(): what is conserved is so until here.
LEMMA StopHolds == IInv /\ Stop => IInv'
<1> SUFFICES ASSUME IInv, Stop PROVE IInv'
    OBVIOUS
<1>1. open' = FALSE /\ phase' = phase /\ queue' = queue
    BY DEF Stop
<1>2. Types'
    <2>1. Types /\ Envelope' = Envelope
        BY DEF IInv, Stop, consumer, Envelope
    <2>2. open' \in BOOLEAN
        BY <1>1
    <2> QED
        BY <1>1, <2>1, <2>2 DEF Stop, Types, producer, consumer, history
<1> QED
    BY <1>1, <1>2 DEF IInv, OnlyBumpsWhileDown, Working

\* An armed timer becomes a tick in the queue.
LEMMA TimerFiresHolds == IInv /\ TimerFires => IInv'
<1> SUFFICES ASSUME IInv, TimerFires PROVE IInv'
    OBVIOUS
<1>1. Types /\ ProcessingTick \in Envelope /\ Envelope' = Envelope
    BY DEF IInv, TimerFires, Envelope
<1>2. /\ open = TRUE => queue' = Append(queue, ProcessingTick)
      /\ queue' \in Seq(Envelope)
    <2>1. /\ open \in BOOLEAN /\ queue \in Seq(Envelope)
          /\ queue' = queue \o Accepted(ProcessingTick)
        BY <1>1 DEF TimerFires, Types
    <2> QED
        BY <1>1, <2>1, PostedToQueue, Zenon
<1>3. Types'
    BY <1>1, <1>2 DEF TimerFires, Types, producer, history
<1>4. phase' = "run"
    BY DEF TimerFires
<1>5. ASSUME Working' PROVE Good'
    <2>1. Good /\ queue' = Append(queue, ProcessingTick)
        BY <1>2, <1>5 DEF IInv, Working, TimerFires
    <2>2. /\ Count(queue', "Bump") = Count(queue, "Bump")
          /\ Count(queue', "Done") = Count(queue, "Done")
          /\ Count(queue', "ProcessingTick") = Count(queue, "ProcessingTick") + 1
        BY <1>1, <2>1, CountAppend, CountsAreNat DEF One, ProcessingTick, Types
    <2>3. TicksLast(queue') /\ (state = "Idle" => Fresh(queue', visits))
        BY <1>1, <2>1, AppendOrder DEF ProcessingTick, Types, Good
    <2>4. UNCHANGED <<counter, acks, early, outside, visits, state>>
        BY DEF TimerFires, producer, history
    <2>5. One(armed) = 1 /\ One(armed)' = 0
        BY DEF TimerFires, One
    <2>6. 0 + Count(queue', "ProcessingTick") = One(state = "Processing")
        BY <1>1, <2>1, <2>2, <2>5, CountsAreNat DEF Good
    <2> QED
        BY <2>1, <2>2, <2>3, <2>4, <2>5, <2>6 DEF Good
<1> QED
    BY <1>3, <1>4, <1>5 DEF IInv, OnlyBumpsWhileDown

\* What every handler finds, and what its own posts go behind.
LEMMA Handled ==
    ASSUME Types, NEW env, NEW more, Takes(env, more)
    PROVE  /\ env \in Envelope /\ Tail(queue) \in Seq(Envelope)
           /\ queue' = Tail(queue) \o more
           /\ Count(queue, "Bump") =
                 Count(Tail(queue), "Bump") + One(env.type = "Bump")
           /\ Count(queue, "Done") =
                 Count(Tail(queue), "Done") + One(env.type = "Done")
           /\ Count(queue, "ProcessingTick") =
                 Count(Tail(queue), "ProcessingTick") + One(env.type = "ProcessingTick")
           /\ Count(Tail(queue), "Bump") \in Nat
           /\ Count(Tail(queue), "Done") \in Nat
           /\ Count(Tail(queue), "ProcessingTick") \in Nat
           /\ TicksLast(queue) => TicksLast(Tail(queue))
           /\ \A v : Fresh(queue, v) => Fresh(Tail(queue), v)
           /\ TicksLast(queue) /\ env.type = "ProcessingTick" =>
                 \A v : Fresh(Tail(queue), v)
           /\ phase # "down"
           /\ UNCHANGED <<phase, open, early, outside, posts, lives>>
<1>1. queue \in Seq(Envelope) /\ queue # <<>> /\ Head(queue) = env
    BY DEF Types, Takes
<1>2. env \in Envelope /\ Tail(queue) \in Seq(Envelope)
    BY <1>1, HeadTailProperties
<1>3. /\ \A type : Count(queue, type) =
                      Count(Tail(queue), type) + One(env.type = type)
      /\ \A type : Count(Tail(queue), type) \in Nat
    BY <1>1, <1>2, CountTail, CountType
<1> QED
    BY <1>1, <1>2, <1>3, TailOrder DEF Takes, history

\* A handler leaves the queue's gate and the owner's call alone.
LEMMA HandlersKeepRest ==
    ASSUME IInv, NEW env, NEW more, Takes(env, more), Types', Working => Good'
    PROVE  IInv'
<1>1. Types /\ phase # "down" /\ phase' = phase /\ open' = open
    BY Handled DEF IInv
<1> QED
    BY <1>1 DEF IInv, OnlyBumpsWhileDown, Working

\* A bump is counted and, to Idle, announced.
LEMMA OnBumpHolds == IInv /\ OnBump => IInv'
<1> SUFFICES ASSUME IInv, OnBump PROVE IInv'
    OBVIOUS
<1> DEFINE more == IF state = "Idle" THEN Accepted(KeyChanged) ELSE <<>>
           r == Tail(queue)
<1>1. Takes(Bump, more)
    BY DEF OnBump
<1>2. Types
    BY DEF IInv
<1>3. /\ r \in Seq(Envelope) /\ queue' = r \o more
      /\ Count(queue, "Bump") = Count(r, "Bump") + 1
      /\ Count(queue, "Done") = Count(r, "Done")
      /\ Count(queue, "ProcessingTick") = Count(r, "ProcessingTick")
      /\ Count(r, "Bump") \in Nat /\ Count(r, "Done") \in Nat
      /\ Count(r, "ProcessingTick") \in Nat
      /\ TicksLast(queue) => TicksLast(r)
      /\ \A v : Fresh(queue, v) => Fresh(r, v)
      /\ phase # "down"
      /\ UNCHANGED <<phase, open, early, outside, posts, lives>>
    <2> HIDE DEF r, more
    <2>1. Bump.type = "Bump"
        BY DEF Bump
    <2> QED
        BY <1>1, <1>2, <2>1, Handled DEF One, r
<1>4. /\ UNCHANGED <<acks, state, armed, visits>> /\ Envelope' = Envelope
      /\ counter' = counter + 1 /\ cached' = counter' /\ counter < CountBound
    BY DEF OnBump, consumer, Envelope
<1> HIDE DEF r, more
<1>5. CASE open = TRUE /\ state = "Idle"
    <2>1. Good /\ Count(queue, "ProcessingTick") = 0 /\ visits \in Nat \ {0}
        <3>1. Good
            BY <1>3, <1>5 DEF IInv, Working
        <3> QED
            BY <1>2, <1>3, <1>5, <3>1, CountsAreNat DEF Good, One, Types
    <2>2. KeyChanged \in Envelope
        BY <2>1 DEF KeyChanged, Envelope
    <2>3. queue' = Append(r, KeyChanged) /\ queue' \in Seq(Envelope)
        BY <1>3, <1>5, <2>2, PostedToQueue DEF more
    <2>4. /\ Count(queue', "Bump") = Count(r, "Bump")
          /\ Count(queue', "Done") = Count(r, "Done")
          /\ Count(queue', "ProcessingTick") = Count(r, "ProcessingTick")
        <3>1. KeyChanged.type = "KeyChanged"
            BY DEF KeyChanged
        <3> QED
            BY <1>3, <2>2, <2>3, <3>1, CountAppend DEF One
    <2>5. TicksLast(queue') /\ Fresh(queue', visits)
        BY <1>3, <1>5, <2>1, <2>2, <2>3, AppendOrder DEF Good, KeyChanged
    <2>6. counter' + Count(queue', "Bump") = 1 + acks + early + outside
        BY <1>2, <1>3, <1>4, <2>1, <2>4 DEF Good, Types
    <2>7. Types'
        BY <1>2, <1>3, <1>4, <2>3, BoundIsNat DEF Types
    <2>8. Good'
        BY <1>3, <1>4, <2>1, <2>4, <2>5, <2>6 DEF Good
    <2> QED
        BY <1>1, <2>7, <2>8, HandlersKeepRest
<1>6. CASE ~(open = TRUE /\ state = "Idle")
    <2>1. queue' = r
        <3>1. more = <<>>
            BY <1>2, <1>6 DEF Accepted, Types, more
        <3> QED
            BY <1>3, <3>1
    <2>2. Types'
        BY <1>2, <1>3, <1>4, <2>1, BoundIsNat DEF Types
    <2>3. ASSUME Working PROVE Good'
        <3>1. Good /\ state # "Idle"
            BY <1>6, <2>3 DEF IInv, Working
        <3>2. counter' + Count(queue', "Bump") = 1 + acks + early + outside
            BY <1>2, <1>3, <1>4, <2>1, <3>1 DEF Good, Types
        <3> QED
            BY <1>3, <1>4, <2>1, <3>1, <3>2 DEF Good
    <2> QED
        BY <1>1, <2>2, <2>3, HandlersKeepRest
<1> QED
    BY <1>5, <1>6

\* An acknowledgement is counted and answered with a bump.
LEMMA OnDoneHolds == IInv /\ OnDone => IInv'
<1> SUFFICES ASSUME IInv, OnDone PROVE IInv'
    OBVIOUS
<1> DEFINE r == Tail(queue)
<1>1. Takes(Done, Accepted(Bump))
    BY DEF OnDone
<1>2. Types /\ Bump \in Envelope
    BY DEF IInv, Envelope
<1>3. /\ r \in Seq(Envelope) /\ queue' = r \o Accepted(Bump)
      /\ Count(queue, "Bump") = Count(r, "Bump")
      /\ Count(queue, "Done") = Count(r, "Done") + 1
      /\ Count(queue, "ProcessingTick") = Count(r, "ProcessingTick")
      /\ Count(r, "Bump") \in Nat /\ Count(r, "Done") \in Nat
      /\ Count(r, "ProcessingTick") \in Nat
      /\ TicksLast(queue) => TicksLast(r)
      /\ \A v : Fresh(queue, v) => Fresh(r, v)
      /\ phase # "down"
      /\ UNCHANGED <<phase, open, early, outside, posts, lives>>
    <2> DEFINE more == Accepted(Bump)
    <2> HIDE DEF r, more
    <2>1. Done.type = "Done"
        BY DEF Done
    <2>2. Takes(Done, more)
        BY <1>1 DEF more
    <2>3. queue' = r \o more
        BY <1>2, <2>2, Handled DEF r
    <2> QED
        BY <1>2, <2>1, <2>2, <2>3, Handled DEF One, r, more
<1>4. /\ UNCHANGED <<counter, cached, state, armed, visits>> /\ Envelope' = Envelope
      /\ acks' = acks + 1
    BY DEF OnDone, consumer, Envelope
<1> HIDE DEF r
<1>5. /\ queue' \in Seq(Envelope)
      /\ open = TRUE => queue' = Append(r, Bump)
    <2>1. open \in BOOLEAN
        BY <1>2 DEF Types
    <2> QED
        BY <1>2, <1>3, <2>1, PostedToQueue
<1>6. Types'
    BY <1>2, <1>3, <1>4, <1>5 DEF Types
<1>7. ASSUME Working PROVE Good'
    <2>1. Good /\ queue' = Append(r, Bump)
        BY <1>5, <1>7 DEF IInv, Working
    <2>2. Bump.type = "Bump"
        BY DEF Bump
    <2>3. /\ Count(queue', "Bump") = Count(r, "Bump") + 1
          /\ Count(queue', "Done") = Count(r, "Done")
          /\ Count(queue', "ProcessingTick") = Count(r, "ProcessingTick")
        BY <1>2, <1>3, <2>1, <2>2, CountAppend DEF One
    <2>4. TicksLast(queue') /\ (state = "Idle" => Fresh(queue', visits))
        BY <1>2, <1>3, <2>1, <2>2, AppendOrder DEF Good
    <2>5. /\ counter + Count(queue', "Bump") = 1 + acks' + early + outside
          /\ visits - 1 = acks' + Count(queue', "Done")
        BY <1>2, <1>3, <1>4, <2>1, <2>3 DEF Good, Types
    <2> QED
        BY <1>3, <1>4, <2>1, <2>3, <2>4, <2>5 DEF Good
<1> QED
    BY <1>1, <1>6, <1>7, HandlersKeepRest

\* A change wakes Idle, which arms the timer; Processing ignores it.
LEMMA OnKeyChangedHolds == IInv /\ OnKeyChanged => IInv'
<1> SUFFICES ASSUME IInv, OnKeyChanged PROVE IInv'
    OBVIOUS
<1>1. PICK v \in 1..visits : Takes([type |-> "KeyChanged", visit |-> v], <<>>)
    BY DEF OnKeyChanged
<1> DEFINE r == Tail(queue)
           env == [type |-> "KeyChanged", visit |-> v]
<1>2. Types
    BY DEF IInv
<1>3. /\ r \in Seq(Envelope) /\ queue' = r
      /\ Count(queue, "Bump") = Count(r, "Bump")
      /\ Count(queue, "Done") = Count(r, "Done")
      /\ Count(queue, "ProcessingTick") = Count(r, "ProcessingTick")
      /\ TicksLast(queue) => TicksLast(r)
      /\ \A w : Fresh(queue, w) => Fresh(r, w)
      /\ phase # "down"
      /\ UNCHANGED <<phase, open, early, outside, posts, lives>>
    <2>1. env.type = "KeyChanged"
        OBVIOUS
    <2> HIDE DEF r, env
    <2>2. Takes(env, <<>>)
        BY <1>1 DEF env
    <2>3. r \in Seq(Envelope) => r \o <<>> = r
        OBVIOUS
    <2> QED
        BY <1>2, <2>1, <2>2, <2>3, Handled DEF One, r
<1> HIDE DEF r, env
<1>4. /\ UNCHANGED <<counter, cached, acks, visits>> /\ Envelope' = Envelope
      /\ state = "Idle" => state' = "Processing" /\ armed' = TRUE
      /\ state # "Idle" => state' = state /\ armed' = armed
    BY DEF OnKeyChanged, EnterProcessing, producer, consumer, Envelope
<1>5. Types'
    <2>1. armed' \in BOOLEAN /\ state' \in States
        BY <1>2, <1>4 DEF Types, States
    <2> QED
        BY <1>2, <1>3, <1>4, <2>1 DEF Types
<1>6. ASSUME Working PROVE Good'
    <2>1. Good
        BY <1>6 DEF IInv
    <2>2. One(armed)' + Count(queue', "ProcessingTick") = One(state = "Processing")'
        BY <1>2, <1>3, <1>4, <2>1, CountsAreNat DEF Good, One, Types
    <2>3. state' = "Idle" => Fresh(queue', visits')
        BY <1>3, <1>4, <2>1 DEF Good
    <2> QED
        BY <1>3, <1>4, <2>1, <2>2, <2>3 DEF Good
<1> QED
    BY <1>1, <1>5, <1>6, HandlersKeepRest

\* A tick meets Processing, is acknowledged, and leaves no change behind.
LEMMA OnTickHolds == IInv /\ OnTick => IInv'
<1> SUFFICES ASSUME IInv, OnTick PROVE IInv'
    OBVIOUS
<1> DEFINE r == Tail(queue)
<1>1. Takes(ProcessingTick, Accepted(Done))
    BY DEF OnTick
<1>2. Types /\ Done \in Envelope
    BY DEF IInv, Envelope
<1>3. /\ r \in Seq(Envelope) /\ queue' = r \o Accepted(Done)
      /\ Count(queue, "Bump") = Count(r, "Bump")
      /\ Count(queue, "Done") = Count(r, "Done")
      /\ Count(queue, "ProcessingTick") = Count(r, "ProcessingTick") + 1
      /\ Count(r, "Bump") \in Nat /\ Count(r, "Done") \in Nat
      /\ Count(r, "ProcessingTick") \in Nat
      /\ TicksLast(queue) => TicksLast(r) /\ \A v : Fresh(r, v)
      /\ phase # "down"
      /\ UNCHANGED <<phase, open, early, outside, posts, lives>>
    <2> DEFINE more == Accepted(Done)
    <2> HIDE DEF r, more
    <2>1. ProcessingTick.type = "ProcessingTick"
        BY DEF ProcessingTick
    <2>2. Takes(ProcessingTick, more)
        BY <1>1 DEF more
    <2>3. queue' = r \o more
        BY <1>2, <2>2, Handled DEF r
    <2> QED
        BY <1>2, <2>1, <2>2, <2>3, Handled DEF One, r, more
<1>4. /\ UNCHANGED <<counter, cached, acks>>
      /\ state = "Processing" => /\ state' = "Idle" /\ armed' = FALSE
                                 /\ visits' = visits + 1
      /\ state # "Processing" => UNCHANGED <<state, armed, visits>>
    BY DEF OnTick, EnterIdle, producer, consumer
<1> HIDE DEF r
<1>5. /\ queue' \in Seq(Envelope)
      /\ open = TRUE => queue' = Append(r, Done)
    <2>1. open \in BOOLEAN
        BY <1>2 DEF Types
    <2> QED
        BY <1>2, <1>3, <2>1, PostedToQueue
<1>6. Types'
    <2>1. armed' \in BOOLEAN /\ state' \in States /\ visits' \in Nat /\ visits <= visits'
        <3>1. visits \in Nat /\ armed \in BOOLEAN /\ state \in States
            BY <1>2 DEF Types
        <3>2. CASE state = "Processing"
            <4>1. state' = "Idle" /\ armed' = FALSE /\ visits' = visits + 1
                BY <1>4, <3>2, Zenon
            <4>2. armed' \in BOOLEAN /\ state' \in States
                BY <4>1, Zenon DEF States
            <4> QED
                BY <3>1, <4>1, <4>2
        <3>3. CASE state # "Processing"
            BY <1>4, <3>1, <3>3
        <3> QED
            BY <3>2, <3>3
    <2>2. Envelope \subseteq Envelope'
        BY <1>2, <2>1 DEF Envelope, Types, Bump, Done, ProcessingTick
    <2>3. queue' \in Seq(Envelope')
        BY <1>5, <2>2, EnvelopesGrow
    <2> QED
        BY <1>2, <1>3, <1>4, <2>1, <2>3 DEF Types
<1>7. ASSUME Working PROVE Good'
    <2>1. Good /\ queue' = Append(r, Done)
        BY <1>5, <1>7 DEF IInv, Working
    <2>2. state = "Processing" /\ Count(r, "ProcessingTick") = 0
        BY <1>2, <1>3, <2>1 DEF Good, One, Types, States
    <2>3. Done.type = "Done"
        BY DEF Done
    <2>4. /\ Count(queue', "Bump") = Count(r, "Bump")
          /\ Count(queue', "Done") = Count(r, "Done") + 1
          /\ Count(queue', "ProcessingTick") = 0
        BY <1>2, <1>3, <2>1, <2>2, <2>3, CountAppend DEF One
    <2>5. TicksLast(queue') /\ Fresh(queue', visits')
        BY <1>2, <1>3, <2>1, <2>3, AppendOrder DEF Good
    <2>6. /\ counter + Count(queue', "Bump") = 1 + acks + early + outside
          /\ visits' - 1 = acks + Count(queue', "Done")
        <3>1. visits \in Nat /\ acks \in Nat /\ visits' = visits + 1
            BY <1>2, <1>4, <2>2 DEF Types
        <3>2. /\ counter + Count(r, "Bump") = 1 + acks + early + outside
              /\ visits - 1 = acks + Count(r, "Done")
            BY <1>3, <2>1 DEF Good
        <3>3. Count(r, "Done") \in Nat
            BY <1>3
        <3>4. visits' - 1 = acks + (Count(r, "Done") + 1)
            BY <3>1, <3>2, <3>3
        <3> QED
            BY <2>4, <3>2, <3>4
    <2>7. One(armed)' = 0 /\ One(state = "Processing")' = 0
        BY <1>4, <2>2 DEF One
    <2> QED
        BY <1>3, <1>4, <2>4, <2>5, <2>6, <2>7 DEF Good
<1> QED
    BY <1>1, <1>6, <1>7, HandlersKeepRest

\* shutdown() begins its drain, and ends it.
LEMMA ShutdownHolds == IInv /\ (Shutdown \/ ShutdownDrained) => IInv'
<1> SUFFICES ASSUME IInv, Shutdown \/ ShutdownDrained PROVE IInv'
    OBVIOUS
<1>1. /\ phase # "down" /\ phase' \in {"shutdown", "drained"} /\ Envelope' = Envelope
      /\ UNCHANGED <<open, queue, counter, acks, cached, state, armed, visits,
                     outside, early, posts, lives>>
    BY DEF Shutdown, ShutdownDrained, producer, consumer, history, Envelope
<1>2. Types'
    BY <1>1 DEF IInv, Types
<1>3. Working' => Good'
    BY <1>1 DEF IInv, Working, Good
<1> QED
    BY <1>1, <1>2, <1>3 DEF IInv, OnlyBumpsWhileDown

\* shutdown() leaves an empty queue that is open again.
LEMMA ShutdownEndHolds == IInv /\ ShutdownEnd => IInv'
<1> SUFFICES ASSUME IInv, ShutdownEnd PROVE IInv'
    OBVIOUS
<1>1. /\ phase' = "down" /\ queue' = <<>> /\ Envelope' = Envelope
      /\ UNCHANGED <<counter, acks, cached, state, visits,
                     outside, early, posts, lives>>
    BY DEF ShutdownEnd, producer, history, Envelope
<1>2. open' = TRUE /\ armed' = FALSE
    BY DEF ShutdownEnd
<1>3. Types'
    <2>1. queue' \in Seq(Envelope)
        BY <1>1, EmptySeq
    <2> QED
        BY <1>1, <1>2, <2>1 DEF IInv, Types
<1> QED
    BY <1>1, <1>2, <1>3, EmptyIsBumps DEF IInv, OnlyBumpsWhileDown, Working

\* Nothing happens.
LEMMA StutterHolds == IInv /\ UNCHANGED vars => IInv'
<1> SUFFICES ASSUME IInv, UNCHANGED vars PROVE IInv'
    OBVIOUS
<1>1. /\ UNCHANGED <<phase, open, queue, counter, acks, cached, state, armed,
                     visits, outside, early, posts, lives>>
      /\ Envelope' = Envelope
    BY DEF vars, Envelope
<1>2. Types' /\ (Working' => Good')
    BY <1>1 DEF IInv, Types, Working, Good
<1> QED
    BY <1>1, <1>2 DEF IInv, OnlyBumpsWhileDown

\* The invariant holds in every state.
LEMMA IInvHolds == Spec => []IInv
<1>1. IInv /\ [Next]_vars => IInv'
    BY StartHolds, PostBumpHolds, StopHolds, TimerFiresHolds, OnBumpHolds,
       OnDoneHolds, OnKeyChangedHolds, OnTickHolds, ShutdownHolds,
       ShutdownEndHolds, StutterHolds DEF Next, LoopStep
<1> QED
    BY IInvInit, <1>1, PTL DEF Spec

-----------------------------------------------------------------------------
(***************************************************************************)
(* The theorems.                                                           *)
(***************************************************************************)

\* Every variable keeps its type, and the cache shows what Producer counted.
THEOREM AppTypes == Spec => []TypeOK
<1>1. IInv => TypeOK
    BY TypesAreTypeOK DEF IInv
<1> QED
    BY IInvHolds, <1>1, PTL

\* Until a stop, each bump is the seed, one from outside or the answer to an
\* acknowledgement, and each visit to Processing ends in one acknowledgement,
\* for any number of rounds, posts and lives (producer.cpp, consumer.cpp).
THEOREM NoRoundIsLostOrDoubled == Spec => []WorkIsConserved
<1>1. IInv => WorkIsConserved
    BY Zenon DEF IInv, Working, Good, WorkIsConserved, Queued, Count, Positions,
                 Types
<1> QED
    BY IInvHolds, <1>1, PTL

\* Processing has one tick on its way and Idle has none, and what is queued for
\* Idle was announced to its present subscription: no stale tick and no stale
\* change meets the other state (consumer.cpp).
THEOREM TokensFollowTheFlow == Spec => []TokensMeetTheirState
<1>1. IInv => TokensMeetTheirState
    BY Zenon DEF IInv, Working, Good, TokensMeetTheirState, Fresh, Queued, Count,
                 Positions, Types
<1> QED
    BY IInvHolds, <1>1, PTL
-----------------------------------------------------------------------------
(***************************************************************************)
(* The runtime's end.  MinimalApp takes for granted that the handles in    *)
(* the locals of a state find their services when shutdown() destroys      *)
(* them.  Lifecycle says so of any list of modules and whatever handles    *)
(* they hold; here is the proof, over variables of its own.                *)
(***************************************************************************)
CONSTANT Modules     \* number of modules in the ModuleList

VARIABLES call, at, modules, cache, timers, holds, started, starts

Teardown == INSTANCE Lifecycle WITH phase <- call, lives <- starts

\* The runtime is in its destructor.
Destroying == call \in {"no timers", "no cache"}

\* The timer service goes only with the runtime.
TimersWhileUsable == ~Destroying => timers

\* Where there are modules there is a cache, up to ~Runtime()'s second step.
CacheWithModules == call # "no cache" /\ modules # {} => cache

\* Between calls, and while it is destroyed, a runtime that is not started has
\* no modules.
NoModulesUnlessStarted == ~started /\ (call = "idle" \/ Destroying) => modules = {}

TeardownInv == TimersWhileUsable /\ CacheWithModules /\ NoModulesUnlessStarted

\* The three facts hold when the runtime has been constructed.
LEMMA TeardownInvInit == Teardown!Init => TeardownInv
BY DEF Teardown!Init, TeardownInv, TimersWhileUsable, CacheWithModules,
       NoModulesUnlessStarted, Destroying

\* Every call, and every step of a call, keeps them.
LEMMA TeardownInvNext == TeardownInv /\ [Teardown!Next]_(Teardown!vars) => TeardownInv'
<1> SUFFICES ASSUME TeardownInv, [Teardown!Next]_(Teardown!vars) PROVE TeardownInv'
    OBVIOUS
<1> USE DEF TeardownInv, TimersWhileUsable, CacheWithModules,
            NoModulesUnlessStarted, Destroying
<1>1. CASE Teardown!Start
    BY <1>1, Zenon DEF Teardown!Start
<1>2. CASE Teardown!OnStart
    BY <1>2, Zenon DEF Teardown!OnStart
<1>3. ASSUME NEW m \in Teardown!Declared, Teardown!Handle(m) PROVE TeardownInv'
    BY <1>3, Zenon DEF Teardown!Handle
<1>4. CASE Teardown!Shutdown
    BY <1>4, Zenon DEF Teardown!Shutdown
<1>5. CASE Teardown!OnStop
    BY <1>5, Zenon DEF Teardown!OnStop
<1>6. CASE Teardown!ResetModules
    <2>1. modules # {}
        BY <1>6 DEF Teardown!ResetModules, Teardown!DestroyModule
    <2> QED
        BY <1>6, <2>1, Zenon DEF Teardown!ResetModules
<1>7. CASE Teardown!ShutdownEnd
    BY <1>7, Zenon DEF Teardown!ShutdownEnd
<1>8. CASE Teardown!WrongCall
    BY <1>8, Zenon DEF Teardown!WrongCall
<1>9. CASE Teardown!DestroyTimers
    BY <1>9, Zenon DEF Teardown!DestroyTimers
<1>10. CASE Teardown!DestroyCache
    BY <1>10, Zenon DEF Teardown!DestroyCache
<1>11. CASE Teardown!DestroyModules
    <2>1. modules # {} /\ modules' \subseteq modules
        BY <1>11 DEF Teardown!DestroyModules, Teardown!DestroyModule
    <2> QED
        BY <1>11, <2>1, Zenon DEF Teardown!DestroyModules
<1>12. CASE UNCHANGED Teardown!vars
    BY <1>12, Zenon DEF Teardown!vars
<1> QED
    BY <1>1, <1>2, <1>3, <1>4, <1>5, <1>6, <1>7, <1>8, <1>9, <1>10, <1>11,
       <1>12 DEF Teardown!Next

\* The three facts imply the property.
LEMMA TeardownInvOrderly == TeardownInv => Teardown!OrderlyTeardown
BY Zenon DEF TeardownInv, TimersWhileUsable, CacheWithModules,
             NoModulesUnlessStarted, Destroying, Teardown!OrderlyTeardown,
             Teardown!HandlesMeetTheirService

\* As long as shutdown() comes before the destructor, no handle outlives its
\* service (runtime.hpp: shutdown() resets modules_, then cache_).
THEOREM TeardownIsOrderly == Teardown!Spec => []Teardown!OrderlyTeardown
BY TeardownInvInit, TeardownInvNext, TeardownInvOrderly, PTL DEF Teardown!Spec
=============================================================================
