------------------------- MODULE TimerServiceProofs -------------------------
(***************************************************************************)
(* Theorems about TimerService, for all threads, handles, delays and       *)
(* bounds: its four invariants, synchronous cancelling, and that it        *)
(* implements Alarms.                                                      *)
(*                                                                         *)
(* The argument rests on one fact: next_seq_ is never reset, so the number *)
(* of a timer is the rank of its arming (Numbered), and what the service   *)
(* knows by number it knows by arming.                                     *)
(***************************************************************************)
EXTENDS TimerService, TLAPS

\* What a thread holds at each place.
Phases ==
    \A t \in Threads :
        /\ pc[t] = "assign" => target[t] \in Handles /\ fresh[t] # NoTimer
        /\ pc[t] # "assign" => fresh[t] = NoTimer
        /\ pc[t] \in {"idle", "assign"} => firing[t] = {}

Base == TypeOK /\ Phases

\* Ranks handed out so far.
Ranks == 1..armed

\* A number is the rank of its arming, wherever it is kept.
Numbered ==
    /\ nextSeq = armed + 1
    /\ \A e \in heap : e.seq = e.id /\ e.id \in Ranks
    /\ \A t \in Threads : \A e \in firing[t] : e.seq = e.id /\ e.id \in Ranks
    /\ \A v \in HandleValues : v # NoTimer => v.seq = v.id /\ v.id \in Ranks
    /\ \A s \in live : \E e \in heap : e.seq = s

\* No two entries of the heap have one number, nor two of a batch.
Unique ==
    /\ \A e, f \in heap : e.id = f.id => e = f
    /\ \A t \in Threads : \A e, f \in firing[t] : e.id = f.id => e = f

\* A live number has a handle, and no timer that is live has two.
LiveIsHeld == \A s \in live : \E v \in HandleValues : v # NoTimer /\ v.id = s

OneHandleEach ==
    /\ \A h, g \in Handles : handle[h] = handle[g] /\ h # g => handle[h] = NoTimer
    /\ \A h \in Handles, t \in Threads : handle[h] = fresh[t] => handle[h] = NoTimer
    /\ \A t, u \in Threads : fresh[t] = fresh[u] /\ t # u => fresh[t] = NoTimer

\* A released timer is not live any more, nor in a batch of who released it.
ReleasedIsDead ==
    /\ \A r \in released : r[2] \in Ranks \ live
    /\ \A r \in released : \A e \in firing[r[1]] : e.id # r[2]

\* What a thread has posted was due before all it still has to post, and that
\* before all that waits in the heap.
DueInOrder ==
    \A t \in Threads :
        /\ lastDue[t] <= now
        /\ \A e \in heap : lastDue[t] <= e.due
        /\ \A f \in firing[t] : /\ lastDue[t] <= f.due /\ f.due <= now
                               /\ \A e \in heap : f.due <= e.due

\* EveryTimerInOnePlace, of live numbers in place of waiting entries.
Partition ==
    /\ Ranks = live \cup InFlight \cup posted \cup gone
    /\ live \cap InFlight = {}
    /\ (live \cup InFlight) \cap (posted \cup gone) = {}
    /\ posted \cap gone = {}
    /\ \A t, u \in Threads : t # u => Ids(firing[t]) \cap Ids(firing[u]) = {}

\* What a handle stands for, as a set of ranks: at most one.
Hit(v) == IF v = NoTimer THEN {} ELSE {v.id}

-----------------------------------------------------------------------------
(***************************************************************************)
(* Types, and where threads are.                                           *)
(***************************************************************************)

\* An inert handle releases nothing, another one its number.
LEMMA ReleaseTypes ==
    ASSUME TypeOK, NEW t \in Threads, NEW v \in Timer \cup {NoTimer},
           Release(t, v)
    PROVE  /\ live' \subseteq live
           /\ gone' \subseteq Nat
           /\ released' \subseteq Threads \X Nat
<1>1. CASE v = NoTimer
    BY <1>1 DEF Release, TypeOK
<1>2. CASE v # NoTimer
    <2>1. v.id \in Nat
        BY <1>2 DEF Timer
    <2>2. Ids({e \in LiveEntries : e.seq = v.seq}) \subseteq Nat
        BY DEF TypeOK, Ids, LiveEntries, Entry
    <2>3. /\ live' = live \ {v.seq}
          /\ gone' = gone \cup Ids({e \in LiveEntries : e.seq = v.seq})
          /\ released' = released \cup {<<t, v.id>>}
        BY <1>2, Zenon DEF Release, CancelSeq
    <2>4. /\ live' \subseteq live
          /\ gone' \subseteq Nat
        BY <2>2, <2>3, Zenon DEF TypeOK
    <2>5. released' \subseteq Threads \X Nat
        BY <2>1, <2>3 DEF TypeOK
    <2> QED
        BY <2>4, <2>5
<1> QED
    BY <1>1, <1>2

\* Every step keeps the types and what a thread holds at each place.
LEMMA BaseHolds == Base /\ [Next]_vars => Base'
<1> SUFFICES ASSUME TypeOK, Phases, [Next]_vars PROVE TypeOK' /\ Phases'
    BY DEF Base
<1>1. ASSUME NEW t \in Threads, NEW h \in Handles, NEW d \in Delays,
             ArmTimer(t, h, d)
      PROVE  TypeOK' /\ Phases'
    <2>1. Due(d) \in Nat /\ armed + 1 \in Nat /\ nextSeq + 1 \in Nat
        BY DelaysAreNat DEF Due, TypeOK
    <2>2. /\ [seq |-> nextSeq, due |-> Due(d), id |-> armed + 1] \in Entry
          /\ [seq |-> nextSeq, id |-> armed + 1] \in Timer
        BY <2>1 DEF Entry, Timer, TypeOK
    <2>3. TypeOK'
        BY <1>1, <2>1, <2>2 DEF ArmTimer, TypeOK
    <2>4. Phases'
        BY <1>1, <2>2, NoTimerIsNone DEF ArmTimer, Idle, TypeOK, Phases, Timer
    <2> QED
        BY <2>3, <2>4
<1>2. ASSUME NEW t \in Threads, Assign(t) PROVE TypeOK' /\ Phases'
    <2>1. target[t] \in Handles
        BY <1>2 DEF Assign, Phases
    <2>2. live' \subseteq live /\ gone' \subseteq Nat /\ released' \subseteq Threads \X Nat
        BY <1>2, <2>1, ReleaseTypes DEF Assign, TypeOK
    <2>3. TypeOK'
        BY <1>2, <2>1, <2>2 DEF Assign, TypeOK
    <2>4. Phases'
        BY <1>2 DEF Assign, TypeOK, Phases
    <2> QED
        BY <2>3, <2>4
<1>3. ASSUME NEW t \in Threads, NEW h \in Handles, NEW g \in Handles,
             MoveHandle(t, h, g)
      PROVE  TypeOK' /\ Phases'
    <2>1. live' \subseteq live /\ gone' \subseteq Nat /\ released' \subseteq Threads \X Nat
        BY <1>3, ReleaseTypes DEF MoveHandle, TypeOK
    <2> QED
        BY <1>3, <2>1 DEF MoveHandle, TypeOK, Phases
<1>4. ASSUME NEW t \in Threads, NEW h \in Handles, DropHandle(t, h)
      PROVE  TypeOK' /\ Phases'
    <2>1. live' \subseteq live /\ gone' \subseteq Nat /\ released' \subseteq Threads \X Nat
        BY <1>4, ReleaseTypes DEF DropHandle, TypeOK
    <2> QED
        BY <1>4, <2>1 DEF DropHandle, TypeOK, Phases
<1>5. ASSUME NEW t \in Threads, FireCollect(t) PROVE TypeOK' /\ Phases'
    <2>1. Collected \subseteq Entry
        BY DEF Collected, LiveEntries, TypeOK
    <2> QED
        BY <1>5, <2>1 DEF FireCollect, Idle, TypeOK, Phases
<1>6. ASSUME NEW t \in Threads, FirePost(t) PROVE TypeOK' /\ Phases'
    <2>1. PICK e \in firing[t] :
              /\ posted' = posted \cup {e.id}
              /\ lastDue' = [lastDue EXCEPT ![t] = e.due]
              /\ firing' = [firing EXCEPT ![t] = @ \ {e}]
              /\ pc' = [pc EXCEPT ![t] = IF firing[t] = {e} THEN "idle" ELSE @]
        BY <1>6 DEF FirePost
    <2>2. e \in Entry /\ e.id \in Nat /\ e.due \in Nat
        BY DEF TypeOK, Entry
    <2>3. TypeOK'
        BY <1>6, <2>1, <2>2 DEF FirePost, TypeOK
    <2>4. Phases'
        BY <1>6, <2>1 DEF FirePost, TypeOK, Phases
    <2> QED
        BY <2>3, <2>4
<1>7. ASSUME NEW t \in Threads, Bind(t) PROVE TypeOK' /\ Phases'
    BY <1>7 DEF Bind, TypeOK, Phases
<1>8. ASSUME NEW t \in Threads, Clear(t) PROVE TypeOK' /\ Phases'
    <2>1. Ids(LiveEntries) \subseteq Nat
        BY DEF TypeOK, Ids, LiveEntries, Entry
    <2>2. gone' \subseteq Nat
        BY <1>8, <2>1, Zenon DEF Clear, TypeOK
    <2>3. heap' \subseteq Entry /\ live' \subseteq Nat /\ clears' \in Nat
        BY <1>8 DEF Clear, TypeOK
    <2>4. TypeOK'
        BY <1>8, <2>2, <2>3, Zenon DEF Clear, TypeOK
    <2>5. Phases'
        BY <1>8, Zenon DEF Clear, Phases
    <2> QED
        BY <2>4, <2>5
<1>9. CASE Tick
    BY <1>9 DEF Tick, TypeOK, Phases
<1>10. CASE UNCHANGED vars
    BY <1>10 DEF vars, TypeOK, Phases
<1> QED
    BY <1>1, <1>2, <1>3, <1>4, <1>5, <1>6, <1>7, <1>8, <1>9, <1>10 DEF Next

\* A new service has the types, and its threads hold nothing.
LEMMA BaseInit == Init => Base
<1> SUFFICES ASSUME Init PROVE TypeOK /\ Phases
    BY DEF Base
<1>1. /\ {now, nextSeq, armed, clears} \subseteq Nat
      /\ heap = {} /\ live = {} /\ posted = {} /\ gone = {} /\ released = {}
      /\ lastDue \in [Threads -> Nat]
    BY DEF Init
<1>2. /\ bound \in BOOLEAN
      /\ handle \in [Handles -> Timer \cup {NoTimer}]
      /\ pc \in [Threads -> {"idle", "assign", "firing", "faulted"}]
      /\ fresh \in [Threads -> Timer \cup {NoTimer}]
      /\ target \in [Threads -> Handles \cup {NoTimer}]
      /\ firing \in [Threads -> SUBSET Entry]
    BY DEF Init
<1>3. TypeOK
    BY <1>1, <1>2 DEF TypeOK
<1>4. Phases
    BY DEF Init, Phases
<1> QED
    BY <1>3, <1>4

\* Every variable of the service keeps its type, for any number of threads,
\* handles and armings.
THEOREM TimerTypes == Spec => []TypeOK
<1>1. Base => TypeOK
    BY DEF Base
<1> QED
    BY <1>1, BaseInit, BaseHolds, PTL DEF Spec

-----------------------------------------------------------------------------
(***************************************************************************)
(* What each step does to the places a timer can be in.                    *)
(***************************************************************************)

\* The heap's live entries are the live numbers.
LEMMA WaitingIsLive ==
    ASSUME TypeOK, Numbered
    PROVE  Waiting = live
BY DEF TypeOK, Numbered, Waiting, Ids, LiveEntries, Entry

\* Releasing a handle cancels its own timer, and only while that one waits.
LEMMA ReleaseEffect ==
    ASSUME TypeOK, Numbered, NEW t \in Threads, NEW v \in HandleValues,
           Release(t, v)
    PROVE  /\ live' = live \ Hit(v)
           /\ gone' = gone \cup (live \cap Hit(v))
           /\ released' = released \cup {<<t, i>> : i \in Hit(v)}
<1>1. CASE v = NoTimer
    BY <1>1 DEF Release, Hit
<1>2. CASE v # NoTimer
    <2>1. v.seq = v.id
        BY <1>2 DEF Numbered
    <2>2. Ids({e \in LiveEntries : e.seq = v.seq}) = live \cap {v.id}
        BY <2>1 DEF Numbered, Ids, LiveEntries
    <2>3. /\ live' = live \ {v.seq}
          /\ gone' = gone \cup Ids({e \in LiveEntries : e.seq = v.seq})
          /\ released' = released \cup {<<t, v.id>>}
        BY <1>2, Zenon DEF Release, CancelSeq
    <2>4. Hit(v) = {v.id} /\ {<<t, i>> : i \in {v.id}} = {<<t, v.id>>}
        BY <1>2 DEF Hit
    <2> QED
        BY <2>1, <2>2, <2>3, <2>4
<1> QED
    BY <1>1, <1>2

\* Steps that work on handles.
HandleStep(t) ==
    \/ Assign(t)
    \/ \E h, g \in Handles : MoveHandle(t, h, g)
    \/ \E h \in Handles : DropHandle(t, h)

service == <<now, heap, nextSeq, firing, armed, posted, lastDue>>

\* A step on handles gives up the value of one handle, releasing it, and keeps
\* every other value in exactly one.
LEMMA HandOver ==
    ASSUME TypeOK, Phases, OneHandleEach, NEW t \in Threads, HandleStep(t)
    PROVE  /\ \E v \in HandleValues :
                 /\ Release(t, v)
                 /\ HandleValues' \subseteq HandleValues \cup {NoTimer}
                 /\ HandleValues \subseteq HandleValues' \cup {v}
           /\ OneHandleEach'
           /\ UNCHANGED service
           /\ firing[t] = {}
<1>1. CASE Assign(t)
    <2> DEFINE k == target[t]
    <2>1. k \in Handles /\ firing[t] = {}
        BY <1>1 DEF Assign, Phases
    <2>2. /\ handle' = [handle EXCEPT ![k] = fresh[t]]
          /\ fresh' = [fresh EXCEPT ![t] = NoTimer]
          /\ Release(t, handle[k]) /\ UNCHANGED service
        BY <1>1 DEF Assign, service
    <2>3. handle[k] \in HandleValues
        BY <2>1 DEF HandleValues
    <2>4. HandleValues' \subseteq HandleValues \cup {NoTimer}
        BY <2>1, <2>2 DEF HandleValues, TypeOK
    <2>5. HandleValues \subseteq HandleValues' \cup {handle[k]}
        <3>1. \A h \in Handles : handle[h] \in HandleValues' \cup {handle[k]}
            BY <2>1, <2>2 DEF HandleValues, TypeOK
        <3>2. \A u \in Threads : fresh[u] \in HandleValues'
            BY <2>1, <2>2 DEF HandleValues, TypeOK
        <3> QED
            BY <3>1, <3>2 DEF HandleValues
    <2>6. OneHandleEach'
        BY <2>1, <2>2 DEF OneHandleEach, TypeOK
    <2> QED
        BY <2>1, <2>2, <2>3, <2>4, <2>5, <2>6
<1>2. ASSUME NEW h \in Handles, NEW g \in Handles, MoveHandle(t, h, g)
      PROVE  /\ \E v \in HandleValues :
                   /\ Release(t, v)
                   /\ HandleValues' \subseteq HandleValues \cup {NoTimer}
                   /\ HandleValues \subseteq HandleValues' \cup {v}
             /\ OneHandleEach'
             /\ UNCHANGED service
             /\ firing[t] = {}
    <2>1. /\ handle' = [handle EXCEPT ![g] = handle[h], ![h] = NoTimer]
          /\ Release(t, handle[g]) /\ UNCHANGED <<fresh, service>>
          /\ h # g /\ firing[t] = {}
        BY <1>2 DEF MoveHandle, Idle, Phases, service
    <2>2. handle[g] \in HandleValues
        BY DEF HandleValues
    <2>3. HandleValues' \subseteq HandleValues \cup {NoTimer}
        BY <2>1 DEF HandleValues, TypeOK
    <2>4. HandleValues \subseteq HandleValues' \cup {handle[g]}
        <3>1. handle[h] \in HandleValues'
            BY <2>1 DEF HandleValues, TypeOK
        <3>2. \A k \in Handles \ {h, g} : handle[k] \in HandleValues'
            BY <2>1 DEF HandleValues, TypeOK
        <3>3. \A u \in Threads : fresh[u] \in HandleValues'
            BY <2>1 DEF HandleValues
        <3> QED
            BY <3>1, <3>2, <3>3 DEF HandleValues
    <2>5. OneHandleEach'
        BY <2>1 DEF OneHandleEach, TypeOK
    <2> QED
        BY <2>1, <2>2, <2>3, <2>4, <2>5
<1>3. ASSUME NEW h \in Handles, DropHandle(t, h)
      PROVE  /\ \E v \in HandleValues :
                   /\ Release(t, v)
                   /\ HandleValues' \subseteq HandleValues \cup {NoTimer}
                   /\ HandleValues \subseteq HandleValues' \cup {v}
             /\ OneHandleEach'
             /\ UNCHANGED service
             /\ firing[t] = {}
    <2>1. /\ handle' = [handle EXCEPT ![h] = NoTimer]
          /\ Release(t, handle[h]) /\ UNCHANGED <<fresh, service>>
          /\ firing[t] = {}
        BY <1>3 DEF DropHandle, Idle, Phases, service
    <2>2. handle[h] \in HandleValues
        BY DEF HandleValues
    <2>3. HandleValues' \subseteq HandleValues \cup {NoTimer}
        BY <2>1 DEF HandleValues, TypeOK
    <2>4. HandleValues \subseteq HandleValues' \cup {handle[h]}
        BY <2>1 DEF HandleValues, TypeOK
    <2>5. OneHandleEach'
        BY <2>1 DEF OneHandleEach, TypeOK
    <2> QED
        BY <2>1, <2>2, <2>3, <2>4, <2>5
<1> QED
    BY <1>1, <1>2, <1>3 DEF HandleStep

\* arm() gives out the next rank, to an entry of the heap and to a temporary.
LEMMA ArmEffect ==
    ASSUME TypeOK, Phases, Numbered,
           NEW t \in Threads, NEW h \in Handles, NEW d \in Delays,
           ArmTimer(t, h, d)
    PROVE  LET n == armed + 1
               e == [seq |-> n, due |-> now + d, id |-> n]
               v == [seq |-> n, id |-> n]
           IN  /\ armed' = n /\ nextSeq' = n + 1 /\ n \in Nat \ Ranks
               /\ heap' = heap \cup {e} /\ live' = live \cup {n}
               /\ v # NoTimer /\ v \in HandleValues'
               /\ HandleValues' \subseteq HandleValues \cup {v}
               /\ HandleValues \subseteq HandleValues' \cup {NoTimer}
               /\ fresh' = [fresh EXCEPT ![t] = v]
               /\ UNCHANGED <<now, handle, firing, posted, gone, released, lastDue>>
<1> DEFINE n == armed + 1
           v == [seq |-> n, id |-> n]
<1>1. nextSeq = n /\ n \in Nat /\ n \notin Ranks
    BY DEF TypeOK, Numbered, Ranks
<1>2. fresh[t] = NoTimer
    BY DEF ArmTimer, Idle, Phases
<1>3. /\ fresh' = [fresh EXCEPT ![t] = v] /\ handle' = handle
      /\ v # NoTimer
    BY <1>1, NoTimerIsNone DEF ArmTimer
<1>4. /\ v \in HandleValues'
      /\ HandleValues' \subseteq HandleValues \cup {v}
      /\ HandleValues \subseteq HandleValues' \cup {NoTimer}
    <2> HIDE DEF v
    <2>1. fresh'[t] = v /\ \A u \in Threads \ {t} : fresh'[u] = fresh[u]
        BY <1>3 DEF TypeOK
    <2> QED
        BY <1>2, <1>3, <2>1 DEF HandleValues
<1> QED
    BY <1>1, <1>3, <1>4 DEF ArmTimer, Due

\* What fire_due() collects leaves the heap and the live numbers, and is due.
LEMMA CollectEffect ==
    ASSUME TypeOK, Phases, Numbered, NEW t \in Threads, FireCollect(t)
    PROVE  /\ firing[t] = {}
           /\ firing' = [firing EXCEPT ![t] = Collected]
           /\ Collected \subseteq heap /\ Ids(Collected) \subseteq live
           /\ live' = live \ Ids(Collected)
           /\ \A e \in Collected : e.due <= now
           /\ heap' \subseteq heap
           /\ \A e \in heap' : e.due > now
           /\ \A e \in heap : e.id \in live' => e \in heap'
           /\ HandleValues' = HandleValues
           /\ UNCHANGED <<now, nextSeq, handle, fresh, armed, posted, gone,
                          released, lastDue>>
<1>1. /\ firing[t] = {}
      /\ firing' = [firing EXCEPT ![t] = Collected]
      /\ heap' = {e \in heap : ~IsDue(e)}
      /\ live' = live \ Seqs(Collected)
      /\ UNCHANGED <<now, nextSeq, handle, fresh, armed, posted, gone,
                     released, lastDue>>
    BY DEF FireCollect, Idle, Phases
<1>2. \A e \in heap : e.seq = e.id /\ e.due \in Nat
    BY DEF Numbered, TypeOK, Entry
<1>3. /\ Collected \subseteq heap
      /\ \A e \in Collected : e.due <= now /\ e.id \in live
      /\ \A e \in heap : e.id \in live /\ e.due <= now => e \in Collected
    BY <1>2 DEF Collected, LiveEntries, IsDue
<1>4. Seqs(Collected) = Ids(Collected)
    BY <1>2, <1>3 DEF Seqs, Ids
<1>5. now \in Nat
    BY DEF TypeOK
<1>6. ASSUME NEW e \in heap' PROVE e.due > now /\ e \in heap
    BY <1>1, <1>2, <1>5 DEF IsDue
<1>7. HandleValues' = HandleValues
    BY <1>1 DEF HandleValues
<1>8. ASSUME NEW e \in heap, e.id \in live' PROVE e \in heap'
    <2>1. e.id \in live /\ e \notin Collected
        BY <1>1, <1>4, <1>8 DEF Ids
    <2> QED
        BY <1>1, <1>2, <1>3, <1>5, <2>1 DEF IsDue
<1>9. Ids(Collected) \subseteq live
    BY <1>3 DEF Ids
<1> QED
    BY <1>1, <1>3, <1>4, <1>6, <1>7, <1>8, <1>9

\* fire_due() posts one of the entries it has collected.
LEMMA PostEffect ==
    ASSUME NEW t \in Threads, TypeOK, FirePost(t)
    PROVE  /\ \E e \in firing[t] :
                 /\ \A f \in firing[t] : e.due <= f.due
                 /\ posted' = posted \cup {e.id}
                 /\ lastDue' = [lastDue EXCEPT ![t] = e.due]
                 /\ firing' = [firing EXCEPT ![t] = @ \ {e}]
           /\ HandleValues' = HandleValues
           /\ UNCHANGED <<now, heap, live, nextSeq, handle, fresh, armed, gone,
                          released>>
<1>1. UNCHANGED <<now, heap, live, nextSeq, handle, fresh, armed, gone, released>>
    BY DEF FirePost
<1>2. \E e \in firing[t] :
          /\ \A f \in firing[t] : e.due <= f.due
          /\ posted' = posted \cup {e.id}
          /\ lastDue' = [lastDue EXCEPT ![t] = e.due]
          /\ firing' = [firing EXCEPT ![t] = @ \ {e}]
    BY Zenon DEF FirePost, MayPostNext
<1>3. HandleValues' = HandleValues
    BY <1>1 DEF HandleValues
<1> QED
    BY <1>1, <1>2, <1>3

\* clear() empties the heap and forgets the live numbers, but goes on counting.
LEMMA ClearEffect ==
    ASSUME NEW t \in Threads, TypeOK, Numbered, Clear(t)
    PROVE  /\ heap' = {} /\ live' = {} /\ gone' = gone \cup live
           /\ HandleValues' = HandleValues
           /\ UNCHANGED <<now, nextSeq, handle, fresh, firing, armed, posted,
                          released, lastDue>>
BY WaitingIsLive DEF Clear, HandleValues, Waiting

\* What the invariants speak of; the other steps change no more of it than the
\* time.
places == <<heap, live, nextSeq, handle, fresh, firing, armed, posted, gone,
            released, lastDue>>

\* Every step is one of these.
LEMMA StepCases ==
    ASSUME [Next]_vars, TypeOK
    PROVE  \/ \E t \in Threads, h \in Handles, d \in Delays : ArmTimer(t, h, d)
           \/ \E t \in Threads : HandleStep(t)
           \/ \E t \in Threads : FireCollect(t)
           \/ \E t \in Threads : FirePost(t)
           \/ \E t \in Threads : Clear(t)
           \/ now' \in Nat /\ now <= now' /\ UNCHANGED places
<1>1. ASSUME NEW t \in Threads, Bind(t)
      PROVE  now' \in Nat /\ now <= now' /\ UNCHANGED places
    BY <1>1 DEF Bind, places, TypeOK
<1>2. CASE Tick \/ UNCHANGED vars
    BY <1>2 DEF Tick, vars, places, TypeOK
<1> QED
    BY <1>1, <1>2 DEF Next, HandleStep

-----------------------------------------------------------------------------
(***************************************************************************)
(* The invariants, one after the other.                                    *)
(***************************************************************************)

\* Numbers stay ranks: arm() gives out the next one, clear() resets nothing.
LEMMA NumberedHolds ==
    ASSUME TypeOK, Phases, OneHandleEach, Numbered, [Next]_vars
    PROVE  Numbered'
<1>1. ASSUME NEW t \in Threads, NEW h \in Handles, NEW d \in Delays,
             ArmTimer(t, h, d)
      PROVE  Numbered'
    <2> DEFINE n == armed + 1
               e == [seq |-> n, due |-> now + d, id |-> n]
               v == [seq |-> n, id |-> n]
    <2>1. /\ armed' = n /\ nextSeq' = n + 1
          /\ heap' = heap \cup {e} /\ live' = live \cup {n}
          /\ HandleValues' \subseteq HandleValues \cup {v} /\ firing' = firing
        BY <1>1, ArmEffect
    <2>2. n \in Ranks' /\ Ranks \subseteq Ranks'
        BY <2>1 DEF Ranks, TypeOK
    <2>3. e.seq = n /\ e.id = n /\ v.seq = n /\ v.id = n
        OBVIOUS
    <2> HIDE DEF n, e, v
    <2> QED
        BY <2>1, <2>2, <2>3 DEF Numbered
<1>2. ASSUME NEW t \in Threads, HandleStep(t) PROVE Numbered'
    <2>1. PICK v \in HandleValues :
              /\ Release(t, v)
              /\ HandleValues' \subseteq HandleValues \cup {NoTimer}
        BY <1>2, HandOver
    <2>2. live' \subseteq live
        BY <2>1, ReleaseEffect
    <2>3. UNCHANGED service /\ Ranks' = Ranks
        BY <1>2, HandOver DEF Ranks, service
    <2> QED
        BY <2>1, <2>2, <2>3 DEF Numbered, service
<1>3. ASSUME NEW t \in Threads, FireCollect(t) PROVE Numbered'
    <2>1. /\ Collected \subseteq heap /\ heap' \subseteq heap /\ live' \subseteq live
          /\ firing' = [firing EXCEPT ![t] = Collected]
          /\ \A e \in heap : e.id \in live' => e \in heap'
          /\ HandleValues' = HandleValues /\ nextSeq' = nextSeq /\ armed' = armed
        BY <1>3, CollectEffect
    <2>2. Ranks' = Ranks
        BY <2>1 DEF Ranks
    <2>3. \A u \in Threads : firing'[u] \subseteq firing[u] \cup heap
        BY <2>1 DEF TypeOK
    <2> QED
        BY <2>1, <2>2, <2>3 DEF Numbered
<1>4. ASSUME NEW t \in Threads, FirePost(t) PROVE Numbered'
    <2>1. /\ \A u \in Threads : firing'[u] \subseteq firing[u]
          /\ HandleValues' = HandleValues
          /\ UNCHANGED <<heap, live, nextSeq, armed>>
        BY <1>4, PostEffect DEF TypeOK
    <2> QED
        BY <2>1 DEF Numbered, Ranks
<1>5. ASSUME NEW t \in Threads, Clear(t) PROVE Numbered'
    BY <1>5, ClearEffect DEF Numbered, Ranks
<1>6. CASE UNCHANGED places
    BY <1>6 DEF places, Numbered, Ranks, HandleValues
<1> QED
    BY <1>1, <1>2, <1>3, <1>4, <1>5, <1>6, StepCases

\* A fresh rank is that of no entry, and batches are taken from the heap.
LEMMA UniqueHolds ==
    ASSUME TypeOK, Phases, OneHandleEach, Numbered, Unique, [Next]_vars
    PROVE  Unique'
<1>1. ASSUME NEW t \in Threads, NEW h \in Handles, NEW d \in Delays,
             ArmTimer(t, h, d)
      PROVE  Unique'
    <2> DEFINE n == armed + 1
               e == [seq |-> n, due |-> now + d, id |-> n]
    <2>1. heap' = heap \cup {e} /\ n \notin Ranks /\ firing' = firing
        BY <1>1, ArmEffect
    <2>2. \A f \in heap : f.id # e.id
        BY <2>1 DEF Numbered
    <2> HIDE DEF e
    <2> QED
        BY <2>1, <2>2 DEF Unique
<1>2. ASSUME NEW t \in Threads, HandleStep(t) PROVE Unique'
    BY <1>2, HandOver DEF service, Unique
<1>3. ASSUME NEW t \in Threads, FireCollect(t) PROVE Unique'
    <2>1. /\ Collected \subseteq heap /\ heap' \subseteq heap
          /\ \A u \in Threads : firing'[u] = IF u = t THEN Collected ELSE firing[u]
        BY <1>3, CollectEffect DEF TypeOK
    <2> QED
        BY <2>1 DEF Unique
<1>4. ASSUME NEW t \in Threads, FirePost(t) PROVE Unique'
    <2>1. heap' = heap /\ \A u \in Threads : firing'[u] \subseteq firing[u]
        BY <1>4, PostEffect DEF TypeOK
    <2> QED
        BY <2>1 DEF Unique
<1>5. ASSUME NEW t \in Threads, Clear(t) PROVE Unique'
    BY <1>5, ClearEffect DEF Unique
<1>6. CASE UNCHANGED places
    BY <1>6 DEF places, Unique
<1> QED
    BY <1>1, <1>2, <1>3, <1>4, <1>5, <1>6, StepCases

\* Every live timer keeps a handle, and no timer gets a second one.
LEMMA HeldHolds ==
    ASSUME TypeOK, Phases, OneHandleEach, Numbered, LiveIsHeld, [Next]_vars
    PROVE  LiveIsHeld' /\ OneHandleEach'
<1>1. ASSUME NEW t \in Threads, NEW h \in Handles, NEW d \in Delays,
             ArmTimer(t, h, d)
      PROVE  LiveIsHeld' /\ OneHandleEach'
    <2> DEFINE n == armed + 1
               v == [seq |-> n, id |-> n]
    <2>1. /\ live' = live \cup {n} /\ n \notin Ranks
          /\ v # NoTimer /\ v \in HandleValues'
          /\ HandleValues \subseteq HandleValues' \cup {NoTimer}
          /\ fresh' = [fresh EXCEPT ![t] = v] /\ handle' = handle
        BY <1>1, ArmEffect
    <2>2. v.id = n
        OBVIOUS
    <2>3. \A w \in HandleValues : w # v
        BY <2>1, <2>2 DEF Numbered
    <2> HIDE DEF v, n
    <2>4. LiveIsHeld'
        BY <2>1, <2>2 DEF LiveIsHeld
    <2>5. /\ \A u \in Threads : fresh'[u] = IF u = t THEN v ELSE fresh[u]
          /\ \A u \in Threads : fresh[u] # v
          /\ \A g \in Handles : handle[g] # v
        BY <2>1, <2>3 DEF TypeOK, HandleValues
    <2>6. OneHandleEach'
        BY <2>1, <2>5 DEF OneHandleEach
    <2> QED
        BY <2>4, <2>6
<1>2. ASSUME NEW t \in Threads, HandleStep(t) PROVE LiveIsHeld' /\ OneHandleEach'
    <2>1. PICK v \in HandleValues :
              /\ Release(t, v)
              /\ HandleValues \subseteq HandleValues' \cup {v}
        BY <1>2, HandOver
    <2>2. live' = live \ Hit(v)
        BY <2>1, ReleaseEffect
    <2>3. LiveIsHeld'
        BY <2>1, <2>2 DEF LiveIsHeld, Hit
    <2> QED
        BY <1>2, <2>3, HandOver
<1>3. ASSUME NEW t \in Threads, FireCollect(t) PROVE LiveIsHeld' /\ OneHandleEach'
    <2>1. /\ live' \subseteq live /\ HandleValues' = HandleValues
          /\ UNCHANGED <<handle, fresh>>
        BY <1>3, CollectEffect
    <2> QED
        BY <2>1 DEF LiveIsHeld, OneHandleEach
<1>4. ASSUME NEW t \in Threads, FirePost(t) PROVE LiveIsHeld' /\ OneHandleEach'
    <2>1. HandleValues' = HandleValues /\ UNCHANGED <<live, handle, fresh>>
        BY <1>4, PostEffect
    <2> QED
        BY <2>1 DEF LiveIsHeld, OneHandleEach
<1>5. ASSUME NEW t \in Threads, Clear(t) PROVE LiveIsHeld' /\ OneHandleEach'
    <2>1. live' = {} /\ UNCHANGED <<handle, fresh>>
        BY <1>5, ClearEffect
    <2> QED
        BY <2>1 DEF LiveIsHeld, OneHandleEach
<1>6. CASE UNCHANGED places
    BY <1>6 DEF places, LiveIsHeld, OneHandleEach, HandleValues
<1> QED
    BY <1>1, <1>2, <1>3, <1>4, <1>5, <1>6, StepCases

\* A released timer stays cancelled, and no thread still has to post one that
\* it has released itself.
LEMMA ReleasedHolds ==
    ASSUME TypeOK, Phases, OneHandleEach, Numbered, ReleasedIsDead, [Next]_vars
    PROVE  ReleasedIsDead'
<1>1. ASSUME NEW t \in Threads, NEW h \in Handles, NEW d \in Delays,
             ArmTimer(t, h, d)
      PROVE  ReleasedIsDead'
    <2> DEFINE n == armed + 1
    <2>1. /\ armed' = n /\ live' = live \cup {n} /\ n \notin Ranks
          /\ UNCHANGED <<firing, released>>
        BY <1>1, ArmEffect
    <2>2. Ranks \subseteq Ranks'
        BY <2>1 DEF Ranks, TypeOK
    <2> HIDE DEF n
    <2> QED
        BY <2>1, <2>2 DEF ReleasedIsDead
<1>2. ASSUME NEW t \in Threads, HandleStep(t) PROVE ReleasedIsDead'
    <2>1. PICK v \in HandleValues : Release(t, v)
        BY <1>2, HandOver
    <2>2. /\ live' = live \ Hit(v)
          /\ released' = released \cup {<<t, i>> : i \in Hit(v)}
        BY <2>1, ReleaseEffect
    <2>3. firing' = firing /\ firing[t] = {} /\ Ranks' = Ranks
        BY <1>2, HandOver DEF service, Ranks
    <2>4. Hit(v) \subseteq Ranks
        BY DEF Hit, Numbered
    <2> QED
        BY <2>2, <2>3, <2>4 DEF ReleasedIsDead
<1>3. ASSUME NEW t \in Threads, FireCollect(t) PROVE ReleasedIsDead'
    <2>1. /\ firing' = [firing EXCEPT ![t] = Collected]
          /\ live' = live \ Ids(Collected) /\ Ids(Collected) \subseteq live
          /\ released' = released /\ armed' = armed
        BY <1>3, CollectEffect
    <2>2. \A u \in Threads : firing'[u] = IF u = t THEN Collected ELSE firing[u]
        BY <2>1 DEF TypeOK
    <2>3. \A r \in released : r[1] \in Threads
        BY DEF TypeOK
    <2>4. \A r \in released : \A e \in Collected : e.id # r[2]
        BY <2>1 DEF ReleasedIsDead, Ids
    <2> QED
        BY <2>1, <2>2, <2>3, <2>4 DEF ReleasedIsDead, Ranks
<1>4. ASSUME NEW t \in Threads, FirePost(t) PROVE ReleasedIsDead'
    <2>1. /\ \A u \in Threads : firing'[u] \subseteq firing[u]
          /\ UNCHANGED <<live, released, armed>>
        BY <1>4, PostEffect DEF TypeOK
    <2>2. \A r \in released : r[1] \in Threads
        BY DEF TypeOK
    <2> QED
        BY <2>1, <2>2 DEF ReleasedIsDead, Ranks
<1>5. ASSUME NEW t \in Threads, Clear(t) PROVE ReleasedIsDead'
    BY <1>5, ClearEffect DEF ReleasedIsDead, Ranks
<1>6. CASE UNCHANGED places
    BY <1>6 DEF places, ReleasedIsDead, Ranks
<1> QED
    BY <1>1, <1>2, <1>3, <1>4, <1>5, <1>6, StepCases

\* What waits or is armed is never due before what was collected or posted.
LEMMA DueHolds ==
    ASSUME TypeOK, Phases, OneHandleEach, Numbered, DueInOrder, [Next]_vars
    PROVE  DueInOrder'
<1>0. /\ now \in Nat /\ \A u \in Threads : lastDue[u] \in Nat
      /\ \A e \in heap : e.due \in Nat
      /\ \A u \in Threads : \A e \in firing[u] : e.due \in Nat
    BY DEF TypeOK, Entry
<1>1. ASSUME NEW t \in Threads, NEW h \in Handles, NEW d \in Delays,
             ArmTimer(t, h, d)
      PROVE  DueInOrder'
    <2> DEFINE e == [seq |-> armed + 1, due |-> now + d, id |-> armed + 1]
    <2>1. heap' = heap \cup {e} /\ UNCHANGED <<now, firing, lastDue>>
        BY <1>1, ArmEffect
    <2>2. e.due \in Nat /\ now <= e.due
        BY <1>0, DelaysAreNat
    <2> HIDE DEF e
    <2> QED
        BY <1>0, <2>1, <2>2 DEF DueInOrder
<1>2. ASSUME NEW t \in Threads, HandleStep(t) PROVE DueInOrder'
    BY <1>2, HandOver DEF service, DueInOrder
<1>3. ASSUME NEW t \in Threads, FireCollect(t) PROVE DueInOrder'
    <2>1. /\ Collected \subseteq heap /\ heap' \subseteq heap
          /\ \A e \in Collected : e.due <= now
          /\ \A e \in heap' : e.due > now
          /\ \A u \in Threads : firing'[u] = IF u = t THEN Collected ELSE firing[u]
          /\ UNCHANGED <<now, lastDue>>
        BY <1>3, CollectEffect DEF TypeOK
    <2> QED
        BY <1>0, <2>1 DEF DueInOrder
<1>4. ASSUME NEW t \in Threads, FirePost(t) PROVE DueInOrder'
    <2>1. PICK e \in firing[t] :
              /\ \A f \in firing[t] : e.due <= f.due
              /\ lastDue' = [lastDue EXCEPT ![t] = e.due]
              /\ firing' = [firing EXCEPT ![t] = @ \ {e}]
        BY <1>4, PostEffect
    <2>2. /\ \A u \in Threads : lastDue'[u] = IF u = t THEN e.due ELSE lastDue[u]
          /\ \A u \in Threads : firing'[u] \subseteq firing[u]
        BY <2>1 DEF TypeOK
    <2>3. heap' = heap /\ now' = now
        BY <1>4, PostEffect
    <2> QED
        BY <1>0, <2>1, <2>2, <2>3 DEF DueInOrder
<1>5. ASSUME NEW t \in Threads, Clear(t) PROVE DueInOrder'
    BY <1>5, ClearEffect DEF DueInOrder
<1>6. CASE now' \in Nat /\ now <= now' /\ UNCHANGED places
    <2>1. UNCHANGED <<heap, firing, lastDue>>
        BY <1>6 DEF places
    <2> QED
        BY <1>0, <1>6, <2>1 DEF DueInOrder
<1> QED
    BY <1>1, <1>2, <1>3, <1>4, <1>5, <1>6, StepCases

\* Where the numbers go: from the live ones to a batch, from there to the
\* posted ones, or from the live ones to the cancelled.
LEMMA PartitionHolds ==
    ASSUME TypeOK, Phases, OneHandleEach, Numbered, Unique, Partition, [Next]_vars
    PROVE  Partition'
<1>1. ASSUME NEW t \in Threads, NEW h \in Handles, NEW d \in Delays,
             ArmTimer(t, h, d)
      PROVE  Partition'
    <2> DEFINE n == armed + 1
    <2>1. /\ armed' = n /\ live' = live \cup {n} /\ n \notin Ranks
          /\ UNCHANGED <<firing, posted, gone>>
        BY <1>1, ArmEffect
    <2>2. Ranks' = Ranks \cup {n}
        BY <2>1 DEF Ranks, TypeOK
    <2>3. InFlight' = InFlight
        BY <2>1 DEF InFlight
    <2> HIDE DEF n
    <2> QED
        BY <2>1, <2>2, <2>3 DEF Partition
<1>2. ASSUME NEW t \in Threads, HandleStep(t) PROVE Partition'
    <2>1. PICK v \in HandleValues : Release(t, v)
        BY <1>2, HandOver
    <2>2. live' = live \ Hit(v) /\ gone' = gone \cup (live \cap Hit(v))
        BY <2>1, ReleaseEffect
    <2>3. UNCHANGED <<firing, posted>> /\ Ranks' = Ranks
        BY <1>2, HandOver DEF service, Ranks
    <2>4. InFlight' = InFlight
        BY <2>3 DEF InFlight
    <2> QED
        BY <2>2, <2>3, <2>4 DEF Partition
<1>3. ASSUME NEW t \in Threads, FireCollect(t) PROVE Partition'
    <2> DEFINE C == Ids(Collected)
    <2>1. /\ firing[t] = {} /\ firing' = [firing EXCEPT ![t] = Collected]
          /\ C \subseteq live /\ live' = live \ C
          /\ UNCHANGED <<armed, posted, gone>>
        BY <1>3, CollectEffect
    <2>2. \A u \in Threads : Ids(firing'[u]) = IF u = t THEN C ELSE Ids(firing[u])
        BY <2>1 DEF TypeOK
    <2>3. Ids(firing[t]) = {}
        BY <2>1 DEF Ids
    <2> HIDE DEF C
    <2>4. InFlight' = InFlight \cup C
        BY <2>2, <2>3 DEF InFlight
    <2>5. Ranks' = Ranks
        BY <2>1 DEF Ranks
    <2>6. \A u \in Threads : Ids(firing[u]) \subseteq InFlight
        BY DEF InFlight
    <2> QED
        BY <2>1, <2>2, <2>4, <2>5, <2>6 DEF Partition
<1>4. ASSUME NEW t \in Threads, FirePost(t) PROVE Partition'
    <2>1. PICK e \in firing[t] :
              /\ posted' = posted \cup {e.id}
              /\ firing' = [firing EXCEPT ![t] = @ \ {e}]
        BY <1>4, PostEffect
    <2>2. UNCHANGED <<live, armed, gone>>
        BY <1>4, PostEffect
    <2>3. firing'[t] = firing[t] \ {e} /\ \A u \in Threads \ {t} : firing'[u] = firing[u]
        BY <2>1 DEF TypeOK
    <2>4. Ids(firing'[t]) = Ids(firing[t]) \ {e.id}
        BY <2>3 DEF Unique, Ids
    <2>5. \A u \in Threads :
              Ids(firing'[u]) = IF u = t THEN Ids(firing[t]) \ {e.id} ELSE Ids(firing[u])
        BY <2>3, <2>4
    <2>6. e.id \in Ids(firing[t])
        BY DEF Ids
    <2>7. \A u \in Threads \ {t} : e.id \notin Ids(firing[u])
        BY <2>6 DEF Partition
    <2>8. InFlight' = InFlight \ {e.id} /\ e.id \in InFlight
        BY <2>5, <2>6, <2>7 DEF InFlight
    <2>9. Ranks' = Ranks
        BY <2>2 DEF Ranks
    <2> QED
        BY <2>1, <2>2, <2>5, <2>8, <2>9 DEF Partition
<1>5. ASSUME NEW t \in Threads, Clear(t) PROVE Partition'
    <2>1. /\ live' = {} /\ gone' = gone \cup live
          /\ UNCHANGED <<firing, armed, posted>>
        BY <1>5, ClearEffect
    <2>2. InFlight' = InFlight /\ Ranks' = Ranks
        BY <2>1 DEF InFlight, Ranks
    <2> QED
        BY <2>1, <2>2 DEF Partition
<1>6. CASE UNCHANGED places
    <2>1. UNCHANGED <<live, firing, armed, posted, gone>>
        BY <1>6 DEF places
    <2>2. InFlight' = InFlight /\ Ranks' = Ranks
        BY <2>1 DEF InFlight, Ranks
    <2> QED
        BY <2>1, <2>2 DEF Partition
<1> QED
    BY <1>1, <1>2, <1>3, <1>4, <1>5, <1>6, StepCases

-----------------------------------------------------------------------------
(***************************************************************************)
(* The inductive invariant, and what it shows.                             *)
(***************************************************************************)

\* All of it together is inductive.
IInv ==
    /\ TypeOK /\ Phases
    /\ Numbered /\ Unique
    /\ LiveIsHeld /\ OneHandleEach
    /\ ReleasedIsDead /\ DueInOrder /\ Partition

\* A service nobody has used yet satisfies all of it.
LEMMA IInvInit == Init => IInv
<1> SUFFICES ASSUME Init PROVE IInv
    OBVIOUS
<1>1. TypeOK /\ Phases
    BY BaseInit DEF Base
<1>2. /\ heap = {} /\ live = {} /\ released = {} /\ posted = {} /\ gone = {}
      /\ now = 0 /\ nextSeq = 1 /\ armed = 0
      /\ \A t \in Threads : firing[t] = {} /\ lastDue[t] = 0 /\ fresh[t] = NoTimer
      /\ \A h \in Handles : handle[h] = NoTimer
    BY DEF Init
<1>3. Ranks = {} /\ InFlight = {} /\ \A t \in Threads : Ids(firing[t]) = {}
    BY <1>2 DEF Ranks, InFlight, Ids
<1>4. \A v \in HandleValues : v = NoTimer
    BY <1>2 DEF HandleValues
<1>5. Numbered /\ Unique
    BY <1>2, <1>4 DEF Numbered, Unique
<1>6. LiveIsHeld /\ OneHandleEach
    BY <1>2 DEF LiveIsHeld, OneHandleEach
<1>7. ReleasedIsDead /\ DueInOrder
    BY <1>2 DEF ReleasedIsDead, DueInOrder
<1>8. Partition
    BY <1>2, <1>3 DEF Partition
<1> QED
    BY <1>1, <1>5, <1>6, <1>7, <1>8 DEF IInv

\* Every step keeps it.
LEMMA IInvHolds == IInv /\ [Next]_vars => IInv'
<1> SUFFICES ASSUME IInv, [Next]_vars PROVE IInv'
    OBVIOUS
<1>1. /\ TypeOK /\ Phases /\ Numbered /\ Unique /\ LiveIsHeld /\ OneHandleEach
      /\ ReleasedIsDead /\ DueInOrder /\ Partition
    BY DEF IInv
<1>2. TypeOK' /\ Phases'
    BY <1>1, BaseHolds DEF Base
<1>3. Numbered' /\ Unique'
    BY <1>1, NumberedHolds, UniqueHolds
<1>4. LiveIsHeld' /\ OneHandleEach'
    BY <1>1, HeldHolds
<1>5. ReleasedIsDead' /\ DueInOrder'
    BY <1>1, ReleasedHolds, DueHolds
<1>6. Partition'
    BY <1>1, PartitionHolds
<1> QED
    BY <1>2, <1>3, <1>4, <1>5, <1>6 DEF IInv

\* So it holds in every state of every behaviour.
LEMMA Invariant == Spec => []IInv
BY IInvInit, IInvHolds, PTL DEF Spec

\* Every timer ever armed waits, is about to be posted by one thread, was
\* posted, or is gone, and only one of these: none fires twice, none fires that
\* was cancelled while it waited, none is forgotten.
THEOREM EveryTimerIsInOnePlace == Spec => []EveryTimerInOnePlace
<1>1. IInv => EveryTimerInOnePlace
    <2> SUFFICES ASSUME IInv PROVE EveryTimerInOnePlace
        OBVIOUS
    <2>1. Waiting = live
        BY WaitingIsLive DEF IInv
    <2>2. Partition
        BY DEF IInv
    <2> QED
        BY <2>1, <2>2 DEF EveryTimerInOnePlace, Partition, Ranks
<1> QED
    BY <1>1, Invariant, PTL

\* A live timer has exactly one handle, and a handle's number is that of the
\* arming that made it, before and after clear(): to drop a handle is never to
\* cancel a timer of somebody else.
THEOREM DroppingCancelsOnlyItsOwn == Spec => []EveryLiveTimerHasItsHandle
<1>1. IInv => EveryLiveTimerHasItsHandle
    <2> SUFFICES ASSUME IInv PROVE EveryLiveTimerHasItsHandle
        OBVIOUS
    <2>1. Numbered /\ LiveIsHeld /\ OneHandleEach
        BY DEF IInv
    <2>2. ASSUME NEW e \in LiveEntries
          PROVE  /\ \E v \in HandleValues : v # NoTimer /\ v.seq = e.seq
                 /\ \A v \in HandleValues :
                       v # NoTimer /\ v.seq = e.seq => v.id = e.id
        BY <2>1 DEF Numbered, LiveIsHeld, LiveEntries
    <2> QED
        BY <2>1, <2>2 DEF EveryLiveTimerHasItsHandle, OneHandleEach
<1> QED
    BY <1>1, Invariant, PTL

\* Each thread posts expiries in the order of their due times, across all its
\* calls of fire_due(), whatever the others arm and collect meanwhile.
THEOREM ExpiriesAreInOrder == Spec => []PostedInDueOrder
<1>1. IInv => PostedInDueOrder
    BY DEF IInv, DueInOrder, PostedInDueOrder
<1> QED
    BY <1>1, Invariant, PTL

\* No step posts a timer whose handle the posting thread has itself released:
\* to cancel is synchronous for the thread that fires.
THEOREM CancelIsSynchronousForOneself == Spec => OwnCancelIsSynchronous
<1>1. IInv /\ [Next]_vars => [\A t \in Threads : PostedBy(t) \cap Released({t}) = {}]_vars
    <2> SUFFICES ASSUME ReleasedIsDead, NEW t \in Threads
                 PROVE  PostedBy(t) \cap Released({t}) = {}
        BY DEF IInv
    <2>1. ASSUME NEW i \in PostedBy(t), i \in Released({t}) PROVE FALSE
        <3>1. PICK r \in released : r[1] = t /\ r[2] = i
            BY <2>1 DEF Released
        <3>2. PICK e \in firing[t] : e.id = i
            BY <2>1 DEF PostedBy, Ids
        <3> QED
            BY <3>1, <3>2 DEF ReleasedIsDead
    <2> QED
        BY <2>1
<1> QED
    BY <1>1, Invariant, PTL DEF Spec, OwnCancelIsSynchronous
-----------------------------------------------------------------------------
(***************************************************************************)
(* The service implements the abstract one.                                *)
(***************************************************************************)

AlarmOf(e) == [id |-> e.id, due |-> e.due]

InBatches == UNION {firing[t] : t \in Threads}

\* The code that armed it knows an entry by its number: taking out an entry is
\* taking out its alarm, if no other has that number.
LEMMA AlarmsWithout ==
    ASSUME NEW X, NEW e \in X, \A f \in X : f.id = e.id => f = e
    PROVE  /\ AlarmOf(e) \in AlarmsOf(X)
           /\ AlarmsOf(X \ {e}) = AlarmsOf(X) \ {AlarmOf(e)}
<1>1. \A f \in X : f # e => f.id # e.id
    OBVIOUS
<1>2. \A f \in X \ {e} : AlarmOf(f) # AlarmOf(e)
    <2>1. SUFFICES ASSUME NEW f \in X \ {e}, AlarmOf(f) = AlarmOf(e)
                   PROVE  FALSE
        OBVIOUS
    <2>2. AlarmOf(f).id = f.id /\ AlarmOf(e).id = e.id
        BY DEF AlarmOf
    <2> QED
        BY <1>1, <2>1, <2>2
<1>3. \A Y : AlarmsOf(Y) = {AlarmOf(f) : f \in Y}
    BY DEF AlarmsOf, AlarmOf
<1> QED
    BY <1>2, <1>3

\* No two entries that wait to be posted have one number, in whosever batch.
LEMMA BatchesDiffer ==
    ASSUME Unique, Partition
    PROVE  \A e, f \in InBatches : e.id = f.id => e = f
<1> SUFFICES ASSUME NEW t \in Threads, NEW u \in Threads,
                    NEW e \in firing[t], NEW f \in firing[u], e.id = f.id
             PROVE  e = f
    BY DEF InBatches
<1>1. e.id \in Ids(firing[t]) \cap Ids(firing[u])
    BY DEF Ids
<1>2. t = u
    BY <1>1 DEF Partition
<1> QED
    BY <1>2 DEF Unique

\* arm() sets the next alarm.
LEMMA ArmSets ==
    ASSUME IInv, NEW t \in Threads, NEW h \in Handles, NEW d \in Delays,
           ArmTimer(t, h, d)
    PROVE  Alarm!Set(d)
<1> DEFINE n == armed + 1
           e == [seq |-> n, due |-> now + d, id |-> n]
<1>0. TypeOK /\ Phases /\ Numbered
    BY DEF IInv
<1>1. /\ armed' = n /\ n \notin Ranks
      /\ heap' = heap \cup {e} /\ live' = live \cup {n}
      /\ UNCHANGED <<now, firing, posted, gone>>
    BY <1>0, ArmEffect
<1>2. e.seq = n /\ AlarmOf(e) = [id |-> n, due |-> Alarm!DueTime(d)]
    <2>1. now + d \in Nat
        BY <1>0, DelaysAreNat DEF TypeOK
    <2> QED
        BY <2>1 DEF AlarmOf, Alarm!DueTime
<1>3. \A f \in heap : f.seq # n
    BY <1>0, <1>1 DEF Numbered
<1> HIDE DEF e
<1>4. LiveEntries' = LiveEntries \cup {e}
    BY <1>1, <1>2, <1>3 DEF LiveEntries
<1>5. AlarmsWaiting' = AlarmsWaiting \cup {AlarmOf(e)}
    BY <1>4 DEF AlarmsWaiting, AlarmsOf, AlarmOf
<1>6. AlarmsTaken' = AlarmsTaken
    BY <1>1 DEF AlarmsTaken, AlarmsOf
<1> QED
    BY <1>1, <1>2, <1>5, <1>6 DEF Alarm!Set

\* Releasing a handle calls off the alarm of a timer that is live, and nothing
\* otherwise.
LEMMA ReleaseCallsOff ==
    ASSUME IInv, NEW t \in Threads, HandleStep(t)
    PROVE  \/ \E alarm \in AlarmsWaiting : Alarm!CallOff(alarm)
           \/ UNCHANGED Alarm!avars
<1>0. TypeOK /\ Phases /\ OneHandleEach /\ Numbered /\ Unique
    BY DEF IInv
<1>1. PICK v \in HandleValues : Release(t, v)
    BY <1>0, HandOver
<1>2. live' = live \ Hit(v) /\ gone' = gone \cup (live \cap Hit(v))
    BY <1>0, <1>1, ReleaseEffect
<1>3. UNCHANGED <<now, heap, firing, armed, posted>>
    BY <1>0, HandOver DEF service
<1>4. AlarmsTaken' = AlarmsTaken
    BY <1>3 DEF AlarmsTaken, AlarmsOf
<1>5. CASE live \cap Hit(v) = {}
    <2>1. live' = live /\ gone' = gone
        BY <1>2, <1>5
    <2>2. AlarmsWaiting' = AlarmsWaiting
        BY <1>3, <2>1 DEF AlarmsWaiting, AlarmsOf, LiveEntries
    <2> QED
        BY <1>3, <1>4, <2>1, <2>2 DEF Alarm!avars
<1>6. CASE live \cap Hit(v) # {}
    <2>1. v.id \in live /\ Hit(v) = {v.id}
        BY <1>6 DEF Hit
    <2>2. PICK e \in heap : e.seq = v.id
        BY <1>0, <2>1 DEF Numbered
    <2>3. \A f \in heap : f.seq = f.id
        BY <1>0 DEF Numbered
    <2>4. e \in LiveEntries /\ e.id = v.id
        BY <2>1, <2>2, <2>3 DEF LiveEntries
    <2>5. \A f \in heap : f.id = e.id => f = e
        BY <1>0, <2>2 DEF Unique
    <2>6. LiveEntries' = LiveEntries \ {e}
        BY <1>2, <1>3, <2>1, <2>3, <2>4, <2>5 DEF LiveEntries
    <2>7. /\ AlarmOf(e) \in AlarmsWaiting
          /\ AlarmsWaiting' = AlarmsWaiting \ {AlarmOf(e)}
        <3>1. \A f \in LiveEntries : f.id = e.id => f = e
            BY <2>5 DEF LiveEntries
        <3> QED
            BY <2>4, <2>6, <3>1, AlarmsWithout DEF AlarmsWaiting
    <2>8. gone' = gone \cup {AlarmOf(e).id}
        BY <1>2, <2>1, <2>4 DEF AlarmOf
    <2> QED
        BY <1>3, <1>4, <2>7, <2>8 DEF Alarm!CallOff
<1> QED
    BY <1>5, <1>6

\* The locked phase of fire_due() takes out exactly the alarms that are due.
LEMMA CollectTakesDue ==
    ASSUME IInv, NEW t \in Threads, FireCollect(t)
    PROVE  Alarm!TakeDue
<1>0. TypeOK /\ Phases /\ Numbered /\ Unique
    BY DEF IInv
<1>1. /\ firing[t] = {} /\ firing' = [firing EXCEPT ![t] = Collected]
      /\ live' = live \ Ids(Collected)
      /\ heap' \subseteq heap
      /\ \A e \in heap' : e.due > now
      /\ \A e \in heap : e.id \in live' => e \in heap'
      /\ UNCHANGED <<now, armed, posted, gone>>
    BY <1>0, CollectEffect
<1>2. \A e \in heap : e.seq = e.id /\ e.due \in Nat
    BY <1>0 DEF Numbered, TypeOK, Entry
<1>3. now \in Nat
    BY <1>0 DEF TypeOK
<1>4. Collected = {e \in LiveEntries : e.due <= now}
    BY DEF Collected, IsDue
<1>5. LiveEntries' = {e \in LiveEntries : e.due > now}
    <2>1. ASSUME NEW e \in LiveEntries' PROVE e \in LiveEntries /\ e.due > now
        BY <1>1, <2>1 DEF LiveEntries
    <2>2. ASSUME NEW e \in LiveEntries, e.due > now PROVE e \in LiveEntries'
        <3>1. e \in heap /\ e.id \in live /\ e.seq = e.id
            BY <1>2 DEF LiveEntries
        <3>2. \A f \in Collected : f.id # e.id
            BY <1>0, <1>2, <1>3, <1>4, <2>2, <3>1 DEF Unique, LiveEntries
        <3>3. e.id \in live'
            BY <1>1, <3>1, <3>2 DEF Ids
        <3> QED
            BY <1>1, <3>1, <3>3 DEF LiveEntries
    <2> QED
        BY <2>1, <2>2
<1>6. AlarmsWaiting' = {a \in AlarmsWaiting : a.due > now}
    BY <1>5 DEF AlarmsWaiting, AlarmsOf
<1>7. InBatches' = InBatches \cup Collected
    <2>1. \A u \in Threads : firing'[u] = IF u = t THEN Collected ELSE firing[u]
        BY <1>0, <1>1 DEF TypeOK
    <2> QED
        BY <1>1, <2>1 DEF InBatches
<1>8. AlarmsOf(InBatches \cup Collected) = AlarmsOf(InBatches) \cup AlarmsOf(Collected)
    BY DEF AlarmsOf
<1>9. AlarmsOf(Collected) = {a \in AlarmsWaiting : a.due <= now}
    BY <1>4 DEF AlarmsWaiting, AlarmsOf
<1>10. AlarmsTaken = AlarmsOf(InBatches) /\ AlarmsTaken' = AlarmsOf(InBatches')
    BY DEF AlarmsTaken, InBatches
<1>11. AlarmsTaken' = AlarmsTaken \cup {a \in AlarmsWaiting : a.due <= now}
    BY <1>7, <1>8, <1>9, <1>10
<1> QED
    BY <1>1, <1>6, <1>11 DEF Alarm!TakeDue

\* What the unlocked phase posts rings, and is in nobody's batch any more.
LEMMA PostRings ==
    ASSUME IInv, NEW t \in Threads, FirePost(t)
    PROVE  \E alarm \in AlarmsTaken : Alarm!Ring(alarm)
<1>0. TypeOK /\ Unique /\ Partition
    BY DEF IInv
<1>1. PICK e \in firing[t] :
          /\ posted' = posted \cup {e.id}
          /\ firing' = [firing EXCEPT ![t] = @ \ {e}]
    BY <1>0, PostEffect
<1>2. UNCHANGED <<now, heap, live, armed, gone>>
    BY <1>0, PostEffect
<1>3. e \in InBatches /\ \A f \in InBatches : f.id = e.id => f = e
    BY <1>0, BatchesDiffer DEF InBatches
<1>4. \A u \in Threads \ {t} : e \notin firing[u]
    <2>1. ASSUME NEW u \in Threads \ {t}, e \in firing[u] PROVE FALSE
        <3>1. e.id \in Ids(firing[t]) \cap Ids(firing[u])
            BY <2>1 DEF Ids
        <3> QED
            BY <1>0, <3>1 DEF Partition
    <2> QED
        BY <2>1
<1>5. InBatches' = InBatches \ {e}
    <2>1. \A u \in Threads : firing'[u] = firing[u] \ {e}
        BY <1>0, <1>1, <1>4 DEF TypeOK
    <2> QED
        BY <2>1 DEF InBatches
<1>6. AlarmsTaken = AlarmsOf(InBatches) /\ AlarmsTaken' = AlarmsOf(InBatches')
    BY DEF AlarmsTaken, InBatches
<1>7. /\ AlarmOf(e) \in AlarmsTaken
      /\ AlarmsTaken' = AlarmsTaken \ {AlarmOf(e)}
    BY <1>3, <1>5, <1>6, AlarmsWithout
<1>8. AlarmsWaiting' = AlarmsWaiting
    BY <1>2 DEF AlarmsWaiting, AlarmsOf, LiveEntries
<1>9. posted' = posted \cup {AlarmOf(e).id}
    BY <1>1 DEF AlarmOf
<1> QED
    BY <1>2, <1>7, <1>8, <1>9 DEF Alarm!Ring

\* clear() calls off all that wait.
LEMMA ClearCallsOff ==
    ASSUME NEW t \in Threads, Clear(t)
    PROVE  Alarm!CallOffAll
<1>1. AlarmsWaiting' = {}
    BY DEF Clear, AlarmsWaiting, AlarmsOf, LiveEntries
<1>2. AlarmsTaken' = AlarmsTaken
    BY DEF Clear, AlarmsTaken, AlarmsOf
<1>3. Ids(LiveEntries) = {a.id : a \in AlarmsWaiting}
    <2>1. AlarmsWaiting = {AlarmOf(e) : e \in LiveEntries}
        BY DEF AlarmsWaiting, AlarmsOf, AlarmOf
    <2>2. \A e \in LiveEntries : AlarmOf(e).id = e.id
        BY DEF AlarmOf
    <2> QED
        BY <2>1, <2>2 DEF Ids
<1> QED
    BY <1>1, <1>2, <1>3 DEF Clear, Alarm!CallOffAll

\* Every step of the service is one of the abstract service, or none.
LEMMA AlarmStep == IInv /\ [Next]_vars => [Alarm!ANext]_Alarm!avars
<1> SUFFICES ASSUME IInv, [Next]_vars
             PROVE  Alarm!ANext \/ UNCHANGED Alarm!avars
    OBVIOUS
<1>1. ASSUME NEW t \in Threads, NEW h \in Handles, NEW d \in Delays,
             ArmTimer(t, h, d)
      PROVE  Alarm!ANext
    BY <1>1, ArmSets DEF Alarm!ANext
<1>2. ASSUME NEW t \in Threads, HandleStep(t)
      PROVE  Alarm!ANext \/ UNCHANGED Alarm!avars
    BY <1>2, ReleaseCallsOff DEF Alarm!ANext
<1>3. ASSUME NEW t \in Threads, FireCollect(t) PROVE Alarm!ANext
    BY <1>3, CollectTakesDue DEF Alarm!ANext
<1>4. ASSUME NEW t \in Threads, FirePost(t) PROVE Alarm!ANext
    BY <1>4, PostRings DEF Alarm!ANext
<1>5. ASSUME NEW t \in Threads, Clear(t) PROVE Alarm!ANext
    BY <1>5, ClearCallsOff DEF Alarm!ANext
<1>6. ASSUME NEW t \in Threads, Bind(t) PROVE UNCHANGED Alarm!avars
    BY <1>6 DEF Bind, Alarm!avars, AlarmsWaiting, AlarmsTaken, AlarmsOf, LiveEntries
<1>7. CASE Tick
    <2>1. now' > now
        BY <1>7 DEF IInv, TypeOK, Tick
    <2> QED
        BY <1>7, <2>1 DEF Tick, Alarm!ANext, Alarm!Advance, AlarmsWaiting, AlarmsTaken,
                AlarmsOf, LiveEntries
<1>8. CASE UNCHANGED vars
    BY <1>8 DEF vars, Alarm!avars, AlarmsWaiting, AlarmsTaken, AlarmsOf, LiveEntries
<1> QED
    BY <1>1, <1>2, <1>3, <1>4, <1>5, <1>6, <1>7, <1>8 DEF Next, HandleStep

\* For any threads, handles, delays and armings: the heap with its tombstones,
\* the live numbers and the two phases of firing keep what a timer service
\* promises.  No timer is posted twice, early, or after it was cancelled while
\* it waited, and fire_due() leaves nothing behind that is due.
THEOREM ServiceImplementsAlarms == Spec => ImplementsAlarms
<1>1. Init => Alarm!AInit
    BY DEF Init, Alarm!AInit, AlarmsWaiting, AlarmsTaken, AlarmsOf, LiveEntries
<1> QED
    BY <1>1, AlarmStep, Invariant, PTL
       DEF Spec, ImplementsAlarms, Alarm!ASpec
=============================================================================
