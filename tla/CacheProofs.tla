----------------------------- MODULE CacheProofs -----------------------------
(***************************************************************************)
(* Theorems about Cache, for all keys, values, handles and pool sizes: the *)
(* pool's books, who owns which slot, what subscribers know, and that no   *)
(* assertion but the one on the pool's capacity can fail.                  *)
(*                                                                         *)
(* The books rest on one fact: subscriptions are stamped in order, and the *)
(* cells of order_ hold them in that order (PoolBalanced).  So no slot is  *)
(* in two cells, and a full array of cells names every slot.               *)
(***************************************************************************)
EXTENDS Cache, TLAPS, FiniteSetTheorems, SequenceTheorems, WellFoundedInduction

Cells == 0..(numActive - 1)

\* What the cells name are slots, and no stamp is of the future.
CellsAreSlots == \A i \in Cells : order[i] \in Slots
StampsArePast == \A s \in Slots : stamp[s] <= subscribed

\* The pool, without its handles.
Pool == TypeOK /\ CellsAreSlots /\ StampsArePast /\ PoolBalanced

-----------------------------------------------------------------------------
(***************************************************************************)
(* Operators.                                                              *)
(***************************************************************************)

\* A slot that was never given out is not active.
LEMMA FreeIsFree == Free \in Subscriber /\ ~Free.active
BY DEF Free, Subscriber

\* find_free_slot() finds the lowest slot that is free.
LEMMA FreeSlotIsFree ==
    ASSUME FreeSlots # {}
    PROVE  FreeSlot \in Slots /\ ~sub[FreeSlot].active
<1>1. FreeSlots \subseteq Nat
    BY CacheBoundsAreNat DEF FreeSlots, Slots
<1>2. PICK d \in FreeSlots : \A e \in FreeSlots : <<e, d>> \notin OpToRel(<, Nat)
    BY <1>1, WFMin, NatLessThanWellFounded, Zenon
<1>3. d \in Nat /\ \A e \in FreeSlots : e \in Nat
    BY <1>1
<1>4. \A e \in FreeSlots : ~(e < d)
    BY <1>2, <1>3, Zenon DEF OpToRel
<1>5. \A e \in FreeSlots : d <= e
    BY <1>3, <1>4
<1>6. FreeSlot \in FreeSlots
    BY <1>5, Zenon DEF FreeSlot
<1> QED
    BY <1>6 DEF FreeSlots

\* No slot is in two cells.
LEMMA CellsDiffer ==
    ASSUME Pool, NEW i \in Cells, NEW j \in Cells, order[i] = order[j]
    PROVE  i = j
<1>1. i \in Int /\ j \in Int /\ order[i] \in Slots
    BY DEF Cells, Pool, CellsAreSlots
<1>2. stamp[order[i]] \in Nat
    BY <1>1 DEF Pool, TypeOK
<1>3. ~(i < j) /\ ~(j < i)
    BY <1>2 DEF Pool, PoolBalanced, Cells
<1> QED
    BY <1>1, <1>3

\* So a pool that counts kMaxSubscriptions subscriptions has no free slot.
LEMMA FullPoolIsAllActive ==
    ASSUME Pool, numActive >= MaxSubs
    PROVE  \A s \in Slots : sub[s].active
<1>1. numActive = MaxSubs /\ Cells = Slots
    BY CacheBoundsAreNat DEF Pool, TypeOK, Cells, Slots
<1>2. order \in [Slots -> Slots]
    BY <1>1 DEF Pool, TypeOK, CellsAreSlots
<1>3. order \in Injection(Slots, Slots)
    BY <1>1, <1>2, CellsDiffer DEF Injection, IsInjective
<1>4. IsFiniteSet(Slots)
    BY FS_Interval, CacheBoundsAreNat DEF Slots
<1>5. order \in Surjection(Slots, Slots)
    BY <1>3, <1>4, FS_Injection
<1>6. \A s \in Slots : \E i \in Slots : order[i] = s
    BY <1>5 DEF Surjection
<1>7. \A s \in Slots : s \in Visited
    BY <1>1, <1>6 DEF Visited, Cells
<1> QED
    BY <1>7, Zenon DEF Pool, PoolBalanced

-----------------------------------------------------------------------------
(***************************************************************************)
(* What release_slot() and subscribe() do to the pool.                     *)
(***************************************************************************)

\* An active slot is in one cell, and the cells behind it move up.
LEMMA ReleaseEffect ==
    ASSUME Pool, NEW idx \in Slots, sub[idx].active, ReleaseSlot(idx)
    PROVE  /\ \E p \in Cells :
                 /\ order[p] = idx
                 /\ \A i \in 0..(numActive - 2) :
                       order'[i] = IF p <= i THEN order[i + 1] ELSE order[i]
           /\ numActive' = numActive - 1 /\ numActive' \in 0..MaxSubs
           /\ order' \in [Slots -> Nat]
           /\ sub' \in [Slots -> Subscriber]
           /\ ~sub'[idx].active
           /\ \A s \in Slots \ {idx} : sub'[s] = sub[s]
           /\ UNCHANGED faulted
<1>1. numActive \in Nat /\ numActive <= MaxSubs /\ MaxSubs \in Nat
    BY CacheBoundsAreNat DEF Pool, TypeOK
<1>2. PICK p \in Cells : order[p] = idx
    BY Zenon DEF Pool, PoolBalanced, Visited, Cells
<1>3. OrderPos(idx) = {p}
    <2>1. p \in OrderPos(idx)
        BY <1>2 DEF OrderPos, Cells
    <2>2. \A i \in OrderPos(idx) : i = p
        BY <1>2, CellsDiffer DEF OrderPos, Cells
    <2> QED
        BY <2>1, <2>2
<1>4. Position(idx) = p
    <2>1. p <= p
        BY <1>2 DEF Cells
    <2> QED
        BY <1>3, <2>1, Zenon DEF Position
<1>5. /\ sub' = [sub EXCEPT ![idx].active = FALSE]
      /\ order' = Compacted(idx)
      /\ numActive' = numActive - 1
      /\ UNCHANGED faulted
    BY <1>3, Zenon DEF ReleaseSlot
<1>6. order' = [i \in Slots |-> IF p <= i /\ i < numActive - 1
                                THEN order[i + 1] ELSE order[i]]
    BY <1>4, <1>5 DEF Compacted
<1>7. p \in Nat /\ 0 <= p /\ p < numActive
    BY <1>1, <1>2 DEF Cells
<1>8. order' \in [Slots -> Nat]
    <2>1. \A i \in Slots : i < numActive - 1 => i + 1 \in Slots
        BY <1>1 DEF Slots
    <2>2. \A i \in Slots : order[i] \in Nat
        BY DEF Pool, TypeOK
    <2> QED
        BY <1>6, <2>1, <2>2
<1>9. \A i \in 0..(numActive - 2) :
          order'[i] = IF p <= i THEN order[i + 1] ELSE order[i]
    <2>1. \A i \in 0..(numActive - 2) : i \in Slots /\ i < numActive - 1
        BY <1>1 DEF Slots
    <2> QED
        BY <1>6, <2>1
<1>10. /\ sub'[idx] = [sub[idx] EXCEPT !.active = FALSE]
       /\ \A s \in Slots \ {idx} : sub'[s] = sub[s]
       /\ sub' \in [Slots -> Subscriber]
    <2>1. sub \in [Slots -> Subscriber] /\ sub[idx] \in Subscriber
        BY DEF Pool, TypeOK
    <2>2. [sub[idx] EXCEPT !.active = FALSE] \in Subscriber
        BY <2>1 DEF Subscriber
    <2>3. /\ sub'[idx] = [sub[idx] EXCEPT !.active = FALSE]
          /\ \A s \in Slots \ {idx} : sub'[s] = sub[s]
          /\ sub' = [s \in Slots |-> sub'[s]]
        BY <1>5, <2>1
    <2>4. \A s \in Slots : sub'[s] \in Subscriber
        <3>1. ASSUME NEW s \in Slots, s # idx PROVE sub'[s] \in Subscriber
            BY <2>1, <2>3, <3>1
        <3>2. sub'[idx] \in Subscriber
            BY <2>2, <2>3, Zenon
        <3> QED
            BY <3>1, <3>2
    <2>5. sub' \in [Slots -> Subscriber]
        BY <2>3, <2>4, Zenon
    <2> QED
        BY <2>3, <2>5, Zenon
<1>11. ~sub'[idx].active
    <2>1. sub[idx] \in Subscriber
        BY DEF Pool, TypeOK
    <2> QED
        BY <1>10, <2>1 DEF Subscriber
<1> QED
    BY <1>1, <1>2, <1>5, <1>7, <1>8, <1>9, <1>10, <1>11

\* What subscribe() does to a pool with room.
LEMMA SubscribeEffect ==
    ASSUME Pool, NEW h \in Handles, NEW k \in Keys, NEW m \in Modules,
           Subscribe(h, k, m), numActive < MaxSubs, FreeSlots # {}
    PROVE  \E s \in Slots :
              /\ ~sub[s].active
              /\ sub' = [sub EXCEPT ![s] = [key |-> k, module |-> m, active |-> TRUE]]
              /\ order' = [order EXCEPT ![numActive] = s]
              /\ numActive' = numActive + 1
              /\ handle' = [handle EXCEPT ![h] = s]
              /\ stamp' = [stamp EXCEPT ![s] = subscribed + 1]
              /\ subscribed' = subscribed + 1
              /\ behind' = [behind EXCEPT ![s] = About(m, k) # {}]
              /\ knows' = [knows EXCEPT ![m][k] = value[k]]
              /\ UNCHANGED <<value, fan, queue, open, faulted, writes>>
<1>1. ~(numActive >= MaxSubs \/ FreeSlots = {})
    BY CacheBoundsAreNat DEF Pool, TypeOK
<1>2. FreeSlot \in Slots /\ ~sub[FreeSlot].active
    BY FreeSlotIsFree
<1>3. /\ sub' = [sub EXCEPT ![FreeSlot] = [key |-> k, module |-> m, active |-> TRUE]]
      /\ order' = [order EXCEPT ![numActive] = FreeSlot]
      /\ numActive' = numActive + 1
      /\ handle' = [handle EXCEPT ![h] = FreeSlot]
      /\ stamp' = [stamp EXCEPT ![FreeSlot] = subscribed + 1]
      /\ subscribed' = subscribed + 1
      /\ behind' = [behind EXCEPT ![FreeSlot] = About(m, k) # {}]
      /\ knows' = [knows EXCEPT ![m][k] = value[k]]
      /\ UNCHANGED <<value, fan, queue, open, faulted, writes>>
    BY <1>1, Zenon DEF Subscribe
<1> QED
    BY <1>2, <1>3, Zenon

\* A release leaves the others in their order.
LEMMA ReleaseKeepsPool ==
    ASSUME Pool, NEW idx \in Slots, sub[idx].active, ReleaseSlot(idx),
           UNCHANGED <<stamp, subscribed>>
    PROVE  CellsAreSlots' /\ StampsArePast' /\ PoolBalanced'
<1>1. PICK p \in Cells :
          /\ order[p] = idx
          /\ \A i \in 0..(numActive - 2) :
                order'[i] = IF p <= i THEN order[i + 1] ELSE order[i]
    BY ReleaseEffect
<1>2. /\ numActive' = numActive - 1
      /\ ~sub'[idx].active /\ \A s \in Slots \ {idx} : sub'[s] = sub[s]
    BY ReleaseEffect
<1>3. numActive \in Nat /\ p \in Nat /\ p < numActive
    BY <1>1, CacheBoundsAreNat DEF Pool, TypeOK, Cells
<1>4. /\ \A i : i \in Cells <=> i \in Nat /\ i < numActive
      /\ \A i : i \in Cells' <=> i \in Nat /\ i + 1 < numActive
      /\ Cells' = 0..(numActive - 2)
    BY <1>2, <1>3 DEF Cells
\* Where the content of cell i of the new array was.
<1> DEFINE Was(i) == IF p <= i THEN i + 1 ELSE i
<1>5. \A i \in Cells' : Was(i) \in Cells \ {p} /\ order'[i] = order[Was(i)]
    BY <1>1, <1>3, <1>4
<1>6. \A j \in Cells \ {p} : \E i \in Cells' : Was(i) = j
    <2>1. ASSUME NEW j \in Cells, j < p PROVE j \in Cells' /\ Was(j) = j
        BY <1>3, <1>4, <2>1
    <2>2. ASSUME NEW j \in Cells, p < j
          PROVE  j - 1 \in Cells' /\ Was(j - 1) = j
        BY <1>3, <1>4, <2>2
    <2>3. \A j \in Cells \ {p} : j < p \/ p < j
        BY <1>3 DEF Cells
    <2> QED
        BY <2>1, <2>2, <2>3
<1>7. \A i, j \in Cells' : i < j => Was(i) < Was(j)
    BY <1>3, <1>4
<1>8. Visited' = Visited \ {idx}
    <2>1. \A i \in Cells \ {p} : order[i] # idx
        BY <1>1, CellsDiffer
    <2>2. Visited = {order[i] : i \in Cells} /\ Visited' = {order'[i] : i \in Cells'}
        BY <1>2 DEF Visited, Cells
    <2>3. Visited' \subseteq Visited \ {idx}
        BY <1>5, <2>1, <2>2
    <2>4. Visited \ {idx} \subseteq Visited'
        BY <1>1, <1>5, <1>6, <2>2
    <2> QED
        BY <2>3, <2>4
<1> HIDE DEF Was
<1>9. CellsAreSlots'
    BY <1>5 DEF Pool, CellsAreSlots
<1>10. StampsArePast'
    BY DEF Pool, StampsArePast
<1>11. \A s \in Slots : sub'[s].active <=> s \in Visited'
    <2>1. ASSUME NEW s \in Slots, s # idx
          PROVE  sub'[s].active <=> s \in Visited'
        <3>1. sub'[s] = sub[s] /\ (sub[s].active <=> s \in Visited)
            BY <1>2, <2>1, Zenon DEF Pool, PoolBalanced
        <3>2. s \in Visited' <=> s \in Visited
            BY <1>8, <2>1
        <3> QED
            BY <3>1, <3>2, Zenon
    <2>2. idx \notin Visited'
        BY <1>8
    <2> QED
        BY <1>2, <2>1, <2>2, Zenon
<1>12. \A i, j \in Cells' : i < j => stamp[order'[i]] < stamp[order'[j]]
    BY <1>5, <1>7 DEF Pool, PoolBalanced, Cells
<1>13. PoolBalanced'
    <2>1. \A i, j \in 0..(numActive' - 1) : i < j => stamp'[order'[i]] < stamp'[order'[j]]
        BY <1>12 DEF Cells
    <2> QED
        BY <1>11, <2>1, Zenon DEF PoolBalanced
<1> QED
    BY <1>9, <1>10, <1>13

\* A new subscription comes last, in its slot's cell and by its stamp.
LEMMA SubscribeKeepsPool ==
    ASSUME Pool, NEW s \in Slots, ~sub[s].active, numActive < MaxSubs,
           NEW k \in Keys, NEW m \in Modules,
           sub' = [sub EXCEPT ![s] = [key |-> k, module |-> m, active |-> TRUE]],
           order' = [order EXCEPT ![numActive] = s],
           numActive' = numActive + 1,
           stamp' = [stamp EXCEPT ![s] = subscribed + 1],
           subscribed' = subscribed + 1
    PROVE  CellsAreSlots' /\ StampsArePast' /\ PoolBalanced'
<1>1. /\ numActive \in Nat /\ numActive \in Slots /\ subscribed \in Nat
      /\ \A r \in Slots : stamp[r] \in Nat
    BY CacheBoundsAreNat DEF Pool, TypeOK, Slots
<1>2. Cells' = Cells \cup {numActive} /\ numActive \notin Cells
    BY <1>1 DEF Cells
<1>3. order'[numActive] = s /\ \A i \in Cells : order'[i] = order[i]
    <2>1. Cells \subseteq Slots
        BY <1>1, CacheBoundsAreNat DEF Cells, Slots
    <2> QED
        BY <1>1, <1>2, <2>1 DEF Pool, TypeOK
<1>4. s \notin Visited
    BY Zenon DEF Pool, PoolBalanced
<1>5. Visited' = Visited \cup {s}
    <2>1. Visited = {order[i] : i \in Cells} /\ Visited' = {order'[i] : i \in Cells'}
        BY DEF Visited, Cells
    <2> QED
        BY <1>2, <1>3, <2>1
<1>6. CellsAreSlots'
    BY <1>2, <1>3 DEF Pool, CellsAreSlots
<1>7. stamp'[s] = subscribed + 1 /\ \A r \in Slots \ {s} : stamp'[r] = stamp[r]
    BY DEF Pool, TypeOK
<1>8. StampsArePast'
    BY <1>1, <1>7 DEF Pool, StampsArePast
<1>9. \A r \in Slots : sub'[r].active <=> r \in Visited'
    <2>1. /\ sub'[s] = [key |-> k, module |-> m, active |-> TRUE]
          /\ \A r \in Slots \ {s} : sub'[r] = sub[r]
        BY DEF Pool, TypeOK
    <2>2. sub'[s].active
        BY <2>1
    <2>3. \A r \in Slots \ {s} : sub'[r].active <=> r \in Visited
        BY <2>1, Zenon DEF Pool, PoolBalanced
    <2> QED
        BY <1>5, <2>2, <2>3, Zenon
<1>10. ASSUME NEW i \in Cells', NEW j \in Cells', i < j
       PROVE  stamp'[order'[i]] < stamp'[order'[j]]
    <2>1. i \in Cells /\ order'[i] = order[i] /\ order[i] \in Slots \ {s}
        <3>1. i \in Cells
            BY <1>1, <1>2, <1>10 DEF Cells
        <3>2. order[i] \in Slots /\ order[i] \in Visited
            BY <3>1 DEF Pool, CellsAreSlots, Visited, Cells
        <3> QED
            BY <1>3, <1>4, <3>1, <3>2
    <2>2. CASE j = numActive
        <3>1. stamp[order[i]] \in Nat /\ stamp[order[i]] <= subscribed
            BY <1>1, <2>1 DEF Pool, StampsArePast
        <3>2. stamp'[order'[i]] = stamp[order[i]] /\ stamp'[order'[j]] = subscribed + 1
            BY <1>3, <1>7, <2>1, <2>2
        <3> QED
            BY <1>1, <3>1, <3>2
    <2>3. CASE j \in Cells
        <3>1. order'[j] = order[j] /\ order[j] \in Slots \ {s}
            BY <1>3, <1>4, <2>3 DEF Pool, CellsAreSlots, Visited, Cells
        <3>2. stamp[order[i]] < stamp[order[j]]
            BY <1>10, <2>1, <2>3, Zenon DEF Pool, PoolBalanced, Cells
        <3> QED
            BY <1>7, <2>1, <3>1, <3>2
    <2> QED
        BY <1>2, <2>2, <2>3
<1>11. PoolBalanced'
    <2>1. \A i, j \in 0..(numActive' - 1) : i < j => stamp'[order'[i]] < stamp'[order'[j]]
        BY <1>10 DEF Cells
    <2> QED
        BY <1>9, <2>1, Zenon DEF PoolBalanced
<1> QED
    BY <1>6, <1>8, <1>11

-----------------------------------------------------------------------------
(***************************************************************************)
(* The inductive invariant.                                                *)
(***************************************************************************)

\* An active slot has the ids it was given.
ActiveHaveIds ==
    \A s \in Slots : sub[s].active => sub[s].key \in Keys /\ sub[s].module \in Modules

\* A fan-out goes from the first cell to the last, with a value to announce,
\* and without a fault.
FanInOrder ==
    /\ faulted => announcing = NoKey
    /\ snapshot = IF announcing = NoKey THEN 0 ELSE numActive
    /\ announcing # NoKey => value[announcing] \in Values

\* Who is informed: the subscribers of the keys that are not being announced,
\* and those the fan-out has come past.
Served ==
    open =>
        /\ \A s \in Slots : sub[s].active /\ ~behind[s] /\ sub[s].key # announcing
              => Informed(sub[s].module, sub[s].key)
        /\ \A i \in 0..(cell - 1) : sub[order[i]].key = announcing
              => Informed(sub[order[i]].module, announcing)

Knowledge == ActiveHaveIds /\ FanInOrder /\ Served

\* The books, the owners, and what subscribers were told, together.
IInv == Pool /\ HandlesOwnSlots /\ Knowledge

\* When no fan-out is under way, that is what subscribers are promised.
LEMMA KnowledgeIsEnough == Pool /\ Knowledge => SubscribersKnowTheValue
BY NoKeyIsNoKey DEF Knowledge, ActiveHaveIds, Served, SubscribersKnowTheValue

\* A new envelope informs its module, and leaves the others as they were.
LEMMA NewsInforms ==
    ASSUME TypeOK, NEW e \in KeyChanged, queue' = Append(queue, e),
           UNCHANGED <<value, knows>>, e.value = value[e.key],
           NEW m \in Modules, NEW k \in Keys,
           Informed(m, k) \/ (e.to = m /\ e.key = k)
    PROVE  Informed(m, k)'
<1>1. /\ queue \in Seq(KeyChanged) /\ Len(queue) \in Nat
      /\ DOMAIN queue = 1..Len(queue)
    BY DEF TypeOK
<1>2. /\ DOMAIN queue' = DOMAIN queue \cup {Len(queue) + 1}
      /\ \A i \in DOMAIN queue : queue'[i] = queue[i] /\ i <= Len(queue)
      /\ queue'[Len(queue) + 1] = e
    BY <1>1
<1>3. CASE e.to = m /\ e.key = k
    <2>1. Len(queue) + 1 \in About(m, k)'
        BY <1>2, <1>3 DEF About
    <2>2. \A j \in About(m, k)' : j <= Len(queue) + 1
        BY <1>1, <1>2 DEF About
    <2> QED
        BY <1>2, <1>3, <2>1, <2>2 DEF Informed
<1>4. CASE ~(e.to = m /\ e.key = k)
    <2>1. About(m, k)' = About(m, k)
        BY <1>1, <1>2, <1>4 DEF About
    <2>2. \A i \in About(m, k) : queue'[i] = queue[i]
        BY <1>2 DEF About
    <2> QED
        BY <1>4, <2>1, <2>2 DEF Informed
<1> QED
    BY <1>3, <1>4

\* An envelope that is delivered takes what it says from the queue to the
\* module.
LEMMA DeliveryInforms ==
    ASSUME TypeOK, Deliver, NEW m \in Modules, NEW k \in Keys, Informed(m, k)
    PROVE  Informed(m, k)'
<1> DEFINE e == queue[1]
<1>1. /\ queue \in Seq(KeyChanged) /\ queue # <<>> /\ Head(queue) = e
      /\ queue' = Tail(queue) /\ value' = value
      /\ knows' = [knows EXCEPT ![e.to][e.key] = e.value]
    <2>1. /\ queue \in Seq(KeyChanged) /\ queue # <<>>
          /\ queue' = Tail(queue) /\ value' = value
          /\ knows' = [knows EXCEPT ![Head(queue).to][Head(queue).key] = Head(queue).value]
        BY Zenon DEF TypeOK, Deliver
    <2>2. Head(queue) = e
        BY <2>1
    <2> QED
        BY <2>1, <2>2, Zenon
<1>2. /\ e \in KeyChanged /\ 1 \in DOMAIN queue
      /\ \A i \in DOMAIN queue' :
            i \in Nat /\ i + 1 \in DOMAIN queue /\ i + 1 # 1 /\ queue'[i] = queue[i + 1]
      /\ \A i \in DOMAIN queue : i \in Nat /\ (i # 1 => i - 1 \in DOMAIN queue')
    BY <1>1
<1> HIDE DEF e
<1>3. /\ \A i \in About(m, k)' : i \in Nat /\ i + 1 \in About(m, k) /\ i + 1 # 1
                               /\ queue'[i] = queue[i + 1]
      /\ \A i \in About(m, k) : i \in Nat /\ (i # 1 => i - 1 \in About(m, k)')
    <2>1. \A i \in DOMAIN queue : i # 1 => queue'[i - 1] = queue[i]
        BY <1>2
    <2> QED
        BY <1>2, <2>1 DEF About
<1>4. CASE About(m, k) = {}
    <2>1. ~(e.to = m /\ e.key = k)
        BY <1>2, <1>4 DEF About, e
    <2>2. knows'[m][k] = knows[m][k]
        BY <1>1, <2>1 DEF TypeOK
    <2>3. About(m, k)' = {}
        BY <1>3, <1>4
    <2> QED
        BY <1>1, <1>4, <2>2, <2>3 DEF Informed
<1>5. CASE About(m, k) # {}
    <2>1. PICK i \in About(m, k) :
              queue[i].value = value[k] /\ \A j \in About(m, k) : j <= i
        BY <1>5 DEF Informed
    <2>2. CASE i = 1
        <3>1. e.to = m /\ e.key = k /\ e.value = value[k]
            BY <2>1, <2>2 DEF About, e
        <3>2. knows'[m][k] = value[k]
            BY <1>1, <3>1 DEF TypeOK
        <3>3. About(m, k)' = {}
            BY <1>3, <2>1, <2>2
        <3> QED
            BY <1>1, <3>2, <3>3 DEF Informed
    <2>3. CASE i # 1
        <3>1. i - 1 \in About(m, k)' /\ queue'[i - 1] = queue[i]
            BY <1>3, <2>1, <2>3
        <3>2. \A j \in About(m, k)' : j <= i - 1
            BY <1>3, <2>1
        <3> QED
            BY <1>1, <2>1, <3>1, <3>2 DEF Informed
    <2> QED
        BY <2>2, <2>3
<1> QED
    BY <1>4, <1>5

\* release() on what a handle holds does not fault, and frees that slot only.
LEMMA ReleaseWorks ==
    ASSUME IInv, NEW h \in Handles, Release(handle[h]),
           UNCHANGED <<stamp, subscribed>>
    PROVE  /\ CellsAreSlots' /\ StampsArePast' /\ PoolBalanced'
           /\ numActive' \in 0..MaxSubs /\ order' \in [Slots -> Nat]
           /\ sub' \in [Slots -> Subscriber]
           /\ \A s \in Slots : s # handle[h] => sub'[s] = sub[s]
           /\ handle[h] # NoSub => ~sub'[handle[h]].active
           /\ UNCHANGED faulted
<1>0. Pool /\ TypeOK /\ CellsAreSlots /\ StampsArePast /\ PoolBalanced
    BY DEF IInv, Pool
<1>1. CASE handle[h] = NoSub
    <2>1. UNCHANGED <<sub, order, numActive, faulted>>
        BY <1>1 DEF Release, books
    <2>2. /\ numActive \in 0..MaxSubs /\ order \in [Slots -> Nat]
          /\ sub \in [Slots -> Subscriber]
        BY <1>0 DEF TypeOK
    <2>3. CellsAreSlots' /\ StampsArePast' /\ PoolBalanced'
        BY <1>0, <2>1 DEF CellsAreSlots, StampsArePast, PoolBalanced, Cells, Visited
    <2> QED
        BY <1>1, <2>1, <2>2, <2>3, Zenon
<1>2. CASE handle[h] # NoSub
    <2>1. handle[h] \in Slots /\ ReleaseSlot(handle[h])
        BY <1>0, <1>2 DEF TypeOK, Release
    <2>2. sub[handle[h]].active
        BY <1>2, Zenon DEF IInv, HandlesOwnSlots
    <2>3. CellsAreSlots' /\ StampsArePast' /\ PoolBalanced'
        BY <1>0, <2>1, <2>2, ReleaseKeepsPool
    <2>4. /\ numActive' \in 0..MaxSubs /\ order' \in [Slots -> Nat]
          /\ sub' \in [Slots -> Subscriber]
          /\ ~sub'[handle[h]].active
          /\ \A s \in Slots \ {handle[h]} : sub'[s] = sub[s]
          /\ UNCHANGED faulted
        BY <1>0, <2>1, <2>2, ReleaseEffect, Zenon
    <2> QED
        BY <2>3, <2>4
<1> QED
    BY <1>1, <1>2

\* A write begins its fan-out: no other key's subscriber is concerned.
LEMMA SetHolds ==
    ASSUME IInv, NEW k \in Keys, NEW v \in Values, Set(k, v)
    PROVE  IInv'
<1>0. /\ TypeOK /\ CellsAreSlots /\ StampsArePast /\ PoolBalanced
      /\ HandlesOwnSlots /\ ActiveHaveIds /\ FanInOrder /\ Served
    BY DEF IInv, Pool, Knowledge
<1>1. /\ value' = [value EXCEPT ![k] = v] /\ announcing = NoKey /\ ~faulted
      /\ announcing' = k /\ cell' = 0 /\ snapshot' = numActive
      /\ writes' = writes + 1
      /\ UNCHANGED <<sub, order, numActive, handle, queue, open, faulted, subscribed,
                     stamp, behind, knows>>
    BY DEF Set, Snapshot, Idle, books
<1>2. TypeOK'
    <2>1. /\ value' \in [Keys -> Values \cup {Unset}]
          /\ announcing' \in Keys \cup {NoKey}
          /\ writes' \in Nat
        BY <1>0, <1>1 DEF TypeOK
    <2>2. cell' \in 0..snapshot' /\ snapshot' \in 0..numActive'
        BY <1>0, <1>1 DEF TypeOK
    <2> QED
        BY <1>0, <1>1, <2>1, <2>2, Zenon DEF TypeOK
<1>3. CellsAreSlots' /\ StampsArePast' /\ PoolBalanced' /\ HandlesOwnSlots'
      /\ ActiveHaveIds'
    BY <1>0, <1>1 DEF CellsAreSlots, StampsArePast, PoolBalanced, Cells, Visited,
                      HandlesOwnSlots, ActiveHaveIds
<1>4. FanInOrder'
    BY <1>0, <1>1, NoKeyIsNoKey DEF TypeOK, FanInOrder
<1>5. Served'
    <2> SUFFICES ASSUME open, NEW s \in Slots, sub[s].active, ~behind[s], sub[s].key # k
                 PROVE  Informed(sub[s].module, sub[s].key)'
        BY <1>1 DEF Served
    <2>1. sub[s].key \in Keys /\ sub[s].module \in Modules
        BY <1>0, Zenon DEF ActiveHaveIds
    <2>2. Informed(sub[s].module, sub[s].key)
        BY <1>0, <1>1, <2>1, NoKeyIsNoKey DEF Served
    <2>3. value'[sub[s].key] = value[sub[s].key]
        BY <1>0, <1>1, <2>1 DEF TypeOK
    <2> QED
        BY <1>1, <2>2, <2>3 DEF Informed, About
<1> QED
    BY <1>2, <1>3, <1>4, <1>5 DEF IInv, Pool, Knowledge

\* One cell further, one module more is informed.
LEMMA FanOutHolds ==
    ASSUME IInv, FanOut
    PROVE  IInv'
<1> DEFINE s == order[cell]
           e == [to |-> sub[s].module, key |-> announcing, value |-> value[announcing]]
<1>0. /\ TypeOK /\ CellsAreSlots /\ StampsArePast /\ PoolBalanced
      /\ HandlesOwnSlots /\ ActiveHaveIds /\ FanInOrder /\ Served
    BY DEF IInv, Pool, Knowledge
<1>1. /\ announcing # NoKey /\ cell < snapshot /\ cell' = cell + 1
      /\ UNCHANGED <<value, sub, order, numActive, handle, announcing, snapshot,
                     open, faulted, writes, subscribed, stamp, knows>>
    BY DEF FanOut, books
<1>2. /\ snapshot = numActive /\ numActive \in Nat /\ cell \in Nat
      /\ announcing \in Keys /\ value[announcing] \in Values
    BY <1>0, <1>1, CacheBoundsAreNat DEF FanInOrder, TypeOK
<1>3. s \in Slots /\ sub[s].active /\ sub[s].module \in Modules
    <2>1. cell \in 0..(numActive - 1)
        BY <1>1, <1>2
    <2>2. s \in Slots /\ s \in Visited
        BY <1>0, <2>1 DEF CellsAreSlots, Cells, Visited
    <2> QED
        BY <1>0, <2>2, Zenon DEF PoolBalanced, ActiveHaveIds
<1>4. e \in KeyChanged /\ e.to = sub[s].module /\ e.key = announcing
      /\ e.value = value[e.key]
    BY <1>2, <1>3 DEF KeyChanged
<1>5. CellsAreSlots' /\ StampsArePast' /\ PoolBalanced' /\ HandlesOwnSlots'
      /\ ActiveHaveIds' /\ FanInOrder'
    BY <1>0, <1>1 DEF CellsAreSlots, StampsArePast, PoolBalanced, Cells, Visited,
                      HandlesOwnSlots, ActiveHaveIds, FanInOrder
<1>6. cell' \in 0..snapshot'
    BY <1>0, <1>1, <1>2
<1>7. CASE open /\ sub[s].key = announcing
    <2>1. /\ queue' = Append(queue, e) /\ behind' = [behind EXCEPT ![s] = FALSE]
        BY <1>7 DEF FanOut
    <2> HIDE DEF e
    <2>2. queue' \in Seq(KeyChanged) /\ behind' \in [Slots -> BOOLEAN]
        BY <1>0, <1>4, <2>1, AppendProperties DEF TypeOK
    <2>3. TypeOK'
        BY <1>0, <1>1, <1>6, <2>2, Zenon DEF TypeOK
    <2>4. \A m \in Modules, k \in Keys :
              Informed(m, k) \/ (m = sub[s].module /\ k = announcing) => Informed(m, k)'
        BY <1>0, <1>1, <1>4, <2>1, NewsInforms
    <2>5. ASSUME NEW r \in Slots, sub[r].active, ~behind'[r], sub[r].key # announcing
          PROVE  Informed(sub[r].module, sub[r].key)'
        <3>1. r # s /\ ~behind[r]
            BY <1>0, <1>7, <2>1, <2>5 DEF TypeOK
        <3>2. sub[r].key \in Keys /\ sub[r].module \in Modules
            BY <1>0, <2>5, Zenon DEF ActiveHaveIds
        <3>3. Informed(sub[r].module, sub[r].key)
            BY <1>0, <1>7, <2>5, <3>1 DEF Served
        <3> QED
            BY <1>1, <2>4, <3>2, <3>3
    <2>6. ASSUME NEW i \in 0..cell, sub[order[i]].key = announcing
          PROVE  Informed(sub[order[i]].module, announcing)'
        <3>1. i \in 0..(numActive - 1)
            BY <1>1, <1>2
        <3>2. order[i] \in Slots /\ order[i] \in Visited
            BY <1>0, <3>1 DEF CellsAreSlots, Cells, Visited
        <3>3. sub[order[i]].module \in Modules
            BY <1>0, <3>2, Zenon DEF PoolBalanced, ActiveHaveIds
        <3>4. i # cell => i \in 0..(cell - 1)
            BY <1>2
        <3>5. Informed(sub[order[i]].module, announcing) \/ i = cell
            BY <1>0, <1>7, <2>6, <3>4 DEF Served
        <3> QED
            BY <1>1, <1>2, <2>4, <3>3, <3>5
    <2>7. Served'
        <3>1. cell' - 1 = cell
            BY <1>1, <1>2
        <3> QED
            BY <1>1, <2>5, <2>6, <3>1 DEF Served
    <2> QED
        BY <1>5, <2>3, <2>7 DEF IInv, Pool, Knowledge
<1>8. CASE ~(open /\ sub[s].key = announcing)
    <2>1. UNCHANGED <<queue, behind>>
        BY <1>8 DEF FanOut
    <2>2. TypeOK'
        BY <1>0, <1>1, <1>6, <2>1, Zenon DEF TypeOK
    <2>3. \A m, k : Informed(m, k)' <=> Informed(m, k)
        BY <1>1, <2>1 DEF Informed, About
    <2>4. Served'
        <3>1. cell' - 1 = cell /\ \A i \in 0..cell : i # cell => i \in 0..(cell - 1)
            BY <1>1, <1>2
        <3> QED
            BY <1>0, <1>1, <1>8, <2>1, <2>3, <3>1 DEF Served
    <2> QED
        BY <1>5, <2>2, <2>4 DEF IInv, Pool, Knowledge
<1> QED
    BY <1>7, <1>8

\* When set() returns, the fan-out has come past every active slot.
LEMMA SetEndHolds ==
    ASSUME IInv, SetEnd
    PROVE  IInv'
<1>0. /\ TypeOK /\ CellsAreSlots /\ StampsArePast /\ PoolBalanced
      /\ HandlesOwnSlots /\ ActiveHaveIds /\ FanInOrder /\ Served
    BY DEF IInv, Pool, Knowledge
<1>1. /\ announcing # NoKey /\ cell = snapshot
      /\ announcing' = NoKey /\ cell' = 0 /\ snapshot' = 0
      /\ UNCHANGED <<value, sub, order, numActive, handle, queue, open, faulted,
                     writes, subscribed, stamp, behind, knows>>
    BY DEF SetEnd, books
<1>2. TypeOK'
    <2>1. cell' \in 0..snapshot' /\ snapshot' \in 0..numActive'
          /\ announcing' \in Keys \cup {NoKey}
        BY <1>0, <1>1, CacheBoundsAreNat DEF TypeOK
    <2> QED
        BY <1>0, <1>1, <2>1, Zenon DEF TypeOK
<1>3. CellsAreSlots' /\ StampsArePast' /\ PoolBalanced' /\ HandlesOwnSlots'
      /\ ActiveHaveIds' /\ FanInOrder'
    BY <1>0, <1>1 DEF CellsAreSlots, StampsArePast, PoolBalanced, Cells, Visited,
                      HandlesOwnSlots, ActiveHaveIds, FanInOrder
<1>4. \A m, k : Informed(m, k)' <=> Informed(m, k)
    BY <1>1 DEF Informed, About
<1>5. Served'
    <2> SUFFICES ASSUME open, NEW s \in Slots, sub[s].active, ~behind[s]
                 PROVE  Informed(sub[s].module, sub[s].key)
        BY <1>1, <1>4 DEF Served
    <2>1. CASE sub[s].key # announcing
        BY <1>0, <2>1 DEF Served
    <2>2. CASE sub[s].key = announcing
        <3>1. s \in Visited
            BY <1>0, Zenon DEF PoolBalanced
        <3>2. PICK i \in 0..(numActive - 1) : order[i] = s
            BY <3>1 DEF Visited
        <3>3. cell = numActive
            BY <1>0, <1>1 DEF FanInOrder
        <3> QED
            BY <1>0, <2>2, <3>2, <3>3 DEF Served
    <2> QED
        BY <2>1, <2>2
<1> QED
    BY <1>2, <1>3, <1>5 DEF IInv, Pool, Knowledge

\* A delivery changes what one module knows to what was said last, or less.
LEMMA DeliverHolds ==
    ASSUME IInv, Deliver
    PROVE  IInv'
<1>0. /\ TypeOK /\ CellsAreSlots /\ StampsArePast /\ PoolBalanced
      /\ HandlesOwnSlots /\ ActiveHaveIds /\ FanInOrder /\ Served
    BY DEF IInv, Pool, Knowledge
<1>1. /\ announcing = NoKey /\ queue # <<>> /\ queue' = Tail(queue)
      /\ knows' = [knows EXCEPT ![Head(queue).to][Head(queue).key] = Head(queue).value]
      /\ UNCHANGED <<value, sub, order, numActive, handle, announcing, cell, snapshot,
                     open, faulted, writes, subscribed, stamp, behind>>
    BY DEF Deliver, Idle, books, fan
<1>2. TypeOK'
    <2>1. /\ queue' \in Seq(KeyChanged) /\ Head(queue) \in KeyChanged
        BY <1>0, <1>1, HeadTailProperties DEF TypeOK
    <2>2. knows' \in [Modules -> [Keys -> Values \cup {Unset}]]
        BY <1>0, <1>1, <2>1 DEF TypeOK, KeyChanged
    <2> QED
        BY <1>0, <1>1, <2>1, <2>2, Zenon DEF TypeOK
<1>3. CellsAreSlots' /\ StampsArePast' /\ PoolBalanced' /\ HandlesOwnSlots'
      /\ ActiveHaveIds' /\ FanInOrder'
    BY <1>0, <1>1 DEF CellsAreSlots, StampsArePast, PoolBalanced, Cells, Visited,
                      HandlesOwnSlots, ActiveHaveIds, FanInOrder
<1>4. Served'
    <2>1. cell = 0
        BY <1>0, <1>1 DEF FanInOrder, TypeOK
    <2> SUFFICES ASSUME open, NEW s \in Slots, sub[s].active, ~behind[s],
                        sub[s].key # announcing
                 PROVE  Informed(sub[s].module, sub[s].key)'
        BY <1>1, <2>1 DEF Served
    <2>2. sub[s].key \in Keys /\ sub[s].module \in Modules
        BY <1>0, Zenon DEF ActiveHaveIds
    <2>3. Informed(sub[s].module, sub[s].key)
        BY <1>0 DEF Served
    <2> QED
        BY <1>0, <1>1, <2>2, <2>3, DeliveryInforms
<1> QED
    BY <1>2, <1>3, <1>4 DEF IInv, Pool, Knowledge

\* A new subscriber has a slot and a handle of its own, and reads the value.
LEMMA SubscribeHolds ==
    ASSUME IInv, NEW h \in Handles, NEW k \in Keys, NEW m \in Modules,
           Subscribe(h, k, m)
    PROVE  IInv'
<1>0. /\ Pool /\ TypeOK /\ CellsAreSlots /\ StampsArePast /\ PoolBalanced
      /\ HandlesOwnSlots /\ ActiveHaveIds /\ FanInOrder /\ Served
    BY DEF IInv, Pool, Knowledge
<1>9. announcing = NoKey /\ snapshot = 0 /\ cell = 0
    BY <1>0 DEF Subscribe, Idle, FanInOrder, TypeOK
<1>1. CASE numActive >= MaxSubs \/ FreeSlots = {}
    <2>1. /\ faulted' = TRUE /\ subscribed' = subscribed + 1
          /\ UNCHANGED <<value, sub, order, numActive, handle, announcing, cell,
                         snapshot, queue, open, writes, stamp, behind, knows>>
        BY <1>1, Zenon DEF Subscribe, books, fan
    <2>2. subscribed' \in Nat /\ faulted' \in BOOLEAN
        BY <1>0, <2>1 DEF TypeOK
    <2>3. TypeOK'
        BY <1>0, <2>1, <2>2, Zenon DEF TypeOK
    <2>4. StampsArePast'
        BY <1>0, <2>1 DEF TypeOK, StampsArePast
    <2>5. CellsAreSlots' /\ PoolBalanced' /\ HandlesOwnSlots' /\ ActiveHaveIds'
          /\ FanInOrder'
        BY <1>0, <1>9, <2>1 DEF CellsAreSlots, PoolBalanced, Cells, Visited,
                          HandlesOwnSlots, ActiveHaveIds, FanInOrder
    <2>6. Served'
        BY <1>0, <2>1 DEF Served, Informed, About
    <2> QED
        BY <2>3, <2>4, <2>5, <2>6 DEF IInv, Pool, Knowledge
<1>2. CASE numActive < MaxSubs /\ FreeSlots # {}
    <2>1. PICK s \in Slots :
              /\ ~sub[s].active
              /\ sub' = [sub EXCEPT ![s] = [key |-> k, module |-> m, active |-> TRUE]]
              /\ order' = [order EXCEPT ![numActive] = s]
              /\ numActive' = numActive + 1
              /\ handle' = [handle EXCEPT ![h] = s]
              /\ stamp' = [stamp EXCEPT ![s] = subscribed + 1]
              /\ subscribed' = subscribed + 1
              /\ behind' = [behind EXCEPT ![s] = About(m, k) # {}]
              /\ knows' = [knows EXCEPT ![m][k] = value[k]]
              /\ UNCHANGED <<value, fan, queue, open, faulted, writes>>
        BY <1>0, <1>2, SubscribeEffect
    <2>2. CellsAreSlots' /\ StampsArePast' /\ PoolBalanced'
        BY <1>0, <1>2, <2>1, SubscribeKeepsPool
    <2>12. /\ announcing' = announcing /\ cell' = cell /\ snapshot' = snapshot
          /\ value' = value /\ queue' = queue /\ open' = open
        BY <2>1 DEF fan
    <2>3. TypeOK'
        <3>1. [key |-> k, module |-> m, active |-> TRUE] \in Subscriber
            BY DEF Subscriber
        <3>2. sub' \in [Slots -> Subscriber]
            BY <1>0, <2>1, <3>1 DEF TypeOK
        <3>3. order' \in [Slots -> Nat] /\ numActive' \in 0..MaxSubs
            BY <1>0, <1>2, <2>1, CacheBoundsAreNat DEF TypeOK, Slots
        <3>4. /\ handle' \in [Handles -> Slots \cup {NoSub}]
              /\ stamp' \in [Slots -> Nat]
              /\ subscribed' \in Nat
              /\ behind' \in [Slots -> BOOLEAN]
              /\ knows' \in [Modules -> [Keys -> Values \cup {Unset}]]
            BY <1>0, <2>1 DEF TypeOK
        <3>5. cell' \in 0..snapshot' /\ snapshot' \in 0..numActive'
            BY <1>0, <1>9, <2>12, <3>3
        <3> QED
            BY <1>0, <2>1, <2>12, <3>2, <3>3, <3>4, <3>5, Zenon DEF TypeOK
    <2>4. /\ sub'[s] = [key |-> k, module |-> m, active |-> TRUE]
          /\ \A r \in Slots \ {s} : sub'[r] = sub[r]
          /\ handle'[h] = s /\ \A g \in Handles \ {h} : handle'[g] = handle[g]
          /\ behind'[s] = (About(m, k) # {})
          /\ \A r \in Slots \ {s} : behind'[r] = behind[r]
        BY <1>0, <2>1 DEF TypeOK
    <2>5. s # NoSub /\ \A g \in Handles : handle[g] # s
        <3>1. s # NoSub
            BY NoSubIsNoSlot DEF Slots
        <3>2. \A g \in Handles : handle[g] = s => sub[s].active
            BY <1>0, <3>1, Zenon DEF HandlesOwnSlots
        <3> QED
            BY <2>1, <3>1, <3>2, Zenon
    <2>6. handle[h] = NoSub
        BY DEF Subscribe
    <2>7. HandlesOwnSlots'
        <3>1. sub'[s].active /\ sub'[s].key = k
            BY <2>4
        <3>2. \A g \in Handles : handle'[g] # NoSub => sub'[handle'[g]].active
            <4>1. ASSUME NEW g \in Handles \ {h}, handle[g] # NoSub
                  PROVE  sub'[handle'[g]].active
                <5>1. handle[g] \in Slots \ {s}
                    BY <1>0, <2>5, <4>1 DEF TypeOK
                <5>2. sub[handle[g]].active
                    BY <1>0, <4>1, Zenon DEF HandlesOwnSlots
                <5> QED
                    BY <2>4, <5>1, <5>2, Zenon
            <4> QED
                BY <2>4, <3>1, <4>1, Zenon
        <3>3. \A f, g \in Handles :
                  f # g /\ handle'[f] = handle'[g] => handle'[f] = NoSub
            <4>1. \A f, g \in Handles : f # g /\ handle[f] = handle[g] => handle[f] = NoSub
                BY <1>0, Zenon DEF HandlesOwnSlots
            <4> QED
                BY <2>4, <2>5, <4>1
        <3>4. \A r \in Slots : sub'[r].active => \E g \in Handles : handle'[g] = r
            <4>1. ASSUME NEW r \in Slots \ {s}, sub'[r].active
                  PROVE  \E g \in Handles : handle'[g] = r
                <5>1. PICK g \in Handles : handle[g] = r
                    BY <1>0, <2>4, <4>1, Zenon DEF HandlesOwnSlots
                <5>2. g # h
                    BY <2>6, <5>1, NoSubIsNoSlot DEF Slots
                <5> QED
                    BY <2>4, <5>1, <5>2
            <4> QED
                BY <2>4, <4>1, Zenon
        <3> QED
            BY <3>2, <3>3, <3>4, Zenon DEF HandlesOwnSlots
    <2>8. ActiveHaveIds' /\ FanInOrder'
        <3>1. \A r \in Slots : sub'[r].active => sub'[r].key \in Keys
                                               /\ sub'[r].module \in Modules
            BY <1>0, <2>4 DEF ActiveHaveIds
        <3> QED
            BY <1>0, <1>9, <2>12, <3>1 DEF ActiveHaveIds, FanInOrder
    <2>9. \A n \in Modules, j \in Keys : About(n, j)' = About(n, j)
        BY <2>12 DEF About
    <2>10. ASSUME NEW n \in Modules, NEW j \in Keys,
                  Informed(n, j) \/ (n = m /\ j = k /\ About(m, k) = {})
           PROVE  Informed(n, j)'
        <3>1. knows'[n][j] = IF n = m /\ j = k THEN value[k] ELSE knows[n][j]
            BY <1>0, <2>1 DEF TypeOK
        <3> QED
            BY <2>12, <2>9, <2>10, <3>1 DEF Informed
    <2>11. Served'
        <3> SUFFICES ASSUME open, NEW r \in Slots, sub'[r].active, ~behind'[r],
                            NEW n \in {sub'[r].module}, NEW j \in {sub'[r].key}
                     PROVE  Informed(n, j)'
            BY <1>9, <2>12 DEF Served, Informed, About
        <3>1. CASE r = s
            <4>1. sub'[r].module = m /\ sub'[r].key = k
                BY <2>4, <3>1
            <4>2. About(m, k) = {}
                BY <2>4, <3>1
            <4> QED
                BY <2>10, <4>1, <4>2
        <3>2. CASE r # s
            <4>1. sub'[r] = sub[r] /\ behind'[r] = behind[r]
                BY <2>4, <3>2
            <4>2. sub[r].key \in Keys /\ sub[r].module \in Modules
                BY <1>0, <4>1, Zenon DEF ActiveHaveIds
            <4>3. Informed(sub[r].module, sub[r].key)
                BY <1>0, <1>9, <4>1, <4>2, NoKeyIsNoKey DEF Served
            <4> QED
                BY <2>10, <4>1, <4>2, <4>3
        <3> QED
            BY <3>1, <3>2
    <2> QED
        BY <2>2, <2>3, <2>7, <2>8, <2>11 DEF IInv, Pool, Knowledge
<1> QED
    BY <1>0, <1>1, <1>2, CacheBoundsAreNat DEF TypeOK

\* What a release and the change of handles keep: the types, and what the
\* subscribers that remain know.
LEMMA ReleaseKeepsTypes ==
    ASSUME IInv, Idle, NEW h \in Handles, Release(handle[h]),
           handle' \in [Handles -> Slots \cup {NoSub}],
           UNCHANGED <<value, fan, queue, open, writes, subscribed, stamp, behind,
                       knows>>
    PROVE  TypeOK' /\ Knowledge'
<1>0. TypeOK /\ ActiveHaveIds /\ FanInOrder /\ Served
    BY DEF IInv, Pool, Knowledge
<1>1. /\ numActive' \in 0..MaxSubs /\ order' \in [Slots -> Nat]
      /\ sub' \in [Slots -> Subscriber]
      /\ \A s \in Slots : s # handle[h] => sub'[s] = sub[s]
      /\ handle[h] # NoSub => ~sub'[handle[h]].active
      /\ UNCHANGED faulted
    BY ReleaseWorks
<1>2. /\ announcing = NoKey /\ snapshot = 0 /\ cell = 0
      /\ announcing' = announcing /\ cell' = cell /\ snapshot' = snapshot
    BY <1>0 DEF Idle, FanInOrder, TypeOK, fan
<1>3. TypeOK'
    <2>1. cell' \in 0..snapshot' /\ snapshot' \in 0..numActive'
        BY <1>1, <1>2, CacheBoundsAreNat
    <2> QED
        BY <1>0, <1>1, <1>2, <2>1, Zenon DEF TypeOK
<1>4. \A s \in Slots : sub'[s].active => sub'[s] = sub[s]
    <2>1. \A s \in Slots : s # NoSub
        BY NoSubIsNoSlot DEF Slots
    <2> QED
        BY <1>1, <2>1, Zenon
<1>5. ActiveHaveIds' /\ FanInOrder'
    <2>1. ActiveHaveIds'
        BY <1>0, <1>4, Zenon DEF ActiveHaveIds
    <2> QED
        BY <1>2, <2>1 DEF FanInOrder
<1>6. Served'
    <2>1. \A m, k : Informed(m, k)' <=> Informed(m, k)
        BY DEF Informed, About
    <2> SUFFICES ASSUME open, NEW s \in Slots, sub'[s].active, ~behind[s],
                        sub'[s].key # announcing
                 PROVE  Informed(sub'[s].module, sub'[s].key)
        BY <1>2, <2>1 DEF Served
    <2>2. sub'[s] = sub[s]
        BY <1>4
    <2> QED
        BY <1>0, <2>2 DEF Served
<1> QED
    BY <1>3, <1>5, <1>6 DEF Knowledge

\* A handle that is dropped takes its slot along.
LEMMA DropHolds ==
    ASSUME IInv, NEW h \in Handles, DropHandle(h)
    PROVE  IInv'
<1>0. TypeOK /\ HandlesOwnSlots
    BY DEF IInv, Pool
<1>1. /\ handle[h] # NoSub /\ Release(handle[h])
      /\ handle' = [handle EXCEPT ![h] = NoSub]
      /\ UNCHANGED <<value, fan, queue, open, writes, subscribed, stamp, behind,
                     knows>>
      /\ Idle
    BY DEF DropHandle
<1>2. /\ handle' \in [Handles -> Slots \cup {NoSub}]
      /\ handle'[h] = NoSub /\ \A g \in Handles \ {h} : handle'[g] = handle[g]
    BY <1>0, <1>1 DEF TypeOK
<1>3. /\ CellsAreSlots' /\ StampsArePast' /\ PoolBalanced'
      /\ \A s \in Slots : s # handle[h] => sub'[s] = sub[s]
      /\ ~sub'[handle[h]].active
    BY <1>1, ReleaseWorks
<1>4. TypeOK' /\ Knowledge'
    BY <1>1, <1>2, ReleaseKeepsTypes
<1>5. HandlesOwnSlots'
    <2>1. ASSUME NEW g \in Handles, handle'[g] # NoSub PROVE sub'[handle'[g]].active
        <3>1. g # h /\ handle'[g] = handle[g]
            BY <1>2, <2>1
        <3>2. handle[g] \in Slots /\ handle[g] # handle[h]
            BY <1>0, <1>1, <2>1, <3>1 DEF TypeOK, HandlesOwnSlots
        <3>3. sub[handle[g]].active
            BY <1>0, <2>1, <3>1, Zenon DEF HandlesOwnSlots
        <3> QED
            BY <1>3, <3>1, <3>2, <3>3, Zenon
    <2>2. \A f, g \in Handles :
              f # g /\ handle'[f] = handle'[g] => handle'[f] = NoSub
        <3>1. \A f, g \in Handles : f # g /\ handle[f] = handle[g] => handle[f] = NoSub
            BY <1>0, Zenon DEF HandlesOwnSlots
        <3> QED
            BY <1>2, <3>1
    <2>3. ASSUME NEW s \in Slots, sub'[s].active
          PROVE  \E g \in Handles : handle'[g] = s
        <3>1. s # handle[h] /\ sub[s].active
            BY <1>3, <2>3, Zenon
        <3>2. PICK g \in Handles : handle[g] = s
            BY <1>0, <3>1, Zenon DEF HandlesOwnSlots
        <3> QED
            BY <1>2, <3>1, <3>2
    <2> QED
        BY <2>1, <2>2, <2>3, Zenon DEF HandlesOwnSlots
<1> QED
    BY <1>3, <1>4, <1>5 DEF IInv, Pool

\* A handle that is moved keeps its slot, and the one it replaces is freed.
LEMMA MoveHolds ==
    ASSUME IInv, NEW from \in Handles, NEW to \in Handles, MoveHandle(from, to)
    PROVE  IInv'
<1>0. TypeOK /\ HandlesOwnSlots
    BY DEF IInv, Pool
<1>1. /\ from # to /\ handle[from] # NoSub /\ Release(handle[to])
      /\ handle' = [handle EXCEPT ![to] = handle[from], ![from] = NoSub]
      /\ UNCHANGED <<value, fan, queue, open, writes, subscribed, stamp, behind,
                     knows>>
      /\ Idle
    BY DEF MoveHandle
<1>2. /\ handle' \in [Handles -> Slots \cup {NoSub}]
      /\ handle'[from] = NoSub /\ handle'[to] = handle[from]
      /\ \A g \in Handles \ {from, to} : handle'[g] = handle[g]
    BY <1>0, <1>1 DEF TypeOK
<1>3. /\ CellsAreSlots' /\ StampsArePast' /\ PoolBalanced'
      /\ \A s \in Slots : s # handle[to] => sub'[s] = sub[s]
      /\ handle[to] # NoSub => ~sub'[handle[to]].active
    BY <1>1, ReleaseWorks
<1>4. TypeOK' /\ Knowledge'
    BY <1>1, <1>2, ReleaseKeepsTypes
<1>5. \A f, g \in Handles : f # g /\ handle[f] = handle[g] => handle[f] = NoSub
    BY <1>0, Zenon DEF HandlesOwnSlots
<1>6. HandlesOwnSlots'
    <2>1. ASSUME NEW g \in Handles, g # to, handle[g] # NoSub
          PROVE  sub'[handle[g]].active
        <3>1. handle[g] \in Slots /\ handle[g] # handle[to]
            BY <1>0, <1>5, <2>1 DEF TypeOK
        <3>2. sub[handle[g]].active
            BY <1>0, <2>1, Zenon DEF HandlesOwnSlots
        <3> QED
            BY <1>3, <3>1, <3>2, Zenon
    <2>2. \A g \in Handles : handle'[g] # NoSub => sub'[handle'[g]].active
        <3>1. sub'[handle'[to]].active
            BY <1>1, <1>2, <2>1, Zenon
        <3>2. ASSUME NEW g \in Handles \ {from, to}, handle'[g] # NoSub
              PROVE  sub'[handle'[g]].active
            <4>1. g # to /\ handle'[g] = handle[g]
                BY <1>2
            <4> QED
                BY <2>1, <3>2, <4>1, Zenon
        <3> QED
            BY <1>2, <3>1, <3>2, Zenon
    <2>3. \A f, g \in Handles :
              f # g /\ handle'[f] = handle'[g] => handle'[f] = NoSub
        BY <1>1, <1>2, <1>5
    <2>4. ASSUME NEW s \in Slots, sub'[s].active
          PROVE  \E g \in Handles : handle'[g] = s
        <3>0. s # NoSub
            BY NoSubIsNoSlot DEF Slots
        <3>1. s # handle[to] /\ sub[s].active
            BY <1>3, <2>4, <3>0, Zenon
        <3>2. PICK g \in Handles : handle[g] = s
            BY <1>0, <3>1, Zenon DEF HandlesOwnSlots
        <3>3. CASE g = from
            BY <1>2, <3>2, <3>3
        <3>4. CASE g # from
            <4>1. g \in Handles \ {from, to}
                BY <3>1, <3>2, <3>4
            <4> QED
                BY <1>2, <3>2, <4>1
        <3> QED
            BY <3>3, <3>4
    <2> QED
        BY <2>2, <2>3, <2>4, Zenon DEF HandlesOwnSlots
<1> QED
    BY <1>3, <1>4, <1>6 DEF IInv, Pool

\* A cache nobody has subscribed to.
NoSubscription ==
    /\ sub = [s \in Slots |-> Free]
    /\ numActive = 0 /\ announcing = NoKey /\ cell = 0 /\ snapshot = 0
    /\ stamp = [s \in Slots |-> 0]
    /\ subscribed \in Nat
    /\ \A h \in Handles : handle[h] = NoSub

\* IInv, but for the types of the other variables.
PoolInOrder ==
    /\ CellsAreSlots /\ StampsArePast /\ PoolBalanced
    /\ HandlesOwnSlots /\ Knowledge
    /\ sub \in [Slots -> Subscriber]

\* Of an empty pool all of it speaks of no cell and no active slot.
LEMMA EmptyPool == NoSubscription => PoolInOrder
<1> SUFFICES ASSUME NoSubscription PROVE PoolInOrder
    OBVIOUS
<1> USE DEF NoSubscription
<1>1. Cells = {} /\ Visited = {} /\ 0..(numActive - 1) = {} /\ 0..(cell - 1) = {}
    BY DEF Cells, Visited
<1>2. \A s \in Slots : sub[s] \in Subscriber /\ ~sub[s].active
    BY FreeIsFree
<1>3. sub \in [Slots -> Subscriber]
    BY FreeIsFree
<1>4. CellsAreSlots /\ StampsArePast
    BY <1>1 DEF CellsAreSlots, StampsArePast
<1>5. PoolBalanced
    BY <1>1, <1>2, Zenon DEF PoolBalanced
<1>6. HandlesOwnSlots
    BY <1>2, Zenon DEF HandlesOwnSlots
<1>7. ActiveHaveIds /\ Served
    BY <1>1, <1>2, Zenon DEF ActiveHaveIds, Served
<1>8. FanInOrder
    BY DEF FanInOrder
<1> QED
    BY <1>3, <1>4, <1>5, <1>6, <1>7, <1>8 DEF PoolInOrder, Knowledge

\* The first cache, and each new one, starts that way.
LEMMA IInvInit == Init => IInv
<1> SUFFICES ASSUME Init PROVE IInv
    OBVIOUS
<1>1. NoSubscription
    BY DEF Init, NoSubscription
<1>2. PoolInOrder
    BY <1>1, EmptyPool
<1>3. /\ value \in [Keys -> Values \cup {Unset}]
      /\ order \in [Slots -> Nat] /\ stamp \in [Slots -> Nat]
      /\ handle \in [Handles -> Slots \cup {NoSub}]
      /\ behind \in [Slots -> BOOLEAN]
      /\ knows \in [Modules -> [Keys -> Values \cup {Unset}]]
    BY DEF Init
<1>4. /\ numActive \in 0..MaxSubs /\ writes \in Nat /\ subscribed \in Nat
      /\ cell \in 0..snapshot /\ snapshot \in 0..numActive
    BY CacheBoundsAreNat DEF Init
<1>5. open \in BOOLEAN /\ faulted \in BOOLEAN /\ announcing \in Keys \cup {NoKey}
    BY Zenon DEF Init
<1>6. queue \in Seq(KeyChanged)
    BY EmptySeq DEF Init
<1> QED
    BY <1>2, <1>3, <1>4, <1>5, <1>6, Zenon DEF IInv, Pool, TypeOK, PoolInOrder

\* So does the cache of the next start().
LEMMA RenewHolds == IInv /\ Renew => IInv'
<1>2. NoSubscription' => PoolInOrder'
    BY EmptyPool, PTL
<1> SUFFICES ASSUME IInv, Renew PROVE IInv'
    OBVIOUS
<1>0. TypeOK /\ FanInOrder
    BY DEF IInv, Pool, Knowledge
<1>1. announcing = NoKey /\ cell = 0 /\ snapshot = 0 /\ UNCHANGED <<announcing, cell, snapshot>>
    BY <1>0 DEF Renew, Idle, FanInOrder, TypeOK, fan
<1>3. NoSubscription'
    BY <1>0, <1>1 DEF Renew, NoSubscription, TypeOK
<1>4. /\ value' \in [Keys -> Values \cup {Unset}]
      /\ order' \in [Slots -> Nat] /\ stamp' \in [Slots -> Nat]
      /\ behind' \in [Slots -> BOOLEAN]
      /\ knows' \in [Modules -> [Keys -> Values \cup {Unset}]]
      /\ open' \in BOOLEAN
    BY DEF Renew
<1>5. /\ numActive' \in 0..MaxSubs
      /\ cell' \in 0..snapshot' /\ snapshot' \in 0..numActive'
    BY <1>1, CacheBoundsAreNat DEF Renew
<1>6. queue' \in Seq(KeyChanged)
    BY EmptySeq DEF Renew
<1>7. UNCHANGED <<handle, faulted, writes, subscribed>>
    BY DEF Renew
<1> QED
    BY <1>0, <1>1, <1>2, <1>3, <1>4, <1>5, <1>6, <1>7, Zenon
       DEF IInv, Pool, TypeOK, PoolInOrder

\* Every step keeps the invariant.
LEMMA IInvHolds == IInv /\ [Next]_vars => IInv'
<1> SUFFICES ASSUME IInv, [Next]_vars PROVE IInv'
    OBVIOUS
<1>0. /\ TypeOK /\ CellsAreSlots /\ StampsArePast /\ PoolBalanced
      /\ HandlesOwnSlots /\ ActiveHaveIds /\ FanInOrder /\ Served
    BY DEF IInv, Pool, Knowledge
<1>1. CASE Stop \/ UNCHANGED vars
    <2>1. /\ UNCHANGED <<value, sub, order, numActive, handle, announcing, cell,
                         snapshot, queue, faulted, writes, subscribed, stamp,
                         behind, knows>>
          /\ open' = open \/ open' = FALSE
        BY <1>1 DEF Stop, vars, books, fan
    <2>2. TypeOK'
        BY <1>0, <2>1, Zenon DEF TypeOK
    <2>3. CellsAreSlots' /\ StampsArePast' /\ PoolBalanced' /\ HandlesOwnSlots'
          /\ ActiveHaveIds' /\ FanInOrder'
        BY <1>0, <2>1 DEF CellsAreSlots, StampsArePast, PoolBalanced, Cells,
                          Visited, HandlesOwnSlots, ActiveHaveIds, FanInOrder
    <2>4. Served'
        <3>1. \A m, k : Informed(m, k)' <=> Informed(m, k)
            BY <2>1 DEF Informed, About
        <3> QED
            BY <1>0, <2>1, <3>1 DEF Served
    <2> QED
        BY <2>2, <2>3, <2>4 DEF IInv, Pool, Knowledge
<1> QED
    BY <1>1, SetHolds, FanOutHolds, SetEndHolds, DeliverHolds, SubscribeHolds,
       DropHolds, MoveHolds, RenewHolds DEF Next

\* So it holds in every state of every behaviour.
LEMMA Invariant == Spec => []IInv
BY IInvInit, IInvHolds, PTL DEF Spec

-----------------------------------------------------------------------------
(***************************************************************************)
(* What it shows.                                                          *)
(***************************************************************************)

\* Every variable keeps its type; num_active_, a std::size_t, stays between
\* zero and the capacity, whatever the capacity (cache.hpp: subscribe(),
\* release_slot()).
THEOREM CacheTypes == Spec => []TypeOK
<1>1. IInv => TypeOK
    BY DEF IInv, Pool
<1> QED
    BY <1>1, Invariant, PTL

\* The cells of order_ name the active slots, each once and in the order of
\* their subscriptions, after every sequence of calls: the fan-out serves every
\* subscription once and oldest first (cache.hpp: fanout(), release_slot()).
THEOREM BooksBalance == Spec => []PoolBalanced
<1>1. IInv => PoolBalanced
    BY DEF IInv, Pool
<1> QED
    BY <1>1, Invariant, PTL

\* Active slots and handles that are not inert go together one to one: no
\* sequence of moves and drops leaks a slot or releases one twice
\* (subscription.hpp: the moves and release()).
THEOREM HandlesAndSlotsMatch == Spec => []HandlesOwnSlots
BY Invariant, PTL DEF IInv

\* A module that applies every KeyChanged it gets ends up with the value, for
\* any number of keys, values, modules and subscriptions, until the runtime is
\* stopped, unless it subscribed with older news on its way to it and the key
\* was not written since (cache.hpp: set() and its fan-out, through the queue).
THEOREM SubscribersAreUpToDate == Spec => []SubscribersKnowTheValue
<1>1. IInv => SubscribersKnowTheValue
    BY KnowledgeIsEnough DEF IInv
<1> QED
    BY <1>1, Invariant, PTL

\* Only a subscription to a full pool faults: the assertions of release_slot()
\* never fail, nor does the search for a free slot while num_active_ says that
\* there is room (cache.hpp: find_free_slot(), release_slot()).
THEOREM OnlyAFullPoolFaults == Spec => OnlyOverflowFaults
<1>1. IInv /\ [Next]_vars => [faulted' => \A s \in Slots : sub[s].active]_vars
    <2> SUFFICES ASSUME IInv, Next, faulted'
                 PROVE  \A s \in Slots : sub[s].active
        BY DEF vars
    <2>0. Pool /\ FanInOrder
        BY DEF IInv, Knowledge
    <2>1. ~faulted
        <3>1. Idle \/ announcing # NoKey \/ ~faulted
            BY DEF Next, Set, FanOut, SetEnd, Deliver, Subscribe, DropHandle,
                   MoveHandle, Stop, Renew
        <3> QED
            BY <2>0, <3>1 DEF Idle, FanInOrder
    <2>2. ASSUME NEW h \in Handles, NEW k \in Keys, NEW m \in Modules,
                 Subscribe(h, k, m)
          PROVE  \A s \in Slots : sub[s].active
        <3>1. CASE numActive >= MaxSubs
            BY <2>0, <3>1, FullPoolIsAllActive
        <3>2. CASE FreeSlots = {}
            BY <3>2, Zenon DEF FreeSlots
        <3>3. CASE ~(numActive >= MaxSubs \/ FreeSlots = {})
            BY <2>1, <2>2, <3>3, Zenon DEF Subscribe
        <3> QED
            BY <3>1, <3>2, <3>3
    <2>3. ASSUME NEW h \in Handles, DropHandle(h) PROVE FALSE
        BY <2>1, <2>3, ReleaseWorks DEF DropHandle
    <2>4. ASSUME NEW h \in Handles, NEW g \in Handles, MoveHandle(h, g) PROVE FALSE
        BY <2>1, <2>4, ReleaseWorks DEF MoveHandle
    <2>5. ASSUME NEW k \in Keys, NEW v \in Values, Set(k, v) PROVE FALSE
        BY <2>1, <2>5 DEF Set
    <2>6. CASE FanOut \/ SetEnd \/ Deliver \/ Stop \/ Renew
        BY <2>1, <2>6 DEF FanOut, SetEnd, Deliver, Stop, Renew
    <2> QED
        BY <2>2, <2>3, <2>4, <2>5, <2>6 DEF Next
<1> QED
    BY <1>1, Invariant, PTL DEF Spec, OnlyOverflowFaults
=============================================================================
