--------------------------- MODULE RunLoopProofs ---------------------------
(***************************************************************************)
(* Proofs about RunLoop, for any set of foreign threads and any bounds.    *)
(***************************************************************************)
EXTENDS RunLoop, SequenceTheorems, TLAPS

-----------------------------------------------------------------------------
(***************************************************************************)
(* Type correctness.                                                       *)
(***************************************************************************)

\* A thread that is about to push, or to dispatch, has an envelope in hand.
HandTyped ==
    /\ pc[Loop] = "dispatch" => held[Loop] \in Envelope
    /\ \A t \in Foreign : pc[t] = "post" => held[t] \in Envelope

\* shutdown() dispatches only while its budget lasts.
BudgetLeft ==
    pc[Loop] \in {"dispatch", "handler"} /\ frame = "shutdown"
        => drained < DrainBudget

TypeInv == TypeOK /\ HandTyped /\ BudgetLeft

\* Init establishes the types.
LEMMA TypeInit == Init => TypeInv
<1> USE LoopIsNotForeign, BoundsAreNat
<1> SUFFICES ASSUME Init PROVE TypeInv
    OBVIOUS
<1>1. Loop \in Threads
    BY DEF Threads
<1>2. /\ pc \in [Threads -> LoopPC \cup ForeignPC]
      /\ pc[Loop] = "down"
      /\ \A t \in Foreign : pc[t] = "idle"
    BY <1>1 DEF Init, LoopPC, ForeignPC, Callbacks, Running, Threads
<1>3. /\ 0 \in 0..DrainBudget /\ 0 \in 0..PostBound
      /\ 0 \in 0..StopBound /\ 0 \in 0..LifeBound
    OBVIOUS
<1>4. /\ held \in [Threads -> Envelope \cup {NoEnvelope}]
      /\ sent \in [Threads -> 0..PostBound]
    BY <1>3 DEF Init
<1>5. pc[Loop] \in LoopPC /\ \A t \in Foreign : pc[t] \in ForeignPC
    BY <1>2 DEF LoopPC, ForeignPC
<1>6. /\ queue \in Seq(Envelope) /\ accepted \in Seq(Envelope)
      /\ served \in Seq(Envelope) /\ lost \in SUBSET Envelope
      /\ drained \in 0..DrainBudget
      /\ stops \in 0..StopBound /\ life \in 0..LifeBound
    BY <1>3 DEF Init
<1>7. stop \in BOOLEAN /\ quiet \in BOOLEAN /\ frame \in Frames
    BY Zenon DEF Init, Frames
<1>8. TypeOK
    BY <1>2, <1>4, <1>5, <1>6, <1>7 DEF TypeOK
<1> QED
    BY <1>2, <1>8 DEF TypeInv, HandTyped, BudgetLeft

\* A new envelope is an envelope.
LEMMA NextEnvelopeType ==
    ASSUME TypeOK, NEW t \in Threads, sent[t] < PostBound
    PROVE  NextEnvelope(t) \in Envelope
<1>1. sent[t] \in 0..PostBound /\ life \in 0..LifeBound
    BY DEF TypeOK
<1>2. sent[t] + 1 \in 1..PostBound
    BY <1>1, BoundsAreNat
<1> QED
    BY <1>1, <1>2 DEF NextEnvelope, Envelope

\* Facts about the program counters used by every step below.
LEMMA LoopMoves ==
    ASSUME TypeInv, NEW from \in LoopPC, NEW to \in LoopPC, LoopGoes(from, to)
    PROVE  /\ pc' \in [Threads -> LoopPC \cup ForeignPC]
           /\ pc'[Loop] = to
           /\ \A t \in Foreign : pc'[t] = pc[t]
<1>1. Loop \in Threads /\ Foreign \subseteq Threads
    BY DEF Threads
<1> QED
    BY <1>1, LoopIsNotForeign DEF TypeInv, TypeOK, LoopGoes

\* A foreign thread goes to another place, and no other thread does.
LEMMA ForeignMoves ==
    ASSUME TypeInv, NEW t \in Foreign, NEW to \in ForeignPC,
           pc' = [pc EXCEPT ![t] = to]
    PROVE  /\ pc' \in [Threads -> LoopPC \cup ForeignPC]
           /\ pc'[Loop] = pc[Loop]
           /\ pc'[t] = to
           /\ \A u \in Foreign \ {t} : pc'[u] = pc[u]
<1>1. Loop \in Threads /\ Foreign \subseteq Threads
    BY DEF Threads
<1> QED
    BY <1>1, LoopIsNotForeign DEF TypeInv, TypeOK

\* A step of the loop thread that changes control and flags only.
LEMMA ControlStep ==
    ASSUME TypeInv, NEW from \in LoopPC, NEW to \in LoopPC \ {"dispatch", "handler"},
           LoopGoes(from, to),
           frame' \in Frames, drained' \in 0..DrainBudget,
           stop' \in BOOLEAN, quiet' \in BOOLEAN, life' \in 0..LifeBound,
           UNCHANGED <<queue, held, sent, stops, accepted, served, lost>>
    PROVE  TypeInv'
<1>1. /\ pc' \in [Threads -> LoopPC \cup ForeignPC]
      /\ pc'[Loop] = to
      /\ \A t \in Foreign : pc'[t] = pc[t]
    BY LoopMoves
<1>2. TypeOK'
  <2>1. /\ pc'[Loop] \in LoopPC
        /\ \A t \in Foreign : pc'[t] \in ForeignPC
      BY <1>1 DEF TypeInv, TypeOK
  <2>2. /\ queue' \in Seq(Envelope) /\ accepted' \in Seq(Envelope)
        /\ served' \in Seq(Envelope) /\ lost' \in SUBSET Envelope
        /\ held' \in [Threads -> Envelope \cup {NoEnvelope}]
        /\ sent' \in [Threads -> 0..PostBound]
        /\ stops' \in 0..StopBound
      BY DEF TypeInv, TypeOK
  <2> QED
      BY <1>1, <2>1, <2>2 DEF TypeOK
<1>3. HandTyped' /\ BudgetLeft'
    BY <1>1 DEF TypeInv, HandTyped, BudgetLeft
<1> QED
    BY <1>2, <1>3 DEF TypeInv

\* A step that moves no thread and leaves the hands and the flag alone.
LEMMA HistoryStep ==
    ASSUME TypeInv,
           queue' \in Seq(Envelope), accepted' \in Seq(Envelope),
           sent' \in [Threads -> 0..PostBound],
           stops' \in 0..StopBound, stop' \in BOOLEAN,
           UNCHANGED <<pc, held, frame, drained, quiet, life, served, lost>>
    PROVE  TypeInv'
<1>1. TypeOK'
  <2>1. /\ pc' \in [Threads -> LoopPC \cup ForeignPC]
        /\ pc'[Loop] \in LoopPC
        /\ \A t \in Foreign : pc'[t] \in ForeignPC
        /\ held' \in [Threads -> Envelope \cup {NoEnvelope}]
        /\ frame' \in Frames
        /\ drained' \in 0..DrainBudget
        /\ life' \in 0..LifeBound
        /\ served' \in Seq(Envelope)
        /\ lost' \in SUBSET Envelope
      BY DEF TypeInv, TypeOK
  <2>2. quiet' \in BOOLEAN
      BY DEF TypeInv, TypeOK
  <2> QED
      BY <2>1, <2>2 DEF TypeOK
<1>2. HandTyped' /\ BudgetLeft'
    BY DEF TypeInv, HandTyped, BudgetLeft
<1> QED
    BY <1>1, <1>2 DEF TypeInv

\* Every step preserves the types.
LEMMA TypeStep == TypeInv /\ [Next]_vars => TypeInv'
<1> SUFFICES ASSUME TypeInv, [Next]_vars PROVE TypeInv'
    OBVIOUS
<1> USE LoopIsNotForeign, BoundsAreNat
<1>0. Loop \in Threads /\ Foreign \subseteq Threads
    BY DEF Threads
<1>1. TypeOK /\ HandTyped /\ BudgetLeft
    BY DEF TypeInv
<1>2. ASSUME NEW t \in Foreign, PostCheck(t) PROVE TypeInv'
  <2>1. sent[t] < PostBound /\ t \in Threads
      BY <1>0, <1>2 DEF PostCheck
  <2>2. sent' \in [Threads -> 0..PostBound]
      BY <1>0, <1>1, <1>2, <2>1 DEF PostCheck, TypeOK
  <2>3. CASE stop
      BY <1>1, <1>2, <2>2, <2>3, HistoryStep DEF PostCheck, TypeOK, history
  <2>4. CASE ~stop
    <3>1. NextEnvelope(t) \in Envelope
        BY <1>1, <2>1, NextEnvelopeType
    <3>2. /\ pc' = [pc EXCEPT ![t] = "post"]
          /\ held' = [held EXCEPT ![t] = NextEnvelope(t)]
        BY <1>2, <2>4 DEF PostCheck
    <3>3. /\ pc' \in [Threads -> LoopPC \cup ForeignPC]
          /\ pc'[Loop] = pc[Loop]
          /\ pc'[t] = "post"
          /\ \A u \in Foreign \ {t} : pc'[u] = pc[u]
        BY <3>2, ForeignMoves DEF ForeignPC
    <3>4. /\ held' \in [Threads -> Envelope \cup {NoEnvelope}]
          /\ held'[t] \in Envelope
          /\ \A u \in Threads \ {t} : held'[u] = held[u]
        BY <1>1, <2>1, <3>1, <3>2 DEF TypeOK
    <3>5. TypeOK'
      <4>1. pc'[Loop] \in LoopPC /\ \A u \in Foreign : pc'[u] \in ForeignPC
          BY <1>1, <3>3 DEF TypeOK, ForeignPC
      <4> QED
          BY <1>1, <1>2, <2>2, <3>3, <3>4, <4>1 DEF TypeOK, PostCheck, history
    <3>6. HandTyped'
        BY <1>0, <1>1, <3>3, <3>4 DEF HandTyped
    <3>7. BudgetLeft'
        BY <1>1, <1>2, <3>3 DEF BudgetLeft, PostCheck
    <3> QED
        BY <3>5, <3>6, <3>7 DEF TypeInv
  <2> QED
      BY <2>3, <2>4
<1>3. ASSUME NEW t \in Foreign, PostLocked(t) PROVE TypeInv'
  <2>1. held[t] \in Envelope
      BY <1>1, <1>3 DEF PostLocked, HandTyped
  <2>2. PICK to \in ForeignPC \ {"post"} : pc' = [pc EXCEPT ![t] = to]
    <3>1. CASE stop
        BY <1>3, <3>1 DEF PostLocked, ForeignPC
    <3>2. CASE ~stop
        BY <1>3, <3>2 DEF PostLocked, ForeignPC
    <3> QED
        BY <3>1, <3>2
  <2>3. /\ pc' \in [Threads -> LoopPC \cup ForeignPC]
        /\ pc'[Loop] = pc[Loop]
        /\ pc'[t] = to
        /\ \A u \in Foreign \ {t} : pc'[u] = pc[u]
      BY <2>2, ForeignMoves
  <2>4. queue' \in Seq(Envelope) /\ accepted' \in Seq(Envelope)
    <3>1. CASE stop
        BY <1>1, <1>3, <3>1 DEF PostLocked, TypeOK
    <3>2. CASE ~stop
      <4>1. queue' = Append(queue, held[t]) /\ accepted' = Append(accepted, held[t])
          BY <1>3, <3>2 DEF PostLocked
      <4> QED
          BY <1>1, <2>1, <4>1, AppendProperties DEF TypeOK
    <3> QED
        BY <3>1, <3>2
  <2>5. /\ held' \in [Threads -> Envelope \cup {NoEnvelope}]
        /\ \A u \in Threads \ {t} : held'[u] = held[u]
      BY <1>1, <1>3 DEF PostLocked, TypeOK
  <2>6. TypeOK'
    <3>1. pc'[Loop] \in LoopPC /\ \A u \in Foreign : pc'[u] \in ForeignPC
        BY <1>1, <2>3 DEF TypeOK
    <3> QED
        BY <1>1, <1>3, <2>3, <2>4, <2>5, <3>1 DEF TypeOK, PostLocked, history
  <2>7. HandTyped'
      BY <1>0, <1>1, <2>3, <2>5 DEF HandTyped
  <2>8. BudgetLeft'
      BY <1>1, <1>3, <2>3 DEF BudgetLeft, PostLocked
  <2> QED
      BY <2>6, <2>7, <2>8 DEF TypeInv
<1>4. ASSUME NEW t \in Foreign, StopLocked(t) PROVE TypeInv'
  <2>1. /\ pc' \in [Threads -> LoopPC \cup ForeignPC]
        /\ pc'[Loop] = pc[Loop]
        /\ pc'[t] = "notify"
        /\ \A u \in Foreign \ {t} : pc'[u] = pc[u]
      BY <1>4, ForeignMoves DEF StopLocked, ForeignPC
  <2>2. stops' \in 0..StopBound
      BY <1>1, <1>4 DEF StopLocked, TypeOK
  <2>3. TypeOK'
    <3>1. pc'[Loop] \in LoopPC /\ \A u \in Foreign : pc'[u] \in ForeignPC
        BY <1>1, <2>1 DEF TypeOK, ForeignPC
    <3>2. stop' \in BOOLEAN
        BY <1>4 DEF StopLocked
    <3> QED
        BY <1>1, <1>4, <2>1, <2>2, <3>1, <3>2 DEF TypeOK, StopLocked
  <2>4. HandTyped'
      BY <1>1, <1>4, <2>1 DEF HandTyped, StopLocked
  <2>5. BudgetLeft'
      BY <1>1, <1>4, <2>1 DEF BudgetLeft, StopLocked
  <2> QED
      BY <2>3, <2>4, <2>5 DEF TypeInv
<1>5. ASSUME NEW t \in Foreign, Notify(t) PROVE TypeInv'
  <2>1. /\ pc' \in [Threads -> LoopPC \cup ForeignPC]
        /\ pc'[Loop] = IF pc[Loop] = "asleep" THEN "wait" ELSE pc[Loop]
        /\ pc'[t] = "idle"
        /\ \A u \in Foreign \ {t} : pc'[u] = pc[u]
      BY <1>0, <1>1, <1>5 DEF Notify, TypeOK, LoopPC, ForeignPC, Running
  <2>2. TypeOK'
    <3>1. pc'[Loop] \in LoopPC /\ \A u \in Foreign : pc'[u] \in ForeignPC
        BY <1>1, <2>1 DEF TypeOK, ForeignPC, LoopPC, Running
    <3> QED
        BY <1>1, <1>5, <2>1, <3>1 DEF TypeOK, Notify, history
  <2>3. HandTyped'
    <3>1. held' = held
        BY <1>5 DEF Notify
    <3>2. pc'[Loop] = "dispatch" => pc[Loop] = "dispatch"
        BY <2>1
    <3>3. \A u \in Foreign : pc'[u] = "post" => pc[u] = "post"
        BY <2>1
    <3> QED
        BY <1>1, <3>1, <3>2, <3>3 DEF HandTyped
  <2>4. BudgetLeft'
      BY <1>1, <1>5, <2>1 DEF BudgetLeft, Notify
  <2> QED
      BY <2>2, <2>3, <2>4 DEF TypeInv
<1>6. CASE LoopPost
  <2>1. sent[Loop] < PostBound
      BY <1>6 DEF LoopPost
  <2>2. NextEnvelope(Loop) \in Envelope
      BY <1>0, <1>1, <2>1, NextEnvelopeType
  <2>3. sent' \in [Threads -> 0..PostBound]
      BY <1>0, <1>1, <1>6, <2>1 DEF LoopPost, TypeOK
  <2>4. queue' \in Seq(Envelope) /\ accepted' \in Seq(Envelope)
    <3>1. CASE stop
        BY <1>1, <1>6, <3>1 DEF LoopPost, TypeOK
    <3>2. CASE ~stop
      <4>1. queue' = Append(queue, NextEnvelope(Loop)) /\ accepted' = Append(accepted, NextEnvelope(Loop))
          BY <1>6, <3>2 DEF LoopPost
      <4> QED
          BY <1>1, <2>2, <4>1, AppendProperties DEF TypeOK
    <3> QED
        BY <3>1, <3>2
  <2> QED
      BY <1>1, <1>6, <2>3, <2>4, HistoryStep DEF LoopPost, TypeOK, history
<1>7. CASE LoopStop
  <2>1. stops' \in 0..StopBound
      BY <1>1, <1>7 DEF LoopStop, TypeOK
  <2>2. stop' \in BOOLEAN
      BY <1>7 DEF LoopStop
  <2> QED
      BY <1>1, <1>7, <2>1, <2>2, HistoryStep DEF LoopStop, TypeOK
<1> USE DEF LoopPC, Callbacks, Running
<1>8. CASE Start
  <2>1. life' \in 0..LifeBound
      BY <1>1, <1>8 DEF Start, TypeOK
  <2> QED
      BY <1>1, <1>8, <2>1, ControlStep DEF Start, TypeOK
<1>9. CASE StartEnd
    BY <1>1, <1>9, ControlStep DEF StartEnd, TypeOK, history
<1>10. CASE RunOne
    BY <1>1, <1>10, ControlStep DEF RunOne, TypeOK, Frames, history
<1>11. CASE Run
    BY <1>1, <1>11, ControlStep DEF Run, TypeOK, history
<1>12. CASE Shutdown
    BY <1>1, <1>12, ControlStep DEF Shutdown, TypeOK, Frames, history
<1>13. CASE WaitSleep
    BY <1>1, <1>13, ControlStep DEF WaitSleep, TypeOK, history
<1>14. CASE SpuriousWake \/ WaitTimeOut
    BY <1>1, <1>14, ControlStep DEF SpuriousWake, WaitTimeOut, TypeOK, history
<1>15. CASE WaitReturn
  <2>1. quiet' \in BOOLEAN
      BY <1>15 DEF WaitReturn
  <2> QED
      BY <1>1, <1>15, <2>1, ControlStep DEF WaitReturn, TypeOK, history
<1>16. CASE WaitPass
    BY <1>1, <1>16, ControlStep DEF WaitPass, TypeOK, history
<1>17. CASE FireEnd
    BY <1>1, <1>17, ControlStep DEF FireEnd, TypeOK, Frames, history
<1>18. CASE CheckStop
  <2>1. PICK to \in {"drain", "wait"} : LoopGoes("check", to)
      BY <1>18 DEF CheckStop, LoopGoes
  <2>2. frame' \in Frames
      BY <1>1, <1>18 DEF CheckStop, TypeOK, Frames
  <2> QED
      BY <1>1, <1>18, <2>1, <2>2, ControlStep DEF CheckStop, TypeOK, history
<1>19. CASE Pop
  <2>1. Head(queue) \in Envelope /\ queue' \in Seq(Envelope)
      BY <1>1, <1>19, HeadTailProperties DEF Pop, TypeOK
  <2>2. /\ held' \in [Threads -> Envelope \cup {NoEnvelope}]
        /\ held'[Loop] \in Envelope
        /\ \A u \in Foreign : held'[u] = held[u]
      BY <1>0, <1>1, <1>19, <2>1 DEF Pop, TypeOK
  <2>3. /\ pc' \in [Threads -> LoopPC \cup ForeignPC]
        /\ pc'[Loop] = "dispatch"
        /\ \A u \in Foreign : pc'[u] = pc[u]
      BY <1>19, LoopMoves DEF Pop
  <2>4. TypeOK'
    <3>1. pc'[Loop] \in LoopPC /\ \A u \in Foreign : pc'[u] \in ForeignPC
        BY <1>1, <2>3 DEF TypeOK
    <3> QED
        BY <1>1, <1>19, <2>1, <2>2, <2>3, <3>1 DEF TypeOK, Pop, history
  <2>5. HandTyped'
      BY <1>1, <2>2, <2>3 DEF HandTyped
  <2>6. BudgetLeft'
      BY <1>1, <1>19, <2>3 DEF BudgetLeft, Pop, MayPop, TypeOK
  <2> QED
      BY <2>4, <2>5, <2>6 DEF TypeInv
<1>20. CASE Dispatch
  <2>1. served' \in Seq(Envelope)
      BY <1>1, <1>20 DEF Dispatch, TypeOK, HandTyped, LoopGoes
  <2>2. /\ pc' \in [Threads -> LoopPC \cup ForeignPC]
        /\ pc'[Loop] = "handler"
        /\ \A u \in Foreign : pc'[u] = pc[u]
      BY <1>20, LoopMoves DEF Dispatch
  <2>3. TypeOK'
    <3>1. pc'[Loop] \in LoopPC /\ \A u \in Foreign : pc'[u] \in ForeignPC
        BY <1>1, <2>2 DEF TypeOK
    <3> QED
        BY <1>1, <1>20, <2>1, <2>2, <3>1 DEF TypeOK, Dispatch, history
  <2>4. HandTyped'
      BY <1>1, <1>20, <2>2 DEF HandTyped, Dispatch
  <2>5. BudgetLeft'
      BY <1>1, <1>20, <2>2 DEF BudgetLeft, Dispatch, LoopGoes
  <2> QED
      BY <2>3, <2>4, <2>5 DEF TypeInv
<1>21. CASE HandlerEnd
  <2>1. /\ held' \in [Threads -> Envelope \cup {NoEnvelope}]
        /\ \A u \in Foreign : held'[u] = held[u]
      BY <1>0, <1>1, <1>21 DEF HandlerEnd, TypeOK
  <2>2. drained' \in 0..DrainBudget
      BY <1>1, <1>21 DEF HandlerEnd, LoopGoes, TypeOK, BudgetLeft
  <2>3. /\ pc' \in [Threads -> LoopPC \cup ForeignPC]
        /\ pc'[Loop] = "drain"
        /\ \A u \in Foreign : pc'[u] = pc[u]
      BY <1>21, LoopMoves DEF HandlerEnd
  <2>4. TypeOK'
    <3>1. pc'[Loop] \in LoopPC /\ \A u \in Foreign : pc'[u] \in ForeignPC
        BY <1>1, <2>3 DEF TypeOK
    <3> QED
        BY <1>1, <1>21, <2>1, <2>2, <2>3, <3>1 DEF TypeOK, HandlerEnd, history
  <2>5. HandTyped'
      BY <1>1, <2>1, <2>3 DEF HandTyped
  <2>6. BudgetLeft'
      BY <1>1, <1>21, <2>3 DEF BudgetLeft, HandlerEnd
  <2> QED
      BY <2>4, <2>5, <2>6 DEF TypeInv
<1>22. CASE RunOneEnd
  <2>1. PICK to \in {"check", "up"} : LoopGoes("drain", to)
      BY <1>22 DEF RunOneEnd, LoopGoes
  <2>2. quiet' \in BOOLEAN
      BY <1>22 DEF RunOneEnd
  <2> QED
      BY <1>1, <1>22, <2>1, <2>2, ControlStep DEF RunOneEnd, TypeOK, history
<1>23. CASE ShutdownDrainEnd
    BY <1>1, <1>23, ControlStep DEF ShutdownDrainEnd, TypeOK, history
<1>24. CASE ShutdownClear
  <2>1. /\ queue' \in Seq(Envelope) /\ served' \in Seq(Envelope)
        /\ lost' \in SUBSET Envelope
    <3>1. {queue[i] : i \in DOMAIN queue} \subseteq Envelope
        BY <1>1, LenProperties, ElementOfSeq DEF TypeOK
    <3>2. served \o queue \in Seq(Envelope) /\ <<>> \in Seq(Envelope)
        BY <1>1, ConcatProperties, EmptySeq DEF TypeOK
    <3> QED
        BY <1>1, <1>24, <3>1, <3>2 DEF ShutdownClear, TypeOK
  <2>2. /\ pc' \in [Threads -> LoopPC \cup ForeignPC]
        /\ pc'[Loop] = "on_stop"
        /\ \A u \in Foreign : pc'[u] = pc[u]
      BY <1>24, LoopMoves DEF ShutdownClear
  <2>3. TypeOK'
    <3>1. pc'[Loop] \in LoopPC /\ \A u \in Foreign : pc'[u] \in ForeignPC
        BY <1>1, <2>2 DEF TypeOK
    <3> QED
        BY <1>1, <1>24, <2>1, <2>2, <3>1 DEF TypeOK, ShutdownClear
  <2>4. HandTyped' /\ BudgetLeft'
      BY <1>1, <1>24, <2>2 DEF HandTyped, BudgetLeft, ShutdownClear
  <2> QED
      BY <2>3, <2>4 DEF TypeInv
<1>25. CASE ShutdownEnd
  <2>1. stop' \in BOOLEAN /\ quiet' \in BOOLEAN
      BY <1>25 DEF ShutdownEnd
  <2> QED
      BY <1>1, <1>25, <2>1, ControlStep DEF ShutdownEnd, TypeOK, history
<1>26. CASE UNCHANGED vars
  <2>1. /\ queue' = queue /\ stop' = stop /\ pc' = pc /\ held' = held
        /\ frame' = frame /\ drained' = drained /\ quiet' = quiet
        /\ sent' = sent /\ stops' = stops /\ life' = life
        /\ accepted' = accepted /\ served' = served /\ lost' = lost
      BY <1>26 DEF vars
  <2> QED
      BY <1>1, <2>1, HistoryStep DEF TypeOK
<1> QED
    BY <1>2, <1>3, <1>4, <1>5, <1>6, <1>7, <1>8, <1>9, <1>10, <1>11, <1>12,
       <1>13, <1>14, <1>15, <1>16, <1>17, <1>18, <1>19, <1>20, <1>21, <1>22,
       <1>23, <1>24, <1>25, <1>26
    DEF Next, ForeignStep, LoopStep, LoopProgress

\* Every reachable state is typed, and shutdown() never dispatches more than
\* its budget (TypeOK bounds `drained`), for every set of foreign threads.
THEOREM TypeCorrect == Spec => []TypeOK
<1>1. Init => TypeInv
    BY TypeInit
<1>2. TypeInv /\ [Next]_vars => TypeInv'
    BY TypeStep
<1>3. TypeInv => TypeOK
    BY DEF TypeInv
<1> QED
    BY <1>1, <1>2, <1>3, PTL DEF Spec

-----------------------------------------------------------------------------
(***************************************************************************)
(* No lost wake-up.                                                        *)
(***************************************************************************)

\* Where the loop thread is after each of its steps: not asleep, except after
\* WaitSleep, which found nothing queued and no stop request.
LEMMA LoopAwake ==
    ASSUME TypeInv, LoopStep
    PROVE  \/ pc'[Loop] # "asleep"
           \/ queue' = <<>> /\ ~stop'
<1> USE DEF LoopPC, Callbacks, Running
<1>1. CASE LoopPost \/ LoopStop
    BY <1>1 DEF LoopPost, LoopStop
<1>2. CASE Start \/ StartEnd \/ RunOne \/ Run \/ Shutdown \/ SpuriousWake \/ WaitTimeOut
    BY <1>2, LoopMoves
    DEF Start, StartEnd, RunOne, Run, Shutdown, SpuriousWake, WaitTimeOut
<1>3. CASE WaitSleep
    BY <1>3 DEF WaitSleep
<1>4. CASE WaitReturn \/ WaitPass \/ FireEnd
    BY <1>4, LoopMoves DEF WaitReturn, WaitPass, FireEnd
<1>5. CASE CheckStop
    BY <1>5, LoopMoves DEF CheckStop, LoopGoes
<1>6. CASE Pop \/ Dispatch \/ HandlerEnd
    BY <1>6, LoopMoves DEF Pop, Dispatch, HandlerEnd
<1>7. CASE RunOneEnd
    BY <1>7, LoopMoves DEF RunOneEnd, LoopGoes
<1>8. CASE ShutdownDrainEnd \/ ShutdownClear \/ ShutdownEnd
    BY <1>8, LoopMoves DEF ShutdownDrainEnd, ShutdownClear, ShutdownEnd
<1> QED
    BY <1>1, <1>2, <1>3, <1>4, <1>5, <1>6, <1>7, <1>8 DEF LoopStep, LoopProgress

\* The steps of the loop thread leave the foreign threads where they are.
LEMMA LoopLeavesForeign ==
    ASSUME TypeInv, LoopStep, NEW t \in Foreign
    PROVE  pc'[t] = pc[t]
<1> USE DEF LoopPC, Callbacks, Running
<1>1. CASE LoopPost \/ LoopStop
    BY <1>1 DEF LoopPost, LoopStop
<1>2. CASE Start \/ StartEnd \/ RunOne \/ Run \/ Shutdown \/ SpuriousWake \/ WaitTimeOut
    BY <1>2, LoopMoves
    DEF Start, StartEnd, RunOne, Run, Shutdown, SpuriousWake, WaitTimeOut
<1>3. CASE WaitSleep \/ WaitReturn \/ WaitPass \/ FireEnd
    BY <1>3, LoopMoves DEF WaitSleep, WaitReturn, WaitPass, FireEnd
<1>4. CASE CheckStop
    BY <1>4, LoopMoves DEF CheckStop, LoopGoes
<1>5. CASE Pop \/ Dispatch \/ HandlerEnd
    BY <1>5, LoopMoves DEF Pop, Dispatch, HandlerEnd
<1>6. CASE RunOneEnd
    BY <1>6, LoopMoves DEF RunOneEnd, LoopGoes
<1>7. CASE ShutdownDrainEnd \/ ShutdownClear \/ ShutdownEnd
    BY <1>7, LoopMoves DEF ShutdownDrainEnd, ShutdownClear, ShutdownEnd
<1> QED
    BY <1>1, <1>2, <1>3, <1>4, <1>5, <1>6, <1>7 DEF LoopStep, LoopProgress

\* Every step preserves NoLostWakeup.
LEMMA WakeStep == TypeInv /\ NoLostWakeup /\ [Next]_vars => NoLostWakeup'
<1> SUFFICES ASSUME TypeInv, NoLostWakeup, [Next]_vars PROVE NoLostWakeup'
    OBVIOUS
<1> USE LoopIsNotForeign
<1>0. /\ pc \in [Threads -> LoopPC \cup ForeignPC]
      /\ Loop \in Threads /\ Foreign \subseteq Threads
    BY DEF TypeInv, TypeOK, Threads
<1>1. ASSUME NEW t \in Foreign, PostCheck(t) PROVE NoLostWakeup'
  <2>1. /\ pc'[Loop] = pc[Loop] /\ queue' = queue /\ stop' = stop
        /\ \A u \in Foreign : pc[u] = "notify" => pc'[u] = "notify"
      BY <1>0, <1>1 DEF PostCheck
  <2> QED
      BY <2>1 DEF NoLostWakeup
<1>2. ASSUME NEW t \in Foreign, PostLocked(t) PROVE NoLostWakeup'
  <2>1. CASE stop
    <3>1. /\ pc'[Loop] = pc[Loop] /\ queue' = queue /\ stop' = stop
          /\ \A u \in Foreign : pc[u] = "notify" => pc'[u] = "notify"
        BY <1>0, <1>2, <2>1 DEF PostLocked
    <3> QED
        BY <3>1 DEF NoLostWakeup
  <2>2. CASE ~stop
      BY <1>0, <1>2, <2>2 DEF PostLocked, NoLostWakeup
  <2> QED
      BY <2>1, <2>2
<1>3. ASSUME NEW t \in Foreign, StopLocked(t) PROVE NoLostWakeup'
    BY <1>0, <1>3 DEF StopLocked, NoLostWakeup
<1>4. ASSUME NEW t \in Foreign, Notify(t) PROVE NoLostWakeup'
    BY <1>0, <1>4 DEF Notify, NoLostWakeup
<1>5. CASE LoopStep
  <2>1. \/ pc'[Loop] # "asleep"
        \/ queue' = <<>> /\ ~stop'
      BY <1>5, LoopAwake
  <2> QED
      BY <2>1 DEF NoLostWakeup
<1>6. CASE UNCHANGED vars
    BY <1>6 DEF vars, NoLostWakeup
<1> QED
    BY <1>1, <1>2, <1>3, <1>4, <1>5, <1>6 DEF Next, ForeignStep

\* No wake-up is ever lost: if the loop thread sleeps while its predicate
\* holds, a thread is on its way to notify it.
THEOREM NoWakeupIsLost == Spec => []NoLostWakeup
<1>1. Init => TypeInv /\ NoLostWakeup
    BY TypeInit DEF Init, NoLostWakeup
<1>2. TypeInv /\ NoLostWakeup /\ [Next]_vars => (TypeInv /\ NoLostWakeup)'
    BY TypeStep, WakeStep
<1> QED
    BY <1>1, <1>2, PTL DEF Spec

-----------------------------------------------------------------------------
(***************************************************************************)
(* Quiet after run().                                                      *)
(***************************************************************************)

\* The second drain of run() happens with the flag set, which nobody clears
\* before shutdown() ends.  Without this fact QuietAfterRun is not inductive.
LastDrain ==
    frame = "last" /\ pc[Loop] \in {"drain", "dispatch", "handler"} => stop

QuietInv == QuietAfterRun /\ LastDrain

\* Every step preserves QuietInv.
LEMMA QuietStep == TypeInv /\ QuietInv /\ [Next]_vars => QuietInv'
<1> SUFFICES ASSUME TypeInv, QuietInv, [Next]_vars PROVE QuietInv'
    OBVIOUS
<1> USE LoopIsNotForeign DEF QuietInv, QuietAfterRun, LastDrain
<1>0. /\ pc \in [Threads -> LoopPC \cup ForeignPC]
      /\ Loop \in Threads /\ Foreign \subseteq Threads
    BY DEF TypeInv, TypeOK, Threads
<1>1. ASSUME NEW t \in Foreign, PostCheck(t) PROVE QuietInv'
    BY <1>0, <1>1 DEF PostCheck
<1>2. ASSUME NEW t \in Foreign, PostLocked(t) PROVE QuietInv'
    BY <1>0, <1>2 DEF PostLocked
<1>3. ASSUME NEW t \in Foreign, StopLocked(t) PROVE QuietInv'
    BY <1>0, <1>3 DEF StopLocked
<1>4. ASSUME NEW t \in Foreign, Notify(t) PROVE QuietInv'
    BY <1>0, <1>4 DEF Notify
<1>5. CASE LoopPost
    BY <1>5 DEF LoopPost
<1>6. CASE LoopStop
    BY <1>6 DEF LoopStop
<1> USE DEF LoopPC, Callbacks, Running
<1>7. CASE Start
    BY <1>0, <1>7 DEF Start, LoopGoes
<1>8. CASE StartEnd
    BY <1>0, <1>8 DEF StartEnd, LoopGoes
<1>9. CASE RunOne
    BY <1>0, <1>9 DEF RunOne, LoopGoes
<1>10. CASE Run
    BY <1>0, <1>10 DEF Run, LoopGoes
<1>11. CASE Shutdown
    BY <1>0, <1>11 DEF Shutdown, LoopGoes
<1>12. CASE WaitSleep
    BY <1>0, <1>12 DEF WaitSleep, LoopGoes
<1>13. CASE SpuriousWake \/ WaitTimeOut
    BY <1>0, <1>13 DEF SpuriousWake, WaitTimeOut, LoopGoes
<1>14. CASE WaitReturn
    BY <1>0, <1>14 DEF WaitReturn, LoopGoes
<1>15. CASE WaitPass
    BY <1>0, <1>15 DEF WaitPass, LoopGoes
<1>16. CASE FireEnd
    BY <1>0, <1>16 DEF FireEnd, LoopGoes
<1>17. CASE CheckStop
    BY <1>0, <1>17 DEF CheckStop, LoopGoes
<1>18. CASE Pop
    BY <1>0, <1>18 DEF Pop, LoopGoes
<1>19. CASE Dispatch
    BY <1>0, <1>19 DEF Dispatch, LoopGoes
<1>20. CASE HandlerEnd
    BY <1>0, <1>20 DEF HandlerEnd, LoopGoes
<1>21. CASE RunOneEnd
    BY <1>0, <1>21 DEF RunOneEnd, LoopGoes
<1>22. CASE ShutdownDrainEnd
    BY <1>0, <1>22 DEF ShutdownDrainEnd, LoopGoes
<1>23. CASE ShutdownClear
    BY <1>0, <1>23 DEF ShutdownClear, LoopGoes
<1>24. CASE ShutdownEnd
    BY <1>0, <1>24 DEF ShutdownEnd, LoopGoes
<1>25. CASE UNCHANGED vars
    BY <1>25 DEF vars
<1> QED
    BY <1>1, <1>2, <1>3, <1>4, <1>5, <1>6, <1>7, <1>8, <1>9, <1>10, <1>11,
       <1>12, <1>13, <1>14, <1>15, <1>16, <1>17, <1>18, <1>19, <1>20, <1>21, <1>22,
       <1>23, <1>24, <1>25
    DEF Next, ForeignStep, LoopStep, LoopProgress

\* Once run() has returned, nothing is queued and no handler runs until
\* shutdown() has ended, whatever the foreign threads do.
THEOREM QuietHolds == Spec => []QuietAfterRun
<1>1. Init => TypeInv /\ QuietInv
    BY TypeInit DEF Init, QuietInv, QuietAfterRun, LastDrain
<1>2. TypeInv /\ QuietInv /\ [Next]_vars => (TypeInv /\ QuietInv)'
    BY TypeStep, QuietStep
<1>3. QuietInv => QuietAfterRun
    BY DEF QuietInv
<1> QED
    BY <1>1, <1>2, <1>3, PTL DEF Spec

-----------------------------------------------------------------------------
(***************************************************************************)
(* The ledger: exactly once, in acceptance order.                          *)
(***************************************************************************)

\* Appending to the last of two sequences appends to their concatenation.
LEMMA AppendConcat ==
    ASSUME NEW s \in Seq(Envelope), NEW t \in Seq(Envelope), NEW e \in Envelope
    PROVE  Append(s \o t, e) = s \o Append(t, e)
<1>1. s \o t \in Seq(Envelope) /\ <<e>> \in Seq(Envelope)
    BY ConcatProperties
<1>2. Append(t, e) = t \o <<e>> /\ Append(s \o t, e) = (s \o t) \o <<e>>
    BY <1>1, AppendIsConcat
<1> QED
    BY <1>1, <1>2, ConcatAssociative

\* A non-empty sequence is its head followed by its tail.
LEMMA HeadThenTail ==
    ASSUME NEW S, NEW s \in Seq(S), s # <<>>
    PROVE  s = <<Head(s)>> \o Tail(s)
<1>1. /\ Head(s) \in S /\ Tail(s) \in Seq(S)
      /\ Len(Tail(s)) = Len(s) - 1 /\ Len(s) \in Nat \ {0}
      /\ \A i \in 1..Len(Tail(s)) : Tail(s)[i] = s[i + 1]
    BY HeadTailProperties, EmptySeq
<1>2. <<Head(s)>> \in Seq(S)
    BY <1>1
<1>3. /\ <<Head(s)>> \o Tail(s) \in Seq(S)
      /\ Len(<<Head(s)>> \o Tail(s)) = Len(s)
      /\ \A i \in 1..Len(s) : (<<Head(s)>> \o Tail(s))[i] =
             IF i <= 1 THEN Head(s) ELSE Tail(s)[i - 1]
    BY <1>1, <1>2, ConcatProperties
<1>4. \A i \in 1..Len(s) : s[i] = (<<Head(s)>> \o Tail(s))[i]
    BY <1>1, <1>3
<1> QED
    BY <1>3, <1>4, SeqEqual

\* A step that moves neither the ledger's sequences nor the hand.
LEMMA LedgerKept ==
    ASSUME Ledger, InHand' = InHand, UNCHANGED <<queue, accepted, served>>
    PROVE  Ledger'
    BY DEF Ledger

\* An envelope that is accepted goes to the end of the ledger.
LEMMA LedgerAppend ==
    ASSUME TypeInv, Ledger, NEW e \in Envelope, InHand' = InHand,
           queue' = Append(queue, e), accepted' = Append(accepted, e),
           served' = served
    PROVE  Ledger'
<1>1. InHand \in Seq(Envelope)
    BY DEF TypeInv, HandTyped, InHand
<1>2. served \o InHand \in Seq(Envelope) /\ queue \in Seq(Envelope)
    BY <1>1, ConcatProperties DEF TypeInv, TypeOK
<1> DEFINE front == served \o InHand
<1>3. Append(front \o queue, e) = front \o Append(queue, e)
  <2> HIDE DEF front
  <2>1. front \in Seq(Envelope) /\ queue \in Seq(Envelope)
      BY <1>2 DEF front
  <2> QED
      BY <2>1, AppendConcat
<1> QED
    BY <1>3 DEF Ledger

\* Every step preserves the ledger.
LEMMA LedgerStep == TypeInv /\ Ledger /\ [Next]_vars => Ledger'
<1> SUFFICES ASSUME TypeInv, Ledger, [Next]_vars PROVE Ledger'
    OBVIOUS
<1> USE LoopIsNotForeign
<1>0. /\ pc \in [Threads -> LoopPC \cup ForeignPC]
      /\ held \in [Threads -> Envelope \cup {NoEnvelope}]
      /\ queue \in Seq(Envelope) /\ served \in Seq(Envelope)
      /\ Loop \in Threads /\ Foreign \subseteq Threads
    BY DEF TypeInv, TypeOK, Threads
<1>1. ASSUME NEW t \in Foreign, PostCheck(t) PROVE Ledger'
    BY <1>0, <1>1, LedgerKept DEF PostCheck, InHand
<1>2. ASSUME NEW t \in Foreign, PostLocked(t) PROVE Ledger'
  <2>1. InHand' = InHand
    <3>1. pc'[Loop] = pc[Loop] /\ held'[Loop] = held[Loop]
        BY <1>0, <1>2 DEF PostLocked
    <3> QED
        BY <3>1 DEF InHand
  <2>2. CASE stop
      BY <1>2, <2>1, <2>2, LedgerKept DEF PostLocked
  <2>3. CASE ~stop
    <3>1. held[t] \in Envelope
        BY <1>2 DEF PostLocked, TypeInv, HandTyped
    <3> QED
        BY <1>2, <2>1, <2>3, <3>1, LedgerAppend DEF PostLocked
  <2> QED
      BY <2>2, <2>3
<1>3. ASSUME NEW t \in Foreign, StopLocked(t) PROVE Ledger'
    BY <1>0, <1>3, LedgerKept DEF StopLocked, InHand
<1>4. ASSUME NEW t \in Foreign, Notify(t) PROVE Ledger'
    BY <1>0, <1>4, LedgerKept DEF Notify, InHand
<1>5. CASE LoopPost
  <2>1. InHand' = InHand
      BY <1>5 DEF LoopPost, InHand
  <2>2. CASE stop
      BY <1>5, <2>1, <2>2, LedgerKept DEF LoopPost
  <2>3. CASE ~stop
    <3>1. NextEnvelope(Loop) \in Envelope
        BY <1>0, <1>5, NextEnvelopeType DEF LoopPost, TypeInv
    <3> QED
        BY <1>5, <2>1, <2>3, <3>1, LedgerAppend DEF LoopPost
  <2> QED
      BY <2>2, <2>3
<1>6. CASE LoopStop
    BY <1>6, LedgerKept DEF LoopStop, InHand
<1>7. CASE Start
    BY <1>0, <1>7, LedgerKept DEF Start, LoopGoes, InHand
<1>8. CASE StartEnd
    BY <1>0, <1>8, LedgerKept DEF StartEnd, LoopGoes, InHand
<1>9. CASE RunOne
    BY <1>0, <1>9, LedgerKept DEF RunOne, LoopGoes, InHand
<1>10. CASE Run
    BY <1>0, <1>10, LedgerKept DEF Run, LoopGoes, InHand
<1>11. CASE Shutdown
    BY <1>0, <1>11, LedgerKept DEF Shutdown, LoopGoes, InHand
<1>12. CASE WaitSleep
    BY <1>0, <1>12, LedgerKept DEF WaitSleep, LoopGoes, InHand
<1>13. CASE SpuriousWake \/ WaitTimeOut
    BY <1>0, <1>13, LedgerKept DEF SpuriousWake, WaitTimeOut, LoopGoes, InHand
<1>14. CASE WaitReturn
    BY <1>0, <1>14, LedgerKept DEF WaitReturn, LoopGoes, InHand
<1>15. CASE WaitPass
    BY <1>0, <1>15, LedgerKept DEF WaitPass, LoopGoes, InHand
<1>16. CASE FireEnd
    BY <1>0, <1>16, LedgerKept DEF FireEnd, LoopGoes, InHand
<1>17. CASE CheckStop
    BY <1>0, <1>17, LedgerKept DEF CheckStop, LoopGoes, InHand
<1>18. CASE HandlerEnd
    BY <1>0, <1>18, LedgerKept DEF HandlerEnd, LoopGoes, InHand
<1>19. CASE RunOneEnd
    BY <1>0, <1>19, LedgerKept DEF RunOneEnd, LoopGoes, InHand
<1>20. CASE ShutdownDrainEnd
    BY <1>0, <1>20, LedgerKept DEF ShutdownDrainEnd, LoopGoes, InHand
<1>21. CASE ShutdownEnd
    BY <1>0, <1>21, LedgerKept DEF ShutdownEnd, LoopGoes, InHand
<1>22. CASE Pop
  <2>1. queue = <<Head(queue)>> \o Tail(queue)
      BY <1>0, <1>22, HeadThenTail DEF Pop
  <2>2. InHand = <<>> /\ InHand' = <<Head(queue)>> /\ queue' = Tail(queue)
      BY <1>0, <1>22 DEF Pop, LoopGoes, InHand
  <2>3. /\ <<Head(queue)>> \in Seq(Envelope) /\ Tail(queue) \in Seq(Envelope)
        /\ served \o <<>> = served
      BY <1>0, <1>22, HeadTailProperties, ConcatEmptySeq DEF Pop
  <2>4. accepted = served \o (<<Head(queue)>> \o Tail(queue))
      BY <2>1, <2>2, <2>3 DEF Ledger
  <2>5. accepted = (served \o <<Head(queue)>>) \o Tail(queue)
      BY <1>0, <2>3, <2>4, ConcatAssociative
  <2> QED
      BY <1>22, <2>2, <2>5 DEF Pop, Ledger, history
<1>23. CASE Dispatch
  <2>1. held[Loop] \in Envelope
      BY <1>23 DEF Dispatch, LoopGoes, TypeInv, HandTyped
  <2>2. InHand = <<held[Loop]>> /\ InHand' = <<>>
      BY <1>0, <1>23 DEF Dispatch, LoopGoes, InHand
  <2>3. served' = served \o <<held[Loop]>> /\ served' \in Seq(Envelope)
      BY <1>0, <1>23, <2>1, AppendIsConcat DEF Dispatch
  <2>4. served' \o <<>> = served'
      BY <2>3, ConcatEmptySeq
  <2> QED
      BY <1>23, <2>2, <2>3, <2>4 DEF Dispatch, Ledger
<1>24. CASE ShutdownClear
  <2>1. InHand = <<>> /\ InHand' = <<>>
      BY <1>0, <1>24 DEF ShutdownClear, LoopGoes, InHand
  <2>2. /\ served \o <<>> = served
        /\ ((served \o queue) \o <<>>) \o <<>> = served \o queue
      BY <1>0, ConcatEmptySeq, ConcatProperties
  <2> QED
      BY <1>24, <2>1, <2>2 DEF ShutdownClear, Ledger
<1>25. CASE UNCHANGED vars
    BY <1>25, LedgerKept DEF vars, InHand
<1> QED
    BY <1>1, <1>2, <1>3, <1>4, <1>5, <1>6, <1>7, <1>8, <1>9, <1>10, <1>11,
       <1>12, <1>13, <1>14, <1>15, <1>16, <1>17, <1>18, <1>19, <1>20, <1>21, <1>22,
       <1>23, <1>24, <1>25
    DEF Next, ForeignStep, LoopStep, LoopProgress

LedgerInv == TypeInv /\ Ledger

\* Initially the ledger is empty.
LEMMA LedgerInit == Init => LedgerInv
<1>1. Init => <<>> = (<<>> \o <<>>) \o <<>>
    BY EmptySeq, ConcatEmptySeq
<1>2. Init => InHand = <<>>
    BY DEF Init, InHand, Threads
<1>3. Init => Ledger
    BY <1>1, <1>2 DEF Init, Ledger
<1> QED
    BY <1>3, TypeInit DEF LedgerInv

\* No envelope is lost, duplicated or overtaken between post() and dispatch,
\* for any number of foreign threads and posts.
THEOREM LedgerHolds == Spec => []Ledger
<1>1. LedgerInv /\ [Next]_vars => LedgerInv'
    BY TypeStep, LedgerStep DEF LedgerInv
<1>2. LedgerInv => Ledger
    BY DEF LedgerInv
<1> QED
    BY LedgerInit, <1>1, <1>2, PTL DEF Spec

-----------------------------------------------------------------------------
(***************************************************************************)
(* The loop implements the abstract queue.                                 *)
(***************************************************************************)

\* The envelope in the loop thread's hand is the oldest one not yet served.
LEMMA HandIsNext ==
    ASSUME LedgerInv, pc[Loop] = "dispatch"
    PROVE  /\ Len(served) < Len(accepted)
           /\ accepted[Len(served) + 1] = held[Loop]
<1>1. /\ held[Loop] \in Envelope /\ InHand = <<held[Loop]>>
      /\ served \in Seq(Envelope) /\ queue \in Seq(Envelope)
    BY DEF LedgerInv, TypeInv, TypeOK, HandTyped, InHand
<1>2. /\ <<held[Loop]>> \in Seq(Envelope) /\ Len(<<held[Loop]>>) = 1
      /\ <<held[Loop]>>[1] = held[Loop]
    BY <1>1
<1>3. /\ served \o <<held[Loop]>> \in Seq(Envelope)
      /\ Len(served \o <<held[Loop]>>) = Len(served) + 1
      /\ (served \o <<held[Loop]>>)[Len(served) + 1] = held[Loop]
    BY <1>1, <1>2, ConcatProperties, LenProperties
<1>4. /\ Len((served \o <<held[Loop]>>) \o queue) = Len(served) + 1 + Len(queue)
      /\ ((served \o <<held[Loop]>>) \o queue)[Len(served) + 1] = held[Loop]
    BY <1>1, <1>3, ConcatProperties, LenProperties
<1> QED
    BY <1>1, <1>4, LenProperties DEF LedgerInv, Ledger

\* Every step of the loop is a step of the abstract queue, or stutters.
LEMMA QueueStep == LedgerInv /\ [Next]_vars => [Queue!QNext]_(Queue!qvars)
<1> SUFFICES ASSUME LedgerInv, [Next]_vars
             PROVE  Queue!QNext \/ UNCHANGED <<stop, accepted, served>>
    BY DEF Queue!qvars
<1>1. TypeInv /\ Ledger
    BY DEF LedgerInv
<1>2. ASSUME NEW t \in Foreign, PostLocked(t), ~stop PROVE Queue!QNext
  <2>1. held[t] \in Envelope
      BY <1>1, <1>2 DEF PostLocked, TypeInv, HandTyped
  <2>2. Queue!Accept(held[t])
      BY <1>2 DEF PostLocked, Queue!Accept
  <2> QED
      BY <2>1, <2>2 DEF Queue!QNext
<1>3. ASSUME LoopPost, ~stop PROVE Queue!QNext
  <2>1. NextEnvelope(Loop) \in Envelope
      BY <1>1, <1>3, NextEnvelopeType DEF LoopPost, TypeInv, Threads
  <2>2. Queue!Accept(NextEnvelope(Loop))
      BY <1>3 DEF LoopPost, Queue!Accept
  <2> QED
      BY <2>1, <2>2 DEF Queue!QNext
<1>4. ASSUME NEW t \in Foreign, StopLocked(t) PROVE Queue!QNext
    BY <1>4 DEF StopLocked, Queue!QNext, Queue!Close
<1>5. CASE LoopStop
    BY <1>5 DEF LoopStop, Queue!QNext, Queue!Close
<1>6. CASE Dispatch
  <2>1. /\ Len(served) < Len(accepted)
        /\ accepted[Len(served) + 1] = held[Loop]
      BY <1>6, HandIsNext DEF Dispatch, LoopGoes
  <2> QED
      BY <1>6, <2>1 DEF Dispatch, Queue!QNext, Queue!Serve
<1>7. CASE ShutdownClear
  <2>1. InHand = <<>>
      BY <1>7 DEF ShutdownClear, LoopGoes, InHand
  <2>2. accepted = served \o queue
      BY <1>1, <2>1, ConcatEmptySeq DEF Ledger, TypeInv, TypeOK
  <2> QED
      BY <1>7, <2>2 DEF ShutdownClear, Queue!QNext, Queue!Abandon
<1>8. CASE ShutdownEnd
    BY <1>8 DEF ShutdownEnd, Queue!QNext, Queue!Reopen
<1>9. ASSUME NEW t \in Foreign,
             PostCheck(t) \/ Notify(t) \/ (PostLocked(t) /\ stop)
      PROVE  UNCHANGED <<stop, accepted, served>>
    BY <1>9 DEF PostCheck, Notify, PostLocked
<1>10. CASE LoopPost /\ stop
    BY <1>10 DEF LoopPost
<1>11. CASE \/ Start \/ StartEnd \/ RunOne \/ Run \/ Shutdown
            \/ SpuriousWake \/ WaitTimeOut \/ WaitSleep \/ WaitReturn \/ WaitPass
    BY <1>11 DEF Start, StartEnd, RunOne, Run, Shutdown, SpuriousWake, WaitTimeOut,
                 WaitSleep, WaitReturn, WaitPass
<1>12. CASE \/ FireEnd \/ CheckStop \/ Pop \/ HandlerEnd \/ RunOneEnd
            \/ ShutdownDrainEnd
    BY <1>12 DEF FireEnd, CheckStop, Pop, HandlerEnd, RunOneEnd,
                 ShutdownDrainEnd
<1>13. CASE UNCHANGED vars
    BY <1>13 DEF vars
<1> QED
    BY <1>2, <1>3, <1>4, <1>5, <1>6, <1>7, <1>8, <1>9, <1>10, <1>11, <1>12,
       <1>13
    DEF Next, ForeignStep, LoopStep, LoopProgress

\* The event loop implements the abstract queue: it accepts only while open,
\* serves in acceptance order, and abandons only in shutdown().
THEOREM LoopImplementsQueue == Spec => ImplementsQueue
<1>1. Init => Queue!QInit
    BY DEF Init, Queue!QInit
<1>2. LedgerInv /\ [Next]_vars => LedgerInv'
    BY TypeStep, LedgerStep DEF LedgerInv
<1> QED
    BY LedgerInit, <1>1, <1>2, QueueStep, PTL
    DEF Spec, ImplementsQueue, Queue!QSpec
=============================================================================
