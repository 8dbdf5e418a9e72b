------------------------ MODULE PositionBookProofs ------------------------
(***************************************************************************)
(* Proofs about PositionBook, for any processes, any size of the entry and *)
(* any number of deaths: the rows go the way of TradeLifecycle, so that    *)
(* the lifecycle takes legal transitions only, a trade is reviewed once    *)
(* and a lifecycle ends only behind its lesson; each lot is part of a fill *)
(* that the broker has reached; and a clean end or a close rests on what   *)
(* the process has seen.                                                   *)
(* For a process that runs alone: the lots fit the fill, a clean end means *)
(* that book and broker match, and a trade closes on a verified exit.      *)
(*                                                                         *)
(* All but four actions of a process are tame: they leave postmortem and   *)
(* lesson alone, may create the lifecycle, and neither stand before a swap *)
(* or a lesson afterwards nor on the way to CLOSED.  The four others are   *)
(* ReadState, SwapState, RecordPostmortem and Observe.                     *)
(***************************************************************************)
EXTENDS PositionBook, SumTheorems

---------------------------------------------------------------------------
(* Places and transitions.                                                 *)

\* The places a transition returns to.
LEMMA GoalPlaces ==
    /\ DOMAIN Goal = {"finish", "placed", "end", "review", "emergency", "manual", "remedy"}
    /\ \A l \in DOMAIN Goal : Goal[l] \in State
    /\ \A l \in DOMAIN Goal : Goal[l] = "CLOSED" <=> l = "end"
BY DEF Goal, State

\* Whoever is not p stays where it is.
Others(p) ==
    \A q \in Process \ {p} :
        pc'[q] = pc[q] /\ back'[q] = back[q] /\ was'[q] = was[q]

\* What most actions of p are to the invariant.
Tame(p) ==
    /\ UNCHANGED <<reviewed, lessons>>
    /\ lc' = lc \/ (lc = "none" /\ lc' = "OPEN")
    /\ ControlOK'
    /\ Others(p)
    /\ pc'[p] \notin {"swap", "observe"}
    /\ pc'[p] = "state" => back'[p] # "end"

\* A tame action preserves the invariant.
LEMMA TamePreserves ==
    ASSUME NEW p \in Process, ControlOK, BookInv, Tame(p)
    PROVE  BookInv'
<1>1. SwapInv'
  BY DEF BookInv, SwapInv, Tame, Others
<1>2. LessonInv'
  BY DEF BookInv, LessonInv, Tame, Others
<1>3. EndInv'
  BY DEF BookInv, EndInv, Tame, Others
<1>4. ClosedLifecycleIsReviewed'
  BY DEF BookInv, ClosedLifecycleIsReviewed, Tame
<1> QED
  BY <1>1, <1>2, <1>3, <1>4 DEF BookInv

---------------------------------------------------------------------------
(* The tame actions.                                                       *)

\* reconcile up to the loop over the open trades.
LEMMA RecoveryIsTame ==
    ASSUME NEW p \in Process, ControlOK,
           \/ StartReconcile(p) \/ ReadOrders(p) \/ SnapshotFails(p)
           \/ Recover(p) \/ Refill(p) \/ Relink(p) \/ ListTrade(p)
    PROVE  Tame(p)
<1> USE GoalPlaces
<1> USE DEF Tame, Others, ControlOK, Label, local
<1>1. CASE StartReconcile(p)
  BY <1>1 DEF StartReconcile, Step, Goto, rows
<1>2. CASE ReadOrders(p)
  BY <1>2 DEF ReadOrders, Step, Goto, rows
<1>3. CASE SnapshotFails(p)
  BY <1>3 DEF SnapshotFails, Return
<1>4. CASE Recover(p)
  BY <1>4 DEF Recover, Goto, Note
<1>5. CASE Refill(p)
  BY <1>5 DEF Refill, Goto, Note
<1>6. CASE Relink(p)
  BY <1>6 DEF Relink, Step, Goto
<1>7. CASE ListTrade(p)
  BY <1>7 DEF ListTrade, Goto, Note, rows
<1> QED
  BY <1>1, <1>2, <1>3, <1>4, <1>5, <1>6, <1>7

\* The loop over the open trades, with a position.
LEMMA HeldIsTame ==
    ASSUME NEW p \in Process, ControlOK,
           \/ Held(p) \/ SyncLot(p, "held_lot", "hold") \/ Hold(p)
           \/ Look(p) \/ Protect(p) \/ Alarm(p) \/ Emergency(p)
    PROVE  Tame(p)
<1> USE GoalPlaces
<1> USE DEF Tame, Others, ControlOK, Label, local
<1>1. CASE Held(p)
  BY <1>1 DEF Held, Goto, Note, rows
<1>2. CASE SyncLot(p, "held_lot", "hold")
  BY <1>2 DEF SyncLot, Goto, Return
<1>3. CASE Hold(p)
  BY <1>3 DEF Hold, Step, Goto
<1>4. CASE Look(p)
  BY <1>4 DEF Look, Step, Goto, rows
<1>5. CASE Protect(p)
  BY <1>5 DEF Protect, Goto, Note, Return, Transit, CreateOpen, State
<1>6. CASE Alarm(p)
  BY <1>6 DEF Alarm, Transit
<1>7. CASE Emergency(p)
  BY <1>7 DEF Emergency, Step, Goto, rows
<1> QED
  BY <1>1, <1>2, <1>3, <1>4, <1>5, <1>6, <1>7

\* The loop over the open trades, without a position, and the end.
LEMMA GoneIsTame ==
    ASSUME NEW p \in Process, ControlOK,
           \/ Gone(p) \/ SyncLot(p, "gone_lot", "grow") \/ Grow(p)
           \/ Exit(p) \/ CreateExit(p) \/ NoExit(p)
           \/ Review(p) \/ Close(p) \/ EndTrade(p) \/ Finish(p)
    PROVE  Tame(p)
<1> USE GoalPlaces
<1> USE DEF Tame, Others, ControlOK, Label, local
<1>1. CASE Gone(p)
  BY <1>1 DEF Gone, Goto, rows
<1>2. CASE SyncLot(p, "gone_lot", "grow")
  BY <1>2 DEF SyncLot, Goto, Return
<1>3. CASE Grow(p)
  BY <1>3 DEF Grow, Step, Goto
<1>4. CASE Exit(p)
  BY <1>4 DEF Exit, Goto, Transit, rows
<1>5. CASE CreateExit(p)
  BY <1>5 DEF CreateExit, CreateOpen, Transit, Return, State
<1>6. CASE NoExit(p)
  BY <1>6 DEF NoExit, Goto, Note
<1>7. CASE Review(p)
  BY <1>7 DEF Review, Goto, Return, rows
<1>8. CASE Close(p)
  BY <1>8 DEF Close, Step, Goto
<1>9. CASE EndTrade(p)
  BY <1>9 DEF EndTrade, Goto
<1>10. CASE Finish(p)
  BY <1>10 DEF Finish, Return
<1> QED
  BY <1>1, <1>2, <1>3, <1>4, <1>5, <1>6, <1>7, <1>8, <1>9, <1>10

\* The close command, the end of a submission, and death.
LEMMA CommandIsTame ==
    ASSUME NEW p \in Process, ControlOK,
           \/ StartClose(p) \/ ManualClose(p) \/ HaltUnknownClose(p) \/ NoteClose(p)
           \/ Persist(p) \/ Fill(p) \/ Link(p) \/ Open(p) \/ Placed(p)
           \/ Remediate(p) \/ RemedyClose(p) \/ MarkUnknown(p) \/ LatchUnknown(p)
           \/ Crash(p)
    PROVE  Tame(p)
<1> USE GoalPlaces
<1> USE DEF Tame, Others, ControlOK, Label, local
<1>1. CASE StartClose(p)
  BY <1>1 DEF StartClose, Transit, rows
<1>2. CASE ManualClose(p)
  BY <1>2 DEF ManualClose, Goto, rows
<1>3. CASE HaltUnknownClose(p)
  BY <1>3 DEF HaltUnknownClose, Step, Goto
<1>4. CASE NoteClose(p)
  BY <1>4 DEF NoteClose, Return
<1>5. CASE Persist(p)
  BY <1>5 DEF Persist, Goto
<1>6. CASE Fill(p)
  BY <1>6 DEF Fill, Goto
<1>7. CASE Link(p)
  BY <1>7 DEF Link, Goto, Return
<1>8. CASE Open(p)
  BY <1>8 DEF Open, CreateOpen, Goto, Transit, State
<1>9. CASE Placed(p)
  BY <1>9 DEF Placed, Return, rows
<1>10. CASE Remediate(p)
  BY <1>10 DEF Remediate, Transit
<1>11. CASE RemedyClose(p)
  BY <1>11 DEF RemedyClose, Return, rows
<1>12. CASE MarkUnknown(p)
  BY <1>12 DEF MarkUnknown, Step, Goto
<1>13. CASE LatchUnknown(p)
  BY <1>13 DEF LatchUnknown, Return
<1>14. CASE Crash(p)
  BY <1>14 DEF Crash, Return, rows
<1> QED
  BY <1>1, <1>2, <1>3, <1>4, <1>5, <1>6, <1>7, <1>8, <1>9, <1>10, <1>11, <1>12, <1>13, <1>14

---------------------------------------------------------------------------
(* The other four.                                                         *)

\* An illegal transition sends p to a place where it relies on nothing.
LEMMA RaiseIsTame ==
    ASSUME NEW p \in Process, ControlOK, Raise(p), UNCHANGED <<lc, reviewed, lessons>>
    PROVE  Tame(p)
BY GoalPlaces DEF Raise, Tame, Others, ControlOK, Label, Goto, Return, local

\* Whoever reads the state stands before a swap only with a legal one.
LEMMA ReadStatePreserves ==
    ASSUME NEW p \in Process, ControlOK, BookInv, ReadState(p)
    PROVE  ControlOK' /\ BookInv'
<1> USE GoalPlaces
<1>1. CASE lc = "EXIT_PENDING" /\ Goal[back[p]] = "EXIT_PENDING"
  <2>1. Tame(p)
    BY <1>1 DEF ReadState, Goto, Tame, Others, ControlOK, Label, local, rows
  <2> QED
    BY <2>1, TamePreserves DEF Tame
<1>2. CASE /\ ~(lc = "EXIT_PENDING" /\ Goal[back[p]] = "EXIT_PENDING")
           /\ <<lc, Goal[back[p]]>> \in Legal
  <2>1. /\ pc' = [pc EXCEPT ![p] = "swap"] /\ was' = [was EXCEPT ![p] = lc]
        /\ UNCHANGED <<back, lc, reviewed, lessons>> /\ pc[p] = "state"
    BY <1>2 DEF ReadState, Goto, rows
  <2>2. ControlOK'
    BY <2>1 DEF ControlOK, Label
  <2>3. SwapInv'
    BY <1>2, <2>1 DEF BookInv, SwapInv, ControlOK
  <2>4. LessonInv' /\ EndInv' /\ ClosedLifecycleIsReviewed'
    BY <2>1 DEF BookInv, LessonInv, EndInv, ClosedLifecycleIsReviewed, ControlOK
  <2> QED
    BY <2>2, <2>3, <2>4 DEF BookInv
<1>3. CASE /\ ~(lc = "EXIT_PENDING" /\ Goal[back[p]] = "EXIT_PENDING")
           /\ <<lc, Goal[back[p]]>> \notin Legal
  <2>1. Raise(p) /\ UNCHANGED <<lc, reviewed, lessons>>
    BY <1>3 DEF ReadState, rows
  <2> QED
    BY <2>1, RaiseIsTame, TamePreserves DEF Tame
<1> QED
  BY <1>1, <1>2, <1>3

\* The swap closes a lifecycle only for a process that has drawn the lesson.
LEMMA SwapStatePreserves ==
    ASSUME NEW p \in Process, ControlOK, BookInv, SwapState(p)
    PROVE  ControlOK' /\ BookInv'
<1> USE GoalPlaces
<1>1. CASE lc = was[p]
  <2>1. /\ pc' = [pc EXCEPT ![p] = back[p]] /\ lc' = Goal[back[p]]
        /\ UNCHANGED <<back, was, reviewed, lessons>> /\ pc[p] = "swap"
    BY <1>1 DEF SwapState, Goto, local
  <2>2. ControlOK'
    BY <2>1 DEF ControlOK, Label
  <2>3. SwapInv' /\ LessonInv' /\ EndInv'
    BY <2>1 DEF BookInv, SwapInv, LessonInv, EndInv, ControlOK
  <2>4. ClosedLifecycleIsReviewed'
    BY <2>1 DEF BookInv, EndInv, ClosedLifecycleIsReviewed, ControlOK
  <2> QED
    BY <2>2, <2>3, <2>4 DEF BookInv
<1>2. CASE lc # was[p]
  <2>1. Raise(p) /\ UNCHANGED <<lc, reviewed, lessons>>
    BY <1>2 DEF SwapState
  <2> QED
    BY <2>1, RaiseIsTame, TamePreserves DEF Tame
<1> QED
  BY <1>1, <1>2

\* The unique postmortem lets one process on to the lesson.
LEMMA RecordPreserves ==
    ASSUME NEW p \in Process, ControlOK, BookInv, RecordPostmortem(p)
    PROVE  ControlOK' /\ BookInv'
<1> USE GoalPlaces
<1>1. CASE reviewed
  <2>1. Tame(p)
    BY <1>1 DEF RecordPostmortem, Return, Tame, Others, ControlOK, Label
  <2> QED
    BY <2>1, TamePreserves DEF Tame
<1>2. CASE ~reviewed
  <2>1. /\ pc' = [pc EXCEPT ![p] = "observe"] /\ reviewed' = TRUE
        /\ UNCHANGED <<back, was, lc, lessons>>
    BY <1>2 DEF RecordPostmortem, Goto, local
  <2>2. ControlOK'
    BY <2>1 DEF ControlOK, Label
  <2>3. SwapInv' /\ EndInv' /\ ClosedLifecycleIsReviewed'
    BY <2>1 DEF BookInv, SwapInv, EndInv, ClosedLifecycleIsReviewed, ControlOK
  <2>4. LessonInv'
    BY <1>2, <2>1 DEF BookInv, LessonInv, ControlOK
  <2> QED
    BY <2>2, <2>3, <2>4 DEF BookInv
<1> QED
  BY <1>1, <1>2

\* The lesson is drawn once, and then the way to CLOSED is free.
LEMMA ObservePreserves ==
    ASSUME NEW p \in Process, ControlOK, BookInv, Observe(p)
    PROVE  ControlOK' /\ BookInv'
<1> USE GoalPlaces
<1>1. /\ pc[p] = "observe" /\ reviewed /\ lessons = 0
      /\ pc' = [pc EXCEPT ![p] = "state"] /\ back' = [back EXCEPT ![p] = "end"]
      /\ lessons' = 1 /\ UNCHANGED <<was, lc, reviewed>>
  BY DEF Observe, Transit, local, BookInv, LessonInv
<1>2. ControlOK'
  BY <1>1 DEF ControlOK, Label
<1>3. SwapInv' /\ EndInv' /\ ClosedLifecycleIsReviewed'
  BY <1>1 DEF BookInv, SwapInv, EndInv, ClosedLifecycleIsReviewed, ControlOK
<1>4. LessonInv'
  BY <1>1 DEF BookInv, LessonInv, ControlOK
<1> QED
  BY <1>2, <1>3, <1>4 DEF BookInv

---------------------------------------------------------------------------
(* The invariant and what follows from it.                                 *)

\* Every step preserves it.
LEMMA StepPreserves ==
    ASSUME ControlOK, BookInv, [Next]_vars
    PROVE  ControlOK' /\ BookInv'
<1>1. ASSUME NEW p \in Process,
             \/ StartReconcile(p) \/ StartClose(p) \/ SnapshotFails(p)
             \/ ReconcileStep(p) \/ OtherStep(p) \/ Crash(p)
      PROVE  ControlOK' /\ BookInv'
  <2>1. \/ Tame(p) \/ ReadState(p) \/ SwapState(p) \/ RecordPostmortem(p) \/ Observe(p)
    BY <1>1, RecoveryIsTame, HeldIsTame, GoneIsTame, CommandIsTame
    DEF ReconcileStep, OtherStep
  <2>2. CASE Tame(p)
    BY <2>2, TamePreserves DEF Tame
  <2> QED
    BY <2>1, <2>2, ReadStatePreserves, SwapStatePreserves, RecordPreserves, ObservePreserves
<1>2. CASE BrokerStep \/ UNCHANGED vars
  <2>1. UNCHANGED <<pc, back, was, lc, reviewed, lessons>>
    BY <1>2 DEF BrokerStep, Buy, EndEntry, SellByLeg, SellByClose, LoseLegs,
                processSame, vars, rows, local
  <2>2. ControlOK'
    BY <2>1 DEF ControlOK
  <2>3. SwapInv' /\ LessonInv'
    BY <2>1 DEF BookInv, SwapInv, LessonInv
  <2>4. EndInv' /\ ClosedLifecycleIsReviewed'
    BY <2>1 DEF BookInv, EndInv, ClosedLifecycleIsReviewed
  <2> QED
    BY <2>2, <2>3, <2>4 DEF BookInv
<1> QED
  BY <1>1, <1>2 DEF Next

LEMMA InitEstablishes == Init => ControlOK /\ BookInv
<1> SUFFICES ASSUME Init PROVE ControlOK /\ BookInv
  OBVIOUS
<1>1. \A p \in Process : pc[p] \in {"persist", "idle"}
  BY DEF Init
<1>2. ControlOK
  <2>1. pc \in [Process -> Label]
    BY DEF Init, Label
  <2>2. back \in [Process -> DOMAIN Goal] /\ was \in [Process -> State \cup {"none"}]
    BY GoalPlaces DEF Init
  <2>3. lc \in State \cup {"none"} /\ reviewed \in BOOLEAN
    BY DEF Init
  <2> QED
    BY <2>1, <2>2, <2>3 DEF ControlOK
<1>3. SwapInv /\ LessonInv
  BY <1>1 DEF Init, SwapInv, LessonInv
<1>4. EndInv /\ ClosedLifecycleIsReviewed
  BY <1>1 DEF Init, EndInv, ClosedLifecycleIsReviewed
<1> QED
  BY <1>2, <1>3, <1>4 DEF BookInv

\* The inductive invariant, with the types it needs, holds of every behaviour.
THEOREM Invariance == Spec => [](ControlOK /\ BookInv)
<1>1. ControlOK /\ BookInv /\ [Next]_vars => (ControlOK /\ BookInv)'
  BY StepPreserves
<1> QED
  BY InitEstablishes, <1>1, PTL DEF Spec

\* Reconcilers that race, die and start again draw one lesson from a trade.
THEOREM OneLesson == Spec => []ReviewedOnce
<1>1. BookInv => ReviewedOnce
  BY DEF BookInv, LessonInv, ReviewedOnce
<1> QED
  BY Invariance, <1>1, PTL

\* A lifecycle is CLOSED only behind the postmortem and the lesson.
THEOREM ClosedBehindReview == Spec => []ClosedLifecycleIsReviewed
<1>1. BookInv => ClosedLifecycleIsReviewed
  BY DEF BookInv
<1> QED
  BY Invariance, <1>1, PTL

\* A tame action creates the lifecycle or leaves it alone; the swap takes a
\* legal transition because it compares with the state that was read.
LEMMA StepIsLegal ==
    ASSUME ControlOK, BookInv, [Next]_vars, lc' # lc
    PROVE  (lc = "none" /\ lc' = "OPEN") \/ <<lc, lc'>> \in Legal
<1>1. ~(BrokerStep \/ UNCHANGED vars)
  BY DEF BrokerStep, Buy, EndEntry, SellByLeg, SellByClose, LoseLegs, processSame, vars, rows
<1>2. PICK p \in Process :
         \/ StartReconcile(p) \/ StartClose(p) \/ SnapshotFails(p)
         \/ ReconcileStep(p) \/ OtherStep(p) \/ Crash(p)
  BY <1>1 DEF Next
<1>3. \/ Tame(p) \/ ReadState(p) \/ SwapState(p) \/ RecordPostmortem(p) \/ Observe(p)
  BY <1>2, RecoveryIsTame, HeldIsTame, GoneIsTame, CommandIsTame
  DEF ReconcileStep, OtherStep
<1>4. CASE Tame(p)
  BY <1>4 DEF Tame
<1>5. CASE SwapState(p)
  BY <1>5 DEF SwapState, BookInv, SwapInv
<1>6. ~ReadState(p) /\ ~RecordPostmortem(p) /\ ~Observe(p)
  BY DEF ReadState, RecordPostmortem, Observe, rows
<1> QED
  BY <1>3, <1>4, <1>5, <1>6

\* Whatever interleaves, the lifecycle takes legal transitions only.
THEOREM LifecycleIsLegal == Spec => LegalLifecycle
<1>1. ControlOK /\ BookInv /\ [Next]_vars =>
         [lc' # lc => (lc = "none" /\ lc' = "OPEN") \/ <<lc, lc'>> \in Legal]_vars
  BY StepIsLegal
<1> QED
  BY Invariance, <1>1, PTL DEF Spec, LegalLifecycle

---------------------------------------------------------------------------
(* The quantities, whatever interleaves.                                   *)
(*                                                                         *)
(* Several processes may book a fill twice, so that the lots claim more    *)
(* than was bought.  What is left of the promise then: each lot belongs to *)
(* a quantity that the broker has reached, and is no more than it; and no  *)
(* size of the trade exceeds both the lots and what was bought, which is   *)
(* why a rest that is still to be recorded is within what was bought.      *)

\* The broker sold no more than it bought; what a snapshot saw has happened.
SnapshotInv ==
    /\ legSold + closeSold <= bought
    /\ \A p \in Process :
          /\ seen[p].bought <= bought
          /\ seen[p].legSold + seen[p].closeSold <= seen[p].bought
          /\ seen[p].legSold <= legSold /\ seen[p].closeSold <= closeSold

\* The quantities a fill may have reached.
Reached == 1..Shares

\* A lot is recorded for a fill that was reached, and is no more than it.
FilledLots == \A n \in Reached : lots[n] # 0 => lots[n] <= n /\ n <= bought

\* What lots or broker account for.
Booked == Larger(LotSum(lots), bought)

\* No size of the trade, stored or read, is more than that.
SizesFit == shares <= Booked /\ \A p \in Process : size[p] <= Booked

\* A rest about to be recorded is the rest of a fill that was reached.
RestAt(p) ==
    /\ pc[p] \in {"held_lot", "gone_lot"} =>
          /\ prior[p] <= LotSum(lots)
          /\ Expected(p) <= prior[p] \/ Expected(p) <= bought
    /\ pc[p] \in {"refill", "fill"} => seen[p].bought > 0

RestFits == \A p \in Process : RestAt(p)

\* The types, and what holds of the quantities.
RaceOK ==
    /\ BrokerOK /\ RowOK /\ SizeOK
    /\ SnapshotInv /\ FilledLots /\ SizesFit /\ RestFits

\* The lots are natural numbers, and so is their sum.
LEMMA LotSumNat ==
    ASSUME NEW f \in [1..Shares -> 0..Shares]
    PROVE  /\ IsFiniteSet(1..Shares)
           /\ \A n \in 1..Shares : f[n] \in Nat
           /\ LotSum(f) = SumFunctionOnSet(f, 1..Shares)
           /\ LotSum(f) \in Nat
<1>1. IsFiniteSet(1..Shares)
  BY FS_Interval, BookAssumption
<1>2. DOMAIN f = 1..Shares /\ \A n \in 1..Shares : f[n] \in Nat
  BY BookAssumption
<1>3. LotSum(f) = SumFunctionOnSet(f, 1..Shares)
  BY <1>2 DEF LotSum
<1>4. SumFunctionOnSet(f, 1..Shares) \in Nat
  BY <1>1, <1>2, SumNat
<1> QED
  BY <1>1, <1>2, <1>3, <1>4

\* What the types say of the numbers at hand.
LEMMA Numbers ==
    ASSUME RaceOK
    PROVE  /\ bought \in Nat /\ bought <= Shares /\ legSold \in Nat /\ closeSold \in Nat
           /\ shares \in Nat /\ LotSum(lots) \in Nat
           /\ \A p \in Process :
                 /\ pos[p] \in Nat /\ size[p] \in Nat /\ prior[p] \in Nat
                 /\ seen[p].bought \in Nat /\ seen[p].legSold \in Nat
                 /\ seen[p].closeSold \in Nat
<1>1. /\ bought \in Nat /\ bought <= Shares /\ legSold \in Nat /\ closeSold \in Nat
  BY BookAssumption DEF RaceOK, BrokerOK
<1>2. shares \in Nat /\ \A p \in Process : size[p] \in Nat /\ prior[p] \in Nat
  BY DEF RaceOK, SizeOK
<1>3. LotSum(lots) \in Nat
  BY LotSumNat DEF RaceOK, SizeOK
<1>4. ASSUME NEW p \in Process
      PROVE  /\ pos[p] \in Nat /\ seen[p].bought \in Nat /\ seen[p].legSold \in Nat
             /\ seen[p].closeSold \in Nat
  <2>1. /\ seen[p] \in [bought : 0..Shares, root : RootStatus, legSold : 0..Shares,
                        closeSold : 0..Shares, legs : BOOLEAN]
        /\ pos[p] \in 0..Shares
    BY DEF RaceOK, BrokerOK
  <2> QED
    BY <2>1, BookAssumption
<1> QED
  BY <1>1, <1>2, <1>3, <1>4

\* A close request is worked or not.
LEMMA CloseIsBoolean ==
    ASSUME closing \in BOOLEAN, CloseWorks \/ CloseFails
    PROVE  closing' \in BOOLEAN
<1> DEFINE left == Position > 0
<1>1. left \in BOOLEAN
  OBVIOUS
<1> QED
  BY <1>1 DEF CloseWorks, CloseFails

USE DEF Expected, Larger, IsOpen, ProtectiveLegs, Exited, FullExit

---------------------------------------------------------------------------
(* Quiet actions, that touch neither quantities nor what was read.         *)

\* What the actions are that touch neither the quantities nor what was read.
Quiet(p) ==
    /\ UNCHANGED <<bought, root, legSold, closeSold, legs, aboveStop, shares, lots>>
    /\ closing' \in BOOLEAN
    /\ \/ UNCHANGED <<pos, seen, size, prior>>
       \/ /\ pos' = [pos EXCEPT ![p] = 0] /\ seen' = [seen EXCEPT ![p] = NoView]
          /\ size' = [size EXCEPT ![p] = 0] /\ prior' = [prior EXCEPT ![p] = 0]
    /\ RowOK'
    /\ trade' = "none" => trade = "none"
    /\ \A q \in Process \ {p} : pc'[q] = pc[q]
    /\ pc'[p] \notin {"held_lot", "gone_lot", "refill", "fill"}

\* A quiet action keeps what is about quantities.
LEMMA QuietKeeps ==
    ASSUME NEW p \in Process, RaceOK, Quiet(p)
    PROVE  RaceOK'
<1>1. BrokerOK /\ SizeOK /\ SnapshotInv /\ FilledLots /\ SizesFit /\ RestFits
  BY DEF RaceOK
<1>2. BrokerOK'
  <2>1. pos' \in [Process -> 0..Shares]
    BY <1>1, BookAssumption DEF BrokerOK, Quiet
  <2>2. NoView \in [bought : 0..Shares, root : RootStatus, legSold : 0..Shares,
                    closeSold : 0..Shares, legs : BOOLEAN]
    BY BookAssumption DEF NoView, RootStatus
  <2>3. seen' \in [Process -> [bought : 0..Shares, root : RootStatus, legSold : 0..Shares,
                               closeSold : 0..Shares, legs : BOOLEAN]]
    BY <1>1, <2>2 DEF BrokerOK, Quiet
  <2> QED
    BY <1>1, <2>1, <2>3 DEF BrokerOK, Quiet
<1>3. SizeOK'
  BY <1>1 DEF SizeOK, Quiet
<1>4. SnapshotInv'
  BY <1>1, Numbers DEF SnapshotInv, Quiet, NoView, BrokerOK
<1>5. FilledLots'
  BY <1>1 DEF FilledLots, Quiet
<1>6. SizesFit'
  BY <1>1, Numbers DEF SizesFit, Booked, Quiet, SizeOK
<1>7. RestFits'
  <2> SUFFICES ASSUME NEW q \in Process PROVE RestAt(q)'
    BY DEF RestFits
  <2>1. q # p => UNCHANGED <<pc[q], size[q], seen[q], prior[q], bought, lots>>
    BY <1>1 DEF Quiet, BrokerOK, SizeOK
  <2> QED
    BY <1>1, <2>1 DEF RestFits, RestAt, Quiet
<1> QED
  BY <1>2, <1>3, <1>4, <1>5, <1>6, <1>7 DEF RaceOK, Quiet

\* What reconcile does before the loop and leaves sizes and snapshots alone.
LEMMA QuietRecovery ==
    ASSUME NEW p \in Process, ControlOK, BrokerOK, RowOK,
           \/ SnapshotFails(p) \/ Relink(p)
    PROVE  Quiet(p)
<1> USE DEF local, broker, rows, ghost
<1>1. /\ pc \in [Process -> Label] /\ back \in [Process -> DOMAIN Goal]
      /\ dirty \subseteq Process
      /\ was \in [Process -> State \cup {"none"}] /\ lc \in State \cup {"none"}
  BY DEF ControlOK, RowOK
<1>2. CASE SnapshotFails(p)
  BY <1>1, <1>2, BookAssumption DEF SnapshotFails, Return, Quiet, RowOK, BrokerOK, TradeStatus
<1>3. CASE Relink(p)
  BY <1>1, <1>3, BookAssumption DEF Relink, Step, Goto, Quiet, RowOK, BrokerOK, TradeStatus
<1> QED
  BY <1>2, <1>3

\* ... in the loop, with a position.
LEMMA QuietHeld ==
    ASSUME NEW p \in Process, ControlOK, BrokerOK, RowOK,
           \/ Look(p) \/ Protect(p) \/ Alarm(p) \/ Emergency(p)
    PROVE  Quiet(p)
<1> USE DEF local, broker, rows, ghost
<1>1. /\ pc \in [Process -> Label] /\ back \in [Process -> DOMAIN Goal]
      /\ dirty \subseteq Process
      /\ was \in [Process -> State \cup {"none"}] /\ lc \in State \cup {"none"}
  BY DEF ControlOK, RowOK
<1>2. CASE Look(p)
  BY <1>1, <1>2, BookAssumption DEF Look, Step, Goto, Quiet, RowOK, BrokerOK, TradeStatus
<1>3. CASE Protect(p)
  BY <1>1, <1>3, BookAssumption
  DEF Protect, Goto, Note, Return, Transit, CreateOpen, State, Goal, Quiet, RowOK,
      BrokerOK, TradeStatus
<1>4. CASE Alarm(p)
  BY <1>1, <1>4, BookAssumption DEF Alarm, Transit, Goal, Quiet, RowOK, BrokerOK, TradeStatus
<1>5. CASE Emergency(p)
  <2>1. closing' \in BOOLEAN
    BY <1>5, CloseIsBoolean DEF Emergency, Step, Goto, brokerSame, BrokerOK
  <2> QED
    BY <1>1, <1>5, <2>1, BookAssumption
    DEF Emergency, Step, Goto, brokerSame, Quiet, RowOK, BrokerOK, TradeStatus
<1> QED
  BY <1>2, <1>3, <1>4, <1>5

\* ... in the loop, without a position, and at the end.
LEMMA QuietGone ==
    ASSUME NEW p \in Process, ControlOK, BrokerOK, RowOK,
           \/ Exit(p) \/ CreateExit(p) \/ NoExit(p)
           \/ Review(p) \/ Close(p) \/ RecordPostmortem(p) \/ Observe(p) \/ EndTrade(p) \/ Finish(p)
    PROVE  Quiet(p)
<1> USE DEF local, broker, rows, ghost
<1>1. /\ pc \in [Process -> Label] /\ back \in [Process -> DOMAIN Goal]
      /\ dirty \subseteq Process
      /\ was \in [Process -> State \cup {"none"}] /\ lc \in State \cup {"none"}
  BY DEF ControlOK, RowOK
<1>2. CASE Exit(p)
  BY <1>1, <1>2, BookAssumption
  DEF Exit, Goto, Transit, Goal, Quiet, RowOK, BrokerOK, TradeStatus
<1>3. CASE CreateExit(p)
  BY <1>1, <1>3, BookAssumption
  DEF CreateExit, CreateOpen, Transit, Return, State, Goal, Quiet, RowOK, BrokerOK,
      TradeStatus
<1>4. CASE NoExit(p)
  BY <1>1, <1>4, BookAssumption DEF NoExit, Goto, Note, Quiet, RowOK, BrokerOK, TradeStatus
<1>5. CASE Review(p)
  BY <1>1, <1>5, BookAssumption DEF Review, Goto, Return, Quiet, RowOK, BrokerOK, TradeStatus
<1>6. CASE Close(p)
  BY <1>1, <1>6, BookAssumption DEF Close, Step, Goto, Quiet, RowOK, BrokerOK, TradeStatus
<1>7. CASE RecordPostmortem(p)
  BY <1>1, <1>7, BookAssumption
  DEF RecordPostmortem, Goto, Return, Quiet, RowOK, BrokerOK, TradeStatus
<1>8. CASE Observe(p)
  BY <1>1, <1>8, BookAssumption DEF Observe, Transit, Goal, Quiet, RowOK, BrokerOK, TradeStatus
<1>9. CASE EndTrade(p)
  BY <1>1, <1>9, BookAssumption DEF EndTrade, Goto, Quiet, RowOK, BrokerOK, TradeStatus
<1>10. CASE Finish(p)
  BY <1>1, <1>10, BookAssumption DEF Finish, Return, Quiet, RowOK, BrokerOK, TradeStatus
<1> QED
  BY <1>2, <1>3, <1>4, <1>5, <1>6, <1>7, <1>8, <1>9, <1>10

\* Transitions.
LEMMA QuietState ==
    ASSUME NEW p \in Process, ControlOK, BrokerOK, RowOK,
           \/ ReadState(p) \/ SwapState(p)
    PROVE  Quiet(p)
<1> USE DEF local, broker, rows, ghost
<1>1. /\ pc \in [Process -> Label] /\ back \in [Process -> DOMAIN Goal]
      /\ dirty \subseteq Process
      /\ was \in [Process -> State \cup {"none"}] /\ lc \in State \cup {"none"}
  BY DEF ControlOK, RowOK
<1>2. CASE ReadState(p)
  BY <1>1, <1>2, BookAssumption, GoalPlaces
  DEF ReadState, Goto, Raise, Return, Quiet, RowOK, BrokerOK, TradeStatus
<1>3. CASE SwapState(p)
  BY <1>1, <1>3, BookAssumption
  DEF SwapState, Goto, Raise, Return, Goal, Quiet, RowOK, BrokerOK, TradeStatus
<1> QED
  BY <1>2, <1>3

\* The close command, the end of a submission, and death.
LEMMA QuietCommand ==
    ASSUME NEW p \in Process, ControlOK, BrokerOK, RowOK,
           \/ StartClose(p) \/ ManualClose(p) \/ HaltUnknownClose(p) \/ NoteClose(p)
           \/ Link(p) \/ Open(p) \/ Placed(p) \/ Remediate(p) \/ RemedyClose(p) \/ MarkUnknown(p) \/ LatchUnknown(p) \/ Crash(p)
    PROVE  Quiet(p)
<1> USE DEF local, broker, rows, ghost
<1>1. /\ pc \in [Process -> Label] /\ back \in [Process -> DOMAIN Goal]
      /\ dirty \subseteq Process
      /\ was \in [Process -> State \cup {"none"}] /\ lc \in State \cup {"none"}
  BY DEF ControlOK, RowOK
<1>2. CASE StartClose(p)
  BY <1>1, <1>2, BookAssumption
  DEF StartClose, Transit, Goal, Quiet, RowOK, BrokerOK, TradeStatus
<1>3. CASE ManualClose(p)
  <2>1. closing' \in BOOLEAN
    BY <1>3, CloseIsBoolean DEF ManualClose, Goto, brokerSame, BrokerOK
  <2> QED
    BY <1>1, <1>3, <2>1, BookAssumption
    DEF ManualClose, Goto, brokerSame, Quiet, RowOK, BrokerOK, TradeStatus
<1>4. CASE HaltUnknownClose(p)
  BY <1>1, <1>4, BookAssumption
  DEF HaltUnknownClose, Step, Goto, Quiet, RowOK, BrokerOK, TradeStatus
<1>5. CASE NoteClose(p)
  BY <1>1, <1>5, BookAssumption DEF NoteClose, Return, Quiet, RowOK, BrokerOK, TradeStatus
<1>6. CASE Link(p)
  BY <1>1, <1>6, BookAssumption DEF Link, Goto, Return, Quiet, RowOK, BrokerOK, TradeStatus
<1>7. CASE Open(p)
  BY <1>1, <1>7, BookAssumption
  DEF Open, CreateOpen, Goto, Transit, Goal, Quiet, RowOK, BrokerOK, TradeStatus
<1>8. CASE Placed(p)
  BY <1>1, <1>8, BookAssumption DEF Placed, Return, Quiet, RowOK, BrokerOK, TradeStatus
<1>9. CASE Remediate(p)
  BY <1>1, <1>9, BookAssumption
  DEF Remediate, Transit, Goal, Quiet, RowOK, BrokerOK, TradeStatus
<1>10. CASE RemedyClose(p)
  <2>1. closing' \in BOOLEAN
    BY <1>10, CloseIsBoolean DEF RemedyClose, Return, brokerSame, BrokerOK
  <2> QED
    BY <1>1, <1>10, <2>1, BookAssumption
    DEF RemedyClose, Return, brokerSame, Quiet, RowOK, BrokerOK, TradeStatus
<1>11. CASE MarkUnknown(p)
  BY <1>1, <1>11, BookAssumption
  DEF MarkUnknown, Step, Goto, Quiet, RowOK, BrokerOK, TradeStatus
<1>12. CASE LatchUnknown(p)
  BY <1>1, <1>12, BookAssumption DEF LatchUnknown, Return, Quiet, RowOK, BrokerOK, TradeStatus
<1>13. CASE Crash(p)
  BY <1>1, <1>13, BookAssumption DEF Crash, Return, Quiet, RowOK, BrokerOK, TradeStatus
<1> QED
  BY <1>2, <1>3, <1>4, <1>5, <1>6, <1>7, <1>8, <1>9, <1>10, <1>11, <1>12, <1>13

---------------------------------------------------------------------------
(* The other actions.                                                      *)

\* The snapshot.
LEMMA SnapshotKept ==
    ASSUME NEW p \in Process, ControlOK, RaceOK,
           \/ StartReconcile(p) \/ ReadOrders(p)
    PROVE  RaceOK'
<1> USE DEF local, broker, rows, ghost
<1>1. BrokerOK /\ RowOK /\ SizeOK /\ SnapshotInv /\ FilledLots /\ SizesFit /\ RestFits
  BY DEF RaceOK
<1>2. /\ pc \in [Process -> Label] /\ back \in [Process -> DOMAIN Goal]
      /\ dirty \subseteq Process
  BY DEF ControlOK, RaceOK, RowOK
<1>3. CASE StartReconcile(p)
  <2> USE <1>3 DEF StartReconcile, Step, Goto, Position
  <2>1. BrokerOK'
    BY <1>1, BookAssumption DEF BrokerOK, SnapshotInv, RootStatus
  <2>2. RowOK' /\ FilledLots'
    BY <1>1, BookAssumption DEF RowOK, TradeStatus, FilledLots
  <2>3. SizeOK'
    BY <1>1, <1>2, Numbers DEF SizeOK
  <2>4. SnapshotInv'
    BY <1>1, Numbers DEF BrokerOK, SnapshotInv
  <2>5. SizesFit'
    BY <1>1, Numbers DEF SizeOK, SizesFit, SnapshotInv, Booked
  <2>6. RestFits'
    BY <1>1, <1>2, Numbers
    DEF RestFits, RestAt, SizesFit, SnapshotInv, Booked, BrokerOK, SizeOK
  <2> QED
    BY <2>1, <2>2, <2>3, <2>4, <2>5, <2>6 DEF RaceOK
<1>4. CASE ReadOrders(p)
  <2> USE <1>4 DEF ReadOrders, Step, Goto, View
  <2>1. BrokerOK'
    BY <1>1, BookAssumption DEF BrokerOK, SnapshotInv, RootStatus
  <2>2. RowOK' /\ FilledLots'
    BY <1>1, BookAssumption DEF RowOK, TradeStatus, FilledLots
  <2>3. SizeOK'
    BY <1>1, <1>2, Numbers DEF SizeOK
  <2>4. SnapshotInv'
    BY <1>1, Numbers DEF BrokerOK, SnapshotInv
  <2>5. SizesFit'
    BY <1>1, Numbers DEF SizeOK, SizesFit, SnapshotInv, Booked
  <2>6. RestFits'
    BY <1>1, <1>2, Numbers
    DEF RestFits, RestAt, SizesFit, SnapshotInv, Booked, BrokerOK, SizeOK
  <2> QED
    BY <2>1, <2>2, <2>3, <2>4, <2>5, <2>6 DEF RaceOK
<1> QED
  BY <1>3, <1>4

\* What creates the trade.
LEMMA AdoptKept ==
    ASSUME NEW p \in Process, ControlOK, RaceOK,
           \/ Recover(p) \/ Persist(p)
    PROVE  RaceOK'
<1> USE DEF local, broker, rows, ghost
<1>1. BrokerOK /\ RowOK /\ SizeOK /\ SnapshotInv /\ FilledLots /\ SizesFit /\ RestFits
  BY DEF RaceOK
<1>2. /\ pc \in [Process -> Label] /\ back \in [Process -> DOMAIN Goal]
      /\ dirty \subseteq Process
  BY DEF ControlOK, RaceOK, RowOK
<1>3. CASE Recover(p)
  <2> USE <1>3 DEF Recover, Goto, Note
  <2>1. BrokerOK'
    BY <1>1, BookAssumption DEF BrokerOK, SnapshotInv, RootStatus
  <2>2. RowOK' /\ FilledLots'
    BY <1>1, BookAssumption DEF RowOK, TradeStatus, FilledLots
  <2>3. SizeOK'
    BY <1>1, <1>2, Numbers DEF SizeOK
  <2>4. SnapshotInv'
    BY <1>1, Numbers DEF BrokerOK, SnapshotInv
  <2>5. SizesFit'
    BY <1>1, Numbers DEF SizeOK, SizesFit, SnapshotInv, Booked
  <2>6. RestFits'
    BY <1>1, <1>2, Numbers
    DEF RestFits, RestAt, SizesFit, SnapshotInv, Booked, BrokerOK, SizeOK
  <2> QED
    BY <2>1, <2>2, <2>3, <2>4, <2>5, <2>6 DEF RaceOK
<1>4. CASE Persist(p)
  <2> USE <1>4 DEF Persist, Goto
  <2>1. BrokerOK'
    BY <1>1, BookAssumption DEF BrokerOK, SnapshotInv, RootStatus
  <2>2. RowOK' /\ FilledLots'
    BY <1>1, BookAssumption DEF RowOK, TradeStatus, FilledLots
  <2>3. SizeOK'
    BY <1>1, <1>2, Numbers DEF SizeOK
  <2>4. SnapshotInv'
    BY <1>1, Numbers DEF BrokerOK, SnapshotInv
  <2>5. SizesFit'
    BY <1>1, Numbers DEF SizeOK, SizesFit, SnapshotInv, Booked
  <2>6. RestFits'
    BY <1>1, <1>2, Numbers
    DEF RestFits, RestAt, SizesFit, SnapshotInv, Booked, BrokerOK, SizeOK
  <2> QED
    BY <2>1, <2>2, <2>3, <2>4, <2>5, <2>6 DEF RaceOK
<1> QED
  BY <1>3, <1>4

\* What the loop reads and writes of the size.
LEMMA LoopKept ==
    ASSUME NEW p \in Process, ControlOK, RaceOK,
           \/ ListTrade(p) \/ Held(p) \/ Hold(p) \/ Gone(p) \/ Grow(p)
    PROVE  RaceOK'
<1> USE DEF local, broker, rows, ghost
<1>1. BrokerOK /\ RowOK /\ SizeOK /\ SnapshotInv /\ FilledLots /\ SizesFit /\ RestFits
  BY DEF RaceOK
<1>2. /\ pc \in [Process -> Label] /\ back \in [Process -> DOMAIN Goal]
      /\ dirty \subseteq Process
  BY DEF ControlOK, RaceOK, RowOK
<1>3. CASE ListTrade(p)
  <2> USE <1>3 DEF ListTrade, Goto, Note
  <2>1. BrokerOK'
    BY <1>1, BookAssumption DEF BrokerOK, SnapshotInv, RootStatus
  <2>2. RowOK' /\ FilledLots'
    BY <1>1, BookAssumption DEF RowOK, TradeStatus, FilledLots
  <2>3. SizeOK'
    BY <1>1, <1>2, Numbers DEF SizeOK
  <2>4. SnapshotInv'
    BY <1>1, Numbers DEF BrokerOK, SnapshotInv
  <2>5. SizesFit'
    BY <1>1, Numbers DEF SizeOK, SizesFit, SnapshotInv, Booked
  <2>6. RestFits'
    BY <1>1, <1>2, Numbers
    DEF RestFits, RestAt, SizesFit, SnapshotInv, Booked, BrokerOK, SizeOK
  <2> QED
    BY <2>1, <2>2, <2>3, <2>4, <2>5, <2>6 DEF RaceOK
<1>4. CASE Held(p)
  <2> USE <1>4 DEF Held, Goto, Note
  <2>1. BrokerOK'
    BY <1>1, BookAssumption DEF BrokerOK, SnapshotInv, RootStatus
  <2>2. RowOK' /\ FilledLots'
    BY <1>1, BookAssumption DEF RowOK, TradeStatus, FilledLots
  <2>3. SizeOK'
    BY <1>1, <1>2, Numbers DEF SizeOK
  <2>4. SnapshotInv'
    BY <1>1, Numbers DEF BrokerOK, SnapshotInv
  <2>5. SizesFit'
    BY <1>1, Numbers DEF SizeOK, SizesFit, SnapshotInv, Booked
  <2>6. RestFits'
    <3> SUFFICES ASSUME NEW q \in Process PROVE RestAt(q)'
      BY DEF RestFits
    <3>1. CASE q = p
      BY <1>1, <1>2, <3>1, Numbers
      DEF RestAt, SizesFit, SnapshotInv, Booked, BrokerOK, SizeOK
    <3>2. CASE q # p
      BY <1>1, <1>2, <3>2, Numbers DEF RestFits, RestAt, BrokerOK, SizeOK
    <3> QED
      BY <3>1, <3>2
  <2> QED
    BY <2>1, <2>2, <2>3, <2>4, <2>5, <2>6 DEF RaceOK
<1>5. CASE Hold(p)
  <2> USE <1>5 DEF Hold, Step, Goto
  <2>1. BrokerOK'
    BY <1>1, BookAssumption DEF BrokerOK, SnapshotInv, RootStatus
  <2>2. RowOK' /\ FilledLots'
    BY <1>1, BookAssumption DEF RowOK, TradeStatus, FilledLots
  <2>3. SizeOK'
    BY <1>1, <1>2, Numbers DEF SizeOK
  <2>4. SnapshotInv'
    BY <1>1, Numbers DEF BrokerOK, SnapshotInv
  <2>5. SizesFit'
    BY <1>1, Numbers DEF SizeOK, SizesFit, SnapshotInv, Booked
  <2>6. RestFits'
    BY <1>1, <1>2, Numbers
    DEF RestFits, RestAt, SizesFit, SnapshotInv, Booked, BrokerOK, SizeOK
  <2> QED
    BY <2>1, <2>2, <2>3, <2>4, <2>5, <2>6 DEF RaceOK
<1>6. CASE Gone(p)
  <2> USE <1>6 DEF Gone, Goto
  <2>1. BrokerOK'
    BY <1>1, BookAssumption DEF BrokerOK, SnapshotInv, RootStatus
  <2>2. RowOK' /\ FilledLots'
    BY <1>1, BookAssumption DEF RowOK, TradeStatus, FilledLots
  <2>3. SizeOK'
    BY <1>1, <1>2, Numbers DEF SizeOK
  <2>4. SnapshotInv'
    BY <1>1, Numbers DEF BrokerOK, SnapshotInv
  <2>5. SizesFit'
    BY <1>1, Numbers DEF SizeOK, SizesFit, SnapshotInv, Booked
  <2>6. RestFits'
    BY <1>1, <1>2, Numbers
    DEF RestFits, RestAt, SizesFit, SnapshotInv, Booked, BrokerOK, SizeOK
  <2> QED
    BY <2>1, <2>2, <2>3, <2>4, <2>5, <2>6 DEF RaceOK
<1>7. CASE Grow(p)
  <2> USE <1>7 DEF Grow, Step, Goto
  <2>1. BrokerOK'
    BY <1>1, BookAssumption DEF BrokerOK, SnapshotInv, RootStatus
  <2>2. RowOK' /\ FilledLots'
    BY <1>1, BookAssumption DEF RowOK, TradeStatus, FilledLots
  <2>3. SizeOK'
    BY <1>1, <1>2, Numbers DEF SizeOK
  <2>4. SnapshotInv'
    BY <1>1, Numbers DEF BrokerOK, SnapshotInv
  <2>5. SizesFit'
    BY <1>1, Numbers DEF SizeOK, SizesFit, SnapshotInv, Booked
  <2>6. RestFits'
    BY <1>1, <1>2, Numbers
    DEF RestFits, RestAt, SizesFit, SnapshotInv, Booked, BrokerOK, SizeOK
  <2> QED
    BY <2>1, <2>2, <2>3, <2>4, <2>5, <2>6 DEF RaceOK
<1> QED
  BY <1>3, <1>4, <1>5, <1>6, <1>7

\* A lot that is added makes the sum larger, and leaves the other lots alone.
LEMMA RecordGrows ==
    ASSUME lots \in [Reached -> 0..Shares], NEW n \in Reached, NEW k \in Nat, k > 0, k <= n,
           RecordLot(n, k)
    PROVE  /\ lots' \in [Reached -> 0..Shares]
           /\ LotSum(lots) \in Nat /\ LotSum(lots') \in Nat /\ shares' = LotSum(lots')
           /\ LotSum(lots) <= LotSum(lots')
           /\ \A m \in Reached : lots'[m] = lots[m] \/ (m = n /\ lots'[m] = k)
<1>1. n \in Nat /\ n <= Shares /\ k \in 0..Shares
  BY BookAssumption DEF Reached
<1>2. lots' = (IF lots[n] = 0 THEN [lots EXCEPT ![n] = k] ELSE lots) /\ shares' = LotSum(lots')
  BY DEF RecordLot
<1>3. /\ lots' \in [Reached -> 0..Shares]
      /\ \A m \in Reached : lots'[m] = lots[m] \/ (m = n /\ lots'[m] = k /\ lots[m] = 0)
  BY <1>1, <1>2
<1>4. /\ IsFiniteSet(Reached) /\ \A m \in Reached : lots[m] \in Int /\ lots'[m] \in Int
      /\ LotSum(lots) = SumFunctionOnSet(lots, Reached) /\ LotSum(lots) \in Nat
      /\ LotSum(lots') = SumFunctionOnSet(lots', Reached) /\ LotSum(lots') \in Nat
  BY <1>3, LotSumNat DEF Reached
<1>5. \A m \in Reached : lots[m] <= lots'[m]
  BY <1>3, <1>4
<1>6. LotSum(lots) <= LotSum(lots')
  BY <1>4, <1>5, SumLeq
<1> QED
  BY <1>2, <1>3, <1>4, <1>6

\* Whoever records a lot of a fill that was reached keeps what is about quantities.
LEMMA RecordKept ==
    ASSUME NEW p \in Process, RaceOK, NEW n \in Nat, NEW k \in Nat, k > 0, k <= n, n <= bought,
           RecordLot(n, k),
           UNCHANGED <<broker, trade, adm, reviewed, lessons, requested, halted, ghost, local>>,
           \A q \in Process \ {p} : pc'[q] = pc[q],
           pc'[p] \notin {"held_lot", "gone_lot", "refill", "fill"}
    PROVE  RaceOK'
<1> USE DEF broker, ghost, local
<1>1. BrokerOK /\ RowOK /\ SizeOK /\ SnapshotInv /\ FilledLots /\ SizesFit /\ RestFits
  BY DEF RaceOK
<1>2. n \in Reached /\ lots \in [Reached -> 0..Shares]
  BY <1>1, Numbers, BookAssumption DEF Reached, SizeOK
<1>3. /\ lots' \in [Reached -> 0..Shares]
      /\ LotSum(lots) \in Nat /\ LotSum(lots') \in Nat /\ shares' = LotSum(lots')
      /\ LotSum(lots) <= LotSum(lots')
      /\ \A m \in Reached : lots'[m] = lots[m] \/ (m = n /\ lots'[m] = k)
  BY <1>2, RecordGrows
<1>4. BrokerOK' /\ RowOK' /\ SnapshotInv'
  BY <1>1 DEF BrokerOK, RowOK, SnapshotInv
<1>5. SizeOK'
  BY <1>1, <1>3 DEF SizeOK, Reached
<1>6. FilledLots'
  BY <1>1, <1>3 DEF FilledLots
<1>7. SizesFit'
  BY <1>1, <1>3, Numbers DEF SizesFit, Booked
<1>8. RestFits'
  BY <1>1, <1>3, Numbers DEF RestFits, RestAt
<1> QED
  BY <1>4, <1>5, <1>6, <1>7, <1>8 DEF RaceOK

\* The first lot ...
LEMMA FillKept ==
    ASSUME NEW p \in Process, ControlOK, RaceOK, Refill(p) \/ Fill(p)
    PROVE  RaceOK'
<1>1. BrokerOK /\ RowOK /\ RestFits /\ SnapshotInv /\ pc \in [Process -> Label]
  BY DEF RaceOK, ControlOK
<1>2. CASE FillRefused
  <2>1. Quiet(p)
    BY <1>1, <1>2, BookAssumption
    DEF Quiet, Refill, Fill, Goto, Note, RowOK, BrokerOK, TradeStatus, broker, ghost, local
  <2> QED
    BY <2>1, QuietKeeps
<1>3. CASE ~FillRefused
  <2>1. /\ RecordLot(seen[p].bought, seen[p].bought)
        /\ UNCHANGED <<broker, trade, adm, reviewed, lessons, requested, halted, ghost, local>>
        /\ pc[p] \in {"refill", "fill"} /\ (Goto(p, "relink") \/ Goto(p, "link"))
    BY <1>3 DEF Refill, Fill
  <2>2. seen[p].bought \in Nat /\ seen[p].bought > 0 /\ seen[p].bought <= bought
    BY <1>1, <2>1, Numbers DEF RestFits, RestAt, SnapshotInv
  <2>3. /\ \A q \in Process \ {p} : pc'[q] = pc[q]
        /\ pc'[p] \notin {"held_lot", "gone_lot", "refill", "fill"}
    BY <1>1, <2>1 DEF Goto
  <2> QED
    BY <2>1, <2>2, <2>3, RecordKept
<1> QED
  BY <1>2, <1>3

\* ... and the later ones.
LEMMA SyncKept ==
    ASSUME NEW p \in Process, ControlOK, RaceOK,
           SyncLot(p, "held_lot", "hold") \/ SyncLot(p, "gone_lot", "grow")
    PROVE  RaceOK'
<1>1. BrokerOK /\ RowOK /\ RestFits /\ SnapshotInv /\ pc \in [Process -> Label]
  BY DEF RaceOK, ControlOK
<1>2. CASE Expected(p) <= prior[p] \/ FillRefused
  <2>1. Quiet(p)
    BY <1>1, <1>2, BookAssumption
    DEF Quiet, SyncLot, Goto, Return, RowOK, BrokerOK, TradeStatus, broker, ghost, local
  <2> QED
    BY <2>1, QuietKeeps
<1>3. CASE ~(Expected(p) <= prior[p]) /\ ~FillRefused
  <2>1. /\ RecordLot(Expected(p), Expected(p) - prior[p])
        /\ UNCHANGED <<broker, trade, adm, reviewed, lessons, requested, halted, ghost, local>>
        /\ pc[p] \in {"held_lot", "gone_lot"} /\ (Goto(p, "hold") \/ Goto(p, "grow"))
    BY <1>3 DEF SyncLot
  <2>2. /\ Expected(p) \in Nat /\ Expected(p) <= bought
        /\ Expected(p) - prior[p] \in Nat /\ Expected(p) - prior[p] > 0
        /\ Expected(p) - prior[p] <= Expected(p)
    BY <1>1, <1>3, <2>1, Numbers DEF RestFits, RestAt
  <2>3. /\ \A q \in Process \ {p} : pc'[q] = pc[q]
        /\ pc'[p] \notin {"held_lot", "gone_lot", "refill", "fill"}
    BY <1>1, <2>1 DEF Goto
  <2> HIDE DEF Expected
  <2> QED
    BY <2>1, <2>2, <2>3, RecordKept
<1> QED
  BY <1>2, <1>3

\* The broker fills and sells, which no snapshot sees.
LEMMA BrokerMoves ==
    ASSUME RaceOK, BrokerStep
    PROVE  /\ bought' \in 0..Shares /\ root' \in RootStatus
           /\ legSold' \in 0..Shares /\ closeSold' \in 0..Shares
           /\ legs' \in BOOLEAN /\ closing' \in BOOLEAN /\ aboveStop' = aboveStop
           /\ bought' >= bought /\ legSold' >= legSold /\ closeSold' >= closeSold
           /\ legSold' + closeSold' <= bought'
<1>1. /\ root \in RootStatus /\ legs \in BOOLEAN /\ closing \in BOOLEAN
      /\ legSold + closeSold <= bought
  BY DEF RaceOK, BrokerOK, SnapshotInv
<1>2. aboveStop' = aboveStop
  BY DEF BrokerStep, Buy, EndEntry, SellByLeg, SellByClose, LoseLegs
<1>3. CASE Buy
  BY <1>1, <1>2, <1>3, Numbers, BookAssumption DEF Buy, RootStatus
<1>4. CASE EndEntry
  BY <1>1, <1>2, <1>4, Numbers, BookAssumption DEF EndEntry, RootStatus
<1>5. CASE SellByLeg
  BY <1>1, <1>2, <1>5, Numbers, BookAssumption DEF SellByLeg, Position
<1>6. CASE SellByClose
  BY <1>1, <1>2, <1>6, Numbers, BookAssumption DEF SellByClose, Position
<1>7. CASE LoseLegs
  <2>1. UNCHANGED <<bought, root, legSold, closeSold, closing>> /\ legs' = FALSE
    BY <1>7 DEF LoseLegs
  <2>2. legs' \in BOOLEAN /\ closing' \in BOOLEAN
    BY <1>1, <2>1
  <2>3. root' \in RootStatus
    BY <1>1, <2>1
  <2>4. /\ bought' = bought /\ legSold' = legSold /\ closeSold' = closeSold
    BY <2>1
  <2> QED
    BY <1>1, <1>2, <2>2, <2>3, <2>4, Numbers, BookAssumption
<1> QED
  BY <1>3, <1>4, <1>5, <1>6, <1>7 DEF BrokerStep

LEMMA BrokerKeeps ==
    ASSUME RaceOK, BrokerStep
    PROVE  RaceOK' /\ UNCHANGED <<rows, ghost, pc, back, local>>
<1> USE DEF rows, ghost, local
<1>1. BrokerOK /\ RowOK /\ SizeOK /\ SnapshotInv /\ FilledLots /\ SizesFit /\ RestFits
  BY DEF RaceOK
<1>2. UNCHANGED <<rows, ghost, pc, back, local>>
  BY DEF BrokerStep, Buy, EndEntry, SellByLeg, SellByClose, LoseLegs, processSame
<1>3. BrokerOK' /\ RowOK' /\ SizeOK'
  BY <1>1, <1>2, BrokerMoves DEF BrokerOK, RowOK, SizeOK
<1>4. bought' \in Nat /\ legSold' \in Nat /\ closeSold' \in Nat
  BY BrokerMoves, BookAssumption
<1>5. SnapshotInv'
  <2>1. ASSUME NEW p \in Process
        PROVE  /\ seen[p].bought <= bought' /\ seen[p].legSold + seen[p].closeSold <= seen[p].bought
               /\ seen[p].legSold <= legSold' /\ seen[p].closeSold <= closeSold'
    BY <1>1, <1>4, Numbers, BrokerMoves DEF SnapshotInv
  <2> QED
    BY <1>2, <2>1, BrokerMoves DEF SnapshotInv
<1>6. FilledLots'
  <2>1. \A n \in Reached : n \in Nat
    BY BookAssumption DEF Reached
  <2> QED
    BY <1>1, <1>2, <1>4, <2>1, Numbers, BrokerMoves DEF FilledLots
<1>7. SizesFit'
  BY <1>1, <1>2, <1>4, Numbers, BrokerMoves DEF SizesFit, Booked
<1>8. RestFits'
  BY <1>1, <1>2, <1>4, Numbers, BrokerMoves DEF RestFits, RestAt
<1> QED
  BY <1>2, <1>3, <1>5, <1>6, <1>7, <1>8 DEF RaceOK

---------------------------------------------------------------------------
(* What follows.                                                           *)

\* Every step preserves it.
LEMMA RaceStep ==
    ASSUME ControlOK, RaceOK, [Next]_vars
    PROVE  RaceOK'
<1>1. ASSUME NEW p \in Process,
             \/ StartReconcile(p) \/ StartClose(p) \/ SnapshotFails(p)
             \/ ReconcileStep(p) \/ OtherStep(p) \/ Crash(p)
      PROVE  RaceOK'
  <2>1. BrokerOK /\ RowOK
    BY DEF RaceOK
  <2>2. Quiet(p) \/ RaceOK'
    BY <1>1, <2>1, QuietRecovery, QuietHeld, QuietGone, QuietState, QuietCommand,
       SnapshotKept, AdoptKept, LoopKept, FillKept, SyncKept
    DEF ReconcileStep, OtherStep
  <2> QED
    BY <2>2, QuietKeeps
<1>2. CASE UNCHANGED vars
  BY <1>2 DEF RaceOK, BrokerOK, RowOK, SizeOK, SnapshotInv, FilledLots, SizesFit, Booked,
              RestFits, RestAt, vars, broker, rows, ghost, local
<1> QED
  BY <1>1, <1>2, BrokerKeeps DEF Next

\* The broker has the order, and nothing is recorded yet.
LEMMA RaceStarts == Init => RaceOK /\ LotSum(lots) = 0
<1> SUFFICES ASSUME Init PROVE RaceOK /\ LotSum(lots) = 0
  OBVIOUS
<1>1. /\ bought \in 0..Shares /\ bought \in Nat /\ bought <= Shares /\ 0 \in 0..Shares
  BY BookAssumption DEF Init
<1>2. PICK s \in SUBSET Process :
         /\ pc = [p \in Process |-> IF p \in s THEN "persist" ELSE "idle"]
         /\ seen = [p \in Process |-> IF p \in s THEN View ELSE NoView]
  BY DEF Init
<1>3. BrokerOK
  BY <1>1, <1>2 DEF Init, BrokerOK, RootStatus, View, NoView
<1>4. RowOK
  <2>1. 0 \in Nat /\ 0 \in 0..MaxCrash
    BY BookAssumption
  <2> QED
    BY <2>1 DEF Init, RowOK, TradeStatus
<1>5. SnapshotInv
  BY <1>1, <1>2 DEF Init, SnapshotInv, View, NoView
<1>6. /\ lots \in [Reached -> 0..Shares] /\ \A n \in Reached : lots[n] = 0
      /\ LotSum(lots) = 0
  <2>1. lots \in [1..Shares -> 0..Shares] /\ \A n \in 1..Shares : lots[n] = 0
    BY <1>1 DEF Init
  <2>2. LotSum(lots) = SumFunctionOnSet(lots, Reached) /\ IsFiniteSet(Reached)
    BY <2>1, LotSumNat DEF Reached
  <2>3. SumFunctionOnSet(lots, Reached) = 0
    BY <2>1, <2>2, SumZero DEF Reached
  <2> QED
    BY <2>1, <2>2, <2>3 DEF Reached
<1>7. SizeOK /\ FilledLots
  BY <1>1, <1>6 DEF Init, SizeOK, FilledLots, Reached
<1>8. SizesFit
  <2>1. shares = 0 /\ \A p \in Process : size[p] = 0
    BY DEF Init
  <2> QED
    BY <1>1, <1>6, <2>1 DEF SizesFit, Booked
<1>9. RestFits
  BY <1>2 DEF RestFits, RestAt
<1> QED
  BY <1>3, <1>4, <1>5, <1>6, <1>7, <1>8, <1>9 DEF RaceOK

\* The inductive invariant of the quantities holds of every behaviour.
THEOREM RaceInvariance == Spec => [](ControlOK /\ RaceOK)
<1>1. Init => RaceOK
  BY RaceStarts
<1>2. ControlOK /\ RaceOK /\ [Next]_vars => RaceOK'
  BY RaceStep
<1> QED
  BY <1>1, <1>2, Invariance, PTL DEF Spec

\* Every column, every snapshot and every place keeps its type, also when
\* processes race.
THEOREM BookTyped == Spec => []TypeOK
<1>1. ControlOK /\ RaceOK => TypeOK
  BY DEF RaceOK, TypeOK
<1> QED
  BY <1>1, RaceInvariance, PTL

\* What the lots of racing recorders still keep to: each is part of a cumulative
\* fill that the broker has reached, and no size of the trade exceeds both the
\* lots and what was bought.
THEOREM LotsAreOfFills == Spec => [](FilledLots /\ SizesFit)
<1>1. ControlOK /\ RaceOK => FilledLots /\ SizesFit
  BY DEF RaceOK
<1> QED
  BY <1>1, RaceInvariance, PTL

---------------------------------------------------------------------------
(* What a process has seen, whatever interleaves.                          *)
(*                                                                         *)
(* Rows change under a process that is overtaken, but what it has read is  *)
(* its own.  What it compared on the way to its place therefore still      *)
(* holds of its snapshot: that the position was the rest of the entry      *)
(* behind both legs, or that the exits covered the entry.                  *)

\* p is in a transition after which it goes on to l.
Heading(p, l) == pc[p] \in {"state", "swap"} /\ back[p] = l

\* The position is what the entry and the legs leave, or the legs have sold all
\* of it since the position was read.
Matches(p) == Expected(p) - seen[p].legSold \in {pos[p], 0}

\* Where p relies on that ...
BehindMatch(p) ==
    pc[p] \in {"held_lot", "hold", "look", "protect"} \/ Heading(p, "finish")

\* ... and where on the exits.
BehindExits(p) ==
    \/ pc[p] \in {"create_exit", "review", "close", "postmortem", "observe"}
    \/ Heading(p, "review") \/ Heading(p, "end")

\* Where there is no position.
Flat(p) ==
    \/ pc[p] \in {"gone", "gone_lot", "grow", "exit", "end", "release"}
    \/ BehindExits(p)

\* A reconciliation that has nothing to report of a position.
EndsClean(p) == pc[p] = "finish" /\ p \notin dirty /\ pos[p] > 0

SeenAt(p) ==
    /\ BehindMatch(p) \/ EndsClean(p) => Matches(p)
    /\ Heading(p, "finish") \/ EndsClean(p) => seen[p].legs
    /\ BehindExits(p) => FullExit(p)
    /\ Flat(p) => pos[p] = 0
    /\ pc[p] \in {"alarm", "emergency"} \/ Heading(p, "emergency") => p \in dirty

SeenInv == \A p \in Process : SeenAt(p)

\* The places and snapshots of the others.
OthersStand(p) ==
    \A q \in Process \ {p} :
        /\ pc'[q] = pc[q] /\ back'[q] = back[q]
        /\ seen'[q] = seen[q] /\ pos'[q] = pos[q] /\ size'[q] = size[q]
        /\ q \in dirty' <=> q \in dirty

\* The step of p leaves the others alone, and p behind what it relies on.
Sees(p) == OthersStand(p) /\ SeenAt(p)'

\* What a step of p leaves of its snapshot, it leaves of the comparisons.
LEMMA SnapshotCompares ==
    ASSUME NEW p \in Process,
           pos'[p] = pos[p] /\ seen'[p] = seen[p] /\ size'[p] = size[p]
    PROVE  Matches(p)' = Matches(p) /\ FullExit(p)' = FullExit(p)
BY DEF Matches, FullExit, Exited, Expected, Larger

\* A step that keeps the snapshot of p needs no more than the places.
LEMMA KeepsSeen ==
    ASSUME NEW p \in Process, OthersStand(p),
           pos'[p] = pos[p] /\ seen'[p] = seen[p] /\ size'[p] = size[p],
           BehindMatch(p)' \/ EndsClean(p)' => Matches(p),
           Heading(p, "finish")' \/ EndsClean(p)' => seen[p].legs,
           BehindExits(p)' => FullExit(p),
           Flat(p)' => pos[p] = 0,
           (pc[p] \in {"alarm", "emergency"} \/ Heading(p, "emergency"))' => p \in dirty'
    PROVE  Sees(p)
BY SnapshotCompares DEF Sees, SeenAt

\* A command that has ended relies on nothing.
LEMMA ReturnSees ==
    ASSUME NEW p \in Process, ControlOK, BrokerOK, SizeOK, Return(p)
    PROVE  Sees(p)
BY DEF Return, Sees, SeenAt, OthersStand, BehindMatch, BehindExits, Flat, EndsClean, Heading,
       ControlOK, BrokerOK, SizeOK

LEMMA RecoverySees ==
    ASSUME NEW p \in Process, ControlOK, BrokerOK, SizeOK, dirty \subseteq Process, SeenInv,
           \/ StartReconcile(p) \/ ReadOrders(p) \/ SnapshotFails(p)
           \/ Recover(p) \/ Refill(p) \/ Relink(p) \/ ListTrade(p)
    PROVE  Sees(p)
<1> USE DEF Sees, SeenAt, OthersStand, BehindMatch, BehindExits, Flat, EndsClean, Heading,
            ControlOK, BrokerOK, SizeOK, local
<1>1. CASE StartReconcile(p)
  BY <1>1 DEF StartReconcile, Step, Goto
<1>2. CASE ReadOrders(p)
  BY <1>2 DEF ReadOrders, Step, Goto
<1>3. CASE SnapshotFails(p)
  BY <1>3 DEF SnapshotFails, Return
<1>4. CASE Recover(p)
  BY <1>4 DEF Recover, Goto, Note
<1>5. CASE Refill(p)
  BY <1>5 DEF Refill, Goto, Note, Return
<1>6. CASE Relink(p)
  BY <1>6 DEF Relink, Step, Goto
<1>7. CASE ListTrade(p)
  BY <1>7 DEF ListTrade, Goto, Note
<1> QED
  BY <1>1, <1>2, <1>3, <1>4, <1>5, <1>6, <1>7

\* The quantity the reconciler compares with the position.
LEMMA HeldMatches ==
    ASSUME NEW p \in Process, BrokerOK, SizeOK, SnapshotInv, Held(p)
    PROVE  Matches(p) \/ (pc' = [pc EXCEPT ![p] = "finish"] /\ dirty' = dirty \cup {p})
<1> DEFINE left == Larger(Expected(p) - seen[p].legSold, 0)
<1>1. /\ seen[p].bought \in Nat /\ seen[p].legSold \in Nat /\ seen[p].closeSold \in Nat
      /\ size[p] \in Nat /\ pos[p] \in Nat
      /\ seen[p].legSold + seen[p].closeSold <= seen[p].bought
  BY BookAssumption DEF BrokerOK, SizeOK, SnapshotInv
<1>2. CASE left > 0 /\ pos[p] # left
  BY <1>2 DEF Held, Note, Goto
<1>3. CASE ~(left > 0 /\ pos[p] # left)
  BY <1>1, <1>3 DEF Matches, Expected, Larger
<1> QED
  BY <1>2, <1>3

LEMMA HeldSees ==
    ASSUME NEW p \in Process, ControlOK, BrokerOK, SizeOK, SnapshotInv, dirty \subseteq Process, SeenInv,
           \/ Held(p) \/ SyncLot(p, "held_lot", "hold") \/ Hold(p)
           \/ Look(p) \/ Protect(p) \/ Alarm(p) \/ Emergency(p)
    PROVE  Sees(p)
<1> SUFFICES ASSUME SeenAt(p) PROVE Sees(p)
  BY DEF SeenInv
<1> USE DEF SeenAt, OthersStand, BehindMatch, BehindExits, Flat, EndsClean, Heading,
            ControlOK, BrokerOK, SizeOK, local
<1>1. CASE Held(p)
  BY <1>1, HeldMatches, KeepsSeen DEF Held, Goto, Note
<1>2. CASE SyncLot(p, "held_lot", "hold")
  <2>1. Return(p) \/ (pc[p] = "held_lot" /\ Goto(p, "hold") /\ UNCHANGED local)
    BY <1>2 DEF SyncLot
  <2> QED
    BY <2>1, ReturnSees, KeepsSeen DEF Goto
<1>3. CASE Hold(p)
  BY <1>3, KeepsSeen DEF Hold, Step, Goto
<1>4. CASE Look(p)
  BY <1>4, KeepsSeen DEF Look, Step, Goto
<1>5. CASE Protect(p)
  <2>1. \/ Return(p)
        \/ /\ pc[p] = "protect"
           /\ \/ Goto(p, "look") /\ UNCHANGED local
              \/ Note(p) /\ Goto(p, "alarm")
              \/ ProtectiveLegs(p) /\ Transit(p, "finish") /\ UNCHANGED local
              \/ ProtectiveLegs(p) /\ Goto(p, "finish") /\ UNCHANGED local
    BY <1>5 DEF Protect
  <2> QED
    BY <2>1, ReturnSees, KeepsSeen DEF Goto, Note, Transit, ProtectiveLegs
<1>6. CASE Alarm(p)
  BY <1>6, KeepsSeen DEF Alarm, Transit
<1>7. CASE Emergency(p)
  BY <1>7, KeepsSeen DEF Emergency, Step, Goto
<1> QED
  BY <1>1, <1>2, <1>3, <1>4, <1>5, <1>6, <1>7

LEMMA GoneSees ==
    ASSUME NEW p \in Process, ControlOK, BrokerOK, SizeOK, dirty \subseteq Process, SeenInv,
           \/ Gone(p) \/ SyncLot(p, "gone_lot", "grow") \/ Grow(p)
           \/ Exit(p) \/ CreateExit(p) \/ NoExit(p) \/ Review(p) \/ Close(p)
           \/ RecordPostmortem(p) \/ Observe(p) \/ EndTrade(p) \/ Finish(p)
    PROVE  Sees(p)
<1> SUFFICES ASSUME SeenAt(p) PROVE Sees(p)
  BY DEF SeenInv
<1> USE DEF SeenAt, OthersStand, BehindMatch, BehindExits, Flat, EndsClean, Heading,
            ControlOK, BrokerOK, SizeOK, local, rows
<1>1. CASE Gone(p)
  BY <1>1, KeepsSeen DEF Gone, Goto
<1>2. CASE SyncLot(p, "gone_lot", "grow")
  <2>1. Return(p) \/ (pc[p] = "gone_lot" /\ Goto(p, "grow") /\ UNCHANGED local)
    BY <1>2 DEF SyncLot
  <2> QED
    BY <2>1, ReturnSees, KeepsSeen DEF Goto
<1>3. CASE Grow(p)
  BY <1>3 DEF Grow, Step, Goto, Sees
<1>4. CASE Exit(p)
  BY <1>4, KeepsSeen DEF Exit, Goto, Transit
<1>5. CASE CreateExit(p)
  <2>1. Return(p) \/ (pc[p] = "create_exit" /\ Transit(p, "review") /\ UNCHANGED local)
    BY <1>5 DEF CreateExit
  <2> QED
    BY <2>1, ReturnSees, KeepsSeen DEF Transit
<1>6. CASE NoExit(p)
  <2>1. /\ pc[p] = "exit" /\ pc'[p] \in {"release", "finish"} /\ pos[p] = 0
        /\ \A q \in Process \ {p} : pc'[q] = pc[q]
        /\ dirty' \in {dirty, dirty \cup {p}} /\ UNCHANGED <<back, pos, seen, size>>
    BY <1>6 DEF NoExit, Goto, Note
  <2>2. ~EndsClean(p)' /\ ~BehindMatch(p)' /\ ~BehindExits(p)'
    BY <2>1
  <2>3. /\ ~(Heading(p, "finish") \/ Heading(p, "emergency"))'
        /\ pc'[p] \notin {"alarm", "emergency"}
    BY <2>1
  <2>4. OthersStand(p)
    BY <2>1
  <2> QED
    BY <2>1, <2>2, <2>3, <2>4, KeepsSeen
<1>7. CASE Review(p)
  <2>1. Return(p) \/ (pc[p] = "review" /\ Goto(p, "close") /\ UNCHANGED local)
    BY <1>7 DEF Review
  <2> QED
    BY <2>1, ReturnSees, KeepsSeen DEF Goto
<1>8. CASE Close(p)
  BY <1>8, KeepsSeen DEF Close, Step, Goto
<1>9. CASE RecordPostmortem(p)
  <2>1. Return(p) \/ (pc[p] = "postmortem" /\ Goto(p, "observe") /\ UNCHANGED local)
    BY <1>9 DEF RecordPostmortem
  <2> QED
    BY <2>1, ReturnSees, KeepsSeen DEF Goto
<1>10. CASE Observe(p)
  BY <1>10, KeepsSeen DEF Observe, Transit
<1>11. CASE EndTrade(p)
  BY <1>11, KeepsSeen DEF EndTrade, Goto
<1>12. CASE Finish(p)
  BY <1>12, ReturnSees DEF Finish
<1> QED
  BY <1>1, <1>2, <1>3, <1>4, <1>5, <1>6, <1>7, <1>8, <1>9, <1>10, <1>11, <1>12

\* Nothing is relied on after an illegal transition, but that the emergency is noted.
LEMMA TurnSees ==
    ASSUME NEW p \in Process, ControlOK, BrokerOK, SizeOK, SeenInv, ReadState(p) \/ SwapState(p)
    PROVE  Sees(p)
<1> USE GoalPlaces
<1>1. SeenAt(p) /\ pc[p] \in {"state", "swap"} /\ back[p] \in DOMAIN Goal
  BY DEF SeenInv, ControlOK, ReadState, SwapState
<1>2. \/ Raise(p)
      \/ UNCHANGED <<pos, seen, size, dirty>> /\ (Goto(p, back[p]) \/ Goto(p, "swap"))
  BY DEF ReadState, SwapState, local
<1> USE DEF SeenAt, OthersStand, BehindMatch, BehindExits, Flat, EndsClean, Heading
<1>3. CASE /\ UNCHANGED <<back, pos, seen, size, dirty>>
           /\ \A q \in Process \ {p} : pc'[q] = pc[q]
           /\ \/ pc'[p] \in {back[p], "swap"}
              \/ pc'[p] = "mark"
  <2>1. CASE pc'[p] \in {"swap", "mark"}
    BY <1>1, <1>3, <2>1, KeepsSeen
  <2>2. CASE pc'[p] = back[p]
    <3>1. back[p] \in {"finish", "placed", "end", "review", "emergency", "manual", "remedy"}
      BY <1>1
    <3> QED
      BY <1>1, <1>3, <2>2, <3>1, KeepsSeen
  <2> QED
    BY <1>3, <2>1, <2>2
<1>4. CASE Raise(p)
  <2>1. \/ Return(p)
        \/ back[p] = "emergency" /\ Goto(p, "emergency") /\ UNCHANGED local
        \/ Goto(p, "mark") /\ UNCHANGED local
    BY <1>4 DEF Raise
  <2> QED
    BY <1>3, <2>1, ReturnSees DEF Goto, ControlOK, local
<1> QED
  BY <1>2, <1>3, <1>4 DEF Goto, ControlOK

LEMMA CommandSees ==
    ASSUME NEW p \in Process, ControlOK, BrokerOK, SizeOK, SeenInv,
           \/ StartClose(p) \/ ManualClose(p) \/ HaltUnknownClose(p) \/ NoteClose(p)
           \/ Persist(p) \/ Fill(p) \/ Link(p) \/ Open(p) \/ Placed(p)
           \/ Remediate(p) \/ RemedyClose(p) \/ MarkUnknown(p) \/ LatchUnknown(p)
           \/ Crash(p)
    PROVE  Sees(p)
<1>1. CASE NoteClose(p) \/ Placed(p) \/ RemedyClose(p) \/ LatchUnknown(p) \/ Crash(p)
  BY <1>1, ReturnSees DEF NoteClose, Placed, RemedyClose, LatchUnknown, Crash
<1>2. CASE Link(p) /\ Return(p)
  BY <1>2, ReturnSees
<1> USE DEF OthersStand, BehindMatch, BehindExits, Flat, EndsClean, Heading, ControlOK, local
<1>3. CASE Link(p) /\ ~Return(p)
  BY <1>3, KeepsSeen DEF Link, Goto
<1>4. CASE StartClose(p)
  BY <1>4, KeepsSeen DEF StartClose, Transit
<1>5. CASE ManualClose(p)
  BY <1>5, KeepsSeen DEF ManualClose, Goto
<1>6. CASE HaltUnknownClose(p)
  BY <1>6, KeepsSeen DEF HaltUnknownClose, Step, Goto
<1>7. CASE Persist(p)
  BY <1>7, KeepsSeen DEF Persist, Goto
<1>8. CASE Fill(p)
  BY <1>8, KeepsSeen DEF Fill, Goto
<1>9. CASE Open(p)
  BY <1>9, KeepsSeen DEF Open, CreateOpen, Goto, Transit
<1>10. CASE Remediate(p)
  BY <1>10, KeepsSeen DEF Remediate, Transit
<1>11. CASE MarkUnknown(p)
  BY <1>11, KeepsSeen DEF MarkUnknown, Step, Goto
<1> QED
  BY <1>1, <1>2, <1>3, <1>4, <1>5, <1>6, <1>7, <1>8, <1>9, <1>10, <1>11

\* So each step of a process leaves the others alone, and itself where it may stand.
LEMMA MoveSees ==
    ASSUME ControlOK, RaceOK, SeenInv, NEW p \in Process,
           \/ StartReconcile(p) \/ StartClose(p) \/ SnapshotFails(p)
           \/ ReconcileStep(p) \/ OtherStep(p) \/ Crash(p)
    PROVE  Sees(p)
<1>1. BrokerOK /\ SizeOK /\ SnapshotInv /\ dirty \subseteq Process
  BY DEF RaceOK, RowOK
<1> QED
  BY <1>1, RecoverySees, HeldSees, GoneSees, TurnSees, CommandSees DEF ReconcileStep, OtherStep

\* Whatever interleaves, each process stands behind what it has seen.
LEMMA SeenStep ==
    ASSUME ControlOK, RaceOK, SeenInv, [Next]_vars
    PROVE  SeenInv'
<1>2. ASSUME NEW p \in Process,
             \/ StartReconcile(p) \/ StartClose(p) \/ SnapshotFails(p)
             \/ ReconcileStep(p) \/ OtherStep(p) \/ Crash(p)
      PROVE  SeenInv'
  <2>1. Sees(p)
    BY <1>2, MoveSees
  <2>2. ASSUME NEW q \in Process \ {p} PROVE SeenAt(q)'
    <3>1. SeenAt(q)
      BY DEF SeenInv
    <3> QED
      BY <2>1, <3>1, SnapshotCompares
      DEF Sees, OthersStand, SeenAt, BehindMatch, BehindExits, Flat, EndsClean, Heading
  <2> QED
    BY <2>1, <2>2 DEF Sees, SeenInv
<1>3. CASE BrokerStep \/ UNCHANGED vars
  <2>1. UNCHANGED <<pc, back, pos, seen, size, dirty>>
    BY <1>3 DEF BrokerStep, Buy, EndEntry, SellByLeg, SellByClose, LoseLegs, processSame,
                vars, local
  <2> QED
    BY <2>1, SnapshotCompares
    DEF SeenInv, SeenAt, BehindMatch, BehindExits, Flat, EndsClean, Heading
<1> QED
  BY <1>2, <1>3 DEF Next

LEMMA SeenInit == Init => SeenInv
BY DEF Init, SeenInv, SeenAt, BehindMatch, BehindExits, Flat, EndsClean, Heading

\* In every reachable state, what each process has compared holds of its snapshot.
THEOREM SeenInvariance == Spec => []SeenInv
<1>1. ControlOK /\ RaceOK /\ SeenInv /\ [Next]_vars => SeenInv'
  BY SeenStep
<1> QED
  BY SeenInit, <1>1, RaceInvariance, PTL DEF Spec

\* A reconciliation that has noted nothing of a position has seen it behind both
\* legs, and of the size that the entry and the legs leave, or sold since.
CleanEndSawMatch ==
    \A p \in Process : pc[p] = "finish" /\ p \notin dirty /\ pos[p] > 0 =>
        /\ seen[p].legs
        /\ Expected(p) - seen[p].legSold \in {pos[p], 0}

\* Whoever else runs: what CleanEndMatches promises of one process and the rows is
\* left of any number of them and what each has read.
THEOREM CleanEndSaw == Spec => []CleanEndSawMatch
<1>1. SeenInv => CleanEndSawMatch
  BY DEF SeenInv, SeenAt, EndsClean, Matches, CleanEndSawMatch
<1> QED
  BY <1>1, SeenInvariance, PTL

\* Who closes a trade has seen exits that cover the entry as it had read it, and
\* the broker has sold no less.
ClosedOnSeenExit ==
    [][trade' = "CLOSED" /\ trade # "CLOSED" =>
          \E p \in Process : /\ pc[p] = "close"
                             /\ Exited(p) > 0 /\ Exited(p) >= Expected(p)
                             /\ Exited(p) <= legSold + closeSold]_vars

\* Only Close closes a trade.
LEMMA ClosesAtClose ==
    ASSUME [Next]_vars, trade' = "CLOSED", trade # "CLOSED"
    PROVE  \E p \in Process : Close(p)
<1>1. ~(BrokerStep \/ UNCHANGED vars)
  BY DEF BrokerStep, Buy, EndEntry, SellByLeg, SellByClose, LoseLegs, processSame, vars, rows
<1>2. ASSUME NEW p \in Process,
             \/ StartReconcile(p) \/ StartClose(p) \/ SnapshotFails(p)
             \/ ReconcileStep(p) \/ OtherStep(p) \/ Crash(p)
      PROVE  Close(p)
  <2>1. ~(StartReconcile(p) \/ StartClose(p) \/ SnapshotFails(p) \/ Crash(p))
    BY DEF StartReconcile, StartClose, SnapshotFails, Crash, rows
  <2>2. ~OtherStep(p)
    BY DEF OtherStep, ReadState, SwapState, ManualClose, HaltUnknownClose, NoteClose, Persist,
           Fill, Link, Open, Placed, Remediate, RemedyClose, MarkUnknown, LatchUnknown, rows
  <2>3. ReconcileStep(p) => Close(p)
    BY DEF ReconcileStep, ReadOrders, Recover, Refill, Relink, ListTrade, Held, SyncLot, Hold,
           Look, Protect, Alarm, Emergency, Gone, Grow, Exit, CreateExit, NoExit, Review,
           RecordPostmortem, Observe, EndTrade, Finish, rows
  <2> QED
    BY <1>2, <2>1, <2>2, <2>3
<1> QED
  BY <1>1, <1>2 DEF Next

\* Whoever comes to the close of a trade has found its initial risk positive.
NoneCloses == ~aboveStop => trade # "CLOSED" /\ \A p \in Process : pc[p] # "close"

\* Only Review leads to the close, and SwapState to none of the places it returns to.
LEMMA ClosedAfterReview ==
    ASSUME ControlOK, NoneCloses, [Next]_vars
    PROVE  NoneCloses'
<1>1. aboveStop' = aboveStop
  <2>1. BrokerStep \/ UNCHANGED vars => aboveStop' = aboveStop
    BY DEF BrokerStep, Buy, EndEntry, SellByLeg, SellByClose, LoseLegs, vars, broker
  <2>2. ASSUME NEW p \in Process,
               StartReconcile(p) \/ StartClose(p) \/ SnapshotFails(p) \/ Crash(p) \/ OtherStep(p)
        PROVE  aboveStop' = aboveStop
    BY <2>2 DEF StartReconcile, StartClose, SnapshotFails, Crash, OtherStep, ReadState, SwapState,
       ManualClose, HaltUnknownClose, NoteClose, Persist, Fill, Link, Open, Placed, Remediate,
       RemedyClose, MarkUnknown, LatchUnknown, broker, brokerSame
  <2>3. ASSUME NEW p \in Process, ReconcileStep(p)
        PROVE  aboveStop' = aboveStop
    BY <2>3 DEF ReconcileStep, ReadOrders, Recover, Refill, Relink, ListTrade, Held, SyncLot,
       Hold, Look, Protect, Alarm, Emergency, Gone, Grow, Exit, CreateExit, NoExit, Review, Close,
       RecordPostmortem, Observe, EndTrade, Finish, broker, brokerSame
  <2> QED
    BY <2>1, <2>2, <2>3 DEF Next
<1>2. SUFFICES ASSUME ~aboveStop PROVE trade' # "CLOSED" /\ \A p \in Process : pc'[p] # "close"
  BY <1>1 DEF NoneCloses
<1>3. trade # "CLOSED" /\ \A p \in Process : pc[p] # "close"
  BY <1>2 DEF NoneCloses
<1>4. trade' # "CLOSED"
  BY <1>3, ClosesAtClose DEF Close, Step
<1>5. pc \in [Process -> Label] /\ back \in [Process -> DOMAIN Goal] /\ "close" \notin DOMAIN Goal
  BY DEF ControlOK, Goal
<1>6. ASSUME NEW p \in Process, StartReconcile(p) \/ StartClose(p) \/ SnapshotFails(p) \/ Crash(p)
      PROVE  \A q \in Process : pc'[q] # "close"
  BY <1>3, <1>5, <1>6 DEF StartReconcile, StartClose, SnapshotFails, Crash, Step, Goto, Return, Transit
<1>7. ASSUME NEW p \in Process, OtherStep(p)
      PROVE  \A q \in Process : pc'[q] # "close"
  BY <1>3, <1>5, <1>7
  DEF OtherStep, ReadState, SwapState, ManualClose, HaltUnknownClose, NoteClose, Persist,
      Fill, Link, Open, Placed, Remediate, RemedyClose, MarkUnknown, LatchUnknown,
      Step, Goto, Raise, Return, Transit
<1>8. ASSUME NEW p \in Process, ReconcileStep(p)
      PROVE  \A q \in Process : pc'[q] # "close"
  BY <1>2, <1>3, <1>5, <1>8
  DEF ReconcileStep, ReadOrders, Recover, Refill, Relink, ListTrade, Held, SyncLot, Hold,
      Look, Protect, Alarm, Emergency, Gone, Grow, Exit, CreateExit, NoExit, Review, Close,
      RecordPostmortem, Observe, EndTrade, Finish, Step, Goto, Return, Transit
<1>9. ASSUME BrokerStep \/ UNCHANGED vars
      PROVE  \A q \in Process : pc'[q] # "close"
  BY <1>3, <1>9 DEF BrokerStep, Buy, EndEntry, SellByLeg, SellByClose, LoseLegs, processSame, vars
<1> QED
  BY <1>4, <1>6, <1>7, <1>8, <1>9 DEF Next

\* The trade of an entry that was filled at or below its initial stop never closes,
\* whatever the broker sells of it and however often reconcile runs: the hypothesis
\* of SoldIsClosed cannot be left out.
THEOREM BelowStopStaysOpen == Spec => [](~aboveStop => trade # "CLOSED")
<1>1. Init => NoneCloses
  BY DEF Init, NoneCloses
<1>2. ControlOK /\ NoneCloses /\ [Next]_vars => NoneCloses'
  BY ClosedAfterReview
<1>3. NoneCloses => (~aboveStop => trade # "CLOSED")
  BY DEF NoneCloses
<1> QED
  BY <1>1, <1>2, <1>3, Invariance, PTL DEF Spec

\* Several reconcilers may disagree about the lots, so that none of them is held to
\* these; but none closes a trade on exits that fall short of what it has read.
THEOREM ClosesOnSeenExit == Spec => ClosedOnSeenExit
<1>1. ASSUME RaceOK, SeenInv, [Next]_vars, trade' = "CLOSED", trade # "CLOSED"
      PROVE  \E p \in Process : /\ pc[p] = "close"
                                /\ Exited(p) > 0 /\ Exited(p) >= Expected(p)
                                /\ Exited(p) <= legSold + closeSold
  <2>1. PICK p \in Process : Close(p)
    BY <1>1, ClosesAtClose
  <2>2. pc[p] = "close" /\ FullExit(p)
    BY <1>1, <2>1 DEF Close, Step, SeenInv, SeenAt, BehindExits
  <2>3. Exited(p) <= legSold + closeSold
    <3>1. /\ seen[p].legSold \in Nat /\ seen[p].closeSold \in Nat
          /\ legSold \in Nat /\ closeSold \in Nat
          /\ seen[p].legSold <= legSold /\ seen[p].closeSold <= closeSold
      BY <1>1, BookAssumption DEF RaceOK, BrokerOK, SnapshotInv
    <3> QED
      BY <3>1 DEF Exited
  <2> QED
    BY <2>2, <2>3 DEF FullExit
<1>2. RaceOK /\ SeenInv /\ [Next]_vars =>
         [trade' = "CLOSED" /\ trade # "CLOSED" =>
             \E p \in Process : /\ pc[p] = "close"
                                /\ Exited(p) > 0 /\ Exited(p) >= Expected(p)
                                /\ Exited(p) <= legSold + closeSold]_vars
  BY <1>1
<1> QED
  BY <1>2, RaceInvariance, SeenInvariance, PTL DEF Spec, ClosedOnSeenExit

---------------------------------------------------------------------------
(* The way of TradeLifecycle.                                              *)
(*                                                                         *)
(* Whoever stands before the close, the postmortem or the lesson came      *)
(* there over an exit that was pending, which no process takes back.  All  *)
(* but seven actions of a process are harmless: they end elsewhere, and    *)
(* write no more than a created lifecycle or a status that is not CLOSED.  *)

EndOfLife == {"EXIT_PENDING", "CLOSED"}

\* Where p relies on the pending exit.
BehindRequest(p) ==
    pc[p] \in {"review", "close", "postmortem", "observe"} \/ Heading(p, "end")

RequestAt(p) == BehindRequest(p) => lc \in EndOfLife

RequestInv == \A p \in Process : RequestAt(p)

\* A pending exit is not taken back.
LEMMA EndingLasts ==
    ASSUME ControlOK, BookInv, [Next]_vars, lc \in EndOfLife
    PROVE  lc' \in EndOfLife
BY StepIsLegal DEF EndOfLife, Legal

Harmless(p) ==
    /\ UNCHANGED <<legSold, closeSold, reviewed, lessons>>
    /\ \/ UNCHANGED lc /\ (trade' = trade \/ trade' # "CLOSED")
       \/ lc = "none" /\ lc' = "OPEN" /\ UNCHANGED trade
    /\ ~BehindRequest(p)'

LEMMA RecoveryIsHarmless ==
    ASSUME NEW p \in Process, ControlOK, BrokerOK,
           \/ StartReconcile(p) \/ ReadOrders(p) \/ SnapshotFails(p)
           \/ Recover(p) \/ Refill(p) \/ Relink(p) \/ ListTrade(p)
    PROVE  Harmless(p)
<1> USE DEF Harmless, BehindRequest, Heading, ControlOK, BrokerOK, local, broker
<1>1. CASE StartReconcile(p)
  BY <1>1 DEF StartReconcile, Step, Goto, rows
<1>2. CASE ReadOrders(p)
  BY <1>2 DEF ReadOrders, Step, Goto, rows
<1>3. CASE SnapshotFails(p)
  BY <1>3 DEF SnapshotFails, Return
<1>4. CASE Recover(p)
  BY <1>4 DEF Recover, Goto, Note
<1>5. CASE Refill(p)
  BY <1>5 DEF Refill, Goto, Note
<1>6. CASE Relink(p)
  BY <1>6 DEF Relink, Step, Goto
<1>7. CASE ListTrade(p)
  BY <1>7 DEF ListTrade, Goto, Note, rows
<1> QED
  BY <1>1, <1>2, <1>3, <1>4, <1>5, <1>6, <1>7

LEMMA HeldIsHarmless ==
    ASSUME NEW p \in Process, ControlOK, BrokerOK,
           \/ Held(p) \/ SyncLot(p, "held_lot", "hold") \/ Hold(p)
           \/ Look(p) \/ Protect(p) \/ Alarm(p) \/ Emergency(p)
    PROVE  Harmless(p)
<1> USE DEF Harmless, BehindRequest, Heading, ControlOK, BrokerOK, local, broker
<1>1. CASE Held(p)
  BY <1>1 DEF Held, Goto, Note, rows
<1>2. CASE SyncLot(p, "held_lot", "hold")
  BY <1>2 DEF SyncLot, Goto, Return
<1>3. CASE Hold(p)
  BY <1>3 DEF Hold, Step, Goto
<1>4. CASE Look(p)
  BY <1>4 DEF Look, Step, Goto, rows
<1>5. CASE Protect(p)
  BY <1>5 DEF Protect, Goto, Note, Return, Transit, CreateOpen, State
<1>6. CASE Alarm(p)
  BY <1>6 DEF Alarm, Transit
<1>7. CASE Emergency(p)
  BY <1>7 DEF Emergency, Step, Goto, rows, brokerSame
<1> QED
  BY <1>1, <1>2, <1>3, <1>4, <1>5, <1>6, <1>7

LEMMA GoneIsHarmless ==
    ASSUME NEW p \in Process, ControlOK, BrokerOK,
           \/ Gone(p) \/ SyncLot(p, "gone_lot", "grow") \/ Grow(p)
           \/ CreateExit(p) \/ NoExit(p) \/ EndTrade(p) \/ Finish(p)
    PROVE  Harmless(p)
<1> USE DEF Harmless, BehindRequest, Heading, ControlOK, BrokerOK, local, broker
<1>1. CASE Gone(p)
  BY <1>1 DEF Gone, Goto, rows
<1>2. CASE SyncLot(p, "gone_lot", "grow")
  BY <1>2 DEF SyncLot, Goto, Return
<1>3. CASE Grow(p)
  BY <1>3 DEF Grow, Step, Goto
<1>4. CASE NoExit(p)
  BY <1>4 DEF NoExit, Goto, Note
<1>5. CASE EndTrade(p)
  BY <1>5 DEF EndTrade, Goto
<1>6. CASE Finish(p)
  BY <1>6 DEF Finish, Return
<1>7. CASE CreateExit(p)
  BY <1>7 DEF CreateExit, CreateOpen, Transit, Return
<1> QED
  BY <1>1, <1>2, <1>3, <1>4, <1>5, <1>6, <1>7

LEMMA CommandIsHarmless ==
    ASSUME NEW p \in Process, ControlOK, BrokerOK,
           \/ StartClose(p) \/ ManualClose(p) \/ HaltUnknownClose(p) \/ NoteClose(p)
           \/ Persist(p) \/ Fill(p) \/ Link(p) \/ Open(p) \/ Placed(p)
           \/ Remediate(p) \/ RemedyClose(p) \/ MarkUnknown(p) \/ LatchUnknown(p)
           \/ Crash(p)
    PROVE  Harmless(p)
<1> USE DEF Harmless, BehindRequest, Heading, ControlOK, BrokerOK, local, broker
<1>1. CASE StartClose(p)
  BY <1>1 DEF StartClose, Transit, rows
<1>2. CASE ManualClose(p)
  BY <1>2 DEF ManualClose, Goto, rows, brokerSame
<1>3. CASE HaltUnknownClose(p)
  BY <1>3 DEF HaltUnknownClose, Step, Goto
<1>4. CASE NoteClose(p)
  BY <1>4 DEF NoteClose, Return
<1>5. CASE Persist(p)
  BY <1>5 DEF Persist, Goto
<1>6. CASE Fill(p)
  BY <1>6 DEF Fill, Goto
<1>7. CASE Link(p)
  BY <1>7 DEF Link, Goto, Return
<1>8. CASE Open(p)
  BY <1>8 DEF Open, CreateOpen, Goto, Transit, State
<1>9. CASE Placed(p)
  BY <1>9 DEF Placed, Return, rows
<1>10. CASE Remediate(p)
  BY <1>10 DEF Remediate, Transit
<1>11. CASE RemedyClose(p)
  BY <1>11 DEF RemedyClose, Return, rows, brokerSame
<1>12. CASE MarkUnknown(p)
  BY <1>12 DEF MarkUnknown, Step, Goto
<1>13. CASE LatchUnknown(p)
  BY <1>13 DEF LatchUnknown, Return
<1>14. CASE Crash(p)
  BY <1>14 DEF Crash, Return, rows
<1> QED
  BY <1>1, <1>2, <1>3, <1>4, <1>5, <1>6, <1>7, <1>8, <1>9, <1>10, <1>11, <1>12, <1>13, <1>14

LEMMA MoveIsHarmlessOrOneOfSeven ==
    ASSUME ControlOK, BrokerOK, NEW p \in Process,
           \/ StartReconcile(p) \/ StartClose(p) \/ SnapshotFails(p)
           \/ ReconcileStep(p) \/ OtherStep(p) \/ Crash(p)
    PROVE  \/ Harmless(p)
           \/ Exit(p) \/ Review(p) \/ Close(p)
           \/ RecordPostmortem(p) \/ Observe(p) \/ ReadState(p) \/ SwapState(p)
BY RecoveryIsHarmless, HeldIsHarmless, GoneIsHarmless, CommandIsHarmless
DEF ReconcileStep, OtherStep

\* The seven others go on over a pending exit, or away.
LEMMA SevenGoOn ==
    ASSUME NEW p \in Process, ControlOK, BrokerOK, RequestInv,
           \/ Exit(p) \/ Review(p) \/ Close(p) \/ RecordPostmortem(p) \/ Observe(p)
           \/ ReadState(p) \/ SwapState(p)
    PROVE  RequestAt(p)'
<1> USE GoalPlaces DEF RequestAt, BehindRequest, Heading, EndOfLife, rows
<1>1. RequestAt(p) /\ back[p] \in DOMAIN Goal
  BY DEF RequestInv, ControlOK
<1>2. CASE Exit(p)
  BY <1>2 DEF Exit, Goto, Transit, ControlOK
<1>3. CASE Review(p)
  BY <1>1, <1>3 DEF Review, Goto, Return, ControlOK
<1>4. CASE Close(p)
  BY <1>1, <1>4 DEF Close, Step, Goto, ControlOK
<1>5. CASE RecordPostmortem(p)
  BY <1>1, <1>5 DEF RecordPostmortem, Goto, Return, ControlOK
<1>6. CASE Observe(p)
  BY <1>1, <1>6 DEF Observe, Transit, ControlOK
<1>7. CASE (ReadState(p) \/ SwapState(p)) /\ Raise(p)
  <2>1. ~BehindRequest(p)'
    BY <1>7 DEF Raise, Goto, Return, ControlOK
  <2> QED
    BY <2>1
<1>8. CASE ReadState(p) /\ ~Raise(p)
  <2>1. /\ pc[p] = "state" /\ UNCHANGED <<back, lc>>
        /\ \/ lc = "EXIT_PENDING" /\ pc' = [pc EXCEPT ![p] = back[p]]
           \/ pc' = [pc EXCEPT ![p] = "swap"]
    BY <1>8 DEF ReadState, Goto
  <2> QED
    BY <1>1, <2>1 DEF ControlOK
<1>9. CASE SwapState(p) /\ ~Raise(p)
  <2>1. lc' = Goal[back[p]] /\ pc' = [pc EXCEPT ![p] = back[p]] /\ UNCHANGED back
    BY <1>9 DEF SwapState, Goto
  <2>2. Goal["review"] = "EXIT_PENDING" /\ Goal["end"] = "CLOSED"
    BY DEF Goal
  <2> QED
    BY <1>1, <2>1, <2>2 DEF ControlOK
<1> QED
  BY <1>2, <1>3, <1>4, <1>5, <1>6, <1>7, <1>8, <1>9

\* Whatever step is taken, an exit that is relied on stays pending.
LEMMA RequestStep ==
    ASSUME ControlOK, BookInv, RaceOK, SeenInv, RequestInv, [Next]_vars
    PROVE  RequestInv'
<1>1. ASSUME NEW p \in Process,
             \/ StartReconcile(p) \/ StartClose(p) \/ SnapshotFails(p)
             \/ ReconcileStep(p) \/ OtherStep(p) \/ Crash(p)
      PROVE  RequestInv'
  <2>1. OthersStand(p) /\ BrokerOK
    BY <1>1, MoveSees DEF Sees, RaceOK
  <2>2. RequestAt(p)'
    BY <1>1, <2>1, MoveIsHarmlessOrOneOfSeven, SevenGoOn DEF Harmless, RequestAt
  <2>3. ASSUME NEW q \in Process \ {p} PROVE RequestAt(q)'
    BY <2>1, EndingLasts DEF OthersStand, RequestInv, RequestAt, BehindRequest, Heading
  <2> QED
    BY <2>2, <2>3 DEF RequestInv
<1>2. CASE BrokerStep \/ UNCHANGED vars
  <2>1. UNCHANGED <<pc, back, lc>>
    BY <1>2 DEF BrokerStep, Buy, EndEntry, SellByLeg, SellByClose, LoseLegs, processSame,
                vars, rows
  <2> QED
    BY <2>1 DEF RequestInv, RequestAt, BehindRequest, Heading
<1> QED
  BY <1>1, <1>2 DEF Next

LEMMA RequestInit == Init => RequestInv
BY DEF Init, RequestInv, RequestAt, BehindRequest, Heading

\* Whoever closes or reviews a trade does so over an exit that is pending or over.
THEOREM RequestInvariance == Spec => []RequestInv
<1>1. ControlOK /\ BookInv /\ RaceOK /\ SeenInv /\ RequestInv /\ [Next]_vars => RequestInv'
  BY RequestStep
<1> QED
  BY RequestInit, <1>1, Invariance, RaceInvariance, SeenInvariance, PTL DEF Spec

\* What the snapshot saw sold is sold.
LEMMA ExitsHappened ==
    ASSUME RaceOK, SeenInv, NEW p \in Process, BehindExits(p)
    PROVE  legSold + closeSold > 0
<1>1. /\ seen[p].legSold \in Nat /\ seen[p].closeSold \in Nat
      /\ legSold \in Nat /\ closeSold \in Nat
      /\ seen[p].legSold <= legSold /\ seen[p].closeSold <= closeSold
  BY BookAssumption DEF RaceOK, BrokerOK, SnapshotInv
<1>2. Exited(p) > 0
  BY DEF SeenInv, SeenAt, FullExit
<1> QED
  BY <1>1, <1>2 DEF Exited

\* A harmless step creates the lifecycle, overwrites a status, or does nothing
\* that TradeLifecycle sees.
LEMMA HarmlessImplements ==
    ASSUME NEW p \in Process, Harmless(p)
    PROVE  [Lifecycle!Next]_(Lifecycle!lifecycleVars)
<1>1. UNCHANGED <<legSold, closeSold, reviewed, lessons>>
  BY DEF Harmless
<1>2. CASE lc = "none" /\ lc' = "OPEN" /\ UNCHANGED trade
  <2>1. Lifecycle!Create
    BY <1>1, <1>2 DEF Lifecycle!Create
  <2> QED
    BY <2>1 DEF Lifecycle!Next
<1>3. CASE UNCHANGED lc /\ trade' # "CLOSED"
  <2>1. Lifecycle!Overwrite
    BY <1>1, <1>3 DEF Lifecycle!Overwrite
  <2> QED
    BY <2>1 DEF Lifecycle!Next
<1>4. CASE UNCHANGED <<lc, trade>>
  BY <1>1, <1>4 DEF Lifecycle!lifecycleVars
<1> QED
  BY <1>2, <1>3, <1>4 DEF Harmless

\* The steps of the close.
LEMMA CloseImplements ==
    ASSUME RaceOK, SeenInv, RequestInv, NEW p \in Process, Exit(p) \/ Review(p) \/ Close(p)
    PROVE  [Lifecycle!Next]_(Lifecycle!lifecycleVars)
<1>1. UNCHANGED <<legSold, closeSold, lc, reviewed, lessons>>
  BY DEF Exit, Review, Close, broker, rows
<1>2. CASE Exit(p) \/ Review(p)
  <2>1. UNCHANGED trade
    BY <1>2 DEF Exit, Review, rows
  <2> QED
    BY <1>1, <2>1 DEF Lifecycle!lifecycleVars
<1>3. CASE Close(p)
  <2>1. pc[p] = "close" /\ trade' = "CLOSED"
    BY <1>3 DEF Close, Step
  <2>2. lc \in EndOfLife
    BY <2>1 DEF RequestInv, RequestAt, BehindRequest
  <2>3. legSold + closeSold > 0
    BY <2>1, ExitsHappened DEF BehindExits
  <2>4. Lifecycle!CloseTrade
    BY <1>1, <2>1, <2>2, <2>3 DEF Lifecycle!CloseTrade, Lifecycle!Ending, EndOfLife
  <2> QED
    BY <2>4 DEF Lifecycle!Next
<1> QED
  BY <1>2, <1>3

\* The postmortem and its lesson.
LEMMA ReviewImplements ==
    ASSUME RaceOK, BookInv, SeenInv, RequestInv, NEW p \in Process,
           RecordPostmortem(p) \/ Observe(p)
    PROVE  [Lifecycle!Next]_(Lifecycle!lifecycleVars)
<1>1. UNCHANGED <<legSold, closeSold, lc, trade>>
  BY DEF RecordPostmortem, Observe, broker
<1>2. CASE RecordPostmortem(p) /\ reviewed
  BY <1>1, <1>2 DEF RecordPostmortem, Lifecycle!lifecycleVars
<1>3. CASE RecordPostmortem(p) /\ ~reviewed
  <2>1. pc[p] = "postmortem" /\ reviewed' = TRUE /\ UNCHANGED lessons
    BY <1>3 DEF RecordPostmortem
  <2>2. lc \in EndOfLife
    BY <2>1 DEF RequestInv, RequestAt, BehindRequest
  <2>3. legSold + closeSold > 0
    BY <2>1, ExitsHappened DEF BehindExits
  <2>4. Lifecycle!Review
    BY <1>1, <1>3, <2>1, <2>2, <2>3 DEF Lifecycle!Review, Lifecycle!Ending, EndOfLife
  <2> QED
    BY <2>4 DEF Lifecycle!Next
<1>4. CASE Observe(p)
  <2>1. pc[p] = "observe" /\ lessons' = lessons + 1 /\ UNCHANGED reviewed
    BY <1>4 DEF Observe
  <2>2. reviewed /\ lessons = 0
    BY <2>1 DEF BookInv, LessonInv
  <2>3. Lifecycle!Learn
    BY <1>1, <2>1, <2>2 DEF Lifecycle!Learn
  <2> QED
    BY <2>3 DEF Lifecycle!Next
<1> QED
  BY <1>2, <1>3, <1>4

\* The transitions.
LEMMA TurnImplements ==
    ASSUME RaceOK, ControlOK, BookInv, NEW p \in Process, ReadState(p) \/ SwapState(p)
    PROVE  [Lifecycle!Next]_(Lifecycle!lifecycleVars)
<1>1. UNCHANGED <<legSold, closeSold, reviewed, lessons, trade>>
  BY DEF ReadState, SwapState, broker, rows
<1>2. CASE UNCHANGED lc
  BY <1>1, <1>2 DEF Lifecycle!lifecycleVars
<1>3. CASE lc' # lc
  <2>1. pc[p] = "swap" /\ lc = was[p] /\ lc' = Goal[back[p]] /\ back[p] \in DOMAIN Goal
    BY <1>3 DEF ReadState, SwapState, rows, ControlOK
  <2>2. <<lc, lc'>> \in Legal
    BY <2>1 DEF BookInv, SwapInv
  <2>3. lc' \in {"PROTECTED", "EXIT_PENDING", "CLOSED"}
    BY <2>1, GoalPlaces DEF Goal
  <2>4. CASE lc' = "PROTECTED"
    <3>1. lc = "OPEN"
      BY <2>2, <2>4 DEF Legal
    <3>2. 1 \in 1..3 /\ lc = Lifecycle!Path[1] /\ lc' = Lifecycle!Path[1 + 1]
      BY <2>4, <3>1 DEF Lifecycle!Path
    <3>3. Lifecycle!Advance
      BY <1>1, <3>2 DEF Lifecycle!Advance
    <3> QED
      BY <3>3 DEF Lifecycle!Next
  <2>5. CASE lc' = "EXIT_PENDING"
    <3>1. lc \in {"OPEN", "PROTECTED", "PROFITABLE", "TRAILING"}
      BY <2>2, <2>5 DEF Legal
    <3>2. \E i \in 1..4 : lc = Lifecycle!Path[i]
      <4>1. /\ Lifecycle!Path[1] = "OPEN" /\ Lifecycle!Path[2] = "PROTECTED"
            /\ Lifecycle!Path[3] = "PROFITABLE" /\ Lifecycle!Path[4] = "TRAILING"
        BY DEF Lifecycle!Path
      <4>2. 1 \in 1..4 /\ 2 \in 1..4 /\ 3 \in 1..4 /\ 4 \in 1..4
        OBVIOUS
      <4> QED
        BY <3>1, <4>1, <4>2
    <3>3. Lifecycle!RequestExit
      BY <1>1, <2>5, <3>2 DEF Lifecycle!RequestExit
    <3> QED
      BY <3>3 DEF Lifecycle!Next
  <2>6. CASE lc' = "CLOSED"
    <3>1. lc = "EXIT_PENDING"
      BY <2>2, <2>6 DEF Legal
    <3>2. lessons = 1
      BY <2>1, <2>6, GoalPlaces DEF BookInv, EndInv
    <3>3. Lifecycle!End
      BY <1>1, <2>6, <3>1, <3>2 DEF Lifecycle!End
    <3> QED
      BY <3>3 DEF Lifecycle!Next
  <2> QED
    BY <2>3, <2>4, <2>5, <2>6
<1> QED
  BY <1>2, <1>3

\* What the broker does.
LEMMA BrokerImplements ==
    ASSUME RaceOK, BrokerStep \/ UNCHANGED vars
    PROVE  [Lifecycle!Next]_(Lifecycle!lifecycleVars)
<1>1. UNCHANGED <<lc, trade, reviewed, lessons>>
  BY DEF BrokerStep, Buy, EndEntry, SellByLeg, SellByClose, LoseLegs, processSame, vars, rows
<1>2. /\ legSold \in Nat /\ closeSold \in Nat
      /\ \/ UNCHANGED <<legSold, closeSold>>
         \/ legSold' = legSold + 1 /\ UNCHANGED closeSold
         \/ closeSold' = closeSold + 1 /\ UNCHANGED legSold
  BY BookAssumption
  DEF RaceOK, BrokerOK, BrokerStep, Buy, EndEntry, SellByLeg, SellByClose, LoseLegs, vars, broker
<1>3. CASE (legSold + closeSold > 0) = (legSold' + closeSold' > 0)
  BY <1>1, <1>3 DEF Lifecycle!lifecycleVars
<1>4. CASE (legSold + closeSold > 0) # (legSold' + closeSold' > 0)
  <2>1. (legSold + closeSold > 0) = FALSE /\ (legSold' + closeSold' > 0) = TRUE
    BY <1>2, <1>4
  <2>2. Lifecycle!Sell
    BY <1>1, <2>1 DEF Lifecycle!Sell
  <2> QED
    BY <2>2 DEF Lifecycle!Next
<1> QED
  BY <1>3, <1>4

\* However many processes reconcile, submit and close, whatever they have read
\* and wherever they die, the rows of a trade go the way of TradeLifecycle.
THEOREM ImplementsLifecycle == Spec => LifecycleSpec
<1>1. Init => Lifecycle!Init
  BY DEF Init, Lifecycle!Init
<1>2. ASSUME ControlOK, BookInv, RaceOK, SeenInv, RequestInv, [Next]_vars
      PROVE  [Lifecycle!Next]_(Lifecycle!lifecycleVars)
  <2>1. ASSUME NEW p \in Process,
               \/ StartReconcile(p) \/ StartClose(p) \/ SnapshotFails(p)
               \/ ReconcileStep(p) \/ OtherStep(p) \/ Crash(p)
        PROVE  [Lifecycle!Next]_(Lifecycle!lifecycleVars)
    <3>1. BrokerOK
      BY <1>2 DEF RaceOK
    <3> QED
      BY <1>2, <2>1, <3>1, MoveIsHarmlessOrOneOfSeven, HarmlessImplements, CloseImplements,
         ReviewImplements, TurnImplements
  <2> QED
    BY <1>2, <2>1, BrokerImplements DEF Next
<1>3. ControlOK /\ BookInv /\ RaceOK /\ SeenInv /\ RequestInv /\ [Next]_vars
         => [Lifecycle!Next]_(Lifecycle!lifecycleVars)
  BY <1>2
<1> QED
  BY <1>1, <1>3, Invariance, RaceInvariance, SeenInvariance, RequestInvariance, PTL
  DEF Spec, LifecycleSpec, Lifecycle!Spec

---------------------------------------------------------------------------
(* One process at a time.                                                  *)
(*                                                                         *)
(* What a reconciliation promises about quantities it promises only while  *)
(* no other process writes the same rows: two that record a fill at once   *)
(* book it twice.  The invariant of a process that runs alone follows it   *)
(* through the loop: what it has read has happened, the lots add up to the *)
(* last cumulative fill recorded, the size lies between them and what the  *)
(* broker bought, and every place knows what the guards before it found.   *)

\* No two processes run.
LoneProcess == \A p, q \in Process : p = q

\* A lot is recorded for no more than all lots together.
Cumulative(f) ==
    /\ f \in [Reached -> 0..Shares]
    /\ \A n \in Reached : f[n] # 0 => n <= LotSum(f)

\* The lots add up to the last cumulative fill recorded, the size is between
\* that and what was bought, and so is every size a process has read.
LotInv ==
    /\ Cumulative(lots)
    /\ LotSum(lots) <= shares /\ shares <= bought
    /\ \A p \in Process :
          /\ size[p] <= bought
          /\ pc[p] \in {"held_lot", "gone_lot"} => prior[p] = LotSum(lots)
          /\ pc[p] \in {"refill", "fill"} =>
                LotSum(lots) = 0 /\ seen[p].bought > 0 /\ trade # "none"
    /\ trade = "none" => LotSum(lots) = 0

\* The admission of a trade in the loop is not in doubt, or that is noted.
AdmissionAt(p) ==
    \/ pc[p] \in {"list", "held", "held_lot", "hold", "look", "protect", "gone",
                  "gone_lot", "grow", "exit", "create_exit", "review", "close",
                  "postmortem", "observe", "end", "release"}
    \/ Heading(p, "finish") \/ Heading(p, "review") \/ Heading(p, "end")
    => adm # "active" \/ p \in dirty

\* On the way through the loop with a position.
HeldAt(p) ==
    /\ pc[p] \in {"held", "held_lot", "hold"} =>
          pos[p] > 0 /\ IsOpen /\ LotSum(lots) <= Expected(p)
    /\ pc[p] \in {"held_lot", "hold"} => Matches(p)
    /\ pc[p] \in {"look", "protect"} \/ Heading(p, "finish") =>
          pos[p] > 0 /\ trade = "OPEN" /\ shares = Expected(p) /\ Matches(p)
    /\ pc[p] = "protect" => was[p] = lc
    /\ Heading(p, "finish") => ProtectiveLegs(p)
    /\ pc[p] \in {"alarm", "emergency"} \/ Heading(p, "emergency") => p \in dirty

\* On the way through the loop without a position.
GoneAt(p) ==
    /\ \/ pc[p] \in {"gone", "gone_lot", "grow", "exit", "create_exit", "review", "close"}
       \/ Heading(p, "review")
       => pos[p] = 0 /\ IsOpen /\ LotSum(lots) <= Expected(p)
    /\ pc[p] \in {"create_exit", "review", "close"} \/ Heading(p, "review") =>
          FullExit(p)
    /\ pc[p] \in {"postmortem", "observe", "end"} \/ Heading(p, "end") =>
          pos[p] = 0 /\ trade = "CLOSED"
    /\ pc[p] = "release" => pos[p] = 0 /\ trade = "CANCELED"

\* The lifecycle is not closed before the trade, and no command moves it on.
LifecycleInv == lc \notin {"PROFITABLE", "TRAILING"} /\ (lc = "CLOSED" => trade = "CLOSED")

\* A clean end means that book and broker match.
CleanAt(p) ==
    pc[p] = "finish" /\ p \notin dirty =>
        /\ pos[p] > 0 => /\ trade = "OPEN" /\ seen[p].legs
                         /\ shares - seen[p].legSold \in {pos[p], 0}
                         /\ lc \in {"PROTECTED", "EXIT_PENDING"}
        /\ IsOpen => pos[p] > 0 \/ (seen[p].root = "working" /\ seen[p].bought = 0)
        /\ adm # "active"

\* All that is about the place of p.
PlaceAt(p) == AdmissionAt(p) /\ HeldAt(p) /\ GoneAt(p) /\ CleanAt(p)

\* The inductive invariant of a process that runs alone ...
LoneInv == LotInv /\ LifecycleInv /\ \A p \in Process : PlaceAt(p)

\* ... beside what holds of any processes.
LoneOK == RaceOK /\ LoneInv

---------------------------------------------------------------------------
(* The sum of the lots of a process that runs alone.                       *)

\* What types and invariant say at the places of p.
LEMMA At ==
    ASSUME NEW p \in Process, ControlOK, LoneOK
    PROVE  /\ pc[p] \in Label /\ back[p] \in DOMAIN Goal
           /\ size[p] \in Nat /\ prior[p] \in Nat /\ pos[p] \in Nat
           /\ seen[p].bought \in Nat /\ seen[p].legSold \in Nat /\ seen[p].closeSold \in Nat
           /\ Expected(p) \in Nat /\ Expected(p) >= size[p] /\ Expected(p) >= seen[p].bought
           /\ Expected(p) <= bought /\ seen[p].legSold <= Expected(p)
           /\ LotSum(lots) \in Nat
<1>1. pc[p] \in Label /\ back[p] \in DOMAIN Goal
  BY DEF ControlOK
<1>2. size[p] <= bought /\ seen[p].bought <= bought
      /\ seen[p].legSold + seen[p].closeSold <= seen[p].bought
  BY DEF LoneOK, LoneInv, LotInv, RaceOK, SnapshotInv
<1> QED
  BY <1>1, <1>2, Numbers DEF LoneOK

\* Recording the rest of a cumulative fill makes it the sum of the lots.
LEMMA RecordAdds ==
    ASSUME Cumulative(lots),
           NEW n \in Reached, LotSum(lots) < n, RecordLot(n, n - LotSum(lots))
    PROVE  Cumulative(lots') /\ LotSum(lots') = n /\ shares' = n
<1>1. /\ LotSum(lots) \in Nat /\ IsFiniteSet(Reached)
      /\ LotSum(lots) = SumFunctionOnSet(lots, Reached)
  BY LotSumNat DEF Cumulative, Reached
<1>2. n \in Nat /\ n <= Shares /\ lots[n] = 0
  BY <1>1, BookAssumption DEF Cumulative, Reached
<1> DEFINE k == n - LotSum(lots)
<1>3. lots' = [lots EXCEPT ![n] = k] /\ shares' = LotSum(lots')
  BY <1>2 DEF RecordLot
<1>4. k \in 0..Shares
  BY <1>1, <1>2, BookAssumption
<1> HIDE DEF k
<1>5. /\ lots' \in [Reached -> 0..Shares]
      /\ lots'[n] = k /\ \A m \in Reached \ {n} : lots'[m] = lots[m]
  BY <1>3, <1>4 DEF Cumulative, Reached
<1>6. LotSum(lots') = SumFunctionOnSet(lots', Reached)
  BY <1>5, LotSumNat DEF Reached
<1>7. /\ IsFiniteSet(Reached) /\ n \in Reached
      /\ \A m \in Reached : lots[m] \in Int /\ lots'[m] \in Int
      /\ \A m \in Reached \ {n} : lots'[m] = lots[m]
  BY <1>1, <1>5, BookAssumption DEF Cumulative, Reached
<1>8. SumFunctionOnSet(lots', Reached) = SumFunctionOnSet(lots, Reached) - lots[n] + lots'[n]
  BY <1>7, SumExcept
<1>9. LotSum(lots') = n
  BY <1>1, <1>2, <1>5, <1>6, <1>8 DEF k, Reached
<1>10. \A m \in Reached : lots'[m] # 0 => m <= n
  BY <1>1, <1>2, <1>5, BookAssumption DEF Cumulative, Reached
<1> QED
  BY <1>3, <1>5, <1>9, <1>10 DEF Cumulative, Reached

---------------------------------------------------------------------------
(* Quiet actions of a process that runs alone.                             *)

USE DEF Heading, Matches

\* A quiet action leaves lots and sizes as they are.
LEMMA QuietLots ==
    ASSUME NEW p \in Process, LoneProcess, LoneOK, Quiet(p)
    PROVE  LotInv'
BY Numbers DEF LoneOK, LoneInv, LotInv, Quiet, LoneProcess, RaceOK, SizeOK

\* What reconcile does before the loop and leaves sizes and snapshots alone.
LEMMA RecoveryAlone ==
    ASSUME NEW p \in Process, LoneProcess, ControlOK, LoneOK,
           \/ SnapshotFails(p) \/ Relink(p)
    PROVE  LifecycleInv' /\ PlaceAt(p)'
<1> USE DEF LoneProcess, local, broker, rows, ghost
<1>1. SnapshotInv /\ LotInv /\ LifecycleInv /\ PlaceAt(p) /\ BrokerOK /\ RowOK /\ SizeOK
  BY DEF LoneOK, LoneInv, RaceOK
<1>2. /\ pc \in [Process -> Label] /\ back \in [Process -> DOMAIN Goal]
      /\ dirty \subseteq Process
      /\ was \in [Process -> State \cup {"none"}] /\ lc \in State \cup {"none"}
  BY DEF ControlOK, LoneOK, RaceOK, RowOK
<1>3. CASE SnapshotFails(p)
  BY <1>1, <1>2, <1>3, At
  DEF SnapshotFails, Return, LifecycleInv, PlaceAt, AdmissionAt, HeldAt, GoneAt, CleanAt
<1>4. CASE Relink(p)
  BY <1>1, <1>2, <1>4, At
  DEF Relink, Step, Goto, LifecycleInv, PlaceAt, AdmissionAt, HeldAt, GoneAt, CleanAt
<1> QED
  BY <1>3, <1>4

\* ... in the loop, with a position.
LEMMA HeldAlone ==
    ASSUME NEW p \in Process, LoneProcess, ControlOK, LoneOK,
           \/ Look(p) \/ Protect(p) \/ Alarm(p) \/ Emergency(p)
    PROVE  LifecycleInv' /\ PlaceAt(p)'
<1> USE DEF LoneProcess, local, broker, rows, ghost
<1>1. SnapshotInv /\ LotInv /\ LifecycleInv /\ PlaceAt(p) /\ BrokerOK /\ RowOK /\ SizeOK
  BY DEF LoneOK, LoneInv, RaceOK
<1>2. /\ pc \in [Process -> Label] /\ back \in [Process -> DOMAIN Goal]
      /\ dirty \subseteq Process
      /\ was \in [Process -> State \cup {"none"}] /\ lc \in State \cup {"none"}
  BY DEF ControlOK, LoneOK, RaceOK, RowOK
<1>3. CASE Look(p)
  BY <1>1, <1>2, <1>3, At
  DEF Look, Step, Goto, LifecycleInv, PlaceAt, AdmissionAt, HeldAt, GoneAt, CleanAt
<1>4. CASE Protect(p)
  BY <1>1, <1>2, <1>4, At
  DEF Protect, Goto, Note, Return, Transit, CreateOpen, State, Goal, LifecycleInv, PlaceAt, AdmissionAt, HeldAt, GoneAt, CleanAt
<1>5. CASE Alarm(p)
  BY <1>1, <1>2, <1>5, At
  DEF Alarm, Transit, Goal, LifecycleInv, PlaceAt, AdmissionAt, HeldAt, GoneAt, CleanAt
<1>6. CASE Emergency(p)
  BY <1>1, <1>2, <1>6, At
  DEF Emergency, Step, Goto, brokerSame, LifecycleInv, PlaceAt, AdmissionAt, HeldAt, GoneAt, CleanAt
<1> QED
  BY <1>3, <1>4, <1>5, <1>6

\* ... in the loop, without a position, and at the end.
LEMMA GoneAlone ==
    ASSUME NEW p \in Process, LoneProcess, ControlOK, LoneOK,
           \/ Exit(p) \/ CreateExit(p) \/ NoExit(p)
           \/ Review(p) \/ Close(p) \/ RecordPostmortem(p) \/ Observe(p) \/ EndTrade(p) \/ Finish(p)
    PROVE  LifecycleInv' /\ PlaceAt(p)'
<1> USE DEF LoneProcess, local, broker, rows, ghost
<1>1. SnapshotInv /\ LotInv /\ LifecycleInv /\ PlaceAt(p) /\ BrokerOK /\ RowOK /\ SizeOK
  BY DEF LoneOK, LoneInv, RaceOK
<1>2. /\ pc \in [Process -> Label] /\ back \in [Process -> DOMAIN Goal]
      /\ dirty \subseteq Process
      /\ was \in [Process -> State \cup {"none"}] /\ lc \in State \cup {"none"}
  BY DEF ControlOK, LoneOK, RaceOK, RowOK
<1>3. CASE Exit(p)
  BY <1>1, <1>2, <1>3, At
  DEF Exit, Goto, Transit, Goal, LifecycleInv, PlaceAt, AdmissionAt, HeldAt, GoneAt, CleanAt
<1>4. CASE CreateExit(p)
  BY <1>1, <1>2, <1>4, At
  DEF CreateExit, CreateOpen, Transit, Return, State, Goal, LifecycleInv, PlaceAt, AdmissionAt, HeldAt, GoneAt, CleanAt
<1>5. CASE NoExit(p)
  BY <1>1, <1>2, <1>5, At
  DEF NoExit, Goto, Note, LifecycleInv, PlaceAt, AdmissionAt, HeldAt, GoneAt, CleanAt
<1>6. CASE Review(p)
  BY <1>1, <1>2, <1>6, At
  DEF Review, Goto, Return, LifecycleInv, PlaceAt, AdmissionAt, HeldAt, GoneAt, CleanAt
<1>7. CASE Close(p)
  BY <1>1, <1>2, <1>7, At
  DEF Close, Step, Goto, LifecycleInv, PlaceAt, AdmissionAt, HeldAt, GoneAt, CleanAt
<1>8. CASE RecordPostmortem(p)
  BY <1>1, <1>2, <1>8, At
  DEF RecordPostmortem, Goto, Return, LifecycleInv, PlaceAt, AdmissionAt, HeldAt, GoneAt, CleanAt
<1>9. CASE Observe(p)
  BY <1>1, <1>2, <1>9, At
  DEF Observe, Transit, Goal, LifecycleInv, PlaceAt, AdmissionAt, HeldAt, GoneAt, CleanAt
<1>10. CASE EndTrade(p)
  BY <1>1, <1>2, <1>10, At
  DEF EndTrade, Goto, LifecycleInv, PlaceAt, AdmissionAt, HeldAt, GoneAt, CleanAt
<1>11. CASE Finish(p)
  BY <1>1, <1>2, <1>11, At
  DEF Finish, Return, LifecycleInv, PlaceAt, AdmissionAt, HeldAt, GoneAt, CleanAt
<1> QED
  BY <1>3, <1>4, <1>5, <1>6, <1>7, <1>8, <1>9, <1>10, <1>11

\* Transitions.
LEMMA StateAlone ==
    ASSUME NEW p \in Process, LoneProcess, ControlOK, LoneOK,
           \/ ReadState(p) \/ SwapState(p)
    PROVE  LifecycleInv' /\ PlaceAt(p)'
<1> USE DEF LoneProcess, local, broker, rows, ghost
<1>1. SnapshotInv /\ LotInv /\ LifecycleInv /\ PlaceAt(p) /\ BrokerOK /\ RowOK /\ SizeOK
  BY DEF LoneOK, LoneInv, RaceOK
<1>2. /\ pc \in [Process -> Label] /\ back \in [Process -> DOMAIN Goal]
      /\ dirty \subseteq Process
      /\ was \in [Process -> State \cup {"none"}] /\ lc \in State \cup {"none"}
  BY DEF ControlOK, LoneOK, RaceOK, RowOK
<1>3. CASE ReadState(p)
  <2> USE <1>3 DEF ReadState, Goto, Raise, Return
  <2>1. LifecycleInv'
    BY <1>1, <1>2 DEF LifecycleInv, PlaceAt, GoneAt, HeldAt
  <2>2. PlaceAt(p)'
    <3>1. CASE lc = "EXIT_PENDING" /\ Goal[back[p]] = "EXIT_PENDING"
      <4>1. back[p] \in {"review", "emergency", "manual", "remedy"}
        BY <1>2, <3>1 DEF Goal
      <4> QED
        BY <1>1, <1>2, <3>1, <4>1
        DEF PlaceAt, AdmissionAt, HeldAt, GoneAt, CleanAt,
            IsOpen, LifecycleInv
    <3>2. CASE ~(lc = "EXIT_PENDING" /\ Goal[back[p]] = "EXIT_PENDING")
      BY <1>1, <1>2, <3>2
      DEF PlaceAt, AdmissionAt, HeldAt, GoneAt, CleanAt,
          IsOpen, LifecycleInv
    <3> QED
      BY <3>1, <3>2
  <2> QED
    BY <2>1, <2>2
<1>4. CASE SwapState(p)
  BY <1>1, <1>2, <1>4, At
  DEF SwapState, Goto, Raise, Return, Goal, LifecycleInv, PlaceAt, AdmissionAt, HeldAt, GoneAt, CleanAt
<1> QED
  BY <1>3, <1>4

\* The close command, the end of a submission, and death.
LEMMA CommandAlone ==
    ASSUME NEW p \in Process, LoneProcess, ControlOK, LoneOK,
           \/ StartClose(p) \/ ManualClose(p) \/ HaltUnknownClose(p) \/ NoteClose(p)
           \/ Link(p) \/ Open(p) \/ Placed(p) \/ Remediate(p) \/ RemedyClose(p) \/ MarkUnknown(p) \/ LatchUnknown(p) \/ Crash(p)
    PROVE  LifecycleInv' /\ PlaceAt(p)'
<1> USE DEF LoneProcess, local, broker, rows, ghost
<1>1. SnapshotInv /\ LotInv /\ LifecycleInv /\ PlaceAt(p) /\ BrokerOK /\ RowOK /\ SizeOK
  BY DEF LoneOK, LoneInv, RaceOK
<1>2. /\ pc \in [Process -> Label] /\ back \in [Process -> DOMAIN Goal]
      /\ dirty \subseteq Process
      /\ was \in [Process -> State \cup {"none"}] /\ lc \in State \cup {"none"}
  BY DEF ControlOK, LoneOK, RaceOK, RowOK
<1>3. CASE StartClose(p)
  BY <1>1, <1>2, <1>3, At
  DEF StartClose, Transit, Goal, LifecycleInv, PlaceAt, AdmissionAt, HeldAt, GoneAt, CleanAt
<1>4. CASE ManualClose(p)
  BY <1>1, <1>2, <1>4, At
  DEF ManualClose, Goto, brokerSame, LifecycleInv, PlaceAt, AdmissionAt, HeldAt, GoneAt, CleanAt
<1>5. CASE HaltUnknownClose(p)
  BY <1>1, <1>2, <1>5, At
  DEF HaltUnknownClose, Step, Goto, LifecycleInv, PlaceAt, AdmissionAt, HeldAt, GoneAt, CleanAt
<1>6. CASE NoteClose(p)
  BY <1>1, <1>2, <1>6, At
  DEF NoteClose, Return, LifecycleInv, PlaceAt, AdmissionAt, HeldAt, GoneAt, CleanAt
<1>7. CASE Link(p)
  BY <1>1, <1>2, <1>7, At
  DEF Link, Goto, Return, LifecycleInv, PlaceAt, AdmissionAt, HeldAt, GoneAt, CleanAt
<1>8. CASE Open(p)
  BY <1>1, <1>2, <1>8, At
  DEF Open, CreateOpen, Goto, Transit, Goal, LifecycleInv, PlaceAt, AdmissionAt, HeldAt, GoneAt, CleanAt
<1>9. CASE Placed(p)
  BY <1>1, <1>2, <1>9, At
  DEF Placed, Return, LifecycleInv, PlaceAt, AdmissionAt, HeldAt, GoneAt, CleanAt
<1>10. CASE Remediate(p)
  BY <1>1, <1>2, <1>10, At
  DEF Remediate, Transit, Goal, LifecycleInv, PlaceAt, AdmissionAt, HeldAt, GoneAt, CleanAt
<1>11. CASE RemedyClose(p)
  BY <1>1, <1>2, <1>11, At
  DEF RemedyClose, Return, brokerSame, LifecycleInv, PlaceAt, AdmissionAt, HeldAt, GoneAt, CleanAt
<1>12. CASE MarkUnknown(p)
  BY <1>1, <1>2, <1>12, At
  DEF MarkUnknown, Step, Goto, LifecycleInv, PlaceAt, AdmissionAt, HeldAt, GoneAt, CleanAt
<1>13. CASE LatchUnknown(p)
  BY <1>1, <1>2, <1>13, At
  DEF LatchUnknown, Return, LifecycleInv, PlaceAt, AdmissionAt, HeldAt, GoneAt, CleanAt
<1>14. CASE Crash(p)
  BY <1>1, <1>2, <1>14, At
  DEF Crash, Return, LifecycleInv, PlaceAt, AdmissionAt, HeldAt, GoneAt, CleanAt
<1> QED
  BY <1>3, <1>4, <1>5, <1>6, <1>7, <1>8, <1>9, <1>10, <1>11, <1>12, <1>13, <1>14

---------------------------------------------------------------------------
(* The other actions of a process that runs alone.                         *)

\* A cumulative fill that is recorded is what the broker has filled, and the size.
LEMMA RecordKeeps ==
    ASSUME NEW p \in Process, LoneProcess, LoneOK, NEW n \in Nat, n <= bought, LotSum(lots) < n,
           RecordLot(n, n - LotSum(lots)), UNCHANGED <<bought, size, prior>>,
           trade' # "none", pc'[p] \notin {"held_lot", "gone_lot", "refill", "fill"}
    PROVE  LotInv' /\ LotSum(lots') = n
<1>1. LotInv /\ SizeOK /\ bought \in Nat /\ bought <= Shares
  BY Numbers DEF LoneOK, LoneInv, RaceOK
<1>2. Cumulative(lots) /\ LotSum(lots) \in Nat
  BY <1>1, LotSumNat DEF LotInv, SizeOK
<1>3. n \in Reached
  BY <1>1, <1>2, BookAssumption DEF Reached
<1>4. Cumulative(lots') /\ LotSum(lots') = n /\ shares' = n
  BY <1>2, <1>3, RecordAdds
<1>5. LotInv'
  BY <1>1, <1>4 DEF LotInv, LoneProcess
<1> QED
  BY <1>4, <1>5

\* The snapshot.
LEMMA SnapshotAlone ==
    ASSUME NEW p \in Process, LoneProcess, ControlOK, LoneOK,
           \/ StartReconcile(p) \/ ReadOrders(p)
    PROVE  LotInv' /\ LifecycleInv' /\ PlaceAt(p)'
<1> USE DEF LoneProcess, local, broker, rows, ghost
<1>1. SnapshotInv /\ LotInv /\ LifecycleInv /\ PlaceAt(p) /\ BrokerOK /\ RowOK /\ SizeOK
  BY DEF LoneOK, LoneInv, RaceOK
<1>2. /\ pc \in [Process -> Label] /\ back \in [Process -> DOMAIN Goal]
      /\ dirty \subseteq Process
      /\ was \in [Process -> State \cup {"none"}] /\ lc \in State \cup {"none"}
  BY DEF ControlOK, LoneOK, RaceOK, RowOK
<1>3. CASE StartReconcile(p)
  <2> USE <1>3 DEF StartReconcile, Step, Goto, Position
  <2>1. LotInv'
    BY <1>1, <1>2, At, BookAssumption DEF LotInv, SizeOK, BrokerOK, SnapshotInv
  <2>2. LifecycleInv' /\ PlaceAt(p)'
    BY <1>1, <1>2, At DEF LifecycleInv, PlaceAt, AdmissionAt, HeldAt, GoneAt, CleanAt
  <2> QED
    BY <2>1, <2>2
<1>4. CASE ReadOrders(p)
  <2> USE <1>4 DEF ReadOrders, Step, Goto, View
  <2>1. LotInv'
    BY <1>1, <1>2, At, BookAssumption DEF LotInv, SizeOK, BrokerOK, SnapshotInv
  <2>2. LifecycleInv' /\ PlaceAt(p)'
    BY <1>1, <1>2, At DEF LifecycleInv, PlaceAt, AdmissionAt, HeldAt, GoneAt, CleanAt
  <2> QED
    BY <2>1, <2>2
<1> QED
  BY <1>3, <1>4

\* What creates the trade.
LEMMA AdoptAlone ==
    ASSUME NEW p \in Process, LoneProcess, ControlOK, LoneOK,
           \/ Recover(p) \/ Persist(p)
    PROVE  LotInv' /\ LifecycleInv' /\ PlaceAt(p)'
<1> USE DEF LoneProcess, local, broker, rows, ghost
<1>1. SnapshotInv /\ LotInv /\ LifecycleInv /\ PlaceAt(p) /\ BrokerOK /\ RowOK /\ SizeOK
  BY DEF LoneOK, LoneInv, RaceOK
<1>2. /\ pc \in [Process -> Label] /\ back \in [Process -> DOMAIN Goal]
      /\ dirty \subseteq Process
      /\ was \in [Process -> State \cup {"none"}] /\ lc \in State \cup {"none"}
  BY DEF ControlOK, LoneOK, RaceOK, RowOK
<1>3. CASE Recover(p)
  <2> USE <1>3 DEF Recover, Goto, Note
  <2>1. LotInv'
    BY <1>1, <1>2, At, BookAssumption DEF LotInv, SizeOK, BrokerOK, SnapshotInv
  <2>2. LifecycleInv' /\ PlaceAt(p)'
    BY <1>1, <1>2, At DEF LifecycleInv, PlaceAt, AdmissionAt, HeldAt, GoneAt, CleanAt
  <2> QED
    BY <2>1, <2>2
<1>4. CASE Persist(p)
  <2> USE <1>4 DEF Persist, Goto
  <2>1. LotInv'
    BY <1>1, <1>2, At, BookAssumption DEF LotInv, SizeOK, BrokerOK, SnapshotInv
  <2>2. LifecycleInv' /\ PlaceAt(p)'
    BY <1>1, <1>2, At DEF LifecycleInv, PlaceAt, AdmissionAt, HeldAt, GoneAt, CleanAt
  <2> QED
    BY <2>1, <2>2
<1> QED
  BY <1>3, <1>4

\* What the loop reads and writes of the size.
LEMMA LoopAlone ==
    ASSUME NEW p \in Process, LoneProcess, ControlOK, LoneOK,
           \/ ListTrade(p) \/ Held(p) \/ Hold(p) \/ Gone(p) \/ Grow(p)
    PROVE  LotInv' /\ LifecycleInv' /\ PlaceAt(p)'
<1> USE DEF LoneProcess, local, broker, rows, ghost
<1>1. SnapshotInv /\ LotInv /\ LifecycleInv /\ PlaceAt(p) /\ BrokerOK /\ RowOK /\ SizeOK
  BY DEF LoneOK, LoneInv, RaceOK
<1>2. /\ pc \in [Process -> Label] /\ back \in [Process -> DOMAIN Goal]
      /\ dirty \subseteq Process
      /\ was \in [Process -> State \cup {"none"}] /\ lc \in State \cup {"none"}
  BY DEF ControlOK, LoneOK, RaceOK, RowOK
<1>3. CASE ListTrade(p)
  <2> USE <1>3 DEF ListTrade, Goto, Note
  <2>1. BrokerOK'
    BY <1>1, BookAssumption DEF BrokerOK, SnapshotInv, RootStatus
  <2>2. SnapshotInv'
    BY <1>1, At DEF BrokerOK, SnapshotInv
  <2>3. RowOK'
    BY <1>1, BookAssumption DEF RowOK, TradeStatus
  <2>4. SizeOK'
    BY <1>1, <1>2, At DEF SizeOK, BrokerOK
  <2>5. LotInv'
    BY <1>1, <1>2, At, BookAssumption DEF LotInv, SizeOK, BrokerOK, SnapshotInv
  <2>6. LifecycleInv' /\ PlaceAt(p)'
    BY <1>1, <1>2, At
    DEF LotInv, SizeOK, LifecycleInv, PlaceAt, AdmissionAt, HeldAt, GoneAt, CleanAt
  <2> QED
    BY <2>1, <2>2, <2>3, <2>4, <2>5, <2>6 DEF LoneOK, LoneInv
<1>4. CASE Held(p)
  <2> USE <1>4 DEF Held, Goto, Note
  <2>1. LotInv'
    BY <1>1, <1>2, At, BookAssumption DEF LotInv, SizeOK, BrokerOK, SnapshotInv
  <2>2. LifecycleInv' /\ PlaceAt(p)'
    BY <1>1, <1>2, At DEF LifecycleInv, PlaceAt, AdmissionAt, HeldAt, GoneAt, CleanAt
  <2> QED
    BY <2>1, <2>2
<1>5. CASE Hold(p)
  <2> USE <1>5 DEF Hold, Step, Goto
  <2>1. LotInv'
    BY <1>1, <1>2, At, BookAssumption DEF LotInv, PlaceAt, HeldAt
  <2>2. LifecycleInv' /\ PlaceAt(p)'
    BY <1>1, <1>2, At DEF LifecycleInv, PlaceAt, AdmissionAt, HeldAt, GoneAt, CleanAt
  <2> QED
    BY <2>1, <2>2
<1>6. CASE Gone(p)
  <2> USE <1>6 DEF Gone, Goto
  <2>1. LotInv'
    BY <1>1, <1>2, At, BookAssumption DEF LotInv, SizeOK, BrokerOK, SnapshotInv
  <2>2. LifecycleInv' /\ PlaceAt(p)'
    BY <1>1, <1>2, At DEF LifecycleInv, PlaceAt, AdmissionAt, HeldAt, GoneAt, CleanAt
  <2> QED
    BY <2>1, <2>2
<1>7. CASE Grow(p)
  <2> USE <1>7 DEF Grow, Step, Goto
  <2>1. LotInv'
    BY <1>1, <1>2, At, BookAssumption DEF LotInv, PlaceAt, GoneAt
  <2>2. LifecycleInv' /\ PlaceAt(p)'
    BY <1>1, <1>2, At DEF LifecycleInv, PlaceAt, AdmissionAt, HeldAt, GoneAt, CleanAt
  <2> QED
    BY <2>1, <2>2
<1> QED
  BY <1>3, <1>4, <1>5, <1>6, <1>7

\* The first lot.
LEMMA FillAlone ==
    ASSUME NEW p \in Process, LoneProcess, ControlOK, LoneOK,
           \/ Refill(p) \/ Fill(p)
    PROVE  LotInv' /\ LifecycleInv' /\ PlaceAt(p)'
<1> USE DEF LoneProcess, local, broker, rows, ghost
<1>1. SnapshotInv /\ LotInv /\ LifecycleInv /\ PlaceAt(p) /\ BrokerOK /\ RowOK /\ SizeOK
  BY DEF LoneOK, LoneInv, RaceOK
<1>2. /\ pc \in [Process -> Label] /\ back \in [Process -> DOMAIN Goal]
      /\ dirty \subseteq Process
      /\ was \in [Process -> State \cup {"none"}] /\ lc \in State \cup {"none"}
  BY DEF ControlOK, LoneOK, RaceOK, RowOK
<1>3. CASE Refill(p)
  <2> USE <1>3 DEF Refill, Goto, Note
  <2>1. LotInv'
    <3>1. CASE FillRefused
      BY <1>1, <1>2, <3>1 DEF LotInv
    <3>2. CASE ~FillRefused
      <4>1. LotSum(lots) = 0 /\ seen[p].bought > 0 /\ trade # "none" /\ seen[p].bought <= bought
        BY <1>1 DEF LotInv, SnapshotInv
      <4>2. seen[p].bought \in Nat /\ seen[p].bought - LotSum(lots) = seen[p].bought
        BY <4>1, At
      <4>3. RecordLot(seen[p].bought, seen[p].bought - LotSum(lots))
        BY <3>2, <4>2
      <4> QED
        BY <1>2, <3>2, <4>1, <4>2, <4>3, RecordKeeps
    <3> QED
      BY <3>1, <3>2
  <2>2. LifecycleInv' /\ PlaceAt(p)'
    BY <1>1, <1>2, At DEF LifecycleInv, PlaceAt, AdmissionAt, HeldAt, GoneAt, CleanAt
  <2> QED
    BY <2>1, <2>2
<1>4. CASE Fill(p)
  <2> USE <1>4 DEF Fill, Goto
  <2>1. LotInv'
    <3>1. CASE FillRefused
      BY <1>1, <1>2, <3>1 DEF LotInv
    <3>2. CASE ~FillRefused
      <4>1. LotSum(lots) = 0 /\ seen[p].bought > 0 /\ trade # "none" /\ seen[p].bought <= bought
        BY <1>1 DEF LotInv, SnapshotInv
      <4>2. seen[p].bought \in Nat /\ seen[p].bought - LotSum(lots) = seen[p].bought
        BY <4>1, At
      <4>3. RecordLot(seen[p].bought, seen[p].bought - LotSum(lots))
        BY <3>2, <4>2
      <4> QED
        BY <1>2, <3>2, <4>1, <4>2, <4>3, RecordKeeps
    <3> QED
      BY <3>1, <3>2
  <2>2. LifecycleInv' /\ PlaceAt(p)'
    BY <1>1, <1>2, At DEF LifecycleInv, PlaceAt, AdmissionAt, HeldAt, GoneAt, CleanAt
  <2> QED
    BY <2>1, <2>2
<1> QED
  BY <1>3, <1>4

\* The lots of a position.
LEMMA HeldLotAlone ==
    ASSUME NEW p \in Process, LoneProcess, ControlOK, LoneOK, SyncLot(p, "held_lot", "hold")
    PROVE  LotInv' /\ LifecycleInv' /\ PlaceAt(p)'
<1> USE DEF LoneProcess, local, broker, rows, ghost
<1>1. SnapshotInv /\ LotInv /\ LifecycleInv /\ PlaceAt(p) /\ BrokerOK /\ RowOK /\ SizeOK
  BY DEF LoneOK, LoneInv, RaceOK
<1>2. /\ pc \in [Process -> Label] /\ back \in [Process -> DOMAIN Goal]
      /\ dirty \subseteq Process
      /\ was \in [Process -> State \cup {"none"}] /\ lc \in State \cup {"none"}
  BY DEF ControlOK, LoneOK, RaceOK, RowOK
<1>3. prior[p] = LotSum(lots) /\ IsOpen /\ trade # "none" /\ pc[p] = "held_lot"
  BY <1>1 DEF LotInv, PlaceAt, HeldAt, GoneAt, SyncLot
<1>4. CASE Expected(p) <= prior[p]
  <2> USE <1>4 DEF SyncLot, Goto
  <2>1. Quiet(p)
    BY <1>1, <1>2, BookAssumption DEF Quiet, RowOK, BrokerOK, TradeStatus
  <2>2. LifecycleInv'
    BY <1>1 DEF LifecycleInv
  <2>3. PlaceAt(p)'
    BY <1>1, <1>2, <1>3, At
    DEF PlaceAt, AdmissionAt, HeldAt, GoneAt, CleanAt,
        IsOpen, LifecycleInv
  <2> QED
    BY <2>1, <2>2, <2>3, QuietLots
<1>5. CASE ~ (Expected(p) <= prior[p]) /\ FillRefused
  <2> USE <1>5 DEF SyncLot, Return
  <2>1. Quiet(p)
    BY <1>1, <1>2, BookAssumption DEF Quiet, RowOK, BrokerOK, TradeStatus
  <2>2. LifecycleInv'
    BY <1>1 DEF LifecycleInv
  <2>3. PlaceAt(p)'
    BY <1>1, <1>2, <1>3, At
    DEF PlaceAt, AdmissionAt, HeldAt, GoneAt, CleanAt, LifecycleInv
  <2> QED
    BY <2>1, <2>2, <2>3, QuietLots
<1>6. CASE ~ (Expected(p) <= prior[p]) /\ ~FillRefused
  <2>1. /\ RecordLot(Expected(p), Expected(p) - LotSum(lots)) /\ Goto(p, "hold")
        /\ UNCHANGED local
        /\ UNCHANGED <<broker, trade, lc, adm, reviewed, lessons, requested, halted, ghost>>
    BY <1>3, <1>6 DEF SyncLot
  <2>2. /\ Expected(p) \in Nat /\ Expected(p) <= bought /\ LotSum(lots) < Expected(p)
        /\ pc'[p] = "hold"
    BY <1>2, <1>3, <1>6, <2>1, At DEF Goto
  <2>3. LotInv' /\ LotSum(lots') = Expected(p)
    BY <1>3, <2>1, <2>2, RecordKeeps
  <2>4. LifecycleInv'
    BY <1>1, <2>1 DEF LifecycleInv
  <2>5. PlaceAt(p)'
    BY <1>1, <1>2, <1>3, <2>1, <2>2, <2>3, At
    DEF Goto, PlaceAt, AdmissionAt, HeldAt, GoneAt, CleanAt,
        IsOpen, LifecycleInv
  <2> QED
    BY <2>3, <2>4, <2>5
<1> QED
  BY <1>4, <1>5, <1>6

\* The lots of a position that was sold meanwhile.
LEMMA GoneLotAlone ==
    ASSUME NEW p \in Process, LoneProcess, ControlOK, LoneOK, SyncLot(p, "gone_lot", "grow")
    PROVE  LotInv' /\ LifecycleInv' /\ PlaceAt(p)'
<1> USE DEF LoneProcess, local, broker, rows, ghost
<1>1. SnapshotInv /\ LotInv /\ LifecycleInv /\ PlaceAt(p) /\ BrokerOK /\ RowOK /\ SizeOK
  BY DEF LoneOK, LoneInv, RaceOK
<1>2. /\ pc \in [Process -> Label] /\ back \in [Process -> DOMAIN Goal]
      /\ dirty \subseteq Process
      /\ was \in [Process -> State \cup {"none"}] /\ lc \in State \cup {"none"}
  BY DEF ControlOK, LoneOK, RaceOK, RowOK
<1>3. prior[p] = LotSum(lots) /\ IsOpen /\ trade # "none" /\ pc[p] = "gone_lot"
  BY <1>1 DEF LotInv, PlaceAt, HeldAt, GoneAt, SyncLot
<1>4. CASE Expected(p) <= prior[p]
  <2> USE <1>4 DEF SyncLot, Goto
  <2>1. Quiet(p)
    BY <1>1, <1>2, BookAssumption DEF Quiet, RowOK, BrokerOK, TradeStatus
  <2>2. LifecycleInv'
    BY <1>1 DEF LifecycleInv
  <2>3. PlaceAt(p)'
    BY <1>1, <1>2, <1>3, At
    DEF PlaceAt, AdmissionAt, HeldAt, GoneAt, CleanAt,
        IsOpen, LifecycleInv
  <2> QED
    BY <2>1, <2>2, <2>3, QuietLots
<1>5. CASE ~ (Expected(p) <= prior[p]) /\ FillRefused
  <2> USE <1>5 DEF SyncLot, Return
  <2>1. Quiet(p)
    BY <1>1, <1>2, BookAssumption DEF Quiet, RowOK, BrokerOK, TradeStatus
  <2>2. LifecycleInv'
    BY <1>1 DEF LifecycleInv
  <2>3. PlaceAt(p)'
    BY <1>1, <1>2, <1>3, At
    DEF PlaceAt, AdmissionAt, HeldAt, GoneAt, CleanAt, LifecycleInv
  <2> QED
    BY <2>1, <2>2, <2>3, QuietLots
<1>6. CASE ~ (Expected(p) <= prior[p]) /\ ~FillRefused
  <2>1. /\ RecordLot(Expected(p), Expected(p) - LotSum(lots)) /\ Goto(p, "grow")
        /\ UNCHANGED local
        /\ UNCHANGED <<broker, trade, lc, adm, reviewed, lessons, requested, halted, ghost>>
    BY <1>3, <1>6 DEF SyncLot
  <2>2. /\ Expected(p) \in Nat /\ Expected(p) <= bought /\ LotSum(lots) < Expected(p)
        /\ pc'[p] = "grow"
    BY <1>2, <1>3, <1>6, <2>1, At DEF Goto
  <2>3. LotInv' /\ LotSum(lots') = Expected(p)
    BY <1>3, <2>1, <2>2, RecordKeeps
  <2>4. LifecycleInv'
    BY <1>1, <2>1 DEF LifecycleInv
  <2>5. PlaceAt(p)'
    BY <1>1, <1>2, <1>3, <2>1, <2>2, <2>3, At
    DEF Goto, PlaceAt, AdmissionAt, HeldAt, GoneAt, CleanAt,
        IsOpen, LifecycleInv
  <2> QED
    BY <2>3, <2>4, <2>5
<1> QED
  BY <1>4, <1>5, <1>6

\* The broker fills and sells, which no snapshot sees.
LEMMA BrokerAlone ==
    ASSUME LoneOK, BrokerStep
    PROVE  LoneInv'
<1> USE DEF rows, ghost, local
<1>1. LotInv /\ LifecycleInv /\ \A p \in Process : PlaceAt(p)
  BY DEF LoneOK, LoneInv
<1>2. UNCHANGED <<rows, ghost, pc, back, local>>
  BY BrokerKeeps DEF LoneOK
<1>3. bought' \in Nat /\ bought' >= bought
  BY BrokerMoves, BookAssumption DEF LoneOK
<1>4. LotInv'
  BY <1>1, <1>2, <1>3, Numbers DEF LotInv, LoneOK
<1>5. LifecycleInv'
  BY <1>1, <1>2 DEF LifecycleInv
<1>6. ASSUME NEW p \in Process
      PROVE  PlaceAt(p)'
  BY <1>1, <1>2 DEF PlaceAt, AdmissionAt, HeldAt, GoneAt, CleanAt
<1> QED
  BY <1>4, <1>5, <1>6 DEF LoneInv

---------------------------------------------------------------------------
(* What follows for a process that runs alone.                             *)

\* Every step preserves the invariant.
LEMMA LoneStep ==
    ASSUME LoneProcess, ControlOK, LoneOK, [Next]_vars
    PROVE  LoneOK'
<1>1. RaceOK /\ BrokerOK /\ RowOK /\ RaceOK'
  BY RaceStep DEF LoneOK, RaceOK
<1>2. ASSUME NEW p \in Process,
             \/ StartReconcile(p) \/ StartClose(p) \/ SnapshotFails(p)
             \/ ReconcileStep(p) \/ OtherStep(p) \/ Crash(p)
      PROVE  LoneInv'
  <2>1. LifecycleInv' /\ PlaceAt(p)' /\ (LotInv' \/ Quiet(p))
    BY <1>1, <1>2, RecoveryAlone, HeldAlone, GoneAlone, StateAlone, CommandAlone,
       QuietRecovery, QuietHeld, QuietGone, QuietState, QuietCommand,
       SnapshotAlone, AdoptAlone, LoopAlone, FillAlone, HeldLotAlone, GoneLotAlone
    DEF ReconcileStep, OtherStep
  <2>2. LotInv'
    BY <2>1, QuietLots
  <2> QED
    BY <2>1, <2>2 DEF LoneProcess, LoneInv
<1>3. CASE UNCHANGED vars
  BY <1>1, <1>3 DEF LoneOK, LoneInv, LotInv, Cumulative, LifecycleInv,
              PlaceAt, AdmissionAt, HeldAt, GoneAt, CleanAt,
              vars, broker, rows, ghost, local
<1> QED
  BY <1>1, <1>2, <1>3, BrokerAlone DEF Next, LoneOK

\* The broker has the order, and nothing is recorded yet.
LEMMA LoneInit == Init => LoneOK
<1> SUFFICES ASSUME Init PROVE LoneOK
  OBVIOUS
<1>1. RaceOK /\ LotSum(lots) = 0 /\ lots \in [Reached -> 0..Shares]
  BY RaceStarts DEF RaceOK, SizeOK, Reached
<1>2. PICK s \in SUBSET Process :
         pc = [p \in Process |-> IF p \in s THEN "persist" ELSE "idle"]
  BY DEF Init
<1>3. \A n \in Reached : lots[n] = 0
  BY DEF Init, Reached
<1>4. LotInv
  <2>1. /\ trade = "none" /\ shares = 0 /\ bought \in Nat
        /\ \A p \in Process : size[p] = 0 /\ pc[p] \in {"persist", "idle"}
    BY <1>1, <1>2, Numbers DEF Init
  <2> QED
    BY <1>1, <1>3, <2>1 DEF LotInv, Cumulative
<1>5. LifecycleInv
  BY DEF Init, LifecycleInv
<1>6. ASSUME NEW p \in Process PROVE PlaceAt(p)
  <2>1. pc[p] \in {"persist", "idle"}
    BY <1>2
  <2> QED
    BY <2>1 DEF PlaceAt, AdmissionAt, HeldAt, GoneAt, CleanAt
<1> QED
  BY <1>1, <1>4, <1>5, <1>6 DEF LoneOK, LoneInv

\* The inductive invariant holds of every behaviour of a process that runs alone.
THEOREM LoneInvariance ==
    ASSUME LoneProcess
    PROVE  Spec => [](ControlOK /\ LoneOK)
<1>1. Init => LoneOK
  BY LoneInit
<1>2. ControlOK /\ LoneOK /\ [Next]_vars => LoneOK'
  BY LoneStep
<1> QED
  BY <1>1, <1>2, Invariance, PTL DEF Spec

\* record_entry_fill never books more than the broker has filled.
THEOREM LoneLotsFit ==
    ASSUME LoneProcess
    PROVE  Spec => []LotsNeverExceedFill
<1>1. ControlOK /\ LoneOK => LotsNeverExceedFill
  <2> SUFFICES ASSUME LoneOK PROVE LotsNeverExceedFill
    OBVIOUS
  <2>1. LotSum(lots) \in Nat /\ shares \in Nat /\ bought \in Nat
    BY Numbers DEF LoneOK
  <2> QED
    BY <2>1 DEF LoneOK, LoneInv, LotInv, LotsNeverExceedFill
<1> QED
  BY <1>1, LoneInvariance, PTL

\* A reconciliation that ends without a discrepancy leaves book, lifecycle and
\* admission as the broker's position and legs say.
THEOREM CleanEndMatches ==
    ASSUME LoneProcess
    PROVE  Spec => []CleanFinishMatches
<1>1. ControlOK /\ LoneOK => CleanFinishMatches
  BY DEF LoneOK, LoneInv, PlaceAt, CleanAt, CleanFinishMatches
<1> QED
  BY <1>1, LoneInvariance, PTL

\* Only Close closes a trade.
LEMMA ClosesVerified ==
    ASSUME ControlOK, LoneOK, [Next]_vars, trade' = "CLOSED", trade # "CLOSED"
    PROVE  legSold + closeSold >= LotSum(lots)
<1>1. PICK p \in Process : Close(p)
  BY ClosesAtClose
<1>2. FullExit(p) /\ LotSum(lots) <= Expected(p)
  BY <1>1 DEF Close, Step, LoneOK, LoneInv, PlaceAt, GoneAt
<1>3. seen[p].legSold <= legSold /\ seen[p].closeSold <= closeSold
  BY DEF LoneOK, RaceOK, SnapshotInv
<1>4. legSold \in Nat /\ closeSold \in Nat
  BY Numbers DEF LoneOK
<1> QED
  BY <1>2, <1>3, <1>4, At DEF Exited

\* A trade becomes CLOSED only when the broker has sold what its lots bought.
THEOREM ClosesOnVerifiedExit ==
    ASSUME LoneProcess
    PROVE  Spec => ClosedOnVerifiedExit
<1>1. ControlOK /\ LoneOK /\ [Next]_vars =>
        [trade' = "CLOSED" /\ trade # "CLOSED" => legSold + closeSold >= LotSum(lots)]_vars
  BY ClosesVerified
<1> QED
  BY <1>1, LoneInvariance, PTL DEF Spec, ClosedOnVerifiedExit
===========================================================================
