----------------------------- MODULE RiskProofs -----------------------------
(***************************************************************************)
(* Proofs about the risk engine, for any processes, symbols, equities,     *)
(* prices, thresholds and limits: HaltLatches, what stands against         *)
(* entries, and RiskSizing, how much an entry may risk.                    *)
(***************************************************************************)
EXTENDS HaltLatches, RiskSizing, SequenceTheorems, SumTheorems

-----------------------------------------------------------------------------
(* HaltLatches: what stands against entries since a validation began lets  *)
(* no entry through, and no entry is approved in a drawdown.               *)

(* Numbers.                                                                *)

\* The streak is a number: a sequence has finitely many places.
LEMMA StreakNat ==
    ASSUME history \in Seq({"win", "loss"})
    PROVE  Streak \in Nat
<1> DEFINE S == {i \in DOMAIN history : \A j \in DOMAIN history : j >= i => history[j] = "loss"}
<1>1. DOMAIN history = 1..Len(history) /\ Len(history) \in Nat
  OBVIOUS
<1>2. IsFiniteSet(1..Len(history))
  BY <1>1, FS_Interval
<1>3. IsFiniteSet(S)
  BY <1>1, <1>2, FS_Subset
<1> QED
  BY <1>3, FS_CardinalityType DEF Streak

\* Every equity that is read or stored is a natural number.
LEMMA Numbers ==
    ASSUME TypeOK
    PROVE  /\ equity \in Nat /\ high \in Nat /\ weekHigh \in Nat
           /\ \A p \in Process : /\ eq[p] \in Nat /\ peak[p] \in Nat
                                 /\ base[p].all \in Nat /\ base[p].week \in Nat
           /\ LossCap \in Nat /\ HaltPct \in 1..100 /\ WeekPct \in 1..100
<1>1. Equity \subseteq Nat /\ LossCap \in Nat /\ HaltPct \in 1..100 /\ WeekPct \in 1..100
  BY HaltAssumption
<1>2. equity \in Nat /\ high \in Nat /\ weekHigh \in Nat
  BY <1>1 DEF TypeOK
<1>3. ASSUME NEW p \in Process
      PROVE  eq[p] \in Nat /\ peak[p] \in Nat /\ base[p].all \in Nat /\ base[p].week \in Nat
  <2>1. /\ eq[p] \in Equity \cup {0} /\ peak[p] \in Equity \cup {0}
        /\ base[p] \in [all : Equity \cup {0}, week : Equity \cup {0}]
    BY DEF TypeOK
  <2>2. base[p].all \in Equity \cup {0} /\ base[p].week \in Equity \cup {0}
    BY <2>1
  <2>3. Equity \cup {0} \subseteq Nat
    BY <1>1
  <2> QED
    BY <2>1, <2>2, <2>3
<1> QED
  BY <1>1, <1>2, <1>3

\* A lower high means a smaller fall.
LEMMA FallsMonotone ==
    ASSUME NEW pct \in 1..100, NEW h \in Nat, NEW g \in Nat, NEW e \in Nat,
           g <= h, ~Falls(pct, h, e)
    PROVE  ~Falls(pct, g, e)
<1> DEFINE d == h - g
           r == 100 - pct
<1>1. d \in Nat /\ r \in Nat /\ h = g + d /\ pct = 100 - r
  OBVIOUS
<1>2. d * r \in Nat
  BY <1>1
<1>3. pct * h = 100 * g + 100 * d - r * g - d * r
  BY <1>1
<1>4. pct * g = 100 * g - r * g
  BY <1>1
<1> QED
  BY <1>1, <1>2, <1>3, <1>4 DEF Falls

---------------------------------------------------------------------------
(* Types.                                                                  *)

\* Every action keeps the types of what it changes.
LEMMA TypeAct ==
    ASSUME TypeOK, Act
    PROVE  /\ equity' \in Equity /\ high' \in Equity \cup {0} /\ weekHigh' \in Equity \cup {0}
           /\ history' \in Seq({"win", "loss"}) /\ open' \in 0..MaxTrades
           /\ latched' \subseteq Halt
           /\ pc' \in [Process -> Label]
           /\ eq' \in [Process -> Equity \cup {0}] /\ peak' \in [Process -> Equity \cup {0}]
           /\ losses' \in [Process -> Nat]
           /\ crashes' \in 0..MaxCrash /\ weeks' \in 0..MaxWeeks
<1> USE DEF TypeOK, rows, local, bounds
<1>0. Streak \in Nat
  BY StreakNat
<1>a. MaxTrades \in Nat /\ MaxCrash \in Nat /\ MaxWeeks \in Nat
  BY HaltAssumption
<1>b. ASSUME NEW p \in Process, Return(p)
      PROVE  /\ Goto(p, "idle") /\ "idle" \in Label
             /\ eq' \in [Process -> Equity \cup {0}] /\ peak' \in [Process -> Equity \cup {0}]
             /\ losses' \in [Process -> Nat]
  BY <1>b DEF Return, Label
<1>1. ASSUME NEW p \in Process, CloseTrade(p)
      PROVE  history' \in Seq({"win", "loss"})
  <2>1. PICK outcome \in {"win", "loss"}, n \in 0..Len(history) :
          history' = SubSeq(history, 1, n) \o <<outcome>> \o SubSeq(history, n + 1, Len(history))
    BY <1>1 DEF CloseTrade
  <2>2. Len(history) \in Nat /\ \A i \in 1..Len(history) : history[i] \in {"win", "loss"}
    OBVIOUS
  <2>3. SubSeq(history, 1, n) \in Seq({"win", "loss"})
    BY <2>2, SubSeqProperties
  <2>4. SubSeq(history, n + 1, Len(history)) \in Seq({"win", "loss"})
    BY <2>2, SubSeqProperties
  <2>5. <<outcome>> \in Seq({"win", "loss"})
    OBVIOUS
  <2> QED
    BY <2>1, <2>3, <2>4, <2>5, ConcatProperties
<1>2. ASSUME NEW p \in Process, Reconcile(p) \/ Advance(p) \/ Crash(p)
      PROVE  /\ \E l \in Label : Goto(p, l)
             /\ eq' \in [Process -> Equity \cup {0}] /\ peak' \in [Process -> Equity \cup {0}]
             /\ losses' \in [Process -> Nat]
             /\ equity' \in Equity /\ high' \in Equity \cup {0} /\ weekHigh' \in Equity \cup {0}
             /\ open' \in 0..MaxTrades /\ latched' \subseteq Halt
             /\ crashes' \in 0..MaxCrash /\ weeks' \in 0..MaxWeeks
             /\ (history' = history \/ CloseTrade(p))
  <2>1. CASE Reconcile(p)
    BY <2>1 DEF Reconcile, Step, Return, Label, Validating, Goto, Halt, Latches
  <2>2. CASE CloseTrade(p)
    <3>1. open' \in 0..MaxTrades
      BY <1>a, <2>2 DEF CloseTrade
    <3> QED
      BY <3>1, <2>2 DEF CloseTrade, Step, Label
  <2>3. CASE ReviewStreak(p)
    BY <2>3 DEF ReviewStreak, Step, Return, Label, Validating, Goto, Halt, Latches
  <2>4. CASE EndWalk(p)
    BY <2>4 DEF EndWalk, Step, Return, Label, Validating, Goto, Halt, Latches
  <2>5. CASE StoreSnapshot(p)
    <3>1. high' \in Equity \cup {0} /\ weekHigh' \in Equity \cup {0}
      BY <2>5 DEF StoreSnapshot, InsertSnapshot, Larger
    <3>2. CASE Return(p)
      BY <1>b, <2>5, <3>1, <3>2 DEF StoreSnapshot
    <3>3. CASE Goto(p, "refresh") /\ UNCHANGED local
      BY <2>5, <3>1, <3>3 DEF StoreSnapshot, Label
    <3> QED
      BY <2>5, <3>2, <3>3 DEF StoreSnapshot
  <2>6. CASE Refresh(p)
    BY <2>6 DEF Refresh, Step, Return, Label, Validating, Goto, Halt, Latches
  <2>7. CASE RecordSnapshot(p)
    BY <2>7 DEF RecordSnapshot, InsertSnapshot, Larger, Step, Return, Label, Validating, Goto, Halt, Latches
  <2>8. CASE ReadLosses(p)
    BY <1>0, <2>8 DEF ReadLosses, Step, Return, Label, Validating, Goto, Halt, Latches
  <2>9. CASE Gate(p)
    <3>1. CASE Return(p)
      BY <1>b, <2>9, <3>1 DEF Gate
    <3>2. CASE Goto(p, After[pc[p]]) /\ UNCHANGED local
      <4>1. pc[p] \in Halt
        BY <2>9 DEF Gate
      <4>2. After[pc[p]] \in Label
        BY <4>1 DEF After, Halt, Label, Validating
      <4> QED
        BY <2>9, <3>2, <4>2 DEF Gate
    <3> QED
      BY <2>9, <3>1, <3>2 DEF Gate
  <2>10. CASE Reject(p)
    BY <1>b, <2>10 DEF Reject
  <2>11. CASE CountLosses(p)
    BY <1>0, <2>11 DEF CountLosses, Larger, Step, Return, Label, Validating, Goto, Halt, Latches
  <2>12. CASE ReadHigh(p)
    BY <2>12 DEF ReadHigh, Step, Return, Label, Validating, Goto, Halt, Latches
  <2>13. CASE Judge(p)
    BY <2>13 DEF Judge, Step, Return, Label, Validating, Goto, Halt, Latches
  <2>14. CASE Decide(p)
    BY <2>14 DEF Decide, Step, Return, Label, Validating, Goto, Halt, Latches
  <2>15. CASE Latch(p)
    <3>1. latched' \subseteq Halt
      <4>1. pc[p] \in DOMAIN Latches /\ latched' = latched \cup {Latches[pc[p]]}
        BY <2>15 DEF Latch
      <4>2. Latches[pc[p]] \in Halt
        BY <4>1 DEF Latches, Halt
      <4> QED
        BY <4>1, <4>2
    <3>2. CASE Return(p)
      BY <1>b, <2>15, <3>1, <3>2 DEF Latch
    <3>3. CASE Goto(p, "walk") /\ UNCHANGED local
      BY <2>15, <3>1, <3>3 DEF Latch, Label
    <3> QED
      BY <2>15, <3>2, <3>3 DEF Latch
  <2>16. CASE Enter(p)
    <3>1. open' \in 0..MaxTrades
      <4>1. open \in Nat /\ open <= MaxTrades /\ Len(history) \in Nat
        BY <1>a
      <4> QED
        BY <1>a, <2>16, <4>1 DEF Enter
    <3> QED
      BY <1>b, <2>16, <3>1 DEF Enter
  <2>17. CASE Crash(p)
    <3>1. crashes' \in 0..MaxCrash
      BY <1>a, <2>17 DEF Crash
    <3> QED
      BY <1>b, <2>17, <3>1 DEF Crash
  <2> QED
    BY <1>2, <2>1, <2>2, <2>3, <2>4, <2>5, <2>6, <2>7, <2>8, <2>9, <2>10, <2>11, <2>12, <2>13, <2>14, <2>15, <2>16, <2>17 DEF Advance
<1>3. ASSUME NEW p \in Process, NEW l \in Label, Goto(p, l)
      PROVE  pc' \in [Process -> Label]
  BY <1>3 DEF Goto
<1>4. CASE Kill
  BY <1>4 DEF Kill, Halt
<1>5. CASE Clear
  BY <1>5 DEF Clear
<1>6. CASE Market
  BY <1>6 DEF Market
<1>7. CASE NewWeek
  BY <1>a, <1>7 DEF NewWeek
<1> QED
  BY <1>1, <1>2, <1>3, <1>4, <1>5, <1>6, <1>7 DEF Act

\* With the history variables, every step keeps the types.
LEMMA TypeStep ==
    ASSUME TypeOK, [Next]_vars
    PROVE  TypeOK'
<1>1. CASE Next
  <2>1. Act /\ Watch
    BY <1>1 DEF Next
  <2>2. /\ high' \in Equity \cup {0} /\ weekHigh' \in Equity \cup {0}
        /\ latched' \subseteq Halt
    BY <2>1, TypeAct
  <2>3. Reasons' \subseteq Halt \cup {"losing"}
    BY <2>2 DEF Reasons
  <2>4. held' \in [Process -> SUBSET (Halt \cup {"losing"})]
    BY <2>1, <2>3 DEF Watch, TypeOK
  <2>5. base' \in [Process -> [all : Equity \cup {0}, week : Equity \cup {0}]]
    BY <2>1, <2>2 DEF Watch, TypeOK
  <2> QED
    BY <2>1, <2>4, <2>5, TypeAct DEF TypeOK
<1>2. CASE UNCHANGED vars
  BY <1>2 DEF vars, rows, local, bounds, TypeOK
<1> QED
  BY <1>1, <1>2

---------------------------------------------------------------------------
(* What has stood since.                                                   *)

\* Whoever does not move keeps its place and its readings.
Still(q) == pc'[q] = pc[q] /\ eq'[q] = eq[q] /\ losses'[q] = losses[q] /\ peak'[q] = peak[q]

\* A step is the step of one process, or of none.
LEMMA OneMoves ==
    ASSUME TypeOK, Act
    PROVE  \/ \A q \in Process : Still(q)
           \/ \E p \in Process : /\ Reconcile(p) \/ Advance(p) \/ Crash(p)
                                 /\ \A q \in Process \ {p} : Still(q)
<1> USE DEF Still
<1>1. ASSUME NEW p \in Process, Reconcile(p) \/ Advance(p) \/ Crash(p)
      PROVE  \A q \in Process \ {p} : Still(q)
  BY <1>1 DEF Reconcile, Advance, Crash, CloseTrade, ReviewStreak, EndWalk, StoreSnapshot,
              Refresh, RecordSnapshot, ReadLosses, Gate, Reject, CountLosses, ReadHigh, Judge,
              Decide, Latch, Enter, Step, Goto, Return, local, TypeOK
<1>2. CASE Kill \/ Clear \/ Market \/ NewWeek
  BY <1>2 DEF Kill, Clear, Market, NewWeek, local
<1> QED
  BY <1>1, <1>2 DEF Act

\* A process that validates and goes on validating has taken one of these steps.
LEMMA ValidatingStep ==
    ASSUME NEW p \in Process, TypeOK, Reconcile(p) \/ Advance(p) \/ Crash(p),
           pc'[p] \in Validating
    PROVE  \/ ReadLosses(p) /\ pc[p] \notin Validating
           \/ pc[p] \in Validating /\ Gate(p) /\ pc[p] \notin latched /\ pc'[p] = After[pc[p]]
           \/ pc[p] \in Validating /\ (CountLosses(p) \/ ReadHigh(p))
           \/ pc[p] \in Validating /\ Judge(p) /\ pc'[p] = "drawdown"
           \/ pc[p] \in Validating /\ Decide(p) /\ pc'[p] = "approved"
<1> USE DEF Validating, Halt, TypeOK, Goto
<1>1. ~Reconcile(p) /\ ~Crash(p) /\ ~CloseTrade(p) /\ ~ReviewStreak(p) /\ ~EndWalk(p)
  BY DEF Reconcile, Crash, CloseTrade, ReviewStreak, EndWalk, Step, Return
<1>2. ~StoreSnapshot(p) /\ ~Refresh(p) /\ ~RecordSnapshot(p) /\ ~Reject(p) /\ ~Latch(p) /\ ~Enter(p)
  BY DEF StoreSnapshot, Refresh, RecordSnapshot, Reject, Latch, Enter, Step, Return
<1>3. ASSUME ReadLosses(p)
      PROVE  pc[p] \notin Validating
  BY <1>3 DEF ReadLosses, Step
<1>4. ASSUME Gate(p)
      PROVE  pc[p] \in Validating /\ pc[p] \notin latched /\ pc'[p] = After[pc[p]]
  <2>1. pc'[p] # "idle"
    OBVIOUS
  <2>2. ~Return(p)
    BY <2>1 DEF Return
  <2>3. pc[p] \in Halt /\ pc[p] \notin latched /\ Goto(p, After[pc[p]])
    BY <1>4, <2>2 DEF Gate
  <2> QED
    BY <2>3
<1>5. ASSUME CountLosses(p) \/ ReadHigh(p)
      PROVE  pc[p] \in Validating
  BY <1>5 DEF CountLosses, ReadHigh, Step
<1>6. ASSUME Judge(p)
      PROVE  pc[p] \in Validating /\ pc'[p] = "drawdown"
  <2>1. pc[p] = "week_high" /\ pc'[p] \in {"latch_weekly", "latch_drawdown", "drawdown"}
    BY <1>6 DEF Judge, Step
  <2> QED
    BY <2>1
<1>7. ASSUME Decide(p)
      PROVE  pc[p] \in Validating /\ pc'[p] = "approved"
  <2>1. pc[p] = "decide" /\ pc'[p] \in {"latch_streak", "approved"}
    BY <1>7 DEF Decide, Step
  <2> QED
    BY <2>1
<1> HIDE DEF Validating, Halt, TypeOK, Goto
<1>8. ReadLosses(p) \/ Gate(p) \/ CountLosses(p) \/ ReadHigh(p) \/ Judge(p) \/ Decide(p)
  BY <1>1, <1>2 DEF Advance
<1> QED
  BY <1>3, <1>4, <1>5, <1>6, <1>7, <1>8

\* The invariant about reasons, for the process that moves and for the others.
LEMMA GateStep ==
    ASSUME TypeOK, GateInv, Act, Watch
    PROVE  GateInv'
<1> SUFFICES ASSUME NEW q \in Process, pc'[q] \in Validating
             PROVE  /\ held'[q] \cap Passed[pc'[q]] = {}
                    /\ pc'[q] \in {"high", "week_high", "drawdown", "decide"} /\ "losing" \in held'[q]
                          => losses'[q] >= LossCap
  BY DEF GateInv
<1>1. held'[q] = (IF pc[q] \in Validating THEN held[q] \cap Reasons' ELSE Reasons')
  BY DEF Watch
<1>2. CASE Still(q)
  <2>1. pc[q] \in Validating /\ held'[q] \subseteq held[q]
    BY <1>1, <1>2 DEF Still
  <2> QED
    BY <1>2, <2>1 DEF Still, GateInv
<1>3. ASSUME Reconcile(q) \/ Advance(q) \/ Crash(q)
      PROVE  /\ held'[q] \cap Passed[pc'[q]] = {}
             /\ pc'[q] \in {"high", "week_high", "drawdown", "decide"} /\ "losing" \in held'[q]
                   => losses'[q] >= LossCap
  <2>0. /\ pc[q] \in Validating => held'[q] = held[q] \cap Reasons'
        /\ pc \in [Process -> Label] /\ losses \in [Process -> Nat]
    BY <1>1 DEF TypeOK
  <2>1. CASE ReadLosses(q)
    <3>1. pc'[q] = "kill"
      BY <2>0, <2>1 DEF ReadLosses, Step, Goto
    <3> QED
      BY <3>1 DEF Passed
  <2>2. ASSUME pc[q] \in Validating, Gate(q), pc[q] \notin latched, pc'[q] = After[pc[q]]
        PROVE  /\ held'[q] \cap Passed[pc'[q]] = {}
               /\ pc'[q] \in {"high", "week_high", "drawdown", "decide"} /\ "losing" \in held'[q]
                     => losses'[q] >= LossCap
    <3>1. pc[q] \in Halt /\ latched' = latched
      BY <2>2 DEF Gate, rows
    <3>2. pc[q] \notin held'[q]
      BY <2>0, <2>2, <3>1 DEF Reasons, Halt
    <3>3. Passed[pc'[q]] = Passed[pc[q]] \cup {pc[q]}
      BY <2>2, <3>1 DEF Passed, After, Halt
    <3>4. held[q] \cap Passed[pc[q]] = {}
      BY <2>2 DEF GateInv
    <3>5. held'[q] \cap Passed[pc'[q]] = {}
      BY <2>0, <2>2, <3>2, <3>3, <3>4
    <3>6. losses'[q] = losses[q]
      BY <2>2, <3>1 DEF Gate, Return, local, Validating, Halt, Goto, TypeOK
    <3>7. pc[q] = "drawdown" \/ pc'[q] \in {"streak", "weekly", "count"}
      BY <2>2, <3>1 DEF After, Halt
    <3>8. pc'[q] \in {"high", "week_high", "drawdown", "decide"} => pc[q] = "drawdown"
      BY <3>7
    <3> QED
      BY <2>0, <2>2, <3>5, <3>6, <3>8 DEF GateInv
  <2>3. ASSUME pc[q] \in Validating, CountLosses(q)
        PROVE  /\ held'[q] \cap Passed[pc'[q]] = {}
               /\ pc'[q] \in {"high", "week_high", "drawdown", "decide"} /\ "losing" \in held'[q]
                     => losses'[q] >= LossCap
    <3>1. pc[q] = "count" /\ pc'[q] = "high"
      BY <2>0, <2>3 DEF CountLosses, Step, Goto
    <3>2. held'[q] \cap Passed[pc'[q]] = {}
      BY <2>0, <2>3, <3>1 DEF GateInv, Passed
    <3>3. "losing" \in held'[q] => Streak' >= LossCap
      BY <2>0, <2>3, StreakNat, HaltAssumption DEF Reasons, CountLosses, rows, TypeOK, Halt
    <3>4. Streak' = Streak /\ losses'[q] = Larger(losses[q], Streak)
      BY <2>0, <2>3 DEF CountLosses, rows, Streak
    <3>5. Streak \in Nat /\ losses[q] \in Nat /\ LossCap \in Nat
      BY <2>0, StreakNat, HaltAssumption DEF TypeOK
    <3> QED
      BY <3>1, <3>2, <3>3, <3>4, <3>5 DEF Larger
  <2>4. ASSUME pc[q] \in Validating, ReadHigh(q) \/ (Judge(q) /\ pc'[q] = "drawdown")
        PROVE  /\ held'[q] \cap Passed[pc'[q]] = {}
               /\ pc'[q] \in {"high", "week_high", "drawdown", "decide"} /\ "losing" \in held'[q]
                     => losses'[q] >= LossCap
    <3>1. /\ pc[q] \in {"high", "week_high"} /\ pc'[q] \in {"week_high", "drawdown"}
          /\ losses' = losses
      BY <2>0, <2>4 DEF ReadHigh, Judge, Step, Goto, local
    <3>2. Passed[pc'[q]] = Passed[pc[q]]
      BY <3>1 DEF Passed
    <3> QED
      BY <2>0, <2>4, <3>1, <3>2 DEF GateInv
  <2>5. ASSUME pc[q] \in Validating, Decide(q), pc'[q] = "approved"
        PROVE  held'[q] \cap Passed[pc'[q]] = {}
    <3>1. pc[q] = "decide" /\ ~(losses[q] >= LossCap)
      BY <2>0, <2>5 DEF Decide, Step, Goto
    <3>2. held[q] \cap Halt = {} /\ "losing" \notin held[q]
      BY <2>5, <3>1 DEF GateInv, Passed
    <3> QED
      BY <2>0, <2>5, <3>2 DEF Passed
  <2> QED
    BY <1>3, <2>1, <2>2, <2>3, <2>4, <2>5, ValidatingStep
<1> QED
  BY <1>2, <1>3, OneMoves

\* The invariant about highs.
LEMMA BaseStep ==
    ASSUME TypeOK, TypeOK', BaseInv, Act, Watch
    PROVE  BaseInv'
<1> SUFFICES ASSUME NEW q \in Process, pc'[q] \in Validating
             PROVE  /\ base'[q].all <= high' /\ base'[q].week <= weekHigh'
                    /\ pc'[q] = "week_high" => base'[q].all <= peak'[q]
                    /\ pc'[q] \in {"drawdown", "decide", "approved"} =>
                          /\ ~Falls(HaltPct, base'[q].all, eq'[q])
                          /\ ~Falls(WeekPct, base'[q].week, eq'[q])
  BY DEF BaseInv, Falls
<1>1. base'[q] = (IF pc[q] \in Validating THEN base[q] ELSE [all |-> high', week |-> weekHigh'])
  BY DEF Watch
<1>2. /\ high \in Nat /\ weekHigh \in Nat /\ high' \in Nat /\ weekHigh' \in Nat
      /\ eq[q] \in Nat /\ peak[q] \in Nat /\ base[q].all \in Nat /\ base[q].week \in Nat
      /\ HaltPct \in 1..100 /\ WeekPct \in 1..100
  <2>1. \A e \in Equity \cup {0} : e \in Nat
    BY HaltAssumption
  <2>2. high' \in Nat /\ weekHigh' \in Nat
    BY <2>1 DEF TypeOK
  <2> QED
    BY <2>2, Numbers
<1>3. high <= high' /\ (weekHigh <= weekHigh' \/ (pc[q] = "idle" /\ pc' = pc))
  <2>1. ASSUME NEW p \in Process, StoreSnapshot(p) \/ RecordSnapshot(p)
        PROVE  high <= high' /\ weekHigh <= weekHigh'
    <3>1. eq[p] \in Nat
      BY Numbers
    <3> QED
      BY <1>2, <2>1, <3>1 DEF StoreSnapshot, RecordSnapshot, InsertSnapshot, Larger
  <2>2. ASSUME NEW p \in Process, Reconcile(p) \/ Advance(p) \/ Crash(p),
               ~StoreSnapshot(p), ~RecordSnapshot(p)
        PROVE  high' = high /\ weekHigh' = weekHigh
    BY <2>2 DEF Reconcile, Advance, Crash, CloseTrade, ReviewStreak, EndWalk,
              Refresh, ReadLosses, Gate, Reject, CountLosses, ReadHigh, Judge,
              Decide, Latch, Enter, rows
  <2>3. CASE Kill \/ Clear \/ Market
    BY <1>2, <2>3 DEF Kill, Clear, Market, rows
  <2>4. CASE NewWeek
    BY <1>2, <2>4 DEF NewWeek
  <2>5. CASE \E p \in Process : Reconcile(p) \/ Advance(p) \/ Crash(p)
    <3>1. PICK p \in Process : Reconcile(p) \/ Advance(p) \/ Crash(p)
      BY <2>5
    <3>2. CASE StoreSnapshot(p) \/ RecordSnapshot(p)
      BY <2>1, <3>2
    <3>3. CASE ~StoreSnapshot(p) /\ ~RecordSnapshot(p)
      <4>1. high' = high /\ weekHigh' = weekHigh
        BY <2>2, <3>1, <3>3
      <4> QED
        BY <1>2, <4>1
    <3> QED
      BY <3>2, <3>3
  <2> QED
    BY <2>3, <2>4, <2>5 DEF Act
<1>4. CASE pc[q] \notin Validating
  <2>1. base'[q].all = high' /\ base'[q].week = weekHigh'
    BY <1>1, <1>4
  <2>2. ~Still(q)
    BY <1>4 DEF Still
  <2>3. ReadLosses(q)
    BY <1>4, <2>2, OneMoves, ValidatingStep
  <2>4. pc'[q] = "kill"
    BY <2>3 DEF ReadLosses, Step, Goto, TypeOK
  <2> QED
    BY <1>2, <2>1, <2>4
<1>5. CASE pc[q] \in Validating
  <2>1. base'[q] = base[q] /\ weekHigh <= weekHigh'
    BY <1>1, <1>3, <1>5 DEF Validating, Halt
  <2>2. base'[q].all <= high' /\ base'[q].week <= weekHigh'
    BY <1>2, <1>3, <1>5, <2>1 DEF BaseInv
  <2>3. CASE Still(q)
    BY <1>5, <2>1, <2>2, <2>3 DEF Still, BaseInv
  <2>4. CASE Gate(q) /\ pc[q] \notin latched /\ pc'[q] = After[pc[q]]
    <3>1. pc[q] \in Halt /\ pc'[q] # "week_high" /\ eq' = eq
      BY <1>5, <2>4 DEF Gate, After, Halt, local, Return, Goto, TypeOK, Validating
    <3>2. pc'[q] \in {"drawdown", "decide", "approved"} => pc[q] = "drawdown"
      BY <2>4, <3>1 DEF After, Halt
    <3> QED
      BY <1>5, <2>1, <2>2, <3>1, <3>2 DEF BaseInv
  <2>5. CASE CountLosses(q)
    <3>1. pc'[q] = "high"
      BY <2>5 DEF CountLosses, Step, Goto, TypeOK
    <3> QED
      BY <2>2, <3>1
  <2>6. CASE ReadHigh(q)
    <3>1. pc'[q] = "week_high" /\ peak'[q] = high
      BY <2>6 DEF ReadHigh, Step, Goto, TypeOK
    <3> QED
      BY <1>5, <2>1, <2>2, <3>1 DEF BaseInv
  <2>7. CASE Judge(q) /\ pc'[q] = "drawdown"
    <3>1. pc[q] = "week_high" /\ eq' = eq
      BY <2>7 DEF Judge, Step, local
    <3>2. ~Falls(WeekPct, weekHigh, eq[q]) /\ ~Falls(HaltPct, peak[q], eq[q])
      BY <2>7 DEF Judge, Step, Goto, TypeOK
    <3>3. base[q].all <= peak[q] /\ base[q].week <= weekHigh
      BY <1>5, <3>1 DEF BaseInv
    <3>4. ~Falls(HaltPct, base[q].all, eq[q]) /\ ~Falls(WeekPct, base[q].week, eq[q])
      BY <1>2, <3>2, <3>3, FallsMonotone
    <3> QED
      BY <2>1, <2>2, <2>7, <3>1, <3>4
  <2>8. CASE Decide(q) /\ pc'[q] = "approved"
    <3>1. pc[q] = "decide" /\ eq' = eq
      BY <2>8 DEF Decide, Step, local
    <3> QED
      BY <1>5, <2>1, <2>2, <2>8, <3>1 DEF BaseInv
  <2> QED
    BY <1>5, <2>3, <2>4, <2>5, <2>6, <2>7, <2>8, OneMoves, ValidatingStep
<1> QED
  BY <1>4, <1>5

---------------------------------------------------------------------------
(* The theorems.                                                           *)

LEMMA HaltInit == Init => HaltInv
<1> SUFFICES ASSUME Init PROVE HaltInv
  OBVIOUS
<1>1. TypeOK
  BY HaltAssumption DEF Init, TypeOK, Label
<1> QED
  BY <1>1 DEF Init, HaltInv, GateInv, BaseInv, Validating, Halt

LEMMA HaltStep == HaltInv /\ [Next]_vars => HaltInv'
<1> SUFFICES ASSUME HaltInv, [Next]_vars PROVE HaltInv'
  OBVIOUS
<1>1. TypeOK'
  BY TypeStep DEF HaltInv
<1>2. CASE Next
  BY <1>1, <1>2, GateStep, BaseStep DEF HaltInv, Next
<1>3. CASE UNCHANGED vars
  BY <1>1, <1>3 DEF HaltInv, GateInv, BaseInv, vars, rows, local, bounds, Falls
<1> QED
  BY <1>2, <1>3

\* The inductive invariant: the types, what each place of a validation has
\* ruled out, and what it knows of the highs.
THEOREM HaltsInvariant == Spec => []HaltInv
  BY HaltInit, HaltStep, PTL DEF Spec

\* Every reachable state is well typed.
THEOREM HaltsTyped == Spec => []TypeOK
<1>1. HaltInv => TypeOK
  BY DEF HaltInv
<1> QED
  BY <1>1, HaltsInvariant, PTL

\* No entry is approved past a halt or a loss streak that has stood since its
\* validation began, in the code's order of reads.
THEOREM HaltsRespected == Spec => []EntryRespectsHalts
<1>1. HaltInv => EntryRespectsHalts
  <2> SUFFICES ASSUME HaltInv, NEW p \in Process, pc[p] = "approved"
               PROVE  held[p] = {}
    BY DEF EntryRespectsHalts
  <2>1. held[p] \in SUBSET (Halt \cup {"losing"})
    BY DEF HaltInv, TypeOK
  <2>2. held[p] \cap (Halt \cup {"losing"}) = {}
    BY DEF HaltInv, GateInv, Validating, Passed
  <2> QED
    BY <2>1, <2>2
<1> QED
  BY <1>1, HaltsInvariant, PTL

\* No entry is approved on an equity that a snapshot there was when its
\* validation began shows to be a drawdown.
THEOREM NoDrawdownEntry == Spec => []NoEntryIntoDrawdown
<1>1. HaltInv => NoEntryIntoDrawdown
  BY DEF HaltInv, BaseInv, NoEntryIntoDrawdown, Validating
<1> QED
  BY <1>1, HaltsInvariant, PTL

-----------------------------------------------------------------------------
(* RiskSizing: an approved quantity is the largest that fits every budget, *)
(* and what the entries can lose stays within the budgets the last one was *)
(* granted under.                                                          *)
(*                                                                         *)
(* The search for the quantity divides, rounds down and takes the least; a *)
(* sum over the symbols changes by what one row changes.                   *)

(* RiskSizing: whole shares.                                               *)

\* A whole number of shares fits a budget when their risk does.
LEMMA FloorFits ==
    ASSUME NEW a \in Int, NEW b \in Nat \ {0}, NEW q \in Int
    PROVE  a \div b \in Int /\ (q <= a \div b <=> q * b <= a)
<1>1. a \div b \in Int /\ (a \div b) * b <= a /\ a < (a \div b) * b + b
    OBVIOUS
<1> QED BY <1>1

\* A nonempty finite set of integers has a least element.
LEMMA LeastExists ==
    ASSUME NEW S, IsFiniteSet(S), S # {}, S \subseteq Int
    PROVE  Min(S) \in S /\ \A y \in S : Min(S) <= y
<1> DEFINE Below(x) == {y \in S : y <= x}
           C == {Below(x) : x \in S}
<1>1. C \subseteq SUBSET S /\ C # {}
    OBVIOUS
<1>2. PICK T \in C : \A U \in SUBSET T : U # T => U \notin C
    <2> HIDE DEF C
    <2> QED BY <1>1, Smallest
<1>3. PICK x \in S : T = Below(x)
    OBVIOUS
<1>4. ASSUME NEW y \in S, y < x PROVE FALSE
    <2>1. x \in Int /\ y \in Int /\ \A z \in S : z \in Int
        OBVIOUS
    <2>2. \A z \in Below(y) : z \in Below(x)
        BY <1>4, <2>1
    <2>3. x \in Below(x) /\ x \notin Below(y)
        BY <1>4, <2>1
    <2>4. Below(y) \in SUBSET T /\ Below(y) # T /\ Below(y) \in C
        BY <1>3, <2>2, <2>3
    <2> QED BY <1>2, <2>4
<1>5. \A y \in S : x <= y
    BY <1>4
<1> QED BY <1>5 DEF Min

LEMMA SevenAreFinite ==
    ASSUME NEW a, NEW b, NEW c, NEW d, NEW e, NEW f, NEW g
    PROVE  IsFiniteSet({a, b, c, d, e, f, g})
<1>1. \A S : IsFiniteSet(S) => \A x : IsFiniteSet(S \cup {x})
    BY FS_AddElement
<1>2. IsFiniteSet({a} \cup {b} \cup {c} \cup {d})
    BY <1>1, FS_Singleton
<1>3. IsFiniteSet(({a} \cup {b} \cup {c} \cup {d}) \cup {e} \cup {f} \cup {g})
    BY <1>1, <1>2
<1>4. {a, b, c, d, e, f, g} = ({a} \cup {b} \cup {c} \cup {d}) \cup {e} \cup {f} \cup {g}
    OBVIOUS
<1> QED BY <1>3, <1>4

\* A decision as validate_entry makes it.
Decided(d) ==
    /\ d.symbol \in Symbol
    /\ d.price \in Nat /\ d.stop \in Nat /\ d.stop < d.price
    /\ d.worth \in Nat /\ d.cash \in Nat /\ d.tempo \in Nat /\ d.base \in Nat
    /\ d.used.total \in Nat /\ d.used.sector \in Nat /\ d.used.cluster \in Nat
    /\ d.quantity = Quantity(d.worth, d.base, d.tempo, d.cash, d.price, d.price - d.stop, d.used)
    /\ Approvable(d.quantity, d.price - d.stop, d.worth)

\* The budgets, as whole shares, are what the quantity is the least of.
LEMMA QuantityIsLeast ==
    ASSUME NEW d, Decided(d)
    PROVE  LET r == d.price - d.stop
               C == Constraints(d.worth, d.base, d.tempo, d.cash, d.price, r, d.used)
           IN /\ C \subseteq Int
              /\ d.quantity \in C
              /\ \A c \in C : d.quantity <= c
<1> DEFINE r == d.price - d.stop
           C == Constraints(d.worth, d.base, d.tempo, d.cash, d.price, r, d.used)
<1>1. r \in Nat \ {0} /\ d.price \in Nat \ {0}
    BY DEF Decided
<1>2. Applied(d.base, d.tempo) \in Int
    BY SizingAssumption DEF Decided, Applied, Lesser
<1>3. /\ (d.worth * Applied(d.base, d.tempo)) \div (1000000 * r) \in Int
      /\ d.cash \div d.price \in Int
      /\ (d.worth * PositionCap) \div (10000 * d.price) \in Int
      /\ Liquidity \in Int
    <2>1. d.worth \in Int /\ d.cash \in Int /\ PositionCap \in Int /\ Liquidity \in Int
        BY SizingAssumption DEF Decided
    <2>2. d.worth * Applied(d.base, d.tempo) \in Int /\ d.worth * PositionCap \in Int
        BY <1>2, <2>1
    <2>3. 1000000 * r \in Nat \ {0} /\ 10000 * d.price \in Nat \ {0}
        BY <1>1, SMT
    <2>4. \A a \in Int, b \in Nat \ {0} : a \div b \in Int
        BY FloorFits
    <2> QED BY <1>1, <2>1, <2>2, <2>3, <2>4, SMT
<1>4. \A cap \in Nat, used \in Nat : Positive(Headroom(d.worth, cap, used) \div (10000 * r)) \in Int
    <2> TAKE cap \in Nat, used \in Nat
    <2>1. Headroom(d.worth, cap, used) \in Int
        BY DEF Decided, Headroom
    <2>2. Headroom(d.worth, cap, used) \div (10000 * r) \in Int
        BY <1>1, <2>1, FloorFits
    <2> QED BY <2>2 DEF Positive
<1>5. C \subseteq Int
    <2>1. /\ Positive(Headroom(d.worth, CombinedCap, d.used.total) \div (10000 * r)) \in Int
          /\ Positive(Headroom(d.worth, SectorCap, d.used.sector) \div (10000 * r)) \in Int
          /\ Positive(Headroom(d.worth, ClusterCap, d.used.cluster) \div (10000 * r)) \in Int
        BY <1>4, SizingAssumption DEF Decided
    <2> HIDE DEF r
    <2> QED BY <1>3, <2>1, SMT DEF Constraints
<1>6. IsFiniteSet(C) /\ C # {}
    <2> HIDE DEF r
    <2>1. C # {}
        BY SMT DEF Constraints
    <2>2. IsFiniteSet(C)
        <3> DEFINE n1 == (d.worth * Applied(d.base, d.tempo)) \div (1000000 * r)
                   n2 == d.cash \div d.price
                   n3 == (d.worth * PositionCap) \div (10000 * d.price)
                   n4 == Positive(Headroom(d.worth, CombinedCap, d.used.total) \div (10000 * r))
                   n5 == Positive(Headroom(d.worth, SectorCap, d.used.sector) \div (10000 * r))
                   n6 == Positive(Headroom(d.worth, ClusterCap, d.used.cluster) \div (10000 * r))
        <3>1. C = {n1, n2, n3, n4, n5, n6, Liquidity}
            BY SMT DEF Constraints
        <3> HIDE DEF n1, n2, n3, n4, n5, n6
        <3>2. IsFiniteSet({n1, n2, n3, n4, n5, n6, Liquidity})
            BY SevenAreFinite
        <3> QED BY <3>1, <3>2
    <2> QED BY <2>1, <2>2
<1>7. d.quantity = Min(C)
    BY DEF Decided, Quantity
<1> HIDE DEF C
<1>8. d.quantity \in C /\ \A c \in C : d.quantity <= c
    BY <1>5, <1>6, <1>7, LeastExists
<1> QED BY <1>5, <1>8 DEF C

\* The whole shares that a budget and the base rate leave, at a risk r each.
Room(w, cap, used, r) == Positive(Headroom(w, cap, used) \div (10000 * r))

Slice(w, basis, tempo, r) == (w * Applied(basis, tempo)) \div (1000000 * r)

\* What one budget leaves, in shares and in money.
LEMMA HeadroomFits ==
    ASSUME NEW w \in Nat, NEW cap \in Nat, NEW used \in Nat, NEW r \in Nat \ {0},
           NEW q \in Nat \ {0}
    PROVE  q <= Room(w, cap, used, r)
              <=> (q * r + used) * 10000 <= w * cap
<1> DEFINE h == Headroom(w, cap, used)
           n == h \div (10000 * r)
<1>1. h \in Int /\ h = w * cap - 10000 * used /\ 10000 * r \in Nat \ {0}
    BY DEF Headroom
<1>2. n \in Int /\ (q <= n <=> q * (10000 * r) <= h)
    <2> HIDE DEF h
    <2> QED BY <1>1, FloorFits
<1>3. q <= Positive(n) <=> q <= n
    <2> HIDE DEF n
    <2> QED BY <1>2 DEF Positive
<1>4. q * (10000 * r) <= h <=> (q * r + used) * 10000 <= w * cap
    <2> HIDE DEF h
    <2>1. q * (10000 * r) = 10000 * (q * r) /\ q * r \in Int
        OBVIOUS
    <2> QED BY <1>1, <2>1
<1> QED BY <1>2, <1>3, <1>4 DEF Room

\* The share of equity that one trade may risk, with the absolute maximum.
LEMMA BaseFits ==
    ASSUME NEW w \in Nat, NEW basis \in Nat, NEW tempo \in Nat, NEW r \in Nat \ {0},
           NEW q \in Nat \ {0}
    PROVE  q <= Slice(w, basis, tempo, r)
              <=> /\ q * r * 1000000 <= w * basis * tempo
                  /\ q * r * 10000 <= w * AbsoluteRisk
<1> DEFINE a == Applied(basis, tempo)
<1>1. /\ basis * tempo \in Nat /\ AbsoluteRisk * 100 \in Nat
      /\ a \in {basis * tempo, AbsoluteRisk * 100}
      /\ a <= basis * tempo /\ a <= AbsoluteRisk * 100
    BY SizingAssumption DEF Applied, Lesser
<1> HIDE DEF a
<1>2. a \in Nat /\ w * a \in Int
    BY <1>1
<1>3. 1000000 * r \in Nat \ {0}
    BY SMT
<1>4. q <= (w * a) \div (1000000 * r) <=> q * (1000000 * r) <= w * a
    BY <1>2, <1>3, FloorFits, SMT
<1>5. q * (1000000 * r) = q * r * 1000000
    BY SMT
<1>6. \A x \in Nat, y \in Nat : x <= y => w * x <= w * y
    OBVIOUS
<1>7. w * a <= w * (basis * tempo) /\ w * a <= w * (AbsoluteRisk * 100)
    BY <1>1, <1>2, <1>6
<1>8. w * (basis * tempo) = w * basis * tempo /\ w * (AbsoluteRisk * 100) = 100 * (w * AbsoluteRisk)
    BY SizingAssumption
<1>9. q * r \in Int /\ w * AbsoluteRisk \in Int /\ w * basis * tempo \in Int
    BY SizingAssumption
<1>10. w * a = w * (basis * tempo) \/ w * a = w * (AbsoluteRisk * 100)
    BY <1>1
<1>11. w * a <= w * basis * tempo /\ w * a <= 100 * (w * AbsoluteRisk)
    BY <1>7, <1>8
<1>12. w * a = w * basis * tempo \/ w * a = 100 * (w * AbsoluteRisk)
    BY <1>8, <1>10
<1>13. q * r * 1000000 <= w * a
           <=> q * r * 1000000 <= w * basis * tempo /\ q * r * 1000000 <= 100 * (w * AbsoluteRisk)
    BY <1>2, <1>9, <1>11, <1>12, SMT
<1>14. q * r * 1000000 <= 100 * (w * AbsoluteRisk) <=> q * r * 10000 <= w * AbsoluteRisk
    BY <1>9, SMT
<1>15. q <= (w * a) \div (1000000 * r)
           <=> /\ q * r * 1000000 <= w * basis * tempo
               /\ q * r * 10000 <= w * AbsoluteRisk
    BY <1>4, <1>5, <1>13, <1>14, SMT
<1> QED BY <1>15, SMT DEF a, Slice

\* What docs/RISK_MODEL.md allows of q shares is what every constraint allows.
LEMMA AllowedWithinAll ==
    ASSUME NEW d, Decided(d), NEW q \in Nat \ {0}
    PROVE  Allowed(d, q) <=>
              \A c \in Constraints(d.worth, d.base, d.tempo, d.cash, d.price,
                                   d.price - d.stop, d.used) : q <= c
<1> DEFINE r == d.price - d.stop
           n1 == Slice(d.worth, d.base, d.tempo, r)
           n2 == d.cash \div d.price
           n3 == (d.worth * PositionCap) \div (10000 * d.price)
           n4 == Room(d.worth, CombinedCap, d.used.total, r)
           n5 == Room(d.worth, SectorCap, d.used.sector, r)
           n6 == Room(d.worth, ClusterCap, d.used.cluster, r)
<1>0. /\ r \in Nat \ {0} /\ d.price \in Nat \ {0}
      /\ d.worth \in Nat /\ d.cash \in Nat /\ d.tempo \in Nat /\ d.base \in Nat
      /\ d.used.total \in Nat /\ d.used.sector \in Nat /\ d.used.cluster \in Nat
    BY DEF Decided
<1>1. PositionCap \in Nat /\ CombinedCap \in Nat /\ SectorCap \in Nat /\ ClusterCap \in Nat
    BY SizingAssumption
<1>2. Constraints(d.worth, d.base, d.tempo, d.cash, d.price, r, d.used)
         = {n1, n2, n3, n4, n5, n6, Liquidity}
    BY SMT DEF Constraints, Slice, Room
<1>3. q <= n1 <=> /\ q * r * 1000000 <= d.worth * d.base * d.tempo
                  /\ q * r * 10000 <= d.worth * AbsoluteRisk
    <2> HIDE DEF r
    <2> QED BY <1>0, BaseFits, SMT
<1>4. q <= n2 <=> q * d.price <= d.cash
    <2>1. \A a \in Int, b \in Nat \ {0} : q <= a \div b <=> q * b <= a
        BY FloorFits
    <2> QED BY <1>0, <2>1
<1>5. q <= n3 <=> q * d.price * 10000 <= d.worth * PositionCap
    <2>1. d.worth * PositionCap \in Int /\ 10000 * d.price \in Nat \ {0}
        BY <1>0, <1>1
    <2>2. q <= n3 <=> q * (10000 * d.price) <= d.worth * PositionCap
        BY <2>1, FloorFits
    <2>3. q * (10000 * d.price) = q * d.price * 10000
        BY <1>0
    <2> QED BY <2>2, <2>3
<1>6. q <= n4 <=> (q * r + d.used.total) * 10000 <= d.worth * CombinedCap
    <2> HIDE DEF r
    <2>1. \A w \in Nat, u \in Nat : q <= Room(w, CombinedCap, u, r) <=> (q * r + u) * 10000 <= w * CombinedCap
        BY <1>0, <1>1, HeadroomFits
    <2> QED BY <1>0, <2>1
<1>7. q <= n5 <=> (q * r + d.used.sector) * 10000 <= d.worth * SectorCap
    <2> HIDE DEF r
    <2>1. \A w \in Nat, u \in Nat : q <= Room(w, SectorCap, u, r) <=> (q * r + u) * 10000 <= w * SectorCap
        BY <1>0, <1>1, HeadroomFits
    <2> QED BY <1>0, <2>1
<1>8. q <= n6 <=> (q * r + d.used.cluster) * 10000 <= d.worth * ClusterCap
    <2> HIDE DEF r
    <2>1. \A w \in Nat, u \in Nat : q <= Room(w, ClusterCap, u, r) <=> (q * r + u) * 10000 <= w * ClusterCap
        BY <1>0, <1>1, HeadroomFits
    <2> QED BY <1>0, <2>1
<1> HIDE DEF n1, n2, n3, n4, n5, n6
<1>9. (\A c \in {n1, n2, n3, n4, n5, n6, Liquidity} : q <= c)
         <=> (q <= n1 /\ q <= n2 /\ q <= n3 /\ q <= n4 /\ q <= n5 /\ q <= n6 /\ q <= Liquidity)
    OBVIOUS
<1>10. Allowed(d, q)
         <=> (q <= n1 /\ q <= n2 /\ q <= n3 /\ q <= n4 /\ q <= n5 /\ q <= n6 /\ q <= Liquidity)
    <2> HIDE DEF r
    <2>1. Allowed(d, q) <=>
              /\ q * r * 1000000 <= d.worth * d.base * d.tempo
              /\ q * r * 10000 <= d.worth * AbsoluteRisk
              /\ q * d.price <= d.cash
              /\ q * d.price * 10000 <= d.worth * PositionCap
              /\ (q * r + d.used.total) * 10000 <= d.worth * CombinedCap
              /\ (q * r + d.used.sector) * 10000 <= d.worth * SectorCap
              /\ (q * r + d.used.cluster) * 10000 <= d.worth * ClusterCap
              /\ q <= Liquidity
        BY SMT DEF Allowed, r
    <2> QED BY <1>3, <1>4, <1>5, <1>6, <1>7, <1>8, <2>1, SMT
<1> QED BY <1>2, <1>9, <1>10

\* A decision respects every budget, and one share more would break one.
LEMMA DecisionFits ==
    ASSUME NEW d, Decided(d)
    PROVE  Allowed(d, d.quantity) /\ ~Allowed(d, d.quantity + 1)
<1> DEFINE C == Constraints(d.worth, d.base, d.tempo, d.cash, d.price, d.price - d.stop, d.used)
<1>1. C \subseteq Int /\ d.quantity \in C /\ \A c \in C : d.quantity <= c
    BY QuantityIsLeast
<1>2. d.quantity \in Nat \ {0} /\ d.quantity + 1 \in Nat \ {0}
    BY <1>1 DEF Decided, Approvable
<1>3. Allowed(d, d.quantity) <=> \A c \in C : d.quantity <= c
    BY <1>2, AllowedWithinAll
<1>4. Allowed(d, d.quantity + 1) <=> \A c \in C : d.quantity + 1 <= c
    BY <1>2, AllowedWithinAll
<1>5. ~(d.quantity + 1 <= d.quantity)
    BY <1>2
<1> HIDE DEF C
<1> QED BY <1>1, <1>3, <1>4, <1>5
---------------------------------------------------------------------------
(* RiskSizing: the invariant.                                              *)

Entry == [phase : {"none", "reserved", "open"}, planned : Nat, ordered : Nat,
          filled : Nat, limit : Nat, stop : Nat]

\* What is reserved covers what can be lost; what is not there plans nothing.
BooksOK ==
    /\ book \in [Symbol -> Entry]
    /\ \A s \in Symbol :
          /\ book[s].phase = "none" => book[s].planned = 0 /\ book[s].ordered = 0
          /\ book[s].ordered * Positive(book[s].limit - book[s].stop) <= book[s].planned

PlansOK ==
    /\ DOMAIN plan = Clerk
    /\ \A p \in Clerk : plan[p] # NoPlan => Decided(plan[p])

\* The planned risks fit the budgets of the entry granted last.
GrantOK ==
    granted # NoPlan =>
        /\ granted.symbol \in Symbol /\ granted.worth \in Nat
        /\ SumFunctionOnSet(Planned, Symbol) * 10000 <= granted.worth * CombinedCap
        /\ SumFunctionOnSet(Planned, InSector(granted.symbol)) * 10000 <= granted.worth * SectorCap
        /\ SumFunctionOnSet(Planned, InCluster(granted.symbol)) * 10000 <= granted.worth * ClusterCap

SizingInv == BooksOK /\ PlansOK /\ GrantOK

\* The sets of symbols whose risks are added up.
LEMMA SymbolSets ==
    ASSUME NEW s \in Symbol
    PROVE  /\ IsFiniteSet(Symbol) /\ IsFiniteSet(InSector(s)) /\ IsFiniteSet(InCluster(s))
           /\ InSector(s) \subseteq Symbol /\ InCluster(s) \subseteq Symbol
           /\ s \in InSector(s) /\ s \in InCluster(s)
BY SizingAssumption, FS_Subset DEF InSector, InCluster

\* A budget never has a share less for a larger factor.
LEMMA TimesGrows ==
    ASSUME NEW n \in Nat, NEW x \in Int, NEW y \in Int, x <= y
    PROVE  n * x <= n * y
OBVIOUS

LEMMA SizeStep ==
    ASSUME SizingInv, NEW p \in Clerk, NEW s \in Symbol, NEW price \in Quote, NEW stop \in Stop,
           Size(p, s, price, stop)
    PROVE  PlansOK'
<1>1. PICK worth \in Worth, cash \in Cash, tempo \in Tempo, basis \in BaseRisk :
         LET used == [total   |-> SumFunctionOnSet(OpenRisk, Symbol),
                      sector  |-> SumFunctionOnSet(OpenRisk, InSector(s)),
                      cluster |-> SumFunctionOnSet(OpenRisk, InCluster(s))]
             q == Quantity(worth, basis, tempo, cash, price, price - stop, used)
         IN /\ Approvable(q, price - stop, worth)
            /\ plan' = [plan EXCEPT ![p] =
                          [symbol |-> s, price |-> price, stop |-> stop, worth |-> worth, quantity |-> q,
                           cash |-> cash, tempo |-> tempo, base |-> basis, used |-> used]]
    BY DEF Size
<1> DEFINE used == [total   |-> SumFunctionOnSet(OpenRisk, Symbol),
                    sector  |-> SumFunctionOnSet(OpenRisk, InSector(s)),
                    cluster |-> SumFunctionOnSet(OpenRisk, InCluster(s))]
           q == Quantity(worth, basis, tempo, cash, price, price - stop, used)
           d == [symbol |-> s, price |-> price, stop |-> stop, worth |-> worth, quantity |-> q,
                 cash |-> cash, tempo |-> tempo, base |-> basis, used |-> used]
<1>2. \A t \in Symbol : OpenRisk[t] \in Nat
    <2> TAKE t \in Symbol
    <2>1. book[t] \in Entry
        BY DEF SizingInv, BooksOK
    <2>2. book[t].filled \in Nat /\ book[t].planned \in Nat
          /\ Positive(book[t].limit - book[t].stop) \in Nat
        BY <2>1 DEF Entry, Positive
    <2>3. book[t].filled * Positive(book[t].limit - book[t].stop) \in Nat
        BY <2>2
    <2> QED BY <2>2, <2>3 DEF OpenRisk
<1>3. used.total \in Nat /\ used.sector \in Nat /\ used.cluster \in Nat
    BY <1>2, SymbolSets, SumNat
<1>4. stop < price /\ Approvable(q, price - stop, worth) /\ plan' = [plan EXCEPT ![p] = d]
    BY <1>1 DEF Size
<1>5. price \in Nat /\ stop \in Nat /\ worth \in Nat /\ cash \in Nat /\ tempo \in Nat /\ basis \in Nat
    BY SizingAssumption
<1>6. Decided(d)
    <2> HIDE DEF used
    <2>1. /\ d.symbol = s /\ d.price = price /\ d.stop = stop /\ d.worth = worth /\ d.cash = cash
          /\ d.tempo = tempo /\ d.base = basis /\ d.used = used /\ d.quantity = q
        OBVIOUS
    <2> HIDE DEF d, q
    <2>2. q = Quantity(worth, basis, tempo, cash, price, price - stop, used)
        BY DEF q
    <2> QED BY <1>3, <1>4, <1>5, <2>1, <2>2 DEF Decided
<1> HIDE DEF d
<1> QED BY <1>4, <1>6 DEF SizingInv, PlansOK

\* The second check makes the promise good for the entry it lets in.
LEMMA ReserveStep ==
    ASSUME SizingInv, NEW p \in Clerk, ReserveSized(p)
    PROVE  SizingInv'
<1> DEFINE d == plan[p]
           s == d.symbol
           risk == d.quantity * (d.price - d.stop)
<1>1. Decided(d) /\ s \in Symbol
    BY DEF ReserveSized, SizingInv, PlansOK, Decided
<1>2. PlansOK'
    BY DEF ReserveSized, SizingInv, PlansOK
<1>3. CASE UNCHANGED <<book, granted>>
    BY <1>2, <1>3 DEF SizingInv, BooksOK, GrantOK, Planned, SumFunctionOnSet, FoldFunctionOnSet,
       MapThenFoldSet
<1>4. CASE ~ UNCHANGED <<book, granted>>
    <2>1. /\ book[s].phase = "none" /\ Fits(d)
          /\ book' = [book EXCEPT ![s] =
                        [phase |-> "reserved", planned |-> risk, ordered |-> d.quantity,
                         filled |-> 0, limit |-> d.price, stop |-> d.stop]]
          /\ granted' = [symbol |-> s, worth |-> d.worth]
        BY <1>4 DEF ReserveSized
    <2>2. /\ d.quantity \in Nat /\ d.price \in Nat /\ d.stop \in Nat /\ d.stop < d.price
          /\ d.worth \in Nat
        <3>1. d.quantity \in Int /\ d.quantity >= 1
            BY <1>1, QuantityIsLeast DEF Decided, Approvable
        <3> QED BY <1>1, <3>1 DEF Decided
    <2>3. risk \in Nat /\ Positive(d.price - d.stop) = d.price - d.stop
        BY <2>2 DEF Positive
    <2>4. BooksOK'
        <3>1. book' \in [Symbol -> Entry]
            BY <1>1, <2>1, <2>2, <2>3 DEF SizingInv, BooksOK, Entry
        <3>2. ASSUME NEW t \in Symbol
              PROVE  /\ book'[t].phase = "none" => book'[t].planned = 0 /\ book'[t].ordered = 0
                     /\ book'[t].ordered * Positive(book'[t].limit - book'[t].stop) <= book'[t].planned
            BY <1>1, <2>1, <2>2, <2>3, <3>2 DEF SizingInv, BooksOK
        <3> QED BY <3>1, <3>2 DEF BooksOK
    <2>5. /\ Planned[s] = 0 /\ Planned'[s] = risk
          /\ \A t \in Symbol \ {s} : Planned'[t] = Planned[t]
          /\ \A t \in Symbol : Planned[t] \in Int /\ Planned'[t] \in Int
        BY <1>1, <2>1, <2>3, <2>4 DEF SizingInv, BooksOK, Entry, Planned
    <2>6. ASSUME NEW S \in SUBSET Symbol, s \in S
          PROVE  SumFunctionOnSet(Planned', S) = SumFunctionOnSet(Planned, S) + risk
        <3>1. IsFiniteSet(S)
            BY SizingAssumption, FS_Subset
        <3>2. SumFunctionOnSet(Planned', S) = SumFunctionOnSet(Planned, S) - Planned[s] + Planned'[s]
            BY <2>5, <2>6, <3>1, SumExcept
        <3>3. SumFunctionOnSet(Planned, S) \in Int
            BY <2>5, <3>1, SumInt
        <3> QED BY <2>3, <2>5, <3>2, <3>3
    <2>7. /\ SumFunctionOnSet(Planned', Symbol) * 10000 <= d.worth * CombinedCap
          /\ SumFunctionOnSet(Planned', InSector(s)) * 10000 <= d.worth * SectorCap
          /\ SumFunctionOnSet(Planned', InCluster(s)) * 10000 <= d.worth * ClusterCap
        <3>1. /\ (SumFunctionOnSet(Planned, Symbol) + risk) * 10000 <= d.worth * CombinedCap
              /\ (SumFunctionOnSet(Planned, InSector(s)) + risk) * 10000 <= d.worth * SectorCap
              /\ (SumFunctionOnSet(Planned, InCluster(s)) + risk) * 10000 <= d.worth * ClusterCap
            BY <2>1 DEF Fits
        <3>2. /\ SumFunctionOnSet(Planned', Symbol) = SumFunctionOnSet(Planned, Symbol) + risk
              /\ SumFunctionOnSet(Planned', InSector(s)) = SumFunctionOnSet(Planned, InSector(s)) + risk
              /\ SumFunctionOnSet(Planned', InCluster(s)) = SumFunctionOnSet(Planned, InCluster(s)) + risk
            BY <1>1, <2>6, SymbolSets
        <3> HIDE DEF risk, s
        <3> QED BY <3>1, <3>2
    <2>8. granted'.symbol = s /\ granted'.worth = d.worth
        BY <2>1
    <2>9. GrantOK'
        <3>1. /\ SumFunctionOnSet(Planned', Symbol) * 10000 <= granted'.worth * CombinedCap
              /\ SumFunctionOnSet(Planned', InSector(granted'.symbol)) * 10000
                    <= granted'.worth * SectorCap
              /\ SumFunctionOnSet(Planned', InCluster(granted'.symbol)) * 10000
                    <= granted'.worth * ClusterCap
            BY <2>7, <2>8
        <3> QED BY <1>1, <2>2, <2>8, <3>1
                DEF GrantOK, InSector, InCluster, SumFunctionOnSet, FoldFunctionOnSet, MapThenFoldSet
    <2> QED BY <1>2, <2>4, <2>9 DEF SizingInv
<1> QED BY <1>3, <1>4

\* A step that plans no new risk keeps the promise to the last entry.
LEMMA LessPlanned ==
    ASSUME SizingInv, BooksOK', granted' = granted, \A s \in Symbol : Planned'[s] <= Planned[s]
    PROVE  GrantOK'
<1>1. SUFFICES ASSUME granted # NoPlan
               PROVE  /\ SumFunctionOnSet(Planned', Symbol) * 10000 <= granted.worth * CombinedCap
                      /\ SumFunctionOnSet(Planned', InSector(granted.symbol)) * 10000
                            <= granted.worth * SectorCap
                      /\ SumFunctionOnSet(Planned', InCluster(granted.symbol)) * 10000
                            <= granted.worth * ClusterCap
    BY DEF SizingInv, GrantOK, InSector, InCluster, SumFunctionOnSet, FoldFunctionOnSet,
       MapThenFoldSet
<1>2. /\ granted.symbol \in Symbol /\ granted.worth \in Nat
      /\ SumFunctionOnSet(Planned, Symbol) * 10000 <= granted.worth * CombinedCap
      /\ SumFunctionOnSet(Planned, InSector(granted.symbol)) * 10000 <= granted.worth * SectorCap
      /\ SumFunctionOnSet(Planned, InCluster(granted.symbol)) * 10000 <= granted.worth * ClusterCap
    BY <1>1 DEF SizingInv, GrantOK
<1>3. \A s \in Symbol : Planned[s] \in Int /\ Planned'[s] \in Int
    BY DEF SizingInv, BooksOK, Entry, Planned
<1>4. ASSUME NEW S \in SUBSET Symbol
      PROVE  /\ SumFunctionOnSet(Planned', S) <= SumFunctionOnSet(Planned, S)
             /\ SumFunctionOnSet(Planned, S) \in Int /\ SumFunctionOnSet(Planned', S) \in Int
    <2>1. IsFiniteSet(S) /\ \A s \in S : Planned[s] \in Int /\ Planned'[s] \in Int
        BY <1>3, SizingAssumption, FS_Subset
    <2>2. \A s \in S : Planned'[s] <= Planned[s]
        OBVIOUS
    <2> QED BY <2>1, <2>2, SumLeq, SumInt
<1>5. \A a \in Int, b \in Int, c \in Int : a <= b /\ b * 10000 <= c => a * 10000 <= c
    OBVIOUS
<1>6. /\ granted.worth * CombinedCap \in Int /\ granted.worth * SectorCap \in Int
      /\ granted.worth * ClusterCap \in Int
    BY <1>2, SizingAssumption
<1>7. SumFunctionOnSet(Planned', Symbol) * 10000 <= granted.worth * CombinedCap
    BY <1>2, <1>4, <1>5, <1>6
<1>8. SumFunctionOnSet(Planned', InSector(granted.symbol)) * 10000 <= granted.worth * SectorCap
    BY <1>2, <1>4, <1>5, <1>6, SymbolSets
<1>9. SumFunctionOnSet(Planned', InCluster(granted.symbol)) * 10000 <= granted.worth * ClusterCap
    BY <1>2, <1>4, <1>5, <1>6, SymbolSets
<1> QED BY <1>7, <1>8, <1>9

LEMMA SizingStep == SizingInv /\ [SizingNext]_sizingVars => SizingInv'
<1> SUFFICES ASSUME SizingInv, [SizingNext]_sizingVars PROVE SizingInv'
    OBVIOUS
<1>0. book \in [Symbol -> Entry]
    BY DEF SizingInv, BooksOK
<1>1. ASSUME NEW p \in Clerk, NEW s \in Symbol, NEW price \in Quote, NEW stop \in Stop,
             Size(p, s, price, stop)
      PROVE  SizingInv'
    <2>1. UNCHANGED <<book, granted>>
        BY <1>1 DEF Size
    <2>2. BooksOK'
        BY <2>1 DEF SizingInv, BooksOK
    <2>3. GrantOK'
        BY <2>1 DEF SizingInv, GrantOK, Planned, InSector, InCluster, SumFunctionOnSet,
           FoldFunctionOnSet, MapThenFoldSet
    <2> QED BY <1>1, <2>2, <2>3, SizeStep DEF SizingInv
<1>2. ASSUME NEW p \in Clerk, ReserveSized(p) PROVE SizingInv'
    BY <1>2, ReserveStep
<1>3. ASSUME NEW s \in Symbol, Accept(s) \/ Leave(s) \/ FillSome(s) \/ Raise(s) PROVE SizingInv'
    <2>1. PlansOK' /\ granted' = granted
        BY <1>3 DEF Accept, Leave, FillSome, Raise, SizingInv, PlansOK
    <2>2. BooksOK' /\ \A t \in Symbol : Planned'[t] <= Planned[t]
        <3> USE DEF SizingInv, BooksOK, Planned, Entry
        <3>1. CASE Accept(s)
            BY <1>0, <3>1 DEF Accept
        <3>2. CASE Leave(s)
            <4>1. book' = [book EXCEPT ![s] = NoEntry] /\ Positive(0) = 0
                BY <3>2 DEF Leave, Positive
            <4> QED BY <1>0, <4>1 DEF NoEntry
        <3>3. CASE FillSome(s)
            <4>1. PICK n \in {1, book[s].ordered} : book' = [book EXCEPT ![s].filled = n]
                BY <3>3 DEF FillSome
            <4>2. n \in Nat /\ book[s].phase # "none"
                BY <1>0, <3>3 DEF FillSome
            <4> QED BY <1>0, <4>1, <4>2
        <3>4. CASE Raise(s)
            <4>1. PICK stop \in Stop : stop > book[s].stop /\ book' = [book EXCEPT ![s].stop = stop]
                BY <3>4 DEF Raise
            <4>2. stop \in Nat /\ book[s].phase = "open"
                BY <3>4, SizingAssumption DEF Raise
            <4>3. Positive(book[s].limit - stop) <= Positive(book[s].limit - book[s].stop)
                BY <1>0, <4>1, <4>2 DEF Positive
            <4>4. book[s].ordered * Positive(book[s].limit - stop) <= book[s].planned
                <5>1. /\ book[s].ordered \in Nat /\ book[s].planned \in Nat
                      /\ Positive(book[s].limit - stop) \in Int
                      /\ Positive(book[s].limit - book[s].stop) \in Int
                    BY <1>0, <4>2 DEF Positive
                <5>2. book[s].ordered * Positive(book[s].limit - stop)
                          <= book[s].ordered * Positive(book[s].limit - book[s].stop)
                    BY <4>3, <5>1, TimesGrows
                <5>3. book[s].ordered * Positive(book[s].limit - book[s].stop) <= book[s].planned
                    OBVIOUS
                <5>4. /\ book[s].ordered * Positive(book[s].limit - stop) \in Int
                      /\ book[s].ordered * Positive(book[s].limit - book[s].stop) \in Int
                    BY <5>1
                <5> QED BY <5>1, <5>2, <5>3, <5>4
            <4>5. book' \in [Symbol -> Entry]
                BY <1>0, <4>1, <4>2
            <4> QED BY <1>0, <4>1, <4>2, <4>4, <4>5
        <3> QED BY <1>3, <3>1, <3>2, <3>3, <3>4
    <2>3. GrantOK'
        BY <2>1, <2>2, LessPlanned
    <2> QED BY <2>1, <2>2, <2>3 DEF SizingInv
<1>4. CASE UNCHANGED sizingVars
    BY <1>4 DEF sizingVars, SizingInv, BooksOK, PlansOK, GrantOK, Planned, InSector, InCluster,
       SumFunctionOnSet, FoldFunctionOnSet, MapThenFoldSet
<1> QED BY <1>1, <1>2, <1>3, <1>4 DEF SizingNext

\* The invariant holds for any symbols, prices, equities and limits, and any
\* number of processes that submit.
THEOREM SizingInvariant == SizingSpec => []SizingInv
<1>1. SizingInit => SizingInv
    BY DEF SizingInit, SizingInv, BooksOK, PlansOK, GrantOK, Entry, NoEntry, Positive
<1> QED BY <1>1, SizingStep, PTL DEF SizingSpec

\* An approved quantity is the largest number of whole shares that respects
\* every budget of docs/RISK_MODEL.md, in the integer arithmetic of the code.
THEOREM SizedRight == SizingSpec => []SizedToTheBudget
<1>1. SizingInv => SizedToTheBudget
    BY DecisionFits DEF SizingInv, PlansOK, SizedToTheBudget
<1> QED BY <1>1, SizingInvariant, PTL

\* Whatever fills, dies or is tightened after an entry was granted, what all
\* entries can lose stays within the budgets it was granted under.
THEOREM StakeCovered == SizingSpec => []StakeWithinBudget
<1>1. SizingInv => StakeWithinBudget
    <2> SUFFICES ASSUME SizingInv, granted # NoPlan
                 PROVE  /\ SumFunctionOnSet(AtStake, Symbol) * 10000 <= granted.worth * CombinedCap
                        /\ SumFunctionOnSet(AtStake, InSector(granted.symbol)) * 10000
                              <= granted.worth * SectorCap
                        /\ SumFunctionOnSet(AtStake, InCluster(granted.symbol)) * 10000
                              <= granted.worth * ClusterCap
        BY DEF StakeWithinBudget
    <2>1. /\ granted.symbol \in Symbol /\ granted.worth \in Nat
          /\ SumFunctionOnSet(Planned, Symbol) * 10000 <= granted.worth * CombinedCap
          /\ SumFunctionOnSet(Planned, InSector(granted.symbol)) * 10000 <= granted.worth * SectorCap
          /\ SumFunctionOnSet(Planned, InCluster(granted.symbol)) * 10000 <= granted.worth * ClusterCap
        BY DEF SizingInv, GrantOK
    <2>2. \A s \in Symbol : AtStake[s] \in Int /\ Planned[s] \in Int /\ AtStake[s] <= Planned[s]
        <3> TAKE s \in Symbol
        <3>1. book[s] \in Entry /\ AtStake[s] <= Planned[s]
            BY DEF SizingInv, BooksOK, AtStake, Planned
        <3>2. book[s].ordered \in Int /\ Positive(book[s].limit - book[s].stop) \in Int
            BY <3>1 DEF Entry, Positive
        <3> QED BY <3>1, <3>2 DEF Entry, AtStake, Planned
    <2>3. ASSUME NEW S \in SUBSET Symbol
          PROVE  /\ SumFunctionOnSet(AtStake, S) <= SumFunctionOnSet(Planned, S)
                 /\ SumFunctionOnSet(Planned, S) \in Int /\ SumFunctionOnSet(AtStake, S) \in Int
        <3>1. IsFiniteSet(S)
            BY SizingAssumption, FS_Subset
        <3> QED BY <2>2, <3>1, SumLeq, SumInt
    <2>4. \A a \in Int, b \in Int, c \in Int : a <= b /\ b * 10000 <= c => a * 10000 <= c
        OBVIOUS
    <2>5. /\ granted.worth * CombinedCap \in Int /\ granted.worth * SectorCap \in Int
          /\ granted.worth * ClusterCap \in Int
        BY <2>1, SizingAssumption
    <2>6. SumFunctionOnSet(AtStake, Symbol) * 10000 <= granted.worth * CombinedCap
        BY <2>1, <2>3, <2>4, <2>5
    <2>7. SumFunctionOnSet(AtStake, InSector(granted.symbol)) * 10000 <= granted.worth * SectorCap
        BY <2>1, <2>3, <2>4, <2>5, SymbolSets
    <2>8. SumFunctionOnSet(AtStake, InCluster(granted.symbol)) * 10000 <= granted.worth * ClusterCap
        BY <2>1, <2>3, <2>4, <2>5, SymbolSets
    <2> QED BY <2>6, <2>7, <2>8
<1> QED BY <1>1, SizingInvariant, PTL
---------------------------------------------------------------------------
(* RiskSizing: the types.                                                  *)

\* What a row has is what was approved, and no more fills than was ordered.
BookTyped ==
    \A s \in Symbol :
        /\ book[s].filled <= book[s].ordered
        /\ book[s].phase # "none" => book[s].ordered >= 1
        /\ book[s].limit \in Quote \cup {0} /\ book[s].stop \in Stop \cup {0}

PlanTyped == \A p \in Clerk : plan[p] # NoPlan => plan[p].price \in Quote /\ plan[p].stop \in Stop

\* A decision is for one share at least.
LEMMA DecisionBuys ==
    ASSUME NEW d, Decided(d)
    PROVE  d.quantity \in Nat /\ d.quantity >= 1
BY QuantityIsLeast DEF Decided, Approvable

LEMMA TypedStep ==
    ASSUME SizingInv, BookTyped, PlanTyped, [SizingNext]_sizingVars
    PROVE  BookTyped' /\ PlanTyped'
<1>0. book \in [Symbol -> Entry] /\ DOMAIN plan = Clerk
    BY DEF SizingInv, BooksOK, PlansOK
<1>1. ASSUME NEW p \in Clerk, NEW s \in Symbol, NEW price \in Quote, NEW stop \in Stop,
             Size(p, s, price, stop)
      PROVE  BookTyped' /\ PlanTyped'
    <2>1. PICK d : plan' = [plan EXCEPT ![p] = d] /\ d.price = price /\ d.stop = stop
        <3>1. PICK worth \in Worth, cash \in Cash, tempo \in Tempo, basis \in BaseRisk :
                 LET used == [total   |-> SumFunctionOnSet(OpenRisk, Symbol),
                              sector  |-> SumFunctionOnSet(OpenRisk, InSector(s)),
                              cluster |-> SumFunctionOnSet(OpenRisk, InCluster(s))]
                     q == Quantity(worth, basis, tempo, cash, price, price - stop, used)
                 IN /\ Approvable(q, price - stop, worth)
                    /\ plan' = [plan EXCEPT ![p] =
                          [symbol |-> s, price |-> price, stop |-> stop, worth |-> worth,
                           quantity |-> q, cash |-> cash, tempo |-> tempo, base |-> basis,
                           used |-> used]]
            BY <1>1, Zenon DEF Size
        <3> DEFINE used == [total   |-> SumFunctionOnSet(OpenRisk, Symbol),
                            sector  |-> SumFunctionOnSet(OpenRisk, InSector(s)),
                            cluster |-> SumFunctionOnSet(OpenRisk, InCluster(s))]
                   q == Quantity(worth, basis, tempo, cash, price, price - stop, used)
                   d == [symbol |-> s, price |-> price, stop |-> stop, worth |-> worth,
                         quantity |-> q, cash |-> cash, tempo |-> tempo, base |-> basis,
                         used |-> used]
        <3>2. plan' = [plan EXCEPT ![p] = d]
            BY <3>1
        <3> HIDE DEF used, q
        <3>3. d.price = price /\ d.stop = stop
            OBVIOUS
        <3> HIDE DEF d
        <3> QED BY <3>2, <3>3
    <2>2. PlanTyped'
        BY <1>0, <2>1 DEF PlanTyped
    <2>3. UNCHANGED book
        BY <1>1 DEF Size
    <2> QED BY <2>2, <2>3 DEF BookTyped
<1>2. ASSUME NEW p \in Clerk, ReserveSized(p) PROVE BookTyped' /\ PlanTyped'
    <2>1. plan[p] # NoPlan /\ Decided(plan[p]) /\ plan' = [plan EXCEPT ![p] = NoPlan]
        BY <1>2 DEF ReserveSized, SizingInv, PlansOK
    <2>2. PlanTyped'
        BY <1>0, <2>1 DEF PlanTyped
    <2>3. /\ plan[p].quantity \in Nat /\ plan[p].quantity >= 1 /\ plan[p].symbol \in Symbol
          /\ plan[p].price \in Quote /\ plan[p].stop \in Stop
        BY <2>1, DecisionBuys DEF Decided, PlanTyped
    <2>4. CASE UNCHANGED book
        BY <2>2, <2>4 DEF BookTyped
    <2>5. CASE book' = [book EXCEPT ![plan[p].symbol] =
                  [phase |-> "reserved", planned |-> plan[p].quantity * (plan[p].price - plan[p].stop),
                   ordered |-> plan[p].quantity, filled |-> 0, limit |-> plan[p].price,
                   stop |-> plan[p].stop]]
        BY <1>0, <2>2, <2>3, <2>5 DEF BookTyped
    <2> QED BY <1>2, <2>4, <2>5 DEF ReserveSized
<1>3. ASSUME NEW s \in Symbol, Accept(s) \/ Leave(s) \/ FillSome(s) \/ Raise(s)
      PROVE  BookTyped' /\ PlanTyped'
    <2>1. PlanTyped'
        BY <1>3 DEF Accept, Leave, FillSome, Raise, PlanTyped
    <2>2. CASE Accept(s)
        BY <1>0, <2>1, <2>2 DEF Accept, BookTyped, Entry
    <2>3. CASE Leave(s)
        BY <1>0, <2>1, <2>3 DEF Leave, BookTyped, NoEntry
    <2>4. CASE FillSome(s)
        <3>1. PICK n \in {1, book[s].ordered} : book' = [book EXCEPT ![s].filled = n]
            BY <2>4 DEF FillSome
        <3>2. book[s].ordered \in Nat /\ book[s].ordered >= 1
            BY <1>0, <2>4 DEF FillSome, BookTyped, Entry
        <3> QED BY <1>0, <2>1, <3>1, <3>2 DEF BookTyped
    <2>5. CASE Raise(s)
        BY <1>0, <2>1, <2>5 DEF Raise, BookTyped, Entry
    <2> QED BY <1>3, <2>2, <2>3, <2>4, <2>5
<1>4. CASE UNCHANGED sizingVars
    BY <1>4 DEF sizingVars, BookTyped, PlanTyped
<1> QED BY <1>1, <1>2, <1>3, <1>4 DEF SizingNext

\* Every row and every decision in hand keeps its type, and no order fills with
\* more than was ordered.
THEOREM SizingTyped == SizingSpec => []SizingTypeOK
<1>1. SizingInit => BookTyped /\ PlanTyped
    BY DEF SizingInit, BookTyped, PlanTyped, NoEntry
<1>2. SizingInv /\ BookTyped /\ PlanTyped /\ [SizingNext]_sizingVars => BookTyped' /\ PlanTyped'
    BY TypedStep
<1>3. SizingInv /\ BookTyped /\ PlanTyped => SizingTypeOK
    <2> SUFFICES ASSUME SizingInv, BookTyped, PlanTyped PROVE SizingTypeOK
        OBVIOUS
    <2>1. book \in [Symbol -> [phase : {"none", "reserved", "open"}, planned : Nat, ordered : Nat,
                               filled : Nat, limit : Quote \cup {0}, stop : Stop \cup {0}]]
        BY DEF SizingInv, BooksOK, Entry, BookTyped
    <2>2. \A p \in Clerk : plan[p] # NoPlan => plan[p].symbol \in Symbol /\ plan[p].quantity >= 1
        BY DecisionBuys DEF SizingInv, PlansOK, Decided
    <2> QED BY <2>1, <2>2 DEF SizingTypeOK, BookTyped, SizingInv, PlansOK
<1> QED BY <1>1, <1>2, <1>3, SizingInvariant, PTL DEF SizingSpec
=============================================================================
