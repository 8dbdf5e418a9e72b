----------------------- MODULE EntryAdmissionProofs -----------------------
(***************************************************************************)
(* Proofs about EntryAdmission for every set of intents and processes and  *)
(* every quota: types, at most one order per intent, exposure is counted,  *)
(* no entry over an unknown outcome, and the implementation of EntryQuota. *)
(***************************************************************************)
EXTENDS EntryAdmission, SumTheorems

\* A process that returns or dies leaves its variables well typed.
LEMMA ReturnType ==
    ASSUME TypeOK, PlaceInv, NEW p \in Process, Return(p)
    PROVE  /\ pc' \in [Process -> Label]
           /\ job' \in [Process -> Jobs]
           /\ seen' \in [Process -> [Intent -> ViewState]]
           /\ todo' \in [Process -> SUBSET Intent]
           /\ cur' \in [Process -> Jobs]
           /\ dirty' \subseteq Process
           /\ fog' \in [Process -> SUBSET Intent]
           /\ PlaceInv'
<1>1. PlaceInv'
    BY DEF TypeOK, RowsOK, ProcessesOK, PlaceInv, Return, SubmitLabels, WaitLabels
<1> QED BY <1>1 DEF TypeOK, RowsOK, ProcessesOK, Return, Label, Jobs, NoView, ViewState

LEMMA ViewType == TypeOK => View \in [Intent -> ViewState]
BY DEF TypeOK, RowsOK, View, OrderState, ViewState

\* Every step keeps every variable in its type.  LinkRecovered and the steps
\* of a submission use the row the process stands at, hence PlaceInv.
LEMMA TypeStep == TypeOK /\ PlaceInv /\ [Next]_vars => TypeOK' /\ PlaceInv'
<1> SUFFICES ASSUME TypeOK, PlaceInv, [Next]_vars PROVE TypeOK' /\ PlaceInv'
    OBVIOUS
<1> USE DEF TypeOK, RowsOK, ProcessesOK, PlaceInv, AdmStatus, TradeStatus, OrderState, Label,
            Jobs, SubmitLabels, WaitLabels, Goto, Done, Note, envSame, dbVars
<1>1. ASSUME NEW p \in Process, NEW j \in Jobs, Start(p, j) PROVE TypeOK' /\ PlaceInv'
    BY <1>1, ViewType DEF Start, Reserved
<1>2. ASSUME NEW p \in Process, Reconcile(p) PROVE TypeOK' /\ PlaceInv'
    <2>1. CASE SnapshotFails(p) BY <2>1 DEF SnapshotFails
    <2>2. CASE ListAdmissions(p) BY <2>2 DEF ListAdmissions, Reserved
    <2>3. CASE LinkRecovered(p) BY <2>3 DEF LinkRecovered
    <2>4. CASE ListTrades(p) BY <2>4 DEF ListTrades, OpenTrades
    <2>5. CASE CloseAdmission(p) BY <2>5 DEF CloseAdmission
    <2>6. CASE FinishClean(p)
        <3>1. CASE Return(p) BY <2>6, <3>1, ReturnType DEF FinishClean
        <3>2. CASE job[p] # NoIntent
            <4>1. /\ UNCHANGED <<adm, linked, trade, halted, kill, order, sends, acking, crashes>>
                  /\ UNCHANGED <<job, todo, cur, dirty, fog>>
                  /\ lastClean' = TRUE
                  /\ seen' = [seen EXCEPT ![p] = NoView]
                  /\ pc' = [pc EXCEPT ![p] = "validate"]
                BY <2>6, <3>2 DEF FinishClean
            <4> QED BY <4>1, <3>2 DEF NoView, ViewState
        <3> QED BY <2>6, <3>1, <3>2 DEF FinishClean
    <2>7. CASE LatchMismatch(p) BY <2>7 DEF LatchMismatch
    <2>8. CASE RecordMismatch(p) BY <2>8, ReturnType DEF RecordMismatch
    <2>9. ASSUME NEW i \in Intent, Unmatched(p, i) PROVE TypeOK' /\ PlaceInv' BY <2>9 DEF Unmatched
    <2>10. ASSUME NEW i \in Intent, ReleaseDead(p, i) PROVE TypeOK' /\ PlaceInv' BY <2>10 DEF ReleaseDead
    <2>11. ASSUME NEW i \in Intent, Adopt(p, i) PROVE TypeOK' /\ PlaceInv' 
        <3>1. CASE trade[i] = "none"
            <4>1. /\ UNCHANGED <<adm, linked, halted, kill, lastClean, order, sends, acking, crashes>>
                  /\ UNCHANGED <<job, seen, dirty, fog>>
                  /\ trade' = [trade EXCEPT ![i] = "SUBMITTED"]
                  /\ todo' = [todo EXCEPT ![p] = todo[p] \ {i}]
                  /\ cur' = [cur EXCEPT ![p] = i]
                  /\ pc' = [pc EXCEPT ![p] = "link_recovered"]
                BY <2>11, <3>1 DEF Adopt
            <4> QED BY <4>1
        <3>2. CASE trade[i] # "none" BY <2>11, <3>2 DEF Adopt
        <3> QED BY <3>1, <3>2
    <2>12. ASSUME NEW i \in Intent, ReviewHeld(p, i) PROVE TypeOK' /\ PlaceInv' BY <2>12 DEF ReviewHeld
    <2>13. ASSUME NEW i \in Intent, ReviewWorking(p, i) PROVE TypeOK' /\ PlaceInv' BY <2>13 DEF ReviewWorking
    <2>14. ASSUME NEW i \in Intent, ReviewExited(p, i) PROVE TypeOK' /\ PlaceInv'
        <3>1. CASE trade[i] = "CLOSED" BY <2>14, <3>1, ReturnType DEF ReviewExited
        <3>2. CASE trade[i] # "CLOSED"
            <4>1. /\ UNCHANGED <<adm, linked, halted, kill, lastClean, order, sends, acking, crashes>>
                  /\ UNCHANGED <<job, seen, dirty, fog>>
                  /\ trade' = [trade EXCEPT ![i] = "CLOSED"]
                  /\ todo' = [todo EXCEPT ![p] = todo[p] \ {i}]
                  /\ cur' = [cur EXCEPT ![p] = i]
                  /\ pc' = [pc EXCEPT ![p] = "close"]
                BY <2>14, <3>2 DEF ReviewExited
            <4> QED BY <4>1
        <3> QED BY <3>1, <3>2
    <2>15. ASSUME NEW i \in Intent, ReviewDead(p, i) PROVE TypeOK' /\ PlaceInv' BY <2>15 DEF ReviewDead
    <2>16. ASSUME NEW i \in Intent, ReviewMissing(p, i) PROVE TypeOK' /\ PlaceInv' BY <2>16 DEF ReviewMissing
    <2> QED BY <1>2, <2>1, <2>2, <2>3, <2>4, <2>5, <2>6, <2>7, <2>8, <2>9, <2>10, <2>11,
               <2>12, <2>13, <2>14, <2>15, <2>16 DEF Reconcile
<1>3. ASSUME NEW p \in Process, Submit(p) PROVE TypeOK' /\ PlaceInv'
    <2>1. CASE Validate(p) BY <2>1, ViewType DEF Validate
    <2>2. CASE RejectEntry(p) BY <2>2, ReturnType DEF RejectEntry
    <2>3. CASE Reserve(p) BY <2>3 DEF Reserve, NoView, ViewState
    <2>4. CASE Send(p) BY <2>4 DEF Send
    <2>5. CASE Answer(p) BY <2>5 DEF Answer
    <2>6. CASE CallFails(p) BY <2>6 DEF CallFails
    <2>7. CASE RecordTerminal(p) BY <2>7, ReturnType DEF RecordTerminal
    <2>8. CASE AddTrade(p)
        <3>1. /\ job[p] \in Intent
              /\ UNCHANGED <<adm, linked, halted, kill, lastClean, order, sends, acking, crashes>>
              /\ UNCHANGED <<job, seen, todo, cur, dirty, fog>>
              /\ trade' \in {trade, [trade EXCEPT ![job[p]] = "SUBMITTED"],
                                [trade EXCEPT ![job[p]] = "OPEN"]}
            BY <2>8 DEF AddTrade
        <3>2. PICK l \in {"link", "mark"} : pc' = [pc EXCEPT ![p] = l]
            BY <2>8 DEF AddTrade
        <3>3. RowsOK'
            BY <3>1
        <3>4. ProcessesOK' /\ PlaceInv'
            BY <3>1, <3>2
        <3> QED BY <3>3, <3>4
    <2>9. CASE LinkTrade(p)
        <3>1. /\ job[p] \in Intent
              /\ UNCHANGED <<trade, halted, kill, lastClean, order, sends, acking, crashes>>
              /\ \/ UNCHANGED <<adm, linked>>
                 \/ /\ adm' = [adm EXCEPT ![job[p]] = "SUBMITTED"]
                    /\ linked' = linked \cup {job[p]}
            BY <2>9 DEF LinkTrade
        <3>2. RowsOK'
            BY <3>1
        <3>3. CASE Return(p)
            BY <3>2, <3>3, ReturnType
        <3>4. CASE ~Return(p)
            <4>1. UNCHANGED <<job, seen, todo, cur, dirty, fog>>
                BY <2>9, <3>4 DEF LinkTrade
            <4>2. PICK l \in {"mark", "latch"} : pc' = [pc EXCEPT ![p] = l]
                BY <2>9, <3>4 DEF LinkTrade
            <4> QED BY <3>1, <3>2, <4>1, <4>2
        <3> QED BY <3>3, <3>4
    <2>10. CASE MarkUnknown(p) BY <2>10 DEF MarkUnknown
    <2>11. CASE LatchUnknown(p) BY <2>11, ReturnType DEF LatchUnknown
    <2> QED BY <1>3, <2>1, <2>2, <2>3, <2>4, <2>5, <2>6, <2>7, <2>8, <2>9, <2>10, <2>11 DEF Submit
<1>4. ASSUME NEW p \in Process, Crash(p) PROVE TypeOK' /\ PlaceInv'
    BY <1>4, ReturnType, AdmissionAssumption DEF Crash
<1>5. ASSUME NEW i \in Intent, BrokerMoves(i) PROVE TypeOK' /\ PlaceInv'
    BY <1>5 DEF BrokerMoves, Moves, procVars
<1>6. CASE KillSwitch \/ AckRead \/ AckWrite
    BY <1>6 DEF KillSwitch, AckRead, AckWrite, procVars
<1>7. CASE UNCHANGED vars BY <1>7 DEF vars, procVars
<1> QED BY <1>1, <1>2, <1>3, <1>4, <1>5, <1>6, <1>7 DEF Next

---------------------------------------------------------------------------
(* The rows: admission, link, trade, order and the count of sends.         *)

rows == <<adm, linked, trade, order, sends>>

\* The steps of a process that write a row.
RowStep(p) ==
    \/ LinkRecovered(p) \/ CloseAdmission(p) \/ Reserve(p) \/ Send(p)
    \/ RecordTerminal(p) \/ AddTrade(p) \/ LinkTrade(p) \/ MarkUnknown(p)
    \/ \E i \in Intent :
          \/ ReleaseDead(p, i) \/ Adopt(p, i) \/ ReviewHeld(p, i)
          \/ ReviewWorking(p, i) \/ ReviewExited(p, i) \/ ReviewDead(p, i)

LEMMA RowSteps ==
    ASSUME [Next]_vars
    PROVE  \/ UNCHANGED rows
           \/ \E p \in Process : RowStep(p)
           \/ \E i \in Intent : BrokerMoves(i)
<1> USE DEF rows, dbVars, envSame
<1>1. ASSUME NEW p \in Process, Reconcile(p), ~RowStep(p) PROVE UNCHANGED rows
    BY <1>1 DEF Reconcile, RowStep, SnapshotFails, ListAdmissions, ListTrades, FinishClean,
       LatchMismatch, RecordMismatch, Unmatched, ReviewMissing
<1>2. ASSUME NEW p \in Process, Submit(p), ~RowStep(p) PROVE UNCHANGED rows
    BY <1>2 DEF Submit, RowStep, Validate, RejectEntry, Answer, CallFails, LatchUnknown
<1>3. ASSUME NEW p \in Process, (\E j \in Jobs : Start(p, j)) \/ Crash(p) PROVE UNCHANGED rows
    BY <1>3 DEF Start, Crash
<1>4. CASE KillSwitch \/ AckRead \/ AckWrite \/ UNCHANGED vars
    BY <1>4 DEF KillSwitch, AckRead, AckWrite, vars
<1> QED BY <1>1, <1>2, <1>3, <1>4 DEF Next

\* What happened to a row stays happened: no step takes an admission, a trade
\* or an order back, and an order only moves on.
Grows ==
    \A i \in Intent :
        /\ adm[i] # "none" => adm'[i] # "none"
        /\ trade[i] # "none" => trade'[i] # "none"
        /\ order[i] # "none" => order'[i] # "none"
        /\ order[i] \in {"exited", "dead"} => order'[i] = order[i]
        /\ order[i] = "filled" => order'[i] \in {"filled", "exited"}
        /\ order[i] = "working" => order'[i] \in {"working", "filled", "exited", "dead"}

LEMMA RowsGrow == TypeOK /\ IInv /\ [Next]_vars => Grows
<1> SUFFICES ASSUME TypeOK, IInv, [Next]_vars PROVE Grows
    OBVIOUS
<1> USE DEF TypeOK, RowsOK, Grows, envSame
<1>1. CASE UNCHANGED rows
    BY <1>1 DEF rows
<1>2. ASSUME NEW p \in Process, RowStep(p) PROVE Grows
    <2>1. CASE LinkRecovered(p) BY <2>1 DEF LinkRecovered
    <2>2. CASE CloseAdmission(p) BY <2>2 DEF CloseAdmission
    <2>3. CASE Reserve(p) BY <2>3 DEF Reserve, NeverAdmitted
    <2>4. CASE Send(p) BY <2>4 DEF Send, IInv, ProcessInv, StandsOK, dbVars
    <2>5. CASE RecordTerminal(p) BY <2>5 DEF RecordTerminal
    <2>6. CASE AddTrade(p) BY <2>6 DEF AddTrade
    <2>7. CASE LinkTrade(p) BY <2>7 DEF LinkTrade
    <2>8. CASE MarkUnknown(p) BY <2>8 DEF MarkUnknown
    <2>9. ASSUME NEW i \in Intent, ReleaseDead(p, i) PROVE Grows BY <2>9 DEF ReleaseDead
    <2>10. ASSUME NEW i \in Intent, Adopt(p, i) PROVE Grows BY <2>10 DEF Adopt
    <2>11. ASSUME NEW i \in Intent, ReviewHeld(p, i) PROVE Grows BY <2>11 DEF ReviewHeld
    <2>12. ASSUME NEW i \in Intent, ReviewWorking(p, i) PROVE Grows BY <2>12 DEF ReviewWorking
    <2>13. ASSUME NEW i \in Intent, ReviewExited(p, i) PROVE Grows BY <2>13 DEF ReviewExited
    <2>14. ASSUME NEW i \in Intent, ReviewDead(p, i) PROVE Grows BY <2>14 DEF ReviewDead
    <2> QED BY <1>2, <2>1, <2>2, <2>3, <2>4, <2>5, <2>6, <2>7, <2>8, <2>9, <2>10, <2>11,
               <2>12, <2>13, <2>14 DEF RowStep
<1>3. ASSUME NEW i \in Intent, BrokerMoves(i) PROVE Grows
    BY <1>3 DEF BrokerMoves, Moves, dbVars
<1> QED BY <1>1, <1>2, <1>3, RowSteps

\* The row invariants survive every step that writes a row.
LEMMA RowInvStep == TypeOK /\ IInv /\ [Next]_vars => RowInv'
<1> SUFFICES ASSUME TypeOK, IInv, [Next]_vars PROVE RowInv'
    OBVIOUS
<1> USE DEF TypeOK, RowsOK, RowInv, AdmittedFirst, SendsInv, TradeInv, TrackInv, LinkedInv,
            Unlinked, envSame
<1>1. CASE UNCHANGED rows
    BY <1>1 DEF rows, IInv
<1>2. ASSUME NEW p \in Process, RowStep(p) PROVE RowInv'
    <2> USE DEF IInv, PlaceInv, ProcessInv, SeenOK, StandsOK, SubmitLabels, WaitLabels
    <2>1. CASE LinkRecovered(p) BY <2>1 DEF LinkRecovered
    <2>2. CASE CloseAdmission(p) BY <2>2 DEF CloseAdmission
    <2>3. CASE Reserve(p) BY <2>3 DEF Reserve, NeverAdmitted
    <2>4. CASE Send(p) BY <2>4 DEF Send, dbVars
    <2>5. CASE RecordTerminal(p) BY <2>5 DEF RecordTerminal
    <2>6. CASE AddTrade(p) BY <2>6 DEF AddTrade
    <2>7. CASE LinkTrade(p) BY <2>7 DEF LinkTrade
    <2>8. CASE MarkUnknown(p) BY <2>8 DEF MarkUnknown
    <2>9. ASSUME NEW i \in Intent, ReleaseDead(p, i) PROVE RowInv' BY <2>9 DEF ReleaseDead
    <2>10. ASSUME NEW i \in Intent, Adopt(p, i) PROVE RowInv' BY <2>10 DEF Adopt
    <2>11. ASSUME NEW i \in Intent, ReviewHeld(p, i) PROVE RowInv' BY <2>11 DEF ReviewHeld
    <2>12. ASSUME NEW i \in Intent, ReviewWorking(p, i) PROVE RowInv' BY <2>12 DEF ReviewWorking
    <2>13. ASSUME NEW i \in Intent, ReviewExited(p, i) PROVE RowInv' BY <2>13 DEF ReviewExited
    <2>14. ASSUME NEW i \in Intent, ReviewDead(p, i) PROVE RowInv' BY <2>14 DEF ReviewDead
    <2> QED BY <1>2, <2>1, <2>2, <2>3, <2>4, <2>5, <2>6, <2>7, <2>8, <2>9, <2>10, <2>11,
               <2>12, <2>13, <2>14 DEF RowStep
<1>3. ASSUME NEW i \in Intent, BrokerMoves(i) PROVE RowInv'
    BY <1>3 DEF BrokerMoves, Moves, dbVars, IInv
<1> QED BY <1>1, <1>2, <1>3, RowSteps

---------------------------------------------------------------------------
(* The processes: a step moves one of them, the others only see rows grow. *)

\* Nothing of the process itself changes.
Same(q) ==
    /\ pc'[q] = pc[q] /\ job'[q] = job[q] /\ seen'[q] = seen[q]
    /\ todo'[q] = todo[q] /\ cur'[q] = cur[q] /\ fog'[q] = fog[q]
    /\ q \in dirty' <=> q \in dirty

OnlyMoves(p) == \A q \in Process \ {p} : Same(q)

\* A step of p leaves every other process where it is.
LEMMA OneProcessMoves ==
    ASSUME TypeOK, NEW p \in Process,
           (\E j \in Jobs : Start(p, j)) \/ Reconcile(p) \/ Submit(p) \/ Crash(p)
    PROVE  OnlyMoves(p)
<1> USE DEF TypeOK, ProcessesOK, OnlyMoves, Same, Goto, Done, Note
<1>0. Return(p) => OnlyMoves(p)
    BY DEF Return
<1>1. CASE \E j \in Jobs : Start(p, j) BY <1>1 DEF Start
<1>2. CASE Reconcile(p)
    <2>1. CASE SnapshotFails(p) BY <2>1 DEF SnapshotFails
    <2>2. CASE ListAdmissions(p) BY <2>2 DEF ListAdmissions
    <2>3. CASE LinkRecovered(p) BY <2>3 DEF LinkRecovered
    <2>4. CASE ListTrades(p) BY <2>4 DEF ListTrades
    <2>5. CASE CloseAdmission(p) BY <2>5 DEF CloseAdmission
    <2>6. CASE FinishClean(p) BY <1>0, <2>6 DEF FinishClean
    <2>7. CASE LatchMismatch(p) BY <2>7 DEF LatchMismatch
    <2>8. CASE RecordMismatch(p) BY <1>0, <2>8 DEF RecordMismatch
    <2>9. ASSUME NEW i \in Intent, Unmatched(p, i) PROVE OnlyMoves(p) BY <2>9 DEF Unmatched
    <2>10. ASSUME NEW i \in Intent, ReleaseDead(p, i) PROVE OnlyMoves(p) BY <2>10 DEF ReleaseDead
    <2>11. ASSUME NEW i \in Intent, Adopt(p, i) PROVE OnlyMoves(p) BY <2>11 DEF Adopt
    <2>12. ASSUME NEW i \in Intent, ReviewHeld(p, i) PROVE OnlyMoves(p) BY <2>12 DEF ReviewHeld
    <2>13. ASSUME NEW i \in Intent, ReviewWorking(p, i) PROVE OnlyMoves(p) BY <2>13 DEF ReviewWorking
    <2>14. ASSUME NEW i \in Intent, ReviewExited(p, i) PROVE OnlyMoves(p) BY <1>0, <2>14 DEF ReviewExited
    <2>15. ASSUME NEW i \in Intent, ReviewDead(p, i) PROVE OnlyMoves(p) BY <2>15 DEF ReviewDead
    <2>16. ASSUME NEW i \in Intent, ReviewMissing(p, i) PROVE OnlyMoves(p) BY <2>16 DEF ReviewMissing
    <2> QED BY <1>2, <2>1, <2>2, <2>3, <2>4, <2>5, <2>6, <2>7, <2>8,
               <2>9, <2>10, <2>11, <2>12, <2>13, <2>14, <2>15, <2>16 DEF Reconcile
<1>3. CASE Submit(p)
    <2>1. CASE Validate(p) BY <2>1 DEF Validate
    <2>2. CASE RejectEntry(p) BY <1>0, <2>2 DEF RejectEntry
    <2>3. CASE Reserve(p) BY <2>3 DEF Reserve, NeverAdmitted
    <2>4. CASE Send(p) BY <2>4 DEF Send
    <2>5. CASE Answer(p) BY <2>5 DEF Answer
    <2>6. CASE CallFails(p) BY <2>6 DEF CallFails
    <2>7. CASE RecordTerminal(p) BY <1>0, <2>7 DEF RecordTerminal
    <2>8. CASE AddTrade(p) BY <2>8 DEF AddTrade
    <2>9. CASE LinkTrade(p) BY <1>0, <2>9 DEF LinkTrade
    <2>10. CASE MarkUnknown(p) BY <2>10 DEF MarkUnknown
    <2>11. CASE LatchUnknown(p) BY <1>0, <2>11 DEF LatchUnknown
    <2> QED BY <1>3, <2>1, <2>2, <2>3, <2>4, <2>5, <2>6, <2>7, <2>8, <2>9, <2>10, <2>11 DEF Submit
<1>4. CASE Crash(p) BY <1>0, <1>4 DEF Crash
<1> QED BY <1>1, <1>2, <1>3, <1>4

\* The invariant of one process.
ProcOK(q) == SeenOK(q) /\ StandsOK(q) /\ FogOK(q)

\* An order about to be sent by a process that does not move stays unsent.
LEMMA UnsentStays ==
    ASSUME TypeOK, IInv, [Next]_vars, NEW q \in Process, Same(q), pc[q] = "send"
    PROVE  order'[job[q]] = "none"
<1> USE DEF TypeOK, RowsOK, ProcessesOK, envSame
<1>0. job[q] \in Intent /\ order[job[q]] = "none"
    BY DEF IInv, PlaceInv, ProcessInv, StandsOK, SubmitLabels
<1>1. CASE UNCHANGED rows
    BY <1>0, <1>1 DEF rows
<1>2. ASSUME NEW p \in Process, RowStep(p) PROVE order'[job[q]] = "none"
    <2>1. CASE Send(p)
        <3>1. p # q
            BY <2>1 DEF Send, Same, Goto
        <3>2. job[p] # job[q] /\ job[p] \in Intent
            BY <2>1, <3>1 DEF Send, IInv, OneSender, PlaceInv, SubmitLabels
        <3> QED BY <1>0, <2>1, <3>2 DEF Send
    <2>2. CASE ~Send(p)
        BY <1>0, <1>2, <2>2 DEF RowStep, LinkRecovered, CloseAdmission, Reserve, RecordTerminal,
           AddTrade, LinkTrade, MarkUnknown, ReleaseDead, Adopt, ReviewHeld, ReviewWorking,
           ReviewExited, ReviewDead
    <2> QED BY <2>1, <2>2
<1>3. ASSUME NEW i \in Intent, BrokerMoves(i) PROVE order'[job[q]] = "none"
    BY <1>0, <1>3 DEF BrokerMoves, Moves
<1> QED BY <1>1, <1>2, <1>3, RowSteps

\* The others keep their invariant while rows grow.
LEMMA Bystander ==
    ASSUME TypeOK, IInv, [Next]_vars, NEW q \in Process, Same(q)
    PROVE  ProcOK(q)'
<1>1. Grows
    BY RowsGrow
<1>2. ProcOK(q)
    BY DEF IInv, ProcessInv, ProcOK
<1>3. pc[q] = "send" => order'[job[q]] = "none"
    BY UnsentStays
<1>4. pc[q] \in SubmitLabels => job[q] \in Intent
    BY DEF IInv, PlaceInv
<1>5. pc[q] \in {"link_recovered", "close"} => cur[q] \in Intent
    BY DEF IInv, PlaceInv
<1>6. todo[q] \subseteq Intent /\ fog[q] \subseteq Intent
    BY DEF TypeOK, ProcessesOK
<1>7. SeenOK(q)'
    BY <1>1, <1>2 DEF ProcOK, SeenOK, Grows, Same
<1>8. StandsOK(q)'
    BY <1>1, <1>2, <1>3, <1>4, <1>5, <1>6
       DEF ProcOK, StandsOK, Grows, Same, SubmitLabels, WaitLabels
<1>9. FogOK(q)'
    BY <1>1, <1>2, <1>6 DEF ProcOK, FogOK, Settled, Grows, Same
<1> QED BY <1>7, <1>8, <1>9 DEF ProcOK

\* A process that returns relies on nothing.
LEMMA ReturnOK ==
    ASSUME TypeOK, NEW p \in Process, Return(p)
    PROVE  ProcOK(p)'
BY DEF TypeOK, ProcessesOK, Return, NoView, ProcOK, SeenOK, StandsOK, FogOK, WaitLabels

\* The process that takes a step keeps its own invariant.
LEMMA ActorStep ==
    ASSUME TypeOK, IInv, [Next]_vars, NEW p \in Process,
           (\E j \in Jobs : Start(p, j)) \/ Reconcile(p) \/ Submit(p) \/ Crash(p)
    PROVE  ProcOK(p)'
<1>0. /\ Grows
      /\ ProcOK(p)
      /\ AdmittedFirst /\ TrackInv /\ LinkedInv
      /\ pc[p] \in SubmitLabels => job[p] \in Intent
      /\ pc[p] \in {"link_recovered", "close"} => cur[p] \in Intent
    BY RowsGrow DEF IInv, RowInv, PlaceInv, ProcessInv, ProcOK
<1> USE DEF TypeOK, RowsOK, ProcessesOK, ProcOK, SeenOK, StandsOK, FogOK, Settled, Grows,
            SubmitLabels, WaitLabels, Goto, Done, Note, envSame, dbVars
<1>1. CASE \E j \in Jobs : Start(p, j)
    BY <1>0, <1>1 DEF Start, View, Reserved, Unlinked
<1>2. CASE Reconcile(p)
    <2>1. CASE SnapshotFails(p)
        BY <1>0, <2>1 DEF SnapshotFails
    <2>2. CASE ListAdmissions(p)
        BY <1>0, <2>2 DEF ListAdmissions, Reserved, TrackInv, Unlinked
    <2>3. CASE LinkRecovered(p)
        BY <1>0, <2>3 DEF LinkRecovered
    <2>4. CASE ListTrades(p)
        BY <1>0, <2>4 DEF ListTrades, OpenTrades, OpenTrade, AdmittedFirst
    <2>5. CASE CloseAdmission(p)
        BY <1>0, <2>5 DEF CloseAdmission
    <2>6. CASE FinishClean(p)
        BY <1>0, <2>6, ReturnOK DEF FinishClean, NoView
    <2>7. CASE LatchMismatch(p)
        BY <1>0, <2>7 DEF LatchMismatch
    <2>8. CASE RecordMismatch(p)
        BY <1>0, <2>8, ReturnOK DEF RecordMismatch
    <2>9. ASSUME NEW i \in Intent, Unmatched(p, i) PROVE ProcOK(p)'
        BY <1>0, <2>9 DEF Unmatched
    <2>10. ASSUME NEW i \in Intent, ReleaseDead(p, i) PROVE ProcOK(p)'
        BY <1>0, <2>10 DEF ReleaseDead
    <2>11. ASSUME NEW i \in Intent, Adopt(p, i) PROVE ProcOK(p)'
        BY <1>0, <2>11 DEF Adopt
    <2>12. ASSUME NEW i \in Intent, ReviewHeld(p, i) PROVE ProcOK(p)'
        BY <1>0, <2>12 DEF ReviewHeld
    <2>13. ASSUME NEW i \in Intent, ReviewWorking(p, i) PROVE ProcOK(p)'
        BY <1>0, <2>13 DEF ReviewWorking
    <2>14. ASSUME NEW i \in Intent, ReviewExited(p, i) PROVE ProcOK(p)'
        BY <1>0, <2>14, ReturnOK DEF ReviewExited
    <2>15. ASSUME NEW i \in Intent, ReviewDead(p, i) PROVE ProcOK(p)'
        BY <1>0, <2>15 DEF ReviewDead
    <2>16. ASSUME NEW i \in Intent, ReviewMissing(p, i) PROVE ProcOK(p)'
        BY <1>0, <2>16 DEF ReviewMissing
    <2> QED BY <1>2, <2>1, <2>2, <2>3, <2>4, <2>5, <2>6, <2>7, <2>8,
               <2>9, <2>10, <2>11, <2>12, <2>13, <2>14, <2>15, <2>16 DEF Reconcile
<1>3. CASE Submit(p)
    <2>1. CASE Validate(p) BY <1>0, <2>1 DEF Validate, View
    <2>2. CASE RejectEntry(p) BY <1>0, ReturnOK, <2>2 DEF RejectEntry
    <2>3. CASE Reserve(p) BY <1>0, <2>3 DEF Reserve, NeverAdmitted, NoView, AdmittedFirst
    <2>4. CASE Send(p) BY <1>0, <2>4 DEF Send, dbVars
    <2>5. CASE Answer(p) BY <1>0, <2>5 DEF Answer
    <2>6. CASE CallFails(p) BY <1>0, <2>6 DEF CallFails
    <2>7. CASE RecordTerminal(p) BY <1>0, ReturnOK, <2>7 DEF RecordTerminal
    <2>8. CASE AddTrade(p) BY <1>0, <2>8 DEF AddTrade
    <2>9. CASE LinkTrade(p) BY <1>0, ReturnOK, <2>9 DEF LinkTrade
    <2>10. CASE MarkUnknown(p) BY <1>0, <2>10 DEF MarkUnknown
    <2>11. CASE LatchUnknown(p) BY <1>0, ReturnOK, <2>11 DEF LatchUnknown
    <2> QED BY <1>3, <2>1, <2>2, <2>3, <2>4, <2>5, <2>6, <2>7, <2>8, <2>9, <2>10, <2>11 DEF Submit
<1>4. CASE Crash(p) BY <1>4, ReturnOK DEF Crash
<1> QED BY <1>1, <1>2, <1>3, <1>4

\* Every step keeps the invariant of every process.
LEMMA ProcessStep == TypeOK /\ IInv /\ [Next]_vars => ProcessInv'
<1> SUFFICES ASSUME TypeOK, IInv, [Next]_vars, NEW q \in Process PROVE ProcOK(q)'
    BY DEF ProcessInv, ProcOK
<1>1. ASSUME NEW p \in Process,
             (\E j \in Jobs : Start(p, j)) \/ Reconcile(p) \/ Submit(p) \/ Crash(p)
      PROVE  ProcOK(q)'
    <2>1. CASE p = q
        BY <1>1, <2>1, ActorStep
    <2>2. CASE p # q
        BY <1>1, <2>2, OneProcessMoves, Bystander DEF OnlyMoves
    <2> QED BY <2>1, <2>2
<1>2. CASE UNCHANGED procVars
    BY <1>2, Bystander DEF procVars, Same
<1> QED BY <1>1, <1>2 DEF Next, BrokerMoves, KillSwitch, AckRead, AckWrite, vars

\* A process comes to the point of sending only through Reserve.
LEMMA SendOnlyByReserve ==
    ASSUME TypeOK, NEW p \in Process, ~Reserve(p),
           (\E j \in Jobs : Start(p, j)) \/ Reconcile(p) \/ Submit(p) \/ Crash(p)
    PROVE  pc'[p] # "send"
<1> USE DEF TypeOK, ProcessesOK, Goto
<1>0. Return(p) => pc'[p] # "send"
    BY DEF Return
<1>1. CASE (\E j \in Jobs : Start(p, j)) \/ Crash(p)
    BY <1>0, <1>1 DEF Start, Crash
<1>2. CASE Reconcile(p)
    BY <1>0, <1>2 DEF Reconcile, SnapshotFails, ListAdmissions, LinkRecovered, ListTrades,
       CloseAdmission, FinishClean, LatchMismatch, RecordMismatch, Unmatched, ReleaseDead, Adopt,
       ReviewHeld, ReviewWorking, ReviewExited, ReviewDead, ReviewMissing
<1>3. CASE Submit(p)
    BY <1>0, <1>3 DEF Submit, Validate, RejectEntry, Send, Answer, CallFails, RecordTerminal,
       AddTrade, LinkTrade, MarkUnknown, LatchUnknown
<1> QED BY <1>1, <1>2, <1>3

\* Reserve refuses an intent that another process is about to send.
LEMMA OneSenderStep == TypeOK /\ IInv /\ [Next]_vars => OneSender'
<1> SUFFICES ASSUME TypeOK, IInv, [Next]_vars PROVE OneSender'
    OBVIOUS
<1>0. /\ OneSender
      /\ \A q \in Process : pc[q] = "send" => adm[job[q]] # "none"
    BY DEF IInv, ProcessInv, StandsOK
<1>1. ASSUME NEW p \in Process,
             (\E j \in Jobs : Start(p, j)) \/ Reconcile(p) \/ Submit(p) \/ Crash(p)
      PROVE  OneSender'
    <2>1. OnlyMoves(p)
        BY <1>1, OneProcessMoves
    <2>2. CASE Reserve(p)
        <3>1. adm[job[p]] = "none" /\ job'[p] = job[p]
            BY <2>2 DEF Reserve, NeverAdmitted
        <3> QED BY <1>0, <2>1, <3>1 DEF OneSender, OnlyMoves, Same
    <2>3. CASE ~Reserve(p)
        <3>1. pc'[p] # "send"
            BY <1>1, <2>3, SendOnlyByReserve
        <3> QED BY <1>0, <2>1, <3>1 DEF OneSender, OnlyMoves, Same
    <2> QED BY <2>2, <2>3
<1>2. CASE UNCHANGED procVars
    BY <1>0, <1>2 DEF procVars, OneSender
<1> QED BY <1>1, <1>2 DEF Next, BrokerMoves, KillSwitch, AckRead, AckWrite, vars

---------------------------------------------------------------------------
(* The quotas.                                                             *)

\* What EntryQuota calls held and taken, in the words of EntryAdmission.
Taken == {i \in Intent : adm[i] # "none" /\ order[i] # "dead"}

LEMMA QuotaSets == Quota!Held = Exposed /\ Quota!Taken = Taken
BY DEF Quota!Held, Quota!Taken, Phases, Exposed, Taken

\* The instance counts as this module does.
LEMMA SameCardinality == \A S : Quota!Cardinality(S) = Cardinality(S)
BY DEF Quota!Cardinality, Cardinality

LEMMA QuotaSetsNext == (Quota!Held)' = Exposed' /\ (Quota!Taken)' = Taken'
BY DEF Quota!Held, Quota!Taken, Phases, Exposed, Taken

\* An intent that holds or uses up a place is a reservation or a trade.
LEMMA Covered ==
    ASSUME TypeOK, IInv
    PROVE  /\ Exposed \subseteq OpenTrades \cup Reserved
           /\ Taken \subseteq Counting \cup Reserved
BY DEF TypeOK, RowsOK, IInv, RowInv, TradeInv, TrackInv, Exposed, Taken, OpenTrades, OpenTrade,
       Reserved, Counting, TradeStatus, OrderState

LEMMA SubsetCard ==
    ASSUME NEW S \in SUBSET Intent
    PROVE  IsFiniteSet(S) /\ Cardinality(S) \in Nat
BY AdmissionAssumption, FS_Subset, FS_CardinalityType

\* A set within the union of two has at most as many elements as both.
LEMMA UnionBound ==
    ASSUME NEW R \in SUBSET Intent, NEW S \in SUBSET Intent, NEW T \in SUBSET Intent,
           R \subseteq S \cup T
    PROVE  Cardinality(R) <= Cardinality(S) + Cardinality(T)
<1>1. Cardinality(R) <= Cardinality(S \cup T)
    BY SubsetCard, FS_Subset
<1>2. Cardinality(S \cup T) = Cardinality(S) + Cardinality(T) - Cardinality(S \cap T)
    BY SubsetCard, FS_Union
<1> QED BY <1>1, <1>2, SubsetCard

\* Reserve finds the quotas not used up.
LEMMA RoomAtReserve ==
    ASSUME TypeOK, IInv, NEW p \in Process, HasRoom(p, job[p])
    PROVE  /\ Cardinality(Exposed) < PositionCap
           /\ Cardinality(Taken \cap Today) < DayCap
           /\ Cardinality(Taken) < WeekCap
<1>0. /\ Exposed \in SUBSET Intent /\ Taken \in SUBSET Intent
      /\ Counting \in SUBSET Intent /\ Reserved \in SUBSET Intent
      /\ OpenTrades \in SUBSET Intent /\ Positions(p) \in SUBSET Intent
    BY DEF Exposed, Taken, Counting, Reserved, OpenTrades, Positions
<1>1. Cardinality(Exposed) <= Cardinality(Positions(p) \cup OpenTrades \cup Reserved)
    BY <1>0, Covered, SubsetCard, FS_Subset
<1>2. Cardinality(Taken) <= Cardinality(Counting) + Cardinality(Reserved)
    BY <1>0, Covered, UnionBound
<1>3. Cardinality(Taken \cap Today) <=
          Cardinality(Counting \cap Today) + Cardinality(Reserved \cap Today)
    <2>1. Taken \cap Today \subseteq (Counting \cap Today) \cup (Reserved \cap Today)
        BY Covered
    <2> QED BY <1>0, <2>1, UnionBound
<1>4. /\ Cardinality(Positions(p) \cup OpenTrades \cup Reserved) < PositionCap
      /\ Cardinality(Counting \cap Today) + Cardinality(Reserved \cap Today) < DayCap
      /\ Cardinality(Counting) + Cardinality(Reserved) < WeekCap
    BY DEF HasRoom
<1>5. /\ Cardinality(Exposed) \in Nat /\ Cardinality(Taken) \in Nat
      /\ Cardinality(Taken \cap Today) \in Nat /\ Cardinality(Counting) \in Nat
      /\ Cardinality(Reserved) \in Nat /\ Cardinality(Counting \cap Today) \in Nat
      /\ Cardinality(Reserved \cap Today) \in Nat
      /\ Cardinality(Positions(p) \cup OpenTrades \cup Reserved) \in Nat
    BY <1>0, SubsetCard
<1>6. DayCap \in Nat /\ WeekCap \in Nat /\ PositionCap \in Nat
    BY AdmissionAssumption
<1> QED BY <1>1, <1>2, <1>3, <1>4, <1>5, <1>6

\* One more element adds at most one.
LEMMA AddBound ==
    ASSUME NEW S \in SUBSET Intent, NEW T \in SUBSET Intent, NEW x \in Intent,
           T \subseteq S \cup {x}, NEW N \in Nat, Cardinality(S) < N
    PROVE  Cardinality(T) <= N
<1>1. Cardinality(S \cup {x}) <= Cardinality(S) + 1
    BY SubsetCard, FS_AddElement
<1>2. Cardinality(T) <= Cardinality(S \cup {x})
    BY SubsetCard, FS_Subset
<1> QED BY <1>1, <1>2, SubsetCard

\* Only Reserve creates an admission.
LEMMA AdmittedByReserve ==
    ASSUME TypeOK, IInv, [Next]_vars, \A p \in Process : ~Reserve(p), NEW i \in Intent
    PROVE  adm'[i] = "none" <=> adm[i] = "none"
<1> USE DEF TypeOK, RowsOK, ProcessesOK
<1>0. /\ adm[i] # "none" => adm'[i] # "none"
      /\ adm[i] = "none" => order[i] = "none" /\ trade[i] = "none"
    BY RowsGrow DEF Grows, IInv, RowInv, AdmittedFirst
<1>1. CASE UNCHANGED rows
    BY <1>1 DEF rows
<1>2. ASSUME NEW p \in Process, RowStep(p) PROVE adm[i] = "none" => adm'[i] = "none"
    <2>0. /\ pc[p] \in WaitLabels => job[p] \in Intent /\ adm[job[p]] # "none"
          /\ pc[p] \in {"link_recovered", "close"} => cur[p] \in Intent /\ adm[cur[p]] # "none"
          /\ \A k \in todo[p] : adm[k] # "none"
        BY DEF IInv, RowInv, AdmittedFirst, PlaceInv, ProcessInv, StandsOK, SubmitLabels
    <2>1. CASE LinkRecovered(p) BY <2>0, <2>1 DEF LinkRecovered
    <2>2. CASE CloseAdmission(p) BY <2>0, <2>2 DEF CloseAdmission
    <2>3. CASE RecordTerminal(p) BY <2>0, <2>3 DEF RecordTerminal, WaitLabels
    <2>4. CASE LinkTrade(p) BY <2>0, <2>4 DEF LinkTrade, WaitLabels
    <2>5. CASE MarkUnknown(p) BY <2>0, <2>5 DEF MarkUnknown, WaitLabels
    <2>6. ASSUME NEW k \in Intent, ReleaseDead(p, k) PROVE adm[i] = "none" => adm'[i] = "none"
        BY <2>0, <2>6 DEF ReleaseDead
    <2>7. CASE UNCHANGED adm BY <2>7
    <2> QED BY <1>2, <2>1, <2>2, <2>3, <2>4, <2>5, <2>6, <2>7 DEF RowStep, Send, dbVars, AddTrade,
               Adopt, ReviewHeld, ReviewWorking, ReviewExited, ReviewDead
<1>3. ASSUME NEW k \in Intent, BrokerMoves(k) PROVE adm' = adm
    BY <1>3 DEF BrokerMoves, dbVars
<1> QED BY <1>0, <1>1, <1>2, <1>3, RowSteps

\* Only Send and the broker move an order.
LEMMA OrdersMove ==
    ASSUME [Next]_vars, \A p \in Process : ~Send(p), \A i \in Intent : ~BrokerMoves(i)
    PROVE  order' = order
<1>1. CASE UNCHANGED rows
    BY <1>1 DEF rows
<1>2. ASSUME NEW p \in Process, RowStep(p) PROVE order' = order
    BY <1>2 DEF RowStep, envSame, LinkRecovered, CloseAdmission, Reserve, RecordTerminal, AddTrade,
       LinkTrade, MarkUnknown, ReleaseDead, Adopt, ReviewHeld, ReviewWorking, ReviewExited,
       ReviewDead
<1> QED BY <1>1, <1>2, RowSteps

\* Reserve admits an intent in the sense of EntryQuota.
LEMMA ReserveAdmits ==
    ASSUME TypeOK, IInv, NEW p \in Process, Reserve(p)
    PROVE  QuotaInv' /\ Quota!Admit(job[p]) /\ job[p] \in Intent
<1> DEFINE j == job[p]
<1>1. /\ j \in Intent /\ adm[j] = "none" /\ order[j] = "none"
      /\ adm' = [adm EXCEPT ![j] = "PENDING"] /\ order' = order
    BY DEF Reserve, NeverAdmitted, envSame, IInv, PlaceInv, SubmitLabels, RowInv, AdmittedFirst
<1>2. /\ Cardinality(Exposed) < PositionCap
      /\ Cardinality(Taken \cap Today) < DayCap
      /\ Cardinality(Taken) < WeekCap
    BY RoomAtReserve DEF Reserve
<1>3. /\ Exposed' \subseteq Exposed \cup {j}
      /\ Taken' \subseteq Taken \cup {j}
      /\ (Taken \cap Today)' \subseteq (Taken \cap Today) \cup {j}
    BY <1>1 DEF TypeOK, RowsOK, Exposed, Taken, Today
<1>4. /\ Cardinality(Exposed') <= PositionCap
      /\ Cardinality((Taken \cap Today)') <= DayCap
      /\ Cardinality(Taken') <= WeekCap
    <2>1. /\ Exposed \in SUBSET Intent /\ Exposed' \in SUBSET Intent
          /\ Taken \in SUBSET Intent /\ Taken' \in SUBSET Intent
          /\ Taken \cap Today \in SUBSET Intent /\ (Taken \cap Today)' \in SUBSET Intent
        BY DEF Exposed, Taken, Today
    <2>2. DayCap \in Nat /\ WeekCap \in Nat /\ PositionCap \in Nat
        BY AdmissionAssumption
    <2>3. Cardinality(Exposed') <= PositionCap
        BY <1>1, <1>2, <1>3, <2>1, <2>2, AddBound
    <2>4. Cardinality((Taken \cap Today)') <= DayCap
        BY <1>1, <1>2, <1>3, <2>1, <2>2, AddBound
    <2>5. Cardinality(Taken') <= WeekCap
        BY <1>1, <1>2, <1>3, <2>1, <2>2, AddBound
    <2> QED BY <2>3, <2>4, <2>5
<1>5. QuotaInv'
    BY <1>4, SameCardinality, QuotaSetsNext DEF QuotaInv, Quota!WithinQuota, Quota!Today, Today
<1>6. Phases[j] = "new" /\ Phases' = [Phases EXCEPT ![j] = "open"]
    BY <1>1 DEF TypeOK, RowsOK, Phases
<1>7. Quota!Admit(j)
    BY <1>2, <1>6, QuotaSets, SameCardinality DEF Quota!Admit, Quota!Today, Today
<1> QED BY <1>1, <1>5, <1>7

\* A step that does not admit keeps the phases or lets one entry end.
LEMMA OtherSteps ==
    ASSUME TypeOK, IInv, [Next]_vars, \A p \in Process : ~Reserve(p)
    PROVE  /\ Exposed' \subseteq Exposed /\ Taken' \subseteq Taken
           /\ \/ Phases' = Phases
              \/ \E i \in Intent : Quota!Finish(i) \/ Quota!Void(i)
<1>1. \A i \in Intent : adm'[i] = "none" <=> adm[i] = "none"
    BY AdmittedByReserve
<1>2. ASSUME NEW p \in Process, Send(p)
      PROVE  Exposed' \subseteq Exposed /\ Taken' \subseteq Taken /\ Phases' = Phases
    <2>1. /\ job[p] \in Intent /\ order[job[p]] = "none"
          /\ order' = [order EXCEPT ![job[p]] = "sent"]
        BY <1>2 DEF Send, IInv, PlaceInv, SubmitLabels, ProcessInv, StandsOK
    <2> QED BY <1>1, <2>1 DEF TypeOK, RowsOK, Exposed, Taken, Phases
<1>3. ASSUME NEW i \in Intent, BrokerMoves(i)
      PROVE  /\ Exposed' \subseteq Exposed /\ Taken' \subseteq Taken
             /\ Phases' = Phases \/ Quota!Finish(i) \/ Quota!Void(i)
    <2>1. PICK m \in Moves : order[i] = m[1] /\ order' = [order EXCEPT ![i] = m[2]]
        BY <1>3 DEF BrokerMoves
    <2>2. adm[i] # "none"
        BY <2>1 DEF IInv, RowInv, AdmittedFirst, Moves
    <2>3. Exposed' \subseteq Exposed /\ Taken' \subseteq Taken
        BY <1>1, <2>1 DEF TypeOK, RowsOK, Exposed, Taken, Moves
    <2>4. CASE m[2] = "exited"
        <3>1. order[i] = "filled" /\ order' = [order EXCEPT ![i] = "exited"]
            BY <2>1, <2>4 DEF Moves
        <3>2. Phases[i] = "open" /\ Phases'[i] = "done"
            BY <1>1, <2>2, <3>1 DEF TypeOK, RowsOK, Phases
        <3>3. \A k \in Intent \ {i} : Phases'[k] = Phases[k]
            BY <1>1, <3>1 DEF TypeOK, RowsOK, Phases
        <3>4. Phases' = [Phases EXCEPT ![i] = "done"]
            BY <3>2, <3>3 DEF Phases
        <3> QED BY <2>3, <3>2, <3>4 DEF Quota!Finish
    <2>5. CASE m[2] = "dead"
        <3>1. order[i] \in {"sent", "working"} /\ order' = [order EXCEPT ![i] = "dead"]
            BY <2>1, <2>5 DEF Moves
        <3>2. Phases[i] = "open" /\ Phases'[i] = "void"
            BY <1>1, <2>2, <3>1 DEF TypeOK, RowsOK, Phases
        <3>3. \A k \in Intent \ {i} : Phases'[k] = Phases[k]
            BY <1>1, <3>1 DEF TypeOK, RowsOK, Phases
        <3>4. Phases' = [Phases EXCEPT ![i] = "void"]
            BY <3>2, <3>3 DEF Phases
        <3> QED BY <2>3, <3>2, <3>4 DEF Quota!Void
    <2>6. CASE m[2] \notin {"exited", "dead"}
        <3>1. Phases' = Phases
            BY <1>1, <2>1, <2>2, <2>6 DEF TypeOK, RowsOK, Phases, Moves
        <3> QED BY <2>3, <3>1
    <2> QED BY <2>4, <2>5, <2>6
<1>4. CASE order' = order
    BY <1>1, <1>4 DEF Exposed, Taken, Phases
<1> QED BY <1>2, <1>3, <1>4, OrdersMove

\* Each step is a step of EntryQuota or changes nothing it sees, and the
\* quotas stay respected.
LEMMA QuotaStep == TypeOK /\ IInv /\ [Next]_vars => QuotaInv' /\ [Quota!Next]_Phases
<1> SUFFICES ASSUME TypeOK, IInv, [Next]_vars PROVE QuotaInv' /\ [Quota!Next]_Phases
    OBVIOUS
<1>1. ASSUME NEW p \in Process, Reserve(p) PROVE QuotaInv' /\ Quota!Next
    BY <1>1, ReserveAdmits DEF Quota!Next
<1>2. CASE \A p \in Process : ~Reserve(p)
    <2>1. /\ Exposed' \subseteq Exposed /\ Taken' \subseteq Taken
          /\ Phases' = Phases \/ Quota!Next
        BY <1>2, OtherSteps DEF Quota!Next
    <2>2. /\ Exposed \in SUBSET Intent /\ Taken \in SUBSET Intent
          /\ Taken \cap Today \in SUBSET Intent
          /\ (Taken \cap Today)' \subseteq Taken \cap Today
        BY <2>1 DEF Exposed, Taken, Today
    <2>3. /\ Cardinality(Exposed') <= Cardinality(Exposed)
          /\ Cardinality(Taken') <= Cardinality(Taken)
          /\ Cardinality((Taken \cap Today)') <= Cardinality(Taken \cap Today)
        BY <2>1, <2>2, SubsetCard, FS_Subset
    <2>4. /\ Cardinality(Exposed) \in Nat /\ Cardinality(Exposed') \in Nat
          /\ Cardinality(Taken) \in Nat /\ Cardinality(Taken') \in Nat
          /\ Cardinality(Taken \cap Today) \in Nat /\ Cardinality((Taken \cap Today)') \in Nat
        BY <2>1, <2>2, SubsetCard
    <2>5. /\ Cardinality(Exposed) <= PositionCap /\ Cardinality(Taken) <= WeekCap
          /\ Cardinality(Taken \cap Today) <= DayCap
        BY QuotaSets, SameCardinality DEF IInv, QuotaInv, Quota!WithinQuota, Quota!Today, Today
    <2>6. DayCap \in Nat /\ WeekCap \in Nat /\ PositionCap \in Nat
        BY AdmissionAssumption
    <2>7. QuotaInv'
        BY <2>3, <2>4, <2>5, <2>6, QuotaSetsNext, SameCardinality
           DEF QuotaInv, Quota!WithinQuota, Quota!Today, Today
    <2> QED BY <2>1, <2>7
<1> QED BY <1>1, <1>2

---------------------------------------------------------------------------
(* The risk books.                                                         *)

LEMMA RiskTyped ==
    ASSUME NEW S \in SUBSET Intent
    PROVE  IsFiniteSet(S) /\ RiskOf(S) \in Nat
<1>1. IsFiniteSet(S) /\ \A i \in S : Risk[i] \in Nat
    BY SubsetCard, AdmissionAssumption
<1> QED BY <1>1, SumNat DEF RiskOf

\* Fewer entries put less at stake.
LEMMA RiskShrinks ==
    ASSUME NEW S \in SUBSET Intent, NEW T \in SUBSET S
    PROVE  RiskOf(T) <= RiskOf(S)
<1>1. IsFiniteSet(S) /\ \A i \in S : Risk[i] \in Nat
    BY SubsetCard, AdmissionAssumption
<1> QED BY <1>1, SumSubset DEF RiskOf

\* What two sets cover puts no more at stake than both.
LEMMA RiskCover ==
    ASSUME NEW S \in SUBSET Intent, NEW T \in SUBSET Intent, NEW U \in SUBSET (S \cup T)
    PROVE  RiskOf(U) <= RiskOf(S) + RiskOf(T)
<1>1. IsFiniteSet(S) /\ IsFiniteSet(T) /\ \A i \in S \cup T : Risk[i] \in Nat
    BY SubsetCard, AdmissionAssumption
<1> QED BY <1>1, SumCover DEF RiskOf

LEMMA RiskOfOne ==
    ASSUME NEW i \in Intent
    PROVE  RiskOf({i}) = Risk[i]
<1>1. IsFiniteSet({i}) /\ \A k \in {i} : Risk[k] \in Int
    BY SubsetCard, AdmissionAssumption
<1>2. SumFunctionOnSet(Risk, {i}) = Risk[i] + SumFunctionOnSet(Risk, {i} \ {i})
    BY <1>1, SumSplit
<1>3. {i} \ {i} = {}
    OBVIOUS
<1>4. SumFunctionOnSet(Risk, {i} \ {i}) = 0
    BY <1>3, SumEmpty
<1> QED BY <1>1, <1>2, <1>4 DEF RiskOf

\* The room that Reserve has found is there for what is really exposed, since
\* that is covered by the trades and the reservations it has added up.
LEMMA ReserveFits ==
    ASSUME TypeOK, IInv, NEW p \in Process, Reserve(p), NEW b \in Book
    PROVE  \/ RiskOf(Exposed' \cap b) <= RiskOf(Exposed \cap b)
           \/ RiskOf(Exposed' \cap b) <= Budget[b]
<1> DEFINE j == job[p]
<1>1. /\ j \in Intent /\ adm[j] = "none"
      /\ adm' = [adm EXCEPT ![j] = "PENDING"] /\ order' = order
    BY DEF Reserve, NeverAdmitted, envSame, IInv, PlaceInv, SubmitLabels
<1>2. Exposed' \subseteq Exposed \cup {j}
    BY <1>1 DEF TypeOK, RowsOK, Exposed
<1>3. /\ Exposed \in SUBSET Intent /\ Exposed' \in SUBSET Intent
      /\ OpenTrades \in SUBSET Intent /\ Reserved \in SUBSET Intent
    BY DEF Exposed, OpenTrades, Reserved
<1>4. CASE j \notin b
    <2>1. Exposed' \cap b \in SUBSET (Exposed \cap b)
        BY <1>2, <1>4
    <2> QED BY <1>3, <2>1, RiskShrinks
<1>5. CASE j \in b
    <2>1. RiskOf(OpenTrades \cap b) + RiskOf(Reserved \cap b) + Risk[j] <= Budget[b]
        BY <1>5 DEF Reserve, HasRoom, RiskFits
    <2>2. Exposed \cap b \in SUBSET ((OpenTrades \cap b) \cup (Reserved \cap b))
        BY Covered
    <2>3. RiskOf(Exposed \cap b) <= RiskOf(OpenTrades \cap b) + RiskOf(Reserved \cap b)
        BY <1>3, <2>2, RiskCover
    <2>4. Exposed' \cap b \in SUBSET ((Exposed \cap b) \cup {j})
        BY <1>2
    <2>5. RiskOf(Exposed' \cap b) <= RiskOf(Exposed \cap b) + Risk[j]
        BY <1>1, <1>3, <2>4, RiskCover, RiskOfOne
    <2>6. /\ RiskOf(Exposed \cap b) \in Nat /\ RiskOf(Exposed' \cap b) \in Nat
          /\ RiskOf(OpenTrades \cap b) \in Nat /\ RiskOf(Reserved \cap b) \in Nat
          /\ Risk[j] \in Nat /\ Budget[b] \in Nat
        BY <1>1, <1>3, RiskTyped, AdmissionAssumption
    <2> QED BY <2>1, <2>3, <2>5, <2>6
<1> QED BY <1>4, <1>5

\* No step takes a risk book beyond its budget.
LEMMA RiskStep ==
    ASSUME TypeOK, IInv, [Next]_vars, NEW b \in Book
    PROVE  \/ RiskOf(Exposed' \cap b) <= RiskOf(Exposed \cap b)
           \/ RiskOf(Exposed' \cap b) <= Budget[b]
<1>1. CASE \E p \in Process : Reserve(p)
    BY <1>1, ReserveFits
<1>2. CASE \A p \in Process : ~Reserve(p)
    <2>1. Exposed' \cap b \in SUBSET (Exposed \cap b) /\ Exposed \cap b \in SUBSET Intent
        BY <1>2, OtherSteps DEF Exposed
    <2> QED BY <2>1, RiskShrinks
<1> QED BY <1>1, <1>2

LEMMA RiskTypes ==
    ASSUME NEW b \in Book
    PROVE  /\ RiskOf(Exposed \cap b) \in Nat /\ RiskOf(Exposed' \cap b) \in Nat
           /\ Budget[b] \in Nat
<1>1. Exposed \cap b \in SUBSET Intent /\ Exposed' \cap b \in SUBSET Intent
    BY DEF Exposed
<1> QED BY <1>1, RiskTyped, AdmissionAssumption

---------------------------------------------------------------------------
(* The invariant and what follows from it.                                 *)

LEMMA InitTypes == Init => TypeOK /\ PlaceInv
<1> SUFFICES ASSUME Init PROVE TypeOK /\ PlaceInv
    OBVIOUS
<1>1. sends \in [Intent -> Nat] /\ crashes \in 0..MaxCrash
    BY AdmissionAssumption DEF Init
<1>2. linked \subseteq Intent
    BY AdmissionAssumption DEF Init
<1>3. PlaceInv
    BY DEF Init, PlaceInv, SubmitLabels, WaitLabels
<1> QED BY <1>1, <1>2, <1>3 DEF Init, TypeOK, RowsOK, ProcessesOK, AdmStatus, TradeStatus,
           OrderState, Label, Jobs, NoView, ViewState

\* In the morning only carried entries exist, and they respect the quotas.
LEMMA InitInv == Init => IInv
<1> SUFFICES ASSUME Init PROVE IInv
    OBVIOUS
<1>1. RowInv
    BY AdmissionAssumption DEF Init, RowInv, AdmittedFirst, SendsInv, TradeInv, TrackInv, LinkedInv,
       Unlinked, TrackedAtStart, LeftOverAtStart, Today
<1>2. ProcessInv /\ OneSender
    BY DEF Init, ProcessInv, SeenOK, StandsOK, FogOK, OneSender, NoView, WaitLabels
<1>3. QuotaInv
    <2>1. Exposed \subseteq Carried /\ Taken \subseteq Carried /\ Taken \cap Today = {}
        BY DEF Init, Exposed, Taken, Today
    <2>2. Carried \in SUBSET Intent /\ Exposed \in SUBSET Intent /\ Taken \in SUBSET Intent
        BY AdmissionAssumption DEF Exposed, Taken
    <2>3. Cardinality(Exposed) <= Cardinality(Carried) /\ Cardinality(Taken) <= Cardinality(Carried)
        BY <2>1, <2>2, SubsetCard, FS_Subset
    <2>4. /\ Cardinality(Exposed) \in Nat /\ Cardinality(Taken) \in Nat
          /\ Cardinality(Carried) \in Nat /\ Cardinality(Taken \cap Today) = 0
        BY <2>1, <2>2, SubsetCard, FS_EmptySet
    <2>5. /\ Cardinality(Exposed) <= PositionCap /\ Cardinality(Taken) <= WeekCap
          /\ Cardinality(Taken \cap Today) <= DayCap
        BY <2>1, <2>3, <2>4, AdmissionAssumption
    <2> QED BY <2>5, QuotaSets, SameCardinality
            DEF QuotaInv, Quota!WithinQuota, Quota!Today, Today
<1> QED BY <1>1, <1>2, <1>3, InitTypes DEF IInv

\* Types and the inductive invariant hold in every reachable state, for all
\* sets of intents and processes, all quotas and any number of crashes.
THEOREM Invariance == Spec => [](TypeOK /\ IInv)
<1>1. TypeOK /\ IInv /\ [Next]_vars => (TypeOK /\ IInv)'
    <2> SUFFICES ASSUME TypeOK, IInv, [Next]_vars PROVE TypeOK' /\ IInv'
        OBVIOUS
    <2>1. TypeOK' /\ PlaceInv'
        BY TypeStep DEF IInv
    <2>2. RowInv' /\ ProcessInv' /\ OneSender' /\ QuotaInv'
        BY RowInvStep, ProcessStep, OneSenderStep, QuotaStep
    <2> QED BY <2>1, <2>2 DEF IInv
<1> QED BY <1>1, InitTypes, InitInv, PTL DEF Spec

\* All variables of submit, reconcile, the database rows and the broker stay in
\* their types.
THEOREM TypeCorrect == Spec => []TypeOK
BY Invariance, PTL

\* However many processes submit the same intent, retry it or reconcile, and
\* wherever they die, place_order is called at most once for it.
THEOREM IdempotentSend == Spec => []SentAtMostOnce
<1>1. TypeOK /\ IInv => SentAtMostOnce
    BY DEF IInv, RowInv, SendsInv, SentAtMostOnce
<1> QED BY <1>1, Invariance, PTL

\* The database keeps every entry that may hold money in its books.
THEOREM Accounting == Spec => []ExposureIsCounted
<1>1. TypeOK /\ IInv => ExposureIsCounted
    BY DEF TypeOK, RowsOK, IInv, RowInv, TradeInv, TrackInv, ExposureIsCounted, Exposed, OpenTrade,
       Counting, TradeStatus, OrderState
<1> QED BY <1>1, Invariance, PTL

\* No entry goes to the broker over an outcome its reconciliation left unknown.
THEOREM NoBlindEntry == Spec => []NoEntryOverUnknownOutcome
<1>1. IInv => NoEntryOverUnknownOutcome
    BY DEF IInv, ProcessInv, FogOK, Settled, NoEntryOverUnknownOutcome
<1> QED BY <1>1, Invariance, PTL

\* submit and reconcile implement the abstract quota specification.
THEOREM ImplementsQuota == Spec => QuotaSpec
<1>1. Init => Quota!Init
    <2> SUFFICES ASSUME Init PROVE Quota!Init
        OBVIOUS
    <2>1. Phases \in [Intent -> Quota!Phase]
        BY DEF Phases, Quota!Phase
    <2>2. \A i \in Quota!Today : Phases[i] = "new"
        BY DEF Init, Quota!Today, Today, Phases
    <2> QED BY <2>1, <2>2, InitInv DEF Quota!Init, IInv, QuotaInv
<1>2. TypeOK /\ IInv /\ [Next]_vars => [Quota!Next]_Phases
    BY QuotaStep
<1> QED BY <1>1, <1>2, Invariance, PTL DEF Spec, QuotaSpec, Quota!Spec

\* Racing submissions, reconcilers and crashes never take the planned risk of a
\* risk book (account, sector, cluster) further beyond its budget.
THEOREM RiskGrowth == Spec => RiskGrowsWithinBudget
<1>1. TypeOK /\ IInv /\ [Next]_vars
         => [\A b \in Book :
                LET before == RiskOf(Exposed \cap b)
                    after  == RiskOf(Exposed' \cap b)
                IN after > before => after <= Budget[b]]_vars
    BY RiskStep, RiskTypes
<1> QED BY <1>1, Invariance, PTL DEF Spec, RiskGrowsWithinBudget

\* When what earlier days carry fits the budgets, the planned risk of all that
\* may hold money at the broker does, in every book and at every step.
THEOREM RiskBudgets ==
    ASSUME \A b \in Book : RiskOf(Carried \cap b) <= Budget[b]
    PROVE  Spec => []RiskWithinBudget
<1>1. Init => RiskWithinBudget
    <2> SUFFICES ASSUME Init, NEW b \in Book PROVE RiskOf(Exposed \cap b) <= Budget[b]
        BY DEF RiskWithinBudget
    <2>1. Exposed \cap b \in SUBSET (Carried \cap b) /\ Carried \cap b \in SUBSET Intent
        BY AdmissionAssumption DEF Init, Exposed, Today
    <2>2. RiskOf(Exposed \cap b) <= RiskOf(Carried \cap b)
        BY <2>1, RiskShrinks
    <2>3. RiskOf(Carried \cap b) \in Nat
        BY <2>1, RiskTyped
    <2>4. RiskOf(Carried \cap b) <= Budget[b]
        OBVIOUS
    <2>5. RiskOf(Exposed \cap b) \in Nat /\ Budget[b] \in Nat
        BY RiskTypes
    <2> QED BY <2>2, <2>3, <2>4, <2>5
<1>2. TypeOK /\ IInv /\ RiskWithinBudget /\ [Next]_vars => RiskWithinBudget'
    <2> SUFFICES ASSUME TypeOK, IInv, RiskWithinBudget, [Next]_vars, NEW b \in Book
                 PROVE  RiskOf(Exposed' \cap b) <= Budget[b]
        BY DEF RiskWithinBudget, RiskOf, SumFunctionOnSet, FoldFunctionOnSet,
           MapThenFoldSet
    <2>1. RiskOf(Exposed \cap b) <= Budget[b]
        BY DEF RiskWithinBudget
    <2> QED BY <2>1, RiskStep, RiskTypes
<1> QED BY <1>1, <1>2, Invariance, PTL DEF Spec

\* However many processes race over the entries of two days, and wherever they
\* die: the exposure stays counted, the budgets hold, and no entry is sent over
\* an unknown outcome, if what earlier days carry fits the budgets.
THEOREM SafeEntries ==
    ASSUME \A b \in Book : RiskOf(Carried \cap b) <= Budget[b]
    PROVE  Spec => []EntriesAreSafe
<1>1. ExposureIsCounted /\ RiskWithinBudget /\ NoEntryOverUnknownOutcome => EntriesAreSafe
    BY DEF EntriesAreSafe
<1> QED BY <1>1, Accounting, RiskBudgets, NoBlindEntry, PTL
===========================================================================
