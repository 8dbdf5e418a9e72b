-------------------------- MODULE EntryAdmission --------------------------
(***************************************************************************)
(* How an entry order gets to the broker and how the database learns what  *)
(* became of it: SwingExecutionService.submit, BrokerReconciler.reconcile, *)
(* the rows of entry_admissions and trades they share, the reconciliation  *)
(* halt and the kill switch, and the broker they call.                     *)
(*                                                                         *)
(* Several command-line processes run at once on one SQLite file (README:  *)
(* the scheduled agents are independent sandboxes).  A process is one call *)
(* of submit, which starts with a reconciliation, or of reconcile alone.   *)
(* Each database transaction and each broker call is a step of its own;    *)
(* a process may die between any two of them.                              *)
(*                                                                         *)
(* Simplifications.  Every intent has a ticker of its own (validate_entry  *)
(* and the admission of one entry a day keep two entries apart).  A        *)
(* partial fill counts as a fill; CANCELED stands for CANCELED and         *)
(* REJECTED, "dead" for every broker status that ends an unfilled order.   *)
(* The trading day, the equity and so the budgets stay fixed.  Lifecycle,  *)
(* postmortem and fills are the subject of PositionBook.                   *)
(***************************************************************************)
EXTENDS Integers, FiniteSets, Functions

CONSTANTS Intent, Carried, DayCap, WeekCap, PositionCap,
          Process,       \* command-line processes that may run at once
          Book,          \* risk books: the whole account, a sector, a cluster
          Risk,          \* planned_dollar_risk of an intent
          Budget,        \* the equity share a risk book may lose
          MaxCrash,      \* bound: how many processes die during a behaviour
          Operator,      \* bound: the operator commands in use, "kill" and "ack"
          NoIntent       \* the job of a process that only reconciles

ASSUME AdmissionAssumption ==
    /\ IsFiniteSet(Intent)
    /\ Carried \subseteq Intent
    /\ DayCap \in Nat /\ WeekCap \in Nat /\ PositionCap \in Nat /\ MaxCrash \in Nat
    /\ Cardinality(Carried) <= WeekCap
    /\ Cardinality(Carried) <= PositionCap
    /\ Operator \subseteq {"kill", "ack"}
    /\ NoIntent \notin Intent
    /\ Book \subseteq SUBSET Intent
    /\ Risk \in [Intent -> Nat]
    /\ Budget \in [Book -> Nat]

VARIABLES
    adm,        \* entry_admissions.status, "none" when there is no row
    linked,     \* the admissions whose trade_id is set
    trade,      \* trades.status, "none" when there is no row
    order,      \* what the broker knows of the entry order
    sends,      \* how often place_order was called for the intent
    halted,     \* system_state reconciliation_halt
    kill,       \* system_state kill_switch
    lastClean,  \* system_state last_reconciliation.reconciled
    acking,     \* an operator's ack-reconciliation has read last_reconciliation
    crashes,    \* processes that have died so far
    pc,         \* where each process stands
    job,        \* the intent it submits, or NoIntent
    seen,       \* its snapshot of the broker
    todo,       \* the rows its current loop has still to visit
    cur,        \* the row it is in the middle of
    dirty,      \* the processes that have noted a discrepancy
    fog         \* history: admissions of unknown outcome when it started

dbVars   == <<adm, linked, trade, halted, kill, lastClean>>
procVars == <<pc, job, seen, todo, cur, dirty, fog>>
vars     == <<dbVars, order, sends, acking, crashes, procVars>>

---------------------------------------------------------------------------
(* Sets of states and rows.                                                *)

Today == Intent \ Carried
Jobs  == Intent \cup {NoIntent}

AdmStatus   == {"none", "PENDING", "SUBMITTED", "UNKNOWN", "RECONCILED", "CANCELED"}
TradeStatus == {"none", "SUBMITTED", "OPEN", "CLOSED", "CANCELED"}
OrderState  == {"none", "sent", "lost", "working", "filled", "exited", "dead"}
ViewState   == {"none", "working", "filled", "exited", "dead"}
Label == {"idle", "list", "recover", "link_recovered", "review",
          "close", "record", "validate", "reserve", "send", "wait",
          "terminal", "persist", "link", "mark", "latch"}

\* open_trades(): the durable trades that count as exposure.
OpenTrade(i) == trade[i] \in {"SUBMITTED", "OPEN"}

\* An active reservation that is not yet tied to a trade.
Unlinked(i) == adm[i] \in {"PENDING", "UNKNOWN"} /\ i \notin linked

\* Mutant: only a reservation still in flight counts as a duplicate.
NotInFlight(i) == ~Unlinked(i)

\* No admission row exists yet: the intent was never reserved.
NeverAdmitted(i) == adm[i] = "none"

OpenTrades == {i \in Intent : OpenTrade(i)}

\* Mutant: reservations of a process that died (PENDING) are forgotten.
OnlyUnknown == {i \in Intent : adm[i] = "UNKNOWN" /\ i \notin linked}

Reserved == {i \in Intent : Unlinked(i)}

\* What get_positions, get_open_orders and the order history show: an order
\* that never arrived, or not yet, is not there.
View == [i \in Intent |->
            IF order[i] \in {"none", "sent", "lost"} THEN "none" ELSE order[i]]

NoView == [i \in Intent |-> "none"]

Positions(p) == {i \in Intent : seen[p][i] = "filled"}

\* Trades that count against the daily and weekly limits.
Counting == {i \in Intent : trade[i] \notin {"none", "CANCELED"}}

RiskOf(S) == SumFunctionOnSet(Risk, S)

---------------------------------------------------------------------------
(* Initial states: a morning.  Nothing of today exists; an entry of an     *)
(* earlier day is a tracked position, or was left by a process that died   *)
(* or lost its broker call, and then anything may have become of it.       *)

TrackedAtStart(i) ==
    adm[i] = "SUBMITTED" /\ i \in linked /\ trade[i] = "OPEN" /\ order[i] = "filled"

LeftOverAtStart(i) ==
    /\ adm[i] \in {"PENDING", "UNKNOWN"}
    /\ i \notin linked
    /\ trade[i] = "none"
    /\ order[i] \in {"none", "lost", "working", "filled", "exited", "dead"}

Init ==
    /\ adm \in [Intent -> {"none", "PENDING", "UNKNOWN", "SUBMITTED"}]
    /\ linked \in SUBSET Carried
    /\ trade \in [Intent -> {"none", "OPEN"}]
    /\ order \in [Intent -> OrderState \ {"sent"}]
    /\ halted \in BOOLEAN
    /\ \A i \in Today : adm[i] = "none" /\ trade[i] = "none" /\ order[i] = "none"
    /\ \A i \in Carried : TrackedAtStart(i) \/ LeftOverAtStart(i)
    /\ sends = [i \in Intent |-> IF order[i] = "none" THEN 0 ELSE 1]
    /\ kill = FALSE /\ lastClean = ~halted /\ acking = FALSE /\ crashes = 0
    /\ pc = [p \in Process |-> "idle"]
    /\ job = [p \in Process |-> NoIntent]
    /\ seen = [p \in Process |-> NoView]
    /\ todo = [p \in Process |-> {}]
    /\ cur = [p \in Process |-> NoIntent]
    /\ dirty = {}
    /\ fog = [p \in Process |-> {}]

---------------------------------------------------------------------------
(* Control of one process.                                                 *)

Goto(p, l) == pc' = [pc EXCEPT ![p] = l]

\* The call returns, or the process dies: nothing of it is left.
Return(p) ==
    /\ pc' = [pc EXCEPT ![p] = "idle"]
    /\ job' = [job EXCEPT ![p] = NoIntent]
    /\ seen' = [seen EXCEPT ![p] = NoView]
    /\ todo' = [todo EXCEPT ![p] = {}]
    /\ cur' = [cur EXCEPT ![p] = NoIntent]
    /\ dirty' = dirty \ {p}
    /\ fog' = [fog EXCEPT ![p] = {}]

Done(p, i) == todo' = [todo EXCEPT ![p] = @ \ {i}]

Note(p) == dirty' = dirty \cup {p}

envSame == UNCHANGED <<order, sends, acking, crashes>>

---------------------------------------------------------------------------
(* BrokerReconciler.reconcile.                                             *)

\* submit(j), or reconcile alone, starts with a snapshot of the broker.
Start(p, j) ==
    /\ pc[p] = "idle"
    /\ j # NoIntent => j \in Today
    /\ job' = [job EXCEPT ![p] = j]
    /\ seen' = [seen EXCEPT ![p] = View]
    /\ fog' = [fog EXCEPT ![p] = Reserved]
    /\ Goto(p, "list")
    /\ UNCHANGED <<dbVars, todo, cur, dirty>> /\ envSame

\* The snapshot raises: the reconciliation ends with one discrepancy.
SnapshotFails(p) ==
    /\ pc[p] = "list"
    /\ Note(p)
    /\ Goto(p, "review")
    /\ UNCHANGED <<dbVars, job, seen, todo, cur, fog>> /\ envSame

ListAdmissions(p) ==
    /\ pc[p] = "list"
    /\ todo' = [todo EXCEPT ![p] = Reserved]
    /\ Goto(p, "recover")
    /\ UNCHANGED <<dbVars, job, seen, cur, dirty, fog>> /\ envSame

\* Mutant: an intent the broker does not know is taken for one never sent.
UnmatchedIsFine(p, i) ==
    /\ pc[p] = "recover" /\ i \in todo[p] /\ seen[p][i] = "none"
    /\ Done(p, i)
    /\ UNCHANGED <<dbVars, pc, job, seen, cur, dirty, fog>> /\ envSame

\* No order of the snapshot answers to the intent: the outcome stays unknown.
Unmatched(p, i) ==
    /\ pc[p] = "recover" /\ i \in todo[p] /\ seen[p][i] = "none"
    /\ Done(p, i) /\ Note(p)
    /\ UNCHANGED <<dbVars, pc, job, seen, cur, fog>> /\ envSame

\* The order ended without a fill: the reservation is released.
ReleaseDead(p, i) ==
    /\ pc[p] = "recover" /\ i \in todo[p] /\ seen[p][i] = "dead"
    /\ adm' = [adm EXCEPT ![i] = "CANCELED"]
    /\ Done(p, i)
    /\ UNCHANGED <<linked, trade, halted, kill, lastClean, pc, job, seen, cur, dirty, fog>>
    /\ envSame

\* The order lives or was filled: the trade the submitter had drafted is
\* stored under the trade_id it had drawn, unless that row exists already.
Adopt(p, i) ==
    /\ pc[p] = "recover" /\ i \in todo[p]
    /\ seen[p][i] \in {"working", "filled", "exited"}
    /\ Done(p, i)
    /\ IF trade[i] = "none"
       THEN /\ trade' = [trade EXCEPT ![i] = "SUBMITTED"]
            /\ cur' = [cur EXCEPT ![p] = i]
            /\ Goto(p, "link_recovered")
            /\ UNCHANGED dirty
       ELSE /\ Note(p)
            /\ UNCHANGED <<trade, cur, pc>>
    /\ UNCHANGED <<adm, linked, halted, kill, lastClean, job, seen, fog>> /\ envSame

\* record_entry_fill and update_admission follow; the fill may raise.
LinkRecovered(p) ==
    /\ pc[p] = "link_recovered"
    /\ \/ /\ adm' = [adm EXCEPT ![cur[p]] = "SUBMITTED"]
          /\ linked' = linked \cup {cur[p]}
          /\ UNCHANGED dirty
       \/ /\ Note(p)
          /\ UNCHANGED <<adm, linked>>
    /\ cur' = [cur EXCEPT ![p] = NoIntent]
    /\ Goto(p, "recover")
    /\ UNCHANGED <<trade, halted, kill, lastClean, job, seen, todo, fog>> /\ envSame

\* The open trades are read; a position or an order of the snapshot that no
\* open trade accounts for is a discrepancy.
ListTrades(p) ==
    /\ pc[p] = "recover" /\ todo[p] = {}
    /\ todo' = [todo EXCEPT ![p] = OpenTrades]
    /\ IF \E i \in Intent : seen[p][i] \in {"working", "filled"} /\ ~OpenTrade(i)
       THEN Note(p)
       ELSE UNCHANGED dirty
    /\ Goto(p, "review")
    /\ UNCHANGED <<dbVars, job, seen, cur, fog>> /\ envSame

\* update_trade writes the row whatever its status has become meanwhile.
ReviewHeld(p, i) ==
    /\ pc[p] = "review" /\ i \in todo[p] /\ seen[p][i] = "filled"
    /\ Done(p, i)
    /\ \/ \* quantities agree; protection may be missing
          /\ trade' = [trade EXCEPT ![i] = "OPEN"]
          /\ Note(p) \/ UNCHANGED dirty
       \/ \* position and history disagree
          /\ Note(p)
          /\ UNCHANGED trade
    /\ UNCHANGED <<adm, linked, halted, kill, lastClean, pc, job, seen, cur, fog>> /\ envSame

ReviewWorking(p, i) ==
    /\ pc[p] = "review" /\ i \in todo[p] /\ seen[p][i] = "working"
    /\ Done(p, i)
    /\ trade' = [trade EXCEPT ![i] = "SUBMITTED"]
    /\ UNCHANGED <<adm, linked, halted, kill, lastClean, pc, job, seen, cur, dirty, fog>>
    /\ envSame

\* The position was sold: close_and_review stores the closed trade, or raises
\* out of reconcile when another process has closed it already.
ReviewExited(p, i) ==
    /\ pc[p] = "review" /\ i \in todo[p] /\ seen[p][i] = "exited"
    /\ IF trade[i] = "CLOSED"
       THEN /\ Return(p)
            /\ UNCHANGED trade
       ELSE /\ trade' = [trade EXCEPT ![i] = "CLOSED"]
            /\ Done(p, i)
            /\ cur' = [cur EXCEPT ![p] = i]
            /\ Goto(p, "close")
            /\ UNCHANGED <<job, seen, dirty, fog>>
    /\ UNCHANGED <<adm, linked, halted, kill, lastClean>> /\ envSame

ReviewDead(p, i) ==
    /\ pc[p] = "review" /\ i \in todo[p] /\ seen[p][i] = "dead"
    /\ trade' = [trade EXCEPT ![i] = "CANCELED"]
    /\ Done(p, i)
    /\ cur' = [cur EXCEPT ![p] = i]
    /\ Goto(p, "close")
    /\ UNCHANGED <<adm, linked, halted, kill, lastClean, job, seen, dirty, fog>> /\ envSame

\* A durable trade the snapshot knows nothing of.
ReviewMissing(p, i) ==
    /\ pc[p] = "review" /\ i \in todo[p] /\ seen[p][i] = "none"
    /\ Done(p, i) /\ Note(p)
    /\ UNCHANGED <<dbVars, pc, job, seen, cur, fog>> /\ envSame

\* Mutant: the admission takes over the status of the trade.
CopyTradeStatus(p) ==
    /\ pc[p] = "close"
    /\ adm' = [adm EXCEPT ![cur[p]] = trade[cur[p]]]
    /\ cur' = [cur EXCEPT ![p] = NoIntent]
    /\ Goto(p, "review")
    /\ UNCHANGED <<linked, trade, halted, kill, lastClean, job, seen, todo, dirty, fog>>
    /\ envSame

\* The admission follows the trade: RECONCILED after a sale, else CANCELED.
CloseAdmission(p) ==
    /\ pc[p] = "close"
    /\ adm' = [adm EXCEPT ![cur[p]] =
                  IF seen[p][cur[p]] = "exited" THEN "RECONCILED" ELSE "CANCELED"]
    /\ cur' = [cur EXCEPT ![p] = NoIntent]
    /\ Goto(p, "review")
    /\ UNCHANGED <<linked, trade, halted, kill, lastClean, job, seen, todo, dirty, fog>>
    /\ envSame

\* _finish on a clean account.  A submission goes on, without the snapshot.
FinishClean(p) ==
    /\ pc[p] = "review" /\ todo[p] = {} /\ p \notin dirty
    /\ lastClean' = TRUE
    /\ IF job[p] = NoIntent
       THEN Return(p)
       ELSE /\ seen' = [seen EXCEPT ![p] = NoView]
            /\ Goto(p, "validate")
            /\ UNCHANGED <<job, todo, cur, dirty, fog>>
    /\ UNCHANGED <<adm, linked, trade, halted, kill>> /\ envSame

\* _finish with discrepancies: the halt first, the record in another
\* transaction; a submission ends here.
LatchMismatch(p) ==
    /\ pc[p] = "review" /\ todo[p] = {} /\ p \in dirty
    /\ halted' = TRUE
    /\ Goto(p, "record")
    /\ UNCHANGED <<adm, linked, trade, kill, lastClean, job, seen, todo, cur, dirty, fog>>
    /\ envSame

RecordMismatch(p) ==
    /\ pc[p] = "record"
    /\ lastClean' = FALSE
    /\ Return(p)
    /\ UNCHANGED <<adm, linked, trade, halted, kill>> /\ envSame

---------------------------------------------------------------------------
(* SwingExecutionService.submit after its reconciliation.                  *)

\* refresh_portfolio_state and validate_entry.
Validate(p) ==
    /\ pc[p] = "validate"
    /\ ~kill /\ ~halted
    /\ NeverAdmitted(job[p])
    /\ \A i \in Intent : View[i] = "filled" => OpenTrade(i)
    /\ \A i \in Intent : trade[i] = "OPEN" => View[i] = "filled"
    /\ Cardinality(OpenTrades \cup Reserved) < PositionCap
    /\ Cardinality(Counting \cap Today) < DayCap
    /\ Cardinality(Counting) < WeekCap
    /\ seen' = [seen EXCEPT ![p] = View]
    /\ Goto(p, "reserve")
    /\ UNCHANGED <<dbVars, job, todo, cur, dirty, fog>> /\ envSame

\* Any gate of validate_entry, of the broker's review or of the reservation.
RejectEntry(p) ==
    /\ pc[p] \in {"validate", "reserve"}
    /\ Return(p)
    /\ UNCHANGED dbVars /\ envSame

\* Mutant: the risk of open trades is left to validate_entry.
ReservedRiskFits(i) ==
    \A b \in Book : i \in b => RiskOf(Reserved \cap b) + Risk[i] <= Budget[b]

\* reserve_entry_admission, one write transaction: the planned risk of open
\* trades and reservations leaves room in every risk book of the intent.
RiskFits(i) ==
    \A b \in Book : i \in b =>
        RiskOf(OpenTrades \cap b) + RiskOf(Reserved \cap b) + Risk[i] <= Budget[b]

HasRoom(p, i) ==
    /\ Cardinality(Counting \cap Today) + Cardinality(Reserved \cap Today) < DayCap
    /\ Cardinality(Counting) + Cardinality(Reserved) < WeekCap
    /\ Cardinality(Positions(p) \cup OpenTrades \cup Reserved) < PositionCap
    /\ RiskFits(i)

Reserve(p) ==
    /\ pc[p] = "reserve"
    /\ NeverAdmitted(job[p])
    /\ HasRoom(p, job[p])
    /\ adm' = [adm EXCEPT ![job[p]] = "PENDING"]
    /\ seen' = [seen EXCEPT ![p] = NoView]
    /\ Goto(p, "send")
    /\ UNCHANGED <<linked, trade, halted, kill, lastClean, job, todo, cur, dirty, fog>>
    /\ envSame

\* broker.place_order leaves the process.
Send(p) ==
    /\ pc[p] = "send"
    /\ order' = [order EXCEPT ![job[p]] = "sent"]
    /\ sends' = [sends EXCEPT ![job[p]] = @ + 1]
    /\ Goto(p, "wait")
    /\ fog' = [fog EXCEPT ![p] = {}]
    /\ UNCHANGED <<dbVars, acking, crashes, job, seen, todo, cur, dirty>>

\* The broker's answer: the order as it was when the answer was written.
Answer(p) ==
    /\ pc[p] = "wait"
    /\ \/ order[job[p]] = "dead" /\ Goto(p, "terminal")
       \/ order[job[p]] \in {"working", "filled", "exited", "dead"} /\ Goto(p, "persist")
    /\ UNCHANGED <<dbVars, job, seen, todo, cur, dirty, fog>> /\ envSame

\* Mutant: an exception is taken for a rejection.
FailureIsRejection(p) ==
    /\ pc[p] = "wait"
    /\ Goto(p, "terminal")
    /\ UNCHANGED <<dbVars, job, seen, todo, cur, dirty, fog>> /\ envSame

\* place_order raises (whether or not the order arrived), or answers with a
\* status the code does not know.
CallFails(p) ==
    /\ pc[p] = "wait"
    /\ Goto(p, "mark")
    /\ UNCHANGED <<dbVars, job, seen, todo, cur, dirty, fog>> /\ envSame

RecordTerminal(p) ==
    /\ pc[p] = "terminal"
    /\ adm' = [adm EXCEPT ![job[p]] = "CANCELED"]
    /\ Return(p)
    /\ UNCHANGED <<linked, trade, halted, kill, lastClean>> /\ envSame

\* add_trade_with_thesis: fails when the reconciler has stored the row.
AddTrade(p) ==
    /\ pc[p] = "persist"
    /\ IF trade[job[p]] = "none"
       THEN /\ \/ trade' = [trade EXCEPT ![job[p]] = "SUBMITTED"]
               \/ /\ order[job[p]] \in {"filled", "exited"}
                  /\ trade' = [trade EXCEPT ![job[p]] = "OPEN"]
            /\ Goto(p, "link")
       ELSE Goto(p, "mark") /\ UNCHANGED trade
    /\ UNCHANGED <<adm, linked, halted, kill, lastClean, job, seen, todo, cur, dirty, fog>>
    /\ envSame

\* The admission is tied to its trade; then the position's lifecycle is set
\* up, which may raise (mark) or find the bracket unprotected (latch).
LinkTrade(p) ==
    /\ pc[p] = "link"
    /\ \/ /\ adm' = [adm EXCEPT ![job[p]] = "SUBMITTED"]
          /\ linked' = linked \cup {job[p]}
          /\ \/ Return(p)
             \/ \E l \in {"mark", "latch"} :
                   Goto(p, l) /\ UNCHANGED <<job, seen, todo, cur, dirty, fog>>
       \/ \* record_entry_fill raises
          /\ Goto(p, "mark")
          /\ UNCHANGED <<adm, linked, job, seen, todo, cur, dirty, fog>>
    /\ UNCHANGED <<trade, halted, kill, lastClean>> /\ envSame

\* The two transactions of an unknown outcome: the admission, then the halt.
MarkUnknown(p) ==
    /\ pc[p] = "mark"
    /\ adm' = [adm EXCEPT ![job[p]] = "UNKNOWN"]
    /\ Goto(p, "latch")
    /\ UNCHANGED <<linked, trade, halted, kill, lastClean, job, seen, todo, cur, dirty, fog>>
    /\ envSame

LatchUnknown(p) ==
    /\ pc[p] = "latch"
    /\ halted' = TRUE
    /\ Return(p)
    /\ UNCHANGED <<adm, linked, trade, kill, lastClean>> /\ envSame

\* The process is killed, or an exception nobody catches ends it.
Crash(p) ==
    /\ pc[p] # "idle" /\ crashes < MaxCrash
    /\ crashes' = crashes + 1
    /\ Return(p)
    /\ UNCHANGED <<dbVars, order, sends, acking>>

---------------------------------------------------------------------------
(* The broker and the operator.                                            *)

\* What the broker does with an entry order on its own.
Moves == {<<"sent", "working">>, <<"sent", "filled">>, <<"sent", "dead">>,
          <<"sent", "lost">>, <<"working", "filled">>, <<"working", "dead">>,
          <<"filled", "exited">>}

BrokerMoves(i) ==
    \E m \in Moves :
        /\ order[i] = m[1]
        /\ order' = [order EXCEPT ![i] = m[2]]
        /\ UNCHANGED <<dbVars, sends, acking, crashes, procVars>>

KillSwitch ==
    /\ "kill" \in Operator
    /\ kill' = ~kill
    /\ UNCHANGED <<adm, linked, trade, halted, lastClean, order, sends, acking, crashes, procVars>>

\* ack-reconciliation reads last_reconciliation ...
AckRead ==
    /\ "ack" \in Operator
    /\ ~acking /\ lastClean
    /\ acking' = TRUE
    /\ UNCHANGED <<dbVars, order, sends, crashes, procVars>>

\* ... and clears the halt in a later transaction.
AckWrite ==
    /\ acking
    /\ acking' = FALSE
    /\ halted' = FALSE
    /\ UNCHANGED <<adm, linked, trade, kill, lastClean, order, sends, crashes, procVars>>

---------------------------------------------------------------------------

Reconcile(p) ==
    \/ SnapshotFails(p) \/ ListAdmissions(p) \/ LinkRecovered(p) \/ ListTrades(p)
    \/ CloseAdmission(p) \/ FinishClean(p) \/ LatchMismatch(p) \/ RecordMismatch(p)
    \/ \E i \in Intent :
          \/ Unmatched(p, i) \/ ReleaseDead(p, i) \/ Adopt(p, i)
          \/ ReviewHeld(p, i) \/ ReviewWorking(p, i) \/ ReviewExited(p, i)
          \/ ReviewDead(p, i) \/ ReviewMissing(p, i)

Submit(p) ==
    \/ Validate(p) \/ RejectEntry(p) \/ Reserve(p) \/ Send(p) \/ Answer(p)
    \/ CallFails(p) \/ RecordTerminal(p) \/ AddTrade(p) \/ LinkTrade(p)
    \/ MarkUnknown(p) \/ LatchUnknown(p)

Next ==
    \/ \E p \in Process :
          (\E j \in Jobs : Start(p, j)) \/ Reconcile(p) \/ Submit(p) \/ Crash(p)
    \/ \E i \in Intent : BrokerMoves(i)
    \/ KillSwitch \/ AckRead \/ AckWrite

Spec == Init /\ [][Next]_vars

---------------------------------------------------------------------------
(* Properties.                                                             *)

RowsOK ==
    /\ adm \in [Intent -> AdmStatus]
    /\ linked \subseteq Intent
    /\ trade \in [Intent -> TradeStatus]
    /\ order \in [Intent -> OrderState]
    /\ sends \in [Intent -> Nat]
    /\ halted \in BOOLEAN /\ kill \in BOOLEAN
    /\ lastClean \in BOOLEAN /\ acking \in BOOLEAN
    /\ crashes \in 0..MaxCrash

ProcessesOK ==
    /\ pc \in [Process -> Label]
    /\ job \in [Process -> Jobs]
    /\ seen \in [Process -> [Intent -> ViewState]]
    /\ todo \in [Process -> SUBSET Intent]
    /\ cur \in [Process -> Jobs]
    /\ dirty \subseteq Process
    /\ fog \in [Process -> SUBSET Intent]

TypeOK == RowsOK /\ ProcessesOK

\* Entries that hold, or may still come to hold, money at the broker.
Exposed == {i \in Intent : adm[i] # "none" /\ order[i] \notin {"exited", "dead"}}

\* docs/REFACTOR_RULES.md: "Execution must be idempotent. A repeated command
\* must never duplicate a position": whatever two processes that submit the
\* same intent, a reconciler and a retry after a crash do, the broker is asked
\* for an order at most once.
SentAtMostOnce == \A i \in Intent : sends[i] <= 1

\* The database never loses sight of money at the broker: an entry that is, or
\* may become, a position counts as an active reservation or as an open trade,
\* and a sold one still counts in the activity limits, at every step of a
\* submission, of concurrent reconcilers and after a crash anywhere.
ExposureIsCounted ==
    \A i \in Intent :
        /\ i \in Exposed => Unlinked(i) \/ OpenTrade(i)
        /\ adm[i] # "none" /\ order[i] = "exited" => Unlinked(i) \/ i \in Counting

\* The serialized risk limits of docs/RISK_MODEL.md hold of what is really at
\* stake: in the account and in every sector and cluster the planned risk of
\* all exposed entries stays within the share of equity allowed for it.
RiskWithinBudget == \A b \in Book : RiskOf(Exposed \cap b) <= Budget[b]

\* The same when earlier days carry more than a budget bears (the equity fell):
\* no step, of however many processes that have all found room, makes what is
\* at stake in a risk book larger unless it then still is within the budget.
RiskGrowsWithinBudget ==
    [][\A b \in Book :
          LET before == RiskOf(Exposed \cap b)
              after  == RiskOf(Exposed' \cap b)
          IN after > before => after <= Budget[b]]_vars

\* A submission that found orders of unknown outcome (its own earlier attempt,
\* one of a dead process, one of another process) does not go on to the broker
\* before each of them is a durable trade or known to be dead: the mandatory
\* reconciliation of submit.
NoEntryOverUnknownOutcome ==
    \A p \in Process : pc[p] \in {"validate", "reserve", "send"} =>
        \A k \in fog[p] : trade[k] # "none" \/ order[k] = "dead"

\* What an entry of today may not do to those there are: no accepted order is
\* lost from the exposure, no risk admitted that a budget does not bear, and
\* nothing sent over an unknown outcome.
EntriesAreSafe == ExposureIsCounted /\ RiskWithinBudget /\ NoEntryOverUnknownOutcome

\* What EntryQuota sees of an intent.
Phases == [i \in Intent |->
              CASE adm[i] = "none"                        -> "new"
                [] adm[i] # "none" /\ order[i] = "exited" -> "done"
                [] adm[i] # "none" /\ order[i] = "dead"   -> "void"
                [] OTHER                                 -> "open"]

Quota == INSTANCE EntryQuota WITH phase <- Phases

\* submit and reconcile implement EntryQuota: an admission is granted once and
\* within the position, daily and weekly limits, although its check reads rows
\* that other processes are in the middle of changing.
QuotaSpec == Quota!Spec

\* database.py on ack-reconciliation: "A clean broker reconciliation is required
\* before acknowledgement": when the halt is lifted, no order has an unknown
\* outcome any more.
HaltLiftedOnlyWhenSettled == [][halted /\ ~halted' => Reserved = {}]_vars

---------------------------------------------------------------------------
(* The inductive invariant behind the safety properties.                   *)

\* A row of trades, an order and a link exist only for an admitted intent.
AdmittedFirst ==
    \A i \in Intent : adm[i] = "none" =>
        order[i] = "none" /\ trade[i] = "none" /\ i \notin linked

\* place_order was called for an order that is not "none", once.
SendsInv == \A i \in Intent : sends[i] = (IF order[i] = "none" THEN 0 ELSE 1)

\* A trade is closed or canceled only when the broker's order is.
TradeInv ==
    \A i \in Intent : /\ trade[i] = "CLOSED" => order[i] = "exited"
                      /\ trade[i] = "CANCELED" => order[i] = "dead"

\* An admission without a trade stays an active reservation while its order
\* may live.
TrackInv ==
    \A i \in Intent : adm[i] # "none" /\ trade[i] = "none" /\ order[i] # "dead" => Unlinked(i)

LinkedInv == \A i \in linked : trade[i] # "none"

\* A snapshot is old but never wrong: what it shows the order has been.
SeenOK(p) ==
    \A i \in Intent :
        /\ seen[p][i] = "working" => order[i] \in {"working", "filled", "exited", "dead"}
        /\ seen[p][i] = "filled" => order[i] \in {"filled", "exited"}
        /\ seen[p][i] = "exited" => order[i] = "exited"
        /\ seen[p][i] = "dead" => order[i] = "dead"

\* What a process may rely on, by the place where it stands.
WaitLabels   == {"wait", "terminal", "persist", "link", "mark", "latch"}
SubmitLabels == {"validate", "reserve", "send"} \cup WaitLabels

PlaceInv ==
    \A p \in Process :
        /\ pc[p] \in SubmitLabels => job[p] \in Intent
        /\ pc[p] \in {"link_recovered", "close"} => cur[p] \in Intent

StandsOK(p) ==
    /\ pc[p] = "send" => adm[job[p]] # "none" /\ order[job[p]] = "none"
    /\ pc[p] \in WaitLabels => order[job[p]] # "none"
    /\ pc[p] = "terminal" => order[job[p]] = "dead"
    /\ pc[p] = "link" => trade[job[p]] # "none"
    /\ pc[p] \in {"link_recovered", "close"} => trade[cur[p]] # "none"
    /\ pc[p] = "close" => seen[p][cur[p]] \in {"exited", "dead"}
    /\ pc[p] \in {"idle", "list"} => todo[p] = {}
    /\ \A i \in todo[p] : adm[i] # "none"
    /\ pc[p] \in {"review", "close"} => \A i \in todo[p] : trade[i] # "none"

\* How far a reconciliation has come with the unknown outcomes it found.
Settled(i) == trade[i] # "none" \/ order[i] = "dead"

FogOK(p) ==
    \A k \in fog[p] :
        /\ adm[k] # "none"
        /\ pc[p] \in {"recover", "link_recovered"} /\ p \notin dirty => k \in todo[p] \/ Settled(k)
        /\ pc[p] \in {"review", "close"} /\ p \notin dirty => Settled(k)
        /\ pc[p] \in {"validate", "reserve", "send"} => Settled(k)

ProcessInv == \A p \in Process : SeenOK(p) /\ StandsOK(p) /\ FogOK(p)

\* No two processes are about to send the same order.
OneSender ==
    \A p, q \in Process :
        pc[p] = "send" /\ pc[q] = "send" /\ job[p] = job[q] => p = q

\* The quotas hold of every entry that may have reached the broker and is not
\* known to have died.
QuotaInv == Quota!WithinQuota

RowInv == AdmittedFirst /\ SendsInv /\ TradeInv /\ TrackInv /\ LinkedInv

IInv == RowInv /\ PlaceInv /\ ProcessInv /\ OneSender /\ QuotaInv

---------------------------------------------------------------------------
(* Liveness.  The schedule starts a reconciling command again and again and *)
(* a started command runs on; broker snapshots do not fail for ever.  At    *)
(* most MaxCrash processes die.                                             *)

Fairness ==
    \A p \in Process :
        /\ WF_vars(\E j \in Jobs : Start(p, j))
        /\ WF_vars(Reconcile(p) \/ Submit(p))
        /\ SF_vars(ListAdmissions(p))

FairSpec == Spec /\ Fairness

\* docs/PAPER_TO_LIVE_CHECKLIST.md: unknown outcomes "recover correctly after a
\* process restart": an order the broker accepted, whoever died or timed out
\* waiting for the answer, ends up as a durable trade, unless it dies unfilled.
AcceptedOrderGetsTrade ==
    \A i \in Intent :
        order[i] \in {"working", "filled", "exited"} ~> (trade[i] # "none" \/ order[i] = "dead")
===========================================================================
