--------------------------- MODULE PositionBook ---------------------------
(***************************************************************************)
(* One trade from the broker's answer to its postmortem: the rows of       *)
(* trades, trade_fills, position_lifecycle, postmortems and lessons that   *)
(* submit, reconcile and request_manual_close write, each transaction and  *)
(* each broker call a step of its own, with partial fills, partial exits,  *)
(* lost protection, a snapshot that takes several broker calls, concurrent *)
(* processes and crashes.                                                  *)
(*                                                                         *)
(* Simplifications.  The order has arrived at the broker; EntryAdmission   *)
(* is about those that may not have.  PARTIALLY_FILLED is OPEN, REJECTED   *)
(* is CANCELED.  Of the prices one thing is kept: whether the entry was    *)
(* filled above its initial stop, which is decided with the first state    *)
(* and for all its fills alike.  Corporate actions, notifications, the two *)
(* transactions of _finish and the rows that nothing reads back are left   *)
(* out.  No command calls evaluate_exit or evaluate_stop_management, so    *)
(* nothing moves the lifecycle to PROFITABLE or TRAILING.                  *)
(***************************************************************************)
EXTENDS Integers, FiniteSets, Functions

CONSTANTS Process,     \* command-line processes that may run at once
          Shares,      \* the quantity of the entry order
          Closer,      \* bound: the processes that may run the close command
          MaxCrash     \* bound: how many processes die during a behaviour

ASSUME BookAssumption ==
    /\ Shares \in Nat \ {0} /\ MaxCrash \in Nat
    /\ Closer \subseteq Process

VARIABLES
    bought,     \* broker: shares of the entry order filled so far
    root,       \* broker: is the entry order still working
    legSold,    \* broker: shares sold by the stop or the target leg
    closeSold,  \* broker: shares sold by close requests
    legs,       \* broker: stop and target are both active
    closing,    \* broker: a close request is being worked
    aboveStop,  \* broker: the average fill of the entry is above its initial stop
    trade,      \* trades.status, "none" when there is no row
    shares,     \* trades.shares
    lots,       \* trade_fills: the quantity recorded for a cumulative fill, or 0
    lc,         \* position_lifecycle.state, "none" when there is no row
    adm,        \* the admission: "active", ended without a link ("released"),
                \* or tied to its trade ("linked")
    reviewed,   \* there is a row in postmortems
    lessons,    \* rows in lessons for this trade
    requested,  \* there is a MANUAL_CLOSE_REQUESTED event
    halted,     \* reconciliation_halt
    closes,     \* history: close_position calls of manual closes
    crashes,    \* processes that have died so far
    pc, back,   \* where a process stands, where a transition returns to
    pos, seen,  \* its snapshot: the position, then orders and history
    size,       \* trades.shares as it read them
    prior,      \* the sum of the lots as it read them
    was,        \* the lifecycle state as it read it
    dirty       \* the processes that have noted a discrepancy

broker == <<bought, root, legSold, closeSold, legs, closing, aboveStop>>
rows   == <<trade, shares, lots, lc, adm, reviewed, lessons, requested, halted>>
ghost  == <<closes, crashes>>
local  == <<pos, seen, size, prior, was, dirty>>
vars   == <<broker, rows, ghost, pc, back, local>>

---------------------------------------------------------------------------

TradeStatus == {"none", "SUBMITTED", "OPEN", "CLOSED", "CANCELED"}
State       == {"OPEN", "PROTECTED", "PROFITABLE", "TRAILING", "EXIT_PENDING", "CLOSED"}
RootStatus  == {"working", "filled", "dead"}

\* LEGAL_TRANSITIONS.
Legal == {<<"OPEN", "PROTECTED">>, <<"PROTECTED", "PROFITABLE">>,
          <<"PROFITABLE", "TRAILING">>, <<"EXIT_PENDING", "CLOSED">>}
         \cup {<<s, "EXIT_PENDING">> : s \in {"OPEN", "PROTECTED", "PROFITABLE", "TRAILING"}}

\* The state a transition leads to, by the place it returns to.
Goal == [finish |-> "PROTECTED", placed |-> "PROTECTED", end |-> "CLOSED",
         review |-> "EXIT_PENDING", emergency |-> "EXIT_PENDING",
         manual |-> "EXIT_PENDING", remedy |-> "EXIT_PENDING"]

Label == {"idle", "orders", "recover", "refill", "relink", "list", "held",
          "held_lot", "hold", "look", "protect", "alarm", "gone", "gone_lot",
          "grow", "exit", "create_exit", "close", "postmortem",
          "observe", "release", "state", "swap", "unknown", "note",
          "persist", "fill", "link", "open", "unprotected", "mark", "latch"}
         \cup DOMAIN Goal

\* open_trades lists the trade.
IsOpen == trade \in {"SUBMITTED", "OPEN"}

Position == bought - legSold - closeSold

Larger(a, b) == IF a >= b THEN a ELSE b

LotSum(f) == SumFunctionOnSet(f, DOMAIN f)

View == [bought |-> bought, root |-> root, legSold |-> legSold,
         closeSold |-> closeSold, legs |-> legs]

NoView == [bought |-> 0, root |-> "working", legSold |-> 0, closeSold |-> 0,
           legs |-> FALSE]

\* What the process takes the size of the entry to be.
Expected(p) == Larger(size[p], seen[p].bought)

\* _protective_legs: a stop and a target among the active sell orders of the entry.
ProtectiveLegs(p) == seen[p].legs

\* verify_broker_bracket, on the answer to the order: legs are expected of a
\* filled order.
BracketVerified(p) == seen[p].bought > 0 => seen[p].legs

Exited(p) == seen[p].legSold + seen[p].closeSold

---------------------------------------------------------------------------
(* Initial states: the broker has accepted the order.  Its submitter has   *)
(* the answer in hand, or is dead.                                         *)

Init ==
    /\ bought \in 0..Shares
    /\ root = (IF bought = Shares THEN "filled" ELSE "working")
    /\ legs \in BOOLEAN /\ (legs => bought > 0)
    /\ legSold = 0 /\ closeSold = 0 /\ closing = FALSE /\ aboveStop \in BOOLEAN
    /\ trade = "none" /\ shares = 0 /\ lots = [n \in 1..Shares |-> 0]
    /\ lc = "none" /\ adm = "active" /\ reviewed = FALSE /\ lessons = 0
    /\ requested = FALSE /\ halted = FALSE
    /\ closes = 0 /\ crashes = 0
    /\ \E s \in SUBSET Process :
          /\ Cardinality(s) <= 1
          /\ pc = [p \in Process |-> IF p \in s THEN "persist" ELSE "idle"]
          /\ seen = [p \in Process |-> IF p \in s THEN View ELSE NoView]
    /\ back = [p \in Process |-> "end"]
    /\ pos = [p \in Process |-> 0]
    /\ size = [p \in Process |-> 0]
    /\ prior = [p \in Process |-> 0]
    /\ was = [p \in Process |-> "none"]
    /\ dirty = {}

---------------------------------------------------------------------------
(* Control.                                                                *)

Goto(p, l) == pc' = [pc EXCEPT ![p] = l] /\ UNCHANGED back

Step(p, from, to) == pc[p] = from /\ Goto(p, to)

\* Go through transition to Goal[l] and then on to l.
Transit(p, l) == pc' = [pc EXCEPT ![p] = "state"] /\ back' = [back EXCEPT ![p] = l]

\* The command returns, or ends with an exception: nothing of it is left.
Return(p) ==
    /\ pc' = [pc EXCEPT ![p] = "idle"]
    /\ back' = [back EXCEPT ![p] = "end"]
    /\ pos' = [pos EXCEPT ![p] = 0]
    /\ seen' = [seen EXCEPT ![p] = NoView]
    /\ size' = [size EXCEPT ![p] = 0]
    /\ prior' = [prior EXCEPT ![p] = 0]
    /\ was' = [was EXCEPT ![p] = "none"]
    /\ dirty' = dirty \ {p}

Note(p) == dirty' = dirty \cup {p} /\ UNCHANGED <<pos, seen, size, prior, was>>

\* record_entry_fill raises, and its transaction leaves nothing: "Cannot add an entry
\* fill to a closed trade", and "Entry fills do not produce positive initial risk".
FillRefused == trade = "CLOSED" \/ ~aboveStop

\* record_entry_fill: one lot for each cumulative fill of the order, and the
\* trade's size from the lots.
RecordLot(n, quantity) ==
    /\ lots' = IF lots[n] = 0 THEN [lots EXCEPT ![n] = quantity] ELSE lots
    /\ shares' = LotSum(lots')

\* create_position_lifecycle: the row must not exist.
CreateOpen == lc = "none" /\ lc' = "OPEN"

\* broker.close_position: it may fail before or after the request arrives.
CloseFails  == closing' \in {closing, Position > 0}
CloseWorks  == Position > 0 /\ closing' = TRUE
brokerSame  == UNCHANGED <<bought, root, legSold, closeSold, legs, aboveStop>>

---------------------------------------------------------------------------
(* PositionLifecycleService.transition and request_exit: the state is read *)
(* and, in a later transaction, compared and swapped.                      *)

\* IllegalLifecycleTransition: _emergency_protection_remediation ignores it,
\* submit takes it for a failed persistence, everything else ends.
Raise(p) ==
    CASE back[p] = "emergency"             -> Goto(p, "emergency") /\ UNCHANGED local
      [] back[p] \in {"placed", "remedy"}  -> Goto(p, "mark") /\ UNCHANGED local
      [] OTHER                             -> Return(p)

ReadState(p) ==
    /\ pc[p] = "state"
    /\ IF lc = "EXIT_PENDING" /\ Goal[back[p]] = "EXIT_PENDING"
       THEN Goto(p, back[p]) /\ UNCHANGED local
       ELSE IF <<lc, Goal[back[p]]>> \in Legal
            THEN /\ was' = [was EXCEPT ![p] = lc]
                 /\ Goto(p, "swap")
                 /\ UNCHANGED <<pos, seen, size, prior, dirty>>
            ELSE Raise(p)
    /\ UNCHANGED <<broker, rows, ghost>>

\* Mutant: the row is updated whatever its state has become.
BlindSwap(p) ==
    /\ pc[p] = "swap"
    /\ lc' = Goal[back[p]]
    /\ Goto(p, back[p])
    /\ UNCHANGED <<broker, trade, shares, lots, adm, reviewed, lessons, requested, halted, ghost, local>>

SwapState(p) ==
    /\ pc[p] = "swap"
    /\ IF lc = was[p]
       THEN lc' = Goal[back[p]] /\ Goto(p, back[p]) /\ UNCHANGED local
       ELSE Raise(p) /\ UNCHANGED lc
    /\ UNCHANGED <<broker, trade, shares, lots, adm, reviewed, lessons, requested, halted, ghost>>

---------------------------------------------------------------------------
(* BrokerReconciler.reconcile.                                             *)

\* get_positions.
StartReconcile(p) ==
    /\ Step(p, "idle", "orders")
    /\ pos' = [pos EXCEPT ![p] = Position]
    /\ UNCHANGED <<broker, rows, ghost, seen, size, prior, was, dirty>>

\* Open orders and history, in later calls than the positions.
ReadOrders(p) ==
    /\ Step(p, "orders", "recover")
    /\ seen' = [seen EXCEPT ![p] = View]
    /\ UNCHANGED <<broker, rows, ghost, pos, size, prior, was, dirty>>

\* A broker call of the snapshot raises: the account is not reconciled.
SnapshotFails(p) ==
    /\ pc[p] \in {"idle", "orders"}
    /\ halted' = TRUE
    /\ Return(p)
    /\ UNCHANGED <<broker, trade, shares, lots, lc, adm, reviewed, lessons, requested, ghost>>

\* An unlinked admission: released when its order died unfilled, adopted when
\* there is no trade yet.
Recover(p) ==
    /\ pc[p] = "recover"
    /\ \/ adm # "active" /\ Goto(p, "list") /\ UNCHANGED <<trade, shares, adm, local>>
       \/ /\ adm = "active" /\ seen[p].root = "dead" /\ seen[p].bought = 0
          /\ adm' = "released"
          /\ Goto(p, "list") /\ UNCHANGED <<trade, shares, local>>
       \/ /\ adm = "active" /\ ~(seen[p].root = "dead" /\ seen[p].bought = 0)
          /\ IF trade = "none"
             THEN /\ trade' = "SUBMITTED" /\ shares' = seen[p].bought
                  /\ Goto(p, IF seen[p].bought > 0 THEN "refill" ELSE "relink")
                  /\ UNCHANGED local
             ELSE Note(p) /\ Goto(p, "list") /\ UNCHANGED <<trade, shares>>
          /\ UNCHANGED adm
    /\ UNCHANGED <<broker, lots, lc, reviewed, lessons, requested, halted, ghost>>

Refill(p) ==
    /\ pc[p] = "refill"
    /\ IF FillRefused
       THEN Note(p) /\ Goto(p, "list") /\ UNCHANGED <<shares, lots>>
       ELSE RecordLot(seen[p].bought, seen[p].bought) /\ Goto(p, "relink") /\ UNCHANGED local
    /\ UNCHANGED <<broker, trade, lc, adm, reviewed, lessons, requested, halted, ghost>>

Relink(p) ==
    /\ Step(p, "relink", "list")
    /\ adm' = "linked"
    /\ UNCHANGED <<broker, trade, shares, lots, lc, reviewed, lessons, requested, halted, ghost, local>>

\* Mutant: what no open trade accounts for is not looked at.
ListKnown(p) ==
    /\ pc[p] = "list"
    /\ IF IsOpen
       THEN /\ size' = [size EXCEPT ![p] = shares]
            /\ Goto(p, IF pos[p] > 0 THEN "held" ELSE "gone")
            /\ UNCHANGED <<pos, seen, prior, was, dirty>>
       ELSE Goto(p, "finish") /\ UNCHANGED local
    /\ UNCHANGED <<broker, rows, ghost>>

\* open_trades; a position or an order that no open trade accounts for is a
\* discrepancy.
ListTrade(p) ==
    /\ pc[p] = "list"
    /\ IF IsOpen
       THEN /\ size' = [size EXCEPT ![p] = shares]
            /\ Goto(p, IF pos[p] > 0 THEN "held" ELSE "gone")
            /\ UNCHANGED <<pos, seen, prior, was, dirty>>
       ELSE /\ Goto(p, "finish")
            /\ IF pos[p] > 0 \/ seen[p].root = "working" \/ seen[p].legs
               THEN Note(p)
               ELSE UNCHANGED local
    /\ UNCHANGED <<broker, rows, ghost>>

\* With a position: its quantity must be what the entry and the exits of the
\* legs leave; then sync_cumulative_entry_fill reads the lots.
Held(p) ==
    /\ pc[p] = "held"
    /\ LET left == Larger(Expected(p) - seen[p].legSold, 0)
       IN  IF left > 0 /\ pos[p] # left
           THEN Note(p) /\ Goto(p, "finish")
           ELSE /\ prior' = [prior EXCEPT ![p] = LotSum(lots)]
                /\ Goto(p, IF seen[p].bought > 0 THEN "held_lot" ELSE "hold")
                /\ UNCHANGED <<pos, seen, size, was, dirty>>
    /\ UNCHANGED <<broker, rows, ghost>>

\* The part of the cumulative quantity that is not recorded yet becomes a lot;
\* the exception of a refused fill leaves reconcile.
SyncLot(p, from, to) ==
    /\ pc[p] = from
    /\ IF Expected(p) <= prior[p]
       THEN Goto(p, to) /\ UNCHANGED <<shares, lots, local>>
       ELSE IF FillRefused
            THEN Return(p) /\ UNCHANGED <<shares, lots>>
            ELSE /\ RecordLot(Expected(p), Expected(p) - prior[p])
                 /\ Goto(p, to) /\ UNCHANGED local
    /\ UNCHANGED <<broker, trade, lc, adm, reviewed, lessons, requested, halted, ghost>>

\* update_trade, whatever the row has become meanwhile.
Hold(p) ==
    /\ Step(p, "hold", "look")
    /\ trade' = "OPEN" /\ shares' = Expected(p)
    /\ UNCHANGED <<broker, lots, lc, adm, reviewed, lessons, requested, halted, ghost, local>>

Look(p) ==
    /\ Step(p, "look", "protect")
    /\ was' = [was EXCEPT ![p] = lc]
    /\ UNCHANGED <<broker, rows, ghost, pos, seen, size, prior, dirty>>

\* The lifecycle is created where it is missing and read again; without both
\* legs the alarm is raised, with them an OPEN position becomes PROTECTED.
Protect(p) ==
    /\ pc[p] = "protect"
    /\ IF was[p] = "none"
       THEN IF lc = "none"
            THEN CreateOpen /\ Goto(p, "look") /\ UNCHANGED local
            ELSE Return(p) /\ UNCHANGED lc
       ELSE /\ UNCHANGED lc
            /\ \/ ~ProtectiveLegs(p) /\ Note(p) /\ Goto(p, "alarm")
               \/ ProtectiveLegs(p) /\ was[p] = "OPEN" /\ Transit(p, "finish") /\ UNCHANGED local
               \/ ProtectiveLegs(p) /\ was[p] # "OPEN" /\ Goto(p, "finish") /\ UNCHANGED local
    /\ UNCHANGED <<broker, trade, shares, lots, adm, reviewed, lessons, requested, halted, ghost>>

\* _emergency_protection_remediation: halt, exit, close at the broker.
Alarm(p) ==
    /\ pc[p] = "alarm"
    /\ halted' = TRUE
    /\ Transit(p, "emergency")
    /\ UNCHANGED <<broker, trade, shares, lots, lc, adm, reviewed, lessons, requested, ghost, local>>

\* Mutant: an exit that is pending already needs no close request.
EmergencyOnce(p) ==
    /\ Step(p, "emergency", "finish")
    /\ IF was[p] = "EXIT_PENDING" THEN UNCHANGED closing ELSE CloseWorks \/ CloseFails
    /\ brokerSame
    /\ UNCHANGED <<rows, ghost, local>>

Emergency(p) ==
    /\ Step(p, "emergency", "finish")
    /\ CloseWorks \/ CloseFails
    /\ brokerSame
    /\ UNCHANGED <<rows, ghost, local>>

\* Without a position: the rest of the entry is recorded first.
Gone(p) ==
    /\ pc[p] = "gone"
    /\ IF seen[p].bought > size[p]
       THEN /\ prior' = [prior EXCEPT ![p] = LotSum(lots)]
            /\ Goto(p, "gone_lot")
            /\ UNCHANGED <<pos, seen, size, was, dirty>>
       ELSE Goto(p, "exit") /\ UNCHANGED local
    /\ UNCHANGED <<broker, rows, ghost>>

Grow(p) ==
    /\ Step(p, "grow", "exit")
    /\ shares' = Expected(p)
    /\ size' = [size EXCEPT ![p] = Expected(p)]
    /\ UNCHANGED <<broker, trade, lots, lc, adm, reviewed, lessons, requested, halted, ghost>>
    /\ UNCHANGED <<pos, seen, prior, was, dirty>>

\* Mutant: any filled exit closes the trade.
SomeExit(p) == Exited(p) > 0

\* The verified exits cover the whole entry.
FullExit(p) == Exited(p) > 0 /\ Exited(p) >= Expected(p)

\* Mutant: the lifecycle of a position that came and went is not created.
ExitWithoutRow(p) ==
    /\ pc[p] = "exit" /\ FullExit(p)
    /\ IF lc \in {"EXIT_PENDING", "CLOSED"} THEN Goto(p, "review") ELSE Transit(p, "review")
    /\ UNCHANGED <<broker, rows, ghost, local>>

\* The position was sold: the lifecycle has to be EXIT_PENDING next.
Exit(p) ==
    /\ pc[p] = "exit" /\ FullExit(p)
    /\ \/ lc = "none" /\ Goto(p, "create_exit")
       \/ lc \in {"EXIT_PENDING", "CLOSED"} /\ Goto(p, "review")
       \/ lc \notin {"none", "EXIT_PENDING", "CLOSED"} /\ Transit(p, "review")
    /\ UNCHANGED <<broker, rows, ghost, local>>

CreateExit(p) ==
    /\ pc[p] = "create_exit"
    /\ IF lc = "none"
       THEN CreateOpen /\ Transit(p, "review") /\ UNCHANGED local
       ELSE Return(p) /\ UNCHANGED lc
    /\ UNCHANGED <<broker, trade, shares, lots, adm, reviewed, lessons, requested, halted, ghost>>

\* The entry ended unfilled, still waits for its first fill, or is a riddle.
NoExit(p) ==
    /\ pc[p] = "exit" /\ ~FullExit(p)
    /\ \/ /\ Exited(p) = 0 /\ seen[p].bought = 0 /\ seen[p].root = "dead"
          /\ trade' = "CANCELED" /\ Goto(p, "release") /\ UNCHANGED local
       \/ /\ Exited(p) = 0 /\ seen[p].bought = 0 /\ seen[p].root = "working"
          /\ trade' = "SUBMITTED" /\ Goto(p, "finish") /\ UNCHANGED local
       \/ /\ Exited(p) > 0 \/ seen[p].bought > 0
          /\ Note(p) /\ Goto(p, "finish") /\ UNCHANGED trade
    /\ UNCHANGED <<broker, shares, lots, lc, adm, reviewed, lessons, requested, halted, ghost>>

\* PostmortemEngine.close_and_review: the guards read the trade, which must not be
\* closed and must have an initial risk ...
Review(p) ==
    /\ pc[p] = "review"
    /\ IF trade = "CLOSED" \/ ~aboveStop
       THEN Return(p)
       ELSE Goto(p, "close") /\ UNCHANGED local
    /\ UNCHANGED <<broker, rows, ghost>>

\* ... a later transaction closes it ...
Close(p) ==
    /\ Step(p, "close", "postmortem")
    /\ trade' = "CLOSED"
    /\ UNCHANGED <<broker, shares, lots, lc, adm, reviewed, lessons, requested, halted, ghost, local>>

\* Mutant: the lifecycle is closed before the lesson is drawn.
CloseFirst(p) ==
    /\ pc[p] = "postmortem"
    /\ IF reviewed
       THEN Return(p) /\ UNCHANGED reviewed
       ELSE reviewed' = TRUE /\ Transit(p, "end") /\ UNCHANGED local
    /\ UNCHANGED <<broker, trade, shares, lots, lc, adm, lessons, requested, halted, ghost>>

\* Mutant: postmortems has no UNIQUE trade_id.
RecordAgain(p) ==
    /\ Step(p, "postmortem", "observe")
    /\ reviewed' = TRUE
    /\ UNCHANGED <<broker, trade, shares, lots, lc, adm, lessons, requested, halted, ghost, local>>

\* ... the postmortem is stored, once per trade ...
RecordPostmortem(p) ==
    /\ pc[p] = "postmortem"
    /\ IF reviewed
       THEN Return(p) /\ UNCHANGED reviewed
       ELSE reviewed' = TRUE /\ Goto(p, "observe") /\ UNCHANGED local
    /\ UNCHANGED <<broker, trade, shares, lots, lc, adm, lessons, requested, halted, ghost>>

\* ... and the lesson; then the lifecycle is closed and the admission.
Observe(p) ==
    /\ pc[p] = "observe"
    /\ lessons' = lessons + 1
    /\ Transit(p, "end")
    /\ UNCHANGED <<broker, trade, shares, lots, lc, adm, reviewed, requested, halted, ghost, local>>

\* The admission is RECONCILED, or CANCELED with its trade.
EndTrade(p) ==
    /\ pc[p] \in {"end", "release"}
    /\ adm' = (IF adm = "linked" THEN "linked" ELSE "released")
    /\ Goto(p, "finish")
    /\ UNCHANGED <<broker, trade, shares, lots, lc, reviewed, lessons, requested, halted, ghost, local>>

Finish(p) ==
    /\ pc[p] = "finish"
    /\ halted' = (halted \/ p \in dirty)
    /\ Return(p)
    /\ UNCHANGED <<broker, trade, shares, lots, lc, adm, reviewed, lessons, requested, ghost>>

---------------------------------------------------------------------------
(* SwingExecutionService.request_manual_close.                             *)

StartClose(p) ==
    /\ pc[p] = "idle" /\ p \in Closer
    /\ trade \notin {"none", "CLOSED"} /\ ~requested
    /\ Transit(p, "manual")
    /\ UNCHANGED <<broker, rows, ghost, local>>

\* The broker call, which may raise although it arrived.
ManualClose(p) ==
    /\ pc[p] = "manual"
    /\ \/ CloseWorks /\ closes' = closes + 1 /\ Goto(p, "note")
       \/ CloseFails /\ closes' = closes + 1 /\ Goto(p, "unknown")
    /\ brokerSame
    /\ UNCHANGED <<rows, crashes, local>>

HaltUnknownClose(p) ==
    /\ Step(p, "unknown", "note")
    /\ halted' = TRUE
    /\ UNCHANGED <<broker, trade, shares, lots, lc, adm, reviewed, lessons, requested, ghost, local>>

\* The event that keeps a second manual close out is written last.
NoteClose(p) ==
    /\ pc[p] = "note"
    /\ requested' = TRUE
    /\ Return(p)
    /\ UNCHANGED <<broker, trade, shares, lots, lc, adm, reviewed, lessons, halted, ghost>>

---------------------------------------------------------------------------
(* SwingExecutionService.submit once the broker has answered.              *)

Persist(p) ==
    /\ pc[p] = "persist"
    /\ IF trade = "none"
       THEN /\ trade' = (IF seen[p].bought > 0 THEN "OPEN" ELSE "SUBMITTED")
            /\ shares' = seen[p].bought
            /\ Goto(p, IF seen[p].bought > 0 THEN "fill" ELSE "link")
       ELSE Goto(p, "mark") /\ UNCHANGED <<trade, shares>>
    /\ UNCHANGED <<broker, lots, lc, adm, reviewed, lessons, requested, halted, ghost, local>>

Fill(p) ==
    /\ pc[p] = "fill"
    /\ IF FillRefused
       THEN Goto(p, "mark") /\ UNCHANGED <<shares, lots>>
       ELSE RecordLot(seen[p].bought, seen[p].bought) /\ Goto(p, "link")
    /\ UNCHANGED <<broker, trade, lc, adm, reviewed, lessons, requested, halted, ghost, local>>

Link(p) ==
    /\ pc[p] = "link"
    /\ adm' = "linked"
    /\ IF seen[p].bought > 0 THEN Goto(p, "open") /\ UNCHANGED local ELSE Return(p)
    /\ UNCHANGED <<broker, trade, shares, lots, lc, reviewed, lessons, requested, halted, ghost>>

\* The lifecycle is created; verify_broker_bracket has looked at the answer.
Open(p) ==
    /\ pc[p] = "open"
    /\ IF lc = "none"
       THEN /\ CreateOpen
            /\ IF BracketVerified(p) THEN Transit(p, "placed") ELSE Goto(p, "unprotected")
       ELSE Goto(p, "mark") /\ UNCHANGED lc
    /\ UNCHANGED <<broker, trade, shares, lots, adm, reviewed, lessons, requested, halted, ghost, local>>

Placed(p) ==
    /\ pc[p] = "placed"
    /\ Return(p)
    /\ UNCHANGED <<broker, rows, ghost>>

\* _remediate_protection_failure.
Remediate(p) ==
    /\ pc[p] = "unprotected"
    /\ halted' = TRUE
    /\ Transit(p, "remedy")
    /\ UNCHANGED <<broker, trade, shares, lots, lc, adm, reviewed, lessons, requested, ghost, local>>

RemedyClose(p) ==
    /\ pc[p] = "remedy"
    /\ CloseWorks \/ CloseFails
    /\ brokerSame
    /\ Return(p)
    /\ UNCHANGED <<rows, ghost>>

\* Persistence failed: the admission, then the halt.
MarkUnknown(p) ==
    /\ Step(p, "mark", "latch")
    /\ adm' = (IF adm = "linked" THEN "linked" ELSE "active")
    /\ UNCHANGED <<broker, trade, shares, lots, lc, reviewed, lessons, requested, halted, ghost, local>>

LatchUnknown(p) ==
    /\ pc[p] = "latch"
    /\ halted' = TRUE
    /\ Return(p)
    /\ UNCHANGED <<broker, trade, shares, lots, lc, adm, reviewed, lessons, requested, ghost>>

---------------------------------------------------------------------------
(* A process dies; the broker works the orders.                            *)

Crash(p) ==
    /\ pc[p] # "idle" /\ crashes < MaxCrash
    /\ crashes' = crashes + 1
    /\ Return(p)
    /\ UNCHANGED <<broker, rows, closes>>

processSame == UNCHANGED <<rows, ghost, pc, back, local>>

\* The first fill may find a leg rejected; later ones change nothing about it.
Buy ==
    /\ root = "working" /\ bought < Shares
    /\ bought' = bought + 1
    /\ root' = (IF bought' = Shares THEN "filled" ELSE "working")
    /\ IF bought = 0 THEN legs' \in BOOLEAN ELSE UNCHANGED legs
    /\ UNCHANGED <<legSold, closeSold, closing, aboveStop>> /\ processSame

EndEntry ==
    /\ root = "working"
    /\ root' = "dead"
    /\ UNCHANGED <<bought, legSold, closeSold, legs, closing, aboveStop>> /\ processSame

\* When nothing is left, neither legs nor close request are.
SellByLeg ==
    /\ legs /\ Position > 0
    /\ legSold' = legSold + 1
    /\ legs' = (Position > 1) /\ closing' = (closing /\ Position > 1)
    /\ UNCHANGED <<bought, root, closeSold, aboveStop>> /\ processSame

SellByClose ==
    /\ closing /\ Position > 0
    /\ closeSold' = closeSold + 1
    /\ closing' = (Position > 1) /\ legs' = (legs /\ Position > 1)
    /\ UNCHANGED <<bought, root, legSold, aboveStop>> /\ processSame

LoseLegs ==
    /\ legs
    /\ legs' = FALSE
    /\ UNCHANGED <<bought, root, legSold, closeSold, closing, aboveStop>> /\ processSame

---------------------------------------------------------------------------

ReconcileStep(p) ==
    \/ ReadOrders(p) \/ Recover(p) \/ Refill(p) \/ Relink(p)
    \/ ListTrade(p) \/ Held(p) \/ SyncLot(p, "held_lot", "hold") \/ Hold(p)
    \/ Look(p) \/ Protect(p) \/ Alarm(p) \/ Emergency(p)
    \/ Gone(p) \/ SyncLot(p, "gone_lot", "grow") \/ Grow(p)
    \/ Exit(p) \/ CreateExit(p) \/ NoExit(p)
    \/ Review(p) \/ Close(p) \/ RecordPostmortem(p) \/ Observe(p)
    \/ EndTrade(p) \/ Finish(p)

OtherStep(p) ==
    \/ ReadState(p) \/ SwapState(p)
    \/ ManualClose(p) \/ HaltUnknownClose(p) \/ NoteClose(p)
    \/ Persist(p) \/ Fill(p) \/ Link(p) \/ Open(p) \/ Placed(p)
    \/ Remediate(p) \/ RemedyClose(p) \/ MarkUnknown(p) \/ LatchUnknown(p)

BrokerStep == Buy \/ EndEntry \/ SellByLeg \/ SellByClose \/ LoseLegs

Next ==
    \/ \E p \in Process :
          \/ StartReconcile(p) \/ StartClose(p) \/ SnapshotFails(p)
          \/ ReconcileStep(p) \/ OtherStep(p) \/ Crash(p)
    \/ BrokerStep

Spec == Init /\ [][Next]_vars

---------------------------------------------------------------------------
(* Properties.                                                             *)

BrokerOK ==
    /\ bought \in 0..Shares /\ root \in RootStatus
    /\ legSold \in 0..Shares /\ closeSold \in 0..Shares
    /\ legs \in BOOLEAN /\ closing \in BOOLEAN /\ aboveStop \in BOOLEAN
    /\ pos \in [Process -> 0..Shares]
    /\ seen \in [Process -> [bought : 0..Shares, root : RootStatus, legSold : 0..Shares,
                             closeSold : 0..Shares, legs : BOOLEAN]]

ControlOK ==
    /\ pc \in [Process -> Label] /\ back \in [Process -> DOMAIN Goal]
    /\ was \in [Process -> State \cup {"none"}]
    /\ lc \in State \cup {"none"}
    /\ reviewed \in BOOLEAN

RowOK ==
    /\ trade \in TradeStatus /\ adm \in {"active", "linked", "released"}
    /\ lessons \in Nat /\ requested \in BOOLEAN /\ halted \in BOOLEAN
    /\ closes \in Nat /\ crashes \in 0..MaxCrash
    /\ dirty \subseteq Process

SizeOK ==
    /\ shares \in Nat /\ lots \in [1..Shares -> 0..Shares]
    /\ size \in [Process -> Nat] /\ prior \in [Process -> Nat]

TypeOK == BrokerOK /\ ControlOK /\ RowOK /\ SizeOK

\* lifecycle.py: "Fail-closed position lifecycle": whatever process writes it,
\* however stale the state it read, position_lifecycle is created as OPEN and
\* then takes only transitions of LEGAL_TRANSITIONS.
LegalLifecycle ==
    [][lc' # lc => (lc = "none" /\ lc' = "OPEN") \/ <<lc, lc'>> \in Legal]_vars

\* The rows of the trade as TradeLifecycle sees them.
Lifecycle == INSTANCE TradeLifecycle
    WITH exited <- legSold + closeSold > 0, closed <- trade = "CLOSED"

\* lifecycle.py: "Fail-closed position lifecycle"; postmortem.py: "Trade is already
\* closed and postmortem must not be duplicated".  Whatever processes race, die and
\* start again, and however stale what they read is, the rows go the way of
\* TradeLifecycle: no step of any of them closes or reviews a trade that has no
\* pending exit or of which nothing has been sold, draws a second lesson, ends the
\* lifecycle ahead of the lesson, or takes a transition that is not legal.
LifecycleSpec == Lifecycle!Spec

\* postmortem.py: "Trade is already closed and postmortem must not be
\* duplicated": reconcilers that race, die and start again leave one lesson.
ReviewedOnce == lessons <= 1

\* A lifecycle ends only behind its postmortem and its lesson, so that a CLOSED
\* lifecycle means that nothing of the close is left to do but the admission.
ClosedLifecycleIsReviewed == lc = "CLOSED" => reviewed /\ lessons = 1

\* database.py: "Convert a broker cumulative fill update into one incremental
\* lot.": the lots, from which record_entry_fill computes the size and the R of
\* a trade, never claim more than the broker has filled.
LotsNeverExceedFill == LotSum(lots) <= bought

\* close_and_review runs only on exits that cover the trade: when a trade
\* becomes CLOSED the broker has sold as much as the lots say was bought.
ClosedOnVerifiedExit ==
    [][trade' = "CLOSED" /\ trade # "CLOSED" => legSold + closeSold >= LotSum(lots)]_vars

\* What a reconciliation without discrepancies means: a position it saw is an
\* open trade of that size (or one whose legs have sold all of it since the
\* position was read), behind both legs, with a lifecycle that is not over; a
\* trade that is still open has a position or waits for its first fill; and no
\* admission is left in doubt.
CleanFinishMatches ==
    \A p \in Process : pc[p] = "finish" /\ p \notin dirty =>
        /\ pos[p] > 0 => /\ trade = "OPEN" /\ seen[p].legs
                         /\ shares - seen[p].legSold \in {pos[p], 0}
                         /\ lc \in {"PROTECTED", "EXIT_PENDING"}
        /\ IsOpen => pos[p] > 0 \/ (seen[p].root = "working" /\ seen[p].bought = 0)
        /\ adm # "active"

\* README.md: "Manual paper closes are human-approved, idempotent requests
\* followed by reconciliation": the broker is asked to close once.
ManualCloseOnce == closes <= 1

---------------------------------------------------------------------------
(* The inductive invariant behind the lifecycle and the postmortem.        *)

\* A process that is about to swap has read a state from which it may.
SwapInv == \A p \in Process : pc[p] = "swap" => <<was[p], Goal[back[p]]>> \in Legal

\* Who stands before the lesson has stored the one postmortem, and the lesson
\* is still to be drawn.
LessonInv ==
    /\ lessons \in {0, 1}
    /\ ~reviewed => lessons = 0
    /\ \A p \in Process : pc[p] = "observe" => reviewed /\ lessons = 0
    /\ \A p, q \in Process : pc[p] = "observe" /\ pc[q] = "observe" => p = q

\* Who is on the way to CLOSED has drawn it.
EndInv ==
    \A p \in Process :
        pc[p] \in {"state", "swap"} /\ back[p] = "end" => reviewed /\ lessons = 1

BookInv == SwapInv /\ LessonInv /\ EndInv /\ ClosedLifecycleIsReviewed

---------------------------------------------------------------------------
(* Liveness.  The schedule starts reconcile again and again, a started      *)
(* command runs on, a snapshot and a close request do not fail for ever.    *)

Advance(p) == ReconcileStep(p) \/ OtherStep(p)

Fairness ==
    \A p \in Process :
        /\ SF_vars(StartReconcile(p))
        /\ WF_vars(Advance(p))
        /\ SF_vars(ReadOrders(p))
        /\ SF_vars(Emergency(p) /\ CloseWorks)

FairSpec == Spec /\ Fairness

\* docs/LEARNING_ENGINE.md: "Every close stores realized P&L/R, MFE/MAE and
\* their R values, holding time, exit reason, and a postmortem".
ClosedIsReviewed == trade = "CLOSED" ~> reviewed

\* A position that was sold in full becomes a closed trade, whoever sold it and
\* whoever died on the way, if its entry was filled above the initial stop.  One
\* that was filled at or below it never closes: at every pass record_entry_fill
\* ("Entry fills do not produce positive initial risk") or close_and_review
\* ("Stored initial risk is invalid") raises out of reconcile first.
SoldIsClosed ==
    (aboveStop /\ bought > 0 /\ root # "working" /\ Position = 0) ~> trade = "CLOSED"

\* A position that is left without active stop and target is answered with a
\* close request, unless one has been worked before or its trade is over, if its
\* entry was filled above the initial stop.  At one that was filled at or below
\* it every pass ends with the exception of record_entry_fill, which comes ahead
\* of the check of the legs, so that nothing answers.
UnprotectedIsAnswered ==
    (aboveStop /\ Position > 0 /\ ~legs /\ closeSold = 0)
        ~> (closing \/ closeSold > 0 \/ Position = 0 \/ trade = "CLOSED")
===========================================================================
