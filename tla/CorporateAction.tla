--------------------------- MODULE CorporateAction ---------------------------
(***************************************************************************)
(* How reconcile takes over a split of a stock that it holds.              *)
(*                                                                         *)
(* The broker multiplies or divides the position and may declare the       *)
(* action among its events, with the quantities before and after, with a   *)
(* ratio alone, or with neither.  A reconcile that finds a quantity it     *)
(* does not expect looks for an action that declares just this change,     *)
(* where what the action leaves out is taken to be what was found; each of *)
(* its transactions is a step, and it may die between two.                 *)
(*                                                                         *)
(* Simplifications.  One trade, filled and protected, one reconcile at a   *)
(* time.  The stop that an action may declare is left out, and the share of *)
(* an exit that a dead leg leaves open; PositionBook has the position that *)
(* is gone and the protective legs.  Prices are whole numbers, rounded     *)
(* down.  The actions are external: no provider in the repository asks a   *)
(* broker for them.                                                        *)
(***************************************************************************)
EXTENDS Integers

CONSTANTS Bought,       \* shares of the entry
          Price,        \* what one of them cost
          Factor,       \* the splits that happen are f for 1 and 1 for f
          MaxSplits,    \* bound: how many happen
          MaxSold,      \* bound: shares the broker sells
          MaxKills,     \* bound: how many reconciles die
          MaxPrice      \* bound: no reconcile begins once the row has a higher price

ASSUME CorporateActionAssumption ==
    /\ {Bought, Price} \subseteq Nat \ {0}
    /\ Factor \subseteq Nat \ {0}
    /\ {MaxSplits, MaxSold, MaxKills, MaxPrice} \subseteq Nat

VARIABLES
    holding,       \* broker: shares of the position
    legSales,   \* broker: shares sold by the legs of the bracket
    otherSales, \* broker: shares sold in the broker's own interface
    actions,    \* broker: the declared actions, as quantities before and after and
                \* ratio (up for down), 0 where the action leaves one out
    splits,
    tradeRow,   \* trades: shares and entry_price
    fills,      \* trade_fills: quantity and cost of the entry
    events,     \* execution_events: the actions recorded as reconciled
    mismatch,   \* reconciliation_halt
    reviewing,     \* the reconcile: its next step and what it has read
    kills

brokerVars == <<holding, legSales, otherSales, actions, splits>>

actionVars == <<brokerVars, tradeRow, fills, events, mismatch, reviewing, kills>>

\* An action that says no more than that there was one.
Bare == [old |-> 0, new |-> 0, up |-> 0, down |-> 0]

\* The action counts only where one is adopted.
Rest == [at |-> "idle", shares |-> 0, price |-> 0, position |-> 0, sold |-> 0, action |-> Bare]

ActionInit ==
    /\ holding = Bought /\ legSales = 0 /\ otherSales = 0 /\ actions = {} /\ splits = 0
    /\ tradeRow = [shares |-> Bought, price |-> Price]
    /\ fills = [quantity |-> Bought, cost |-> Bought * Price]
    /\ events = {} /\ mismatch = FALSE
    /\ reviewing = Rest /\ kills = 0

---------------------------------------------------------------------------
(* The broker.                                                             *)

\* What may be declared of the split of a position into another, up for down.
Declared(before, after, up, down) ==
    {[Bare EXCEPT !.old = before, !.new = after], [Bare EXCEPT !.up = up, !.down = down], Bare}

\* A split, declared or not.
SplitStock ==
    /\ splits < MaxSplits
    /\ \E up \in Factor \cup {1}, down \in Factor \cup {1} :
          /\ up # down /\ 1 \in {up, down} /\ (holding * up) % down = 0
          /\ holding' = (holding * up) \div down
          /\ \/ UNCHANGED actions
             \/ \E a \in Declared(holding, holding', up, down) : actions' = actions \cup {a}
    /\ splits' = splits + 1
    /\ UNCHANGED <<legSales, otherSales, tradeRow, fills, events, mismatch, reviewing, kills>>

SellShare ==
    /\ holding > 1 /\ legSales + otherSales < MaxSold
    /\ holding' = holding - 1
    /\ \/ legSales' = legSales + 1 /\ UNCHANGED otherSales
       \/ otherSales' = otherSales + 1 /\ UNCHANGED legSales
    /\ UNCHANGED <<actions, splits, tradeRow, fills, events, mismatch, reviewing, kills>>

---------------------------------------------------------------------------
(* reconcile.                                                              *)

More(a, b) == IF a >= b THEN a ELSE b

\* The snapshot of the broker and the row of open_trades.
ReadPosition ==
    /\ reviewing.at = "idle" /\ tradeRow.price <= MaxPrice
    /\ reviewing' = [at |-> "compare", shares |-> tradeRow.shares, price |-> tradeRow.price,
                  position |-> holding, sold |-> legSales, action |-> Bare]
    /\ UNCHANGED <<brokerVars, tradeRow, fills, events, mismatch, kills>>

\* max(trade["shares"], root_filled).
Expected == More(reviewing.shares, Bought)

Remaining == More(Expected - reviewing.sold, 0)

\* Mutant: any action of the symbol explains any quantity.
ExplainingAny(before, after) == actions

\* _corporate_action_adjustment: a quantity that the action leaves out is the one it
\* would be compared with, and a ratio is compared with nothing.
Explaining(before, after) == {a \in actions : a.old \in {0, before} /\ a.new \in {0, after}}

Compare ==
    /\ reviewing.at = "compare"
    /\ IF Remaining > 0 /\ reviewing.position # Remaining
       THEN LET found == Explaining(Remaining, reviewing.position)
            IN IF found = {}
               THEN mismatch' = TRUE /\ reviewing' = Rest
               ELSE \E a \in found :
                       /\ reviewing' = [reviewing EXCEPT !.at = "adopt", !.action = a]
                       /\ UNCHANGED mismatch
       ELSE reviewing' = [reviewing EXCEPT !.at = "fill"] /\ UNCHANGED mismatch
    /\ UNCHANGED <<brokerVars, tradeRow, fills, events, kills>>

\* sync_cumulative_entry_fill: what the row has more than the fills becomes a fill,
\* the whole at the broker's average price, and the row is brought up to the fills.
SyncFill ==
    /\ reviewing.at = "fill"
    /\ IF Expected > fills.quantity
       THEN /\ fills' = [quantity |-> Expected, cost |-> Expected * Price]
            /\ tradeRow' = [shares |-> Expected, price |-> Price]
       ELSE UNCHANGED <<fills, tradeRow>>
    /\ reviewing' = [reviewing EXCEPT !.at = "row"]
    /\ UNCHANGED <<brokerVars, events, mismatch, kills>>

\* update_trade: the row has the price of the order's fills ...
UpdateRow ==
    /\ reviewing.at = "row"
    /\ tradeRow' = [shares |-> Expected, price |-> Price]
    /\ reviewing' = Rest
    /\ UNCHANGED <<brokerVars, fills, events, mismatch, kills>>

\* The price that the row had, divided by the ratio of the action or else by that of
\* the quantities.
Divided(a) == IF a.up > 0
              THEN (reviewing.price * a.down) \div a.up
              ELSE (reviewing.price * Remaining) \div reviewing.position

\* ... or takes over what an action explains.
AdoptAction ==
    /\ reviewing.at = "adopt"
    /\ tradeRow' = [shares |-> reviewing.position, price |-> Divided(reviewing.action)]
    /\ reviewing' = [reviewing EXCEPT !.at = "event"]
    /\ UNCHANGED <<brokerVars, fills, events, mismatch, kills>>

\* record_execution_event: CORPORATE_ACTION_RECONCILED.
RecordAction ==
    /\ reviewing.at = "event"
    /\ events' = events \cup {reviewing.action}
    /\ reviewing' = Rest
    /\ UNCHANGED <<brokerVars, tradeRow, fills, mismatch, kills>>

ReconcileKilled ==
    /\ reviewing.at # "idle" /\ kills < MaxKills
    /\ reviewing' = Rest /\ kills' = kills + 1
    /\ UNCHANGED <<brokerVars, tradeRow, fills, events, mismatch>>

ActionNext ==
    \/ SplitStock \/ SellShare
    \/ ReadPosition \/ Compare \/ SyncFill \/ UpdateRow \/ AdoptAction \/ RecordAction
    \/ ReconcileKilled

ActionSpec == ActionInit /\ [][ActionNext]_actionVars

---------------------------------------------------------------------------
(* Properties.                                                             *)

ActionTypeOK ==
    /\ {holding, legSales, otherSales, splits, kills} \subseteq Nat
    /\ actions \subseteq [old : Nat, new : Nat, up : Nat, down : Nat] /\ events \subseteq actions
    /\ tradeRow \in [shares : Nat, price : Nat] /\ fills \in [quantity : Nat, cost : Nat]
    /\ mismatch \in BOOLEAN
    /\ reviewing.at \in {"idle", "compare", "fill", "row", "adopt", "event"}

\* docs/refactor/04_EXECUTION_REPORT.md: "Explicit corporate-action records with
\* old/new quantity and ratio are adequate evidence for current-state adjustment;
\* unexplained quantity changes must remain mismatches."  The row and the fills have
\* the shares of the entry or those that a declared action left, however sales and
\* undeclared splits move the position in between, as long as every action declares
\* them: one that leaves the quantity after out explains whatever the position has
\* become.
OnlyExplainedQuantities ==
    \A n \in {tradeRow.shares, fills.quantity} :
        n = Bought \/ \E a \in actions : a.new \in {0, n}

\* tests/swing/test_execution_lifecycle.py: after a split of 3 shares bought at 100
\* into 6, current["entry_price"] == 50: a split changes neither what the shares
\* have cost nor, when reconcile runs again, what the row says of it.
CostBasisKept ==
    reviewing.at = "idle" => tradeRow.shares * tradeRow.price = Bought * Price
===========================================================================
