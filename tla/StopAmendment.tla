---------------------------- MODULE StopAmendment ----------------------------
(***************************************************************************)
(* tighten-stop: ProtectedStopService.tighten reads the trade row, asks    *)
(* the broker for the stop order's price, replaces the order and writes    *)
(* the row.  Each is a call of its own, so an order may fill, another      *)
(* operator may tighten and the process may die between any two of them.   *)
(*                                                                         *)
(* One position.  An operator names one of its stop orders, perhaps one    *)
(* that has been replaced: the command does not look the order up.  The    *)
(* broker is external: replacing an order retires it and issues a          *)
(* successor, and only an active order can be replaced.                    *)
(*                                                                         *)
(* Prices are in tenths of a cent: the row keeps the price as it is given, *)
(* the broker gets whole cents.                                            *)
(***************************************************************************)
EXTENDS Integers, Sequences, SequencesExt

CONSTANTS Operator,     \* processes that run tighten-stop
          StopLevel,    \* the stop prices that occur
          FirstStop,    \* the stop of the bracket
          MaxOrders     \* bound on the successors of the stop order

ASSUME StopAssumption ==
    /\ StopLevel \subseteq Nat \ {0} /\ FirstStop \in StopLevel
    /\ MaxOrders \in Nat \ {0}

VARIABLES
    chain,      \* the stop orders issued so far, each replaced by the next
    rowStop,    \* trades.final_stop
    rowOpen,    \* trades.status is one that tighten accepts
    amend       \* per operator: the step reached, the order and price named

stopVars == <<chain, rowStop, rowOpen, amend>>

\* round(price, 2): the nearest whole cent; what becomes of the middle is up to
\* the binary fraction.
Rounded(price) ==
    {c \in {price - (price % 10), price - (price % 10) + 10} : c <= price + 5 /\ price <= c + 5}

StopIdle == [at |-> "idle", order |-> 1, want |-> FirstStop]

StopInit ==
    /\ \E c \in Rounded(FirstStop) : chain = << [stop |-> c, status |-> "new"] >>
    /\ rowStop = FirstStop /\ rowOpen = TRUE
    /\ amend = [p \in Operator |-> StopIdle]

\* validate_stop_change: unchanged or tighter.
Tightens(stop, want) == want >= stop

\* get_trade and validate_stop_change, on the row as read.
ReadRow(p, order, want) ==
    /\ amend[p].at = "idle"
    /\ rowOpen /\ Tightens(rowStop, want)
    /\ amend' = [amend EXCEPT ![p] = [at |-> "read", order |-> order, want |-> want]]
    /\ UNCHANGED <<chain, rowStop, rowOpen>>

\* Mutant: replace_stop relies on the check of the row.
AskBrokerUnchecked(p) ==
    /\ amend[p].at = "read"
    /\ amend' = [amend EXCEPT ![p].at = "asked"]
    /\ UNCHANGED <<chain, rowStop, rowOpen>>

\* replace_stop, its GET: a lower stop than the order's own is refused.
AskBroker(p) ==
    /\ amend[p].at = "read"
    /\ amend' = IF amend[p].want < chain[amend[p].order].stop
                THEN [amend EXCEPT ![p] = StopIdle]
                ELSE [amend EXCEPT ![p].at = "asked"]
    /\ UNCHANGED <<chain, rowStop, rowOpen>>

\* Mutant: the row is written before the broker is told.
PatchRowFirst(p) ==
    LET id == amend[p].order
    IN /\ amend[p].at = "asked"
       /\ rowStop' = amend[p].want
       /\ IF chain[id].status = "new" /\ Len(chain) < MaxOrders
          THEN /\ \E c \in Rounded(amend[p].want) :
                    chain' = Append([chain EXCEPT ![id].status = "replaced"],
                                    [stop |-> c, status |-> "new"])
               /\ amend' = [amend EXCEPT ![p].at = "patched"]
          ELSE chain' = chain /\ amend' = [amend EXCEPT ![p] = StopIdle]
       /\ UNCHANGED rowOpen

\* replace_stop, its PATCH: the broker refuses an order that is not active, and
\* the command fails before it reaches the row.
Patch(p) ==
    LET id == amend[p].order
    IN /\ amend[p].at = "asked"
       /\ IF chain[id].status = "new"
          THEN /\ Len(chain) < MaxOrders
               /\ \E c \in Rounded(amend[p].want) :
                    chain' = Append([chain EXCEPT ![id].status = "replaced"],
                                    [stop |-> c, status |-> "new"])
               /\ amend' = [amend EXCEPT ![p].at = "patched"]
          ELSE chain' = chain /\ amend' = [amend EXCEPT ![p] = StopIdle]
       /\ UNCHANGED <<rowStop, rowOpen>>

\* update_trade(final_stop=new_stop): by now the row may be closed.
WriteRow(p) ==
    /\ amend[p].at = "patched"
    /\ rowStop' = amend[p].want
    /\ amend' = [amend EXCEPT ![p] = StopIdle]
    /\ UNCHANGED <<chain, rowOpen>>

\* The process dies, or the answer to its request is lost and it raises.
AmendmentFails(p) ==
    /\ amend[p].at # "idle"
    /\ amend' = [amend EXCEPT ![p] = StopIdle]
    /\ UNCHANGED <<chain, rowStop, rowOpen>>

\* The stop order fills, or the target does and the broker cancels the stop.
ExitFills ==
    /\ chain' = [chain EXCEPT ![Len(chain)].status = "filled"]
    /\ UNCHANGED <<rowStop, rowOpen, amend>>

\* Reconciliation closes the trade.
RowCloses ==
    /\ Last(chain).status = "filled"
    /\ rowOpen' = FALSE
    /\ UNCHANGED <<chain, rowStop, amend>>

StopNext ==
    \/ \E p \in Operator :
         \/ \E order \in 1..Len(chain), want \in StopLevel : ReadRow(p, order, want)
         \/ AskBroker(p) \/ Patch(p) \/ WriteRow(p) \/ AmendmentFails(p)
    \/ ExitFills
    \/ RowCloses

StopSpec == StopInit /\ [][StopNext]_stopVars

---------------------------------------------------------------------------
(* Properties.                                                             *)

StopTypeOK ==
    /\ chain \in Seq([stop : Nat, status : {"new", "replaced", "filled"}])
    /\ Len(chain) \in 1..MaxOrders
    /\ rowStop \in StopLevel /\ rowOpen \in BOOLEAN
    /\ amend \in [Operator -> [at : {"idle", "read", "asked", "patched"},
                               order : 1..Len(chain), want : StopLevel]]

\* "Stops never widen": whoever races whom, however stale the row is after a
\* process has died and whichever way a price is rounded, the stop that protects
\* the position never falls.
BrokerStopNeverFalls == [][Last(chain').stop >= Last(chain).stop]_stopVars

\* The database never believes in a tighter stop than the broker has, but for the
\* half cent of its rounding: what _open_risk computes from the row is an upper
\* bound of what is at risk.
RowNotTighterThanBroker == rowStop <= Last(chain).stop + 5

===========================================================================
