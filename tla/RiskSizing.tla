------------------------------ MODULE RiskSizing ------------------------------
(***************************************************************************)
(* How many shares an entry may have, and what the portfolio then has at   *)
(* risk.  Three books disagree about that: validate_entry values the       *)
(* broker's positions, reserve_entry_admission adds up planned risks, and  *)
(* the broker goes on filling a good-till-canceled order.                  *)
(*                                                                         *)
(* Rates are in basis points, prices and risks in whole units of money,    *)
(* which the rounding of a price or a planned risk to cents leaves as they *)
(* are (a real quote may be a midpoint, off by half a cent per share).     *)
(* The entry quotas are in EntryAdmission and the halts in HaltLatches; an *)
(* entry rejected by one of those or by a check of the candidate is one    *)
(* that does not start.  An order fills at its limit, the worst it allows.  *)
(***************************************************************************)
EXTENDS Integers, FiniteSets, FiniteSetsExt, Functions

CONSTANTS Clerk,            \* processes that submit
          Symbol,
          SectorOf,         \* Symbol -> sector
          ClusterOf,        \* Symbol -> exposure cluster
          Quote, Stop,      \* the prices and structural stops that occur
          Worth,            \* the equities the account may have when it is read
          Cash,             \* min(cash, buying power)
          Tempo,            \* regime_multiplier, in percent
          BaseRisk,         \* normal_risk_pct and reduced_risk_pct
          AbsoluteRisk, CombinedCap, SectorCap, ClusterCap, PositionCap,
          Liquidity         \* maximum_adv_fraction of the volume, in shares

ASSUME SizingAssumption ==
    /\ IsFiniteSet(Symbol)
    /\ Quote \cup Stop \cup Worth \subseteq Nat \ {0}
    /\ Cash \cup Tempo \cup BaseRisk \subseteq Nat
    /\ {AbsoluteRisk, CombinedCap, SectorCap, ClusterCap, PositionCap, Liquidity} \subseteq Nat

VARIABLES
    book,       \* per symbol: the admission or trade, and the broker's order
    plan,       \* per process: the approved RiskDecision, or NoPlan
    granted     \* history: the entry reserved last and the equity it was granted at

sizingVars == <<book, plan, granted>>

---------------------------------------------------------------------------
(* The quantity of one entry: pure arithmetic.                             *)

Lesser(a, b) == IF a <= b THEN a ELSE b

Positive(n) == IF n > 0 THEN n ELSE 0

\* The money that a budget of so many basis points leaves, times 10000.
Headroom(equity, cap, used) == equity * cap - 10000 * used

\* applied_risk_pct * 10^6: the base rate scaled by the regime, at most the
\* absolute maximum.
Applied(base, tempo) == Lesser(base * tempo, AbsoluteRisk * 100)

\* Whole shares within each constraint; r is the risk per share.
Constraints(w, base, tempo, cash, price, r, used) ==
    { (w * Applied(base, tempo)) \div (1000000 * r),
      cash \div price,
      (w * PositionCap) \div (10000 * price),
      Positive(Headroom(w, CombinedCap, used.total) \div (10000 * r)),
      Positive(Headroom(w, SectorCap, used.sector) \div (10000 * r)),
      Positive(Headroom(w, ClusterCap, used.cluster) \div (10000 * r)),
      Liquidity }

\* Mutant: the cluster's budget is forgotten.
QuantityWithoutCluster(w, base, tempo, cash, price, r, used) ==
    Min(Constraints(w, base, tempo, cash, price, r, [used EXCEPT !.cluster = 0]))

Quantity(w, base, tempo, cash, price, r, used) ==
    Min(Constraints(w, base, tempo, cash, price, r, used))

\* One share at least, and no more than the hard maximum at risk.
Approvable(q, r, w) == q >= 1 /\ q * r * 10000 <= AbsoluteRisk * w

---------------------------------------------------------------------------
(* The books.                                                              *)

\* phase "reserved": an active admission without a trade; "open": a trade row.
NoEntry == [phase |-> "none", planned |-> 0, ordered |-> 0, filled |-> 0, limit |-> 0, stop |-> 0]

\* A process that has no approved decision in hand.
NoPlan == [quantity |-> 0]

\* _open_risk: a position counts with what it has filled so far; the rest with
\* their plan.
OpenRisk ==
    [s \in Symbol |-> IF book[s].filled > 0
                      THEN book[s].filled * Positive(book[s].limit - book[s].stop)
                      ELSE book[s].planned]

InSector(s) == {t \in Symbol : SectorOf[t] = SectorOf[s]}

InCluster(s) == {t \in Symbol : ClusterOf[t] = ClusterOf[s]}

SizingInit ==
    /\ book = [s \in Symbol |-> NoEntry]
    /\ plan = [p \in Clerk |-> NoPlan]
    /\ granted = NoPlan

\* RiskManager.validate_entry, from _open_risk to the approved decision.
Size(p, s, price, stop) ==
    /\ plan[p] = NoPlan /\ book[s].phase = "none"
    /\ \A t \in Symbol : book[t].filled > 0 => book[t].phase = "open"
    /\ stop < price
    /\ \E worth \in Worth, cash \in Cash, tempo \in Tempo, base \in BaseRisk :
         LET used == [total   |-> SumFunctionOnSet(OpenRisk, Symbol),
                      sector  |-> SumFunctionOnSet(OpenRisk, InSector(s)),
                      cluster |-> SumFunctionOnSet(OpenRisk, InCluster(s))]
             q == Quantity(worth, base, tempo, cash, price, price - stop, used)
         IN /\ Approvable(q, price - stop, worth)
            /\ plan' = [plan EXCEPT ![p] =
                          [symbol |-> s, price |-> price, stop |-> stop, worth |-> worth, quantity |-> q,
                           cash |-> cash, tempo |-> tempo, base |-> base, used |-> used]]
    /\ UNCHANGED <<book, granted>>

Planned == [s \in Symbol |-> book[s].planned]

\* Mutant: the second check trusts the first.
FitsAlways(d) == TRUE

\* The recheck of reserve_entry_admission, on planned risks.
Fits(d) ==
    LET s == d.symbol
        risk == d.quantity * (d.price - d.stop)
    IN /\ (SumFunctionOnSet(Planned, Symbol) + risk) * 10000 <= d.worth * CombinedCap
       /\ (SumFunctionOnSet(Planned, InSector(s)) + risk) * 10000 <= d.worth * SectorCap
       /\ (SumFunctionOnSet(Planned, InCluster(s)) + risk) * 10000 <= d.worth * ClusterCap

\* reserve_entry_admission, or its rejection; a symbol is entered once.
ReserveSized(p) ==
    /\ plan[p] # NoPlan
    /\ LET d == plan[p]
       IN IF book[d.symbol].phase = "none" /\ Fits(d)
          THEN /\ book' = [book EXCEPT ![d.symbol] =
                             [phase |-> "reserved", planned |-> d.quantity * (d.price - d.stop),
                              ordered |-> d.quantity, filled |-> 0, limit |-> d.price, stop |-> d.stop]]
               /\ granted' = [symbol |-> d.symbol, worth |-> d.worth]
          ELSE UNCHANGED <<book, granted>>
    /\ plan' = [plan EXCEPT ![p] = NoPlan]

\* The order is accepted: the admission is linked to a trade row.
Accept(s) ==
    /\ book[s].phase = "reserved"
    /\ book' = [book EXCEPT ![s].phase = "open"]
    /\ UNCHANGED <<plan, granted>>

\* The order is dead, or the position is closed and reconciled.
Leave(s) ==
    /\ book[s].phase # "none"
    /\ book' = [book EXCEPT ![s] = NoEntry]
    /\ UNCHANGED <<plan, granted>>

\* The broker fills a part or the rest.
FillSome(s) ==
    /\ book[s].phase # "none"
    /\ \E n \in {1, book[s].ordered} : n > book[s].filled /\ book' = [book EXCEPT ![s].filled = n]
    /\ UNCHANGED <<plan, granted>>

\* A tightened stop, at the broker and in the row.
Raise(s) ==
    /\ book[s].phase = "open" /\ book[s].filled > 0
    /\ \E stop \in Stop : stop > book[s].stop /\ book' = [book EXCEPT ![s].stop = stop]
    /\ UNCHANGED <<plan, granted>>

SizingNext ==
    \/ \E p \in Clerk, s \in Symbol, price \in Quote, stop \in Stop : Size(p, s, price, stop)
    \/ \E p \in Clerk : ReserveSized(p)
    \/ \E s \in Symbol : Accept(s) \/ Leave(s) \/ FillSome(s) \/ Raise(s)

SizingSpec == SizingInit /\ [][SizingNext]_sizingVars

---------------------------------------------------------------------------
(* Properties.                                                             *)

SizingTypeOK ==
    /\ book \in [Symbol -> [phase : {"none", "reserved", "open"}, planned : Nat, ordered : Nat,
                            filled : Nat, limit : Quote \cup {0}, stop : Stop \cup {0}]]
    /\ \A s \in Symbol : book[s].filled <= book[s].ordered
    /\ DOMAIN plan = Clerk
    /\ \A p \in Clerk : plan[p] # NoPlan => plan[p].symbol \in Symbol /\ plan[p].quantity >= 1

\* What docs/RISK_MODEL.md allows of q shares, each a constraint of its own.
Allowed(d, q) ==
    LET r == d.price - d.stop
    IN /\ q * r * 1000000 <= d.worth * d.base * d.tempo
       /\ q * r * 10000 <= d.worth * AbsoluteRisk
       /\ q * d.price <= d.cash
       /\ q * d.price * 10000 <= d.worth * PositionCap
       /\ (q * r + d.used.total) * 10000 <= d.worth * CombinedCap
       /\ (q * r + d.used.sector) * 10000 <= d.worth * SectorCap
       /\ (q * r + d.used.cluster) * 10000 <= d.worth * ClusterCap
       /\ q <= Liquidity

\* "The whole-share risk quantity is reduced, never increased": an approved
\* quantity respects every budget, and one share more would break one.
SizedToTheBudget ==
    \A p \in Clerk : plan[p] # NoPlan =>
        Allowed(plan[p], plan[p].quantity) /\ ~Allowed(plan[p], plan[p].quantity + 1)

\* The most that an entry can lose down to its stop, should the rest of its
\* order fill at the limit.
AtStake == [s \in Symbol |-> book[s].ordered * Positive(book[s].limit - book[s].stop)]

\* "Final admission is serialized in the database and rechecks ... portfolio,
\* sector, and cluster risk": though validate_entry sees a partly filled order
\* as small as its fill, all that is at stake stays within the portfolio's budget
\* and those of the last entry's sector and cluster, at the equity it had.
StakeWithinBudget == granted # NoPlan =>
    LET s == granted.symbol
        w == granted.worth
    IN /\ SumFunctionOnSet(AtStake, Symbol) * 10000 <= w * CombinedCap
       /\ SumFunctionOnSet(AtStake, InSector(s)) * 10000 <= w * SectorCap
       /\ SumFunctionOnSet(AtStake, InCluster(s)) * 10000 <= w * ClusterCap
===========================================================================
