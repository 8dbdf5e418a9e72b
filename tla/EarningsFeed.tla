---------------------------- MODULE EarningsFeed -----------------------------
(***************************************************************************)
(* How far away the earnings of a stock are, as a scan learns it and an    *)
(* entry relies on it.                                                     *)
(*                                                                         *)
(* A lookup counts the trading days until the next report and stores the   *)
(* number, on disk and in the hosted table; later scans take the number as *)
(* it is, and stamp it with their own time.  A candidate may be submitted  *)
(* long after its scan: run does so at once, paper and live-ticket read it *)
(* from a file.  Time passes in ticks, DayTicks to a day; what a scan has  *)
(* in hand it stores and stamps within Delay ticks.                        *)
(*                                                                         *)
(* Simplifications.  One stock, whose report does not move.  The other     *)
(* gates of a scan and of validate_entry are left out.  Holidays are       *)
(* weekdays, as the code counts them.                                      *)
(***************************************************************************)
EXTENDS Integers, FiniteSets

CONSTANTS Scanner,      \* commands that scan and submit
          DayTicks,     \* ticks of a day
          Report,       \* the days on which the stock may report
          Weekend,      \* the days that are Saturdays and Sundays
          Exclusion,    \* earnings_exclusion_trading_days
          Delay,        \* how long a number may be under way
          MaxTick       \* bound on the clock

ASSUME EarningsAssumption ==
    /\ DayTicks \in Nat \ {0, 1} /\ Report \subseteq Nat /\ Weekend \subseteq Nat
    /\ {Exclusion, Delay, MaxTick} \subseteq Nat
    /\ 2 * Delay <= DayTicks   \* no command takes half a day

VARIABLES
    tick,
    report,     \* the calendar: the day of the next report
    table,      \* earnings_cache: the stored number and updated_at
    file,       \* the number on disk and ts
    candidate,  \* the newest candidate: the number and earnings_retrieved_at
    lookup      \* a scan: its next step, the number in hand and since when

earningsVars == <<tick, report, table, file, candidate, lookup>>

\* An outcome that names no distance: the lookup failed or there is no report.
NoDays == -1

\* A number that was never stored.
Nothing == [days |-> NoDays, at |-> -1]

Waiting == [at |-> "idle", days |-> NoDays, since |-> 0]

Day == tick \div DayTicks

\* EARNINGS_CACHE_TTL_SECONDS and earnings_freshness_seconds: a day.
Ttl == DayTicks

\* _approx_trading_days_until.
TradingDays(from, to) ==
    IF to <= from THEN 0 ELSE Cardinality((from + 1 .. to) \ Weekend)

\* _trading_days_from_calendar: a report that is over does not count.
FromCalendar == IF report < Day THEN NoDays ELSE TradingDays(Day, report)

EarningsInit ==
    /\ tick = 0
    /\ report \in Report
    /\ table = Nothing /\ file = Nothing /\ candidate = Nothing
    /\ lookup = [p \in Scanner |-> Waiting]

---------------------------------------------------------------------------

InFlight == {"save", "share", "stamp"}

\* A scan goes on without a number ...
Seek(p, at) == lookup' = [lookup EXCEPT ![p].at = at]

\* ... or has one in hand.
Hold(p, at, days) ==
    lookup' = [lookup EXCEPT ![p] = [at |-> at, days |-> days, since |-> tick]]

StartLookup(p) ==
    /\ lookup[p].at = "idle"
    /\ Seek(p, "table")
    /\ UNCHANGED <<tick, report, table, file, candidate>>

\* Mutant: a stored number never grows old.
ReadTableAnyAge(p) ==
    /\ lookup[p].at = "table"
    /\ \/ table # Nothing /\ Hold(p, "stamp", table.days)
       \/ Seek(p, "file")
    /\ UNCHANGED <<tick, report, table, file, candidate>>

\* get_earnings_cache_many; the call may raise, which counts as a miss.
ReadTable(p) ==
    /\ lookup[p].at = "table"
    /\ \/ table # Nothing /\ tick - table.at <= Ttl /\ Hold(p, "stamp", table.days)
       \/ Seek(p, "file")
    /\ UNCHANGED <<tick, report, table, file, candidate>>

\* _cache_get; what it finds is not stored again.
ReadFile(p) ==
    /\ lookup[p].at = "file"
    /\ \/ file # Nothing /\ tick - file.at < Ttl /\ Hold(p, "stamp", file.days)
       \/ Seek(p, "ask")
    /\ UNCHANGED <<tick, report, table, file, candidate>>

\* _fetch_earnings_calendar: the answer, or none by the deadline of the batch.
AskCalendar(p) ==
    /\ lookup[p].at = "ask"
    /\ \E days \in {FromCalendar, NoDays} : Hold(p, "save", days)
    /\ UNCHANGED <<tick, report, table, file, candidate>>

Saved(p) == [days |-> lookup[p].days, at |-> tick]

\* _cache_set: a lookup that failed is stored like any other.
SaveFile(p) ==
    /\ lookup[p].at = "save"
    /\ file' \in {file, Saved(p)}
    /\ lookup' = [lookup EXCEPT ![p].at = "share"]
    /\ UNCHANGED <<tick, report, table, candidate>>

\* set_earnings_cache_many, best effort.
SaveTable(p) ==
    /\ lookup[p].at = "share"
    /\ table' \in {table, Saved(p)}
    /\ lookup' = [lookup EXCEPT ![p].at = "stamp"]
    /\ UNCHANGED <<tick, report, file, candidate>>

\* build_universe_assets and scan_with_report: the number gets the time of the
\* scan; without one, or within the exclusion, there is no candidate.
Stamp(p) ==
    /\ lookup[p].at = "stamp"
    /\ candidate' = IF lookup[p].days > Exclusion THEN Saved(p) ELSE candidate
    /\ lookup' = [lookup EXCEPT ![p] = Waiting]
    /\ UNCHANGED <<tick, report, table, file>>

\* validate_entry: the number is beyond the exclusion and its stamp is fresh.
EntryPasses ==
    candidate # Nothing /\ candidate.days > Exclusion /\ tick - candidate.at <= Ttl

PassTick ==
    /\ tick < MaxTick
    /\ \A p \in Scanner : lookup[p].at \in InFlight => tick < lookup[p].since + Delay
    /\ tick' = tick + 1
    /\ UNCHANGED <<report, table, file, candidate, lookup>>

EarningsNext ==
    \/ \E p \in Scanner :
          \/ StartLookup(p) \/ ReadTable(p) \/ ReadFile(p) \/ AskCalendar(p)
          \/ SaveFile(p) \/ SaveTable(p) \/ Stamp(p)
    \/ PassTick

EarningsSpec == EarningsInit /\ [][EarningsNext]_earningsVars

---------------------------------------------------------------------------
(* Properties.                                                             *)

Number == [days : Nat \cup {NoDays}, at : Nat \cup {-1}]

EarningsTypeOK ==
    /\ tick \in 0..MaxTick /\ report \in Report
    /\ table \in Number /\ file \in Number /\ candidate \in Number
    /\ lookup \in [Scanner -> [at : {"idle", "table", "file", "ask"} \cup InFlight,
                               days : Nat \cup {NoDays}, since : 0..MaxTick]]

\* A stored number and a candidate live a day each, and each may be stored a
\* moment late: they pass at most three midnights.
Drift == 3

\* docs/RISK_MODEL.md has "earnings more than five trading sessions away for stocks".
\* The stored number is as of another day, and the stamp that validate_entry compares
\* with earnings_freshness_seconds is that of the scan, not of the number: an entry may
\* come up to Drift trading days nearer, and no nearer, whatever lookups fail, caches
\* answer for each other and candidates wait in a file.
EarningsKeptAway == EntryPasses => TradingDays(Day, report) > Exclusion - Drift
===========================================================================
