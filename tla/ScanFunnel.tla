------------------------------ MODULE ScanFunnel ------------------------------
(***************************************************************************)
(* DeterministicSwingScanner.scan_with_report and persist_scan_decisions:  *)
(* a universe goes through the gates stock by stock, the best candidates   *)
(* are kept, and they and the rejections are written as the cohort of the  *)
(* scan, each row in a transaction of its own: a command that dies is a    *)
(* behaviour that stops.                                                   *)
(*                                                                         *)
(* Of a stock only what the gates tell apart is kept: the first plain gate *)
(* it fails, what is known of its events, the setups whose chart           *)
(* conditions it meets, the score of each, and a fingerprint of the other  *)
(* features.  How a chart gives these and how bars give a regime is left   *)
(* out.                                                                    *)
(***************************************************************************)
EXTENDS Integers, FiniteSets

CONSTANTS Universe,     \* how many stocks; each is its place in the alphabet
          Profile,      \* what a scan may find of a stock
          Points,       \* the scores and thresholds
          Addition,     \* the additions to a threshold
          ExclusionDays,   \* earnings_exclusion_trading_days
          MaximumScannerCandidates

SetupType == {"BREAKOUT_RETEST", "RELATIVE_STRENGTH_CONTINUATION", "TREND_PULLBACK"}

MarketRegime == {"STRONG_BULL", "BULL", "NEUTRAL", "CHOPPY", "BEAR", "HIGH_VOLATILITY_RISK_OFF"}

\* None, of the trading days until the earnings.
NotKnown == -1

\* Of the reasons of a stage those that say something of the stock and those that
\* do not are told apart.
Reason == {"trading_halt", "spread_unavailable", "minimum_price", "trend_rs_ineligible",
           "setup_no_match"}

ProfileType ==
    [fails : (Reason \ {"setup_no_match"}) \cup {"nothing"}, features : Nat, etf : BOOLEAN,
     event : {"clear", "blocked", "unknown"}, days : Nat \cup {NotKnown}, sectored : BOOLEAN,
     charts : SUBSET SetupType, score : [SetupType -> Nat]]

ASSUME ScanAssumption ==
    /\ {Universe, ExclusionDays, MaximumScannerCandidates} \subseteq Nat
    /\ Points \subseteq Nat /\ Addition \subseteq Nat
    /\ Profile \subseteq ProfileType

VARIABLES
    config,     \* SwingSettings: the thresholds and what a regime adds to them
    regime,
    at,         \* the command: its step ...
    todo,       \* ... and the rows it has yet to write
    scanned,    \* report: stocks looked at ...
    passed,     \* ... that passed each stage, and the strong ones
    rejections, \* of the report
    results,    \* the candidates
    filed       \* candidate_scores and decision_records of the scan, and the notified

scanVars == <<config, regime, at, todo, scanned, passed, rejections, results, filed>>

---------------------------------------------------------------------------
(* Settings.                                                               *)

ScanSettings ==
    [buy : Points, preferred : Points, borderline : Points,
     neutral : Addition, choppy : Addition, hostile : Addition]

\* __post_init__: the others raise, and no command runs.
Accepted(s) ==
    /\ s.buy >= 70 /\ s.buy <= s.preferred /\ s.preferred <= 100
    /\ s.borderline < s.buy
    /\ s.neutral <= s.choppy /\ s.choppy <= s.hostile /\ s.hostile <= 30

\* regime_throttle.
Threshold ==
    LET addition == CASE regime \in {"STRONG_BULL", "BULL"} -> 0
                      [] regime = "NEUTRAL" -> config.neutral
                      [] regime = "CHOPPY" -> config.choppy
                      [] OTHER -> config.hostile
    IN IF config.buy + addition > 101 THEN 101 ELSE config.buy + addition

\* score_entry, of a setup that has passed its validator.
Route(total) ==
    IF regime = "HIGH_VOLATILITY_RISK_OFF" THEN "reject"
    ELSE IF total >= Threshold
         THEN IF total >= config.preferred THEN "very_strong" ELSE "strong"
         ELSE IF total >= config.borderline THEN "watchlist" ELSE "reject"

Strong(c) == c.route \in {"strong", "very_strong"}

ScanInit ==
    /\ config \in {s \in ScanSettings : Accepted(s)}
    /\ regime \in MarketRegime
    /\ at = "scan" /\ todo = {} /\ scanned = 0
    /\ passed = [liquidity_history |-> 0, trend_rs |-> 0, setup |-> 0, strong |-> 0]
    /\ rejections = {} /\ results = {}
    /\ filed = [candidates |-> {}, accepted |-> {}, rejected |-> {}, noted |-> {}]

---------------------------------------------------------------------------
(* The gates of one stock.                                                 *)

\* Mutant: earnings of which nothing is known are no risk.
EventRiskOptimistic(p) ==
    IF p.event # "clear" THEN p.event
    ELSE IF ~p.etf /\ p.days # NotKnown /\ p.days <= ExclusionDays THEN "blocked" ELSE "clear"

\* event_risk: unknown (None), blocked (True) or clear (False).
EventRisk(p) ==
    IF p.event # "clear" \/ p.etf THEN p.event
    ELSE IF p.days = NotKnown THEN "unknown"
    ELSE IF p.days <= ExclusionDays THEN "blocked" ELSE "clear"

\* validate_setup; every validator has the two event conditions, and relative
\* strength needs a sector and no hostile regime besides.
Validates(p, setup) ==
    /\ setup \in p.charts
    /\ EventRisk(p) = "clear"
    /\ setup = "RELATIVE_STRENGTH_CONTINUATION" =>
          p.sectored /\ regime \notin {"BEAR", "HIGH_VOLATILITY_RISK_OFF"}

Passing(p) == {setup \in SetupType : Validates(p, setup)}

\* Why the stock is rejected, if it is.
RejectedFor(p) ==
    IF p.fails = "nothing" /\ Passing(p) = {} THEN "setup_no_match" ELSE p.fails

\* A rejection with its feature values.
RejectionOf(stock, p) ==
    [stock |-> stock, reason |-> RejectedFor(p),
     features |-> IF RejectedFor(p) \in {"trading_halt", "spread_unavailable"} THEN 0
                  ELSE p.features]

\* The setups by their value.
SetupRank(setup) ==
    CASE setup = "BREAKOUT_RETEST" -> 1
      [] setup = "RELATIVE_STRENGTH_CONTINUATION" -> 2
      [] setup = "TREND_PULLBACK" -> 3

\* max by score, then by setup.
BestSetup(p) ==
    CHOOSE s \in Passing(p) : \A t \in Passing(p) :
        \/ p.score[s] > p.score[t]
        \/ p.score[s] = p.score[t] /\ SetupRank(s) >= SetupRank(t)

\* _candidate: what the later gates read of it.
CandidateOf(stock, p) ==
    LET setup == BestSetup(p)
    IN [stock |-> stock, setup |-> setup, score |-> p.score[setup],
        route |-> Route(p.score[setup]), etf |-> p.etf, event |-> p.event, days |-> p.days]

\* The counters of the report.
Passes(stage, p) ==
    CASE stage = "liquidity_history" ->
             RejectedFor(p) \notin {"trading_halt", "spread_unavailable", "minimum_price"}
      [] stage = "trend_rs" -> RejectedFor(p) \in {"setup_no_match", "nothing"}
      [] stage = "setup" -> RejectedFor(p) = "nothing"
      [] stage = "strong" ->
             RejectedFor(p) = "nothing" /\ Strong(CandidateOf(scanned + 1, p))

\* One turn of the loop over the assets.
ScanStock ==
    /\ at = "scan" /\ scanned < Universe
    /\ scanned' = scanned + 1
    /\ \E p \in Profile :
         /\ passed' = [s \in DOMAIN passed |-> passed[s] + IF Passes(s, p) THEN 1 ELSE 0]
         /\ \/ /\ RejectedFor(p) = "nothing"
               /\ results' = results \cup {CandidateOf(scanned', p)}
               /\ UNCHANGED rejections
            \/ /\ RejectedFor(p) # "nothing"
               /\ rejections' = rejections \cup {RejectionOf(scanned', p)}
               /\ UNCHANGED results
    /\ UNCHANGED <<config, regime, at, todo, filed>>

---------------------------------------------------------------------------
(* The list and the cohort.                                                *)

\* results.sort: by score, then by ticker.
Before(c, d) == c.score > d.score \/ (c.score = d.score /\ c.stock < d.stock)

\* Mutant: the list is cut before it is sorted.
KeptUnsorted(all) ==
    {c \in all : Cardinality({d \in all : d.stock < c.stock}) < MaximumScannerCandidates}

\* results[: maximum_scanner_candidates].
KeptSorted(all) ==
    {c \in all : Cardinality({d \in all : Before(d, c)}) < MaximumScannerCandidates}

\* Mutant: the list is written as it was before the cut.
FinishScanUncut ==
    /\ at = "scan" /\ scanned = Universe
    /\ results' = KeptSorted(results)
    /\ at' = "candidates" /\ todo' = results
    /\ UNCHANGED <<config, regime, scanned, passed, rejections, filed>>

\* What scan returns is what is written.
FinishScan ==
    /\ at = "scan" /\ scanned = Universe
    /\ results' = KeptSorted(results)
    /\ at' = "candidates" /\ todo' = results'
    /\ UNCHANGED <<config, regime, scanned, passed, rejections, filed>>

\* record_candidate of the next one ...
RecordCandidate ==
    /\ at = "candidates"
    /\ \E c \in todo \ filed.candidates :
         /\ \A d \in todo : ~Before(d, c)
         /\ filed' = [filed EXCEPT !.candidates = @ \cup {c}]
    /\ UNCHANGED <<config, regime, at, todo, scanned, passed, rejections, results>>

\* ... and its record_decision.
FileCandidate ==
    /\ at = "candidates"
    /\ \E c \in (todo \cap filed.candidates) \ filed.accepted :
         /\ filed' = [filed EXCEPT !.accepted = @ \cup {c}]
         /\ todo' = IF Strong(c) THEN todo ELSE todo \ {c}
    /\ UNCHANGED <<config, regime, at, scanned, passed, rejections, results>>

\* NEW_HIGH_QUALITY_CANDIDATE.
NoteCandidate ==
    /\ at = "candidates"
    /\ \E c \in todo \cap filed.accepted :
         /\ filed' = [filed EXCEPT !.noted = @ \cup {c}]
         /\ todo' = todo \ {c}
    /\ UNCHANGED <<config, regime, at, scanned, passed, rejections, results>>

TurnToRejections ==
    /\ at = "candidates" /\ todo = {}
    /\ at' = "rejections" /\ todo' = rejections
    /\ UNCHANGED <<config, regime, scanned, passed, rejections, results, filed>>

\* decision_fingerprint, without the ticker.
SameFingerprint(r, q) == r.reason = q.reason /\ r.features = q.features

\* INSERT OR IGNORE, unique by scan, kind and fingerprint.
FileRejection ==
    /\ at = "rejections"
    /\ \E r \in todo :
         /\ \A q \in todo : r.stock <= q.stock
         /\ todo' = todo \ {r}
         /\ filed' = IF \E q \in filed.rejected : SameFingerprint(r, q) THEN filed
                     ELSE [filed EXCEPT !.rejected = @ \cup {r}]
    /\ UNCHANGED <<config, regime, at, scanned, passed, rejections, results>>

ScanNext ==
    \/ ScanStock \/ FinishScan
    \/ RecordCandidate \/ FileCandidate \/ NoteCandidate \/ TurnToRejections \/ FileRejection

ScanSpec == ScanInit /\ [][ScanNext]_scanVars

---------------------------------------------------------------------------
(* Properties.                                                             *)

CandidateType ==
    [stock : 1..Universe, setup : SetupType, score : Nat,
     route : {"reject", "watchlist", "strong", "very_strong"}, etf : BOOLEAN,
     event : {"clear", "blocked", "unknown"}, days : Nat \cup {NotKnown}]

RejectionType == [stock : 1..Universe, reason : Reason, features : Nat]

ScanTypeOK ==
    /\ config \in ScanSettings /\ Accepted(config) /\ regime \in MarketRegime
    /\ at \in {"scan", "candidates", "rejections"}
    /\ scanned \in 0..Universe
    /\ passed \in [{"liquidity_history", "trend_rs", "setup", "strong"} -> Nat]
    /\ results \subseteq CandidateType /\ rejections \subseteq RejectionType
    /\ todo \subseteq results \cup rejections
    /\ filed \in [candidates : SUBSET results, accepted : SUBSET results,
                  rejected : SUBSET rejections, noted : SUBSET results]

\* validate_entry: the gates for events and earnings, whose status is clear just where
\* the days are known: load_scan_inputs sets both ...
EventGates(c) ==
    /\ c.event = "clear"
    /\ ~c.etf => c.days # NotKnown /\ c.days > ExclusionDays

\* ... and for the score.
ScoreGate(c) == c.score >= config.buy

\* The same gates stand in two places, the validators and validate_entry, each with
\* its own reading of None: no candidate is listed whose events or earnings the risk
\* engine would refuse on the spot, and none is strong, and sent to the models, whose
\* score it would, whatever thresholds are accepted and whatever the regime adds.
ListedPassesGates ==
    \A c \in results : EventGates(c) /\ (Strong(c) => ScoreGate(c))

Fewer(a, b) == IF a <= b THEN a ELSE b

\* The report is counted before the list is cut and says of the whole universe what
\* the list says of its best: every stock is rejected or a match, and as many of the
\* strong ones are listed as the list has room for, so that CANDIDATES_AVAILABLE is
\* never said of a list without one.
ReportMatchesList ==
    at # "scan" =>
        /\ Universe = Cardinality(rejections) + passed.setup
        /\ Cardinality(results) = Fewer(passed.setup, MaximumScannerCandidates)
        /\ Cardinality({c \in results : Strong(c)}) = Fewer(passed.strong, MaximumScannerCandidates)

\* docs/refactor/05_JOURNAL_REPORT.md: "Every scanner rejection is persisted as the
\* control group in decision_records".
EveryRejectionOnFile ==
    at = "rejections" /\ todo = {} => filed.rejected = rejections
===========================================================================
