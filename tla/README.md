# Swarm Trader: specification and verification

TLA+ models of the parts of the swing trader (`src/src/swing`) that decide
whether money is where the database says it is: how an entry order gets to the
broker, how its outcome is found out after a timeout or a crash, how a position
is followed until it is closed, and who may stop or resume trading; and of the
smaller parts around them whose steps can interleave or be cut off: sizes, stop
amendments, live tickets, notifications, learning, the agents' kept answers, the
scan and the caches it reads, splits, and the upgrade of the database.

## 1. The system

The program is a command-line tool. Scheduled agents, each in a sandbox of its
own, and human operators run commands (`run`, `reconcile`, `close`,
`tighten-stop`, `kill-switch`, `ack-reconciliation`, ...) against one shared
SQLite (or hosted) database and one broker account. There is no daemon, no lock
between processes and no message queue: a *process* is one command, processes
interleave at every database transaction and every broker call, and each may
die between any two of them.

| Component | State it keeps | Operations | Must hold |
|---|---|---|---|
| Entry submission (`execution.py`) | `entry_admissions`, `trades`, halt | `submit`, `request_manual_close` | an intent reaches the broker once; no outcome is lost; caps hold under races |
| Broker reconciliation (`reconciliation.py`) | the same rows, fills, lifecycle, `last_reconciliation` | `reconcile` | what the broker holds is found, adopted and followed to its end; otherwise halt |
| Rows and transactions (`database.py`) | all tables | reserve, update, add, record, CAS transitions | exclusive admission; idempotent fills; one postmortem per trade |
| Risk engine (`risk.py`) | `drawdown_halt`, `weekly_drawdown_halt`, `loss_streak_halt` | `validate_entry`, `validate_stop_change` | never over the risk budgets; halts are durable until a human clears them |
| Lifecycle (`lifecycle.py`) | `position_lifecycle` | create, protect, profit, trail, exit, close | only legal transitions, agreeing with the trade |
| Postmortem (`postmortem.py`) | `postmortems`, `lessons`, halt | `close_and_review` | each closed trade is reviewed once |
| Protective stops (`stops.py`) | `trades.final_stop`, broker stop order | `tighten` | a stop never widens |
| Notifications (`notifications.py`, `notification_channels.py`) | `notifications`, watchdog mark | emit, drain, watchdog | no event is dropped silently |
| Live tickets (`cli.py`, `human_supervised.py`) | `live_ticket_approvals` | ticket, record fill, record exit | an approval is used once |
| Learning (`lessons_review.py`, `autoresearch_swing`) | `lessons`, `hypotheses`, `strategy_versions` | review, validate, approve, deploy | what is approved has the evidence; an approval retires every other version |
| Agents (`agents.py`) | `llm_review_state` | `analyze` | a proposal rests on answers to its own material |
| Schema (`database.py`) | `schema_migrations`, the tables | `initialize` | an upgrade is finished by whoever comes next; a version vouches for its columns |
| Scanner (`market.py`, `strategy.py`, `decision_versioning.py`) | the report, `candidates`, `decision_records` | `scan_with_report`, `persist_scan_decisions` | what is listed passes the later gates; the report is true of the list; the cohort is complete |
| Market data (`data_feed.py`) | `nasdaq_halts_cache`, `earnings_cache`, their files | `load_scan_inputs`, `update-halts` | what is cached is not too old to act on |
| Reports (`reporting.py`, `analytics.py`) | - | read and print | not modelled |

**How they interact.** `submit` starts with a mandatory `reconcile`, validates
against fresh broker and database state, reserves the intent in one write
transaction, calls the broker, and then stores the outcome in several separate
transactions. `reconcile` takes a snapshot of the broker in four calls, walks
the admissions that are not linked to a trade, then the open trades, and finally
records whether it was clean or latches `reconciliation_halt`. Operators write
single rows of `system_state`. Everything meets in the database and at the
broker; nothing else is shared.

**What is hard.** A broker call whose answer is lost; a crash between any two
transactions; a reconciler that works from a snapshot that other processes have
overtaken; two reconcilers at once; checks in one transaction and the write that
relies on them in another; repeated commands.

## 2. Modules

| Module | What it is |
|---|---|
| `EntryQuota` | the abstract promise of admission: an intent is admitted once, within the position, daily and weekly limits, then finished or void |
| `EntryAdmission` | many intents: `submit` and `reconcile` on the rows of admissions and trades, the halt, the kill switch, `ack-reconciliation`, the broker, crashes |
| `TradeLifecycle` | the abstract promise of a trade: its lifecycle takes legal transitions, it is closed and reviewed only over a pending exit of which something is sold, one lesson is drawn, and the lifecycle ends behind it |
| `PositionBook` | one trade: fills, protection, lifecycle, exit, postmortem, manual close, as `submit`, `reconcile` and `close` write them, with partial fills and partial exits |
| `HaltLatches` | the halts of the risk engine: snapshots of the equity, the loss streak, `validate_entry` read by read, the commands that set and clear |
| `RiskSizing` | the whole-share quantity, the open risk and the reservation's second check, while orders fill in parts |
| `StopAmendment` | `tighten-stop` by several operators: row, broker GET, broker PATCH, row |
| `LiveTicket` | approvals of the human-supervised path, the journalled fill and exit |
| `Notifications` | notification rows, the relay that delivers them, the crash watchdog |
| `Learning` | lessons, hypotheses, backtests, approval and deployment of strategy versions |
| `AgentReview` | the four agent roles over screened candidates, with kept answers that overlapping scans share |
| `SchemaMigration` | `initialize` statement by statement, by several commands at once, with SQLite's transactions |
| `CorporateAction` | one position through splits and reverse splits: what `reconcile` takes over, transaction by transaction |
| `HaltFeed` | the symbols an exchange has halted, through the hosted row, the file and the relay, to the scans |
| `EarningsFeed` | the days until a stock's earnings, through the table, the file and the stamp of a scan, to an entry |
| `ScanFunnel` | a scan: the gates, the report, the cut list, and the rows of the cohort |
| `MCEntryAdmission`, `MCPositionBook`, `MCHaltLatches`, `MCScanFunnel` | instances for TLC |
| `MCRaces` | two processes at the entries, at a position or at the caches of the halts |
| `MCOperations` | the components of which something must never happen, one per behaviour |
| `MCSchedule` | `PositionBook`, `Notifications`, `SchemaMigration`, one per behaviour, with their fairness |
| `SumTheorems` | facts about sums over finite sets, for the proofs about risks and lots |
| `EntryAdmissionProofs`, `PositionBookProofs` | TLAPS proofs about the module of that name |
| `RiskProofs` | proofs about `HaltLatches` and `RiskSizing` |
| `BrokerProofs` | proofs about `LiveTicket`, `StopAmendment` and `CorporateAction` |
| `MarketProofs` | proofs about `HaltFeed`, `EarningsFeed` and `ScanFunnel`, and that `MCOperations` implements the components it puts side by side |
| `LearningProofs` | proofs about `AgentReview` and `Learning` |
| `StorageProofs` | proofs about `Notifications` and `SchemaMigration`, and that `MCSchedule` and `MCRaces` implement the components they put side by side |

The two detailed modules cut the same code at right angles. `EntryAdmission` has
many intents that compete for quotas and takes a fill as a whole;
`PositionBook` has one trade and follows each share of it. What they share,
the reconciler's walk and the submitter's tail, is in both at the detail that
each needs.

### EntryAdmission

| Variable | Code |
|---|---|
| `adm`, `linked` | `entry_admissions.status`, `trade_id IS NOT NULL` |
| `trade` | `trades.status` (`PARTIALLY_FILLED` with `OPEN`; `REJECTED` with `CANCELED`) |
| `order`, `sends` | the broker's order; how often `place_order` was called |
| `halted`, `kill`, `lastClean` | `system_state`: `reconciliation_halt`, `kill_switch`, `last_reconciliation.reconciled` |
| `pc`, `job`, `seen`, `todo`, `cur`, `dirty` | a process: where it stands, its intent, its snapshot of the broker, the rows its loop has yet to visit, the row in hand, whether `discrepancies` is non-empty |
| `fog` | history: the unknown outcomes there were when the process started |

Each database transaction and each broker call of the code is an action:
`Start` (snapshot), `ListAdmissions`, `Unmatched`/`ReleaseDead`/`Adopt`,
`LinkRecovered`, `ListTrades`, `ReviewHeld`/`ReviewWorking`/`ReviewExited`/
`ReviewDead`/`ReviewMissing`, `CloseAdmission`, `FinishClean` or `LatchMismatch`
and `RecordMismatch`; then `Validate`, `Reserve`, `Send`, `Answer`/`CallFails`,
`RecordTerminal`, `AddTrade`, `LinkTrade`, `MarkUnknown`, `LatchUnknown`. A
process may take `Crash` anywhere. `BrokerMoves` is the broker on its own.

The abstractions: every intent has a ticker of its own; a partial fill counts as
a fill; gates of `validate_entry` that look only at the candidate or the quote
are a free `RejectEntry`; several reads without a write between them are one
step when only the process's own decision depends on them; the trading day, the
equity and so the risk budgets stay fixed. "dead" is every broker status that
ends an unfilled order. The snapshot is taken in one step.

### PositionBook

| Variable | Code |
|---|---|
| `bought`, `root`, `legs`, `legSold`, `closeSold`, `closing`, `aboveStop` | the broker's side: filled quantity and status of the entry order, both legs active, shares sold by legs and by close requests, a close request at work, whether the entry was filled above its initial stop |
| `trade`, `shares` | `trades.status`, `trades.shares` |
| `lots` | `trade_fills`, keyed by `(trade, cumulative quantity)` like its idempotency key |
| `lc` | `position_lifecycle.state` |
| `adm` | the admission: `active`, ended without a link, linked |
| `reviewed`, `lessons` | the row of `postmortems` (UNIQUE per trade), the rows of `lessons` |
| `requested`, `halted` | the `MANUAL_CLOSE_REQUESTED` event, `reconciliation_halt` |
| `pc`, `back`, `pos`, `seen`, `size`, `prior`, `was`, `dirty` | a process: where it stands, where its lifecycle transition returns to, the position and then the orders it saw, the trade size, lots and lifecycle state it read, whether it has noted a discrepancy |

Every transaction and every broker call is an action again. `reconcile`:
`StartReconcile` (`get_positions`), `ReadOrders` (orders and history, a later
call, so that the two disagree when the broker moves in between), `Recover`,
`Refill`, `Relink`; `ListTrade`; with a position `Held`, `SyncLot`, `Hold`,
`Look`, `Protect`, `Alarm`, `Emergency`; without one `Gone`, `SyncLot`, `Grow`,
`Exit`, `CreateExit`, `NoExit`; then `Review`, `Close`, `RecordPostmortem`,
`Observe`, `EndTrade`, `Finish`. A lifecycle transition is `ReadState` and
`SwapState`, as `transition` reads the row and compares and swaps it later.
`request_manual_close`: `StartClose`, `ManualClose`, `HaltUnknownClose`,
`NoteClose`. The tail of `submit`: `Persist`, `Fill`, `Link`, `Open`, `Placed`,
`Remediate`, `RemedyClose`, `MarkUnknown`, `LatchUnknown`. The broker: `Buy`,
`EndEntry`, `SellByLeg`, `SellByClose`, `LoseLegs`.

The abstractions: `PARTIALLY_FILLED` counts as `OPEN` and `REJECTED` as
`CANCELED`; of the prices only whether the entry was filled above its initial stop,
for all its fills alike (`aboveStop`, chosen with the first state), because
`record_entry_fill` and `close_and_review` raise where it was not (`FillRefused`,
`Review`); so no R and no P&L; splits are in `CorporateAction`; notifications
and rows that nothing reads back are left out. No command calls
`evaluate_stop_management` or `evaluate_exit`, so no lifecycle becomes
`PROFITABLE` or `TRAILING`, although the transitions stay in `Legal`.

`TradeLifecycle` says what the rows of the trade promise without processes, snapshots or
quantities. `PositionBook` implements it (`LifecycleSpec`) with `exited` for "the broker has
sold some of it" and `closed` for `trade = "CLOSED"`; `lc`, `reviewed` and `lessons` are the
same variables. `Overwrite` is in it because `update_trade` writes the status a reconciler
arrived at, whatever the row has become: a closed trade may be shown open again, but never
reviewed again.

### HaltLatches

| Variable | Code |
|---|---|
| `equity` | the broker account's equity, which moves freely |
| `high`, `weekHigh` | `MAX(equity)` over all rows of `equity_snapshots`, over this week's |
| `history`, `open` | the closed trades by `exit_datetime`, win or loss; the number of open ones |
| `latched` | `system_state`: `kill_switch`, `drawdown_halt`, `weekly_drawdown_halt`, `loss_streak_halt` |
| `pc`, `eq`, `losses`, `peak` | a process: where it stands, the equity, streak and high as it read them |
| `held`, `base` | history: the reasons to halt in force ever since a validation began, the highs there were then |

`Reconcile`, `CloseTrade`, `ReviewStreak`, `EndWalk`, `StoreSnapshot` are the
parts of `reconcile` and `close_and_review` that matter to halts; `Refresh`,
`RecordSnapshot`, `ReadLosses` are `refresh_portfolio_state`; `Gate` (once per
halt), `CountLosses`, `ReadHigh`, `Judge`, `Decide` the reads of
`validate_entry` in their order, `Latch` its `activate_halt`, `Reject` every
gate that is not modelled, `Enter` the approved entry. `Kill`, `Clear` are the
operators' commands; `Market`, `NewWeek` the world. A closed trade is inserted
anywhere in `history`, since the broker dates the exit. `reconciliation_halt` is
in `EntryAdmission`.

### The components beside the entry path

| Module | Variable | Code |
|---|---|---|
| `RiskSizing` | `book` | per symbol: `entry_admissions.planned_dollar_risk` or the `trades` row, and the broker's filled part |
| | `plan` | the approved `RiskDecision` a process holds |
| | `granted` | history: the entry reserved last, and its equity |
| `StopAmendment` | `chain` | the broker's stop orders, each replaced by the next |
| | `rowStop`, `rowOpen` | `trades.final_stop`, `trades.status` |
| | `amend` | per operator: the call reached, the order and the price named |
| `LiveTicket` | `ticket` | `live_ticket_approvals`: issued, expired, consumed |
| | `live` | per decision: its `trades` row, lots, `position_lifecycle`, postmortem |
| | `liveHalt`, `job` | `reconciliation_halt`; per terminal the next call of its command |
| | `diverged` | history: the decisions whose fill broke the approved geometry |
| `Notifications` | `notes` | `notifications`: kind, `delivery_status`, `delivery_attempts`, in order of id |
| | `queue`, `sending`, `relayDeaths` | the rows the relay has yet to deliver, oldest first; what the channel said of the one in hand; relays killed |
| | `watermark`, `incident` | `watchdog_last_notification_id`; the failure the watchdog works on |
| `Learning` | `lessons`, `hypotheses`, `backtests`, `versions` | the tables of those names and `strategy_versions` |
| | `deployed` | `settings.strategy_version` |
| | `review`, `verdict`, `approval` | where a review, a comparison and an approval stand |
| `AgentReview` | `reviews` | `llm_review_state`, each answer with the score the model saw |
| | `scan`, `proposals` | per process: candidate, role, answers collected, finalists; what it proposes, with the answers |
| `SchemaMigration` | `store`, `draft`, `writer` | the file as committed, as the open transaction sees it, and whose that is |
| | `starter`, `deaths` | per command: the statement reached; commands that died |

| `CorporateAction` | `holding`, `legSales`, `otherSales`, `actions`, `splits` | the broker: the position, what its legs and what others sold, the actions it declares, how many there were |
| | `tradeRow`, `fills`, `events`, `mismatch` | `trades.shares` and `entry_price`; the sums of `trade_fills`; the `CORPORATE_ACTION_RECONCILED` events; `reconciliation_halt` |
| | `reviewing`, `kills` | the reconcile: its next step and what it has read; reconciles that died |
| `HaltFeed` | `time`, `since` | the clock; when the exchange halted a symbol |
| | `hosted`, `disk` | `nasdaq_halts_cache` and the file of `_cache_set`, each with its time; history: when the answer was given |
| | `feeder` | per process: its next step and the answer in hand |
| `EarningsFeed` | `tick`, `report` | the clock; the day of the next report |
| | `table`, `file` | `earnings_cache` and the file, each a number and its time |
| | `candidate`, `lookup` | the newest candidate with `earnings_retrieved_at`; per scan its next step and the number in hand |
| `ScanFunnel` | `config`, `regime` | the thresholds of `SwingSettings`; what `classify` found |
| | `scanned`, `passed`, `rejections`, `results` | the counters and rejections of `ScanFunnelReport`; the candidates |
| | `at`, `todo`, `filed` | the command: its step and the rows it has yet to write; `candidate_scores` and `decision_records` of the scan and its notified candidates |

`RiskSizing` takes prices and risks as whole numbers and rates in basis points,
so that its divisions are the code's floors exactly; an order fills at its limit.
`StopAmendment` has prices in tenths of a cent, because the broker is told whole
cents and the row is not. `AgentReview` reduces an answer to whether the pipeline
goes on with it. `SchemaMigration` follows what Python's `sqlite3` commits and
when: a script commits what is pending and then each of its statements, an
`INSERT` opens a transaction, an `ALTER TABLE` outside one commits by itself. It
models the local file; the hosted Turso connection is a different driver and is
not modelled.

`CorporateAction` has quantities and prices as whole numbers, which its instances
divide evenly. That a broker declares actions at all is external: the adapters of
the repository do not ask for them, the reconciler reads them from the history it is
given. `HaltFeed` and `EarningsFeed` have a clock that waits for what is under way,
`Latency` and `Delay` ticks at most; without such a bound a process that sleeps
between the answer of the feed and its write could store anything of any age.
`ScanFunnel` reduces a stock to what the gates tell apart: the first plain gate it
fails, what is known of its events and earnings, the setups its chart meets and their
scores. It takes all three states of `prohibited_event_risk` that the scanner's
interface has, although `build_universe_assets` only ever fills in "clear".

These components share no rows that decide anything in another of them, so that a
behaviour of `MCOperations`, `MCRaces` or `MCSchedule` exercises one, chosen at the
start: interleaving two would multiply the states and add no behaviour of either.

## 3. Runs

| Run | Instance | Question |
|---|---|---|
| `admission_race` | two intents of one day, two processes | at most one order per intent (`SentAtMostOnce`), nothing accepted lost from the exposure (`ExposureIsCounted`), no entry over an unsettled outcome (`NoEntryOverUnknownOutcome`), quotas under races (`QuotaSpec`, refinement) |
| `races` | two processes: an entry of an earlier day, tracked or of unknown outcome, and one of today; or a position of one share, a crash; or two scans and relays of one symbol | `EntriesAreSafe` (`ExposureIsCounted`, `RiskWithinBudget` and `NoEntryOverUnknownOutcome`); `ReviewedOnce`, `ClosedLifecycleIsReviewed`, the rows of the trade go the way of `TradeLifecycle` (`LifecycleSpec`, refinement); `HaltedIsExcluded` |
| `admission_restart` | two intents, two crashes, one process, operator commands, fair schedule | `TypeOK`, the inductive invariant `IInv`, `RiskGrowsWithinBudget` (no step takes the risk of an account, sector or cluster further beyond its budget) and `AcceptedOrderGetsTrade` (liveness) |
| `operations` | nine components, one per behaviour | `TypeOK`, `EntryRespectsHalts`, `NoEntryIntoDrawdown` (halts); `SizedToTheBudget`, `StakeWithinBudget`; `RowNotTighterThanBroker`, `BrokerStopNeverFalls`; `DivergedNeverRecorded`, `LifecycleClosedLast`; `ProductionBacked`, `OneApprovedVersion`, `OneOpenHypothesis`; `ProposalsRestOnReviews`; `EarningsKeptAway`; `OnlyExplainedQuantities`; `ListedPassesGates`, `ReportMatchesList`; `OperationsTypeOK` for all |
| `schedule` | three components, one per behaviour, fair schedule: two shares and one process that may die; notifications; an upgrade | `CleanFinishMatches`, `ClosedOnVerifiedExit`, `SoldIsClosed`, `UnprotectedIsAnswered`; `NoIncidentForgotten`, `EveryNoteSettles`; `VersionsAreBacked`, `EveryCommandStarts`; `ScheduleTypeOK` for all |
| `admission_stale_ack` (violated) | one intent | the halt is lifted only when nothing is unknown |
| `halt_review` (violated) | one process, an equity that loses 10 percent and recovers, fair schedule | a drawdown read by a validation leads to `drawdown_halt` and so to its review |
| `position_lots_race` (violated) | two shares, two processes | the lots never exceed what the broker filled |
| `position_lost_postmortem` (violated) | one share, a crash, fair schedule | every closed trade gets its postmortem |
| `position_manual_close` (violated) | one share, a crash | a manual close reaches the broker once |
| `split_cost_basis` (violated) | two shares, one split | a split changes nothing about what the shares have cost |
| `scan_control_group` (violated) | two stocks | every rejection is on file |

**Bounds and why they suffice.** Two processes and two intents are what every
race in this code needs: all checks relate one process's job to what one other
process writes, and the quotas have room for one more entry (`DayCap = 1`, as
`config.py` forces; `WeekCap` 2 or 3; `PositionCap` 2). A budget holds two
entries when it counts one, but only one and a half when it counts both: each
of the account and sector books then rejects what the other would let through.
Crashes are bounded by `MaxCrash`: one where every interleaving matters, two
where recovery itself must be interrupted. A process that has returned starts
again without bound. In `PositionBook` one share shows every race about the
lifecycle and the postmortem; two shares are what a partial fill, a partial exit
and two lots need. In `HaltLatches` two equities suffice for "at the high" and
"below it by more than either percentage"; the week's and the overall high differ
when a week begins after the fall. The proofs remove these bounds for what they cover.

* halts of the exchange: one symbol, rows and answers that live one tick, four ticks:
  an answer may be a tick old when it is stored, live in a row for another, and be a
  tick old again when it is judged, with one tick left for a halt that stands longer;
* sizing: one clerk suffices, because what makes the second check necessary is
  an order that fills after it was counted, not a second submitter; three symbols
  of one sector, two of them in one cluster, two stops and two equities make each
  of the portfolio, sector, cluster, position and risk budgets the smallest one
  in some state;
* stops: two operators, three prices that round up, down and in the middle,
  four orders: an operator can hold an order that has been replaced twice;
* tickets: two terminals on two decisions, without a bound on repetitions;
* learning: one lesson of one regime (two scopes), two hypotheses, two
  backtests, versions up to two, any of which may be configured at any time, which is what two
  approvals take; the 30 samples of a review and of an approval are one here, so that a
  lesson that moves on takes a scope below them;
* agents: two overlapping scans, from nothing or from what an earlier scan kept
  at score 0; scores 3 and 6 with a threshold of 5, so that two reuses in a row
  would pass it; another regime; one finalist for the portfolio manager;
* earnings: one scanner, since the lookups of a stock race only through the caches and
  a failing call already leaves each of them old or new; two ticks a day, nine ticks, a
  report on the fourth day or behind a weekend: a number can drift by three midnights,
  and by a fourth if a time to live were not looked at;
* splits: two shares, two splits of factor two either way, declared with the quantities,
  with the ratio alone, with neither or not at all, a sale and a crash, so that
  a reconcile meets an action it has taken over, one it has not, one that was
  undone, one that leaves open what it explains, and a quantity that sales and splits
  moved at once;
* scan: three stocks, room for one, thresholds of 60, 70 and 90, additions of 0 and 20,
  which reach the cap of 101; profiles that differ in what the gates read;
* notifications: two rows from commands besides the watchdog's results, two attempts
  and one row per drain, so that a failing row competes with a waiting one;
* schema: two starters and two deaths on a new file and on files of versions 5
  and 7; version 6 adds columns to two tables, two to one of them, so that a death
  falls between columns, between tables and between versions.

`races` and `operations` identify states that differ in the names of the processes
only (SYMMETRY); they check no liveness.

**Deadlock** is checked in the runs of `EntryAdmission`, `PositionBook` and
`HaltFeed`: there a process can always start again. The behaviours of `operations`,
of the notifications and the upgrade in `schedule`, of `split_cost_basis` and of
`scan_control_group` are histories with a bounded number of lessons, scans, orders or
rows, and stop when these are used up.

**Fairness.** `EntryAdmission` and `PositionBook` say that a schedule starts `reconcile` again and
again (`scheduling.py`, the agents' cron), that a command that is running goes
on, and that the broker's snapshot does not fail for ever; `PositionBook` adds
that an emergency close does not fail for ever. Nothing is assumed of the
broker's fills or of operators. Crashes are finitely many. For `EveryNoteSettles`
the relay is run every 15 minutes (its workflow's cron) and goes on with what it
started; it dies finitely often, and the channel may fail every time. For
`EveryCommandStarts` a command that failed is run again, as the agents' cron does,
and a command that runs goes on; waiting for the write lock ends, since a holder
goes on, dies, or is rolled back when its five-second wait fails. In `schedule` each of
these is asked of the behaviours that exercise the component; in the others the
action is never enabled.

### What the violated runs show

| Run | The text | What happens |
|---|---|---|
| `admission_stale_ack` | the acknowledgement follows a reconciliation that matches | `ack-reconciliation` checks the stored result of an earlier reconciliation; a submission that lost its answer since is forgotten |
| `position_lots_race` | a cumulative fill becomes *one incremental* lot | two reconcilers that read the same lots and saw different cumulative fills store two overlapping lots, whose sum is more than was bought |
| `position_lost_postmortem` | every close stores a postmortem | `close_and_review` commits `CLOSED` before the postmortem; a crash between the two leaves a closed trade that no later reconciliation looks at |
| `position_manual_close` | manual closes are idempotent requests | the event that makes them so is written after the broker call; a crash or a second process between the two closes again |
| `split_cost_basis` | a split of 3 shares bought at 100 into 6 leaves `entry_price` 50 | so it does in the pass that takes the split over; the next one writes the fill price of the order over it again, and books the shares the split added as bought at that price; a reverse split is not even stable in its shares, since the row is raised to the filled quantity again at each pass and the action applied again |
| `scan_control_group` | every scanner rejection is persisted as the control group | the fingerprint has no ticker and the row is unique by it: of the stocks that one scan rejects for one reason without features (halted, held, no spread) the first is kept and the others are dropped without an error |
| `halt_review` | at 8 percent a dated drawdown review is generated | a fall within one week latches the weekly halt, at 4 percent; it rejects every validation before the portfolio drawdown is looked at, and no command clears it, so neither `drawdown_halt` nor the review comes |

Further limits that the traces showed and that no text of the repository speaks
against, so that they are stated as the hypotheses of a property: a remainder
whose protection is lost after a close was partly worked stops at the quantity
mismatch and is reported, never closed (`UnprotectedIsAnswered` has
`closeSold = 0`); shares bought after the trade was closed are only reported
(`trade = "CLOSED"` there). An entry whose fills lie at or below its initial stop has no
positive initial risk: `record_entry_fill` raises at its first fill, a trade whose row has the
quantity without a fill reaches `close_and_review`, which raises as well, and either
exception leaves `reconcile`, before the legs are looked at and before the close. It does so
at every pass: such a trade never closes although it is sold (`BelowStopStaysOpen`), and such
a position is never answered although it is unprotected. `SoldIsClosed` and
`UnprotectedIsAnswered` therefore have `aboveStop`. Two simplifications go with it: the fills
of an entry lie on one side of the stop (mixed ones would be refused from where the average
crosses it), and one trade is modelled, while in the code the exception also keeps the same
pass from the trades after it. The kill switch is read once, in `validate_entry`;
set after that it does not stop the `place_order` that follows, which is why
`EntryRespectsHalts` speaks of halts that stand since validation began.

What the modules of `operations` showed; where a text of the repository says otherwise, it is
quoted:

* Two operators who tighten at once leave the looser of their two prices in
  `trades.final_stop`, and a `tighten-stop` that dies after the broker call
  leaves the old one; both err on the safe side (`RowNotTighterThanBroker`).
  The command does not check that the order it is given belongs to the trade.
* A spent or expired ticket cannot be issued again for its decision; a crash
  between `add_trade_with_thesis` and `create_open` leaves a live trade that
  `record-live-exit` refuses for want of a lifecycle; a crash after the close
  leaves its lifecycle `EXIT_PENDING`. The halt a diverging fill raises can only be
  acknowledged through a reconciliation of the paper account.
* Two relays at once would overwrite `SENT` with `FAILED`; the workflow, ten minutes
  at most of every fifteen, keeps them apart. `watchdog-resolve` writes whatever id it is given: out of order it moves
  the watermark past incidents, which is why the watchdog takes the oldest first.
* No lesson becomes `VALIDATED`: that requires a sample of two, and every lesson is
  written with one. An approval of a second hypothesis for a version that exists
  keeps the first one's evidence (`INSERT OR IGNORE`); a comparison stored after
  an approval resets the hypothesis's status; two reviewers at once can both propose
  (`Learning` has one at a time).
* `docs/LEARNING_ENGINE.md` has the "irreversible sequence" end with "explicit human approval
  -> production strategy version", and `docs/refactor/00_SIMPLE_ADAPTIVE_SWING_READINESS.md`
  says that "a hypothesis can never silently reach production". An approval does retire every
  other version. But `initialize`, which every command starts with, inserts a
  `STRATEGY_VERSION` that it does not know as `PRODUCTION`, without approver, hypothesis or
  backtest and beside the one that is in production (`Deploy`, `Configured`). A candidate
  that a hypothesis names gets there too when an operator configures its name; approved
  later, its row stays without a `backtest_id` (`INSERT OR IGNORE`). `ProductionBacked` and
  `OneApprovedVersion` are therefore about versions with an approver. No command reads the
  status of a version.
* `docs/refactor/04_EXECUTION_REPORT.md` has "explicit corporate-action records with old/new
  quantity and ratio" as adequate evidence and says that "unexplained quantity changes must
  remain mismatches". An action without quantities passes for evidence as well: what it leaves
  out is taken to be what was found, and its ratio is compared with nothing, so that it
  explains any change of its symbol's quantity at any later pass. `OnlyExplainedQuantities`
  is strict only while every action states the quantity after it.
* A kept answer of the bear or the portfolio manager is reused although the other
  roles have answered anew: only the candidate's material is compared.
* `docs/RISK_MODEL.md` has stocks traded only with "earnings more than five trading
  sessions away". The number is cached for a day, the candidate is fresh for a day from
  its own stamp, and writes may come late: an entry may be made up to three trading days
  nearer (`EarningsKeptAway`, with `Drift`). The same list has a score of at least 80
  where the code's default is 70, and `docs/CRON_AGENTS.md` says that the event risk of
  a stock is unknown (`None`) where `build_universe_assets` fills in `False`, so that
  every stock counts as clear of major events.
* `set_halts_cache` is said to be called by the relay only; `fetch_current_halts` calls it
  too, so that scans and the relay overwrite each other, also with older answers under
  a newer time. `HaltedIsExcluded` bounds what this costs by one more `Latency`.
* A scan that dies between the candidates and the rejections has no control group, and
  candidates cut from the list are on file neither as accepted nor as rejected. Strong
  candidates of a bear market are sent to the models although `validate_entry` rejects
  every one of them.
* Of two commands that start on a new file at once one may fail on the row of
  version 5 and has to be run again.

## 4. Proofs

Each theorem holds for every value of the constants that the module's named assumption
allows. The assumptions say what kind of values the constants have, and where they say
more it is from the code: caps that the entries of earlier days already respect
(`AdmissionAssumption`), a file that lives no longer than the hosted row
(`HaltFeedAssumption`), an approval that asks for no more samples than a review
(`LearningAssumption`), kept rows whose score is the one the model saw
(`AgentAssumption`). Two were added for the proofs: `SizingAssumption` has finitely many
symbols, and `EarningsAssumption` has `2 * Delay <= DayTicks`, that no command is under
way for half a day. A number that is stored half a day late, and shared as late again,
could cross a fourth midnight, one more than `Drift` allows.

| Module | Proved | Property of a run |
|---|---|---|
| `EntryAdmission` | `TypeCorrect`, `IdempotentSend`, `Accounting`, `NoBlindEntry`, `ImplementsQuota` | `TypeOK`, `SentAtMostOnce`, `ExposureIsCounted`, `NoEntryOverUnknownOutcome`, `QuotaSpec` |
| | `RiskGrowth`, `RiskBudgets`, `SafeEntries` | `RiskGrowsWithinBudget`; `RiskWithinBudget` and all three parts of `EntriesAreSafe`, see `MCRaces` |
| `PositionBook` | `OneLesson`, `ClosedBehindReview`, `ImplementsLifecycle` | `ReviewedOnce`, `ClosedLifecycleIsReviewed`, `LifecycleSpec` |
| | `LifecycleIsLegal`, `BookTyped`, `LotsAreOfFills`, `CleanEndSaw`, `ClosesOnSeenExit`, `BelowStopStaysOpen`, for any processes | |
| | `CleanEndMatches`, `ClosesOnVerifiedExit`, `LoneLotsFit`, for a process that runs alone | `CleanFinishMatches`, `ClosedOnVerifiedExit` |
| `HaltLatches` | `HaltsTyped`, `HaltsRespected`, `NoDrawdownEntry` | `TypeOK`, `EntryRespectsHalts`, `NoEntryIntoDrawdown` |
| `RiskSizing` | `SizingTyped`, `SizedRight`, `StakeCovered` | `SizedToTheBudget`, `StakeWithinBudget` |
| `StopAmendment` | `StopTyped`, `RowNeverTighter`, `BrokerStopMonotone` | `RowNotTighterThanBroker`, `BrokerStopNeverFalls` |
| `LiveTicket` | `TicketTyped`, `DivergedStaysOut`, `LifecycleLast` | `DivergedNeverRecorded`, `LifecycleClosedLast` |
| `CorporateAction` | `ActionTyped`, `QuantitiesExplained` | `OnlyExplainedQuantities` |
| `Learning` | `LearningTyped`, `ProductionRests`, `ApprovedIsOne`, `OpenIsOne` | `ProductionBacked`, `OneApprovedVersion`, `OneOpenHypothesis` |
| `AgentReview` | `AgentTyped`, `ProposalsReviewed` | `ProposalsRestOnReviews` |
| `HaltFeed` | `FeedTyped`, `FeedExcludesHalted` | `HaltedIsExcluded` |
| `EarningsFeed` | `EarningsTyped`, `EarningsDistance` | `EarningsKeptAway` |
| `ScanFunnel` | `ScanTyped`, `FunnelPassesGates`, `ReportMatches` | `ListedPassesGates`, `ReportMatchesList` |
| `Notifications` | `NoteTyped`, `IncidentsResolved` | `NoIncidentForgotten` |
| `SchemaMigration` | `SchemaTyped`, `VersionsVouch` | `VersionsAreBacked` |
| `MCOperations` | `OperationsImplement`, `OperationsTyped` | `OperationsTypeOK` |
| `MCSchedule` | `ScheduleImplements`, `ScheduleTyped` | `ScheduleTypeOK` |
| `MCRaces` | `RacesImplement`, `RacingEntriesAreSafe` | `EntriesAreSafe` |

The arguments, and why each needs its invariant:

**Sums** (`SumTheorems`). The risks of a book and the lots of a trade are sums over a
finite set, which the community modules define by a recursive function that takes out
an arbitrary element. The library's induction theorems cannot be applied here, so that
each fact (a sum is a natural number; it grows with the set and with the function; it
changes by what one summand changes; a set splits into an element and the rest) is
proved by the smallest counterexample: among the subsets for which it failed there would
be one without a smaller one, by the well-founded ordering of finite subsets.

**EntryAdmission.** `Invariance` is `Spec => [](TypeOK /\ IInv)`. None of the three
safety invariants is inductive. `IInv` adds what a process may rely on at each place
(`StandsOK`), that a snapshot is old but never wrong (`SeenOK`: what it shows, the order
has been), how far a reconciliation has come with the unknown outcomes it started with
(`FogOK`), that rows appear in order (`AdmittedFirst`, `LinkedInv`, `TradeInv`,
`TrackInv`), that no two processes stand before `Send` with the same intent
(`OneSender`), and that the quotas hold of everything that may have been sent
(`QuotaInv`). There is one lemma per conjunct and action group; the quota lemmas rest on
facts about the cardinality of finite sets. `RiskGrowth` follows from `IInv`: only
`Reserve` adds an intent to those that are exposed, and it does so in the transaction
that adds up the risks; whatever else changes an exposed row has it exposed before.
`RiskBudgets` has the hypothesis that what earlier days carry fits the budgets at the
start, because a budget may have shrunk with the equity over night; the instance of `races`
satisfies it. `SafeEntries` puts the three together, under the same hypothesis.

**PositionBook, any processes.** `Invariance` is `Spec => [](ControlOK /\ BookInv)`. "One
lesson" is not inductive: what keeps a second process from drawing one is that only the
process that stored the postmortem row stands at `Observe` (`LessonInv`), that whoever is
on its way to `CLOSED` has been there (`EndInv`), and that a process about to swap has
read a state from which it may (`SwapInv`). Most actions touch none of this and are
treated together; four are special: `RecordPostmortem`, `Observe`, and the two halves of
a lifecycle transition.

The quantities have an invariant of their own, `RaceOK`, which gives `BookTyped` and
`LotsAreOfFills`. Two recorders at once may book a fill twice, so the lots can claim more
than was bought, and nothing bounds their sum by the entry. What is left: what a snapshot
saw has happened and no more was sold than bought (`SnapshotInv`); each lot belongs to a
cumulative fill that the broker has reached and is no more than it (`FilledLots`); no size
of the trade, stored or read, exceeds both the lots and what was bought (`SizesFit`). The
last is what makes it inductive: the rest a process is about to record is positive only if
what it expects is more than the lots it has counted, and then it is within what was
bought (`RestFits`).

What a process has read is its own, even when it is overtaken. `SeenInv` follows that
through the loop: before protection the snapshot shows the position of the quantity that
entry and legs leave; before the close it shows exits that cover the entry; whoever raises
the alarm has noted it. `CleanEndSaw` and `ClosesOnSeenExit` follow. They are what is left,
for several processes, of the theorems about one: the comparison holds of the snapshot and
no longer of the lots. `BelowStopStaysOpen` has the invariant that nobody comes to the close
of a trade without initial risk (`NoneCloses`). `RequestInv` adds that whoever stands
between the requested exit and
`CLOSED` came there over an exit that is still pending or over, since no transition leads
back from it.

**PositionBook implements TradeLifecycle.** `ImplementsLifecycle` rests on all four
invariants. All but seven actions of a process are harmless (`Harmless`): they create the
lifecycle, overwrite a status with one that is not `CLOSED`, or change nothing that the
abstract rows show. Of the seven, `Close` is `CloseTrade` and `RecordPostmortem` is `Review`,
because `SeenInv` has sold shares and `RequestInv` has the pending exit; `Observe` is
`Learn`, because `LessonInv` has no lesson there yet; `SwapState` is `Advance`,
`RequestExit` or `End`, because `SwapInv` has a legal transition and `EndInv` the lesson;
`Exit`, `Review` and `ReadState` show nothing. A sale of the broker is `Sell` the first time.

**PositionBook, one process.** `CleanEndMatches`, `ClosesOnVerifiedExit` and `LoneLotsFit`
have the hypothesis `LoneProcess`: no two processes run. They hold for any size of the entry, any
number of deaths and restarts, and whatever the broker does between the calls. The
hypothesis is needed and not a convenience: two recorders at once store overlapping lots,
which is what `position_lots_race` shows, and the sum of the lots is what all three rest
on; `schedule` checks them with one process for the same reason. `LoneInv` adds to `RaceOK`
that the lots add up to the last cumulative fill recorded and the size of the trade lies
between that and what was bought (`LotInv`); that a lifecycle is closed only after its
trade (`LifecycleInv`); and, place by place of the loop, what has been compared on the way
there and still holds (`AdmissionAt`, `HeldAt`, `GoneAt`, `CleanAt`). Without the part
about the admission a clean end after a crash between `Relink` and the loop could not be
excluded; without the order of lots and size neither could a close on too few shares.

**HaltLatches.** `HaltInv` says of a validation what it has already looked at: `GateInv`,
that no halt it has passed is among those in force ever since it began, and that a lasting
loss streak is in the count it carries; `BaseInv`, that highs only grow and the high it
read is no older than those there were when it began.

**RiskSizing.** `SizedRight` is about the floors: a quotient is at least q exactly when q
times the divisor fits, so that the least of the code's seven limits is the largest
quantity that respects all seven. `StakeCovered` does not follow from the sizes, since
open risk changes after an entry was counted: `SizingInv` carries the planned risks, which
fit the budgets of the last grant because the reservation adds them up again (`GrantOK`),
and that what an entry can still lose is covered by its plan (`BooksOK`), however it fills
or is tightened.

**StopAmendment.** The check against the stop that the broker reports is made one call
before the order is replaced. It suffices because only the newest order of the chain is
active, so that a price checked against an order that can still be replaced was checked
against the stop in force; and what an operator has yet to write to the row is no tighter
than an order it has placed, which nothing later loosens.

**LiveTicket.** A ticket is consumed once, so at most one terminal ever stands between
`Consume` and the trade of a decision, and each later step finds what the step before it
stored.

**CorporateAction.** A quantity is explained when it is that of the entry, or one that a
declared action left or leaves open. `ActionInv` adds that a reconcile under way has read an
explained quantity, that an action it adopts is one the broker declares and explains the
position it read, and that it stands before the event only with such an action: rows are
written in three transactions, and a death between two of them leaves them apart, but each
explained.

**Learning.** Versions come into production in two ways, by an approval and by being
configured, and a row that was configured may be approved later. "One approved version" would
be lost if a row could become approved without the others being retired; "some version is in
production" if one could be retired without a successor. `LearningInv` adds that every approved
version has an accepted backtest of its own approved hypothesis with enough samples, and every
row that names evidence such evidence (`EvidenceInv`), that an approval between its steps has
passed its checks and nothing takes them back (`ApprovalInv`), and that a reviewer about to
propose for a scope has found no open hypothesis of it (`ProposalInv`). Indices into the tables
stay valid, since rows are only added.

**AgentReview.** What makes it inductive is that a row's score is the score the model saw,
since reuse leaves the row alone, and that what a scan has collected for the candidate in
hand and for each finalist was given for them (`ScanOK`); the work is in the lemma
`ProceedOK`, one case per role.

**HaltFeed.** The invariant bounds the age of every stored answer when it was stored
(`StoredInv`) and of every answer in hand (`InHandInv`), and says that whoever is not among
an answer's halted symbols was halted after it or not at all (`Sound`), which later halts
and resumptions keep true.

**EarningsFeed.** Each number in a table, in the file, in hand or on a candidate counts
trading days from some tick to the report that was announced then. `EarningsInv` bounds how
far that tick lies back: by a time to live and one `Delay` where it is stored, and by one
more on a candidate. At an entry the distance in ticks becomes a distance in trading
days, whose weekends can only bring the report nearer in fewer of them.

**ScanFunnel.** For the gates, the work is that a best setup exists and is one that passes
(`BestPasses`), that every one that passes has clear events (`PassingIsClear`), and that the
threshold of a regime is never below the configured one although it is capped
(`ThresholdRises`). For the report, `CountInv` says while the scan runs that every stock
looked at is counted once, as a rejection or as a candidate (`CountsOK`); the cut list keeps
the best, so that it has a strong one whenever the whole has (`AheadOfStrong`).

**Notifications.** `WatchdogInv`: failures up to the watermark have results, and the
incident in hand is the first without, whose result is stored before the watermark moves.
Failures that arrive meanwhile have larger ids.

**SchemaMigration.** `SchemaInv`: the open transaction contains what is committed, a version
in either has its columns, and a command that is past a column has seen it in the file it
works on. Columns are never taken back, so that what a command has seen stays true when
another commits or dies.

**Compositions.** The three modules that put components side by side let one of them move
at a time. `OperationsImplement`, `ScheduleImplements` and `RacesImplement` say that each
behaviour of `MCOperations`, `MCSchedule` and `MCRaces` is one of every component, so that
what is proved of a component holds in the composition; the collected type invariants
follow. `MCRaces` gives `EntryAdmission` its constants by `INSTANCE ... WITH`, through
`EntryAdmissionProofs`, so that the theorems come with the instance.
`RacingEntriesAreSafe` shows that these constants meet the hypotheses (what the earlier day
carries is within the budget; `RaceAssumption`: no entry is the job of a process that only
reconciles) and cites `SafeEntries`.

**Types.** Where the invariant of a component did not say enough, its type invariant has
one of its own: `BookTyped` and `PlanTyped` of sizing, `AtRest` of tickets, `PricesOccur` of
stops, `SinceTicked` of the earnings, `Filing` of the scan. That of the notifications,
`AttemptsOK`, is about more than types: no row is attempted more than `MaxAttempts` times,
since whatever the relay holds had an attempt left when it was read, leaves the relay's hands
with the attempt that is counted, and a row that nobody has tried has none.

**Only model-checked.** Liveness under fairness, which is out of this prover's reach:
`AcceptedOrderGetsTrade`, `SoldIsClosed`, `UnprotectedIsAnswered`, `EveryNoteSettles`,
`EveryCommandStarts`. Every invariant and every action property of a passing run is a
theorem; those about the clean end and the verified close only of a process that runs alone.

## 5. Not modelled

| Part | Why |
|---|---|
| Indicators and scores (`strategy.py`, `market.py`), bars, quotes, the volume cache | floating-point functions of price bars: their outcome is an input of `ScanFunnel` |
| Reports, analytics, measurement | read rows and format them |
| `evaluate_exit`, `evaluate_stop_management` (`lifecycle.py`) | no command calls them |
| Prompts, model backends, the journal of calls (`agents.py`, `llm_backend.py`) | an answer is an input (`AgentReview`); nothing decides on the journal |
| Statistics of back-tests and validation | pure arithmetic; their verdict is a free choice (`Learning`) |
| The hosted database driver (Turso) | another transaction behaviour than SQLite's, in code outside the repository |
| Broker adapters | external: what the code expects of the broker is `BrokerMoves` and `BrokerStep` |
| Back-test, simulators | separate programs on copies of the data |

## 6. Plan

Done: all modules have a run and at least one theorem; every safety invariant, every
action property and both refinements of a passing run are proved.

Next, in this order:

1. Model: two relays and two reviewers at once; the freshness gates of `validate_entry`
   as ages; `LotsNeverExceedFill` and `CostBasisKept` in one module, should the code
   come to read `trade_fills` for more than the R of a trade.
2. Prove: `LoneProcess` weakened to one process that writes at a time, should the code
   come to hold a lock over `reconcile`.
