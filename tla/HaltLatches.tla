---------------------------- MODULE HaltLatches ----------------------------
(***************************************************************************)
(* The halts that stop new entries until a human lifts them: kill_switch,  *)
(* drawdown_halt, weekly_drawdown_halt and loss_streak_halt.  Processes    *)
(* reconcile, close trades and validate entries while equity moves and     *)
(* operators run the clearing commands; each transaction is a step.        *)
(*                                                                         *)
(* Simplifications.  A gate of validate_entry that looks at the candidate, *)
(* at positions or at quotas is a free rejection (EntryAdmission has those *)
(* that read rows).  An approved entry fills at once.  A week begins while *)
(* no command runs.  reconciliation_halt is in EntryAdmission.             *)
(***************************************************************************)
EXTENDS Integers, FiniteSets, Sequences

CONSTANTS Process,      \* command-line processes that may run at once
          Equity,       \* the values the account's equity takes
          HaltPct,      \* halt_drawdown_pct, in percent
          WeekPct,      \* weekly_drawdown_halt_pct, in percent
          LossCap,      \* consecutive_loss_halt
          MaxTrades,    \* bound: trades over a behaviour
          MaxCrash,     \* bound: how many processes die
          MaxWeeks      \* bound: how many weeks begin

ASSUME HaltAssumption ==
    /\ Equity \subseteq Nat \ {0}
    /\ {HaltPct, WeekPct} \subseteq 1..100 /\ LossCap \in Nat \ {0}
    /\ {MaxTrades, MaxCrash, MaxWeeks} \subseteq Nat

VARIABLES
    equity,     \* broker: the account's equity
    high,       \* equity_snapshots: the highest equity, 0 without a row
    weekHigh,   \* the highest of this week's rows
    history,    \* closed trades in the order of their exits: "win" or "loss"
    open,       \* how many trades are open
    latched,    \* the halts whose system_state is true
    pc,         \* where a process stands
    eq,         \* the account's equity as it read it
    losses,     \* the loss streak as it read it
    peak,       \* the equity high as it read it
    crashes, weeks,
    held,       \* history: the reasons to halt in force ever since it validates
    base        \* history: the equity highs there were when it began to validate

rows    == <<high, weekHigh, history, open, latched>>
local   == <<eq, losses, peak>>
bounds  == <<crashes, weeks>>
vars    == <<equity, rows, pc, local, bounds, held, base>>

Halt == {"kill", "drawdown", "weekly", "streak"}

---------------------------------------------------------------------------

\* Mutant: the postmortem latches under a key that nothing reads.
LatchesUnread == [latch_review   |-> "consecutive_loss_halt", latch_streak |-> "streak",
                  latch_drawdown |-> "drawdown", latch_weekly |-> "weekly"]

\* The halt that a process at this label is about to latch.
Latches == [latch_review   |-> "streak", latch_streak |-> "streak",
            latch_drawdown |-> "drawdown", latch_weekly |-> "weekly"]

\* validate_entry stands at the halt it reads next; where it goes when the
\* halt is not latched.
After == [kill |-> "streak", streak |-> "weekly", weekly |-> "count", drawdown |-> "decide"]

Validating == Halt \cup {"count", "high", "week_high", "decide", "approved"}

Label == {"idle", "walk", "closed", "snapshot", "refresh", "record", "streak_read"}
         \cup Validating \cup DOMAIN Latches

Larger(a, b) == IF a >= b THEN a ELSE b

\* consecutive_losses: the closed trades behind which only losses follow, and
\* which are losses themselves.
Streak == Cardinality({i \in DOMAIN history :
                         \A j \in DOMAIN history : j >= i => history[j] = "loss"})

\* Equity e is at least pct percent below the high h.
Falls(pct, h, e) == (h - e) * 100 >= pct * h

\* What has to keep an entry out.
Reasons == latched \cup (IF Streak >= LossCap THEN {"losing"} ELSE {})

Init ==
    /\ equity \in Equity
    /\ high = 0 /\ weekHigh = 0
    /\ history = <<>> /\ open \in 0..MaxTrades
    /\ latched = {}
    /\ pc = [p \in Process |-> "idle"]
    /\ eq = [p \in Process |-> 0]
    /\ losses = [p \in Process |-> 0]
    /\ peak = [p \in Process |-> 0]
    /\ crashes = 0 /\ weeks = 0
    /\ held = [p \in Process |-> {}]
    /\ base = [p \in Process |-> [all |-> 0, week |-> 0]]

---------------------------------------------------------------------------

Goto(p, l) == pc' = [pc EXCEPT ![p] = l]

Step(p, from, to) == pc[p] = from /\ Goto(p, to)

Return(p) ==
    /\ Goto(p, "idle")
    /\ eq' = [eq EXCEPT ![p] = 0]
    /\ losses' = [losses EXCEPT ![p] = 0]
    /\ peak' = [peak EXCEPT ![p] = 0]

\* The history variables follow every step.
Watch ==
    /\ held' = [p \in Process |->
                  IF pc'[p] \notin Validating THEN {}
                  ELSE IF pc[p] \in Validating THEN held[p] \cap Reasons' ELSE Reasons']
    /\ base' = [p \in Process |->
                  IF pc'[p] \notin Validating THEN [all |-> 0, week |-> 0]
                  ELSE IF pc[p] \in Validating THEN base[p]
                       ELSE [all |-> high', week |-> weekHigh']]

---------------------------------------------------------------------------
(* BrokerReconciler.reconcile: it reads the account, walks the open trades,*)
(* stores a snapshot; on its own, or before a submission.                  *)

Reconcile(p) ==
    /\ Step(p, "idle", "walk")
    /\ eq' = [eq EXCEPT ![p] = equity]
    /\ UNCHANGED <<equity, rows, losses, peak, bounds>>

\* PostmortemEngine.close_and_review: the trade is closed, the moment of its
\* exit being the broker's ...
CloseTrade(p) ==
    /\ Step(p, "walk", "closed")
    /\ open > 0 /\ open' = open - 1
    /\ \E outcome \in {"win", "loss"}, n \in 0..Len(history) :
          history' = SubSeq(history, 1, n) \o <<outcome>> \o SubSeq(history, n + 1, Len(history))
    /\ UNCHANGED <<equity, high, weekHigh, latched, local, bounds>>

\* ... and after the postmortem the streak is counted.
ReviewStreak(p) ==
    /\ Step(p, "closed", IF Streak >= LossCap THEN "latch_review" ELSE "walk")
    /\ UNCHANGED <<equity, rows, local, bounds>>

EndWalk(p) ==
    /\ Step(p, "walk", "snapshot")
    /\ UNCHANGED <<equity, rows, local, bounds>>

InsertSnapshot(e) ==
    /\ high' = Larger(high, e)
    /\ weekHigh' = Larger(weekHigh, e)

\* record_equity_snapshot; a submission goes on, when nothing was amiss.
StoreSnapshot(p) ==
    /\ pc[p] = "snapshot"
    /\ InsertSnapshot(eq[p])
    /\ Return(p) \/ (Goto(p, "refresh") /\ UNCHANGED local)
    /\ UNCHANGED <<equity, history, open, latched, bounds>>

---------------------------------------------------------------------------
(* SwingExecutionService.submit: refresh_portfolio_state, validate_entry.  *)

Refresh(p) ==
    /\ Step(p, "refresh", "record")
    /\ eq' = [eq EXCEPT ![p] = equity]
    /\ UNCHANGED <<equity, rows, losses, peak, bounds>>

RecordSnapshot(p) ==
    /\ Step(p, "record", "streak_read")
    /\ InsertSnapshot(eq[p])
    /\ UNCHANGED <<equity, history, open, latched, local, bounds>>

ReadLosses(p) ==
    /\ Step(p, "streak_read", "kill")
    /\ losses' = [losses EXCEPT ![p] = Streak]
    /\ UNCHANGED <<equity, rows, eq, peak, bounds>>

\* Mutant: a recovered equity lets entries through a drawdown halt.
GateBlind(p) ==
    /\ pc[p] \in Halt
    /\ IF pc[p] \in latched \ {"drawdown"}
       THEN Return(p)
       ELSE Goto(p, After[pc[p]]) /\ UNCHANGED local
    /\ UNCHANGED <<equity, rows, bounds>>

\* get_state of one halt.
Gate(p) ==
    /\ pc[p] \in Halt
    /\ IF pc[p] \in latched
       THEN Return(p)
       ELSE Goto(p, After[pc[p]]) /\ UNCHANGED local
    /\ UNCHANGED <<equity, rows, bounds>>

\* The gates that are not modelled, and a failing preflight.
Reject(p) ==
    /\ pc[p] \in {"refresh", "count", "high"}
    /\ Return(p)
    /\ UNCHANGED <<equity, rows, bounds>>

\* consecutive_losses again: the larger of the two counts.
CountLosses(p) ==
    /\ Step(p, "count", "high")
    /\ losses' = [losses EXCEPT ![p] = Larger(losses[p], Streak)]
    /\ UNCHANGED <<equity, rows, eq, peak, bounds>>

\* equity_high.
ReadHigh(p) ==
    /\ Step(p, "high", "week_high")
    /\ peak' = [peak EXCEPT ![p] = high]
    /\ UNCHANGED <<equity, rows, eq, losses, bounds>>

\* Mutant: the portfolio's drawdown is taken from the week's high.
JudgeWeek(p) ==
    /\ Step(p, "week_high", IF Falls(WeekPct, weekHigh, eq[p]) THEN "latch_weekly"
                            ELSE IF Falls(HaltPct, weekHigh, eq[p]) THEN "latch_drawdown"
                            ELSE "drawdown")
    /\ UNCHANGED <<equity, rows, local, bounds>>

\* equity_high_since: the weekly drawdown is looked at first.
Judge(p) ==
    /\ Step(p, "week_high", IF Falls(WeekPct, weekHigh, eq[p]) THEN "latch_weekly"
                            ELSE IF Falls(HaltPct, peak[p], eq[p]) THEN "latch_drawdown"
                            ELSE "drawdown")
    /\ UNCHANGED <<equity, rows, local, bounds>>

Decide(p) ==
    /\ Step(p, "decide", IF losses[p] >= LossCap THEN "latch_streak" ELSE "approved")
    /\ UNCHANGED <<equity, rows, local, bounds>>

\* activate_halt; what validate_entry latched, it also rejects.
Latch(p) ==
    /\ pc[p] \in DOMAIN Latches
    /\ latched' = latched \cup {Latches[pc[p]]}
    /\ IF pc[p] = "latch_review" THEN Goto(p, "walk") /\ UNCHANGED local ELSE Return(p)
    /\ UNCHANGED <<equity, high, weekHigh, history, open, bounds>>

\* The entry is reserved and sent.
Enter(p) ==
    /\ pc[p] = "approved"
    /\ Return(p)
    /\ open' = (IF open + Len(history) < MaxTrades THEN open + 1 ELSE open)
    /\ UNCHANGED <<equity, high, weekHigh, history, latched, bounds>>

Crash(p) ==
    /\ pc[p] # "idle" /\ crashes < MaxCrash
    /\ crashes' = crashes + 1
    /\ Return(p)
    /\ UNCHANGED <<equity, rows, weeks>>

---------------------------------------------------------------------------
(* Operators and the world.                                                *)

\* kill-switch on.
Kill ==
    /\ latched' = latched \cup {"kill"}
    /\ UNCHANGED <<equity, high, weekHigh, history, open, pc, local, bounds>>

\* kill-switch off, clear-drawdown-halt, clear-loss-streak-halt; no command
\* clears the weekly halt.
Clear ==
    /\ \E h \in {"kill", "drawdown", "streak"} : latched' = latched \ {h}
    /\ UNCHANGED <<equity, high, weekHigh, history, open, pc, local, bounds>>

Market ==
    /\ equity' \in Equity
    /\ UNCHANGED <<rows, pc, local, bounds>>

NewWeek ==
    /\ weeks < MaxWeeks /\ \A p \in Process : pc[p] = "idle"
    /\ weeks' = weeks + 1
    /\ weekHigh' = 0
    /\ UNCHANGED <<equity, high, history, open, latched, pc, local, crashes>>

---------------------------------------------------------------------------

Advance(p) ==
    \/ CloseTrade(p) \/ ReviewStreak(p) \/ EndWalk(p) \/ StoreSnapshot(p)
    \/ Refresh(p) \/ RecordSnapshot(p) \/ ReadLosses(p)
    \/ Gate(p) \/ Reject(p) \/ CountLosses(p) \/ ReadHigh(p) \/ Judge(p) \/ Decide(p)
    \/ Latch(p) \/ Enter(p)

Act ==
    \/ \E p \in Process : Reconcile(p) \/ Advance(p) \/ Crash(p)
    \/ Kill \/ Clear \/ Market \/ NewWeek

Next == Act /\ Watch

Spec == Init /\ [][Next]_vars

FairSpec == Spec /\ \A p \in Process : WF_vars(Advance(p) /\ Watch)

---------------------------------------------------------------------------
(* Properties.                                                             *)

TypeOK ==
    /\ equity \in Equity /\ high \in Equity \cup {0} /\ weekHigh \in Equity \cup {0}
    /\ history \in Seq({"win", "loss"}) /\ open \in 0..MaxTrades
    /\ latched \subseteq Halt
    /\ pc \in [Process -> Label]
    /\ eq \in [Process -> Equity \cup {0}] /\ peak \in [Process -> Equity \cup {0}]
    /\ losses \in [Process -> Nat]
    /\ crashes \in 0..MaxCrash /\ weeks \in 0..MaxWeeks
    /\ held \in [Process -> SUBSET (Halt \cup {"losing"})]
    /\ base \in [Process -> [all : Equity \cup {0}, week : Equity \cup {0}]]

\* docs/refactor/03_RISK_REPORT.md: the halts "are re-read during each
\* admission review": what stood against entries when a validation began and
\* has stood ever since, a latched halt or a loss streak whose halt is not
\* stored yet or was cleared, lets no entry through.
EntryRespectsHalts == \A p \in Process : pc[p] = "approved" => held[p] = {}

\* An entry is approved on an equity that is not too far below any snapshot,
\* of any process, that was there when its validation began.
NoEntryIntoDrawdown ==
    \A p \in Process : pc[p] = "approved" =>
        /\ ~Falls(HaltPct, base[p].all, eq[p])
        /\ ~Falls(WeekPct, base[p].week, eq[p])

---------------------------------------------------------------------------
(* The inductive invariant behind them.                                    *)

\* The reasons that a validation at this label has seen not to stand.
Passed == [kill |-> {}, streak |-> {"kill"}, weekly |-> {"kill", "streak"},
           count |-> {"kill", "streak", "weekly"}, high |-> {"kill", "streak", "weekly"},
           week_high |-> {"kill", "streak", "weekly"},
           drawdown |-> {"kill", "streak", "weekly"}, decide |-> Halt,
           approved |-> Halt \cup {"losing"}]

\* What has stood since is not among them; a lasting streak has been counted.
GateInv ==
    \A p \in Process : pc[p] \in Validating =>
        /\ held[p] \cap Passed[pc[p]] = {}
        /\ pc[p] \in {"high", "week_high", "drawdown", "decide"} /\ "losing" \in held[p]
              => losses[p] >= LossCap

\* The highs only grow, what was read of them is no older than the base.
BaseInv ==
    \A p \in Process : pc[p] \in Validating =>
        /\ base[p].all <= high /\ base[p].week <= weekHigh
        /\ pc[p] = "week_high" => base[p].all <= peak[p]
        /\ pc[p] \in {"drawdown", "decide", "approved"} =>
              /\ ~Falls(HaltPct, base[p].all, eq[p])
              /\ ~Falls(WeekPct, base[p].week, eq[p])

HaltInv == TypeOK /\ GateInv /\ BaseInv

---------------------------------------------------------------------------

\* docs/EMERGENCY_PROCEDURES.md: "At an 8% drawdown, new entries latch off and
\* a dated drawdown review is generated": a validation that has read such a
\* drawdown leads to drawdown_halt, on which the review depends.
DrawdownIsReviewed ==
    (\E p \in Process : pc[p] = "week_high" /\ Falls(HaltPct, peak[p], eq[p]))
        ~> "drawdown" \in latched
===========================================================================
