------------------------------ MODULE LiveTicket ------------------------------
(***************************************************************************)
(* The human-supervised live path: live-ticket stores an approval, a human *)
(* trades, record-live-fill consumes the approval and journals the fill,   *)
(* record-live-exit journals the close.  No broker is asked and nothing is *)
(* reconciled: what a command leaves half done stays half done.  Every     *)
(* step below is one database call of the command, and the command may die *)
(* or be run twice between any two of them.                                *)
(*                                                                         *)
(* validate_entry and its halts are in EntryAdmission and HaltLatches: a   *)
(* candidate they reject gets no ticket.  Of the halts only the one that a *)
(* fill raises is here.                                                    *)
(***************************************************************************)
EXTENDS FiniteSets

CONSTANTS Terminal,     \* processes that run the commands
          Decision      \* decision ids; a trade id stands for its decision's

VARIABLES
    ticket,     \* live_ticket_approvals: "none", "fresh", "expired" or "consumed"
    live,       \* per decision: the trade, its lifecycle row, its postmortem
    liveHalt,   \* reconciliation_halt
    job,        \* per terminal: the next database call of its command
    diverged    \* history: the decisions for which a fill broke the geometry

ticketVars == <<ticket, live, liveHalt, job, diverged>>

NoJob == [at |-> "idle", decision |-> "none", fill |-> "none"]

TicketInit ==
    /\ ticket = [d \in Decision |-> "none"]
    /\ live = [d \in Decision |-> [row |-> "none", filled |-> FALSE, life |-> "none", reviewed |-> FALSE]]
    /\ liveHalt = FALSE
    /\ job = [p \in Terminal |-> NoJob]
    /\ diverged = {}

ProceedTo(p, step) == job' = [job EXCEPT ![p].at = step]

Done(p) == job' = [job EXCEPT ![p] = NoJob]

Fails(p) == Done(p) /\ UNCHANGED <<ticket, live, liveHalt, diverged>>

\* live-ticket, for a candidate that every gate approves: one ticket per decision,
\* ever.
IssueTicket(d) ==
    /\ ticket[d] = "none" /\ ~liveHalt
    /\ ticket' = [ticket EXCEPT ![d] = "fresh"]
    /\ UNCHANGED <<live, liveHalt, job, diverged>>

\* quote_freshness_seconds pass.
ExpireTicket(d) ==
    /\ ticket[d] = "fresh"
    /\ ticket' = [ticket EXCEPT ![d] = "expired"]
    /\ UNCHANGED <<live, liveHalt, job, diverged>>

---------------------------------------------------------------------------
(* record-live-fill.                                                       *)

\* Mutant: the row is looked up without "consumed_at IS NULL".
ConsumeAgain(p, d, fill) ==
    /\ job[p].at = "idle" /\ ticket[d] \in {"fresh", "consumed"}
    /\ ticket' = [ticket EXCEPT ![d] = "consumed"]
    /\ job' = [job EXCEPT ![p] = [at |-> "judge", decision |-> d, fill |-> fill]]
    /\ UNCHANGED <<live, liveHalt, diverged>>

\* consume_live_ticket_approval: one transaction.
Consume(p, d, fill) ==
    /\ job[p].at = "idle" /\ ticket[d] = "fresh"
    /\ ticket' = [ticket EXCEPT ![d] = "consumed"]
    /\ job' = [job EXCEPT ![p] = [at |-> "judge", decision |-> d, fill |-> fill]]
    /\ UNCHANGED <<live, liveHalt, diverged>>

\* The quantity or the protection is not the ticket's: nothing but the ticket
\* is spent.
FillUnproven(p) ==
    /\ job[p].at = "judge" /\ job[p].fill = "unproven"
    /\ Fails(p)

\* The entry slipped too far, or its reward no longer pays.
FillDiverges(p) ==
    /\ job[p].at = "judge" /\ job[p].fill = "diverges"
    /\ liveHalt' = TRUE
    /\ diverged' = diverged \cup {job[p].decision}
    /\ Done(p)
    /\ UNCHANGED <<ticket, live>>

\* add_trade_with_thesis; trades.decision_id is UNIQUE.
AddLiveTrade(p) ==
    LET d == job[p].decision
    IN /\ job[p].at = "judge" /\ job[p].fill = "conforms"
       /\ IF live[d].row = "none"
          THEN /\ live' = [live EXCEPT ![d].row = "OPEN"]
               /\ ProceedTo(p, "fill")
               /\ UNCHANGED <<ticket, liveHalt, diverged>>
          ELSE Fails(p)

\* record_entry_fill: refused once an exit is journalled.
RecordFill(p) ==
    LET d == job[p].decision
    IN /\ job[p].at = "fill"
       /\ IF live[d].row = "OPEN"
          THEN /\ live' = [live EXCEPT ![d].filled = TRUE]
               /\ ProceedTo(p, "open")
               /\ UNCHANGED <<ticket, liveHalt, diverged>>
          ELSE Fails(p)

\* PositionLifecycleService.create_open.
CreateOpen(p) ==
    /\ job[p].at = "open"
    /\ live' = [live EXCEPT ![job[p].decision].life = "OPEN"]
    /\ ProceedTo(p, "protect")
    /\ UNCHANGED <<ticket, liveHalt, diverged>>

\* mark_protected: illegal once an exit is requested.
MarkProtected(p) ==
    LET d == job[p].decision
    IN /\ job[p].at = "protect"
       /\ live' = IF live[d].life = "OPEN" THEN [live EXCEPT ![d].life = "PROTECTED"] ELSE live
       /\ Done(p)
       /\ UNCHANGED <<ticket, liveHalt, diverged>>

---------------------------------------------------------------------------
(* record-live-exit.                                                       *)

\* request_exit: it raises for a trade without a lifecycle row, or a closed one.
RequestExit(p, d) ==
    /\ job[p].at = "idle"
    /\ live[d].life \in {"OPEN", "PROTECTED", "EXIT_PENDING"}
    /\ live' = [live EXCEPT ![d].life = "EXIT_PENDING"]
    /\ job' = [job EXCEPT ![p] = [at |-> "exit", decision |-> d, fill |-> "none"]]
    /\ UNCHANGED <<ticket, liveHalt, diverged>>

\* close_and_review reads the trade.
ReadLiveTrade(p) ==
    /\ job[p].at = "exit"
    /\ IF live[job[p].decision].row = "CLOSED"
       THEN Fails(p)
       ELSE ProceedTo(p, "close") /\ UNCHANGED <<ticket, live, liveHalt, diverged>>

\* close_and_review closes the trade, without looking at its status again.
CloseLiveTrade(p) ==
    /\ job[p].at = "close"
    /\ live' = [live EXCEPT ![job[p].decision].row = "CLOSED"]
    /\ ProceedTo(p, "review")
    /\ UNCHANGED <<ticket, liveHalt, diverged>>

\* record_postmortem; postmortems.trade_id is UNIQUE.
ReviewLiveTrade(p) ==
    LET d == job[p].decision
    IN /\ job[p].at = "review"
       /\ IF live[d].reviewed
          THEN Fails(p)
          ELSE /\ live' = [live EXCEPT ![d].reviewed = TRUE]
               /\ ProceedTo(p, "end")
               /\ UNCHANGED <<ticket, liveHalt, diverged>>

\* Mutant: the lifecycle is closed with the row, before the postmortem.
MarkLiveClosedEarly(p) ==
    LET d == job[p].decision
    IN /\ job[p].at \in {"review", "end"}
       /\ live' = [live EXCEPT ![d].life = "CLOSED"]
       /\ IF job[p].at = "end" THEN Done(p) ELSE UNCHANGED job
       /\ UNCHANGED <<ticket, liveHalt, diverged>>

\* mark_closed.
MarkLiveClosed(p) ==
    LET d == job[p].decision
    IN /\ job[p].at = "end"
       /\ live' = IF live[d].life = "EXIT_PENDING" THEN [live EXCEPT ![d].life = "CLOSED"] ELSE live
       /\ Done(p)
       /\ UNCHANGED <<ticket, liveHalt, diverged>>

---------------------------------------------------------------------------

\* The command dies between two calls.
CommandDies(p) == job[p].at # "idle" /\ Fails(p)

\* ack-reconciliation, after a clean reconciliation of the paper account that
\* the database also serves: there is none of the live one.
AckLiveHalt ==
    /\ liveHalt' = FALSE
    /\ UNCHANGED <<ticket, live, job, diverged>>

TicketNext ==
    \/ \E d \in Decision : IssueTicket(d) \/ ExpireTicket(d)
    \/ \E p \in Terminal :
         \/ \E d \in Decision, fill \in {"conforms", "unproven", "diverges"} : Consume(p, d, fill)
         \/ FillUnproven(p) \/ FillDiverges(p) \/ AddLiveTrade(p) \/ RecordFill(p) \/ CreateOpen(p)
         \/ MarkProtected(p)
         \/ \E d \in Decision : RequestExit(p, d)
         \/ ReadLiveTrade(p) \/ CloseLiveTrade(p) \/ ReviewLiveTrade(p) \/ MarkLiveClosed(p)
         \/ CommandDies(p)
    \/ AckLiveHalt

TicketSpec == TicketInit /\ [][TicketNext]_ticketVars

---------------------------------------------------------------------------
(* Properties.                                                             *)

TicketTypeOK ==
    /\ ticket \in [Decision -> {"none", "fresh", "expired", "consumed"}]
    /\ live \in [Decision -> [row : {"none", "OPEN", "CLOSED"}, filled : BOOLEAN, reviewed : BOOLEAN,
                              life : {"none", "OPEN", "PROTECTED", "EXIT_PENDING", "CLOSED"}]]
    /\ liveHalt \in BOOLEAN /\ diverged \subseteq Decision
    /\ DOMAIN job = Terminal
    /\ \A p \in Terminal : job[p] # NoJob => job[p].decision \in Decision

\* A fill that broke the approved geometry is never journalled as a trade of
\* that decision, though the command be repeated with kinder numbers and the halt
\* be acknowledged in between: the ticket is spent before the fill is judged.
DivergedNeverRecorded == \A d \in diverged : live[d].row = "none"

\* "Live trades get the same ... postmortem treatment as paper trades": whoever
\* dies or repeats what, a lifecycle that is closed belongs to a trade that is
\* closed, filled and reviewed.
LifecycleClosedLast ==
    \A d \in Decision : live[d].life = "CLOSED" =>
        live[d].row = "CLOSED" /\ live[d].filled /\ live[d].reviewed
===========================================================================
