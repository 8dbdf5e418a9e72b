---------------------------- MODULE BrokerProofs ----------------------------
(***************************************************************************)
(* Proofs about what the broker does to a trade: LiveTicket, the           *)
(* supervised broker; StopAmendment, a protective stop that is moved; and  *)
(* CorporateAction, a position that a split changes. For any terminals,    *)
(* decisions, operators, prices and orders.                                *)
(***************************************************************************)
EXTENDS LiveTicket, StopAmendment, CorporateAction, TLAPS

-----------------------------------------------------------------------------
(* LiveTicket: a decision has one ticket, and the terminal that consumed   *)
(* it is the only one that ever records the decision: so what it finds     *)
(* before it judges the fill nobody else changes.                          *)

JobStep == {"idle", "judge", "fill", "open", "protect", "exit", "close", "review", "end"}

Trade == [row : {"none", "OPEN", "CLOSED"}, filled : BOOLEAN,
          life : {"none", "OPEN", "PROTECTED", "EXIT_PENDING", "CLOSED"}, reviewed : BOOLEAN]

TicketTypes ==
    /\ ticket \in [Decision -> {"none", "fresh", "expired", "consumed"}]
    /\ live \in [Decision -> Trade]
    /\ job \in [Terminal -> [at : JobStep, decision : Decision \cup {"none"},
                             fill : {"none", "conforms", "unproven", "diverges"}]]
    /\ \A p \in Terminal : job[p].at # "idle" => job[p].decision \in Decision
    /\ diverged \subseteq Decision

Recording(p) == job[p].at \in {"judge", "fill", "open", "protect"}

\* One terminal records a decision, and only with its ticket.
OneRecorder ==
    /\ \A p \in Terminal : Recording(p) => ticket[job[p].decision] = "consumed"
    /\ \A p, q \in Terminal :
          Recording(p) /\ Recording(q) /\ job[p].decision = job[q].decision => p = q

\* There is no trade before the ticket is consumed and the fill judged.
NotYetRecorded ==
    /\ \A d \in Decision : ticket[d] # "consumed" => live[d].row = "none"
    /\ \A p \in Terminal : job[p].at = "judge" => live[job[p].decision].row = "none"

\* A decision whose fill diverged is done with.
DivergedSpent ==
    \A d \in diverged :
        /\ ticket[d] = "consumed" /\ live[d].row = "none"
        /\ \A p \in Terminal : ~(Recording(p) /\ job[p].decision = d)

\* What the steps of the two commands have behind them.
Progress ==
    /\ \A p \in Terminal :
          LET t == live[job[p].decision]
          IN /\ job[p].at \in {"open", "protect", "exit", "close", "review", "end"} => t.filled
             /\ job[p].at \in {"review", "end"} => t.row = "CLOSED"
             /\ job[p].at = "end" => t.reviewed
    /\ \A d \in Decision :
          /\ live[d].filled => live[d].row # "none"
          /\ live[d].life # "none" => live[d].filled
          /\ live[d].life = "CLOSED" => live[d].row = "CLOSED" /\ live[d].reviewed

TicketInv == TicketTypes /\ OneRecorder /\ NotYetRecorded /\ DivergedSpent /\ Progress

---------------------------------------------------------------------------

LEMMA TicketInitInv == TicketInit => TicketInv
  BY DEF TicketInit, TicketInv, TicketTypes, OneRecorder, NotYetRecorded, DivergedSpent, Progress,
     Recording, NoJob, JobStep, Trade

\* A command that ends early leaves nothing that could break the invariant.
LEMMA FailsKeeps == ASSUME TicketInv, NEW p \in Terminal, Fails(p) PROVE TicketInv'
<1>1. /\ job' = [job EXCEPT ![p] = NoJob]
      /\ UNCHANGED <<ticket, live, liveHalt, diverged>>
  BY DEF Fails, Done
<1>2. TicketTypes'
  BY <1>1 DEF TicketInv, TicketTypes, NoJob, JobStep
<1>3. OneRecorder'
  BY <1>1 DEF TicketInv, TicketTypes, OneRecorder, Recording, NoJob
<1>4. NotYetRecorded'
  BY <1>1 DEF TicketInv, TicketTypes, NotYetRecorded, NoJob
<1>5. DivergedSpent'
  BY <1>1 DEF TicketInv, TicketTypes, DivergedSpent, Recording, NoJob
<1>6. Progress'
  BY <1>1 DEF TicketInv, TicketTypes, Progress, NoJob
<1> QED
  BY <1>2, <1>3, <1>4, <1>5, <1>6 DEF TicketInv

LEMMA TicketStep == TicketInv /\ [TicketNext]_ticketVars => TicketInv'
<1> SUFFICES ASSUME TicketInv, [TicketNext]_ticketVars PROVE TicketInv'
  OBVIOUS
<1> USE DEF TicketInv, Recording
<1>1. CASE UNCHANGED ticketVars
  BY <1>1 DEF ticketVars, TicketTypes, OneRecorder, NotYetRecorded, DivergedSpent, Progress
<1>2. ASSUME NEW d \in Decision, IssueTicket(d) \/ ExpireTicket(d) PROVE TicketInv'
  BY <1>2 DEF IssueTicket, ExpireTicket, TicketTypes, OneRecorder, NotYetRecorded, DivergedSpent, Progress
<1>3. ASSUME NEW p \in Terminal, NEW d \in Decision, NEW fill \in {"conforms", "unproven", "diverges"},
             Consume(p, d, fill)
      PROVE  TicketInv'
  <2>1. TicketTypes'
    BY <1>3 DEF Consume, TicketTypes, JobStep
  <2>2. OneRecorder'
    BY <1>3 DEF Consume, TicketTypes, OneRecorder
  <2>3. NotYetRecorded'
    BY <1>3 DEF Consume, TicketTypes, NotYetRecorded
  <2>4. DivergedSpent'
    BY <1>3 DEF Consume, TicketTypes, DivergedSpent
  <2>5. Progress'
    BY <1>3 DEF Consume, TicketTypes, Progress
  <2> QED
    BY <2>1, <2>2, <2>3, <2>4, <2>5
<1>4. ASSUME NEW p \in Terminal, FillUnproven(p) \/ CommandDies(p) PROVE TicketInv'
  BY <1>4, FailsKeeps DEF FillUnproven, CommandDies
<1>5. ASSUME NEW p \in Terminal, FillDiverges(p) PROVE TicketInv'
  <2>1. /\ job' = [job EXCEPT ![p] = NoJob] /\ job[p].at = "judge"
        /\ diverged' = diverged \cup {job[p].decision} /\ UNCHANGED <<ticket, live>>
    BY <1>5 DEF FillDiverges, Done
  <2>2. TicketTypes' /\ OneRecorder' /\ NotYetRecorded' /\ Progress'
    <3>1. TicketTypes'
      BY <2>1 DEF JobStep, NoJob, TicketTypes
    <3>2. OneRecorder'
      BY <2>1 DEF NoJob, TicketTypes, OneRecorder
    <3>3. NotYetRecorded'
      BY <2>1 DEF NoJob, TicketTypes, NotYetRecorded
    <3>4. Progress'
      BY <2>1 DEF NoJob, TicketTypes, Progress
    <3> QED
      BY <3>1, <3>2, <3>3, <3>4
  <2>3. DivergedSpent'
    BY <2>1 DEF NoJob, TicketTypes, OneRecorder, NotYetRecorded, DivergedSpent
  <2> QED
    BY <2>2, <2>3
<1>6. ASSUME NEW p \in Terminal, AddLiveTrade(p) PROVE TicketInv'
  <2>1. CASE live[job[p].decision].row = "none"
    <3>1. /\ job' = [job EXCEPT ![p].at = "fill"] /\ job[p].at = "judge"
          /\ live' = [live EXCEPT ![job[p].decision].row = "OPEN"]
          /\ UNCHANGED <<ticket, diverged>>
      BY <1>6, <2>1 DEF AddLiveTrade, ProceedTo
    <3>2. TicketTypes' /\ OneRecorder'
      <4>1. TicketTypes'
        BY <3>1 DEF JobStep, Trade, TicketTypes
      <4>2. OneRecorder'
        BY <3>1 DEF Trade, TicketTypes, OneRecorder
      <4> QED
        BY <4>1, <4>2
    <3>3. NotYetRecorded'
      BY <3>1 DEF TicketTypes, OneRecorder, NotYetRecorded
    <3>4. DivergedSpent'
      BY <3>1 DEF TicketTypes, DivergedSpent
    <3>5. Progress'
      BY <2>1, <3>1 DEF TicketTypes, Trade, Progress
    <3> QED
      BY <3>2, <3>3, <3>4, <3>5
  <2>2. CASE live[job[p].decision].row # "none"
    BY <1>6, <2>2, FailsKeeps DEF AddLiveTrade
  <2> QED
    BY <2>1, <2>2
<1>7. ASSUME NEW p \in Terminal, RecordFill(p) PROVE TicketInv'
  <2>1. CASE live[job[p].decision].row = "OPEN"
    <3>1. /\ job' = [job EXCEPT ![p].at = "open"] /\ job[p].at = "fill"
          /\ live' = [live EXCEPT ![job[p].decision].filled = TRUE]
          /\ UNCHANGED <<ticket, diverged>>
      BY <1>7, <2>1 DEF RecordFill, ProceedTo
    <3>2. TicketTypes' /\ OneRecorder' /\ NotYetRecorded' /\ DivergedSpent'
      <4>1. TicketTypes'
        BY <3>1 DEF JobStep, Trade, TicketTypes
      <4>2. OneRecorder'
        BY <3>1 DEF Trade, TicketTypes, OneRecorder
      <4>3. NotYetRecorded'
        BY <3>1 DEF Trade, TicketTypes, NotYetRecorded
      <4>4. DivergedSpent'
        BY <3>1 DEF Trade, TicketTypes, DivergedSpent
      <4> QED
        BY <4>1, <4>2, <4>3, <4>4
    <3>3. Progress'
      BY <2>1, <3>1 DEF TicketTypes, Trade, Progress
    <3> QED
      BY <3>2, <3>3
  <2>2. CASE live[job[p].decision].row # "OPEN"
    BY <1>7, <2>2, FailsKeeps DEF RecordFill
  <2> QED
    BY <2>1, <2>2
<1>8. ASSUME NEW p \in Terminal, CreateOpen(p) PROVE TicketInv'
  <2>1. /\ job' = [job EXCEPT ![p].at = "protect"] /\ job[p].at = "open"
        /\ live' = [live EXCEPT ![job[p].decision].life = "OPEN"]
        /\ UNCHANGED <<ticket, diverged>>
    BY <1>8 DEF CreateOpen, ProceedTo
  <2>2. TicketTypes' /\ OneRecorder' /\ NotYetRecorded' /\ DivergedSpent'
    <3>1. TicketTypes'
      BY <2>1 DEF JobStep, Trade, TicketTypes
    <3>2. OneRecorder'
      BY <2>1 DEF Trade, TicketTypes, OneRecorder
    <3>3. NotYetRecorded'
      BY <2>1 DEF Trade, TicketTypes, NotYetRecorded
    <3>4. DivergedSpent'
      BY <2>1 DEF Trade, TicketTypes, DivergedSpent
    <3> QED
      BY <3>1, <3>2, <3>3, <3>4
  <2>3. Progress'
    BY <2>1 DEF TicketTypes, Trade, Progress
  <2> QED
    BY <2>2, <2>3
<1>9. ASSUME NEW p \in Terminal, MarkProtected(p) \/ MarkLiveClosed(p) PROVE TicketInv'
  <2>1. /\ job' = [job EXCEPT ![p] = NoJob]
        /\ UNCHANGED <<ticket, diverged>>
        /\ \/ live' = live
           \/ live' = [live EXCEPT ![job[p].decision].life = "PROTECTED"] /\ job[p].at = "protect"
           \/ live' = [live EXCEPT ![job[p].decision].life = "CLOSED"] /\ job[p].at = "end"
    BY <1>9 DEF MarkProtected, MarkLiveClosed, Done
  <2>2. ASSUME NEW d \in Decision
        PROVE  /\ live'[d].row = live[d].row
               /\ live'[d].filled <=> live[d].filled
               /\ live'[d].reviewed <=> live[d].reviewed
    <3>1. live[d] \in Trade /\ live \in [Decision -> Trade]
      BY DEF TicketTypes
    <3>2. CASE live' = live
      BY <3>2
    <3>3. ASSUME NEW state, live' = [live EXCEPT ![job[p].decision].life = state]
          PROVE  live'[d] = live[d] \/ live'[d] = [live[d] EXCEPT !.life = state]
      BY <3>1, <3>3
    <3> QED
      BY <2>1, <3>1, <3>2, <3>3 DEF Trade
  <2>3. \A d \in Decision : live'[d].row = live[d].row
    BY <2>2
  <2>4. \A d \in Decision : (live'[d].filled <=> live[d].filled) /\ (live'[d].reviewed <=> live[d].reviewed)
    BY <2>2
  <2>5. \A d \in Decision :
           \/ live'[d].life = live[d].life
           \/ live'[d].life = "PROTECTED" /\ d = job[p].decision /\ job[p].at = "protect"
           \/ live'[d].life = "CLOSED" /\ d = job[p].decision /\ job[p].at = "end"
    BY <2>1 DEF TicketTypes, Trade
  <2>6. ticket' = ticket
    BY <2>1
  <2>7. /\ \A q \in Terminal : q # p => job'[q] = job[q]
        /\ job'[p].at = "idle"
    BY <2>1 DEF NoJob, TicketTypes
  <2>8. TicketTypes' /\ OneRecorder' /\ NotYetRecorded' /\ DivergedSpent'
    <3>1. TicketTypes'
      BY <2>1 DEF JobStep, NoJob, Trade, TicketTypes
    <3>2. OneRecorder'
      BY <2>1 DEF NoJob, Trade, TicketTypes, OneRecorder
    <3>3. NotYetRecorded'
      BY <2>3, <2>7, <2>6 DEF TicketTypes, NotYetRecorded
    <3>4. DivergedSpent'
      BY <2>1 DEF NoJob, Trade, TicketTypes, DivergedSpent
    <3> QED
      BY <3>1, <3>2, <3>3, <3>4
  <2>9. Progress'
    <3>1. \A q \in Terminal :
             LET t == live'[job'[q].decision]
             IN /\ job'[q].at \in {"open", "protect", "exit", "close", "review", "end"} => t.filled
                /\ job'[q].at \in {"review", "end"} => t.row = "CLOSED"
                /\ job'[q].at = "end" => t.reviewed
      BY <2>3, <2>7, <2>4 DEF TicketTypes, Progress
    <3>2. \A d \in Decision :
             /\ live'[d].filled => live'[d].row # "none"
             /\ live'[d].life # "none" => live'[d].filled
             /\ live'[d].life = "CLOSED" => live'[d].row = "CLOSED" /\ live'[d].reviewed
      BY <2>3, <2>4, <2>5 DEF TicketTypes, Progress
    <3> QED
      BY <3>1, <3>2 DEF Progress
  <2> QED
    BY <2>8, <2>9
<1>10. ASSUME NEW p \in Terminal, NEW d \in Decision, RequestExit(p, d) PROVE TicketInv'
  <2>1. TicketTypes' /\ OneRecorder' /\ NotYetRecorded' /\ DivergedSpent'
    <3>1. TicketTypes'
      BY <1>10 DEF JobStep, Trade, RequestExit, TicketTypes
    <3>2. OneRecorder'
      BY <1>10 DEF Trade, RequestExit, TicketTypes, OneRecorder
    <3>3. NotYetRecorded'
      BY <1>10 DEF Trade, RequestExit, TicketTypes, NotYetRecorded
    <3>4. DivergedSpent'
      BY <1>10 DEF Trade, RequestExit, TicketTypes, DivergedSpent
    <3> QED
      BY <3>1, <3>2, <3>3, <3>4
  <2>2. Progress'
    BY <1>10 DEF RequestExit, TicketTypes, Trade, Progress
  <2> QED
    BY <2>1, <2>2
<1>11. ASSUME NEW p \in Terminal, ReadLiveTrade(p) PROVE TicketInv'
  <2>1. CASE live[job[p].decision].row = "CLOSED"
    BY <1>11, <2>1, FailsKeeps DEF ReadLiveTrade
  <2>2. CASE live[job[p].decision].row # "CLOSED"
    <3>1. ProceedTo(p, "close") /\ UNCHANGED <<ticket, live, diverged>> /\ job[p].at = "exit"
      BY <1>11, <2>2 DEF ReadLiveTrade
    <3>2. TicketTypes'
      BY <3>1 DEF ProceedTo, JobStep, TicketTypes
    <3>3. OneRecorder' /\ NotYetRecorded' /\ DivergedSpent' /\ Progress'
      BY <3>1 DEF ProceedTo, TicketTypes, OneRecorder, NotYetRecorded, DivergedSpent, Progress
    <3> QED
      BY <3>2, <3>3
  <2> QED
    BY <2>1, <2>2
<1>12. ASSUME NEW p \in Terminal, CloseLiveTrade(p) PROVE TicketInv'
  <2>1. /\ job' = [job EXCEPT ![p].at = "review"] /\ job[p].at = "close"
        /\ live' = [live EXCEPT ![job[p].decision].row = "CLOSED"]
        /\ UNCHANGED <<ticket, diverged>>
    BY <1>12 DEF CloseLiveTrade, ProceedTo
  <2>2. live[job[p].decision].filled /\ live[job[p].decision].row # "none"
    BY <2>1 DEF TicketTypes, Progress
  <2>3. TicketTypes'
    BY <2>1 DEF JobStep, Trade, TicketTypes
  <2>4. OneRecorder'
    BY <2>1 DEF TicketTypes, OneRecorder
  <2>5. NotYetRecorded'
    BY <2>1, <2>2 DEF Trade, TicketTypes, NotYetRecorded
  <2>6. DivergedSpent'
    BY <2>1, <2>2 DEF Trade, TicketTypes, DivergedSpent
  <2>7. Progress'
    BY <2>1 DEF Trade, TicketTypes, Progress
  <2> QED
    BY <2>3, <2>4, <2>5, <2>6, <2>7
<1>13. ASSUME NEW p \in Terminal, ReviewLiveTrade(p) PROVE TicketInv'
  <2>1. CASE live[job[p].decision].reviewed
    BY <1>13, <2>1, FailsKeeps DEF ReviewLiveTrade
  <2>2. CASE ~live[job[p].decision].reviewed
    <3>1. /\ job' = [job EXCEPT ![p].at = "end"] /\ job[p].at = "review"
          /\ live' = [live EXCEPT ![job[p].decision].reviewed = TRUE]
          /\ UNCHANGED <<ticket, diverged>>
      BY <1>13, <2>2 DEF ReviewLiveTrade, ProceedTo
    <3>2. TicketTypes' /\ OneRecorder' /\ NotYetRecorded' /\ DivergedSpent'
      <4>1. TicketTypes'
        BY <3>1 DEF JobStep, Trade, TicketTypes
      <4>2. OneRecorder'
        BY <3>1 DEF Trade, TicketTypes, OneRecorder
      <4>3. NotYetRecorded'
        BY <3>1 DEF Trade, TicketTypes, NotYetRecorded
      <4>4. DivergedSpent'
        BY <3>1 DEF Trade, TicketTypes, DivergedSpent
      <4> QED
        BY <4>1, <4>2, <4>3, <4>4
    <3>3. Progress'
      BY <3>1 DEF TicketTypes, Trade, Progress
    <3> QED
      BY <3>2, <3>3
  <2> QED
    BY <2>1, <2>2
<1>14. CASE AckLiveHalt
  BY <1>14 DEF AckLiveHalt, TicketTypes, OneRecorder, NotYetRecorded, DivergedSpent, Progress
<1> QED
  BY <1>1, <1>2, <1>3, <1>4, <1>5, <1>6, <1>7, <1>8, <1>9, <1>10, <1>11, <1>12, <1>13, <1>14
  DEF TicketNext

LEMMA TicketAlways == TicketSpec => []TicketInv
  BY TicketInitInv, TicketStep, PTL DEF TicketSpec

---------------------------------------------------------------------------

\* A fill that broke the geometry is never a trade, for any number of terminals.
THEOREM DivergedStaysOut == TicketSpec => []DivergedNeverRecorded
<1>1. TicketInv => DivergedNeverRecorded
  BY DEF TicketInv, DivergedSpent, DivergedNeverRecorded
<1> QED
  BY <1>1, TicketAlways, PTL

\* A closed lifecycle always has a closed, filled and reviewed trade behind it.
THEOREM LifecycleLast == TicketSpec => []LifecycleClosedLast
<1>1. TicketInv => LifecycleClosedLast
  BY DEF TicketInv, Progress, LifecycleClosedLast
<1> QED
  BY <1>1, TicketAlways, PTL

-----------------------------------------------------------------------------
(* StopAmendment: only the newest order can be active, so a request that   *)
(* the broker accepts replaces the newest order; and the price it carries  *)
(* was compared with that very order's own.                                *)

\* The broker's prices are whole cents.
StopOrder == [stop : {c \in Nat : c % 10 = 0}, status : {"new", "replaced", "filled"}]

StopTypes ==
    /\ chain \in Seq(StopOrder) /\ Len(chain) >= 1
    /\ rowStop \in Nat
    /\ amend \in [Operator -> [at : {"idle", "read", "asked", "patched"}, order : Nat, want : Nat]]
    /\ \A p \in Operator : amend[p].order \in 1..Len(chain)

\* An order with a successor is not active.
OnlyNewestActive == \A i \in 1..Len(chain) : chain[i].status = "new" => i = Len(chain)

\* A price that has passed the broker's check is not below its order's stop, and
\* one that was sent is not above the newest.
PricesOrdered ==
    \A p \in Operator :
        /\ amend[p].at = "asked" => amend[p].want >= chain[amend[p].order].stop
        /\ amend[p].at = "patched" => amend[p].want <= chain[Len(chain)].stop + 5

StopInv == StopTypes /\ OnlyNewestActive /\ PricesOrdered
           /\ rowStop <= chain[Len(chain)].stop + 5

---------------------------------------------------------------------------

\* Rounding gives a whole cent within half a cent, and none below a whole cent that
\* the price has reached.
LEMMA RoundedNearby ==
    ASSUME NEW x \in Nat, NEW c \in Rounded(x)
    PROVE  /\ c \in Nat /\ c % 10 = 0 /\ x <= c + 5
           /\ \A d \in Nat : (d % 10 = 0 /\ x >= d) => c >= d
  BY DEF Rounded

LEMMA StopInitInv == StopInit => StopInv
  BY StopAssumption, RoundedNearby DEF StopInit, StopInv, StopTypes, OnlyNewestActive, PricesOrdered,
     StopOrder, StopIdle

\* The last order is an order, and no order but the last is one that a request
\* can replace.
LEMMA Newest == ASSUME StopInv PROVE chain[Len(chain)] \in StopOrder /\ Len(chain) \in 1..Len(chain)
  BY DEF StopInv, StopTypes

\* A successful request appends an order whose stop is no lower.
LEMMA Replaces ==
    ASSUME StopInv, NEW p \in Operator, Patch(p), chain[amend[p].order].status = "new"
    PROVE  /\ amend[p].order = Len(chain)
           /\ chain' \in Seq(StopOrder) /\ Len(chain') = Len(chain) + 1
           /\ \A i \in 1..(Len(chain) - 1) : chain'[i] = chain[i]
           /\ chain'[Len(chain)] = [chain[Len(chain)] EXCEPT !.status = "replaced"]
           /\ amend[p].want <= chain'[Len(chain) + 1].stop + 5
           /\ chain'[Len(chain) + 1].stop >= chain[Len(chain)].stop
<1>1. amend[p].order = Len(chain)
  BY DEF StopInv, StopTypes, OnlyNewestActive
<1>2. /\ chain[Len(chain)].stop \in Nat /\ chain[Len(chain)].stop % 10 = 0
      /\ amend[p].want \in Nat
  BY Newest DEF StopInv, StopTypes, StopOrder
<1>3. amend[p].want >= chain[Len(chain)].stop
  BY <1>1 DEF StopInv, PricesOrdered, Patch
<1>4. PICK c \in Rounded(amend[p].want) :
        chain' = Append([chain EXCEPT ![amend[p].order].status = "replaced"],
                        [stop |-> c, status |-> "new"])
  BY DEF Patch
<1>5. c \in Nat /\ c % 10 = 0 /\ amend[p].want <= c + 5 /\ c >= chain[Len(chain)].stop
  BY <1>2, <1>3, RoundedNearby
<1> DEFINE new == [stop |-> c, status |-> "new"]
           old == [chain EXCEPT ![amend[p].order].status = "replaced"]
<1>6. new \in StopOrder /\ new.stop = c
  BY <1>5 DEF StopOrder
<1>7. old \in Seq(StopOrder) /\ Len(old) = Len(chain)
  BY <1>1, Newest DEF StopInv, StopTypes, StopOrder
<1>8. old[Len(chain)] = [chain[Len(chain)] EXCEPT !.status = "replaced"]
  BY <1>1 DEF StopInv, StopTypes
<1>9. \A i \in 1..(Len(chain) - 1) : old[i] = chain[i]
  BY <1>1 DEF StopInv, StopTypes
<1>10. chain' = Append(old, new)
  BY <1>4
<1> HIDE DEF new, old
<1>11. /\ chain' \in Seq(StopOrder) /\ Len(chain') = Len(chain) + 1
       /\ \A i \in 1..Len(chain) : chain'[i] = old[i]
       /\ chain'[Len(chain) + 1] = new
  BY <1>6, <1>7, <1>10 DEF StopInv, StopTypes
<1> QED
  BY <1>1, <1>5, <1>6, <1>8, <1>9, <1>11 DEF StopInv, StopTypes

LEMMA StopStep == StopInv /\ [StopNext]_stopVars => StopInv'
<1> SUFFICES ASSUME StopInv, [StopNext]_stopVars PROVE StopInv'
  OBVIOUS
<1> USE DEF StopInv
<1>1. CASE UNCHANGED stopVars
  BY <1>1 DEF stopVars, StopTypes, OnlyNewestActive, PricesOrdered
<1>2. ASSUME NEW p \in Operator, NEW order \in 1..Len(chain), NEW want \in StopLevel,
             ReadRow(p, order, want)
      PROVE  StopInv'
  BY <1>2, StopAssumption DEF ReadRow, StopTypes, OnlyNewestActive, PricesOrdered
<1>3. ASSUME NEW p \in Operator, AskBroker(p) PROVE StopInv'
  <2>1. CASE amend[p].want < chain[amend[p].order].stop
    BY <1>3, <2>1, StopAssumption DEF AskBroker, StopIdle, StopTypes, OnlyNewestActive, PricesOrdered
  <2>2. CASE ~(amend[p].want < chain[amend[p].order].stop)
    <3>1. amend[p].want \in Nat /\ chain[amend[p].order].stop \in Nat
      <4>1. chain[amend[p].order] \in StopOrder
        BY DEF StopTypes
      <4> QED
        BY <4>1 DEF StopTypes, StopOrder
    <3>2. amend[p].want >= chain[amend[p].order].stop
      BY <2>2, <3>1
    <3> QED
      BY <1>3, <2>2, <3>2 DEF AskBroker, StopTypes, OnlyNewestActive, PricesOrdered
  <2> QED
    BY <2>1, <2>2
<1>4. ASSUME NEW p \in Operator, Patch(p) PROVE StopInv'
  <2>1. CASE chain[amend[p].order].status = "new"
    <3>1. amend' = [amend EXCEPT ![p].at = "patched"] /\ rowStop' = rowStop
      BY <1>4, <2>1 DEF Patch
    <3>2. /\ amend[p].order = Len(chain)
          /\ chain' \in Seq(StopOrder) /\ Len(chain') = Len(chain) + 1
          /\ \A i \in 1..(Len(chain) - 1) : chain'[i] = chain[i]
          /\ chain'[Len(chain)] = [chain[Len(chain)] EXCEPT !.status = "replaced"]
          /\ amend[p].want <= chain'[Len(chain) + 1].stop + 5
          /\ chain'[Len(chain) + 1].stop >= chain[Len(chain)].stop
      BY <1>4, <2>1, Replaces
    <3>10. chain'[Len(chain) + 1] \in StopOrder
      BY <3>2, Newest
    <3>3. /\ chain[Len(chain)].stop \in Nat /\ chain'[Len(chain) + 1].stop \in Nat
          /\ amend[p].want \in Nat /\ rowStop \in Nat
          /\ \A q \in Operator : amend[q].want \in Nat
      BY <3>10, Newest DEF StopTypes, StopOrder
    <3>4. StopTypes'
      BY <3>1, <3>2 DEF StopTypes
    <3>. Len(chain) \in Nat /\ Len(chain) >= 1
      BY DEF StopTypes
    <3>9. /\ chain'[Len(chain)].status = "replaced"
          /\ chain'[Len(chain)].stop = chain[Len(chain)].stop
      BY <3>2, Newest DEF StopOrder
    <3>5. OnlyNewestActive'
      <4> SUFFICES ASSUME NEW i \in 1..(Len(chain) + 1), chain'[i].status = "new"
                   PROVE  i = Len(chain) + 1
        BY <3>2 DEF OnlyNewestActive
      <4>1. i # Len(chain)
        BY <3>9
      <4>2. ~(i \in 1..(Len(chain) - 1))
        BY <3>2 DEF OnlyNewestActive
      <4> QED
        BY <4>1, <4>2
    <3>6. \A i \in 1..Len(chain) : chain'[i].stop = chain[i].stop
      <4> SUFFICES ASSUME NEW i \in 1..Len(chain) PROVE chain'[i].stop = chain[i].stop
        OBVIOUS
      <4>1. CASE i = Len(chain)
        BY <3>9, <4>1
      <4>2. CASE i \in 1..(Len(chain) - 1)
        BY <3>2, <4>2
      <4> QED
        BY <4>1, <4>2
    <3>7. PricesOrdered'
      BY <3>1, <3>2, <3>3, <3>6 DEF PricesOrdered, StopTypes
    <3>8. (rowStop <= chain[Len(chain)].stop + 5)'
      BY <3>1, <3>2, <3>3 DEF StopTypes
    <3> QED
      BY <3>4, <3>5, <3>7, <3>8
  <2>2. CASE chain[amend[p].order].status # "new"
    <3>1. chain' = chain /\ amend' = [amend EXCEPT ![p] = StopIdle] /\ rowStop' = rowStop
      BY <1>4, <2>2 DEF Patch
    <3> QED
      BY <3>1, StopAssumption DEF StopIdle, StopTypes, OnlyNewestActive, PricesOrdered
  <2> QED
    BY <2>1, <2>2
<1>5. ASSUME NEW p \in Operator, WriteRow(p) PROVE StopInv'
  BY <1>5, StopAssumption DEF WriteRow, StopIdle, StopTypes, OnlyNewestActive, PricesOrdered
<1>6. ASSUME NEW p \in Operator, AmendmentFails(p) PROVE StopInv'
  BY <1>6, StopAssumption DEF AmendmentFails, StopIdle, StopTypes, OnlyNewestActive, PricesOrdered
<1>7. CASE ExitFills
  <2>1. /\ chain' \in Seq(StopOrder) /\ Len(chain') = Len(chain)
        /\ \A i \in 1..Len(chain) : chain'[i].stop = chain[i].stop
        /\ \A i \in 1..(Len(chain) - 1) : chain'[i].status = chain[i].status
    <3> DEFINE filled == [chain[Len(chain)] EXCEPT !.status = "filled"]
    <3>1. filled \in StopOrder /\ filled.stop = chain[Len(chain)].stop
      BY Newest DEF StopOrder
    <3>2. chain' = [chain EXCEPT ![Len(chain)] = filled]
      BY <1>7 DEF ExitFills
    <3> HIDE DEF filled
    <3> QED
      BY <3>1, <3>2, Newest DEF StopTypes
  <2> QED
    BY <1>7, <2>1, Newest DEF ExitFills, StopTypes, OnlyNewestActive, PricesOrdered
<1>8. CASE RowCloses
  BY <1>8 DEF RowCloses, StopTypes, OnlyNewestActive, PricesOrdered
<1> QED
  BY <1>1, <1>2, <1>3, <1>4, <1>5, <1>6, <1>7, <1>8 DEF StopNext

LEMMA StopAlways == StopSpec => []StopInv
  BY StopInitInv, StopStep, PTL DEF StopSpec

---------------------------------------------------------------------------

\* The row of the position never shows a tighter stop than the broker has, for any
\* number of operators and prices.
THEOREM RowNeverTighter == StopSpec => []RowNotTighterThanBroker
<1>1. StopInv => RowNotTighterThanBroker
  BY DEF StopInv, RowNotTighterThanBroker, Last
<1> QED
  BY <1>1, StopAlways, PTL

\* No interleaving of operators, deaths and fills lowers the stop at the broker.
THEOREM BrokerStopMonotone == StopSpec => BrokerStopNeverFalls
<1>1. StopInv /\ StopInv' /\ [StopNext]_stopVars => [Last(chain').stop >= Last(chain).stop]_stopVars
  <2> SUFFICES ASSUME StopInv, StopInv', StopNext, ~UNCHANGED stopVars
               PROVE  chain'[Len(chain')].stop >= chain[Len(chain)].stop
    BY DEF Last
  <2>1. chain[Len(chain)].stop \in Nat
    BY Newest DEF StopOrder
  <2>2. CASE chain' = chain
    BY <2>1, <2>2
  <2>3. ASSUME NEW p \in Operator, Patch(p), chain[amend[p].order].status = "new"
        PROVE  chain'[Len(chain')].stop >= chain[Len(chain)].stop
    <3>1. Len(chain') = Len(chain) + 1 /\ chain'[Len(chain) + 1].stop >= chain[Len(chain)].stop
      BY <2>3, Replaces
    <3> QED
      BY <3>1
  <2>4. CASE ExitFills
    BY <2>1, <2>4, Newest DEF ExitFills, StopInv, StopTypes, StopOrder
  <2> QED
    BY <2>2, <2>3, <2>4
    DEF StopNext, ReadRow, AskBroker, Patch, WriteRow, AmendmentFails, RowCloses
<1> QED
  BY <1>1, StopAlways, StopStep, PTL DEF StopSpec, BrokerStopNeverFalls

-----------------------------------------------------------------------------
(* CorporateAction: the trade row and the lots hold the quantity of the    *)
(* entry or one that a declared action explains.                           *)
(*                                                                         *)
(* A reconcile has read such a quantity, and writes one only when an       *)
(* action of the ledger turns the one into the other.                      *)

Action == [old : Nat, new : Nat, up : Nat, down : Nat]

\* The quantities that the entry or a declared action explains.
Explained == {n \in Nat \ {0} : n = Bought \/ \E a \in actions : a.new \in {0, n}}

BrokerOK ==
    /\ holding \in Nat \ {0} /\ {legSales, otherSales, splits, kills} \subseteq Nat
    /\ actions \subseteq Action

RowsOK ==
    /\ tradeRow \in [shares : Explained, price : Nat]
    /\ fills \in [quantity : Explained, cost : Nat]
    /\ events \subseteq actions
    /\ mismatch \in BOOLEAN

\* A reconcile has read an explained quantity; the action it has found is declared, and
\* explains the position it has read.
ReviewingOK ==
    /\ reviewing \in [at : {"idle", "compare", "fill", "row", "adopt", "event"},
                      shares : Nat, price : Nat, position : Nat, sold : Nat, action : Action]
    /\ reviewing.at # "idle" => reviewing.shares \in Explained /\ reviewing.position # 0
    /\ reviewing.at \in {"adopt", "event"} =>
          reviewing.action \in actions /\ reviewing.action.new \in {0, reviewing.position}

ActionInv == BrokerOK /\ RowsOK /\ ReviewingOK

LEMMA ActionConstants ==
    /\ Bought \in Nat \ {0} /\ Price \in Nat /\ Factor \subseteq Nat \ {0}
BY CorporateActionAssumption DEF CorporateActionAssumption

LEMMA Quotients ==
    ASSUME NEW a \in Nat, NEW b \in Nat \ {0}
    PROVE  /\ a \div b \in Nat
           /\ a # 0 /\ a % b = 0 => a \div b # 0
<1>1. a \div b \in Int /\ a = b * (a \div b) + (a % b) /\ a % b \in 0..(b - 1)
    OBVIOUS
<1>2. a \div b >= 0
    <2> SUFFICES ASSUME a \div b <= -1 PROVE FALSE
        BY <1>1
    <2>1. b * (a \div b) <= -b
        BY <1>1
    <2> QED BY <1>1, <2>1
<1> QED BY <1>1, <1>2

LEMMA Products ==
    ASSUME NEW a \in Nat, NEW b \in Nat
    PROVE  a * b \in Nat
OBVIOUS

LEMMA NonzeroProducts ==
    ASSUME NEW a \in Nat \ {0}, NEW b \in Nat \ {0}
    PROVE  a * b # 0
OBVIOUS

LEMMA ExplainedType ==
    ASSUME ActionInv
    PROVE  Explained \subseteq Nat \ {0} /\ Bought \in Explained
BY ActionConstants DEF ActionInv, BrokerOK, Action, Explained

\* More actions explain more.
LEMMA ExplainedGrows ==
    ASSUME actions \subseteq actions'
    PROVE  Explained \subseteq Explained'
BY DEF Explained

LEMMA ExpectedExplained ==
    ASSUME ActionInv, reviewing.at # "idle"
    PROVE  Expected \in Explained /\ Expected \in Nat
BY ExplainedType DEF ActionInv, ReviewingOK, Expected, More

LEMMA SplitStep ==
    ASSUME ActionInv, SplitStock
    PROVE  ActionInv'
<1>1. PICK up \in Factor \cup {1}, down \in Factor \cup {1} :
          /\ (holding * up) % down = 0 /\ holding' = (holding * up) \div down
          /\ \/ UNCHANGED actions
             \/ \E a \in Declared(holding, holding', up, down) : actions' = actions \cup {a}
    BY DEF SplitStock
<1>2. up \in Nat \ {0} /\ down \in Nat \ {0} /\ holding \in Nat \ {0}
    BY ActionConstants DEF ActionInv, BrokerOK
<1>3. holding' \in Nat \ {0}
    <2>1. holding * up \in Nat /\ holding * up # 0
        BY <1>2, Products, NonzeroProducts
    <2> QED BY <1>1, <1>2, <2>1, Quotients
<1>4. /\ splits' = splits + 1
      /\ UNCHANGED <<legSales, otherSales, tradeRow, fills, events, mismatch, reviewing, kills>>
    BY DEF SplitStock
<1>5. actions \subseteq actions' /\ actions' \subseteq Action
    <2>1. Declared(holding, holding', up, down) \subseteq Action
        <3>1. Bare \in Action
            BY DEF Bare, Action
        <3>2. \A m, n \in Nat : [Bare EXCEPT !.old = m, !.new = n] \in Action
            BY DEF Bare, Action
        <3>3. \A m, n \in Nat : [Bare EXCEPT !.up = m, !.down = n] \in Action
            BY DEF Bare, Action
        <3> QED BY <1>2, <1>3, <3>1, <3>2, <3>3 DEF Declared
    <2> QED BY <1>1, <2>1 DEF ActionInv, BrokerOK
<1>6. BrokerOK'
    BY <1>3, <1>4, <1>5 DEF ActionInv, BrokerOK
<1>7. Explained \subseteq Explained'
    BY <1>5, ExplainedGrows
<1>8. RowsOK'
    BY <1>4, <1>5, <1>7 DEF ActionInv, RowsOK
<1>9. ReviewingOK'
    BY <1>4, <1>5, <1>7 DEF ActionInv, ReviewingOK
<1> QED BY <1>6, <1>8, <1>9 DEF ActionInv

LEMMA SellStep ==
    ASSUME ActionInv, SellShare
    PROVE  ActionInv'
<1>1. BrokerOK'
    BY DEF SellShare, ActionInv, BrokerOK
<1>2. RowsOK' /\ ReviewingOK'
    BY DEF SellShare, ActionInv, RowsOK, ReviewingOK, Explained
<1> QED BY <1>1, <1>2 DEF ActionInv

LEMMA ReadPositionStep ==
    ASSUME ActionInv, ReadPosition
    PROVE  ActionInv'
<1>1. /\ reviewing' = [at |-> "compare", shares |-> tradeRow.shares, price |-> tradeRow.price,
                       position |-> holding, sold |-> legSales, action |-> Bare]
      /\ UNCHANGED <<brokerVars, tradeRow, fills, events, mismatch, kills>>
    BY DEF ReadPosition
<1>2. BrokerOK' /\ RowsOK'
    BY <1>1 DEF ActionInv, BrokerOK, RowsOK, brokerVars, Explained
<1>3. tradeRow.shares \in Explained /\ tradeRow.shares \in Nat /\ tradeRow.price \in Nat
    BY ExplainedType DEF ActionInv, RowsOK
<1>4. ReviewingOK'
    BY <1>1, <1>3 DEF ActionInv, BrokerOK, brokerVars, ReviewingOK, Action, Bare, Explained
<1> QED BY <1>2, <1>4 DEF ActionInv

LEMMA CompareStep ==
    ASSUME ActionInv, Compare
    PROVE  ActionInv'
<1>1. /\ reviewing.at = "compare"
      /\ UNCHANGED <<brokerVars, tradeRow, fills, events, kills>>
    BY DEF Compare
<1>2. \/ reviewing' = Rest /\ mismatch' = TRUE
      \/ reviewing' = [reviewing EXCEPT !.at = "fill"] /\ UNCHANGED mismatch
      \/ \E a \in Explaining(Remaining, reviewing.position) :
             reviewing' = [reviewing EXCEPT !.at = "adopt", !.action = a] /\ UNCHANGED mismatch
    BY DEF Compare
<1>3. BrokerOK' /\ RowsOK'
    BY <1>1, <1>2 DEF ActionInv, BrokerOK, RowsOK, brokerVars, Explained
<1>4. ReviewingOK'
    <2>1. ASSUME reviewing' = Rest PROVE ReviewingOK'
        BY <2>1 DEF ReviewingOK, Rest, Action, Bare
    <2>2. ASSUME reviewing' = [reviewing EXCEPT !.at = "fill"] PROVE ReviewingOK'
        BY <1>1, <2>2 DEF ActionInv, ReviewingOK, brokerVars, Explained
    <2>3. ASSUME NEW a \in Explaining(Remaining, reviewing.position),
                 reviewing' = [reviewing EXCEPT !.at = "adopt", !.action = a]
          PROVE  ReviewingOK'
        <3>1. a \in actions /\ a \in Action /\ a.new \in {0, reviewing.position}
            BY DEF Explaining, ActionInv, BrokerOK
        <3> QED BY <1>1, <2>3, <3>1 DEF ActionInv, ReviewingOK, brokerVars, Explained
    <2> QED BY <1>2, <2>1, <2>2, <2>3
<1> QED BY <1>3, <1>4 DEF ActionInv

LEMMA SyncFillStep ==
    ASSUME ActionInv, SyncFill
    PROVE  ActionInv'
<1>1. /\ reviewing.at = "fill" /\ reviewing' = [reviewing EXCEPT !.at = "row"]
      /\ UNCHANGED <<brokerVars, events, mismatch, kills>>
      /\ \/ UNCHANGED <<fills, tradeRow>>
         \/ /\ fills' = [quantity |-> Expected, cost |-> Expected * Price]
            /\ tradeRow' = [shares |-> Expected, price |-> Price]
    BY DEF SyncFill
<1>2. Expected \in Explained /\ Expected * Price \in Nat /\ Price \in Nat
    BY <1>1, ExpectedExplained, ActionConstants, Products
<1>3. BrokerOK' /\ RowsOK'
    BY <1>1, <1>2 DEF ActionInv, BrokerOK, RowsOK, brokerVars, Explained
<1>4. ReviewingOK'
    BY <1>1 DEF ActionInv, ReviewingOK, brokerVars, Explained
<1> QED BY <1>3, <1>4 DEF ActionInv

LEMMA UpdateRowStep ==
    ASSUME ActionInv, UpdateRow
    PROVE  ActionInv'
<1>1. /\ reviewing.at = "row" /\ UNCHANGED <<brokerVars, fills, events, mismatch, kills>>
      /\ tradeRow' = [shares |-> Expected, price |-> Price] /\ reviewing' = Rest
    BY DEF UpdateRow
<1>2. Expected \in Explained /\ Price \in Nat
    BY <1>1, ExpectedExplained, ActionConstants
<1>3. BrokerOK' /\ RowsOK'
    BY <1>1, <1>2 DEF ActionInv, BrokerOK, RowsOK, brokerVars, Explained
<1>4. ReviewingOK'
    BY <1>1 DEF ReviewingOK, Rest, Action, Bare
<1> QED BY <1>3, <1>4 DEF ActionInv

LEMMA AdoptActionStep ==
    ASSUME ActionInv, AdoptAction
    PROVE  ActionInv'
<1> DEFINE a == reviewing.action
<1>1. /\ reviewing.at = "adopt" /\ UNCHANGED <<brokerVars, fills, events, mismatch, kills>>
      /\ tradeRow' = [shares |-> reviewing.position, price |-> Divided(a)]
      /\ reviewing' = [reviewing EXCEPT !.at = "event"]
    BY DEF AdoptAction
<1>2. /\ a \in actions /\ a \in Action /\ a.new \in {0, reviewing.position}
      /\ reviewing.position \in Nat \ {0} /\ reviewing.price \in Nat
    BY <1>1 DEF ActionInv, ReviewingOK
<1>3. reviewing.position \in Explained
    BY <1>2 DEF Explained
<1>4. Divided(a) \in Nat
    <2>1. CASE a.up > 0
        <3>1. a.up \in Nat \ {0} /\ a.down \in Nat
            BY <1>2, <2>1 DEF Action
        <3>2. reviewing.price * a.down \in Nat
            BY <1>2, <3>1, Products
        <3> QED BY <2>1, <3>1, <3>2, Quotients DEF Divided
    <2>2. CASE ~(a.up > 0)
        <3>1. Remaining \in Nat
            BY <1>1, ExpectedExplained DEF ActionInv, ReviewingOK, Remaining, More
        <3>2. reviewing.price * Remaining \in Nat
            BY <1>2, <3>1, Products
        <3> QED BY <1>2, <2>2, <3>2, Quotients DEF Divided
    <2> QED BY <2>1, <2>2
<1> HIDE DEF a
<1>5. BrokerOK' /\ RowsOK'
    BY <1>1, <1>3, <1>4 DEF ActionInv, BrokerOK, RowsOK, brokerVars, Explained
<1>6. ReviewingOK'
    BY <1>1 DEF ActionInv, ReviewingOK, brokerVars, Explained
<1> QED BY <1>5, <1>6 DEF ActionInv

LEMMA RecordActionStep ==
    ASSUME ActionInv, RecordAction
    PROVE  ActionInv'
<1>1. BrokerOK'
    BY DEF RecordAction, ActionInv, BrokerOK, brokerVars
<1>2. RowsOK'
    BY DEF RecordAction, ActionInv, RowsOK, ReviewingOK, brokerVars, Explained
<1>3. ReviewingOK'
    BY DEF RecordAction, ReviewingOK, Rest, Action, Bare
<1> QED BY <1>1, <1>2, <1>3 DEF ActionInv

LEMMA ReconcileKilledStep ==
    ASSUME ActionInv, ReconcileKilled
    PROVE  ActionInv'
<1>1. BrokerOK'
    BY DEF ReconcileKilled, ActionInv, BrokerOK, brokerVars
<1>2. RowsOK'
    BY DEF ReconcileKilled, ActionInv, RowsOK, brokerVars, Explained
<1>3. ReviewingOK'
    BY DEF ReconcileKilled, ReviewingOK, Rest, Action, Bare
<1> QED BY <1>1, <1>2, <1>3 DEF ActionInv

LEMMA ActionStart ==
    ASSUME ActionInit
    PROVE  ActionInv
<1>1. Bought \in Nat \ {0} /\ Price \in Nat /\ Bought * Price \in Nat
    BY ActionConstants, Products
<1>2. BrokerOK
    BY <1>1 DEF ActionInit, BrokerOK
<1>3. RowsOK
    BY <1>1 DEF ActionInit, RowsOK, Explained
<1>4. ReviewingOK
    BY DEF ActionInit, ReviewingOK, Rest, Action, Bare
<1> QED BY <1>2, <1>3, <1>4 DEF ActionInv

LEMMA ActionStep ==
    ASSUME ActionInv, [ActionNext]_actionVars
    PROVE  ActionInv'
<1>1. CASE UNCHANGED actionVars
    BY <1>1 DEF actionVars, brokerVars, ActionInv, BrokerOK, RowsOK, ReviewingOK, Explained
<1> QED BY <1>1, SplitStep, SellStep, ReadPositionStep, CompareStep, SyncFillStep, UpdateRowStep,
           AdoptActionStep, RecordActionStep, ReconcileKilledStep DEF ActionNext

\* The rows, the broker and what a reconcile has read keep their types, for any
\* splits and sales.
THEOREM ActionTyped == ActionSpec => []ActionTypeOK
<1>1. ActionInv => ActionTypeOK
    <2> SUFFICES ASSUME ActionInv PROVE ActionTypeOK
        OBVIOUS
    <2>1. Explained \subseteq Nat
        BY ExplainedType
    <2> QED BY <2>1 DEF ActionInv, BrokerOK, RowsOK, ReviewingOK, ActionTypeOK, Action
<1> QED BY <1>1, ActionStart, ActionStep, PTL DEF ActionSpec

\* The row and the fills have the shares of the entry, those that a declared action
\* left or, where one is declared that does not say what it left, any; whichever
\* reconcile dies and whatever is sold or split in between.
THEOREM QuantitiesExplained == ActionSpec => []OnlyExplainedQuantities
<1>1. ActionInv => OnlyExplainedQuantities
    BY DEF ActionInv, RowsOK, Explained, OnlyExplainedQuantities
<1> QED BY <1>1, ActionStart, ActionStep, PTL DEF ActionSpec
-----------------------------------------------------------------------------
(* The types of LiveTicket and StopAmendment.                              *)

\* A terminal that is idle holds no job.
AtRest ==
    /\ liveHalt \in BOOLEAN
    /\ \A p \in Terminal : job[p].at = "idle" => job[p] = NoJob

LEMMA AtRestStep ==
    ASSUME TicketInv, AtRest, [TicketNext]_ticketVars
    PROVE  AtRest'
<1> USE DEF AtRest
<1>0. \A p \in Terminal : job[p] = [job[p] EXCEPT !.at = job[p].at]
  BY DEF TicketInv, TicketTypes
<1>1. CASE UNCHANGED ticketVars
  BY <1>1 DEF ticketVars
<1>2. ASSUME UNCHANGED job, UNCHANGED liveHalt \/ liveHalt' \in BOOLEAN
      PROVE  AtRest'
  BY <1>2
<1>3. ASSUME NEW p \in Terminal, Done(p), UNCHANGED liveHalt \/ liveHalt' = TRUE
      PROVE  AtRest'
  BY <1>3 DEF Done, TicketInv, TicketTypes
<1>4. ASSUME NEW p \in Terminal, NEW step \in JobStep \ {"idle"}, ProceedTo(p, step), UNCHANGED liveHalt
      PROVE  AtRest'
  BY <1>4 DEF ProceedTo, TicketInv, TicketTypes
<1>5. ASSUME NEW p \in Terminal, NEW d \in Decision, NEW fill, Consume(p, d, fill) \/ RequestExit(p, d)
      PROVE  AtRest'
  BY <1>5 DEF Consume, RequestExit, TicketInv, TicketTypes
<1>6. ASSUME NEW d \in Decision, IssueTicket(d) \/ ExpireTicket(d)
      PROVE  AtRest'
  BY <1>2, <1>6 DEF IssueTicket, ExpireTicket
<1>7. ASSUME NEW p \in Terminal,
             \/ FillUnproven(p) \/ FillDiverges(p) \/ MarkProtected(p) \/ MarkLiveClosed(p)
             \/ CommandDies(p)
      PROVE  AtRest'
  BY <1>3, <1>7 DEF FillUnproven, FillDiverges, MarkProtected, MarkLiveClosed, CommandDies, Fails
<1>8. ASSUME NEW p \in Terminal,
             \/ AddLiveTrade(p) \/ RecordFill(p) \/ CreateOpen(p)
             \/ ReadLiveTrade(p) \/ CloseLiveTrade(p) \/ ReviewLiveTrade(p)
      PROVE  AtRest'
  <2>1. \/ Done(p) /\ UNCHANGED liveHalt
        \/ \E step \in JobStep \ {"idle"} : ProceedTo(p, step) /\ UNCHANGED liveHalt
    BY <1>8
    DEF AddLiveTrade, RecordFill, CreateOpen, ReadLiveTrade, CloseLiveTrade, ReviewLiveTrade,
        Fails, JobStep
  <2> QED
    BY <1>3, <1>4, <2>1
<1>9. CASE AckLiveHalt
  BY <1>2, <1>9 DEF AckLiveHalt
<1> QED
  BY <1>1, <1>5, <1>6, <1>7, <1>8, <1>9 DEF TicketNext

\* Every ticket, trade and lifecycle row keeps its type, and every command that
\* runs is about a decision.
THEOREM TicketTyped == TicketSpec => []TicketTypeOK
<1>1. TicketInit => AtRest
  BY DEF TicketInit, AtRest
<1>2. TicketInv /\ AtRest /\ [TicketNext]_ticketVars => AtRest'
  BY AtRestStep
<1>3. TicketInv /\ AtRest => TicketTypeOK
  BY DEF TicketInv, TicketTypes, AtRest, TicketTypeOK, Trade
<1> QED
  BY <1>1, <1>2, <1>3, TicketAlways, PTL DEF TicketSpec

\* What the stop in the row and the requests name is a price that occurs, and no
\* more orders succeed each other than the bound allows.
PricesOccur ==
    /\ Len(chain) <= MaxOrders
    /\ rowStop \in StopLevel /\ rowOpen \in BOOLEAN
    /\ \A p \in Operator : amend[p].want \in StopLevel

LEMMA PricesStep ==
    ASSUME StopInv, PricesOccur, [StopNext]_stopVars
    PROVE  PricesOccur'
<1> USE DEF PricesOccur
<1>1. CASE UNCHANGED stopVars
  BY <1>1 DEF stopVars
<1>2. ASSUME NEW p \in Operator, NEW order \in 1..Len(chain), NEW want \in StopLevel,
             ReadRow(p, order, want)
      PROVE  PricesOccur'
  BY <1>2 DEF ReadRow, StopInv, StopTypes
<1>0. \A p \in Operator, at \in {"read", "asked", "patched"} :
          \A q \in Operator : [amend EXCEPT ![p].at = at][q].want = amend[q].want
  BY DEF StopInv, StopTypes
<1>3. ASSUME NEW p \in Operator, UNCHANGED chain,
             \/ amend' = [amend EXCEPT ![p] = StopIdle]
             \/ \E at \in {"read", "asked", "patched"} : amend' = [amend EXCEPT ![p].at = at],
             rowStop' \in StopLevel, UNCHANGED rowOpen
      PROVE  PricesOccur'
  <2>1. \A q \in Operator : amend'[q].want \in StopLevel
    <3>1. CASE amend' = [amend EXCEPT ![p] = StopIdle]
      BY <3>1, StopAssumption DEF StopIdle, StopInv, StopTypes
    <3>2. CASE \E at \in {"read", "asked", "patched"} : amend' = [amend EXCEPT ![p].at = at]
      BY <1>0, <3>2
    <3> QED
      BY <1>3, <3>1, <3>2
  <2> QED
    BY <1>3, <2>1
<1>7. ASSUME NEW p \in Operator, AskBroker(p) PROVE PricesOccur'
  BY <1>3, <1>7 DEF AskBroker
<1>8. ASSUME NEW p \in Operator, WriteRow(p) PROVE PricesOccur'
  BY <1>3, <1>8 DEF WriteRow
<1>9. ASSUME NEW p \in Operator, AmendmentFails(p) PROVE PricesOccur'
  BY <1>3, <1>9 DEF AmendmentFails
<1>4. ASSUME NEW p \in Operator, Patch(p) PROVE PricesOccur'
  <2>1. CASE chain[amend[p].order].status = "new"
    <3>1. Len(chain) < MaxOrders /\ Len(chain') = Len(chain) + 1
      BY <1>4, <2>1, Replaces DEF Patch
    <3>2. amend' = [amend EXCEPT ![p].at = "patched"] /\ UNCHANGED <<rowStop, rowOpen>>
      BY <1>4, <2>1 DEF Patch
    <3> QED
      BY <3>1, <3>2, StopAssumption DEF StopInv, StopTypes
  <2>2. CASE chain[amend[p].order].status # "new"
    <3>1. UNCHANGED <<chain, rowStop, rowOpen>> /\ amend' = [amend EXCEPT ![p] = StopIdle]
      BY <1>4, <2>2 DEF Patch
    <3> QED
      BY <1>3, <3>1
  <2> QED
    BY <2>1, <2>2
<1>5. CASE ExitFills
  <2>1. Len(chain') = Len(chain)
    BY <1>5 DEF ExitFills, StopInv, StopTypes
  <2> QED
    BY <1>5, <2>1 DEF ExitFills
<1>6. CASE RowCloses
  BY <1>6 DEF RowCloses
<1> QED
  BY <1>1, <1>2, <1>4, <1>5, <1>6, <1>7, <1>8, <1>9 DEF StopNext

\* The chain of stop orders, the row and every request keep their types.
THEOREM StopTyped == StopSpec => []StopTypeOK
<1>1. StopInit => PricesOccur
  BY StopAssumption DEF StopInit, PricesOccur, StopIdle
<1>2. StopInv /\ PricesOccur /\ [StopNext]_stopVars => PricesOccur'
  BY PricesStep
<1>3. StopInv /\ PricesOccur => StopTypeOK
  <2> SUFFICES ASSUME StopInv, PricesOccur PROVE StopTypeOK
    OBVIOUS
  <2>1. chain \in Seq([stop : Nat, status : {"new", "replaced", "filled"}])
    <3> DEFINE Order == [stop : Nat, status : {"new", "replaced", "filled"}]
    <3>1. \A i \in 1..Len(chain) : chain[i] \in StopOrder
      BY DEF StopInv, StopTypes
    <3>2. \A o \in StopOrder : o \in Order
      BY DEF StopOrder
    <3> HIDE DEF Order
    <3>3. Len(chain) \in Nat /\ chain \in [1..Len(chain) -> Order]
      BY <3>1, <3>2 DEF StopInv, StopTypes
    <3>4. chain \in Seq(Order)
      BY <3>3
    <3> QED
      BY <3>4 DEF Order
  <2>2. Len(chain) \in 1..MaxOrders
    BY StopAssumption DEF StopInv, StopTypes, PricesOccur
  <2>3. amend \in [Operator -> [at : {"idle", "read", "asked", "patched"},
                                order : 1..Len(chain), want : StopLevel]]
    BY DEF StopInv, StopTypes, PricesOccur
  <2> QED
    BY <2>1, <2>2, <2>3 DEF StopTypeOK, PricesOccur
<1> QED
  BY <1>1, <1>2, <1>3, StopAlways, PTL DEF StopSpec
=============================================================================
