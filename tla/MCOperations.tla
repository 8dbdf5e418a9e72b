---------------------------- MODULE MCOperations -----------------------------
(***************************************************************************)
(* The components beside the entry and position path whose properties are  *)
(* about what may never happen, each by itself: they read and write rows   *)
(* of their own, so that interleaving the steps of two of them says no     *)
(* more than the two apart.  A behaviour exercises the component it starts *)
(* with.  (MCSchedule has those of which something must happen.)           *)
(***************************************************************************)
EXTENDS RiskSizing, StopAmendment, LiveTicket, Learning, AgentReview, HaltLatches,
        EarningsFeed, CorporateAction, MCScanFunnel, TLC

VARIABLE part   \* the component exercised

\* The commands that run at once are interchangeable, in every component.
Processes == Permutations(Process)

MCSectorOf == [s \in Symbol |-> "tech"]

MCClusterOf == [s \in Symbol |-> IF s = "c" THEN "other" ELSE "chips"]

\* Candidates of two keys; x moves by less than the threshold at a time, or
\* comes back in another regime.
At(ticker, score, context) == [ticker |-> ticker, score |-> score, context |-> context]

MCScreen == {<<At("x", 3, "bull")>>, <<At("x", 6, "bull")>>,
             <<At("x", 0, "bear"), At("y", 3, "bull")>>}

\* No answer yet, or those an earlier scan got for x at score 0.
MCKept == {{}, {[ticker |-> "x", role |-> r, score |-> 0, seen |-> 0,
                 context |-> "bull", good |-> TRUE] : r \in Role}}

haltVars == vars

rowVars == <<sizingVars, stopVars, ticketVars, learningVars, agentVars, haltVars>>

marketVars == <<earningsVars, actionVars, scanVars>>

opsVars == <<rowVars, marketVars, part>>

\* A component that is not exercised starts in one state.
OperationsInit ==
    /\ part \in {"sizing", "stops", "tickets", "learning", "agents", "halts",
                "earnings", "splits", "scan"}
    /\ SizingInit /\ StopInit /\ TicketInit /\ LearningInit /\ AgentInit /\ Init
    /\ EarningsInit /\ ActionInit /\ ScanInit
    /\ part # "stops" => Last(chain).stop = Min(Rounded(FirstStop))
    /\ part # "agents" => reviews = {}
    /\ part # "halts" => equity = Min(Equity) /\ open = 0
    /\ part # "earnings" => report = Min(Report)
    /\ part # "scan" =>
          /\ regime = "BULL" /\ config.buy = 70 /\ config.preferred = 70
          /\ config.borderline = 60 /\ config.hostile = 0

RowNext ==
    \/ /\ part = "sizing" /\ SizingNext
       /\ UNCHANGED <<stopVars, ticketVars, learningVars, agentVars, haltVars>>
    \/ /\ part = "stops" /\ StopNext
       /\ UNCHANGED <<sizingVars, ticketVars, learningVars, agentVars, haltVars>>
    \/ /\ part = "tickets" /\ TicketNext
       /\ UNCHANGED <<sizingVars, stopVars, learningVars, agentVars, haltVars>>
    \/ /\ part = "learning" /\ LearningNext
       /\ UNCHANGED <<sizingVars, stopVars, ticketVars, agentVars, haltVars>>
    \/ /\ part = "agents" /\ AgentNext
       /\ UNCHANGED <<sizingVars, stopVars, ticketVars, learningVars, haltVars>>
    \/ /\ part = "halts" /\ Next
       /\ UNCHANGED <<sizingVars, stopVars, ticketVars, learningVars, agentVars>>

MarketNext ==
    \/ part = "earnings" /\ EarningsNext /\ UNCHANGED <<actionVars, scanVars>>
    \/ part = "splits" /\ ActionNext /\ UNCHANGED <<earningsVars, scanVars>>
    \/ part = "scan" /\ ScanNext /\ UNCHANGED <<earningsVars, actionVars>>

OperationsNext ==
    /\ UNCHANGED part
    /\ \/ RowNext /\ UNCHANGED marketVars
       \/ MarketNext /\ UNCHANGED rowVars

OperationsSpec == OperationsInit /\ [][OperationsNext]_opsVars

\* The rows of every component have the types of its columns.
OperationsTypeOK ==
    /\ SizingTypeOK /\ StopTypeOK /\ TicketTypeOK /\ LearningTypeOK /\ AgentTypeOK
    /\ EarningsTypeOK /\ ActionTypeOK /\ ScanTypeOK
===========================================================================
