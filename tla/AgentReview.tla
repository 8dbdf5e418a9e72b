------------------------------ MODULE AgentReview ------------------------------
(***************************************************************************)
(* AgentPipeline.analyze: technical and fundamental analyst, bear and      *)
(* portfolio manager look at each screened candidate in turn, and an       *)
(* answer is kept per ticker, setup and role so that a candidate that has  *)
(* not changed materially is not sent to the model again.  Several scans   *)
(* share the kept answers; each reads them, asks the model and stores the  *)
(* new answer in separate transactions.                                    *)
(*                                                                         *)
(* An answer is reduced to whether the pipeline goes on with it: a valid   *)
(* setup, no blocking event and no data gap, no kill, an APPROVE of the    *)
(* candidate that was asked about.  Ticker stands for ticker and setup,    *)
(* model and prompt version do not change.  The journal rows of a call     *)
(* (agent_decisions, violations, rejections) and the counters of a cycle,  *)
(* which no decision reads, are left out.                                  *)
(***************************************************************************)
EXTENDS Integers, Sequences

CONSTANTS
    Scan,                  \* processes that run the pipeline
    Ticker,                \* candidate keys
    Context,               \* fingerprints of the material context
    Screen,                \* the screened candidate lists a scan may start from
    Kept,                  \* the sets of answers earlier scans may have left
    MaterialChange,        \* llm_material_score_change
    MaximumPmCandidates,   \* finalists the portfolio manager is asked about
    MaxScans               \* bound on the scans of a behaviour

Candidate == [ticker : Ticker, score : Int, context : Context]

Role == {"technical", "fundamental", "bear", "portfolio_manager"}

\* An answer as it is stored: the score last_score holds, and, beside the row,
\* the score of the candidate the model really saw.
Review == [ticker : Ticker, role : Role, score : Int, seen : Int,
           context : Context, good : BOOLEAN]

ASSUME AgentAssumption ==
    /\ MaterialChange \in Nat \ {0}
    /\ MaximumPmCandidates \in Nat \ {0}
    /\ MaxScans \in Nat
    /\ Screen \subseteq Seq(Candidate)
    /\ \A K \in Kept : K \subseteq {r \in Review : r.seen = r.score}

VARIABLES
    reviews,     \* llm_review_state: at most one row per ticker and role
    scan,        \* what each process is doing
    proposals,   \* of each process's last scan, with the answers they rest on
    scans        \* scans started

agentVars == <<reviews, scan, proposals, scans>>

Finalist == [candidate : Candidate, answers : SUBSET Review]

Gap(a, b) == IF a > b THEN a - b ELSE b - a

Idle == [phase |-> "idle", role |-> "technical", todo |-> <<>>,
         answers |-> {}, finalists |-> <<>>]

\* The candidate in hand: a finalist once the portfolio manager's turn has come.
InHand(s) == IF s.role = "portfolio_manager" THEN Head(s.finalists).candidate
             ELSE Head(s.todo)

\* The stored answers for this candidate that _call returns without asking.
Unchanged(c, role) ==
    {r \in reviews : /\ r.ticker = c.ticker /\ r.role = role
                     /\ r.context = c.context
                     /\ Gap(r.score, c.score) < MaterialChange}

\* save_llm_review_state: over the row of that ticker and role, whoever may have
\* written it since it was read.
Stored(r) == {o \in reviews : ~(o.ticker = r.ticker /\ o.role = r.role)} \cup {r}

\* The loop goes to its next candidate, or to the finalists, the best-ranked
\* first and no more than the portfolio manager may be asked about.
NextCandidate(s, finalists) ==
    IF Len(s.todo) > 1
    THEN [s EXCEPT !.phase = "look", !.role = "technical", !.todo = Tail(@),
                   !.answers = {}, !.finalists = finalists]
    ELSE IF finalists = <<>> THEN Idle
    ELSE [s EXCEPT !.phase = "look", !.role = "portfolio_manager", !.todo = <<>>,
                   !.answers = {},
                   !.finalists = SubSeq(finalists, 1,
                       IF Len(finalists) < MaximumPmCandidates THEN Len(finalists)
                       ELSE MaximumPmCandidates)]

NextFinalist(s) ==
    IF Len(s.finalists) > 1 THEN [s EXCEPT !.phase = "look", !.finalists = Tail(@)]
    ELSE Idle

\* A call raised: the candidate is passed over.
PassOver(s) == IF s.role = "portfolio_manager" THEN NextFinalist(s)
               ELSE NextCandidate(s, s.finalists)

\* Where the pipeline goes with the answer r.  The catalyst analyst is asked
\* even about a setup the technical analyst found invalid.
Proceed(s, r) ==
    LET answers == s.answers \cup {r}
        goesOn  == \A a \in answers : a.good
    IN CASE s.role = "technical" ->
              [s EXCEPT !.phase = "look", !.role = "fundamental", !.answers = answers]
         [] s.role = "fundamental" /\ goesOn ->
              [s EXCEPT !.phase = "look", !.role = "bear", !.answers = answers]
         [] s.role = "bear" /\ goesOn ->
              NextCandidate(s, Append(s.finalists,
                  [candidate |-> Head(s.todo), answers |-> answers]))
         [] s.role = "portfolio_manager" -> NextFinalist(s)
         [] OTHER -> NextCandidate(s, s.finalists)

\* What the answer r adds to the proposals returned.
Proposed(s, r) ==
    IF s.role = "portfolio_manager" /\ r.good
    THEN {[candidate |-> InHand(s), answers |-> Head(s.finalists).answers \cup {r}]}
    ELSE {}
-----------------------------------------------------------------------------
AgentTypeOK ==
    /\ reviews \subseteq Review
    /\ scan \in [Scan -> [phase : {"idle", "look", "ask"}, role : Role,
                          todo : Seq(Candidate), answers : SUBSET Review,
                          finalists : Seq(Finalist)]]
    /\ proposals \in [Scan -> SUBSET Finalist]
    /\ scans \in 0..MaxScans

AgentInit ==
    /\ reviews \in Kept /\ scans = 0
    /\ proposals = [p \in Scan |-> {}]
    /\ scan = [p \in Scan |-> Idle]

\* analyze begins with the screened candidates.
StartScan(p) ==
    /\ scan[p].phase = "idle" /\ scans < MaxScans
    /\ \E list \in Screen \ {<<>>} :
           scan' = [scan EXCEPT ![p] = [Idle EXCEPT !.phase = "look", !.todo = list]]
    /\ scans' = scans + 1
    /\ proposals' = [proposals EXCEPT ![p] = {}]
    /\ UNCHANGED reviews

\* Mutant: reusing an answer stores the candidate's score with it.
ReuseRefreshing(p) ==
    /\ scan[p].phase = "look"
    /\ \E r \in Unchanged(InHand(scan[p]), scan[p].role) :
           /\ scan' = [scan EXCEPT ![p] = Proceed(scan[p], r)]
           /\ proposals' = [proposals EXCEPT ![p] = @ \cup Proposed(scan[p], r)]
           /\ reviews' = (reviews \ {r}) \cup {[r EXCEPT !.score = InHand(scan[p]).score]}
    /\ UNCHANGED scans

\* A stored answer is returned in place of a call; its row stays as it is.
Reuse(p) ==
    /\ scan[p].phase = "look"
    /\ \E r \in Unchanged(InHand(scan[p]), scan[p].role) :
           /\ scan' = [scan EXCEPT ![p] = Proceed(scan[p], r)]
           /\ proposals' = [proposals EXCEPT ![p] = @ \cup Proposed(scan[p], r)]
    /\ reviews' = reviews
    /\ UNCHANGED scans

\* No answer is stored, or what is stored belongs to other material.
Miss(p) ==
    /\ scan[p].phase = "look"
    /\ Unchanged(InHand(scan[p]), scan[p].role) = {}
    /\ scan' = [scan EXCEPT ![p].phase = "ask"]
    /\ UNCHANGED <<reviews, proposals, scans>>

\* The stored response no longer satisfies the schema, or its reuse cannot be
\* journalled: the model is asked.
Distrust(p) ==
    /\ scan[p].phase = "look"
    /\ Unchanged(InHand(scan[p]), scan[p].role) # {}
    /\ scan' = [scan EXCEPT ![p].phase = "ask"]
    /\ UNCHANGED <<reviews, proposals, scans>>

\* The model answers, in any way the schema allows, and the answer is stored.
Answer(p) ==
    LET s == scan[p]
        c == InHand(s)
    IN /\ s.phase = "ask"
       /\ \E good \in BOOLEAN :
            LET r == [ticker |-> c.ticker, role |-> s.role, score |-> c.score,
                      seen |-> c.score, context |-> c.context, good |-> good]
            IN /\ reviews' = Stored(r)
               /\ scan' = [scan EXCEPT ![p] = Proceed(s, r)]
               /\ proposals' = [proposals EXCEPT ![p] = @ \cup Proposed(s, r)]
       /\ UNCHANGED scans

\* The model is unavailable, its answer does not fit the schema, or the answer
\* cannot be stored: _call raises and the candidate is passed over.
CallFails(p) ==
    /\ scan[p].phase = "ask"
    /\ scan' = [scan EXCEPT ![p] = PassOver(scan[p])]
    /\ UNCHANGED <<reviews, proposals, scans>>

\* The process dies and returns nothing; the answers it has stored remain.
ScanDies(p) ==
    /\ scan[p].phase # "idle"
    /\ scan' = [scan EXCEPT ![p] = Idle]
    /\ proposals' = [proposals EXCEPT ![p] = {}]
    /\ UNCHANGED <<reviews, scans>>

AgentNext ==
    \E p \in Scan : \/ StartScan(p) \/ Reuse(p) \/ Miss(p) \/ Distrust(p)
                    \/ Answer(p) \/ CallFails(p) \/ ScanDies(p)

AgentSpec == AgentInit /\ [][AgentNext]_agentVars
-----------------------------------------------------------------------------
\* The answer was given for this candidate: about its ticker, with its material
\* context, and at a score that has not moved materially since.
GivenFor(r, c) == /\ r.ticker = c.ticker /\ r.context = c.context
                  /\ Gap(r.seen, c.score) < MaterialChange

\* Whatever answers are reused, replaced by other scans or asked for again, a
\* proposal rests on a favourable answer of every role, and each was given for
\* the material context of the proposed candidate at a score less than the
\* materiality threshold away: "A repeat call is suppressed only when setup,
\* regime, route, ... and score (within the configurable five-point materiality
\* threshold) are unchanged" (docs/refactor/05_JOURNAL_REPORT.md:138-142).  A
\* chain of reuses must not carry an answer further than that.
ProposalsRestOnReviews ==
    \A p \in Scan : \A q \in proposals[p] : \A role \in Role :
        \E r \in q.answers : r.role = role /\ r.good /\ GivenFor(r, q.candidate)
===========================================================================
