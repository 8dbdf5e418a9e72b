------------------------------- MODULE Learning -------------------------------
(***************************************************************************)
(* The learning loop: each closed trade leaves an OBSERVATION lesson,      *)
(* review-observations proposes a hypothesis for a scope with enough of    *)
(* them, record_comparison stores a backtest and a verdict, a human        *)
(* approves a version, and an operator deploys one, approved or not.       *)
(*                                                                         *)
(* The database holds all of it and no command holds a lock across its     *)
(* calls.  A lesson stands for the one trade it observes.  One process     *)
(* reviews at a time.  Versions are numbered: review-observations names a  *)
(* candidate after the deployed version, with a suffix, so the successor   *)
(* of n is n + 1.                                                          *)
(***************************************************************************)
EXTENDS Integers, Sequences, FiniteSets

CONSTANTS Regime,           \* market regimes of one setup
          ReviewSample,     \* settings.minimum_statistical_sample
          ApprovalSample,   \* the samples that an approval requires
          MaxLessons, MaxHypotheses, MaxBacktests, MaxVersion   \* bounds

ASSUME LearningAssumption ==
    /\ {ReviewSample, ApprovalSample, MaxLessons, MaxHypotheses, MaxBacktests, MaxVersion} \subseteq Nat
    /\ ApprovalSample <= ReviewSample   \* SwingSettings.validate
    /\ "any" \notin Regime

VARIABLES
    lessons,        \* the lessons: regime and status
    hypotheses,     \* scope, support, status, candidate version, human_approved
    backtests,      \* hypothesis and verdict
    versions,       \* strategy_versions: status, backtest_id or 0, approved_by is set
    deployed,       \* settings.strategy_version
    review,         \* the reviewer's groups: scope |-> samples; and the scope to insert
    verdict,        \* the backtest whose verdict is to be written, or 0
    approval        \* the approval under way: hypothesis and backtest, or 0 and 0

learningVars == <<lessons, hypotheses, backtests, versions, deployed, review, verdict, approval>>

Scope == Regime \cup {"any"}

NoReview == [groups |-> << >>, insert |-> "none"]

NoApproval == [hypothesis |-> 0, backtest |-> 0]

\* The row that initialize adds for a version it does not know.
Configured == [status |-> "PRODUCTION", evidence |-> 0, approved |-> FALSE]

LearningInit ==
    /\ lessons = << >> /\ hypotheses = << >> /\ backtests = << >>
    /\ versions = [v \in {0} |-> Configured]
    /\ deployed = 0
    /\ review = NoReview /\ verdict = 0 /\ approval = NoApproval

\* close_and_review: create_observation.
Observe(regime) ==
    /\ Len(lessons) < MaxLessons
    /\ lessons' = Append(lessons, [regime |-> regime, status |-> "OBSERVATION"])
    /\ UNCHANGED <<hypotheses, backtests, versions, deployed, review, verdict, approval>>

\* transition_lesson; REJECTED stands for RETIRED as well.  VALIDATED requires a
\* sample of two and no code raises a lesson's sample above one, so that no lesson
\* becomes VALIDATED.
LessonMoves(l) ==
    /\ \E s \in {"PROVISIONAL", "REJECTED"} :
         /\ lessons[l].status \in {"OBSERVATION", "PROVISIONAL"} \ {s}
         /\ lessons' = [lessons EXCEPT ![l].status = s]
    /\ UNCHANGED <<hypotheses, backtests, versions, deployed, review, verdict, approval>>

---------------------------------------------------------------------------
(* review-observations.                                                    *)

\* A lesson counts for its regime and for the setup as a whole.
Samples(scope) ==
    Cardinality({l \in DOMAIN lessons :
                    lessons[l].status = "OBSERVATION" /\ (scope = "any" \/ lessons[l].regime = scope)})

\* The lessons are read once; the scopes with enough of them are gone through.
StartReview ==
    LET enough == {s \in Scope : Samples(s) >= ReviewSample}
    IN /\ review = NoReview /\ enough # {}
       /\ review' = [review EXCEPT !.groups = [s \in enough |-> Samples(s)]]
       /\ UNCHANGED <<lessons, hypotheses, backtests, versions, deployed, verdict, approval>>

\* Mutant: only VALIDATING hypotheses count as open.
OpenForValidating(scope) ==
    {h \in DOMAIN hypotheses : hypotheses[h].scope = scope /\ hypotheses[h].status = "VALIDATING"}

\* _existing_open_hypothesis.
Open(scope) ==
    {h \in DOMAIN hypotheses :
        hypotheses[h].scope = scope /\ hypotheses[h].status \in {"PROPOSED", "VALIDATING"}}

LookForOpen(scope) ==
    /\ review.insert = "none" /\ scope \in DOMAIN review.groups
    /\ review' = IF Open(scope) = {}
                 THEN [review EXCEPT !.insert = scope]
                 ELSE [review EXCEPT !.groups = [s \in DOMAIN @ \ {scope} |-> @[s]]]
    /\ UNCHANGED <<lessons, hypotheses, backtests, versions, deployed, verdict, approval>>

\* SwingResearchEngine.propose.
Propose ==
    /\ review.insert # "none" /\ Len(hypotheses) < MaxHypotheses /\ deployed < MaxVersion
    /\ hypotheses' = Append(hypotheses,
            [scope |-> review.insert, support |-> review.groups[review.insert], status |-> "PROPOSED",
             version |-> deployed + 1, approved |-> FALSE])
    /\ review' = [groups |-> [s \in DOMAIN review.groups \ {review.insert} |-> review.groups[s]],
                  insert |-> "none"]
    /\ UNCHANGED <<lessons, backtests, versions, deployed, verdict, approval>>

ReviewDies ==
    /\ review # NoReview
    /\ review' = NoReview
    /\ UNCHANGED <<lessons, hypotheses, backtests, versions, deployed, verdict, approval>>

---------------------------------------------------------------------------
(* record_comparison: two writes.                                          *)

AddBacktest(h, accepted) ==
    /\ verdict = 0 /\ Len(backtests) < MaxBacktests
    /\ backtests' = Append(backtests, [hypothesis |-> h, accepted |-> accepted])
    /\ verdict' = Len(backtests) + 1
    /\ UNCHANGED <<lessons, hypotheses, versions, deployed, review, approval>>

\* update_hypothesis_validation: whatever the status was.
WriteVerdict ==
    /\ verdict # 0
    /\ hypotheses' = [hypotheses EXCEPT ![backtests[verdict].hypothesis].status =
                        IF backtests[verdict].accepted THEN "VALIDATED" ELSE "REJECTED"]
    /\ verdict' = 0
    /\ UNCHANGED <<lessons, backtests, versions, deployed, review, approval>>

ComparisonDies ==
    /\ verdict # 0 /\ verdict' = 0
    /\ UNCHANGED <<lessons, hypotheses, backtests, versions, deployed, review, approval>>

---------------------------------------------------------------------------
(* approve-strategy, by a named human.                                     *)

\* Mutant: the latest backtest, accepted or not.
LatestSupport(h) == {b \in DOMAIN backtests : backtests[b].hypothesis = h}

\* The backtests that may support hypothesis h.
Support(h) == {b \in DOMAIN backtests : backtests[b].hypothesis = h /\ backtests[b].accepted}

\* approve_candidate_strategy, its checks.
CheckApproval(h) ==
    /\ approval = NoApproval
    /\ hypotheses[h].support >= ApprovalSample
    /\ \E b \in Support(h) :
         /\ \A c \in Support(h) : c <= b
         /\ approval' = [hypothesis |-> h, backtest |-> b]
    /\ UNCHANGED <<lessons, hypotheses, backtests, versions, deployed, review, verdict>>

\* INSERT OR IGNORE: a version that exists keeps the evidence it came with, if any.
WithVersion(v, row) ==
    IF v \in DOMAIN versions
    THEN versions
    ELSE [n \in DOMAIN versions \cup {v} |-> IF n = v THEN row ELSE versions[n]]

CandidateRow(evidence) == [status |-> "CANDIDATE", evidence |-> evidence, approved |-> TRUE]

\* Mutant: the version in production is not retired.
PromotedBeside(v, evidence) ==
    [WithVersion(v, CandidateRow(evidence)) EXCEPT ![v].status = "PRODUCTION", ![v].approved = TRUE]

Promoted(v, evidence) ==
    LET known == WithVersion(v, CandidateRow(evidence))
    IN [n \in DOMAIN known |->
          IF n = v THEN [known[n] EXCEPT !.status = "PRODUCTION", !.approved = TRUE]
          ELSE [known[n] EXCEPT !.status = IF @ = "PRODUCTION" THEN "RETIRED" ELSE @]]

\* approve_candidate_strategy, its writes: one transaction.
Approve ==
    LET h == approval.hypothesis
    IN /\ approval # NoApproval
       /\ versions' = Promoted(hypotheses[h].version, approval.backtest)
       /\ hypotheses' = [hypotheses EXCEPT ![h].status = "APPROVED", ![h].approved = TRUE]
       /\ approval' = NoApproval
       /\ UNCHANGED <<lessons, backtests, deployed, review, verdict>>

ApprovalDies ==
    /\ approval # NoApproval /\ approval' = NoApproval
    /\ UNCHANGED <<lessons, hypotheses, backtests, versions, deployed, review, verdict>>

\* STRATEGY_VERSION names a version, and initialize, which every command starts with,
\* puts one that it does not know into production: nobody has approved it, and none
\* is retired for it.
Deploy(v) ==
    /\ deployed' = v
    /\ versions' = WithVersion(v, Configured)
    /\ UNCHANGED <<lessons, hypotheses, backtests, review, verdict, approval>>

LearningNext ==
    \/ \E regime \in Regime : Observe(regime)
    \/ \E l \in DOMAIN lessons : LessonMoves(l)
    \/ StartReview \/ Propose \/ ReviewDies
    \/ \E scope \in Scope : LookForOpen(scope)
    \/ \E h \in DOMAIN hypotheses : CheckApproval(h) \/ \E accepted \in BOOLEAN : AddBacktest(h, accepted)
    \/ WriteVerdict \/ ComparisonDies
    \/ Approve \/ ApprovalDies
    \/ \E v \in 0..MaxVersion : Deploy(v)

LearningSpec == LearningInit /\ [][LearningNext]_learningVars

---------------------------------------------------------------------------
(* Properties.                                                             *)

LearningTypeOK ==
    /\ lessons \in Seq([regime : Regime, status : {"OBSERVATION", "PROVISIONAL", "REJECTED"}])
    /\ hypotheses \in Seq([scope : Scope, support : Nat, version : 1..MaxVersion, approved : BOOLEAN,
                           status : {"PROPOSED", "VALIDATED", "REJECTED", "APPROVED"}])
    /\ backtests \in Seq([hypothesis : DOMAIN hypotheses, accepted : BOOLEAN])
    /\ \A v \in DOMAIN versions :
           /\ v \in 0..MaxVersion
           /\ versions[v] \in [status : {"CANDIDATE", "PRODUCTION", "RETIRED"},
                               evidence : 0..Len(backtests), approved : BOOLEAN]
    /\ deployed \in DOMAIN versions
    /\ DOMAIN review.groups \subseteq Scope /\ review.insert \in DOMAIN review.groups \cup {"none"}
    /\ verdict \in 0..Len(backtests)
    /\ approval \in [hypothesis : 0..Len(hypotheses), backtest : 0..Len(backtests)]

\* b is an accepted comparison of an approved hypothesis with a sufficient sample,
\* whose candidate is v.
Backs(b, v) ==
    LET h == hypotheses[backtests[b].hypothesis]
    IN backtests[b].accepted /\ h.approved /\ h.support >= ApprovalSample /\ h.version = v

\* "Production approval requires at least 30 supporting samples, an accepted
\* out-of-sample backtest, a candidate strategy version": a version that is in
\* production with an approver has the evidence it needs, and the comparison its row
\* names is such evidence, however many comparisons were made or broken off.  One
\* that is in production without an approver is there because STRATEGY_VERSION named
\* it: initialize asks for no evidence at all.
ProductionBacked ==
    \A v \in DOMAIN versions : versions[v].status = "PRODUCTION" =>
        /\ versions[v].approved => \E b \in DOMAIN backtests : Backs(b, v)
        /\ versions[v].evidence # 0 => Backs(versions[v].evidence, v)

InProduction == {v \in DOMAIN versions : versions[v].status = "PRODUCTION"}

\* Whatever is approved or deployed and in which order, some version is in production,
\* and at most one of them by an approval: whoever approves retires all the others.
\* Those that STRATEGY_VERSION named since then may stand beside it.
OneApprovedVersion ==
    /\ InProduction # {}
    /\ \A v, w \in InProduction : versions[v].approved /\ versions[w].approved => v = w

\* A scope has one open hypothesis at most: reviewing again, after a review that
\* died half way or beside a comparison, proposes nothing twice.
OneOpenHypothesis ==
    \A g, h \in DOMAIN hypotheses :
        hypotheses[g].status = "PROPOSED" /\ hypotheses[h].status = "PROPOSED"
        /\ hypotheses[g].scope = hypotheses[h].scope => g = h
===========================================================================
