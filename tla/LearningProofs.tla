--------------------------- MODULE LearningProofs ---------------------------
(***************************************************************************)
(* Proofs about what the program learns from and proposes: AgentReview,    *)
(* the reviews of a candidate, and Learning, the way of a lesson to a      *)
(* strategy version. For any candidates, scopes, thresholds and numbers of *)
(* scans, versions and deaths.                                             *)
(***************************************************************************)
EXTENDS AgentReview, Learning, SequenceTheorems, FiniteSetTheorems, TLAPS

-----------------------------------------------------------------------------
(* AgentReview: a proposal rests on favourable answers of every role, each *)
(* given for its material.                                                 *)
(*                                                                         *)
(* A row holds the score the model saw (reuse never touches it); what a    *)
(* scan has collected for the candidate in hand and for its finalists was  *)
(* therefore given for them; Proceed keeps it so.                          *)

\* Favourable answers of these roles, given for c.
Backed(c, answers, roles) ==
    \A role \in roles : \E r \in answers : r.role = role /\ r.good /\ GivenFor(r, c)

Analysts == {"technical", "fundamental"}

\* A finalist has passed the analysts and the bear.
FinalistsBacked(fs) ==
    \A i \in 1..Len(fs) : Backed(fs[i].candidate, fs[i].answers, Analysts \cup {"bear"})

\* What a scan holds of the candidate in hand, by the role that comes next.
HandBacked(s) ==
    /\ s.role = "fundamental" =>
         \E r \in s.answers : r.role = "technical" /\ GivenFor(r, Head(s.todo))
    /\ s.role = "bear" => Backed(Head(s.todo), s.answers, Analysts)

ScanType == [phase : {"idle", "look", "ask"}, role : Role, todo : Seq(Candidate),
             answers : SUBSET Review, finalists : Seq(Finalist)]

\* Somebody is in hand while a scan runs.
Busy(s) == s.phase # "idle" =>
    IF s.role = "portfolio_manager" THEN s.finalists # <<>> ELSE s.todo # <<>>

ScanOK(s) == /\ s \in ScanType /\ Busy(s)
             /\ s.phase # "idle" => HandBacked(s) /\ FinalistsBacked(s.finalists)

AgentInv ==
    /\ reviews \subseteq Review
    /\ \A r \in reviews : r.seen = r.score
    /\ DOMAIN scan = Scan
    /\ \A p \in Scan : ScanOK(scan[p])
    /\ proposals \in [Scan -> SUBSET Finalist]
    /\ scans \in 0..MaxScans
    /\ ProposalsRestOnReviews
-----------------------------------------------------------------------------
\* A scan at rest holds nothing.
LEMMA IdleOK == ScanOK(Idle)
<1>1. Idle \in ScanType
  BY DEF Idle, ScanType, Role
<1>. QED BY <1>1 DEF ScanOK, Busy, Idle

\* The candidate in hand is one.
LEMMA InHandTyped ==
    ASSUME NEW s, ScanOK(s), s.phase # "idle"
    PROVE InHand(s) \in Candidate
<1>1. CASE s.role = "portfolio_manager"
  <2>1. s.finalists \in Seq(Finalist) /\ s.finalists # <<>>
    BY <1>1 DEF ScanOK, ScanType, Busy
  <2>2. Head(s.finalists) \in Finalist
    BY <2>1, HeadTailProperties
  <2>. QED BY <1>1, <2>2 DEF InHand, Finalist
<1>2. CASE s.role # "portfolio_manager"
  <2>1. s.todo \in Seq(Candidate) /\ s.todo # <<>>
    BY <1>2 DEF ScanOK, ScanType, Busy
  <2>. QED BY <1>2, <2>1, HeadTailProperties DEF InHand
<1>. QED BY <1>1, <1>2

LEMMA LengthOfNothing == Len(<<>>) = 0
  BY EmptySeq

LEMMA MoreThanOne == ASSUME NEW n \in Nat, n > 1 PROVE n - 1 # 0
  OBVIOUS

LEMMA LongIsSomething == ASSUME NEW q, NEW n, Len(q) = n, n # 0 PROVE q # <<>>
<1>. SUFFICES ASSUME q = <<>> PROVE FALSE
  OBVIOUS
<1>1. Len(q) = 0
  BY LengthOfNothing
<1>. QED BY <1>1

\* The loop's next candidate starts with nothing; the finalists stay backed.
LEMMA NextCandidateOK ==
    ASSUME NEW s, ScanOK(s), NEW fs \in Seq(Finalist), FinalistsBacked(fs)
    PROVE ScanOK(NextCandidate(s, fs))
<1>. DEFINE n == NextCandidate(s, fs)
<1>0. s \in ScanType
  BY DEF ScanOK
<1>1. CASE Len(s.todo) > 1
  <2>1. n = [s EXCEPT !.phase = "look", !.role = "technical", !.todo = Tail(@),
                      !.answers = {}, !.finalists = fs]
    BY <1>1 DEF NextCandidate
  <2>2. Tail(s.todo) \in Seq(Candidate) /\ Tail(s.todo) # <<>>
    <3>1. s.todo \in Seq(Candidate) /\ s.todo # <<>>
      BY <1>0, <1>1, EmptySeq DEF ScanType
    <3>2. Tail(s.todo) \in Seq(Candidate) /\ Len(Tail(s.todo)) = Len(s.todo) - 1
      BY <3>1, HeadTailProperties
    <3>3. Len(s.todo) \in Nat
      BY <3>1, LenProperties
    <3>4. Tail(s.todo) # <<>>
      <4>1. Len(s.todo) - 1 # 0
        BY <1>1, <3>3, MoreThanOne
      <4>. QED BY ONLY <3>2, <4>1, LongIsSomething
    <3>. QED BY <3>2, <3>4
  <2>3. n \in ScanType /\ n.role = "technical" /\ n.todo = Tail(s.todo) /\ n.finalists = fs
    BY <2>1, <2>2, <1>0 DEF ScanType, Role
  <2>. QED BY <2>2, <2>3 DEF ScanOK, Busy, HandBacked
<1>2. CASE ~(Len(s.todo) > 1) /\ fs = <<>>
  BY <1>2, IdleOK DEF NextCandidate
<1>3. CASE ~(Len(s.todo) > 1) /\ fs # <<>>
  <2>. DEFINE k == IF Len(fs) < MaximumPmCandidates THEN Len(fs) ELSE MaximumPmCandidates
              gs == SubSeq(fs, 1, k)
  <2>0. k \in 1..Len(fs)
    BY <1>3, AgentAssumption, EmptySeq
  <2>1. n = [s EXCEPT !.phase = "look", !.role = "portfolio_manager", !.todo = <<>>,
                      !.answers = {}, !.finalists = gs]
    BY <1>3 DEF NextCandidate
  <2>2. /\ gs \in Seq(Finalist) /\ Len(gs) = k
        /\ \A i \in 1..k : gs[i] = fs[i] /\ i \in 1..Len(fs)
    <3>1. Len(fs) \in Nat /\ k \in Int /\ 1 <= k /\ \A i \in 1..k : i \in 1..Len(fs)
      BY <2>0, LenProperties
    <3>2. \A i \in 1..k : fs[i] \in Finalist
      BY <3>1, ElementOfSeq
    <3>3. /\ gs \in Seq(Finalist) /\ Len(gs) = IF 1 <= k THEN k - 1 + 1 ELSE 0
          /\ \A i \in 1..(k - 1 + 1) : gs[i] = fs[1 + i - 1]
      BY <3>1, <3>2, SubSeqProperties
    <3>4. \A i \in 1..k : i \in 1..(k - 1 + 1) /\ 1 + i - 1 = i
      BY <3>1
    <3>. QED BY <3>1, <3>3, <3>4
  <2>3. n \in ScanType /\ n.role = "portfolio_manager" /\ n.finalists = gs
    <3>1. <<>> \in Seq(Candidate)
      BY EmptySeq
    <3>. HIDE DEF gs
    <3>. QED BY <2>1, <2>2, <3>1, <1>0 DEF ScanType, Role
  <2>4. FinalistsBacked(gs)
    BY <2>0, <2>2 DEF FinalistsBacked
  <2>5. gs # <<>>
    BY <2>0, <2>2, EmptySeq
  <2>. QED BY <2>3, <2>4, <2>5 DEF ScanOK, Busy, HandBacked
<1>. QED BY <1>1, <1>2, <1>3

\* The portfolio manager's next finalist was one before.
LEMMA NextFinalistOK ==
    ASSUME NEW s, ScanOK(s), s.phase # "idle", s.role = "portfolio_manager"
    PROVE ScanOK(NextFinalist(s))
<1>. DEFINE fs == s.finalists
<1>0. s \in ScanType /\ fs \in Seq(Finalist) /\ FinalistsBacked(fs)
  BY DEF ScanOK, ScanType
<1>1. CASE Len(fs) > 1
  <2>1. NextFinalist(s) = [s EXCEPT !.phase = "look", !.finalists = Tail(@)]
    BY <1>1 DEF NextFinalist
  <2>2. /\ Tail(fs) \in Seq(Finalist) /\ Tail(fs) # <<>> /\ Len(Tail(fs)) = Len(fs) - 1
        /\ \A i \in 1..Len(Tail(fs)) : Tail(fs)[i] = fs[i + 1] /\ i + 1 \in 1..Len(fs)
    <3>1. fs # <<>> /\ Len(fs) \in Nat
      BY <1>0, <1>1, EmptySeq, LenProperties
    <3>2. /\ Tail(fs) \in Seq(Finalist) /\ Len(Tail(fs)) = Len(fs) - 1
          /\ \A i \in 1..Len(Tail(fs)) : Tail(fs)[i] = fs[i + 1]
      BY <1>0, <3>1, HeadTailProperties
    <3>3. Len(Tail(fs)) \in Nat /\ Len(Tail(fs)) > 0
      BY <1>1, <3>1, <3>2
    <3>4. Tail(fs) # <<>>
      <4>1. Len(fs) - 1 # 0
        BY <1>1, <3>1, MoreThanOne
      <4>. QED BY ONLY <3>2, <4>1, LongIsSomething
    <3>5. \A i \in 1..Len(Tail(fs)) : i + 1 \in 1..Len(fs)
      BY <3>1, <3>2, <3>3
    <3>. QED BY <3>2, <3>4, <3>5
  <2>3. FinalistsBacked(Tail(fs))
    BY <1>0, <2>2 DEF FinalistsBacked
  <2>4. /\ NextFinalist(s) \in ScanType /\ NextFinalist(s).finalists = Tail(fs)
        /\ NextFinalist(s).role = "portfolio_manager"
    BY <1>0, <2>1, <2>2 DEF ScanType
  <2>. QED BY <2>2, <2>3, <2>4 DEF ScanOK, Busy, HandBacked
<1>2. CASE ~(Len(fs) > 1)
  BY <1>2, IdleOK DEF NextFinalist
<1>. QED BY <1>1, <1>2

\* A call that raises leaves what was collected for others.
LEMMA PassOverOK ==
    ASSUME NEW s, ScanOK(s), s.phase # "idle"
    PROVE ScanOK(PassOver(s))
<1>1. s.finalists \in Seq(Finalist) /\ FinalistsBacked(s.finalists)
  BY DEF ScanOK, ScanType
<1>. QED BY <1>1, NextCandidateOK, NextFinalistOK DEF PassOver

\* An answer given for the candidate in hand: what is kept and what is proposed
\* with it was given for the candidates it is kept and proposed for.
LEMMA ProceedOK ==
    ASSUME NEW s, ScanOK(s), s.phase # "idle",
           NEW r \in Review, r.role = s.role, GivenFor(r, InHand(s))
    PROVE /\ ScanOK(Proceed(s, r))
          /\ \A q \in Proposed(s, r) :
                 q \in Finalist /\ Backed(q.candidate, q.answers, Role)
<1>. DEFINE answers == s.answers \cup {r}
            goesOn  == \A a \in answers : a.good
            entry   == [candidate |-> Head(s.todo), answers |-> answers]
<1>0. /\ s \in ScanType /\ HandBacked(s) /\ FinalistsBacked(s.finalists) /\ Busy(s)
      /\ s.finalists \in Seq(Finalist) /\ answers \in SUBSET Review /\ s.role \in Role
  BY DEF ScanOK, ScanType
<1>1. CASE s.role = "technical"
  <2>1. Proceed(s, r) = [s EXCEPT !.phase = "look", !.role = "fundamental",
                                  !.answers = answers]
    BY <1>1 DEF Proceed
  <2>2. Proceed(s, r) \in ScanType
    BY <1>0, <2>1 DEF ScanType, Role
  <2>3. \E a \in answers : a.role = "technical" /\ GivenFor(a, Head(s.todo))
    BY <1>1 DEF InHand
  <2>4. Proposed(s, r) = {}
    BY <1>1 DEF Proposed
  <2>. QED BY <1>0, <1>1, <2>1, <2>2, <2>3, <2>4 DEF ScanOK, Busy, HandBacked, ScanType
<1>2. CASE s.role = "fundamental"
  <2>1. Proposed(s, r) = {}
    BY <1>2 DEF Proposed
  <2>2. CASE goesOn
    <3>1. Proceed(s, r) = [s EXCEPT !.phase = "look", !.role = "bear", !.answers = answers]
      BY <1>2, <2>2 DEF Proceed
    <3>2. Proceed(s, r) \in ScanType
      BY <1>0, <3>1 DEF ScanType, Role
    <3>3. Backed(Head(s.todo), answers, Analysts)
      BY <1>0, <1>2, <2>2 DEF Backed, Analysts, HandBacked, InHand
    <3>. QED BY <1>0, <1>2, <2>1, <3>1, <3>2, <3>3 DEF ScanOK, Busy, HandBacked, ScanType
  <2>3. CASE ~goesOn
    <3>1. Proceed(s, r) = NextCandidate(s, s.finalists)
      BY <1>2, <2>3 DEF Proceed
    <3>. QED BY <1>0, <2>1, <3>1, NextCandidateOK
  <2>. QED BY <2>2, <2>3
<1>3. CASE s.role = "bear"
  <2>1. Proposed(s, r) = {}
    BY <1>3 DEF Proposed
  <2>2. CASE goesOn
    <3>1. Proceed(s, r) = NextCandidate(s, Append(s.finalists, entry))
      BY <1>3, <2>2 DEF Proceed
    <3>2. Backed(Head(s.todo), answers, Analysts \cup {"bear"})
      BY <1>0, <1>3, <2>2 DEF Backed, Analysts, HandBacked, InHand
    <3>3. entry \in Finalist
      <4>1. InHand(s) \in Candidate
        BY InHandTyped
      <4>. QED BY <1>0, <1>3, <4>1 DEF InHand, Finalist
    <3>4. /\ Append(s.finalists, entry) \in Seq(Finalist)
          /\ FinalistsBacked(Append(s.finalists, entry))
      <4>. DEFINE fs == s.finalists
                  longer == Append(fs, entry)
      <4>1. /\ longer \in Seq(Finalist) /\ Len(longer) = Len(fs) + 1
            /\ \A i \in 1..Len(fs) : longer[i] = fs[i]
            /\ longer[Len(fs) + 1] = entry
        BY <1>0, <3>3, AppendProperties
      <4>2. Len(fs) \in Nat
        BY <1>0, LenProperties
      <4>3. ASSUME NEW i \in 1..Len(longer)
            PROVE Backed(longer[i].candidate, longer[i].answers, Analysts \cup {"bear"})
        <5>1. CASE i \in 1..Len(fs)
          BY <1>0, <4>1, <5>1 DEF FinalistsBacked
        <5>2. CASE i = Len(fs) + 1
          BY <3>2, <4>1, <5>2
        <5>. QED BY <4>1, <4>2, <4>3, <5>1, <5>2
      <4>. QED BY <4>1, <4>3 DEF FinalistsBacked
    <3>. QED BY <2>1, <3>1, <3>4, NextCandidateOK
  <2>3. CASE ~goesOn
    <3>1. Proceed(s, r) = NextCandidate(s, s.finalists)
      BY <1>3, <2>3 DEF Proceed
    <3>. QED BY <1>0, <2>1, <3>1, NextCandidateOK
  <2>. QED BY <2>2, <2>3
<1>4. CASE s.role = "portfolio_manager"
  <2>. DEFINE f == Head(s.finalists)
  <2>1. Proceed(s, r) = NextFinalist(s)
    BY <1>4 DEF Proceed
  <2>2. f = s.finalists[1] /\ f \in Finalist /\ 1 \in 1..Len(s.finalists)
    <3>1. s.finalists # <<>>
      BY <1>0, <1>4 DEF Busy
    <3>2. Len(s.finalists) \in Nat /\ Len(s.finalists) # 0
      BY <1>0, <3>1, EmptySeq, LenProperties
    <3>. QED BY <1>0, <3>1, <3>2, HeadTailProperties
  <2>3. Backed(f.candidate, f.answers, Analysts \cup {"bear"})
    BY <1>0, <2>2 DEF FinalistsBacked
  <2>4. ASSUME r.good PROVE Backed(f.candidate, f.answers \cup {r}, Role)
    BY <1>4, <2>3, <2>4 DEF Backed, Analysts, Role, InHand
  <2>5. [candidate |-> f.candidate, answers |-> f.answers \cup {r}] \in Finalist
    BY <2>2 DEF Finalist
  <2>6. ASSUME NEW q \in Proposed(s, r)
        PROVE q \in Finalist /\ Backed(q.candidate, q.answers, Role)
    BY <1>4, <2>4, <2>5, <2>6 DEF Proposed, InHand
  <2>. QED BY <1>4, <2>1, <2>6, NextFinalistOK
<1>. QED BY <1>0, <1>1, <1>2, <1>3, <1>4 DEF Role
-----------------------------------------------------------------------------
\* Nothing is kept but what was given, and nothing is proposed.
THEOREM InitAgentInv == AgentInit => AgentInv
<1>. SUFFICES ASSUME AgentInit PROVE AgentInv
  OBVIOUS
<1>1. reviews \subseteq Review /\ \A r \in reviews : r.seen = r.score
  BY AgentAssumption DEF AgentInit
<1>2. \A p \in Scan : ScanOK(scan[p])
  BY IdleOK DEF AgentInit
<1>3. proposals \in [Scan -> SUBSET Finalist] /\ ProposalsRestOnReviews
  BY DEF AgentInit, ProposalsRestOnReviews
<1>4. DOMAIN scan = Scan /\ scans \in 0..MaxScans
  BY AgentAssumption DEF AgentInit
<1>. QED BY <1>1, <1>2, <1>3, <1>4 DEF AgentInv

\* A scan that proceeds with an answer given for its candidate keeps the
\* invariant, whatever it does to the rows.
LEMMA ProceedingKeeps ==
    ASSUME AgentInv, NEW p \in Scan, scan[p].phase # "idle",
           NEW r \in Review, r.role = scan[p].role, GivenFor(r, InHand(scan[p])),
           scan' = [scan EXCEPT ![p] = Proceed(scan[p], r)],
           proposals' = [proposals EXCEPT ![p] = @ \cup Proposed(scan[p], r)]
    PROVE /\ DOMAIN scan' = Scan /\ \A o \in Scan : ScanOK(scan'[o])
          /\ proposals' \in [Scan -> SUBSET Finalist] /\ ProposalsRestOnReviews'
<1>1. /\ ScanOK(Proceed(scan[p], r))
      /\ \A q \in Proposed(scan[p], r) :
             q \in Finalist /\ Backed(q.candidate, q.answers, Role)
  BY ProceedOK DEF AgentInv
<1>2. DOMAIN scan' = Scan /\ \A o \in Scan : ScanOK(scan'[o])
  BY <1>1 DEF AgentInv
<1>3. proposals' \in [Scan -> SUBSET Finalist]
  BY <1>1 DEF AgentInv
<1>4. ASSUME NEW o \in Scan, NEW q \in proposals'[o]
      PROVE Backed(q.candidate, q.answers, Role)
  <2>1. CASE q \in proposals[o]
    BY <2>1 DEF AgentInv, ProposalsRestOnReviews, Backed
  <2>2. CASE o = p /\ q \in Proposed(scan[p], r)
    BY <1>1, <2>2
  <2>. QED BY <1>4, <2>1, <2>2 DEF AgentInv
<1>5. ProposalsRestOnReviews'
  BY <1>4 DEF ProposalsRestOnReviews, Backed, GivenFor
<1>. QED BY <1>2, <1>3, <1>5

\* Every step keeps what a row says of the answer it holds.
THEOREM NextAgentInv == AgentInv /\ [AgentNext]_agentVars => AgentInv'
<1>. SUFFICES ASSUME AgentInv, [AgentNext]_agentVars PROVE AgentInv'
  OBVIOUS
<1>. USE DEF AgentInv
<1>1. ASSUME NEW p \in Scan, StartScan(p) PROVE AgentInv'
  <2>1. PICK list \in Screen \ {<<>>} :
            scan' = [scan EXCEPT ![p] = [Idle EXCEPT !.phase = "look", !.todo = list]]
    BY <1>1 DEF StartScan
  <2>. DEFINE s == [Idle EXCEPT !.phase = "look", !.todo = list]
  <2>2. list \in Seq(Candidate) /\ list # <<>>
    BY <2>1, AgentAssumption
  <2>3. s \in ScanType /\ s.role = "technical" /\ s.todo = list /\ s.finalists = <<>>
    <3>1. <<>> \in Seq(Finalist)
      BY EmptySeq
    <3>. QED BY <2>2, <3>1 DEF Idle, ScanType, Role
  <2>4. FinalistsBacked(<<>>)
    BY LengthOfNothing DEF FinalistsBacked
  <2>5. ScanOK(s)
    BY <2>2, <2>3, <2>4 DEF ScanOK, Busy, HandBacked
  <2>6. \A o \in Scan : ScanOK(scan'[o])
    BY <2>1, <2>5
  <2>7. DOMAIN scan' = Scan
    BY <2>1
  <2>8. proposals' \in [Scan -> SUBSET Finalist] /\ scans' \in 0..MaxScans
    BY <1>1, AgentAssumption DEF StartScan
  <2>9. ProposalsRestOnReviews'
    BY <1>1 DEF StartScan, ProposalsRestOnReviews, GivenFor
  <2>10. UNCHANGED reviews
    BY <1>1 DEF StartScan
  <2>. QED BY <2>6, <2>7, <2>8, <2>9, <2>10
<1>2. ASSUME NEW p \in Scan, Reuse(p) PROVE AgentInv'
  <2>1. PICK r \in Unchanged(InHand(scan[p]), scan[p].role) :
            /\ scan' = [scan EXCEPT ![p] = Proceed(scan[p], r)]
            /\ proposals' = [proposals EXCEPT ![p] = @ \cup Proposed(scan[p], r)]
    BY <1>2 DEF Reuse
  <2>2. r \in Review /\ r.role = scan[p].role /\ GivenFor(r, InHand(scan[p]))
    BY <2>1 DEF Unchanged, GivenFor
  <2>3. scan[p].phase # "idle" /\ UNCHANGED <<reviews, scans>>
    BY <1>2 DEF Reuse
  <2>. QED BY <2>1, <2>2, <2>3, ProceedingKeeps
<1>3. ASSUME NEW p \in Scan, Miss(p) \/ Distrust(p) PROVE AgentInv'
  <2>1. /\ scan[p].phase = "look" /\ scan' = [scan EXCEPT ![p].phase = "ask"]
        /\ UNCHANGED <<reviews, proposals, scans>>
    BY <1>3 DEF Miss, Distrust
  <2>2. ScanOK(scan[p])
    OBVIOUS
  <2>3. ScanOK([scan[p] EXCEPT !.phase = "ask"])
    BY <2>1, <2>2 DEF ScanOK, ScanType, Busy, HandBacked
  <2>4. DOMAIN scan' = Scan /\ \A o \in Scan : ScanOK(scan'[o])
    BY <2>1, <2>3
  <2>5. ProposalsRestOnReviews'
    BY <2>1 DEF ProposalsRestOnReviews, GivenFor
  <2>. QED BY <2>1, <2>4, <2>5
<1>4. ASSUME NEW p \in Scan, Answer(p) PROVE AgentInv'
  <2>. DEFINE c == InHand(scan[p])
              Given(good) == [ticker |-> c.ticker, role |-> scan[p].role, score |-> c.score,
                              seen |-> c.score, context |-> c.context, good |-> good]
  <2>1. PICK good \in BOOLEAN :
            /\ reviews' = Stored(Given(good))
            /\ scan' = [scan EXCEPT ![p] = Proceed(scan[p], Given(good))]
            /\ proposals' = [proposals EXCEPT ![p] = @ \cup Proposed(scan[p], Given(good))]
    BY <1>4 DEF Answer
  <2>2. scan[p].phase # "idle" /\ UNCHANGED scans
    BY <1>4 DEF Answer
  <2>3. c \in Candidate /\ scan[p].role \in Role
    <3>1. ScanOK(scan[p])
      OBVIOUS
    <3>. QED BY <2>2, <3>1, InHandTyped DEF ScanOK, ScanType
  <2>4. /\ Given(good) \in Review /\ Given(good).role = scan[p].role
        /\ Given(good).seen = Given(good).score
    BY <2>3 DEF Review, Candidate
  <2>5. GivenFor(Given(good), InHand(scan[p]))
    BY <2>3, AgentAssumption DEF GivenFor, Gap, Candidate
  <2>6. reviews' \subseteq Review /\ \A r \in reviews' : r.seen = r.score
    <3>. HIDE DEF Given
    <3>. QED BY <2>1, <2>4 DEF Stored
  <2>7. /\ DOMAIN scan' = Scan /\ \A o \in Scan : ScanOK(scan'[o])
        /\ proposals' \in [Scan -> SUBSET Finalist] /\ ProposalsRestOnReviews'
    <3>. HIDE DEF Given
    <3>. QED BY <2>1, <2>2, <2>4, <2>5, ProceedingKeeps
  <2>. QED BY <2>2, <2>6, <2>7
<1>5. ASSUME NEW p \in Scan, CallFails(p) PROVE AgentInv'
  <2>1. /\ scan[p].phase # "idle" /\ scan' = [scan EXCEPT ![p] = PassOver(scan[p])]
        /\ UNCHANGED <<reviews, proposals, scans>>
    BY <1>5 DEF CallFails
  <2>2. ScanOK(PassOver(scan[p]))
    BY <2>1, PassOverOK
  <2>3. DOMAIN scan' = Scan /\ \A o \in Scan : ScanOK(scan'[o])
    BY <2>1, <2>2
  <2>4. ProposalsRestOnReviews'
    BY <2>1 DEF ProposalsRestOnReviews, GivenFor
  <2>. QED BY <2>1, <2>3, <2>4
<1>6. ASSUME NEW p \in Scan, ScanDies(p) PROVE AgentInv'
  <2>1. /\ scan' = [scan EXCEPT ![p] = Idle] /\ proposals' = [proposals EXCEPT ![p] = {}]
        /\ UNCHANGED <<reviews, scans>>
    BY <1>6 DEF ScanDies
  <2>2. DOMAIN scan' = Scan /\ \A o \in Scan : ScanOK(scan'[o])
    BY <2>1, IdleOK
  <2>3. proposals' \in [Scan -> SUBSET Finalist] /\ ProposalsRestOnReviews'
    BY <2>1 DEF ProposalsRestOnReviews, GivenFor
  <2>. QED BY <2>1, <2>2, <2>3
<1>7. CASE UNCHANGED agentVars
  BY <1>7 DEF agentVars, ProposalsRestOnReviews, GivenFor
<1>. QED BY <1>1, <1>2, <1>3, <1>4, <1>5, <1>6, <1>7 DEF AgentNext

\* A proposal rests on a favourable answer of every role, and each was given for
\* the material of the candidate that is proposed.
THEOREM ProposalsReviewed == AgentSpec => []ProposalsRestOnReviews
<1>1. AgentInv => ProposalsRestOnReviews
  BY DEF AgentInv
<1>. QED BY InitAgentInv, NextAgentInv, <1>1, PTL DEF AgentSpec

-----------------------------------------------------------------------------
(* Learning: one approved version at most is in production, and it rests   *)
(* on an accepted backtest of its own approved hypothesis; a scope has one *)
(* open hypothesis.                                                        *)
(*                                                                         *)
(* The invariant says what the rows rest on and what each process has read *)
(* of them that no other process takes back: a verdict, an approval and an *)
(* accepted backtest are final.  A version that STRATEGY_VERSION named     *)
(* first has a row without evidence and without an approver; approving it  *)
(* later adds the approver only.                                           *)

Hypothesis == [scope : Scope, support : Nat, version : 1..MaxVersion, approved : BOOLEAN,
               status : {"PROPOSED", "VALIDATED", "REJECTED", "APPROVED"}]

Backtest(n) == [hypothesis : 1..n, accepted : BOOLEAN]

Version == [status : {"CANDIDATE", "PRODUCTION", "RETIRED"}, evidence : Nat, approved : BOOLEAN]

Lesson == [regime : Regime, status : {"OBSERVATION", "PROVISIONAL", "REJECTED"}]

\* The rows, and what a reviewer, a comparison and an approval hold of them.
LearningRows ==
    /\ lessons \in Seq(Lesson)
    /\ hypotheses \in Seq(Hypothesis)
    /\ backtests \in Seq(Backtest(Len(hypotheses)))
    /\ DOMAIN versions \subseteq 0..MaxVersion
    /\ versions \in [DOMAIN versions -> Version]
    /\ \A v \in DOMAIN versions : versions[v].evidence <= Len(backtests)
    /\ deployed \in DOMAIN versions

ReviewOK ==
    /\ DOMAIN review.groups \subseteq Scope
    /\ review = [groups |-> review.groups, insert |-> review.insert]
    /\ review.insert \in DOMAIN review.groups \cup {"none"}
    /\ \A s \in DOMAIN review.groups : review.groups[s] \in Nat

LearningHands ==
    /\ ReviewOK
    /\ verdict \in 0..Len(backtests)
    /\ approval \in [hypothesis : 0..Len(hypotheses), backtest : 0..Len(backtests)]

\* What stands behind a version that was approved, and behind the comparison that
\* its row names.
EvidenceOK(v) ==
    /\ versions[v].approved => \E b \in 1..Len(backtests) : Backs(b, v)
    /\ versions[v].evidence # 0 =>
          versions[v].evidence \in 1..Len(backtests) /\ Backs(versions[v].evidence, v)

EvidenceInv == \A v \in DOMAIN versions : EvidenceOK(v)

\* An approval under way has passed its checks.
ApprovalInv ==
    approval # NoApproval =>
        /\ approval.hypothesis \in 1..Len(hypotheses)
        /\ approval.backtest \in 1..Len(backtests)
        /\ backtests[approval.backtest].hypothesis = approval.hypothesis
        /\ backtests[approval.backtest].accepted
        /\ hypotheses[approval.hypothesis].support >= ApprovalSample

\* The scope that a reviewer is about to propose for has no open hypothesis.
ProposalInv == review.insert # "none" => Open(review.insert) = {}

LearningInv ==
    /\ LearningRows /\ LearningHands /\ EvidenceInv /\ ApprovalInv /\ OneApprovedVersion
    /\ ProposalInv /\ OneOpenHypothesis

---------------------------------------------------------------------------

LEMMA Domains ==
    ASSUME LearningRows
    PROVE  /\ DOMAIN lessons = 1..Len(lessons) /\ Len(lessons) \in Nat
           /\ DOMAIN hypotheses = 1..Len(hypotheses) /\ Len(hypotheses) \in Nat
           /\ DOMAIN backtests = 1..Len(backtests) /\ Len(backtests) \in Nat
           /\ \A h \in 1..Len(hypotheses) : hypotheses[h] \in Hypothesis
           /\ \A b \in 1..Len(backtests) : backtests[b] \in Backtest(Len(hypotheses))
BY LenProperties, ElementOfSeq DEF LearningRows

LEMMA SamplesType ==
    ASSUME LearningRows, NEW s
    PROVE  Samples(s) \in Nat
<1>1. IsFiniteSet(DOMAIN lessons)
    BY Domains, FS_Interval
<1>2. {l \in DOMAIN lessons :
          lessons[l].status = "OBSERVATION" /\ (s = "any" \/ lessons[l].regime = s)}
         \subseteq DOMAIN lessons
    OBVIOUS
<1> QED BY <1>1, <1>2, FS_Subset, FS_CardinalityType DEF Samples

\* Nothing that a version or an approval rests on is taken back.
RowsKept ==
    /\ hypotheses' \in Seq(Hypothesis) /\ Len(hypotheses) <= Len(hypotheses')
    /\ \A h \in 1..Len(hypotheses) :
          /\ hypotheses'[h].support = hypotheses[h].support
          /\ hypotheses'[h].version = hypotheses[h].version
          /\ hypotheses[h].approved => hypotheses'[h].approved
    /\ backtests' \in Seq(Backtest(Len(hypotheses'))) /\ Len(backtests) <= Len(backtests')
    /\ \A b \in 1..Len(backtests) : backtests'[b] = backtests[b]

\* The status of one hypothesis is written, or that and its approval.
LEMMA HypothesisWritten ==
    ASSUME LearningRows, NEW h \in 1..Len(hypotheses), NEW r \in Hypothesis,
           hypotheses' = [hypotheses EXCEPT ![h] = r], UNCHANGED backtests,
           r.support = hypotheses[h].support, r.version = hypotheses[h].version,
           hypotheses[h].approved => r.approved
    PROVE  RowsKept /\ Len(hypotheses') = Len(hypotheses)
<1>1. /\ hypotheses' \in Seq(Hypothesis) /\ Len(hypotheses') = Len(hypotheses)
      /\ \A g \in 1..Len(hypotheses) : hypotheses'[g] = IF g = h THEN r ELSE hypotheses[g]
    BY ExceptSeq DEF LearningRows
<1> QED BY <1>1, Domains DEF RowsKept, LearningRows

\* Where the rows are kept, a comparison that stands behind a version does so on.
LEMMA BacksKept ==
    ASSUME LearningRows, RowsKept, NEW b \in 1..Len(backtests), NEW v, Backs(b, v)
    PROVE  b \in 1..Len(backtests') /\ Backs(b, v)'
<1>1. backtests[b].hypothesis \in 1..Len(hypotheses) /\ backtests'[b] = backtests[b]
    BY Domains DEF Backtest, RowsKept
<1>2. b \in 1..Len(backtests')
    BY Domains, LenProperties DEF RowsKept
<1> QED BY <1>1, <1>2 DEF RowsKept, Backs

\* Rows that are kept keep the evidence and an approval under way.
LEMMA EvidenceKept ==
    ASSUME LearningRows, RowsKept
    PROVE  /\ EvidenceInv /\ versions' = versions => EvidenceInv'
           /\ ApprovalInv /\ approval' = approval => ApprovalInv'
<1>1. /\ Len(hypotheses) \in Nat /\ Len(backtests) \in Nat
      /\ Len(hypotheses') \in Nat /\ Len(backtests') \in Nat
    BY Domains, LenProperties DEF RowsKept
<1>2. 1..Len(backtests) \subseteq 1..Len(backtests') /\ 1..Len(hypotheses) \subseteq 1..Len(hypotheses')
    BY <1>1 DEF RowsKept
<1>3. ASSUME EvidenceInv, versions' = versions, NEW v \in DOMAIN versions
      PROVE  EvidenceOK(v)'
    BY <1>3, BacksKept DEF EvidenceInv, EvidenceOK
<1>4. EvidenceInv /\ versions' = versions => EvidenceInv'
    BY <1>3 DEF EvidenceInv
<1>5. ApprovalInv /\ approval' = approval => ApprovalInv'
    BY <1>2 DEF ApprovalInv, RowsKept
<1> QED BY <1>4, <1>5

---------------------------------------------------------------------------

\* A step that writes lessons or nothing at all in the database.
LEMMA RowsStand ==
    ASSUME LearningInv, UNCHANGED <<hypotheses, backtests, versions, deployed>>,
           lessons' \in Seq(Lesson)
    PROVE  /\ LearningRows' /\ EvidenceInv' /\ OneApprovedVersion' /\ OneOpenHypothesis'
           /\ review' = review => ProposalInv'
           /\ ReviewOK' /\ verdict' \in 0..Len(backtests)
              /\ (approval' = approval \/ approval' = NoApproval) => LearningHands' /\ ApprovalInv'
<1>1. LearningRows'
    BY DEF LearningInv, LearningRows
<1>2. RowsKept
    BY Domains DEF LearningInv, LearningRows, RowsKept
<1>3. EvidenceInv'
    BY <1>2, EvidenceKept DEF LearningInv
<1>4. OneApprovedVersion' /\ OneOpenHypothesis'
    BY DEF LearningInv, OneApprovedVersion, InProduction, OneOpenHypothesis
<1>5. review' = review => ProposalInv'
    BY DEF LearningInv, ProposalInv, Open
<1>6. Len(hypotheses) \in Nat /\ Len(backtests) \in Nat
    BY Domains DEF LearningInv
<1>7. ASSUME ReviewOK', verdict' \in 0..Len(backtests), approval' = approval
      PROVE  LearningHands' /\ ApprovalInv'
    BY <1>2, <1>7, EvidenceKept DEF LearningInv, LearningHands
<1>8. ASSUME ReviewOK', verdict' \in 0..Len(backtests), approval' = NoApproval
      PROVE  LearningHands' /\ ApprovalInv'
    BY <1>6, <1>8 DEF LearningHands, ApprovalInv, NoApproval
<1> QED BY <1>1, <1>3, <1>4, <1>5, <1>7, <1>8

LEMMA ReviewStands ==
    ASSUME LearningInv, review' = review
    PROVE  ReviewOK'
BY DEF LearningInv, LearningHands, ReviewOK

LEMMA ObserveStep ==
    ASSUME LearningInv, NEW regime \in Regime, Observe(regime)
    PROVE  LearningInv'
<1>1. [regime |-> regime, status |-> "OBSERVATION"] \in Lesson
    BY DEF Lesson
<1>2. lessons' \in Seq(Lesson)
    BY <1>1, AppendProperties DEF Observe, LearningInv, LearningRows
<1>3. verdict' \in 0..Len(backtests)
    BY DEF Observe, LearningInv, LearningHands
<1> QED BY <1>2, <1>3, RowsStand, ReviewStands DEF Observe, LearningInv

LEMMA LessonMovesStep ==
    ASSUME LearningInv, NEW l \in DOMAIN lessons, LessonMoves(l)
    PROVE  LearningInv'
<1>1. PICK s \in {"PROVISIONAL", "REJECTED"} : lessons' = [lessons EXCEPT ![l].status = s]
    BY DEF LessonMoves
<1>2. lessons \in Seq(Lesson) /\ lessons[l] \in Lesson
    BY ElementOfSeq, Domains DEF LearningInv, LearningRows
<1>3. [lessons[l] EXCEPT !.status = s] \in Lesson
    BY <1>2 DEF Lesson
<1>4. lessons' = [lessons EXCEPT ![l] = [lessons[l] EXCEPT !.status = s]]
    BY <1>1
<1>5. lessons' \in Seq(Lesson)
    BY <1>2, <1>3, <1>4, ExceptSeq
<1>6. verdict' \in 0..Len(backtests)
    BY DEF LessonMoves, LearningInv, LearningHands
<1> QED BY <1>5, <1>6, RowsStand, ReviewStands DEF LessonMoves, LearningInv

LEMMA StartReviewStep ==
    ASSUME LearningInv, StartReview
    PROVE  LearningInv'
<1> DEFINE enough == {s \in Scope : Samples(s) >= ReviewSample}
           counted == [s \in enough |-> Samples(s)]
<1>1. /\ review = NoReview /\ review' = [review EXCEPT !.groups = counted]
      /\ UNCHANGED <<lessons, hypotheses, backtests, versions, deployed, verdict, approval>>
    BY DEF StartReview
<1>2. \A s \in DOMAIN counted : counted[s] \in Nat
    BY SamplesType DEF LearningInv
<1>3. DOMAIN counted \subseteq Scope
    OBVIOUS
<1> HIDE DEF counted
<1>4. review' = [groups |-> counted, insert |-> "none"]
    BY <1>1 DEF NoReview
<1>5. ReviewOK' /\ ProposalInv'
    BY <1>2, <1>3, <1>4 DEF ReviewOK, ProposalInv
<1>6. lessons' \in Seq(Lesson) /\ verdict' \in 0..Len(backtests)
    BY <1>1 DEF LearningInv, LearningRows, LearningHands
<1> QED BY <1>1, <1>5, <1>6, RowsStand DEF LearningInv

LEMMA LookForOpenStep ==
    ASSUME LearningInv, NEW scope \in Scope, LookForOpen(scope)
    PROVE  LearningInv'
<1> DEFINE rest == [s \in DOMAIN review.groups \ {scope} |-> review.groups[s]]
<1>1. /\ review.insert = "none" /\ scope \in DOMAIN review.groups
      /\ UNCHANGED <<lessons, hypotheses, backtests, versions, deployed, verdict, approval>>
      /\ \/ Open(scope) = {} /\ review' = [review EXCEPT !.insert = scope]
         \/ Open(scope) # {} /\ review' = [review EXCEPT !.groups = rest]
    BY DEF LookForOpen
<1>2. ReviewOK
    BY DEF LearningInv, LearningHands
<1>3. ASSUME Open(scope) = {}, review' = [review EXCEPT !.insert = scope]
      PROVE  ReviewOK' /\ ProposalInv'
    <2>1. review' = [groups |-> review.groups, insert |-> scope]
        BY <1>2, <1>3 DEF ReviewOK
    <2>2. ReviewOK'
        BY <1>1, <1>2, <2>1 DEF ReviewOK
    <2>3. ProposalInv'
        BY <1>1, <1>3, <2>1 DEF ProposalInv, Open
    <2> QED BY <2>2, <2>3
<1>4. ASSUME review' = [review EXCEPT !.groups = rest]
      PROVE  ReviewOK' /\ ProposalInv'
    <2>1. review' = [groups |-> rest, insert |-> "none"]
        BY <1>1, <1>2, <1>4 DEF ReviewOK
    <2>2. DOMAIN rest \subseteq Scope /\ \A s \in DOMAIN rest : rest[s] \in Nat
        BY <1>2 DEF ReviewOK
    <2> HIDE DEF rest
    <2>3. ReviewOK' /\ ProposalInv'
        BY <2>1, <2>2 DEF ReviewOK, ProposalInv
    <2> QED BY <2>3
<1>5. lessons' \in Seq(Lesson) /\ verdict' \in 0..Len(backtests)
    BY <1>1 DEF LearningInv, LearningRows, LearningHands
<1> QED BY <1>1, <1>3, <1>4, <1>5, RowsStand DEF LearningInv

LEMMA ReviewDiesStep ==
    ASSUME LearningInv, ReviewDies
    PROVE  LearningInv'
<1>1. review' = [groups |-> << >>, insert |-> "none"]
    BY DEF ReviewDies, NoReview
<1>2. ReviewOK' /\ ProposalInv'
    BY <1>1 DEF ReviewOK, ProposalInv
<1>3. lessons' \in Seq(Lesson) /\ verdict' \in 0..Len(backtests)
    BY DEF ReviewDies, LearningInv, LearningRows, LearningHands
<1> QED BY <1>2, <1>3, RowsStand DEF ReviewDies, LearningInv

\* What a step that leaves the lessons, the versions and the reviewer alone, or writes
\* one verdict or approval, has to show.
LEMMA HypothesisStep ==
    ASSUME LearningInv, NEW h \in 1..Len(hypotheses), NEW r \in Hypothesis,
           hypotheses' = [hypotheses EXCEPT ![h] = r],
           r.scope = hypotheses[h].scope, r.support = hypotheses[h].support,
           r.version = hypotheses[h].version,
           r.status # "PROPOSED", hypotheses[h].approved => r.approved,
           UNCHANGED <<lessons, backtests, review>>
    PROVE  /\ RowsKept /\ Len(hypotheses') = Len(hypotheses)
           /\ ProposalInv' /\ OneOpenHypothesis' /\ ReviewOK'
<1>1. RowsKept /\ Len(hypotheses') = Len(hypotheses)
    BY HypothesisWritten DEF LearningInv
<1>2. \A g \in DOMAIN hypotheses :
          hypotheses'[g] = IF g = h THEN r ELSE hypotheses[g]
    BY Domains DEF LearningInv
<1>3. DOMAIN hypotheses' = DOMAIN hypotheses
    OBVIOUS
<1>4. OneOpenHypothesis'
    <2> SUFFICES ASSUME NEW f \in DOMAIN hypotheses, NEW g \in DOMAIN hypotheses,
                        hypotheses'[f].status = "PROPOSED", hypotheses'[g].status = "PROPOSED",
                        hypotheses'[f].scope = hypotheses'[g].scope
                 PROVE  f = g
        BY <1>3 DEF OneOpenHypothesis
    <2>1. f # h /\ g # h
        BY <1>2
    <2>2. hypotheses'[f] = hypotheses[f] /\ hypotheses'[g] = hypotheses[g]
        BY <1>2, <2>1
    <2> QED BY <2>2 DEF LearningInv, OneOpenHypothesis
<1>5. ProposalInv'
    <2> SUFFICES ASSUME review.insert # "none", NEW g \in DOMAIN hypotheses,
                        hypotheses'[g].scope = review.insert,
                        hypotheses'[g].status \in {"PROPOSED", "VALIDATING"}
                 PROVE  FALSE
        BY <1>3 DEF ProposalInv, Open
    <2>1. g # h
        BY <1>2 DEF Hypothesis
    <2>2. hypotheses'[g] = hypotheses[g]
        BY <1>2, <2>1
    <2> QED BY <2>2 DEF LearningInv, ProposalInv, Open
<1>6. ReviewOK'
    BY ReviewStands
<1> QED BY <1>1, <1>4, <1>5, <1>6

LEMMA WriteVerdictStep ==
    ASSUME LearningInv, WriteVerdict
    PROVE  LearningInv'
<1> DEFINE h == backtests[verdict].hypothesis
           s == IF backtests[verdict].accepted THEN "VALIDATED" ELSE "REJECTED"
           r == [hypotheses[h] EXCEPT !.status = s]
<1>1. /\ verdict # 0 /\ verdict' = 0
      /\ hypotheses' = [hypotheses EXCEPT ![h].status = s]
      /\ UNCHANGED <<lessons, backtests, versions, deployed, review, approval>>
    BY DEF WriteVerdict
<1>2. LearningRows /\ Len(hypotheses) \in Nat /\ Len(backtests) \in Nat
    BY Domains DEF LearningInv
<1>3. verdict \in 1..Len(backtests)
    BY <1>1, <1>2 DEF LearningInv, LearningHands
<1>4. h \in 1..Len(hypotheses)
    BY <1>2, <1>3, Domains DEF Backtest
<1>5. hypotheses[h] \in Hypothesis
    BY <1>2, <1>4, Domains
<1>6. hypotheses' = [hypotheses EXCEPT ![h] = r]
    BY <1>1
<1>7. s \in {"VALIDATED", "REJECTED"}
    OBVIOUS
<1> HIDE DEF s, h
<1>8. /\ r \in Hypothesis /\ r.scope = hypotheses[h].scope
      /\ r.support = hypotheses[h].support /\ r.version = hypotheses[h].version
      /\ r.status # "PROPOSED" /\ r.approved = hypotheses[h].approved
    BY <1>5, <1>7 DEF Hypothesis
<1> HIDE DEF r
<1>9. /\ RowsKept /\ Len(hypotheses') = Len(hypotheses)
      /\ ProposalInv' /\ OneOpenHypothesis' /\ ReviewOK'
    BY <1>1, <1>4, <1>6, <1>8, HypothesisStep
<1>10. EvidenceInv' /\ ApprovalInv'
    BY <1>1, <1>2, <1>9, EvidenceKept DEF LearningInv
<1>11. LearningRows'
    BY <1>1, <1>2, <1>9 DEF LearningRows, RowsKept
<1>12. LearningHands'
    BY <1>1, <1>2, <1>9 DEF LearningInv, LearningHands
<1>13. OneApprovedVersion'
    BY <1>1 DEF LearningInv, OneApprovedVersion, InProduction
<1> QED BY <1>9, <1>10, <1>11, <1>12, <1>13 DEF LearningInv

LEMMA AddBacktestStep ==
    ASSUME LearningInv, NEW h \in DOMAIN hypotheses, NEW accepted \in BOOLEAN,
           AddBacktest(h, accepted)
    PROVE  LearningInv'
<1> DEFINE b == [hypothesis |-> h, accepted |-> accepted]
<1>1. /\ backtests' = Append(backtests, b) /\ verdict' = Len(backtests) + 1
      /\ UNCHANGED <<lessons, hypotheses, versions, deployed, review, approval>>
    BY DEF AddBacktest
<1>2. LearningRows /\ Len(hypotheses) \in Nat /\ Len(backtests) \in Nat /\ h \in 1..Len(hypotheses)
    BY Domains DEF LearningInv
<1>3. b \in Backtest(Len(hypotheses))
    BY <1>2 DEF Backtest
<1> HIDE DEF b
<1>4. /\ backtests' \in Seq(Backtest(Len(hypotheses))) /\ Len(backtests') = Len(backtests) + 1
      /\ \A c \in 1..Len(backtests) : backtests'[c] = backtests[c]
    BY <1>1, <1>2, <1>3, AppendProperties DEF LearningRows
<1>5. RowsKept
    BY <1>1, <1>2, <1>4 DEF RowsKept, LearningRows
<1>6. EvidenceInv' /\ ApprovalInv'
    BY <1>1, <1>2, <1>5, EvidenceKept DEF LearningInv
<1>7. LearningRows'
    BY <1>1, <1>2, <1>4 DEF LearningRows, Version
<1>8. LearningHands'
    BY <1>1, <1>2, <1>4, ReviewStands DEF LearningInv, LearningHands
<1>9. OneApprovedVersion' /\ ProposalInv' /\ OneOpenHypothesis'
    BY <1>1 DEF LearningInv, OneApprovedVersion, InProduction, ProposalInv, Open, OneOpenHypothesis
<1> QED BY <1>6, <1>7, <1>8, <1>9 DEF LearningInv

LEMMA ComparisonDiesStep ==
    ASSUME LearningInv, ComparisonDies
    PROVE  LearningInv'
<1>1. lessons' \in Seq(Lesson) /\ verdict' \in 0..Len(backtests)
    BY Domains DEF ComparisonDies, LearningInv, LearningRows
<1> QED BY <1>1, RowsStand, ReviewStands DEF ComparisonDies, LearningInv

LEMMA CheckApprovalStep ==
    ASSUME LearningInv, NEW h \in DOMAIN hypotheses, CheckApproval(h)
    PROVE  LearningInv'
<1>1. PICK b \in Support(h) : approval' = [hypothesis |-> h, backtest |-> b]
    BY DEF CheckApproval
<1>2. /\ UNCHANGED <<lessons, hypotheses, backtests, versions, deployed, review, verdict>>
      /\ hypotheses[h].support >= ApprovalSample
    BY DEF CheckApproval
<1>3. /\ Len(hypotheses) \in Nat /\ Len(backtests) \in Nat /\ h \in 1..Len(hypotheses)
      /\ DOMAIN backtests = 1..Len(backtests)
    BY Domains DEF LearningInv
<1>4. b \in 1..Len(backtests) /\ backtests[b].hypothesis = h /\ backtests[b].accepted
    BY <1>3 DEF Support
<1>5. ApprovalInv'
    BY <1>1, <1>2, <1>3, <1>4 DEF ApprovalInv
<1>6. LearningHands'
    BY <1>1, <1>2, <1>3, <1>4, ReviewStands DEF LearningInv, LearningHands
<1>7. lessons' \in Seq(Lesson)
    BY <1>2 DEF LearningInv, LearningRows
<1> QED BY <1>2, <1>5, <1>6, <1>7, RowsStand DEF LearningInv

LEMMA ApprovalDiesStep ==
    ASSUME LearningInv, ApprovalDies
    PROVE  LearningInv'
<1>1. lessons' \in Seq(Lesson) /\ verdict' \in 0..Len(backtests)
    BY DEF ApprovalDies, LearningInv, LearningRows, LearningHands
<1> QED BY <1>1, RowsStand, ReviewStands DEF ApprovalDies, LearningInv

\* What a version that is not known yet is given its row with.
LEMMA RowAdded ==
    ASSUME LearningRows, NEW v \in 0..MaxVersion, NEW row \in Version
    PROVE  /\ WithVersion(v, row) \in [DOMAIN versions \cup {v} -> Version]
           /\ \A n \in DOMAIN versions : WithVersion(v, row)[n] = versions[n]
           /\ v \notin DOMAIN versions => WithVersion(v, row)[v] = row
<1>1. versions \in [DOMAIN versions -> Version]
    BY DEF LearningRows
<1>2. CASE v \in DOMAIN versions
    <2>1. WithVersion(v, row) = versions /\ DOMAIN versions \cup {v} = DOMAIN versions
        BY <1>2 DEF WithVersion
    <2> QED BY <1>1, <1>2, <2>1
<1>3. CASE v \notin DOMAIN versions
    BY <1>1, <1>3 DEF WithVersion
<1> QED BY <1>2, <1>3

\* A version that initialize adds has no evidence to give and no approver.
LEMMA DeployStep ==
    ASSUME LearningInv, NEW v \in 0..MaxVersion, Deploy(v)
    PROVE  LearningInv'
<1>1. /\ deployed' = v /\ versions' = WithVersion(v, Configured)
      /\ UNCHANGED <<lessons, hypotheses, backtests, review, verdict, approval>>
    BY DEF Deploy
<1>2. LearningRows /\ Len(backtests) \in Nat
    BY Domains DEF LearningInv
<1>3. Configured \in Version /\ Configured.evidence = 0 /\ ~Configured.approved
    BY DEF Configured, Version
<1>4. /\ versions' \in [DOMAIN versions \cup {v} -> Version]
      /\ \A n \in DOMAIN versions : versions'[n] = versions[n]
      /\ v \notin DOMAIN versions => versions'[v] = Configured
    BY <1>1, <1>2, <1>3, RowAdded
<1>5. DOMAIN versions' = DOMAIN versions \cup {v}
    BY <1>4
<1>6. LearningRows'
    BY <1>1, <1>2, <1>3, <1>4, <1>5 DEF LearningRows
<1>7. EvidenceInv'
    <2> SUFFICES ASSUME NEW n \in DOMAIN versions' PROVE EvidenceOK(n)'
        BY DEF EvidenceInv
    <2>1. CASE n \in DOMAIN versions
        BY <1>1, <1>4, <2>1 DEF LearningInv, EvidenceInv, EvidenceOK, Backs
    <2>2. CASE n \notin DOMAIN versions
        BY <1>3, <1>4, <1>5, <2>2 DEF EvidenceOK
    <2> QED BY <2>1, <2>2
<1>8. OneApprovedVersion'
    <2>1. InProduction \subseteq InProduction'
        BY <1>4, <1>5 DEF InProduction
    <2>2. \A n \in InProduction' : versions'[n].approved => n \in InProduction /\ versions[n].approved
        BY <1>3, <1>4, <1>5 DEF InProduction
    <2> QED BY <2>1, <2>2 DEF LearningInv, OneApprovedVersion
<1>9. LearningHands' /\ ApprovalInv' /\ ProposalInv' /\ OneOpenHypothesis'
    BY <1>1 DEF LearningInv, LearningHands, ReviewOK, ApprovalInv, ProposalInv, Open, OneOpenHypothesis
<1> QED BY <1>6, <1>7, <1>8, <1>9 DEF LearningInv

\* The new hypothesis is the only open one of its scope.
LEMMA ProposeStep ==
    ASSUME LearningInv, Propose
    PROVE  LearningInv'
<1> DEFINE scope == review.insert
           rest == [s \in DOMAIN review.groups \ {scope} |-> review.groups[s]]
           p == [scope |-> scope, support |-> review.groups[scope], status |-> "PROPOSED",
                 version |-> deployed + 1, approved |-> FALSE]
<1>1. /\ scope # "none" /\ deployed < MaxVersion
      /\ hypotheses' = Append(hypotheses, p) /\ review' = [groups |-> rest, insert |-> "none"]
      /\ UNCHANGED <<lessons, backtests, versions, deployed, verdict, approval>>
    BY DEF Propose
<1>2. LearningRows /\ Len(hypotheses) \in Nat /\ Len(backtests) \in Nat
      /\ DOMAIN hypotheses = 1..Len(hypotheses)
    BY Domains DEF LearningInv
<1>3. deployed \in 0..MaxVersion /\ MaxVersion \in Nat
    BY <1>2, LearningAssumption DEF LearningRows
<1>4. deployed + 1 \in 1..MaxVersion
    BY <1>1, <1>3
<1>5. scope \in DOMAIN review.groups /\ scope \in Scope /\ review.groups[scope] \in Nat
    BY <1>1 DEF LearningInv, LearningHands, ReviewOK
<1>6. p \in Hypothesis
    BY <1>4, <1>5 DEF Hypothesis
<1>7. DOMAIN rest \subseteq Scope /\ \A s \in DOMAIN rest : rest[s] \in Nat
    BY DEF LearningInv, LearningHands, ReviewOK
<1>8. p.status = "PROPOSED" /\ p.scope = scope
    OBVIOUS
<1> HIDE DEF p, rest
<1>9. /\ hypotheses' \in Seq(Hypothesis) /\ Len(hypotheses') = Len(hypotheses) + 1
      /\ \A h \in 1..Len(hypotheses) : hypotheses'[h] = hypotheses[h]
      /\ hypotheses'[Len(hypotheses) + 1] = p
    BY <1>1, <1>2, <1>6, AppendProperties DEF LearningRows
<1>10. backtests' \in Seq(Backtest(Len(hypotheses')))
    <2>1. Backtest(Len(hypotheses)) \subseteq Backtest(Len(hypotheses'))
        BY <1>2, <1>9 DEF Backtest
    <2> QED BY <1>1, <1>2, <2>1, SeqMonotonic DEF LearningRows
<1>11. RowsKept
    BY <1>1, <1>2, <1>9, <1>10 DEF RowsKept
<1>12. EvidenceInv' /\ ApprovalInv'
    BY <1>1, <1>2, <1>11, EvidenceKept DEF LearningInv
<1>13. LearningRows'
    BY <1>1, <1>2, <1>9, <1>10 DEF LearningRows
<1>14. ReviewOK' /\ ProposalInv'
    BY <1>1, <1>7 DEF ReviewOK, ProposalInv
<1>15. LearningHands'
    BY <1>1, <1>2, <1>9, <1>14 DEF LearningInv, LearningHands
<1>16. OneApprovedVersion'
    BY <1>1 DEF LearningInv, OneApprovedVersion, InProduction
<1>17. OneOpenHypothesis'
    <2>1. \A h \in 1..Len(hypotheses) : hypotheses[h].status = "PROPOSED" => hypotheses[h].scope # scope
        BY <1>1, <1>2 DEF LearningInv, ProposalInv, Open
    <2>2. DOMAIN hypotheses' = 1..(Len(hypotheses) + 1)
        BY <1>9, LenProperties
    <2> SUFFICES ASSUME NEW g \in 1..(Len(hypotheses) + 1), NEW h \in 1..(Len(hypotheses) + 1),
                        hypotheses'[g].status = "PROPOSED", hypotheses'[h].status = "PROPOSED",
                        hypotheses'[g].scope = hypotheses'[h].scope
                 PROVE  g = h
        BY <2>2 DEF OneOpenHypothesis
    <2>3. CASE g \in 1..Len(hypotheses) /\ h \in 1..Len(hypotheses)
        BY <1>2, <1>9, <2>3 DEF LearningInv, OneOpenHypothesis
    <2>4. CASE g \notin 1..Len(hypotheses) /\ h \notin 1..Len(hypotheses)
        BY <1>2, <2>4
    <2>5. CASE g \in 1..Len(hypotheses) /\ h \notin 1..Len(hypotheses)
        BY <1>2, <1>8, <1>9, <2>1, <2>5
    <2>6. CASE g \notin 1..Len(hypotheses) /\ h \in 1..Len(hypotheses)
        BY <1>2, <1>8, <1>9, <2>1, <2>6
    <2> QED BY <2>3, <2>4, <2>5, <2>6
<1> QED BY <1>12, <1>13, <1>14, <1>15, <1>16, <1>17 DEF LearningInv

\* The version of an approved hypothesis is known, and the only one in production.
LEMMA VersionPromoted ==
    ASSUME LearningInv, NEW v \in 0..MaxVersion, NEW e \in Nat
    PROVE  /\ DOMAIN Promoted(v, e) = DOMAIN versions \cup {v}
           /\ Promoted(v, e) \in [DOMAIN versions \cup {v} -> Version]
           /\ \A n \in DOMAIN versions :
                 /\ Promoted(v, e)[n].evidence = versions[n].evidence
                 /\ n # v => Promoted(v, e)[n].approved = versions[n].approved
           /\ v \notin DOMAIN versions => Promoted(v, e)[v].evidence = e
           /\ {n \in DOMAIN versions \cup {v} : Promoted(v, e)[n].status = "PRODUCTION"} = {v}
<1> DEFINE known == WithVersion(v, CandidateRow(e))
<1>1. CandidateRow(e) \in Version /\ CandidateRow(e).evidence = e
    BY DEF CandidateRow, Version
<1>2. /\ known \in [DOMAIN versions \cup {v} -> Version]
      /\ \A n \in DOMAIN versions : known[n] = versions[n]
      /\ v \notin DOMAIN versions => known[v].evidence = e
    BY <1>1, RowAdded DEF LearningInv
<1>3. Promoted(v, e) = [n \in DOMAIN known |->
          IF n = v THEN [known[n] EXCEPT !.status = "PRODUCTION", !.approved = TRUE]
          ELSE [known[n] EXCEPT !.status = IF @ = "PRODUCTION" THEN "RETIRED" ELSE @]]
    BY DEF Promoted
<1> HIDE DEF known
<1>4. DOMAIN known = DOMAIN versions \cup {v}
    BY <1>2
<1>5. ASSUME NEW n \in DOMAIN known
      PROVE  /\ Promoted(v, e)[n] \in Version
             /\ Promoted(v, e)[n].evidence = known[n].evidence
             /\ n # v => Promoted(v, e)[n].approved = known[n].approved
             /\ Promoted(v, e)[n].status = "PRODUCTION" <=> n = v
    <2>1. known[n] \in Version
        BY <1>2, <1>4
    <2>2. CASE n = v
        <3>1. Promoted(v, e)[n] = [known[n] EXCEPT !.status = "PRODUCTION", !.approved = TRUE]
            BY <1>3, <2>2
        <3> QED BY <2>1, <2>2, <3>1 DEF Version
    <2>3. CASE n # v
        <3>1. Promoted(v, e)[n] =
                [known[n] EXCEPT !.status = IF known[n].status = "PRODUCTION" THEN "RETIRED"
                                            ELSE known[n].status]
            BY <1>3, <2>3
        <3> QED BY <2>1, <2>3, <3>1 DEF Version
    <2> QED BY <2>2, <2>3
<1>6. DOMAIN Promoted(v, e) = DOMAIN known
    BY <1>3
<1>7. Promoted(v, e) \in [DOMAIN known -> Version]
    BY <1>3, <1>5
<1> QED BY <1>2, <1>4, <1>5, <1>6, <1>7

LEMMA ApproveStep ==
    ASSUME LearningInv, Approve
    PROVE  LearningInv'
<1> DEFINE h == approval.hypothesis
           b == approval.backtest
           v == hypotheses[h].version
           r == [[hypotheses[h] EXCEPT !.status = "APPROVED"] EXCEPT !.approved = TRUE]
<1>1. /\ approval # NoApproval /\ approval' = NoApproval
      /\ versions' = Promoted(v, b)
      /\ hypotheses' = [hypotheses EXCEPT ![h].status = "APPROVED", ![h].approved = TRUE]
      /\ UNCHANGED <<lessons, backtests, deployed, review, verdict>>
    BY DEF Approve
<1>2. LearningRows /\ Len(hypotheses) \in Nat /\ Len(backtests) \in Nat
      /\ DOMAIN hypotheses = 1..Len(hypotheses)
    BY Domains DEF LearningInv
<1>3. /\ h \in 1..Len(hypotheses) /\ b \in 1..Len(backtests) /\ backtests[b].hypothesis = h
      /\ backtests[b].accepted /\ hypotheses[h].support >= ApprovalSample
    BY <1>1 DEF LearningInv, ApprovalInv
<1>4. hypotheses[h] \in Hypothesis
    BY <1>2, <1>3, Domains
<1>5. hypotheses' = [hypotheses EXCEPT ![h] = r]
    BY <1>1, <1>2, <1>3
<1>6. v \in 1..MaxVersion
    BY <1>4 DEF Hypothesis
<1> HIDE DEF h, b
<1>7. /\ r \in Hypothesis /\ r.scope = hypotheses[h].scope
      /\ r.support = hypotheses[h].support /\ r.version = v
      /\ r.status # "PROPOSED" /\ r.approved
    BY <1>4 DEF Hypothesis
<1>8. hypotheses'[h] = r
    BY <1>2, <1>3, <1>5
<1> HIDE DEF r
<1>9. /\ RowsKept /\ Len(hypotheses') = Len(hypotheses)
      /\ ProposalInv' /\ OneOpenHypothesis' /\ ReviewOK'
    BY <1>1, <1>3, <1>5, <1>7, HypothesisStep
<1> HIDE DEF v
<1>10. v \in 0..MaxVersion /\ v # 0 /\ b \in Nat
    BY <1>2, <1>3, <1>6, LearningAssumption
<1>11. /\ DOMAIN versions' = DOMAIN versions \cup {v}
       /\ versions' \in [DOMAIN versions' -> Version]
       /\ \A n \in DOMAIN versions :
             /\ versions'[n].evidence = versions[n].evidence
             /\ n # v => versions'[n].approved = versions[n].approved
       /\ v \notin DOMAIN versions => versions'[v].evidence = b
       /\ {n \in DOMAIN versions' : versions'[n].status = "PRODUCTION"} = {v}
    BY <1>1, <1>10, VersionPromoted
<1>12. EvidenceInv'
    <2> SUFFICES ASSUME NEW n \in DOMAIN versions' PROVE EvidenceOK(n)'
        BY DEF EvidenceInv
    <2> PICK c \in 1..Len(backtests), w \in 1..MaxVersion : c = b /\ w = v
        BY <1>3, <1>10
    <2>1. Backs(c, w)'
        BY <1>1, <1>3, <1>7, <1>8 DEF Backs
    <2>2. \A d \in 1..Len(backtests) : Backs(d, n) => Backs(d, n)'
        BY <1>2, <1>9, BacksKept
    <2>3. CASE n \in DOMAIN versions
        <3>1. EvidenceOK(n)
            BY <2>3 DEF LearningInv, EvidenceInv
        <3>2. versions'[n].evidence = versions[n].evidence
            BY <1>11, <2>3
        <3>3. n # v => versions'[n].approved = versions[n].approved
            BY <1>11, <2>3
        <3>4. Len(backtests') = Len(backtests)
            BY <1>1
        <3>5. versions'[n].approved => \E d \in 1..Len(backtests) : Backs(d, n)'
            BY <2>1, <2>2, <3>1, <3>3 DEF EvidenceOK
        <3>6. versions'[n].evidence # 0 =>
                 versions'[n].evidence \in 1..Len(backtests) /\ Backs(versions[n].evidence, n)'
            BY <2>2, <3>1, <3>2 DEF EvidenceOK
        <3> QED BY <3>2, <3>4, <3>5, <3>6 DEF EvidenceOK, Backs
    <2>4. CASE n \notin DOMAIN versions
        <3>1. n = v /\ versions'[n].evidence = b
            BY <1>11, <2>4
        <3> QED BY <1>1, <1>3, <2>1, <3>1 DEF EvidenceOK, Backs
    <2> QED BY <2>3, <2>4
<1>13. OneApprovedVersion'
    BY <1>11 DEF OneApprovedVersion, InProduction
<1>14. LearningRows'
    <2>1. DOMAIN versions' \subseteq 0..MaxVersion /\ deployed' \in DOMAIN versions'
        BY <1>1, <1>2, <1>10, <1>11 DEF LearningRows
    <2>2. \A n \in DOMAIN versions' : versions'[n].evidence <= Len(backtests')
        BY <1>1, <1>2, <1>3, <1>11 DEF LearningRows
    <2>3. lessons' \in Seq(Lesson) /\ backtests' \in Seq(Backtest(Len(hypotheses')))
        BY <1>1, <1>2, <1>9 DEF LearningRows
    <2> QED BY <1>9, <1>11, <2>1, <2>2, <2>3 DEF LearningRows, RowsKept
<1>15. LearningHands' /\ ApprovalInv'
    BY <1>1, <1>2, <1>9 DEF LearningInv, LearningHands, ApprovalInv, NoApproval
<1> QED BY <1>9, <1>12, <1>13, <1>14, <1>15 DEF LearningInv

LEMMA LearningStep ==
    ASSUME LearningInv, [LearningNext]_learningVars
    PROVE  LearningInv'
<1>1. ASSUME NEW regime \in Regime, Observe(regime) PROVE LearningInv'
    BY <1>1, ObserveStep
<1>2. ASSUME NEW l \in DOMAIN lessons, LessonMoves(l) PROVE LearningInv'
    BY <1>2, LessonMovesStep
<1>3. CASE StartReview
    BY <1>3, StartReviewStep
<1>4. CASE Propose
    BY <1>4, ProposeStep
<1>5. CASE ReviewDies
    BY <1>5, ReviewDiesStep
<1>6. ASSUME NEW scope \in Scope, LookForOpen(scope) PROVE LearningInv'
    BY <1>6, LookForOpenStep
<1>7. ASSUME NEW h \in DOMAIN hypotheses, CheckApproval(h) PROVE LearningInv'
    BY <1>7, CheckApprovalStep
<1>8. ASSUME NEW h \in DOMAIN hypotheses, NEW accepted \in BOOLEAN, AddBacktest(h, accepted)
      PROVE  LearningInv'
    BY <1>8, AddBacktestStep
<1>9. CASE WriteVerdict
    BY <1>9, WriteVerdictStep
<1>10. CASE ComparisonDies
    BY <1>10, ComparisonDiesStep
<1>11. CASE Approve
    BY <1>11, ApproveStep
<1>12. CASE ApprovalDies
    BY <1>12, ApprovalDiesStep
<1>13. ASSUME NEW v \in 0..MaxVersion, Deploy(v) PROVE LearningInv'
    BY <1>13, DeployStep
<1>14. CASE UNCHANGED learningVars
    BY <1>14 DEF learningVars, LearningInv, LearningRows, LearningHands, ReviewOK, EvidenceInv, EvidenceOK, Backs,
           ApprovalInv, OneApprovedVersion, InProduction, ProposalInv, Open, OneOpenHypothesis
<1> QED BY <1>1, <1>2, <1>3, <1>4, <1>5, <1>6, <1>7, <1>8, <1>9, <1>10, <1>11, <1>12, <1>13, <1>14
        DEF LearningNext

LEMMA LearningStart ==
    ASSUME LearningInit
    PROVE  LearningInv
<1>1. versions = [v \in {0} |-> [status |-> "PRODUCTION", evidence |-> 0, approved |-> FALSE]]
    BY DEF LearningInit, Configured
<1>2. MaxVersion \in Nat
    BY LearningAssumption
<1>3. /\ Len(lessons) = 0 /\ Len(hypotheses) = 0 /\ Len(backtests) = 0
      /\ lessons \in Seq(Lesson) /\ hypotheses \in Seq(Hypothesis) /\ backtests \in Seq(Backtest(0))
      /\ hypotheses = << >>
    BY EmptySeq DEF LearningInit
<1>4. LearningRows
    BY <1>1, <1>2, <1>3 DEF LearningInit, LearningRows, Version
<1>5. ReviewOK /\ LearningHands /\ ProposalInv
    BY <1>3 DEF LearningInit, LearningHands, ReviewOK, ProposalInv, NoReview, NoApproval
<1>6. EvidenceInv /\ ApprovalInv
    BY <1>1 DEF LearningInit, EvidenceInv, EvidenceOK, ApprovalInv
<1>7. OneApprovedVersion
    <2>1. InProduction = {0}
        BY <1>1 DEF InProduction
    <2> QED BY <2>1 DEF OneApprovedVersion
<1>8. OneOpenHypothesis
    BY <1>3 DEF OneOpenHypothesis
<1> QED BY <1>4, <1>5, <1>6, <1>7, <1>8 DEF LearningInv

\* In every state the rows rest on each other as LearningInv says.
THEOREM LearningInvariant == LearningSpec => []LearningInv
BY LearningStart, LearningStep, PTL DEF LearningSpec

\* Every row of the learning tables, and whatever a review, a comparison or an
\* approval holds of them, keeps its type.
THEOREM LearningTyped == LearningSpec => []LearningTypeOK
<1>1. LearningInv => LearningTypeOK
    <2> SUFFICES ASSUME LearningInv PROVE LearningTypeOK
        OBVIOUS
    <2>1. LearningRows /\ LearningHands
        BY DEF LearningInv
    <2>2. DOMAIN hypotheses = 1..Len(hypotheses) /\ Len(backtests) \in Nat
        BY <2>1, Domains
    <2>3. \A v \in DOMAIN versions : versions[v] \in Version /\ versions[v].evidence <= Len(backtests)
        BY <2>1 DEF LearningRows
    <2>4. \A v \in DOMAIN versions :
              versions[v] \in [status : {"CANDIDATE", "PRODUCTION", "RETIRED"},
                               evidence : 0..Len(backtests), approved : BOOLEAN]
        BY <2>2, <2>3 DEF Version
    <2> QED BY <2>1, <2>2, <2>4 DEF LearningTypeOK, LearningRows, LearningHands, ReviewOK, Hypothesis, Backtest,
               Lesson
<1> QED BY <1>1, LearningInvariant, PTL

\* A version in production that somebody approved rests on an accepted backtest of
\* its own approved hypothesis with a sufficient sample; one that nobody approved is
\* there because STRATEGY_VERSION named it.
THEOREM ProductionRests == LearningSpec => []ProductionBacked
<1>1. LearningInv => ProductionBacked
    BY Domains DEF LearningInv, EvidenceInv, EvidenceOK, ProductionBacked
<1> QED BY <1>1, LearningInvariant, PTL

\* Some version is in production, and at most one that was approved.
THEOREM ApprovedIsOne == LearningSpec => []OneApprovedVersion
<1>1. LearningInv => OneApprovedVersion
    BY DEF LearningInv
<1> QED BY <1>1, LearningInvariant, PTL

\* A scope has one open hypothesis at most.
THEOREM OpenIsOne == LearningSpec => []OneOpenHypothesis
<1>1. LearningInv => OneOpenHypothesis
    BY DEF LearningInv
<1> QED BY <1>1, LearningInvariant, PTL
-----------------------------------------------------------------------------
(* The types of AgentReview.                                               *)

ScansFunction == scan = [p \in Scan |-> scan[p]]

\* Every step changes what one scan holds.
LEMMA ScansFunctionStep ==
    ASSUME ScansFunction, [AgentNext]_agentVars
    PROVE  ScansFunction'
<1>1. \/ UNCHANGED scan
      \/ \E p \in Scan : \E s : scan' = [scan EXCEPT ![p] = s]
  BY DEF AgentNext, agentVars, StartScan, Reuse, Miss, Distrust, Answer, CallFails, ScanDies
<1>. QED BY <1>1 DEF ScansFunction

\* Every stored answer and every proposal keeps its type, and a scan holds no more
\* than the candidates of its list and what was answered about them.
THEOREM AgentTyped == AgentSpec => []AgentTypeOK
<1>1. AgentInit => ScansFunction
  BY DEF AgentInit, ScansFunction
<1>2. AgentInv /\ ScansFunction => AgentTypeOK
  BY DEF AgentInv, ScanOK, ScanType, ScansFunction, AgentTypeOK
<1>. QED
  BY InitAgentInv, NextAgentInv, ScansFunctionStep, <1>1, <1>2, PTL DEF AgentSpec
=============================================================================
