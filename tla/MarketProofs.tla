---------------------------- MODULE MarketProofs ----------------------------
(***************************************************************************)
(* Proofs about what the scanner is told and what it lists: HaltFeed, the  *)
(* halts of a symbol; EarningsFeed, the distance of the next report; and   *)
(* ScanFunnel, the way of a stock to the list. For any symbols, reports,   *)
(* universes, times to live, latencies and settings that are accepted.     *)
(* MCOperations, which puts the last two beside seven other components,    *)
(* implements each of the nine.                                            *)
(***************************************************************************)
EXTENDS HaltFeed, MCOperations, RiskProofs, BrokerProofs, LearningProofs, FunctionTheorems

-----------------------------------------------------------------------------
(* HaltFeed: FeedInv is inductive, and a symbol that has long been halted  *)
(* passes no scan.                                                         *)

LEMMA FeedConstants ==
    /\ HostedTtl \in Nat /\ DiskTtl \in Nat /\ Latency \in Nat /\ MaxTime \in Nat
    /\ DiskTtl <= HostedTtl
    /\ Trading = -1
    /\ Unset \notin HaltAnswer
BY HaltFeedAssumption DEF HaltFeedAssumption, Trading, Unset, HaltAnswer

\* What a process may hold.
Holding == [at : FeederStep, known : BOOLEAN, halts : SUBSET Security, got : Nat, taken : Nat]

\* What InHandInv says of one process.
Fresh(h) ==
    h.at \in Carrying =>
        /\ h.got <= time /\ time - h.got <= Latency
        /\ h.known =>
             /\ Sound(h)
             /\ h.got - h.taken <= HostedTtl + Latency
             /\ h.at # "judge" => h.taken = h.got
        /\ h.at # "judge" => h.known

LEMMA InHandIsFresh == InHandInv <=> \A p \in Feeder : Fresh(feeder[p])
BY DEF InHandInv, Fresh

\* Only the clock and the exchange change what is sound: with both as they were, a
\* step keeps the invariant when what it stores and what it holds is all right.
LEMMA StepOfOne ==
    ASSUME FeedInv, NEW p \in Feeder, NEW h \in Holding, UNCHANGED <<time, since>>,
           feeder' = [feeder EXCEPT ![p] = h], Fresh(h),
           hosted' \in HaltAnswer \cup {Unset}, disk' \in HaltAnswer \cup {Unset},
           \A a \in {hosted', disk'} \ {hosted, disk, Unset} :
               Sound(a) /\ a.at <= time /\ a.at - a.taken <= Latency
    PROVE  FeedInv'
<1>1. FeedTypeOK'
  BY DEF FeedInv, FeedTypeOK, Holding
<1>2. StoredInv'
  BY DEF FeedInv, StoredInv, Sound
<1>3. ASSUME NEW q \in Feeder
      PROVE  Fresh(feeder[q])'
  <2>1. feeder'[q] = IF q = p THEN h ELSE feeder[q]
    BY DEF FeedInv, FeedTypeOK
  <2>2. Fresh(feeder[q])
    BY InHandIsFresh DEF FeedInv
  <2> QED
    BY <2>1, <2>2 DEF Fresh, Sound
<1>4. InHandInv'
  BY <1>3 DEF InHandInv, Fresh
<1> QED
  BY <1>1, <1>2, <1>4 DEF FeedInv

LEMMA FreeIsFresh == Free \in Holding /\ Fresh(Free)
BY DEF Free, Holding, FeederStep, Fresh, Carrying

LEMMA NextStepHolds ==
    ASSUME FeedInv, NEW p \in Feeder, NEW step \in FeederStep
    PROVE  /\ feeder[p] \in Holding
           /\ [feeder[p] EXCEPT !.at = step] \in Holding
           /\ [feeder EXCEPT ![p].at = step]
                = [feeder EXCEPT ![p] = [feeder[p] EXCEPT !.at = step]]
BY DEF FeedInv, FeedTypeOK, Holding

\* The moves that touch neither cache.
LEMMA StartKeeps == ASSUME FeedInv, NEW p \in Feeder, StartFeed(p) PROVE FeedInv'
<1>1. PICK step \in {"hosted", "relay"} : GoOn(p, step)
  BY DEF StartFeed
<1> DEFINE h == [feeder[p] EXCEPT !.at = step]
<1>2. h \in Holding /\ feeder' = [feeder EXCEPT ![p] = h]
  BY <1>1, NextStepHolds DEF GoOn, FeederStep
<1>3. h.at \notin Carrying
  BY <1>1, NextStepHolds DEF Carrying, FeederStep, Holding
<1>4. Fresh(h)
  BY <1>3 DEF Fresh
<1>5. UNCHANGED <<time, since, hosted, disk>> /\ FeedTypeOK
  BY DEF StartFeed, FeedInv
<1> HIDE DEF h
<1> QED
  BY <1>2, <1>4, <1>5, StepOfOne DEF FeedTypeOK

\* What a cache holds, taken into hand.
LEMMA CacheReadIsFresh ==
    ASSUME FeedInv, NEW a \in {hosted, disk}, a # Unset,
           NEW ttl \in Nat, ttl <= HostedTtl, time - a.at <= ttl,
           NEW h, h = [at |-> "judge", known |-> TRUE, halts |-> a.halts,
                       got |-> time, taken |-> a.taken]
    PROVE  h \in Holding /\ Fresh(h)
<1>1. a \in HaltAnswer /\ time \in Nat
  BY DEF FeedInv, FeedTypeOK
<1>2. Sound(a) /\ a.at <= time /\ a.at - a.taken <= Latency
  BY DEF FeedInv, StoredInv
<1>3. h \in Holding
  BY <1>1 DEF HaltAnswer, Holding, FeederStep
<1>4. time - a.taken <= HostedTtl + Latency
  BY <1>1, <1>2, FeedConstants DEF HaltAnswer
<1>5. time - time <= Latency
  BY <1>1, FeedConstants
<1>6. Sound(h)
  BY <1>2 DEF Sound
<1> QED
  BY <1>1, <1>3, <1>4, <1>5, <1>6 DEF Fresh

LEMMA ReadHostedKeeps == ASSUME FeedInv, NEW p \in Feeder, ReadHosted(p) PROVE FeedInv'
<1>1. UNCHANGED <<time, since, hosted, disk>> /\ FeedTypeOK
  BY DEF ReadHosted, FeedInv
<1>2. CASE /\ hosted # Unset /\ time - hosted.at <= HostedTtl
           /\ Have(p, "judge", hosted.halts, hosted.taken)
  <2> DEFINE h == [at |-> "judge", known |-> TRUE, halts |-> hosted.halts,
                   got |-> time, taken |-> hosted.taken]
  <2>1. h \in Holding /\ Fresh(h)
    BY <1>2, CacheReadIsFresh, FeedConstants
  <2>2. feeder' = [feeder EXCEPT ![p] = h]
    BY <1>2 DEF Have
  <2> HIDE DEF h
  <2> QED
    BY <2>1, <2>2, <1>1, StepOfOne DEF FeedTypeOK
<1>3. CASE GoOn(p, "disk")
  <2> DEFINE h == [feeder[p] EXCEPT !.at = "disk"]
  <2>1. h \in Holding /\ feeder' = [feeder EXCEPT ![p] = h]
    BY <1>3, NextStepHolds DEF GoOn, FeederStep
  <2>2. h.at \notin Carrying
    BY NextStepHolds DEF Carrying, FeederStep, Holding
  <2> HIDE DEF h
  <2> QED
    BY <2>1, <2>2, <1>1, StepOfOne DEF FeedTypeOK, Fresh
<1> QED
  BY <1>2, <1>3 DEF ReadHosted

LEMMA ReadDiskKeeps == ASSUME FeedInv, NEW p \in Feeder, ReadDisk(p) PROVE FeedInv'
<1>1. UNCHANGED <<time, since, hosted, disk>> /\ FeedTypeOK
  BY DEF ReadDisk, FeedInv
<1>2. CASE /\ disk # Unset /\ time - disk.at < DiskTtl
           /\ Have(p, "judge", disk.halts, disk.taken)
  <2> DEFINE h == [at |-> "judge", known |-> TRUE, halts |-> disk.halts,
                   got |-> time, taken |-> disk.taken]
  <2>0. time - disk.at <= DiskTtl
    BY <1>1, <1>2, FeedConstants DEF FeedTypeOK, HaltAnswer
  <2>1. h \in Holding /\ Fresh(h)
    BY <1>2, <2>0, CacheReadIsFresh, FeedConstants
  <2>2. feeder' = [feeder EXCEPT ![p] = h]
    BY <1>2 DEF Have
  <2> HIDE DEF h
  <2> QED
    BY <2>1, <2>2, <1>1, StepOfOne DEF FeedTypeOK
<1>3. CASE GoOn(p, "live")
  <2> DEFINE h == [feeder[p] EXCEPT !.at = "live"]
  <2>1. h \in Holding /\ feeder' = [feeder EXCEPT ![p] = h]
    BY <1>3, NextStepHolds DEF GoOn, FeederStep
  <2>2. h.at \notin Carrying
    BY NextStepHolds DEF Carrying, FeederStep, Holding
  <2> HIDE DEF h
  <2> QED
    BY <2>1, <2>2, <1>1, StepOfOne DEF FeedTypeOK, Fresh
<1> QED
  BY <1>2, <1>3 DEF ReadDisk

\* The exchange's own answer is of now.
LEMMA LiveIsFresh ==
    ASSUME FeedInv, NEW step \in FeederStep,
           NEW h, h = [at |-> step, known |-> TRUE, halts |-> Halted, got |-> time, taken |-> time]
    PROVE  h \in Holding /\ Fresh(h)
<1>1. time \in Nat /\ since \in [Security -> Nat \cup {Trading}]
  BY DEF FeedInv, FeedTypeOK
<1>2. h \in Holding
  BY <1>1 DEF Holding, Halted
<1>3. Sound(h)
  BY <1>1 DEF Sound, Halted
<1> QED
  BY <1>1, <1>2, <1>3, FeedConstants DEF Fresh

LEMMA FetchLiveKeeps == ASSUME FeedInv, NEW p \in Feeder, FetchLive(p) PROVE FeedInv'
<1>1. UNCHANGED <<time, since, hosted, disk>> /\ FeedTypeOK
  BY DEF FetchLive, FeedInv
<1>2. CASE \E step \in {"publish", "keep"} : Have(p, step, Halted, time)
  <2>1. PICK step \in {"publish", "keep"} : Have(p, step, Halted, time)
    BY <1>2
  <2> DEFINE h == [at |-> step, known |-> TRUE, halts |-> Halted, got |-> time, taken |-> time]
  <2>2. h \in Holding /\ Fresh(h)
    BY LiveIsFresh DEF FeederStep
  <2>3. feeder' = [feeder EXCEPT ![p] = h]
    BY <2>1 DEF Have
  <2> HIDE DEF h
  <2> QED
    BY <2>2, <2>3, <1>1, StepOfOne DEF FeedTypeOK
<1>3. CASE feeder' = [feeder EXCEPT ![p] = Free]
  BY <1>1, <1>3, FreeIsFresh, StepOfOne DEF FeedTypeOK
<1>4. CASE feeder' = [feeder EXCEPT ![p] = [Free EXCEPT !.at = "judge", !.got = time]]
  <2> DEFINE h == [Free EXCEPT !.at = "judge", !.got = time]
  <2>1. h \in Holding /\ h.at = "judge" /\ h.known = FALSE /\ h.got = time
    BY <1>1 DEF FeedTypeOK, Free, Holding, FeederStep
  <2>2. Fresh(h)
    BY <1>1, <2>1, FeedConstants DEF FeedTypeOK, Fresh
  <2>3. feeder' = [feeder EXCEPT ![p] = h]
    BY <1>4
  <2> HIDE DEF h
  <2> QED
    BY <2>1, <2>2, <2>3, <1>1, StepOfOne DEF FeedTypeOK
<1> QED
  BY <1>2, <1>3, <1>4 DEF FetchLive

\* An answer on its way to a cache is stored while it is young.
LEMMA StampedIsStored ==
    ASSUME FeedInv, NEW p \in Feeder, feeder[p].at \in Carrying \ {"judge"},
           NEW a, a = Stamped(p)
    PROVE  /\ a \in HaltAnswer
           /\ Sound(a) /\ a.at <= time /\ a.at - a.taken <= Latency
<1>1. feeder[p] \in Holding /\ time \in Nat
  BY DEF FeedInv, FeedTypeOK, Holding
<1>2. Fresh(feeder[p])
  BY InHandIsFresh DEF FeedInv
<1>3. a \in HaltAnswer
  BY <1>1 DEF Stamped, HaltAnswer, Holding
<1>4. Sound(feeder[p]) /\ feeder[p].taken = feeder[p].got /\ time - feeder[p].got <= Latency
  BY <1>2 DEF Fresh
<1>5. Sound(a)
  BY <1>4 DEF Sound, Stamped
<1> QED
  BY <1>1, <1>3, <1>4, <1>5 DEF Stamped, Holding

\* Whoever moves on with an answer in hand still holds a fresh one.
LEMMA MovesOnFresh ==
    ASSUME FeedInv, NEW p \in Feeder, feeder[p].at \in Carrying \ {"judge"},
           NEW step \in FeederStep, NEW h, h = [feeder[p] EXCEPT !.at = step]
    PROVE  h \in Holding /\ Fresh(h)
<1>1. feeder[p] \in Holding /\ h \in Holding
  BY NextStepHolds
<1>2. Fresh(feeder[p])
  BY InHandIsFresh DEF FeedInv
<1>3. h.known = feeder[p].known /\ h.halts = feeder[p].halts
      /\ h.got = feeder[p].got /\ h.taken = feeder[p].taken
  BY <1>1 DEF Holding
<1>4. Sound(feeder[p]) => Sound(h)
  BY <1>3 DEF Sound
<1> QED
  BY <1>1, <1>2, <1>3, <1>4 DEF Fresh

LEMMA KeepOnDiskKeeps == ASSUME FeedInv, NEW p \in Feeder, KeepOnDisk(p) PROVE FeedInv'
<1>1. UNCHANGED <<time, since, hosted>> /\ FeedTypeOK /\ disk' \in {disk, Stamped(p)}
  BY DEF KeepOnDisk, FeedInv
<1>2. feeder[p].at \in Carrying \ {"judge"}
  BY DEF KeepOnDisk, Carrying
<1>3. disk' \in HaltAnswer \cup {Unset}
  BY <1>1, <1>2, StampedIsStored DEF FeedTypeOK
<1>4. \A a \in {hosted', disk'} \ {hosted, disk, Unset} :
         Sound(a) /\ a.at <= time /\ a.at - a.taken <= Latency
  BY <1>1, <1>2, StampedIsStored
<1>5. CASE GoOn(p, "share")
  <2> DEFINE h == [feeder[p] EXCEPT !.at = "share"]
  <2>1. h \in Holding /\ Fresh(h)
    BY <1>2, MovesOnFresh DEF FeederStep
  <2>2. feeder' = [feeder EXCEPT ![p] = h]
    BY <1>5, NextStepHolds DEF GoOn, FeederStep
  <2> HIDE DEF h
  <2> QED
    BY <2>1, <2>2, <1>1, <1>3, <1>4, StepOfOne DEF FeedTypeOK
<1>6. CASE feeder' = [feeder EXCEPT ![p] = Free]
  BY <1>1, <1>3, <1>4, <1>6, FreeIsFresh, StepOfOne DEF FeedTypeOK
<1> QED
  BY <1>5, <1>6 DEF KeepOnDisk

LEMMA StoreHostedKeeps == ASSUME FeedInv, NEW p \in Feeder, StoreHosted(p) PROVE FeedInv'
<1>1. UNCHANGED <<time, since, disk>> /\ FeedTypeOK /\ hosted' \in {hosted, Stamped(p)}
  BY DEF StoreHosted, FeedInv
<1>2. feeder[p].at \in Carrying \ {"judge"}
  BY DEF StoreHosted, Carrying
<1>3. hosted' \in HaltAnswer \cup {Unset}
  BY <1>1, <1>2, StampedIsStored DEF FeedTypeOK
<1>4. \A a \in {hosted', disk'} \ {hosted, disk, Unset} :
         Sound(a) /\ a.at <= time /\ a.at - a.taken <= Latency
  BY <1>1, <1>2, StampedIsStored
<1>5. CASE \E step \in {"judge", "keep_own"} : GoOn(p, step)
  <2>0. PICK step \in {"judge", "keep_own"} : GoOn(p, step)
    BY <1>5
  <2> DEFINE h == [feeder[p] EXCEPT !.at = step]
  <2>1. h \in Holding /\ Fresh(h)
    BY <1>2, MovesOnFresh DEF FeederStep
  <2>2. feeder' = [feeder EXCEPT ![p] = h]
    BY <2>0, NextStepHolds DEF GoOn, FeederStep
  <2> HIDE DEF h
  <2> QED
    BY <2>1, <2>2, <1>1, <1>3, <1>4, StepOfOne DEF FeedTypeOK
<1>6. CASE feeder' = [feeder EXCEPT ![p] = Free]
  BY <1>1, <1>3, <1>4, <1>6, FreeIsFresh, StepOfOne DEF FeedTypeOK
<1> QED
  BY <1>5, <1>6 DEF StoreHosted

LEMMA EndKeeps == ASSUME FeedInv, NEW p \in Feeder, EndFeed(p) PROVE FeedInv'
<1>1. UNCHANGED <<time, since, hosted, disk>> /\ FeedTypeOK
      /\ feeder' = [feeder EXCEPT ![p] = Free]
  BY DEF EndFeed, FeedInv
<1> QED
  BY <1>1, FreeIsFresh, StepOfOne DEF FeedTypeOK

\* A symbol that is halted now is halted no earlier than any answer was given.
LEMMA HaltKeeps == ASSUME FeedInv, HaltOrResume PROVE FeedInv'
<1>1. PICK s \in Security :
         since' = [since EXCEPT ![s] = IF since[s] = Trading THEN time ELSE Trading]
  BY DEF HaltOrResume
<1>2. UNCHANGED <<time, hosted, disk, feeder>> /\ FeedTypeOK
  BY DEF HaltOrResume, FeedInv
<1>3. FeedTypeOK'
  BY <1>1, <1>2 DEF FeedTypeOK
<1>4. \A t \in Security : since'[t] = since[t] \/ since'[t] = Trading \/ since'[t] = time
  BY <1>1, <1>2 DEF FeedTypeOK
<1>5. ASSUME NEW a, Sound(a) PROVE Sound(a)'
  BY <1>2, <1>4, <1>5 DEF Sound, FeedTypeOK
<1>6. StoredInv'
  <2>1. ASSUME NEW a \in {hosted, disk}, a # Unset
        PROVE  Sound(a)' /\ a.at <= time /\ a.at - a.taken <= Latency
    BY <2>1, <1>5 DEF FeedInv, StoredInv
  <2> QED
    BY <2>1, <1>2 DEF StoredInv, Sound
<1>7. InHandInv'
  <2>1. ASSUME NEW p \in Feeder PROVE Fresh(feeder[p])'
    <3>1. Fresh(feeder[p])
      BY InHandIsFresh DEF FeedInv
    <3>2. Sound(feeder[p]) => Sound(feeder[p])'
      BY <1>2, <1>4 DEF Sound, FeedTypeOK
    <3> QED
      BY <3>1, <3>2, <1>2 DEF Fresh
  <2> QED
    BY <2>1 DEF InHandInv, Fresh
<1> QED
  BY <1>3, <1>6, <1>7 DEF FeedInv

\* The clock waits for what is in hand.
LEMMA TickKeeps == ASSUME FeedInv, Tick PROVE FeedInv'
<1>1. UNCHANGED <<since, hosted, disk, feeder>> /\ FeedTypeOK /\ time' = time + 1
      /\ \A p \in Feeder : feeder[p].at \in Carrying => time < feeder[p].got + Latency
  BY DEF Tick, FeedInv
<1>2. FeedTypeOK'
  BY <1>1 DEF FeedTypeOK
<1>3. StoredInv'
  <2>1. ASSUME NEW a \in {hosted, disk}, a # Unset
        PROVE  Sound(a)' /\ a.at <= time' /\ a.at - a.taken <= Latency
    <3>1. Sound(a) /\ a.at <= time /\ a.at - a.taken <= Latency
      BY <2>1 DEF FeedInv, StoredInv
    <3>2. a.at \in Nat /\ a.taken \in Nat
      BY <1>1, <2>1 DEF FeedTypeOK, HaltAnswer
    <3> QED
      BY <1>1, <3>1, <3>2 DEF Sound, FeedTypeOK
  <2> QED
    BY <2>1, <1>1 DEF StoredInv, Sound
<1>4. ASSUME NEW p \in Feeder PROVE Fresh(feeder[p])'
  <2>1. Fresh(feeder[p]) /\ feeder[p] \in Holding
    BY InHandIsFresh DEF FeedInv, FeedTypeOK, Holding
  <2>2. feeder[p].got \in Nat /\ feeder[p].taken \in Nat /\ time \in Nat
    BY <1>1, <2>1 DEF Holding, FeedTypeOK
  <2>3. Sound(feeder[p]) => Sound(feeder[p])'
    BY <1>1, <2>2 DEF Sound
  <2>4. feeder[p].at \in Carrying => time + 1 - feeder[p].got <= Latency /\ feeder[p].got <= time + 1
    BY <1>1, <2>1, <2>2, FeedConstants DEF Fresh
  <2>5. CASE feeder[p].at \in Carrying
    <3> DEFINE h == feeder[p]
    <3>1. h.got <= time' /\ time' - h.got <= Latency
      BY <1>1, <2>2, <2>4, <2>5, FeedConstants
    <3>2. h.known => Sound(h)'
      BY <2>1, <2>3, <2>5 DEF Fresh
    <3>3. /\ h.known => h.got - h.taken <= HostedTtl + Latency
          /\ h.at # "judge" => h.known /\ h.taken = h.got
      BY <2>1, <2>5 DEF Fresh
    <3>4. feeder'[p] = h
      BY <1>1
    <3> QED
      BY <3>1, <3>2, <3>3, <3>4 DEF Fresh, Sound
  <2>6. CASE feeder[p].at \notin Carrying
    BY <2>6, <1>1 DEF Fresh
  <2> QED
    BY <2>5, <2>6
<1>5. InHandInv'
  BY <1>4 DEF InHandInv, Fresh
<1> QED
  BY <1>2, <1>3, <1>5 DEF FeedInv

-----------------------------------------------------------------------------
LEMMA FeedInvInit == FeedInit => FeedInv
<1> SUFFICES ASSUME FeedInit PROVE FeedInv
  OBVIOUS
<1>1. FeedTypeOK
  BY FreeIsFresh DEF FeedInit, FeedTypeOK, Holding
<1>2. StoredInv
  BY DEF FeedInit, StoredInv
<1>3. InHandInv
  BY FreeIsFresh, InHandIsFresh DEF FeedInit
<1> QED
  BY <1>1, <1>2, <1>3 DEF FeedInv

LEMMA FeedInvStep == FeedInv /\ [FeedNext]_feedVars => FeedInv'
<1> SUFFICES ASSUME FeedInv, [FeedNext]_feedVars PROVE FeedInv'
  OBVIOUS
<1>1. ASSUME NEW p \in Feeder,
             \/ StartFeed(p) \/ ReadHosted(p) \/ ReadDisk(p) \/ FetchLive(p)
             \/ KeepOnDisk(p) \/ StoreHosted(p) \/ EndFeed(p)
      PROVE  FeedInv'
  BY <1>1, StartKeeps, ReadHostedKeeps, ReadDiskKeeps, FetchLiveKeeps, KeepOnDiskKeeps,
     StoreHostedKeeps, EndKeeps
<1>2. CASE HaltOrResume
  BY <1>2, HaltKeeps
<1>3. CASE Tick
  BY <1>3, TickKeeps
<1>4. CASE UNCHANGED feedVars
  BY <1>4 DEF feedVars, FeedInv, FeedTypeOK, StoredInv, InHandInv, Sound
<1> QED
  BY <1>1, <1>2, <1>3, <1>4 DEF FeedNext

\* What is in hand when a scan judges is at most a row's life, and twice the time an
\* answer is under way, old.
LEMMA FeedInvExcludes == FeedInv => HaltedIsExcluded
<1> SUFFICES ASSUME FeedInv, NEW p \in Feeder, feeder[p].at = "judge",
                    NEW s \in Admitted(p), since[s] # Trading
             PROVE  time - since[s] <= HostedTtl + 2 * Latency
  BY DEF HaltedIsExcluded
<1>1. feeder[p].known /\ s \in Security \ feeder[p].halts
  BY DEF Admitted
<1>2. feeder[p] \in Holding /\ time \in Nat /\ since[s] \in Nat
  BY <1>1 DEF FeedInv, FeedTypeOK, Holding
<1>3. Fresh(feeder[p])
  BY InHandIsFresh DEF FeedInv
<1>4. /\ time - feeder[p].got <= Latency
      /\ feeder[p].got - feeder[p].taken <= HostedTtl + Latency
      /\ Sound(feeder[p])
  BY <1>1, <1>3 DEF Fresh, Carrying
<1>5. since[s] >= feeder[p].taken
  BY <1>1, <1>4 DEF Sound
<1> QED
  BY <1>2, <1>4, <1>5, FeedConstants DEF Holding

\* A symbol that has been halted for longer than a hosted row lives and twice the
\* time an answer is under way passes no scan, however many scans and relays
\* overwrite each other's answers.
THEOREM FeedExcludesHalted == FeedSpec => []HaltedIsExcluded
<1>1. FeedInv /\ [FeedNext]_feedVars => FeedInv'
  BY FeedInvStep
<1> QED
  BY FeedInvInit, <1>1, FeedInvExcludes, PTL DEF FeedSpec

\* Cached answers, and the answer every scan has in hand, keep their types.
THEOREM FeedTyped == FeedSpec => []FeedTypeOK
<1>1. FeedInv => FeedTypeOK
  BY DEF FeedInv
<1>2. FeedInv /\ [FeedNext]_feedVars => FeedInv'
  BY FeedInvStep
<1> QED
  BY FeedInvInit, <1>1, <1>2, PTL DEF FeedSpec

-----------------------------------------------------------------------------
(* EarningsFeed: every number that is stored, in hand or listed was the    *)
(* distance of the announced report at some tick, and every step on its    *)
(* way bounds how long ago that was.                                       *)
(*                                                                         *)
(* The distance counts days that end within it, so a number falls by as    *)
(* many days as midnights have passed: what was counted too long ago to be *)
(* listed would have passed the exclusion.                                 *)

Lookup == [at : {"idle", "table", "file", "ask"} \cup InFlight, days : Nat \cup {NoDays}, since : Nat]

\* The number was the distance of report r at tick s, and it is tick t now.
CountedAt(days, s, r, t) ==
    s \in Nat /\ s <= t /\ days = TradingDays(s \div DayTicks, r)

\* A number of the caches was stored within Delay of its count ...
StoredOK(n, r, t) ==
    /\ n \in Number
    /\ n.days # NoDays => \E s : CountedAt(n.days, s, r, t) /\ n.at <= s + Delay

\* ... one in hand is that, or was read from a cache while it was fresh ...
LookupOK(l, r, t) ==
    l.at \in InFlight =>
        /\ t <= l.since + Delay
        /\ l.days # NoDays =>
              \E s : /\ CountedAt(l.days, s, r, t) /\ l.since <= s + Ttl + Delay
                     /\ l.at # "stamp" => l.since <= s

\* ... and one of a candidate is as old again by the time it is stamped.
CandidateOK(n, r, t) ==
    /\ n \in Number
    /\ n # Nothing => \E s : CountedAt(n.days, s, r, t) /\ n.at <= s + Ttl + Delay + Delay

EarningsInv ==
    /\ tick \in 0..MaxTick /\ report \in Report
    /\ lookup \in [Scanner -> Lookup]
    /\ StoredOK(table, report, tick) /\ StoredOK(file, report, tick)
    /\ CandidateOK(candidate, report, tick)
    /\ \A p \in Scanner : LookupOK(lookup[p], report, tick)

LEMMA EarningsConstants ==
    /\ DayTicks \in Nat /\ DayTicks > 1 /\ Report \subseteq Nat
    /\ Exclusion \in Nat /\ Delay \in Nat /\ MaxTick \in Nat /\ Delay + Delay <= DayTicks
BY EarningsAssumption DEF EarningsAssumption

LEMMA DaysBetween ==
    ASSUME NEW from \in Nat, NEW to \in Nat
    PROVE  IsFiniteSet((from + 1 .. to) \ Weekend)
           /\ Cardinality((from + 1 .. to) \ Weekend) \in Nat
<1>1. IsFiniteSet(from + 1 .. to)
    BY FS_Interval
<1> QED BY <1>1, FS_Subset, FS_CardinalityType

LEMMA TradingDaysType ==
    ASSUME NEW from \in Nat, NEW to \in Nat
    PROVE  TradingDays(from, to) \in Nat
BY DaysBetween DEF TradingDays

\* A day that passes takes at most one trading day off the distance.
LEMMA DaysPass ==
    ASSUME NEW from \in Nat, NEW now \in Nat, NEW to \in Nat, from <= now
    PROVE  TradingDays(from, to) <= TradingDays(now, to) + (now - from)
<1> DEFINE Between(d) == (d + 1 .. to) \ Weekend
           gone == from + 1 .. now
<1>1. IsFiniteSet(gone) /\ Cardinality(gone) = now - from
    <2>1. from + 1 \in Int /\ now \in Int
        OBVIOUS
    <2>2. /\ IsFiniteSet(gone)
          /\ Cardinality(gone) = IF from + 1 > now THEN 0 ELSE now - (from + 1) + 1
        BY <2>1, FS_Interval
    <2> HIDE DEF gone
    <2> QED BY <2>2
<1>2. CASE to <= from
    BY <1>2, TradingDaysType DEF TradingDays
<1>3. CASE from < to /\ to <= now
    <2>1. Between(from) \subseteq gone
        BY <1>3
    <2>2. Cardinality(Between(from)) <= now - from
        BY <1>1, <2>1, FS_Subset
    <2> QED BY <1>3, <2>2, TradingDaysType DEF TradingDays
<1>4. CASE now < to
    <2>1. Between(from) \subseteq Between(now) \cup gone
        BY <1>4
    <2>2. /\ IsFiniteSet(Between(now)) /\ IsFiniteSet(Between(now) \cup gone)
          /\ Cardinality(Between(now)) \in Nat /\ Cardinality(gone) \in Nat
          /\ Cardinality(Between(now) \cap gone) \in Nat
          /\ Cardinality(Between(now) \cup gone) =
                Cardinality(Between(now)) + Cardinality(gone) - Cardinality(Between(now) \cap gone)
        BY <1>1, DaysBetween, FS_Union, FS_CardinalityType, FS_Intersection
    <2>3. Cardinality(Between(from)) <= Cardinality(Between(now) \cup gone)
        BY <2>1, <2>2, FS_Subset
    <2>4. Cardinality(Between(from)) \in Nat
        BY DaysBetween
    <2>5. TradingDays(from, to) = Cardinality(Between(from))
          /\ TradingDays(now, to) = Cardinality(Between(now))
        BY <1>4 DEF TradingDays
    <2> HIDE DEF Between, gone
    <2> QED BY <1>1, <2>2, <2>3, <2>4, <2>5
<1> QED BY <1>2, <1>3, <1>4

LEMMA Quotient ==
    ASSUME NEW s \in Nat
    PROVE  /\ s \div DayTicks \in Nat /\ s % DayTicks \in 0..(DayTicks - 1)
           /\ s = DayTicks * (s \div DayTicks) + (s % DayTicks)
<1>1. /\ s \div DayTicks \in Int /\ s % DayTicks \in 0..(DayTicks - 1)
      /\ s = DayTicks * (s \div DayTicks) + (s % DayTicks)
    BY EarningsConstants
<1>2. s \div DayTicks >= 0
    <2> SUFFICES ASSUME s \div DayTicks <= -1 PROVE FALSE
        BY <1>1
    <2>1. DayTicks * (s \div DayTicks) <= -DayTicks
        BY <1>1, EarningsConstants
    <2> QED BY <1>1, <2>1, EarningsConstants
<1> QED BY <1>1, <1>2

\* Three days pass three midnights.
LEMMA Midnights ==
    ASSUME NEW s \in Nat, NEW t \in Nat, s <= t, t <= s + DayTicks + DayTicks + DayTicks
    PROVE  s \div DayTicks <= t \div DayTicks /\ t \div DayTicks <= (s \div DayTicks) + 3
<1> DEFINE q == s \div DayTicks
           u == t \div DayTicks
<1>1. /\ q \in Nat /\ s % DayTicks \in 0..(DayTicks - 1) /\ s = DayTicks * q + (s % DayTicks)
      /\ u \in Nat /\ t % DayTicks \in 0..(DayTicks - 1) /\ t = DayTicks * u + (t % DayTicks)
    BY Quotient
<1> HIDE DEF q, u
<1>2. q <= u
    <2> SUFFICES ASSUME u + 1 <= q PROVE FALSE
        BY <1>1
    <2>1. DayTicks * (u + 1) <= DayTicks * q
        BY <1>1, EarningsConstants
    <2>2. DayTicks * (u + 1) = DayTicks * u + DayTicks /\ DayTicks * u \in Nat /\ DayTicks * q \in Nat
        BY <1>1, EarningsConstants
    <2> QED BY <1>1, <2>1, <2>2, EarningsConstants
<1>3. u <= q + 3
    <2> SUFFICES ASSUME q + 4 <= u PROVE FALSE
        BY <1>1
    <2>1. DayTicks * (q + 4) <= DayTicks * u
        BY <1>1, EarningsConstants
    <2>2. /\ DayTicks * (q + 4) = DayTicks * q + DayTicks + DayTicks + DayTicks + DayTicks
          /\ DayTicks * u \in Nat /\ DayTicks * q \in Nat
        BY <1>1, EarningsConstants
    <2> QED BY <1>1, <2>1, <2>2, EarningsConstants
<1> QED BY <1>2, <1>3 DEF q, u

LEMMA EarningsSafe ==
    ASSUME EarningsInv
    PROVE  EarningsKeptAway
<1> SUFFICES ASSUME EntryPasses
             PROVE  TradingDays(Day, report) > Exclusion - Drift
    BY DEF EarningsKeptAway
<1>1. candidate # Nothing /\ candidate.days > Exclusion /\ tick - candidate.at <= DayTicks
    BY DEF EntryPasses, Ttl
<1>2. /\ tick \in Nat /\ report \in Nat /\ candidate.at \in Int /\ candidate.days \in Int
    BY EarningsConstants DEF EarningsInv, CandidateOK, Number, NoDays
<1>3. PICK s : CountedAt(candidate.days, s, report, tick) /\ candidate.at <= s + DayTicks + Delay + Delay
    BY <1>1 DEF EarningsInv, CandidateOK, Ttl
<1>4. s \in Nat /\ s <= tick /\ candidate.days = TradingDays(s \div DayTicks, report)
    BY <1>3 DEF CountedAt
<1>5. tick <= s + DayTicks + DayTicks + DayTicks
    BY <1>1, <1>2, <1>3, <1>4, EarningsConstants
<1>6. /\ s \div DayTicks \in Nat /\ Day \in Nat
      /\ s \div DayTicks <= Day /\ Day <= (s \div DayTicks) + 3
    BY <1>2, <1>4, <1>5, Midnights, Quotient DEF Day
<1>7. TradingDays(s \div DayTicks, report) <= TradingDays(Day, report) + (Day - (s \div DayTicks))
    BY <1>2, <1>6, DaysPass
<1> DEFINE then == TradingDays(s \div DayTicks, report)
           now == TradingDays(Day, report)
           d == s \div DayTicks
<1>8. then \in Nat /\ now \in Nat
    BY <1>2, <1>6, TradingDaysType
<1>9. then > Exclusion /\ then <= now + (Day - d) /\ d \in Nat /\ Day <= d + 3
    BY <1>1, <1>4, <1>6, <1>7
<1>10. now > Exclusion - 3
    <2> HIDE DEF then, now, d
    <2> QED BY <1>6, <1>8, <1>9, EarningsConstants
<1> QED BY <1>10 DEF Drift

---------------------------------------------------------------------------

\* A step of one scan that leaves it with l.
LEMMA ScannerStep ==
    ASSUME EarningsInv, UNCHANGED <<tick, report>>,
           NEW p \in Scanner, lookup' = [lookup EXCEPT ![p] = lookup'[p]],
           lookup'[p] \in Lookup, LookupOK(lookup'[p], report, tick),
           StoredOK(table', report, tick), StoredOK(file', report, tick),
           CandidateOK(candidate', report, tick)
    PROVE  EarningsInv'
<1>1. lookup' \in [Scanner -> Lookup]
    BY DEF EarningsInv
<1>2. ASSUME NEW q \in Scanner PROVE LookupOK(lookup'[q], report, tick)
    BY DEF EarningsInv
<1> QED BY <1>1, <1>2 DEF EarningsInv

\* A step of one scan towards a cache or the calendar.
LEMMA SeekStep ==
    ASSUME EarningsInv, NEW p \in Scanner, NEW step \in {"table", "file", "ask"}, Seek(p, step),
           UNCHANGED <<tick, report, table, file, candidate>>
    PROVE  EarningsInv'
<1>1. lookup[p] \in Lookup
    BY DEF EarningsInv
<1>2. lookup'[p] = [lookup[p] EXCEPT !.at = step] /\ lookup' = [lookup EXCEPT ![p] = lookup'[p]]
    BY DEF Seek, EarningsInv
<1>3. lookup'[p] \in Lookup /\ lookup'[p].at = step
    BY <1>1, <1>2 DEF Lookup
<1>4. LookupOK(lookup'[p], report, tick)
    BY <1>3 DEF LookupOK, InFlight
<1> QED BY <1>2, <1>3, <1>4, ScannerStep DEF EarningsInv

\* A number read from a cache while it is fresh.
LEMMA FreshStep ==
    ASSUME EarningsInv, NEW p \in Scanner, NEW n \in Number, StoredOK(n, report, tick),
           tick - n.at <= Ttl,
           lookup' = [lookup EXCEPT ![p] = [at |-> "stamp", days |-> n.days, since |-> tick]],
           UNCHANGED <<tick, report, table, file, candidate>>
    PROVE  EarningsInv'
<1> DEFINE l == lookup'[p]
<1>1. /\ tick \in Nat /\ Delay \in Nat /\ DayTicks \in Nat /\ n.at \in Int
      /\ n.days \in Nat \cup {NoDays}
    BY EarningsConstants DEF EarningsInv, Number, NoDays
<1>2. l = [at |-> "stamp", days |-> n.days, since |-> tick] /\ lookup' = [lookup EXCEPT ![p] = l]
    BY DEF EarningsInv
<1>3. /\ l \in Lookup /\ l.at = "stamp" /\ l.days = n.days /\ l.since = tick
    BY <1>1, <1>2 DEF Lookup, InFlight
<1> HIDE DEF l
<1>4. ASSUME n.days # NoDays
      PROVE  \E s : CountedAt(n.days, s, report, tick) /\ tick <= s + Ttl + Delay
    <2>1. PICK s : CountedAt(n.days, s, report, tick) /\ n.at <= s + Delay
        BY <1>4 DEF StoredOK
    <2>2. s \in Nat
        BY <2>1 DEF CountedAt
    <2>3. tick <= s + Ttl + Delay
        BY <1>1, <2>1, <2>2 DEF Ttl
    <2> QED BY <2>1, <2>3
<1>5. tick <= l.since + Delay
    BY <1>1, <1>3
<1>6. LookupOK(l, report, tick)
    BY <1>3, <1>4, <1>5 DEF LookupOK
<1> QED BY <1>2, <1>3, <1>6, ScannerStep DEF EarningsInv, l

LEMMA ReadTableStep ==
    ASSUME EarningsInv, NEW p \in Scanner, ReadTable(p)
    PROVE  EarningsInv'
<1>1. table \in Number /\ StoredOK(table, report, tick)
    BY DEF EarningsInv, StoredOK
<1>2. CASE tick - table.at <= Ttl /\ Hold(p, "stamp", table.days)
    BY <1>1, <1>2, FreshStep DEF ReadTable, Hold
<1>3. CASE Seek(p, "file")
    BY <1>3, SeekStep DEF ReadTable
<1> QED BY <1>2, <1>3 DEF ReadTable

LEMMA ReadFileStep ==
    ASSUME EarningsInv, NEW p \in Scanner, ReadFile(p)
    PROVE  EarningsInv'
<1>1. file \in Number /\ StoredOK(file, report, tick)
    BY DEF EarningsInv, StoredOK
<1>2. CASE tick - file.at < Ttl /\ Hold(p, "stamp", file.days)
    <2>1. tick \in Int /\ file.at \in Int /\ DayTicks \in Int
        BY <1>1, EarningsConstants DEF EarningsInv, Number
    <2>2. tick - file.at <= Ttl
        BY <1>2, <2>1 DEF Ttl
    <2> QED BY <1>1, <1>2, <2>2, FreshStep DEF ReadFile, Hold
<1>3. CASE Seek(p, "ask")
    BY <1>3, SeekStep DEF ReadFile
<1> QED BY <1>2, <1>3 DEF ReadFile

LEMMA AskCalendarStep ==
    ASSUME EarningsInv, NEW p \in Scanner, AskCalendar(p)
    PROVE  EarningsInv'
<1> DEFINE l == lookup'[p]
<1>1. PICK days \in {FromCalendar, NoDays} :
          lookup' = [lookup EXCEPT ![p] = [at |-> "save", days |-> days, since |-> tick]]
    BY DEF AskCalendar, Hold
<1>2. UNCHANGED <<tick, report, table, file, candidate>>
    BY DEF AskCalendar
<1>3. tick \in Nat /\ report \in Nat /\ Delay \in Nat /\ DayTicks \in Nat
    BY EarningsConstants DEF EarningsInv
<1>4. days # NoDays => days = TradingDays(Day, report)
    BY <1>1 DEF FromCalendar
<1>5. TradingDays(Day, report) \in Nat
    BY <1>3, TradingDaysType, Quotient DEF Day
<1>6. days \in Nat \cup {NoDays}
    BY <1>4, <1>5
<1>7. l = [at |-> "save", days |-> days, since |-> tick] /\ lookup' = [lookup EXCEPT ![p] = l]
    BY <1>1 DEF EarningsInv
<1>8. l \in Lookup /\ l.days = days /\ l.since = tick
    BY <1>3, <1>6, <1>7 DEF Lookup, InFlight
<1> HIDE DEF l
<1>9. days # NoDays => CountedAt(days, tick, report, tick)
    BY <1>3, <1>4 DEF CountedAt, Day
<1>10. tick <= tick + Ttl + Delay /\ tick <= tick + Delay /\ tick <= tick
    BY <1>3 DEF Ttl
<1>11. LookupOK(l, report, tick)
    BY <1>8, <1>9, <1>10 DEF LookupOK
<1> QED BY <1>2, <1>7, <1>8, <1>11, ScannerStep DEF EarningsInv, l

\* What a scan stores it has counted within Delay.
LEMMA SavedOK ==
    ASSUME EarningsInv, NEW p \in Scanner, lookup[p].at \in {"save", "share"}
    PROVE  StoredOK(Saved(p), report, tick)
<1> DEFINE l == lookup[p]
<1>1. /\ tick \in Nat /\ Delay \in Nat /\ l \in Lookup /\ LookupOK(l, report, tick)
      /\ l.days \in Nat \cup {NoDays} /\ l.since \in Nat
    BY EarningsConstants DEF EarningsInv, Lookup
<1>2. Saved(p) \in Number /\ Saved(p).days = l.days /\ Saved(p).at = tick
    BY <1>1 DEF Saved, Number
<1>3. ASSUME l.days # NoDays
      PROVE  \E s : CountedAt(l.days, s, report, tick) /\ tick <= s + Delay
    <2>1. PICK s : CountedAt(l.days, s, report, tick) /\ l.since <= s
        BY <1>1, <1>3 DEF LookupOK, InFlight
    <2>2. s \in Nat /\ tick <= l.since + Delay
        BY <1>1, <2>1 DEF CountedAt, LookupOK, InFlight
    <2>3. tick <= s + Delay
        BY <1>1, <2>1, <2>2
    <2> QED BY <2>1, <2>3
<1> QED BY <1>2, <1>3 DEF StoredOK

\* The scan goes on with the number it has.
LEMMA OnwardOK ==
    ASSUME EarningsInv, NEW p \in Scanner, lookup[p].at \in {"save", "share"},
           NEW step \in {"share", "stamp"}, lookup' = [lookup EXCEPT ![p].at = step]
    PROVE  /\ lookup' = [lookup EXCEPT ![p] = lookup'[p]]
           /\ lookup'[p] \in Lookup /\ LookupOK(lookup'[p], report, tick)
<1> DEFINE l == lookup[p]
           m == lookup'[p]
<1>1. l \in Lookup /\ LookupOK(l, report, tick)
    BY DEF EarningsInv
<1>2. m = [l EXCEPT !.at = step] /\ lookup' = [lookup EXCEPT ![p] = m]
    BY DEF EarningsInv
<1>3. m \in Lookup /\ m.at = step /\ m.days = l.days /\ m.since = l.since
    BY <1>1, <1>2 DEF Lookup, InFlight
<1> HIDE DEF m
<1>4. LookupOK(m, report, tick)
    BY <1>1, <1>3 DEF LookupOK, InFlight
<1> QED BY <1>2, <1>3, <1>4 DEF m

LEMMA SaveFileStep ==
    ASSUME EarningsInv, NEW p \in Scanner, SaveFile(p)
    PROVE  EarningsInv'
<1>1. /\ lookup[p].at = "save" /\ file' \in {file, Saved(p)}
      /\ lookup' = [lookup EXCEPT ![p].at = "share"]
      /\ UNCHANGED <<tick, report, table, candidate>>
    BY DEF SaveFile
<1>2. StoredOK(file', report, tick)
    BY <1>1, SavedOK DEF EarningsInv
<1> QED BY <1>1, <1>2, OnwardOK, ScannerStep DEF EarningsInv

LEMMA SaveTableStep ==
    ASSUME EarningsInv, NEW p \in Scanner, SaveTable(p)
    PROVE  EarningsInv'
<1>1. /\ lookup[p].at = "share" /\ table' \in {table, Saved(p)}
      /\ lookup' = [lookup EXCEPT ![p].at = "stamp"]
      /\ UNCHANGED <<tick, report, file, candidate>>
    BY DEF SaveTable
<1>2. StoredOK(table', report, tick)
    BY <1>1, SavedOK DEF EarningsInv
<1> QED BY <1>1, <1>2, OnwardOK, ScannerStep DEF EarningsInv

LEMMA StampStep ==
    ASSUME EarningsInv, NEW p \in Scanner, Stamp(p)
    PROVE  EarningsInv'
<1> DEFINE l == lookup[p]
<1>1. /\ l.at = "stamp" /\ lookup' = [lookup EXCEPT ![p] = Waiting]
      /\ candidate' = IF l.days > Exclusion THEN Saved(p) ELSE candidate
      /\ UNCHANGED <<tick, report, table, file>>
    BY DEF Stamp
<1>2. /\ tick \in Nat /\ Delay \in Nat /\ DayTicks \in Nat /\ Exclusion \in Nat
      /\ l \in Lookup /\ LookupOK(l, report, tick)
      /\ l.days \in Nat \cup {NoDays} /\ l.since \in Nat
    BY EarningsConstants DEF EarningsInv, Lookup
<1>3. ASSUME l.days > Exclusion
      PROVE  CandidateOK(Saved(p), report, tick)
    <2>1. l.days # NoDays
        BY <1>2, <1>3 DEF NoDays
    <2>2. PICK s : CountedAt(l.days, s, report, tick) /\ l.since <= s + Ttl + Delay
        BY <1>1, <1>2, <2>1 DEF LookupOK, InFlight
    <2>3. s \in Nat /\ tick <= l.since + Delay
        BY <1>1, <1>2, <2>2 DEF CountedAt, LookupOK, InFlight
    <2>4. tick <= s + Ttl + Delay + Delay
        BY <1>2, <2>2, <2>3 DEF Ttl
    <2>5. Saved(p) \in Number /\ Saved(p).days = l.days /\ Saved(p).at = tick
        BY <1>2 DEF Saved, Number
    <2> QED BY <2>2, <2>4, <2>5 DEF CandidateOK
<1>4. CandidateOK(candidate', report, tick)
    BY <1>1, <1>3 DEF EarningsInv
<1>5. /\ lookup'[p] = Waiting /\ Waiting \in Lookup /\ LookupOK(Waiting, report, tick)
    BY <1>1 DEF EarningsInv, Waiting, Lookup, LookupOK, InFlight
<1> QED BY <1>1, <1>4, <1>5, ScannerStep DEF EarningsInv

LEMMA PassTickStep ==
    ASSUME EarningsInv, PassTick
    PROVE  EarningsInv'
<1>1. /\ tick < MaxTick /\ tick' = tick + 1
      /\ UNCHANGED <<report, table, file, candidate, lookup>>
    BY DEF PassTick
<1>2. tick \in Nat /\ MaxTick \in Nat /\ Delay \in Nat
    BY EarningsConstants DEF EarningsInv
<1>3. \A days, s : CountedAt(days, s, report, tick) => CountedAt(days, s, report, tick')
    BY <1>1, <1>2 DEF CountedAt
<1>4. StoredOK(table, report, tick') /\ StoredOK(file, report, tick')
    BY <1>3 DEF EarningsInv, StoredOK
<1>5. CandidateOK(candidate, report, tick')
    BY <1>3 DEF EarningsInv, CandidateOK
<1>6. ASSUME NEW p \in Scanner PROVE LookupOK(lookup[p], report, tick')
    <2>1. LookupOK(lookup[p], report, tick) /\ lookup[p].since \in Nat
        BY DEF EarningsInv, Lookup
    <2>2. lookup[p].at \in InFlight => tick < lookup[p].since + Delay
        BY DEF PassTick
    <2>3. lookup[p].at \in InFlight => tick' <= lookup[p].since + Delay
        BY <1>1, <1>2, <2>1, <2>2
    <2> QED BY <1>3, <2>1, <2>3 DEF LookupOK
<1>7. tick' \in 0..MaxTick
    BY <1>1, <1>2
<1> QED BY <1>1, <1>4, <1>5, <1>6, <1>7 DEF EarningsInv

LEMMA EarningsStep ==
    ASSUME EarningsInv, [EarningsNext]_earningsVars
    PROVE  EarningsInv'
<1>1. ASSUME NEW p \in Scanner, StartLookup(p) PROVE EarningsInv'
    BY <1>1, SeekStep DEF StartLookup
<1>2. CASE PassTick
    BY <1>2, PassTickStep
<1>3. CASE UNCHANGED earningsVars
    BY <1>3 DEF earningsVars, EarningsInv
<1> QED BY <1>1, <1>2, <1>3, ReadTableStep, ReadFileStep, AskCalendarStep, SaveFileStep, SaveTableStep,
           StampStep DEF EarningsNext

LEMMA EarningsStart ==
    ASSUME EarningsInit
    PROVE  EarningsInv
<1>1. Nothing \in Number /\ Nothing.days = NoDays
    BY DEF Nothing, Number
<1>2. StoredOK(Nothing, report, tick) /\ CandidateOK(Nothing, report, tick)
    BY <1>1 DEF StoredOK, CandidateOK
<1>3. Waiting \in Lookup /\ LookupOK(Waiting, report, tick)
    BY DEF Waiting, Lookup, LookupOK, InFlight
<1> QED BY <1>2, <1>3, EarningsConstants DEF EarningsInit, EarningsInv

\* No entry comes more than Drift trading days nearer to the earnings than the
\* exclusion, for any calendar, any weekends and any commands that take less than half
\* a day.
THEOREM EarningsDistance == EarningsSpec => []EarningsKeptAway
BY EarningsStart, EarningsStep, EarningsSafe, PTL DEF EarningsSpec

-----------------------------------------------------------------------------
(* ScanFunnel: what is listed passes the gates of the risk engine for      *)
(* events, what is strong the one for the score, and the report counts the *)
(* rows that the list keeps.                                               *)

\* What the list holds, and the settings it was made with.
FunnelInv ==
    /\ config \in ScanSettings /\ Accepted(config)
    /\ \A c \in results :
         /\ c.score \in Nat
         /\ c.event = "clear"
         /\ c.etf \in BOOLEAN
         /\ ~c.etf => c.days # NotKnown /\ c.days > ExclusionDays
         /\ c.route = Route(c.score)

LEMMA ScanConstants ==
    /\ Points \subseteq Nat /\ Addition \subseteq Nat /\ ExclusionDays \in Nat
    /\ \A p \in Profile : p \in ProfileType
BY ScanAssumption DEF ScanAssumption

\* What a regime adds only raises the threshold, and the cap of 101 is above every
\* threshold that is accepted.
LEMMA ThresholdRises ==
    ASSUME config \in ScanSettings, Accepted(config)
    PROVE  Threshold \in Nat /\ config.buy \in Nat /\ Threshold >= config.buy
<1>1. /\ config.buy \in Nat /\ config.preferred \in Nat
      /\ config.neutral \in Nat /\ config.choppy \in Nat /\ config.hostile \in Nat
  BY ScanConstants DEF ScanSettings
<1>2. config.buy <= 100
  BY <1>1 DEF Accepted
<1> DEFINE addition == CASE regime \in {"STRONG_BULL", "BULL"} -> 0
                         [] regime = "NEUTRAL" -> config.neutral
                         [] regime = "CHOPPY" -> config.choppy
                         [] OTHER -> config.hostile
<1>3. addition \in Nat
  BY <1>1
<1>4. Threshold = IF config.buy + addition > 101 THEN 101 ELSE config.buy + addition
  BY DEF Threshold
<1> HIDE DEF addition
<1> QED
  BY <1>1, <1>2, <1>3, <1>4

LEMMA StrongReachesThreshold ==
    ASSUME NEW total \in Nat, Route(total) \in {"strong", "very_strong"}
    PROVE  total >= Threshold
BY DEF Route

\* A stock that is not rejected has a best setup, and it passes.
LEMMA BestPasses ==
    ASSUME NEW p \in Profile, Passing(p) # {}
    PROVE  BestSetup(p) \in Passing(p)
<1> DEFINE Best(s) == \A t \in Passing(p) :
                        \/ p.score[s] > p.score[t]
                        \/ p.score[s] = p.score[t] /\ SetupRank(s) >= SetupRank(t)
<1>1. \A s \in SetupType : p.score[s] \in Nat
  BY ScanConstants DEF ProfileType
<1>2. Passing(p) \subseteq SetupType
  BY DEF Passing
<1>3. /\ SetupRank("BREAKOUT_RETEST") = 1
      /\ SetupRank("RELATIVE_STRENGTH_CONTINUATION") = 2
      /\ SetupRank("TREND_PULLBACK") = 3
  BY DEF SetupRank
<1>4. \E s \in Passing(p) : Best(s)
  BY <1>1, <1>2, <1>3 DEF SetupType
<1> QED
  BY <1>4 DEF BestSetup

\* Every validator has the event conditions.
LEMMA PassingIsClear ==
    ASSUME NEW p \in Profile, Passing(p) # {}
    PROVE  /\ p.event = "clear"
           /\ ~p.etf => p.days # NotKnown /\ p.days > ExclusionDays
<1>1. EventRisk(p) = "clear"
  BY DEF Passing, Validates
<1>2. p \in ProfileType
  BY ScanConstants
<1>3. p.days \in Nat \cup {NotKnown} /\ p.event \in {"clear", "blocked", "unknown"}
  BY <1>2 DEF ProfileType
<1>4. p.event # "unknown" /\ p.event # "blocked"
  BY <1>1 DEF EventRisk
<1>5. ~p.etf => p.days # NotKnown /\ ~(p.days <= ExclusionDays)
  BY <1>1, <1>4 DEF EventRisk
<1> QED
  BY <1>3, <1>4, <1>5, ScanConstants DEF NotKnown

LEMMA ListedIsClear ==
    ASSUME NEW stock, NEW p \in Profile, RejectedFor(p) = "nothing",
           NEW c, c = CandidateOf(stock, p)
    PROVE  /\ c.score \in Nat /\ c.event = "clear" /\ c.etf \in BOOLEAN
           /\ ~c.etf => c.days # NotKnown /\ c.days > ExclusionDays
           /\ c.route = Route(c.score)
<1>1. Passing(p) # {}
  BY DEF RejectedFor
<1>2. BestSetup(p) \in SetupType
  BY <1>1, BestPasses DEF Passing
<1>3. p.score[BestSetup(p)] \in Nat /\ p.etf \in BOOLEAN
  BY <1>2, ScanConstants DEF ProfileType
<1> QED
  BY <1>1, <1>3, PassingIsClear DEF CandidateOf

-----------------------------------------------------------------------------
LEMMA FunnelInit == ScanInit => FunnelInv
BY DEF ScanInit, FunnelInv

LEMMA FunnelScanStock == FunnelInv /\ ScanStock => FunnelInv'
<1> SUFFICES ASSUME FunnelInv, ScanStock PROVE FunnelInv'
  OBVIOUS
<1>1. UNCHANGED <<config, regime>>
  BY DEF ScanStock
<1>2. PICK p \in Profile :
         \/ /\ RejectedFor(p) = "nothing"
            /\ results' = results \cup {CandidateOf(scanned', p)}
         \/ results' = results
  BY DEF ScanStock
<1>3. ASSUME NEW c \in results'
      PROVE  /\ c.score \in Nat /\ c.event = "clear" /\ c.etf \in BOOLEAN
             /\ ~c.etf => c.days # NotKnown /\ c.days > ExclusionDays
             /\ c.route = Route(c.score)
  <2>1. CASE c \in results
    BY <2>1 DEF FunnelInv
  <2>2. CASE RejectedFor(p) = "nothing" /\ c = CandidateOf(scanned', p)
    BY <2>2, ListedIsClear
  <2> QED
    BY <1>2, <2>1, <2>2
<1> QED
  BY <1>1, <1>3 DEF FunnelInv, Route, Threshold, Accepted

LEMMA FunnelOthers ==
    ASSUME FunnelInv, UNCHANGED <<config, regime>>, results' \subseteq results
    PROVE  FunnelInv'
BY DEF FunnelInv, Route, Threshold, Accepted

LEMMA FunnelStep == FunnelInv /\ [ScanNext]_scanVars => FunnelInv'
<1> SUFFICES ASSUME FunnelInv, [ScanNext]_scanVars PROVE FunnelInv'
  OBVIOUS
<1>1. CASE ScanStock
  BY <1>1, FunnelScanStock
<1>2. CASE FinishScan
  <2>1. results' \subseteq results
    BY <1>2 DEF FinishScan, KeptSorted
  <2> QED
    BY <1>2, <2>1, FunnelOthers DEF FinishScan
<1>3. CASE RecordCandidate \/ FileCandidate \/ NoteCandidate \/ TurnToRejections \/ FileRejection
  BY <1>3, FunnelOthers
  DEF RecordCandidate, FileCandidate, NoteCandidate, TurnToRejections, FileRejection
<1>4. CASE UNCHANGED scanVars
  BY <1>4, FunnelOthers DEF scanVars
<1> QED
  BY <1>1, <1>2, <1>3, <1>4 DEF ScanNext

LEMMA FunnelGates == FunnelInv => ListedPassesGates
<1> SUFFICES ASSUME FunnelInv, NEW c \in results
             PROVE  EventGates(c) /\ (Strong(c) => ScoreGate(c))
  BY DEF ListedPassesGates
<1>1. c.score \in Nat /\ c.route = Route(c.score) /\ EventGates(c)
  BY DEF FunnelInv, EventGates
<1>2. ASSUME Strong(c) PROVE ScoreGate(c)
  <2>1. c.score >= Threshold
    BY <1>1, <1>2, StrongReachesThreshold DEF Strong
  <2> QED
    BY <1>1, <2>1, ThresholdRises DEF FunnelInv, ScoreGate
<1> QED
  BY <1>1, <1>2

\* No candidate is listed whose events or earnings the risk engine would refuse, and
\* none is strong whose score it would, whatever the stocks, the scores, the accepted
\* settings and the regime.
THEOREM FunnelPassesGates == ScanSpec => []ListedPassesGates
<1>1. FunnelInv /\ [ScanNext]_scanVars => FunnelInv'
  BY FunnelStep
<1> QED
  BY FunnelInit, <1>1, FunnelGates, PTL DEF ScanSpec

-----------------------------------------------------------------------------
(* The cut of the list.                                                    *)

\* Candidates of different stocks.
Ranked(S) ==
    /\ IsFiniteSet(S)
    /\ \A c \in S : c.score \in Nat /\ c.stock \in Nat
    /\ \A c, d \in S : c.stock = d.stock => c = d

Ahead(S, c) == {d \in S : Before(d, c)}

LEMMA PlacesDiffer ==
    ASSUME NEW S, Ranked(S)
    PROVE  /\ \A c \in S : Cardinality(Ahead(S, c)) \in 0..(Cardinality(S) - 1)
           /\ \A c, d \in S : Cardinality(Ahead(S, c)) = Cardinality(Ahead(S, d)) => c = d
<1>1. IsFiniteSet(S) /\ Cardinality(S) \in Nat
    BY FS_CardinalityType DEF Ranked
<1>2. ASSUME NEW c \in S
      PROVE  /\ IsFiniteSet(Ahead(S, c)) /\ Cardinality(Ahead(S, c)) \in Nat
             /\ Cardinality(Ahead(S, c)) < Cardinality(S) /\ c \notin Ahead(S, c)
    <2>1. Ahead(S, c) \subseteq S /\ c \notin Ahead(S, c)
        BY DEF Ahead, Before, Ranked
    <2>2. Ahead(S, c) # S
        BY <2>1
    <2> QED BY <1>1, <2>1, <2>2, FS_Subset, FS_CardinalityType
<1>3. ASSUME NEW c \in S, NEW d \in S, Before(c, d)
      PROVE  Cardinality(Ahead(S, c)) < Cardinality(Ahead(S, d))
    <2>1. Ahead(S, c) \subseteq Ahead(S, d)
        BY <1>3 DEF Ahead, Before, Ranked
    <2>2. c \in Ahead(S, d)
        BY <1>3 DEF Ahead
    <2>3. Ahead(S, c) # Ahead(S, d)
        BY <1>2, <2>2
    <2> QED BY <1>2, <2>1, <2>3, FS_Subset
<1>4. ASSUME NEW c \in S, NEW d \in S, c # d
      PROVE  Before(c, d) \/ Before(d, c)
    BY <1>4 DEF Before, Ranked
<1>5. \A c, d \in S : Cardinality(Ahead(S, c)) = Cardinality(Ahead(S, d)) => c = d
    <2> SUFFICES ASSUME NEW c \in S, NEW d \in S, c # d
                 PROVE  Cardinality(Ahead(S, c)) # Cardinality(Ahead(S, d))
        OBVIOUS
    <2>1. Cardinality(Ahead(S, c)) \in Nat /\ Cardinality(Ahead(S, d)) \in Nat
        BY <1>2
    <2> QED BY <1>3, <1>4, <2>1
<1>6. \A c \in S : Cardinality(Ahead(S, c)) \in 0..(Cardinality(S) - 1)
    BY <1>1, <1>2
<1> QED BY <1>5, <1>6

LEMMA Below ==
    ASSUME NEW k \in Nat
    PROVE  IsFiniteSet(0..(k - 1)) /\ Cardinality(0..(k - 1)) = k
<1>1. /\ IsFiniteSet(0..(k - 1))
      /\ Cardinality(0..(k - 1)) = IF 0 > k - 1 THEN 0 ELSE (k - 1) - 0 + 1
    BY FS_Interval
<1>2. CASE k = 0
    BY <1>1, <1>2
<1>3. CASE k # 0
    BY <1>1, <1>3
<1> QED BY <1>2, <1>3

LEMMA Onto ==
    ASSUME NEW S, NEW T, NEW f \in Surjection(S, T)
    PROVE  \A t \in T : \E s \in S : f[s] = t
BY DEF Surjection

\* The cut keeps as many as there is room for: the places of n candidates are 0 to
\* n - 1, each taken once.
LEMMA CutKeeps ==
    ASSUME NEW S, Ranked(S), NEW room \in Nat
    PROVE  Cardinality({c \in S : Cardinality(Ahead(S, c)) < room}) = Fewer(Cardinality(S), room)
<1> DEFINE n == Cardinality(S)
           m == Fewer(n, room)
           place == [c \in S |-> Cardinality(Ahead(S, c))]
           T == {c \in S : Cardinality(Ahead(S, c)) < room}
           first == [c \in T |-> place[c]]
<1>1. n \in Nat /\ IsFiniteSet(S) /\ m \in Nat
    BY FS_CardinalityType DEF Ranked, Fewer
<1>2. place \in [S -> 0..(n - 1)] /\ \A c, d \in S : place[c] = place[d] => c = d
    BY PlacesDiffer
<1>3. place \in Injection(S, 0..(n - 1))
    BY <1>2, Fun_IsInj
<1>4. IsFiniteSet(0..(n - 1)) /\ Cardinality(0..(n - 1)) = n
    BY <1>1, Below
<1>5. place \in Surjection(S, 0..(n - 1))
    BY <1>3, <1>4, FS_Injection
<1>6. \A i \in 0..(n - 1) : \E c \in S : place[c] = i
    <2> DEFINE places == 0..(n - 1)
    <2>1. place \in Surjection(S, places)
        BY <1>5
    <2> HIDE DEF places, place
    <2>2. \A i \in places : \E c \in S : place[c] = i
        BY <2>1, Onto
    <2> QED BY <2>2 DEF places
<1>7. \A c \in S : place[c] = Cardinality(Ahead(S, c))
    OBVIOUS
<1>8. \A c \in T : c \in S /\ place[c] < room
    BY <1>7
<1>9. \A i \in 0..(m - 1) : i \in 0..(n - 1) /\ i < room
    BY <1>1 DEF Fewer
<1>10. \A i \in 0..(n - 1) : i < room => i \in 0..(m - 1)
    BY <1>1 DEF Fewer
<1>11. first \in [T -> 0..(m - 1)] /\ \A c, d \in T : first[c] = first[d] => c = d
    <2> HIDE DEF m, n, T, place
    <2>1. \A c \in T : place[c] \in 0..(m - 1)
        BY <1>2, <1>8, <1>10
    <2> QED BY <1>2, <1>8, <2>1
<1>12. first \in Injection(T, 0..(m - 1))
    BY <1>11, Fun_IsInj
<1>13. \A i \in 0..(m - 1) : \E c \in T : first[c] = i
    <2> SUFFICES ASSUME NEW i \in 0..(m - 1) PROVE \E c \in T : first[c] = i
        OBVIOUS
    <2>1. PICK c \in S : place[c] = i
        BY <1>6, <1>9
    <2>2. c \in T
        BY <1>7, <1>9, <2>1
    <2> QED BY <2>1, <2>2
<1>14. first \in Surjection(T, 0..(m - 1))
    BY <1>11, <1>13, Fun_IsSurj
<1>15. IsFiniteSet(0..(m - 1)) /\ Cardinality(0..(m - 1)) = m
    BY <1>1, Below
<1>16. Cardinality(T) = Cardinality(0..(m - 1))
    BY <1>12, <1>14, <1>15, FS_Injection
<1> QED BY <1>15, <1>16

-----------------------------------------------------------------------------
(* What the report counts.                                                 *)

StrongOnes(S) == {c \in S : Strong(c)}

\* The scan so far: every stock is a candidate or a rejection, and the counters are
\* those of the list.
CountsOK ==
    /\ IsFiniteSet(results) /\ IsFiniteSet(rejections)
    /\ \A c \in results : c.stock \in 1..scanned
    /\ \A r \in rejections : r.stock \in 1..scanned
    /\ \A c, d \in results : c.stock = d.stock => c = d
    /\ scanned = Cardinality(rejections) + passed.setup
    /\ passed.setup = Cardinality(results)
    /\ passed.strong = Cardinality(StrongOnes(results))

CountInv ==
    /\ FunnelInv
    /\ scanned \in 0..Universe
    /\ passed \in [{"liquidity_history", "trend_rs", "setup", "strong"} -> Nat]
    /\ at = "scan" => CountsOK
    /\ ReportMatchesList

\* What is ahead of a strong candidate is strong.
LEMMA AheadOfStrong ==
    ASSUME FunnelInv, NEW c \in results, NEW d \in results, Strong(c), Before(d, c)
    PROVE  Strong(d)
<1>1. /\ c.score \in Nat /\ d.score \in Nat
      /\ c.route = Route(c.score) /\ d.route = Route(d.score)
    BY DEF FunnelInv
<1>2. d.score >= c.score
    BY <1>1 DEF Before
<1>3. Threshold \in Nat
    BY ThresholdRises DEF FunnelInv
<1>4. c.score >= Threshold /\ regime # "HIGH_VOLATILITY_RISK_OFF"
    BY <1>1 DEF Strong, Route
<1>5. d.score >= Threshold
    BY <1>1, <1>2, <1>3, <1>4
<1> QED BY <1>1, <1>4, <1>5 DEF Strong, Route

LEMMA CountScanStock ==
    ASSUME CountInv, ScanStock
    PROVE  CountInv'
<1>1. /\ at = "scan" /\ scanned < Universe /\ scanned' = scanned + 1 /\ at' = "scan"
      /\ UNCHANGED <<config, regime>>
    BY DEF ScanStock
<1>2. PICK p \in Profile :
         /\ passed' = [s \in DOMAIN passed |-> passed[s] + IF Passes(s, p) THEN 1 ELSE 0]
         /\ \/ /\ RejectedFor(p) = "nothing"
               /\ results' = results \cup {CandidateOf(scanned', p)}
               /\ UNCHANGED rejections
            \/ /\ RejectedFor(p) # "nothing"
               /\ rejections' = rejections \cup {RejectionOf(scanned', p)}
               /\ UNCHANGED results
    BY DEF ScanStock
<1>3. CountsOK /\ scanned \in Nat /\ Universe \in Nat
      /\ passed \in [{"liquidity_history", "trend_rs", "setup", "strong"} -> Nat]
    BY <1>1, ScanAssumption DEF CountInv
<1>4. /\ passed' \in [{"liquidity_history", "trend_rs", "setup", "strong"} -> Nat]
      /\ passed'.setup = passed.setup + (IF Passes("setup", p) THEN 1 ELSE 0)
      /\ passed'.strong = passed.strong + (IF Passes("strong", p) THEN 1 ELSE 0)
    BY <1>2, <1>3
<1>5. FunnelInv'
    BY FunnelScanStock DEF CountInv
<1>6. ~(at' # "scan")
    BY <1>1
<1>7. CASE RejectedFor(p) = "nothing"
    <2> DEFINE c == CandidateOf(scanned + 1, p)
    <2>1. results' = results \cup {c} /\ UNCHANGED rejections
        BY <1>1, <1>2, <1>7
    <2>2. c.stock = scanned + 1
        BY DEF CandidateOf
    <2>3. Passes("setup", p) /\ (Passes("strong", p) <=> Strong(c))
        BY <1>7 DEF Passes
    <2> HIDE DEF c
    <2>4. c \notin results /\ \A d \in results : d.stock # scanned + 1
        BY <1>3, <2>2 DEF CountsOK
    <2>5. IsFiniteSet(results') /\ Cardinality(results') = Cardinality(results) + 1
        BY <1>3, <2>1, <2>4, FS_AddElement DEF CountsOK
    <2>6. Cardinality(StrongOnes(results')) = Cardinality(StrongOnes(results)) + (IF Strong(c) THEN 1 ELSE 0)
        <3>1. IsFiniteSet(StrongOnes(results)) /\ c \notin StrongOnes(results)
            BY <1>3, <2>4, FS_Subset DEF CountsOK, StrongOnes
        <3>2. CASE Strong(c)
            <4>1. StrongOnes(results') = StrongOnes(results) \cup {c}
                BY <2>1, <3>2 DEF StrongOnes
            <4> QED BY <3>1, <3>2, <4>1, FS_AddElement
        <3>3. CASE ~Strong(c)
            <4>1. StrongOnes(results') = StrongOnes(results)
                BY <2>1, <3>3 DEF StrongOnes
            <4>2. Cardinality(StrongOnes(results)) \in Nat
                BY <3>1, FS_CardinalityType
            <4> QED BY <3>3, <4>1, <4>2
        <3> QED BY <3>2, <3>3
    <2>7. /\ Cardinality(results) \in Nat /\ Cardinality(rejections) \in Nat
          /\ passed.setup \in Nat /\ passed.strong \in Nat
        BY <1>3, FS_CardinalityType DEF CountsOK
    <2>8. /\ scanned' = Cardinality(rejections') + passed'.setup
          /\ passed'.setup = Cardinality(results')
          /\ passed'.strong = Cardinality(StrongOnes(results'))
        BY <1>1, <1>3, <1>4, <2>1, <2>3, <2>5, <2>6, <2>7 DEF CountsOK
    <2>9. /\ \A d \in results' : d.stock \in 1..scanned'
          /\ \A r \in rejections' : r.stock \in 1..scanned'
          /\ \A d, e \in results' : d.stock = e.stock => d = e
        BY <1>1, <1>3, <2>1, <2>2, <2>4 DEF CountsOK
    <2>10. CountsOK'
        BY <1>3, <2>1, <2>5, <2>8, <2>9 DEF CountsOK, StrongOnes, Strong
    <2> QED BY <1>1, <1>3, <1>4, <1>5, <1>6, <2>10 DEF CountInv, ReportMatchesList
<1>8. CASE RejectedFor(p) # "nothing"
    <2> DEFINE r == RejectionOf(scanned + 1, p)
    <2>1. rejections' = rejections \cup {r} /\ UNCHANGED results
        BY <1>1, <1>2, <1>8
    <2>2. r.stock = scanned + 1
        BY DEF RejectionOf
    <2>3. ~Passes("setup", p) /\ ~Passes("strong", p)
        BY <1>8 DEF Passes
    <2> HIDE DEF r
    <2>4. r \notin rejections
        BY <1>3, <2>2 DEF CountsOK
    <2>5. IsFiniteSet(rejections') /\ Cardinality(rejections') = Cardinality(rejections) + 1
        BY <1>3, <2>1, <2>4, FS_AddElement DEF CountsOK
    <2>6. /\ Cardinality(rejections) \in Nat /\ passed.setup \in Nat /\ passed.strong \in Nat
        BY <1>3, FS_CardinalityType DEF CountsOK
    <2>7. /\ scanned' = Cardinality(rejections') + passed'.setup
          /\ passed'.setup = passed.setup /\ passed'.strong = passed.strong
        BY <1>1, <1>3, <1>4, <2>3, <2>5, <2>6 DEF CountsOK
    <2>8. /\ \A d \in results' : d.stock \in 1..scanned'
          /\ \A q \in rejections' : q.stock \in 1..scanned'
        BY <1>1, <1>3, <2>1, <2>2 DEF CountsOK
    <2>9. CountsOK'
        BY <1>3, <2>1, <2>5, <2>7, <2>8 DEF CountsOK, StrongOnes, Strong
    <2> QED BY <1>1, <1>3, <1>4, <1>5, <1>6, <2>9 DEF CountInv, ReportMatchesList
<1> QED BY <1>7, <1>8

\* The list and its strong ones are cut to the room there is.
LEMMA CountFinish ==
    ASSUME CountInv, FinishScan
    PROVE  CountInv'
<1> DEFINE room == MaximumScannerCandidates
           U == StrongOnes(results)
<1>1. /\ at = "scan" /\ scanned = Universe /\ at' = "candidates"
      /\ results' = KeptSorted(results)
      /\ UNCHANGED <<config, regime, scanned, passed, rejections>>
    BY DEF FinishScan
<1>2. CountsOK /\ FunnelInv /\ room \in Nat
    BY <1>1, ScanAssumption DEF CountInv
<1>3. Ranked(results)
    BY <1>2, ScanAssumption DEF CountInv, CountsOK, FunnelInv, Ranked
<1>4. Ranked(U)
    BY <1>3, FS_Subset DEF Ranked, StrongOnes
<1>5. Cardinality(results') = Fewer(passed.setup, room)
    <2>1. results' = {c \in results : Cardinality(Ahead(results, c)) < room}
        BY <1>1 DEF KeptSorted, Ahead
    <2> QED BY <1>2, <1>3, <2>1, CutKeeps DEF CountsOK
<1>6. Cardinality({c \in results' : Strong(c)}) = Fewer(passed.strong, room)
    <2>1. \A c \in U : Ahead(results, c) = Ahead(U, c)
        BY <1>2, AheadOfStrong DEF Ahead, StrongOnes
    <2>2. {c \in results' : Strong(c)} = {c \in U : Cardinality(Ahead(U, c)) < room}
        BY <1>1, <2>1 DEF KeptSorted, Ahead, StrongOnes
    <2> QED BY <1>2, <1>4, <2>2, CutKeeps DEF CountsOK
<1>7. Universe = Cardinality(rejections) + passed.setup
    BY <1>1, <1>2 DEF CountsOK
<1>8. ReportMatchesList'
    BY <1>1, <1>5, <1>6, <1>7 DEF ReportMatchesList, Strong
<1>9. FunnelInv'
    BY <1>1, <1>2, FunnelOthers DEF KeptSorted
<1> QED BY <1>1, <1>8, <1>9 DEF CountInv

LEMMA CountStep ==
    ASSUME CountInv, [ScanNext]_scanVars
    PROVE  CountInv'
<1>1. CASE RecordCandidate \/ FileCandidate \/ NoteCandidate \/ TurnToRejections \/ FileRejection
    <2>1. /\ at # "scan" /\ at' # "scan"
          /\ UNCHANGED <<config, regime, scanned, passed, rejections, results>>
        BY <1>1 DEF RecordCandidate, FileCandidate, NoteCandidate, TurnToRejections, FileRejection
    <2>2. FunnelInv'
        BY <2>1, FunnelOthers DEF CountInv
    <2> QED BY <2>1, <2>2 DEF CountInv, ReportMatchesList, Strong
<1>2. CASE UNCHANGED scanVars
    BY <1>2, FunnelOthers DEF scanVars, CountInv, CountsOK, StrongOnes, Strong, ReportMatchesList
<1> QED BY <1>1, <1>2, CountScanStock, CountFinish DEF ScanNext

LEMMA CountStart ==
    ASSUME ScanInit
    PROVE  CountInv
<1>1. FunnelInv
    BY FunnelInit
<1>2. StrongOnes(results) = {}
    BY DEF ScanInit, StrongOnes
<1>3. CountsOK
    BY <1>2, FS_EmptySet DEF ScanInit, CountsOK
<1> QED BY <1>1, <1>3, ScanAssumption DEF ScanInit, CountInv, ReportMatchesList

\* The report says of the whole universe what the list says of its best, for any
\* universe and any room on the list.
THEOREM ReportMatches == ScanSpec => []ReportMatchesList
<1>1. CountInv => ReportMatchesList
    BY DEF CountInv
<1> QED BY <1>1, CountStart, CountStep, PTL DEF ScanSpec
-----------------------------------------------------------------------------
(* The types of EarningsFeed and ScanFunnel.                               *)

\* Nothing is in hand since a tick beyond the bound of the clock.
SinceTicked == \A p \in Scanner : lookup[p].since \in 0..MaxTick

LEMMA SinceStep ==
    ASSUME EarningsInv, SinceTicked, [EarningsNext]_earningsVars
    PROVE  SinceTicked'
<1>. USE DEF SinceTicked
<1>1. lookup \in [Scanner -> Lookup] /\ tick \in 0..MaxTick
  BY DEF EarningsInv
<1>2. ASSUME NEW p \in Scanner, NEW step, Seek(p, step) PROVE SinceTicked'
  BY <1>1, <1>2 DEF Seek, Lookup
<1>3. ASSUME NEW p \in Scanner, NEW step, NEW days, Hold(p, step, days) PROVE SinceTicked'
  BY <1>1, <1>3 DEF Hold
<1>4. ASSUME NEW p \in Scanner, StartLookup(p) \/ ReadTable(p) \/ ReadFile(p) \/ AskCalendar(p)
      PROVE  SinceTicked'
  BY <1>2, <1>3, <1>4 DEF StartLookup, ReadTable, ReadFile, AskCalendar
<1>5. ASSUME NEW p \in Scanner, SaveFile(p) \/ SaveTable(p) PROVE SinceTicked'
  BY <1>2, <1>5 DEF SaveFile, SaveTable, Seek
<1>6. ASSUME NEW p \in Scanner, Stamp(p) PROVE SinceTicked'
  BY <1>1, <1>6, EarningsConstants DEF Stamp, Waiting
<1>7. CASE PassTick \/ UNCHANGED earningsVars
  BY <1>7 DEF PassTick, earningsVars
<1>. QED
  BY <1>4, <1>5, <1>6, <1>7 DEF EarningsNext

\* Every stored number, every number in hand and the candidate keep their types.
THEOREM EarningsTyped == EarningsSpec => []EarningsTypeOK
<1>1. EarningsInit => SinceTicked
  BY EarningsConstants DEF EarningsInit, SinceTicked, Waiting
<1>2. EarningsInv /\ SinceTicked => EarningsTypeOK
  <2>. SUFFICES ASSUME EarningsInv, SinceTicked PROVE EarningsTypeOK
    OBVIOUS
  <2>1. table \in Number /\ file \in Number /\ candidate \in Number
    BY DEF EarningsInv, StoredOK, CandidateOK
  <2>2. lookup \in [Scanner -> [at : {"idle", "table", "file", "ask"} \cup InFlight,
                                days : Nat \cup {NoDays}, since : 0..MaxTick]]
    BY DEF EarningsInv, SinceTicked, Lookup
  <2>. QED BY <2>1, <2>2 DEF EarningsInv, EarningsTypeOK
<1>3. EarningsInv /\ [EarningsNext]_earningsVars => EarningsInv'
  BY EarningsStep
<1>4. EarningsInv /\ SinceTicked /\ [EarningsNext]_earningsVars => SinceTicked'
  BY SinceStep
<1>. QED
  BY EarningsStart, <1>1, <1>2, <1>3, <1>4, PTL DEF EarningsSpec

LEMMA RouteTyped ==
    ASSUME NEW total \in Nat
    PROVE  Route(total) \in {"reject", "watchlist", "strong", "very_strong"}
BY DEF Route

LEMMA CandidateTyped ==
    ASSUME FunnelInv, NEW stock \in 1..Universe, NEW p \in Profile, RejectedFor(p) = "nothing"
    PROVE  CandidateOf(stock, p) \in CandidateType
<1>. DEFINE s == BestSetup(p)
<1>1. p \in ProfileType
  BY ScanConstants
<1>2. Passing(p) # {}
  BY <1>1 DEF RejectedFor, ProfileType, Reason
<1>3. s \in SetupType
  BY <1>2, BestPasses DEF Passing
<1>4. p.score[s] \in Nat
  BY <1>1, <1>3 DEF ProfileType
<1>5. Route(p.score[s]) \in {"reject", "watchlist", "strong", "very_strong"}
  BY <1>4, RouteTyped
<1>6. /\ p.etf \in BOOLEAN /\ p.event \in {"clear", "blocked", "unknown"}
      /\ p.days \in Nat \cup {NotKnown}
  BY <1>1 DEF ProfileType
<1>. HIDE DEF s
<1>7. [stock |-> stock, setup |-> s, score |-> p.score[s], route |-> Route(p.score[s]),
       etf |-> p.etf, event |-> p.event, days |-> p.days] \in CandidateType
  BY <1>3, <1>4, <1>5, <1>6 DEF CandidateType
<1>. QED BY <1>7 DEF CandidateOf, s

LEMMA RejectionTyped ==
    ASSUME NEW stock \in 1..Universe, NEW p \in Profile, RejectedFor(p) # "nothing"
    PROVE  RejectionOf(stock, p) \in RejectionType
<1>1. p \in ProfileType
  BY ScanConstants
<1>2. RejectedFor(p) \in Reason /\ p.features \in Nat
  BY <1>1 DEF RejectedFor, ProfileType, Reason
<1>. QED BY <1>2 DEF RejectionOf, RejectionType

\* The rows that a command has yet to write are of the list it is at, and nothing is
\* written while it scans.
Filing ==
    /\ regime \in MarketRegime
    /\ at \in {"scan", "candidates", "rejections"}
    /\ results \subseteq CandidateType /\ rejections \subseteq RejectionType
    /\ at = "scan" =>
          todo = {} /\ filed = [candidates |-> {}, accepted |-> {}, rejected |-> {}, noted |-> {}]
    /\ at = "candidates" => todo \subseteq results
    /\ at = "rejections" => todo \subseteq rejections
    /\ filed \in [candidates : SUBSET results, accepted : SUBSET results,
                  rejected : SUBSET rejections, noted : SUBSET results]

LEMMA FilingStep ==
    ASSUME CountInv, Filing, [ScanNext]_scanVars
    PROVE  Filing'
<1>. USE DEF Filing
<1>1. CASE ScanStock
  <2>1. at = "scan" /\ UNCHANGED <<config, regime, at, todo, filed>>
    BY <1>1 DEF ScanStock
  <2>2. scanned' \in 1..Universe
    <3>1. scanned \in 0..Universe /\ scanned < Universe /\ scanned' = scanned + 1
      BY <1>1 DEF ScanStock, CountInv
    <3>2. Universe \in Nat
      BY ScanAssumption DEF ScanAssumption
    <3>. QED BY <3>1, <3>2
  <2>3. results' \subseteq CandidateType /\ rejections' \subseteq RejectionType
    <3>1. PICK p \in Profile :
             \/ /\ RejectedFor(p) = "nothing"
                /\ results' = results \cup {CandidateOf(scanned', p)}
                /\ UNCHANGED rejections
             \/ /\ RejectedFor(p) # "nothing"
                /\ rejections' = rejections \cup {RejectionOf(scanned', p)}
                /\ UNCHANGED results
      BY <1>1 DEF ScanStock
    <3>2. RejectedFor(p) = "nothing" => CandidateOf(scanned', p) \in CandidateType
      BY <2>2, CandidateTyped DEF CountInv
    <3>3. RejectedFor(p) # "nothing" => RejectionOf(scanned', p) \in RejectionType
      BY <2>2, RejectionTyped
    <3>. QED BY <3>1, <3>2, <3>3
  <2>. QED BY <2>1, <2>3
<1>2. CASE FinishScan
  <2>1. results' \subseteq results
    BY <1>2 DEF FinishScan, KeptSorted
  <2>. QED BY <1>2, <2>1 DEF FinishScan
<1>3. CASE FileCandidate
  <2>1. PICK c \in todo :
           /\ filed' = [filed EXCEPT !.accepted = @ \cup {c}]
           /\ todo' = IF Strong(c) THEN todo ELSE todo \ {c}
    BY <1>3 DEF FileCandidate
  <2>2. at = "candidates" /\ UNCHANGED <<regime, at, rejections, results>>
    BY <1>3 DEF FileCandidate
  <2>. QED BY <2>1, <2>2
<1>4. CASE NoteCandidate
  <2>1. PICK c \in todo : /\ filed' = [filed EXCEPT !.noted = @ \cup {c}]
                          /\ todo' = todo \ {c}
    BY <1>4 DEF NoteCandidate
  <2>2. at = "candidates" /\ UNCHANGED <<regime, at, rejections, results>>
    BY <1>4 DEF NoteCandidate
  <2>. QED BY <2>1, <2>2
<1>5. CASE TurnToRejections
  BY <1>5 DEF TurnToRejections
<1>6. CASE FileRejection
  <2>1. PICK r \in todo :
           /\ todo' = todo \ {r}
           /\ filed' = IF \E q \in filed.rejected : SameFingerprint(r, q) THEN filed
                       ELSE [filed EXCEPT !.rejected = @ \cup {r}]
    BY <1>6 DEF FileRejection
  <2>2. at = "rejections" /\ UNCHANGED <<regime, at, rejections, results>>
    BY <1>6 DEF FileRejection
  <2>3. filed' \in {filed, [filed EXCEPT !.rejected = @ \cup {r}]}
    BY <2>1
  <2>. QED BY <2>1, <2>2, <2>3
<1>7. CASE RecordCandidate
  <2>1. PICK c \in todo : filed' = [filed EXCEPT !.candidates = @ \cup {c}]
    BY <1>7 DEF RecordCandidate
  <2>2. at = "candidates" /\ UNCHANGED <<regime, at, todo, rejections, results>>
    BY <1>7 DEF RecordCandidate
  <2>. QED BY <2>1, <2>2
<1>8. CASE UNCHANGED scanVars
  BY <1>8 DEF scanVars
<1>. QED
  BY <1>1, <1>2, <1>3, <1>4, <1>5, <1>6, <1>7, <1>8 DEF ScanNext

\* The settings are accepted ones, every row of the report and of the list keeps its
\* type, and what is written of a scan is of its report.
THEOREM ScanTyped == ScanSpec => []ScanTypeOK
<1>1. ScanInit => Filing
  BY DEF ScanInit, Filing
<1>2. CountInv /\ Filing => ScanTypeOK
  BY DEF CountInv, FunnelInv, Filing, ScanTypeOK
<1>3. CountInv /\ Filing /\ [ScanNext]_scanVars => Filing'
  BY FilingStep
<1>. QED
  BY CountStart, CountStep, <1>1, <1>2, <1>3, PTL DEF ScanSpec
-----------------------------------------------------------------------------
(* MCOperations: a behaviour of the composition is one of every component, *)
(* of which one takes its steps and the others stand still.                *)

LEMMA PartsStep ==
    ASSUME [OperationsNext]_opsVars
    PROVE  /\ [SizingNext]_sizingVars /\ [StopNext]_stopVars /\ [TicketNext]_ticketVars
           /\ [LearningNext]_learningVars /\ [AgentNext]_agentVars /\ [Next]_vars
           /\ [EarningsNext]_earningsVars /\ [ActionNext]_actionVars /\ [ScanNext]_scanVars
<1>1. CASE UNCHANGED opsVars
  BY <1>1 DEF opsVars, rowVars, marketVars, haltVars
<1>2. CASE RowNext /\ UNCHANGED marketVars
  BY <1>2 DEF RowNext, marketVars, haltVars
<1>3. CASE MarketNext /\ UNCHANGED rowVars
  BY <1>3 DEF MarketNext, rowVars, haltVars
<1>. QED
  BY <1>1, <1>2, <1>3 DEF OperationsNext

\* What the theorems say of a component holds of it in the composition.
THEOREM OperationsImplement ==
    OperationsSpec =>
        /\ SizingSpec /\ StopSpec /\ TicketSpec /\ LearningSpec /\ AgentSpec /\ Spec
        /\ EarningsSpec /\ ActionSpec /\ ScanSpec
<1>1. OperationsInit =>
          /\ SizingInit /\ StopInit /\ TicketInit /\ LearningInit /\ AgentInit /\ Init
          /\ EarningsInit /\ ActionInit /\ ScanInit
  BY DEF OperationsInit
<1>. QED
  BY <1>1, PartsStep, PTL
  DEF OperationsSpec, SizingSpec, StopSpec, TicketSpec, LearningSpec, AgentSpec, Spec,
      EarningsSpec, ActionSpec, ScanSpec

\* The rows of every component keep the types of its columns.
THEOREM OperationsTyped == OperationsSpec => []OperationsTypeOK
<1>1. /\ SizingTypeOK /\ StopTypeOK /\ TicketTypeOK /\ LearningTypeOK /\ AgentTypeOK
      /\ EarningsTypeOK /\ ActionTypeOK /\ ScanTypeOK
      => OperationsTypeOK
  BY DEF OperationsTypeOK
<1>. QED
  BY <1>1, OperationsImplement, SizingTyped, StopTyped, TicketTyped, LearningTyped, AgentTyped,
     EarningsTyped, ActionTyped, ScanTyped, PTL
=============================================================================
