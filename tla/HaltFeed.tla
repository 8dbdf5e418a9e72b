------------------------------ MODULE HaltFeed -------------------------------
(***************************************************************************)
(* Which symbols an exchange has halted, as scans learn it: from the hosted *)
(* row that the relay fills, from the cache on disk, from the exchange's    *)
(* feed, in this order.                                                     *)
(*                                                                         *)
(* Scans and relays run at once and share both caches, so that an answer   *)
(* may be stored after a later one; each read, each write and the answer of *)
(* the feed is a step, and any of them but the last write may fail.  Time  *)
(* passes in ticks; what a process has in hand, it stores or judges within *)
(* Latency ticks.                                                          *)
(***************************************************************************)
EXTENDS Integers

CONSTANTS Feeder,       \* commands that use the feed: scan, run, update-halts
          Security,     \* the symbols
          HostedTtl,    \* HALTS_DB_CACHE_TTL_SECONDS
          DiskTtl,      \* HALTS_CACHE_TTL_SECONDS
          Latency,      \* how long an answer may be under way
          MaxTime       \* bound on the clock

ASSUME HaltFeedAssumption ==
    /\ {HostedTtl, DiskTtl, Latency, MaxTime} \subseteq Nat
    /\ DiskTtl <= HostedTtl

VARIABLES
    time,
    since,      \* exchange: when a symbol was halted; Trading while it is not
    hosted,     \* nasdaq_halts_cache: the symbols, and updated_at
    disk,       \* the file of _cache_set: the symbols, and ts
    feeder      \* a process: its next step and the answer in hand

feedVars == <<time, since, hosted, disk, feeder>>

Trading == -1

\* No row and no file; taken is history: when the exchange gave the answer.
Unset == [halts |-> {}, at |-> -1, taken |-> -1]

Free == [at |-> "idle", known |-> FALSE, halts |-> {}, got |-> 0, taken |-> 0]

FeederStep == {"idle", "hosted", "disk", "live", "keep", "share", "judge",
               "relay", "publish", "keep_own"}

\* The symbols that are halted now.
Halted == {s \in Security : since[s] # Trading}

FeedInit ==
    /\ time = 0
    /\ since = [s \in Security |-> Trading]
    /\ hosted = Unset /\ disk = Unset
    /\ feeder = [p \in Feeder |-> Free]

---------------------------------------------------------------------------

GoOn(p, at) == feeder' = [feeder EXCEPT ![p].at = at]

\* An answer taken when the exchange gave it, or from a cache.
Have(p, at, halts, taken) ==
    feeder' = [feeder EXCEPT ![p] = [at |-> at, known |-> TRUE, halts |-> halts,
                                     got |-> time, taken |-> taken]]

\* load_scan_inputs calls fetch_current_halts, update-halts the other one.
StartFeed(p) ==
    /\ feeder[p].at = "idle"
    /\ GoOn(p, "hosted") \/ GoOn(p, "relay")
    /\ UNCHANGED <<time, since, hosted, disk>>

\* Mutant: the row is used whatever its age.
ReadHostedAnyAge(p) ==
    /\ feeder[p].at = "hosted"
    /\ \/ hosted # Unset /\ Have(p, "judge", hosted.halts, hosted.taken)
       \/ GoOn(p, "disk")
    /\ UNCHANGED <<time, since, hosted, disk>>

\* get_halts_cache; the call may raise, which counts as a miss.
ReadHosted(p) ==
    /\ feeder[p].at = "hosted"
    /\ \/ /\ hosted # Unset /\ time - hosted.at <= HostedTtl
          /\ Have(p, "judge", hosted.halts, hosted.taken)
       \/ GoOn(p, "disk")
    /\ UNCHANGED <<time, since, hosted, disk>>

\* _cache_get; an unreadable file counts as a miss.
ReadDisk(p) ==
    /\ feeder[p].at = "disk"
    /\ \/ /\ disk # Unset /\ time - disk.at < DiskTtl
          /\ Have(p, "judge", disk.halts, disk.taken)
       \/ GoOn(p, "live")
    /\ UNCHANGED <<time, since, hosted, disk>>

\* _fetch_halts_live: the newest entry of a symbol says whether it is halted; a
\* failure leaves the scan without an answer, and the relay with nothing to do.
FetchLive(p) ==
    /\ feeder[p].at \in {"live", "relay"}
    /\ LET relays == feeder[p].at = "relay"
       IN \/ Have(p, IF relays THEN "publish" ELSE "keep", Halted, time)
          \/ feeder' = [feeder EXCEPT ![p] = IF relays THEN Free
                                             ELSE [Free EXCEPT !.at = "judge", !.got = time]]
    /\ UNCHANGED <<time, since, hosted, disk>>

Stamped(p) == [halts |-> feeder[p].halts, at |-> time, taken |-> feeder[p].taken]

\* _cache_set, which swallows its failures.
KeepOnDisk(p) ==
    /\ feeder[p].at \in {"keep", "keep_own"}
    /\ disk' \in {disk, Stamped(p)}
    /\ IF feeder[p].at = "keep" THEN GoOn(p, "share")
                                ELSE feeder' = [feeder EXCEPT ![p] = Free]
    /\ UNCHANGED <<time, since, hosted>>

\* set_halts_cache: best effort for a scan; the relay's command fails with it.
StoreHosted(p) ==
    /\ feeder[p].at \in {"share", "publish"}
    /\ \/ hosted' = Stamped(p) /\ GoOn(p, IF feeder[p].at = "share" THEN "judge" ELSE "keep_own")
       \/ /\ UNCHANGED hosted
          /\ IF feeder[p].at = "share" THEN GoOn(p, "judge")
                                       ELSE feeder' = [feeder EXCEPT ![p] = Free]
    /\ UNCHANGED <<time, since, disk>>

\* _exclusion_reason: halt_status_unknown excludes every asset, trading_halt the
\* halted ones.
Admitted(p) == IF feeder[p].known THEN Security \ feeder[p].halts ELSE {}

\* The scan is over.
EndFeed(p) ==
    /\ feeder[p].at = "judge"
    /\ feeder' = [feeder EXCEPT ![p] = Free]
    /\ UNCHANGED <<time, since, hosted, disk>>

---------------------------------------------------------------------------
(* The exchange and the clock.                                             *)

HaltOrResume ==
    /\ \E s \in Security : since' = [since EXCEPT ![s] = IF @ = Trading THEN time ELSE Trading]
    /\ UNCHANGED <<time, hosted, disk, feeder>>

Carrying == {"keep", "share", "judge", "publish", "keep_own"}

Tick ==
    /\ time < MaxTime
    /\ \A p \in Feeder : feeder[p].at \in Carrying => time < feeder[p].got + Latency
    /\ time' = time + 1
    /\ UNCHANGED <<since, hosted, disk, feeder>>

FeedNext ==
    \/ \E p \in Feeder :
          \/ StartFeed(p) \/ ReadHosted(p) \/ ReadDisk(p) \/ FetchLive(p)
          \/ KeepOnDisk(p) \/ StoreHosted(p) \/ EndFeed(p)
    \/ HaltOrResume \/ Tick

FeedSpec == FeedInit /\ [][FeedNext]_feedVars

---------------------------------------------------------------------------
(* Properties.                                                             *)

HaltAnswer == [halts : SUBSET Security, at : Nat, taken : Nat]

FeedTypeOK ==
    /\ time \in Nat
    /\ since \in [Security -> Nat \cup {Trading}]
    /\ hosted \in HaltAnswer \cup {Unset} /\ disk \in HaltAnswer \cup {Unset}
    /\ feeder \in [Feeder -> [at : FeederStep, known : BOOLEAN, halts : SUBSET Security,
                              got : Nat, taken : Nat]]

\* docs/REFACTOR_RULES.md: "Missing, stale, malformed, or conflicting
\* safety-critical data (..., halt status, ...)" rejects.  A symbol that has been
\* halted for longer than the life of a row and twice the time an answer is under
\* way passes no scan, though processes overwrite each other's answers with older
\* ones, and without an answer nothing passes.
HaltedIsExcluded ==
    \A p \in Feeder : feeder[p].at = "judge" =>
        \A s \in Admitted(p) : since[s] # Trading => time - since[s] <= HostedTtl + 2 * Latency

---------------------------------------------------------------------------
(* The inductive invariant behind it.                                      *)

\* Who was not among the halted when an answer was taken was halted later or not
\* at all.
Sound(a) ==
    /\ a.taken <= time
    /\ \A s \in Security \ a.halts : since[s] # Trading => since[s] >= a.taken

\* A stored answer was stored within Latency.
StoredInv ==
    \A a \in {hosted, disk} : a # Unset => Sound(a) /\ a.at <= time /\ a.at - a.taken <= Latency

\* An answer in hand was taken no longer ago than a row lives.
InHandInv ==
    \A p \in Feeder : feeder[p].at \in Carrying =>
        /\ feeder[p].got <= time /\ time - feeder[p].got <= Latency
        /\ feeder[p].known =>
             /\ Sound(feeder[p])
             /\ feeder[p].got - feeder[p].taken <= HostedTtl + Latency
             /\ feeder[p].at # "judge" => feeder[p].taken = feeder[p].got
        /\ feeder[p].at # "judge" => feeder[p].known

FeedInv == FeedTypeOK /\ StoredInv /\ InHandInv
===========================================================================
