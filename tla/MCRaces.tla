------------------------------ MODULE MCRaces -------------------------------
(***************************************************************************)
(* Two processes at once, at the one position that came of an entry        *)
(* (PositionBook), at the caches of the halts (HaltFeed) or at the entries *)
(* of two days (EntryAdmission): a behaviour exercises the one it starts   *)
(* with.                                                                   *)
(***************************************************************************)
EXTENDS MCPositionBook, HaltFeed

CONSTANTS
    today, carried,   \* the entries of this day and of an earlier one
    NoIntent

ASSUME RaceAssumption == NoIntent \notin {today, carried}

VARIABLES
    scene,   \* the component exercised
    entryAdm, linked, entryTrade, order, sends, entryHalted, kill, lastClean,
    acking, entryCrashes,
    entryPc, job, entrySeen, todo, cur, entryDirty, fog

\* Both entries in one sector, whose budget bears one and a half of them.
Both == {today, carried}

\* By its proofs, so that its theorems can be cited of the instance.
Entries == INSTANCE EntryAdmissionProofs
    WITH Intent <- Both, Carried <- {carried}, DayCap <- 1, WeekCap <- 2, PositionCap <- 2,
         Book <- {Both}, Risk <- [i \in Both |-> 2], Budget <- [b \in {Both} |-> 3],
         MaxCrash <- 0, Operator <- {},
         adm <- entryAdm, trade <- entryTrade, halted <- entryHalted,
         crashes <- entryCrashes, pc <- entryPc, seen <- entrySeen, dirty <- entryDirty

entryVars == <<entryAdm, linked, entryTrade, order, sends, entryHalted, kill, lastClean,
               acking, entryCrashes,
               entryPc, job, entrySeen, todo, cur, entryDirty, fog>>

raceVars == <<vars, entryVars, feedVars, scene>>

RaceInit ==
    /\ scene \in {"entries", "position", "feed"}
    /\ Init /\ Entries!Init /\ FeedInit
    /\ scene # "entries" => entryHalted /\ Entries!TrackedAtStart(carried)
    /\ scene # "position" => bought = 0 /\ aboveStop /\ \A p \in Process : pc[p] = "idle"

RaceNext ==
    /\ UNCHANGED scene
    /\ \/ scene = "entries" /\ Entries!Next /\ UNCHANGED <<vars, feedVars>>
       \/ scene = "position" /\ Next /\ UNCHANGED <<entryVars, feedVars>>
       \/ scene = "feed" /\ FeedNext /\ UNCHANGED <<vars, entryVars>>

RaceSpec == RaceInit /\ [][RaceNext]_raceVars

\* Over an entry of an earlier day, tracked or left with an unknown outcome, two
\* processes at once neither lose an accepted order from the exposure, nor admit
\* more risk than a budget bears, nor send an entry over an unknown outcome.
EntriesAreSafe == Entries!EntriesAreSafe
===========================================================================
