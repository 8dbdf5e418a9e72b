---------------------------- MODULE EntryQuota ----------------------------
(***************************************************************************)
(* What the admission of entries promises, with no database, broker or     *)
(* process: an intent to buy is admitted at most once, and only while the  *)
(* position, daily and weekly quotas have room for it; an admitted entry   *)
(* either becomes a position that is later exited, or dies unfilled and    *)
(* gives its place back.  EntryAdmission implements this specification.    *)
(***************************************************************************)
EXTENDS Integers, FiniteSets

CONSTANTS Intent,        \* the order intents (one per trade proposal)
          Carried,       \* the intents admitted on an earlier day of the week
          DayCap,        \* max_new_positions_day
          WeekCap,       \* max_new_positions_week
          PositionCap    \* max_open_positions

VARIABLE phase           \* what became of each intent

Today == Intent \ Carried

Phase == {"new", "open", "done", "void"}

\* Entries that hold, or may still come to hold, a position.
Held == {i \in Intent : phase[i] = "open"}

\* Entries that used up a place in the daily and weekly quotas.
Taken == {i \in Intent : phase[i] \in {"open", "done"}}

\* The limits of docs/RISK_MODEL.md as they bind the whole account: never more
\* positions than max_open_positions, nor more entries in a day or a week than
\* max_new_positions_day and max_new_positions_week.
WithinQuota == /\ Cardinality(Held) <= PositionCap
               /\ Cardinality(Taken \cap Today) <= DayCap
               /\ Cardinality(Taken) <= WeekCap

Init == /\ phase \in [Intent -> Phase]
        /\ \A i \in Today : phase[i] = "new"
        /\ WithinQuota

\* The intent is admitted: from here on it may reach the broker.
Admit(i) ==
    /\ phase[i] = "new"
    /\ Cardinality(Held) < PositionCap
    /\ Cardinality(Taken \cap Today) < DayCap
    /\ Cardinality(Taken) < WeekCap
    /\ phase' = [phase EXCEPT ![i] = "open"]

\* The position was bought and sold again.
Finish(i) == phase[i] = "open" /\ phase' = [phase EXCEPT ![i] = "done"]

\* The entry order died without a fill.
Void(i) == phase[i] = "open" /\ phase' = [phase EXCEPT ![i] = "void"]

Next == \E i \in Intent : Admit(i) \/ Finish(i) \/ Void(i)

Spec == Init /\ [][Next]_phase
===========================================================================
