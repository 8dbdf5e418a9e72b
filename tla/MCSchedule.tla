----------------------------- MODULE MCSchedule ------------------------------
(***************************************************************************)
(* The components of which something must happen, each by itself under the *)
(* fairness of the schedule: a crash is followed by another run.  A        *)
(* behaviour exercises the component it starts with.                       *)
(***************************************************************************)
EXTENDS PositionBook, Notifications, SchemaMigration

VARIABLE part   \* the component exercised

MCAdditions == [v \in {6, 8} |-> IF v = 6 THEN <<{"a", "b"}, {"c"}>> ELSE <<{"d"}>>]

bookVars == vars

scheduleVars == <<bookVars, noteVars, schemaVars, part>>

ScheduleInit ==
    /\ part \in {"book", "notes", "schema"}
    /\ Init /\ NoteInit /\ SchemaInit
    /\ part # "book" => bought = 0 /\ aboveStop /\ \A p \in Process : pc[p] = "idle"
    /\ part # "schema" => store = Fresh

ScheduleNext ==
    /\ UNCHANGED part
    /\ \/ part = "book" /\ Next /\ UNCHANGED <<noteVars, schemaVars>>
       \/ part = "notes" /\ NoteNext /\ UNCHANGED <<bookVars, schemaVars>>
       \/ part = "schema" /\ SchemaNext /\ UNCHANGED <<bookVars, noteVars>>

\* The fairness of PositionBook, asked of the behaviours that exercise it; where
\* another component is not exercised none of its fair steps is ever enabled.
BookFairness ==
    \A p \in Process :
        /\ SF_vars(part = "book" /\ StartReconcile(p))
        /\ WF_vars(part = "book" /\ Advance(p))
        /\ SF_vars(part = "book" /\ ReadOrders(p))
        /\ SF_vars(part = "book" /\ Emergency(p) /\ CloseWorks)

ScheduleSpec ==
    /\ ScheduleInit /\ [][ScheduleNext]_scheduleVars
    /\ BookFairness /\ NoteFairness /\ SchemaFairness

\* The rows of every component have the types of their columns; in particular no
\* notification is attempted more than MAX_DELIVERY_ATTEMPTS times.
ScheduleTypeOK == TypeOK /\ NoteTypeOK /\ SchemaTypeOK
===========================================================================
