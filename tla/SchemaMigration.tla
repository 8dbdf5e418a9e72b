---------------------------- MODULE SchemaMigration ----------------------------
(***************************************************************************)
(* SwingDatabase.initialize: every command creates or upgrades the SQLite  *)
(* file before it does anything else, and several may do so at once.       *)
(*                                                                         *)
(* What a statement commits follows Python's sqlite3: executescript        *)
(* commits whatever is pending and each of its statements by itself; an    *)
(* INSERT opens a transaction, which takes the write lock; an ALTER TABLE  *)
(* joins an open transaction and otherwise commits by itself; SELECT opens *)
(* none.  A writer waits for the lock, for five seconds at most.           *)
(*                                                                         *)
(* The columns of a table stand for themselves, the scripts' CREATE TABLE  *)
(* IF NOT EXISTS statements for one step each (run again, a script adds    *)
(* only what is missing), and the rows of strategy_versions and            *)
(* system_state, INSERT OR IGNORE, for one flag.                           *)
(***************************************************************************)
EXTENDS Integers, Sequences

CONSTANTS
    Starter,      \* processes that run a command
    Additions,    \* a version |-> its tables in order, each the columns it adds
    MaxDeaths     \* bound on the commands that die or give up

Added(v) == UNION {Additions[v][i] : i \in DOMAIN Additions[v]}

AllColumns == Added(6) \cup Added(8)

ASSUME SchemaAssumption ==
    /\ Additions \in [{6, 8} -> Seq(SUBSET AllColumns)]
    /\ "none" \notin Starter
    /\ MaxDeaths \in Nat

VARIABLES
    store,      \* what is committed: tables, columns, versions, seeds
    draft,      \* what the open transaction would make of it
    writer,     \* the process whose transaction is open, or "none"
    starter,    \* what each process is doing
    deaths      \* commands that died or gave up

schemaVars == <<store, draft, writer, starter, deaths>>

SCHEMA_VERSION == 8

\* A new file, and the populated files of earlier releases.
Fresh == [baseline |-> FALSE, journal |-> FALSE, columns |-> {}, versions |-> {}, seeds |-> FALSE]
V5 == [baseline |-> TRUE, journal |-> FALSE, columns |-> {}, versions |-> {5}, seeds |-> TRUE]
V7 == [baseline |-> TRUE, journal |-> TRUE, columns |-> Added(6), versions |-> {5, 6, 7}, seeds |-> TRUE]

Absent == [at |-> "absent", version |-> 6, table |-> 1, todo |-> {}]

SchemaInit ==
    /\ store \in {Fresh, V5, V7} /\ draft = store /\ writer = "none"
    /\ starter = [p \in Starter |-> Absent] /\ deaths = 0

MaxOf(S) == CHOOSE v \in S : \A w \in S : w <= v

\* What a statement of p sees.
Seen(p) == IF writer = p THEN draft ELSE store

CanWrite(p) == writer \in {p, "none"}

\* A statement inside the transaction, which it opens if none is open.
Within(p, new) == /\ CanWrite(p) /\ writer' = p /\ draft' = new /\ UNCHANGED store

\* A statement that joins an open transaction and commits by itself otherwise.
Alone(p, new) == IF writer = p THEN Within(p, new)
                 ELSE /\ writer = "none" /\ store' = new /\ draft' = new /\ UNCHANGED writer

\* A script, after the commit that comes before it.
Script(p, new) == /\ CanWrite(p) /\ store' = new /\ draft' = new /\ writer' = "none"

\* JOURNAL_DDL creates notifications with the column version 8 adds to a file
\* that has the table already.
WithJournal(s) == IF s.journal THEN s
                  ELSE [s EXCEPT !.journal = TRUE, !.columns = @ \cup Added(8)]

Goes(p, at) == starter' = [starter EXCEPT ![p].at = at]

StartCommand(p) ==
    /\ starter[p].at \in {"absent", "failed"}
    /\ starter' = [starter EXCEPT ![p] = [Absent EXCEPT !.at = "baseline"]]
    /\ UNCHANGED <<store, draft, writer, deaths>>

\* executescript(DDL).
RunDdl(p) ==
    /\ starter[p].at = "baseline"
    /\ Script(p, [Seen(p) EXCEPT !.baseline = TRUE])
    /\ Goes(p, "version") /\ UNCHANGED deaths

\* Mutant: version 5 is taken for one that has the columns of version 6.
ReadVersionLate(p) ==
    LET versions == Seen(p).versions
        existing == IF versions = {} THEN 5 ELSE MaxOf(versions)
    IN /\ starter[p].at = "version"
       /\ starter' = [starter EXCEPT ![p].version = IF existing < 5 THEN 6 ELSE 8,
             ![p].at = IF versions = {} THEN "insert5"
                       ELSE IF existing < 8 THEN "table" ELSE "journal"]
       /\ UNCHANGED <<store, draft, writer, deaths>>

\* SELECT MAX(version), and which migrations that leaves to run.
ReadVersion(p) ==
    LET versions == Seen(p).versions
        existing == IF versions = {} THEN 5 ELSE MaxOf(versions)
    IN /\ starter[p].at = "version"
       /\ starter' = [starter EXCEPT ![p].version = IF existing < 6 THEN 6 ELSE 8,
             ![p].at = IF versions = {} THEN "insert5"
                       ELSE IF existing < 8 THEN "table" ELSE "journal"]
       /\ UNCHANGED <<store, draft, writer, deaths>>

\* INSERT of version 5: refused if another starter was faster.
RecordBaseline(p) ==
    /\ starter[p].at = "insert5" /\ CanWrite(p)
    /\ IF 5 \in Seen(p).versions
       THEN Goes(p, "failed") /\ UNCHANGED <<store, draft, writer>>
       ELSE /\ Within(p, [Seen(p) EXCEPT !.versions = @ \cup {5}])
            /\ Goes(p, "table")
    /\ UNCHANGED deaths

\* Mutant: the columns a table has are not looked at.
ReadColumnsBlindly(p) ==
    LET s == starter[p]
    IN /\ s.at = "table" /\ s.table \in DOMAIN Additions[s.version]
       /\ starter' = [starter EXCEPT ![p].at = "alter", ![p].todo = Additions[s.version][s.table]]
       /\ UNCHANGED <<store, draft, writer, deaths>>

\* _table_columns, and the additions that are missing.
ReadColumns(p) ==
    LET s == starter[p]
    IN /\ s.at = "table" /\ s.table \in DOMAIN Additions[s.version]
       /\ starter' = [starter EXCEPT ![p].at = "alter",
                         ![p].todo = Additions[s.version][s.table] \ Seen(p).columns]
       /\ UNCHANGED <<store, draft, writer, deaths>>

\* ALTER TABLE ADD COLUMN: refused if the column is there by now.
AddColumn(p) ==
    /\ starter[p].at = "alter"
    /\ \E c \in starter[p].todo :
         /\ CanWrite(p)
         /\ IF c \in Seen(p).columns
            THEN /\ Goes(p, "failed") /\ UNCHANGED store
                 /\ draft' = store /\ writer' = "none"
            ELSE /\ Alone(p, [Seen(p) EXCEPT !.columns = @ \cup {c}])
                 /\ starter' = [starter EXCEPT ![p].todo = @ \ {c}]
    /\ UNCHANGED deaths

NextTable(p) ==
    /\ starter[p].at = "alter" /\ starter[p].todo = {}
    /\ starter' = [starter EXCEPT ![p].at = "table", ![p].table = @ + 1]
    /\ UNCHANGED <<store, draft, writer, deaths>>

\* _migrate_v6 ends with executescript(JOURNAL_DDL), _migrate_v8 does not.
EndMigration(p) ==
    LET s == starter[p]
    IN /\ s.at = "table" /\ s.table \notin DOMAIN Additions[s.version]
       /\ IF s.version = 6 THEN Script(p, WithJournal(Seen(p)))
          ELSE UNCHANGED <<store, draft, writer>>
       /\ Goes(p, "record") /\ UNCHANGED deaths

\* INSERT OR IGNORE of the version that was migrated to.
RecordVersion(p) ==
    LET s == starter[p]
    IN /\ s.at = "record"
       /\ Within(p, [Seen(p) EXCEPT !.versions = @ \cup {s.version}])
       /\ starter' = [starter EXCEPT ![p].version = 8, ![p].table = 1,
                         ![p].at = IF s.version = 6 THEN "table" ELSE "journal"]
       /\ UNCHANGED deaths

\* executescript(JOURNAL_DDL): commits what came before it.
RunJournalDdl(p) ==
    /\ starter[p].at = "journal"
    /\ Script(p, WithJournal(Seen(p)))
    /\ Goes(p, "seed") /\ UNCHANGED deaths

\* The current version, the strategy version and the halts.
Seed(p) ==
    /\ starter[p].at = "seed"
    /\ Within(p, [Seen(p) EXCEPT !.versions = @ \cup {SCHEMA_VERSION}, !.seeds = TRUE])
    /\ Goes(p, "commit") /\ UNCHANGED deaths

\* connect commits and closes: the command goes to work.
Complete(p) ==
    /\ starter[p].at = "commit"
    /\ store' = draft /\ writer' = "none" /\ UNCHANGED draft
    /\ Goes(p, "ready") /\ UNCHANGED deaths

\* The process dies, or waits for the lock too long: its transaction is undone.
StarterFails(p) ==
    /\ starter[p].at \notin {"absent", "failed", "ready"} /\ deaths < MaxDeaths
    /\ Goes(p, "failed") /\ deaths' = deaths + 1
    /\ IF writer = p THEN draft' = store /\ writer' = "none" /\ UNCHANGED store
       ELSE UNCHANGED <<store, draft, writer>>

Statement(p) ==
    \/ RunDdl(p) \/ ReadVersion(p) \/ RecordBaseline(p) \/ ReadColumns(p) \/ AddColumn(p)
    \/ NextTable(p) \/ EndMigration(p) \/ RecordVersion(p) \/ RunJournalDdl(p) \/ Seed(p)
    \/ Complete(p)

SchemaNext == \E p \in Starter : StartCommand(p) \/ Statement(p) \/ StarterFails(p)

\* Commands are scheduled again after a failure, and a running one goes on.
SchemaFairness ==
    \A p \in Starter :
        /\ WF_schemaVars(starter[p].at = "failed" /\ StartCommand(p))
        /\ WF_schemaVars(Statement(p))

SchemaSpec == SchemaInit /\ [][SchemaNext]_schemaVars /\ SchemaFairness
-----------------------------------------------------------------------------
SchemaTypeOK ==
    /\ {store, draft} \subseteq [baseline : BOOLEAN, journal : BOOLEAN, seeds : BOOLEAN,
                                columns : SUBSET AllColumns, versions : SUBSET (5..8)]
    /\ writer \in Starter \cup {"none"}
    /\ \A p \in Starter : starter[p].version \in {6, 8} /\ starter[p].todo \subseteq AllColumns
    /\ deaths \in 0..MaxDeaths

\* A recorded version vouches for what it and the versions before it add: a
\* later starter that reads it skips those migrations for good.  So no race of
\* two upgrades and no death between two statements, some of which commit by
\* themselves and some with the next script, may record a version ahead of its
\* columns.
VersionsAreBacked ==
    \A v \in store.versions :
        /\ v >= 6 => store.journal /\ Added(6) \subseteq store.columns
        /\ v >= 8 => Added(8) \subseteq store.columns

\* "Forward-only journal/measurement migration; safe on populated v5 DBs"
\* (database.py:768): an upgrade that died between two columns, or that lost
\* the race for one, is finished by a later command, and whoever started one gets a
\* database in the end.
EveryCommandStarts ==
    \A p \in Starter : starter[p].at # "absent" ~> starter[p].at = "ready"
===========================================================================
