---------------------------- MODULE StorageProofs ---------------------------
(***************************************************************************)
(* Proofs about the database and what is queued in it: Notifications, the  *)
(* watchdog that answers failures, and SchemaMigration, starters that      *)
(* migrate one file. For any numbers of notes, attempts, columns, starters *)
(* and deaths. MCSchedule, which puts them beside PositionBook, and        *)
(* MCRaces, which puts that beside EntryAdmission and HaltFeed, implement  *)
(* each of their parts.                                                    *)
(***************************************************************************)
EXTENDS MCSchedule, MCRaces, PositionBookProofs, SequenceTheorems

-----------------------------------------------------------------------------
(* Notifications: the watermark passes a failure only behind its result,   *)
(* since the watchdog takes the oldest failure first and records the       *)
(* result before it moves the watermark.                                   *)

NoteRow == [kind : {"RUN_FAILED", "SUMMARY", "AUTO_FIX_RESULT"}, about : Nat,
         status : {"PENDING", "SENT", "FAILED"}, attempts : Nat]

\* A result of incident i is recorded.
Resolved(i) == \E j \in 1..Len(notes) : notes[j].kind = "AUTO_FIX_RESULT" /\ notes[j].about = i

Failure(i) == i \in 1..Len(notes) /\ notes[i].kind = "RUN_FAILED"

NotesOK ==
    /\ notes \in Seq(NoteRow)
    /\ sending \in {"none", "SENT", "FAILED"}
    /\ watermark \in 0..Len(notes)
    /\ incident \in [id : 0..Len(notes), at : {"none", "result", "watermark"}]

\* Failures below the watermark have their results, and the incident is the first of
\* the others; before the watermark moves there is a result of it too.
WatchdogInv ==
    /\ NotesOK
    /\ \A i : Failure(i) /\ i <= watermark => Resolved(i)
    /\ incident # NoIncident => \A i : Failure(i) /\ watermark < i => incident.id <= i
    /\ incident.at = "watermark" => Resolved(incident.id)

LEMMA NotesDomain ==
    ASSUME NotesOK
    PROVE  Len(notes) \in Nat /\ DOMAIN notes = 1..Len(notes) /\ \A i \in 1..Len(notes) : notes[i] \in NoteRow
BY LenProperties, ElementOfSeq DEF NotesOK

\* Rows are added, and those that are there keep what they say.
NotesKept ==
    /\ notes' \in Seq(NoteRow) /\ Len(notes) <= Len(notes')
    /\ \A i \in 1..Len(notes) : notes'[i].kind = notes[i].kind /\ notes'[i].about = notes[i].about

LEMMA KeptResults ==
    ASSUME NotesOK, NotesKept
    PROVE  /\ Len(notes') \in Nat
           /\ \A i : Resolved(i) => Resolved(i)'
           /\ \A i : Failure(i)' => Failure(i) \/ Len(notes) < i
<1>1. Len(notes) \in Nat /\ Len(notes') \in Nat
    BY NotesDomain, LenProperties DEF NotesKept
<1>2. \A i : Resolved(i) => Resolved(i)'
    BY <1>1 DEF NotesKept, Resolved
<1>3. \A i : Failure(i)' => Failure(i) \/ Len(notes) < i
    BY <1>1 DEF NotesKept, Failure
<1> QED BY <1>1, <1>2, <1>3

\* A step that leaves the watchdog where it is.
LEMMA WatchdogStands ==
    ASSUME WatchdogInv, NotesKept, sending' \in {"none", "SENT", "FAILED"},
           UNCHANGED <<watermark, incident>>
    PROVE  WatchdogInv'
<1>1. /\ Len(notes) \in Nat /\ Len(notes') \in Nat /\ Len(notes) <= Len(notes')
      /\ watermark \in 0..Len(notes) /\ incident.id \in 0..Len(notes)
    BY NotesDomain, KeptResults DEF WatchdogInv, NotesOK, NotesKept
<1>2. NotesOK'
    BY <1>1 DEF WatchdogInv, NotesOK, NotesKept
<1>3. ASSUME NEW i, Failure(i)', i <= watermark PROVE Resolved(i)'
    BY <1>1, <1>3, KeptResults DEF WatchdogInv, Failure
<1>4. ASSUME incident # NoIncident, NEW i, Failure(i)', watermark < i PROVE incident.id <= i
    BY <1>1, <1>4, KeptResults DEF WatchdogInv, Failure
<1>5. incident.at = "watermark" => Resolved(incident.id)'
    BY KeptResults DEF WatchdogInv
<1> QED BY <1>2, <1>3, <1>4, <1>5 DEF WatchdogInv

\* A row is added, or it is there already.
LEMMA RecordedKeeps ==
    ASSUME NotesOK, NEW kind \in {"RUN_FAILED", "SUMMARY", "AUTO_FIX_RESULT"}, NEW about \in Nat,
           notes' = Recorded(kind, about)
    PROVE  NotesKept /\ (kind = "AUTO_FIX_RESULT" => Resolved(about)')
<1>1. notes \in Seq(NoteRow) /\ Len(notes) \in Nat /\ DOMAIN notes = 1..Len(notes)
    BY NotesDomain DEF NotesOK
<1>2. NewNote(kind, about) \in NoteRow /\ NewNote(kind, about).kind = kind /\ NewNote(kind, about).about = about
    BY DEF NewNote, NoteRow
<1>3. CASE notes' = notes /\ (kind = "AUTO_FIX_RESULT" => Resolved(about))
    BY <1>1, <1>3 DEF NotesKept, Resolved
<1>4. CASE notes' = Append(notes, NewNote(kind, about))
    <2>1. /\ notes' \in Seq(NoteRow) /\ Len(notes') = Len(notes) + 1
          /\ \A i \in 1..Len(notes) : notes'[i] = notes[i]
          /\ notes'[Len(notes) + 1] = NewNote(kind, about)
        BY <1>1, <1>2, <1>4, AppendProperties
    <2> QED BY <1>1, <1>2, <2>1 DEF NotesKept, Resolved
<1>5. \/ notes' = notes /\ Resolved(about)
      \/ notes' = Append(notes, NewNote(kind, about))
    BY <1>1 DEF Recorded, Resolved
<1> QED BY <1>3, <1>4, <1>5

LEMMA EmitStep ==
    ASSUME WatchdogInv, Emit
    PROVE  WatchdogInv'
<1>1. PICK kind \in {"RUN_FAILED", "SUMMARY"} : notes' = Recorded(kind, 0)
    BY DEF Emit
<1>2. NotesKept
    BY <1>1, RecordedKeeps DEF WatchdogInv
<1> QED BY <1>2, WatchdogStands DEF Emit, WatchdogInv, NotesOK

\* The relay changes what became of a row, never what it says.
LEMMA MarkStep ==
    ASSUME WatchdogInv, Mark
    PROVE  WatchdogInv'
<1>1. PICK h \in queue : notes' = [notes EXCEPT ![h].status = sending, ![h].attempts = @ + 1]
    BY DEF Mark
<1>4. sending \in {"SENT", "FAILED"} /\ sending' = "none" /\ UNCHANGED <<watermark, incident>>
    BY DEF Mark, WatchdogInv, NotesOK
<1> DEFINE m == [notes[h] EXCEPT !.status = sending]
           n == [m EXCEPT !.attempts = m.attempts + 1]
<1>2. notes \in Seq(NoteRow) /\ Len(notes) \in Nat /\ DOMAIN notes = 1..Len(notes)
    BY NotesDomain DEF WatchdogInv, NotesOK
<1>3. CASE h \in 1..Len(notes)
    <2>1. notes' = [notes EXCEPT ![h] = n]
        BY <1>1, <1>2, <1>3
    <2>2. notes[h] \in NoteRow
        BY <1>3, NotesDomain DEF WatchdogInv
    <2>3. m \in NoteRow /\ m.kind = notes[h].kind /\ m.about = notes[h].about
        BY <1>4, <2>2 DEF NoteRow
    <2> HIDE DEF m
    <2>4. n \in NoteRow /\ n.kind = notes[h].kind /\ n.about = notes[h].about
        BY <2>3 DEF NoteRow
    <2> HIDE DEF n
    <2>5. /\ notes' \in Seq(NoteRow) /\ Len(notes') = Len(notes)
          /\ \A i \in 1..Len(notes) : notes'[i] = IF i = h THEN n ELSE notes[i]
        BY <1>2, <1>3, <2>1, <2>4, ExceptSeq
    <2>6. NotesKept
        BY <1>2, <2>4, <2>5 DEF NotesKept
    <2> QED BY <1>4, <2>6, WatchdogStands
<1>5. CASE h \notin 1..Len(notes)
    <2>1. notes' = notes
        BY <1>1, <1>2, <1>5
    <2>2. NotesKept
        BY <1>2, <2>1 DEF NotesKept
    <2> QED BY <1>4, <2>2, WatchdogStands
<1> QED BY <1>3, <1>5

LEMMA RelayStep ==
    ASSUME WatchdogInv, StartDrain \/ Send \/ RelayDies
    PROVE  WatchdogInv'
<1>1. /\ UNCHANGED <<notes, watermark, incident>>
      /\ sending' \in {"none", "SENT", "FAILED"}
    BY DEF StartDrain, Send, RelayDies, WatchdogInv, NotesOK
<1>2. NotesKept
    BY <1>1, NotesDomain DEF WatchdogInv, NotesOK, NotesKept
<1> QED BY <1>1, <1>2, WatchdogStands

LEMMA TakeIncidentStep ==
    ASSUME WatchdogInv, TakeIncident
    PROVE  WatchdogInv'
<1>1. PICK i \in Unresolved :
          /\ \A j \in Unresolved : i <= j
          /\ incident' = [id |-> i, at |-> "result"]
    BY DEF TakeIncident
<1>2. UNCHANGED <<notes, sending, watermark>>
    BY DEF TakeIncident
<1>3. Len(notes) \in Nat /\ DOMAIN notes = 1..Len(notes)
    BY NotesDomain DEF WatchdogInv
<1>4. \A j : j \in Unresolved <=> Failure(j) /\ watermark < j
    BY <1>3 DEF WatchdogInv, NotesOK, Unresolved, Failures, Failure
<1>5. i \in 1..Len(notes)
    BY <1>3 DEF Unresolved, Failures
<1>6. NotesOK'
    BY <1>1, <1>2, <1>3, <1>5 DEF WatchdogInv, NotesOK
<1> QED BY <1>1, <1>2, <1>4, <1>6 DEF WatchdogInv, Failure, Resolved

LEMMA EmitResultStep ==
    ASSUME WatchdogInv, EmitResult
    PROVE  WatchdogInv'
<1>1. /\ incident.at = "result" /\ notes' = Recorded("AUTO_FIX_RESULT", incident.id)
      /\ incident' = [incident EXCEPT !.at = "watermark"]
      /\ UNCHANGED <<sending, watermark>>
    BY DEF EmitResult
<1>2. incident.id \in Nat /\ incident.id \in 0..Len(notes) /\ watermark \in 0..Len(notes)
      /\ Len(notes) \in Nat
    BY NotesDomain DEF WatchdogInv, NotesOK
<1>3. NotesKept /\ Resolved(incident.id)'
    BY <1>1, <1>2, RecordedKeeps DEF WatchdogInv
<1>4. incident' = [id |-> incident.id, at |-> "watermark"]
    BY <1>1 DEF WatchdogInv, NotesOK
<1>5. incident # NoIncident
    BY <1>1 DEF NoIncident
<1>6. Len(notes') \in Nat /\ Len(notes) <= Len(notes')
    BY <1>3, KeptResults DEF WatchdogInv, NotesKept
<1>7. NotesOK'
    BY <1>1, <1>2, <1>3, <1>4, <1>6 DEF WatchdogInv, NotesOK, NotesKept
<1>8. ASSUME NEW i, Failure(i)', i <= watermark PROVE Resolved(i)'
    BY <1>2, <1>3, <1>6, <1>8, KeptResults DEF WatchdogInv, Failure
<1>9. ASSUME NEW i, Failure(i)', watermark < i PROVE incident.id <= i
    BY <1>2, <1>3, <1>5, <1>6, <1>9, KeptResults DEF WatchdogInv, Failure
<1>10. \A i : Resolved(i)' <=> \E j \in 1..Len(notes') : notes'[j].kind = "AUTO_FIX_RESULT" /\ notes'[j].about = i
    BY DEF Resolved
<1> QED BY <1>1, <1>3, <1>4, <1>7, <1>8, <1>9, <1>10 DEF WatchdogInv, Resolved

LEMMA MoveWatermarkStep ==
    ASSUME WatchdogInv, MoveWatermark
    PROVE  WatchdogInv'
<1>1. /\ incident.at = "watermark" /\ watermark' = incident.id /\ incident' = NoIncident
      /\ UNCHANGED <<notes, sending>>
    BY DEF MoveWatermark
<1>2. Len(notes) \in Nat /\ incident.id \in 0..Len(notes) /\ watermark \in 0..Len(notes)
      /\ incident # NoIncident
    BY <1>1, NotesDomain DEF WatchdogInv, NotesOK, NoIncident
<1>3. NotesOK'
    BY <1>1, <1>2 DEF WatchdogInv, NotesOK, NoIncident
<1>4. ASSUME NEW i, Failure(i), i <= incident.id PROVE Resolved(i)
    <2>1. i \in Nat
        BY <1>2, <1>4 DEF Failure
    <2>2. CASE i <= watermark
        BY <1>4, <2>2 DEF WatchdogInv
    <2>3. CASE watermark < i
        <3>1. i = incident.id
            BY <1>2, <1>4, <2>1, <2>3 DEF WatchdogInv
        <3> QED BY <1>1, <3>1 DEF WatchdogInv
    <2> QED BY <1>2, <2>1, <2>2, <2>3
<1> QED BY <1>1, <1>3, <1>4 DEF WatchdogInv, NoIncident, Failure, Resolved

LEMMA WatchdogDiesStep ==
    ASSUME WatchdogInv, WatchdogDies
    PROVE  WatchdogInv'
<1>1. incident' = NoIncident /\ UNCHANGED <<notes, sending, watermark>>
    BY DEF WatchdogDies
<1>2. Len(notes) \in Nat
    BY NotesDomain DEF WatchdogInv
<1>3. NotesOK'
    BY <1>1, <1>2 DEF WatchdogInv, NotesOK, NoIncident
<1> QED BY <1>1, <1>3 DEF WatchdogInv, NoIncident, Failure, Resolved

LEMMA NoteStep ==
    ASSUME WatchdogInv, [NoteNext]_noteVars
    PROVE  WatchdogInv'
<1>1. CASE UNCHANGED noteVars
    BY <1>1 DEF noteVars, WatchdogInv, NotesOK, Failure, Resolved
<1> QED BY <1>1, EmitStep, RelayStep, MarkStep, TakeIncidentStep, EmitResultStep, MoveWatermarkStep,
           WatchdogDiesStep DEF NoteNext

LEMMA NoteStart ==
    ASSUME NoteInit
    PROVE  WatchdogInv
<1>1. notes \in Seq(NoteRow) /\ Len(notes) = 0
    BY EmptySeq DEF NoteInit
<1> QED BY <1>1 DEF NoteInit, WatchdogInv, NotesOK, NoIncident, Failure

\* Every failed run below the watermark has its result, whenever the watchdog or the
\* relay dies and however many commands fail meanwhile.
THEOREM IncidentsResolved == NoteSpec => []NoIncidentForgotten
<1>1. WatchdogInv => NoIncidentForgotten
    <2> SUFFICES ASSUME WatchdogInv, NEW i \in Failures \ Unresolved
                 PROVE  \E j \in DOMAIN notes : notes[j].kind = "AUTO_FIX_RESULT" /\ notes[j].about = i
        BY DEF NoIncidentForgotten
    <2>1. Len(notes) \in Nat /\ DOMAIN notes = 1..Len(notes) /\ watermark \in Nat
        BY NotesDomain DEF WatchdogInv, NotesOK
    <2>2. Failure(i) /\ i <= watermark
        BY <2>1 DEF Failures, Unresolved, Failure
    <2>3. Resolved(i)
        BY <2>2 DEF WatchdogInv
    <2> QED BY <2>1, <2>3 DEF Resolved
<1> QED BY <1>1, NoteStart, NoteStep, PTL DEF NoteSpec

-----------------------------------------------------------------------------
(* SchemaMigration: a version is recorded behind the columns it stands     *)
(* for.                                                                    *)
(*                                                                         *)
(* A migration may die between two of its statements or meet those of      *)
(* another; what makes it safe is that a table's columns are looked up     *)
(* again, and a column that is there is never dropped.                     *)

File == [baseline : BOOLEAN, journal : BOOLEAN, seeds : BOOLEAN,
         columns : SUBSET AllColumns, versions : SUBSET (5..8)]

Progress == [at : {"absent", "failed", "ready", "baseline", "version", "insert5", "table", "alter", "record",
                   "journal", "seed", "commit"},
             version : {6, 8}, table : Nat \ {0}, todo : SUBSET AllColumns]

\* The versions of file f have their columns.
VersionsBacked(f) ==
    \A v \in f.versions :
        /\ v >= 6 => f.journal /\ Added(6) \subseteq f.columns
        /\ v >= 8 => Added(8) \subseteq f.columns

\* File f has what file g has.
Includes(f, g) == g.columns \subseteq f.columns /\ (g.journal => f.journal)

\* The tables that starter s is done with have their columns in file f.
TablesDone(s, f) ==
    \A i \in DOMAIN Additions[s.version] : i < s.table => Additions[s.version][i] \subseteq f.columns

\* What starter s has seen to, file f has.
SeenTo(s, f) ==
    /\ s.at \in {"baseline", "version", "insert5"} => s.table = 1
    /\ s.at = "insert5" => s.version = 6
    /\ s.at \in {"table", "alter", "record"} /\ s.version = 8 => f.journal /\ Added(6) \subseteq f.columns
    /\ s.at \in {"table", "alter"} => TablesDone(s, f)
    /\ s.at = "alter" => /\ s.table \in DOMAIN Additions[s.version]
                         /\ Additions[s.version][s.table] \subseteq f.columns \cup s.todo
    /\ s.at = "record" => f.journal /\ Added(s.version) \subseteq f.columns
    /\ s.at \in {"journal", "seed"} => f.journal /\ AllColumns \subseteq f.columns

\* A transaction adds to what is committed.
FilesOK ==
    /\ store \in File /\ draft \in File
    /\ writer \in Starter \cup {"none"}
    /\ VersionsBacked(store) /\ VersionsBacked(draft)
    /\ Includes(draft, store)
    /\ writer = "none" => draft = store

SchemaInv ==
    /\ FilesOK
    /\ starter \in [Starter -> Progress]
    /\ deaths \in 0..MaxDeaths
    /\ \A p \in Starter :
          /\ SeenTo(starter[p], Seen(p))
          /\ starter[p].at = "commit" => writer = p

LEMMA SchemaConstants ==
    /\ "none" \notin Starter /\ MaxDeaths \in Nat
    /\ \A v \in {6, 8} : /\ Len(Additions[v]) \in Nat
                         /\ DOMAIN Additions[v] = 1..Len(Additions[v])
                         /\ \A i \in 1..Len(Additions[v]) : Additions[v][i] \subseteq AllColumns
<1>1. "none" \notin Starter /\ MaxDeaths \in Nat /\ Additions \in [{6, 8} -> Seq(SUBSET AllColumns)]
    BY SchemaAssumption DEF SchemaAssumption
<1>2. \A v \in {6, 8} : Additions[v] \in Seq(SUBSET AllColumns)
    BY <1>1
<1>3. \A v \in {6, 8} : /\ Len(Additions[v]) \in Nat
                        /\ DOMAIN Additions[v] = 1..Len(Additions[v])
                        /\ \A i \in 1..Len(Additions[v]) : Additions[v][i] \in SUBSET AllColumns
    BY <1>2, LenProperties, ElementOfSeq
<1> QED BY <1>1, <1>3

LEMMA AddedTo ==
    /\ Added(6) \subseteq AllColumns /\ Added(8) \subseteq AllColumns
    /\ \A c : AllColumns \subseteq c <=> Added(6) \subseteq c /\ Added(8) \subseteq c
BY DEF AllColumns

\* The columns that all tables add are those of the version.
LEMMA AllTables ==
    ASSUME NEW v \in {6, 8}, NEW c, \A i \in DOMAIN Additions[v] : Additions[v][i] \subseteq c
    PROVE  Added(v) \subseteq c
BY DEF Added

\* What a starter has seen to stays so as a file grows.
LEMMA SeenToGrows ==
    ASSUME NEW s, NEW f, NEW g, SeenTo(s, g), Includes(f, g)
    PROVE  SeenTo(s, f)
BY DEF SeenTo, Includes, TablesDone

LEMMA SeenType ==
    ASSUME SchemaInv, NEW p \in Starter
    PROVE  /\ Seen(p) \in File /\ VersionsBacked(Seen(p))
           /\ SeenTo(starter[p], Seen(p)) /\ starter[p] \in Progress
BY DEF SchemaInv, FilesOK, Seen

---------------------------------------------------------------------------

\* The other starters see at least what they saw, and keep their transactions.
OthersKeep(p) ==
    \A q \in Starter \ {p} : Includes(Seen(q)', Seen(q)) /\ (writer = q => writer' = q)

\* What a statement writes.
LEMMA Wrote ==
    ASSUME SchemaInv, NEW p \in Starter, NEW new \in File, VersionsBacked(new), Includes(new, Seen(p)),
           Within(p, new) \/ Alone(p, new) \/ Script(p, new)
    PROVE  FilesOK' /\ Seen(p)' = new /\ OthersKeep(p)
<1>1. p # "none" /\ \A q \in Starter : q # "none"
    BY SchemaConstants
<1>2. CanWrite(p)
    BY DEF Within, Alone, Script, CanWrite
<1>3. Seen(p) = draft /\ Includes(draft, store) /\ Includes(new, store)
    BY <1>1, <1>2 DEF SchemaInv, FilesOK, Seen, CanWrite, Includes
<1>4. CASE Within(p, new)
    <2>1. writer' = p /\ draft' = new /\ store' = store
        BY <1>4 DEF Within
    <2>2. FilesOK' /\ Seen(p)' = new
        BY <1>1, <1>3, <2>1 DEF SchemaInv, FilesOK, Seen, Includes, VersionsBacked
    <2>3. OthersKeep(p)
        BY <1>1, <1>2, <2>1 DEF OthersKeep, Seen, CanWrite, Includes
    <2> QED BY <2>2, <2>3
<1>5. CASE writer' = "none" /\ draft' = new /\ store' = new
    <2>1. FilesOK' /\ Seen(p)' = new
        BY <1>1, <1>5 DEF SchemaInv, FilesOK, Seen, Includes, VersionsBacked
    <2>2. OthersKeep(p)
        BY <1>1, <1>2, <1>3, <1>5 DEF OthersKeep, Seen, CanWrite, Includes
    <2> QED BY <2>1, <2>2
<1> QED BY <1>4, <1>5 DEF Alone, Script

LEMMA StarterStep ==
    ASSUME SchemaInv, NEW p \in Starter, FilesOK', OthersKeep(p), deaths' \in 0..MaxDeaths,
           NEW s \in Progress, starter' = [starter EXCEPT ![p] = s],
           SeenTo(s, Seen(p)'), s.at = "commit" => writer' = p
    PROVE  SchemaInv'
<1>1. starter' \in [Starter -> Progress]
    BY DEF SchemaInv
<1>2. ASSUME NEW q \in Starter
      PROVE  SeenTo(starter'[q], Seen(q)') /\ (starter'[q].at = "commit" => writer' = q)
    <2>1. CASE q = p
        <3>1. starter'[q] = s
            BY <2>1 DEF SchemaInv
        <3> QED BY <2>1, <3>1
    <2>2. CASE q # p
        <3>1. starter'[q] = starter[q] /\ SeenTo(starter[q], Seen(q))
            BY <2>2 DEF SchemaInv
        <3>2. SeenTo(starter[q], Seen(q)')
            BY <2>2, <3>1, SeenToGrows DEF OthersKeep
        <3> QED BY <2>2, <3>1, <3>2 DEF SchemaInv, OthersKeep
    <2> QED BY <2>1, <2>2
<1> QED BY <1>1, <1>2 DEF SchemaInv, SeenTo, TablesDone

\* A starter that writes nothing.
LEMMA FilesStand ==
    ASSUME SchemaInv, NEW p \in Starter, UNCHANGED <<store, draft, writer>>
    PROVE  FilesOK' /\ OthersKeep(p) /\ Seen(p)' = Seen(p)
BY DEF SchemaInv, FilesOK, OthersKeep, Seen, Includes, VersionsBacked

\* A starter that fails or waits has seen to nothing.
LEMMA SeenToNothing ==
    ASSUME NEW s \in Progress, NEW f, s.at \in {"absent", "failed", "ready", "commit"}
    PROVE  SeenTo(s, f)
BY DEF SeenTo

LEMMA StartCommandStep ==
    ASSUME SchemaInv, NEW p \in Starter, StartCommand(p)
    PROVE  SchemaInv'
<1> DEFINE s == [Absent EXCEPT !.at = "baseline"]
<1>1. starter' = [starter EXCEPT ![p] = s] /\ UNCHANGED <<store, draft, writer, deaths>>
    BY DEF StartCommand
<1>2. s \in Progress /\ s.at = "baseline" /\ s.table = 1
    BY DEF Progress, Absent
<1> HIDE DEF s
<1>3. SeenTo(s, Seen(p)')
    BY <1>2 DEF SeenTo
<1> QED BY <1>1, <1>2, <1>3, FilesStand, StarterStep DEF SchemaInv

LEMMA RunDdlStep ==
    ASSUME SchemaInv, NEW p \in Starter, RunDdl(p)
    PROVE  SchemaInv'
<1> DEFINE new == [Seen(p) EXCEPT !.baseline = TRUE]
           s == [starter[p] EXCEPT !.at = "version"]
<1>1. Script(p, new) /\ starter' = [starter EXCEPT ![p] = s] /\ deaths' = deaths
      /\ starter[p].at = "baseline"
    BY DEF RunDdl, Goes
<1>2. new \in File /\ VersionsBacked(new) /\ Includes(new, Seen(p))
    BY SeenType DEF File, VersionsBacked, Includes
<1> HIDE DEF new
<1>3. FilesOK' /\ OthersKeep(p)
    BY <1>1, <1>2, Wrote
<1>4. s \in Progress /\ s.at = "version" /\ s.table = 1
    BY <1>1, SeenType DEF Progress, SeenTo
<1> HIDE DEF s
<1>5. SeenTo(s, Seen(p)')
    BY <1>4 DEF SeenTo
<1> QED BY <1>1, <1>3, <1>4, <1>5, StarterStep DEF SchemaInv

LEMMA Highest ==
    ASSUME NEW versions \in SUBSET (5..8), versions # {}
    PROVE  MaxOf(versions) \in versions
<1>1. \E v \in versions : \A w \in versions : w <= v
    <2>1. CASE 8 \in versions
        BY <2>1
    <2>2. CASE 8 \notin versions /\ 7 \in versions
        BY <2>2
    <2>3. CASE 8 \notin versions /\ 7 \notin versions /\ 6 \in versions
        BY <2>3
    <2>4. CASE 8 \notin versions /\ 7 \notin versions /\ 6 \notin versions
        <3>1. \A v \in versions : v = 5
            BY <2>4
        <3>2. PICK v \in versions : TRUE
            OBVIOUS
        <3>3. v = 5 /\ \A w \in versions : w <= v
            BY <3>1, <3>2
        <3> QED BY <3>2, <3>3
    <2> QED BY <2>1, <2>2, <2>3, <2>4
<1> QED BY <1>1 DEF MaxOf

\* The version that is read vouches for the migrations that are skipped.
LEMMA ReadVersionStep ==
    ASSUME SchemaInv, NEW p \in Starter, ReadVersion(p)
    PROVE  SchemaInv'
<1> DEFINE f == Seen(p)
           existing == IF f.versions = {} THEN 5 ELSE MaxOf(f.versions)
           v == IF existing < 6 THEN 6 ELSE 8
           at == IF f.versions = {} THEN "insert5" ELSE IF existing < 8 THEN "table" ELSE "journal"
           s == [[starter[p] EXCEPT !.version = v] EXCEPT !.at = at]
<1>1. /\ starter[p].at = "version" /\ UNCHANGED <<store, draft, writer, deaths>>
      /\ starter' = [starter EXCEPT ![p].version = v, ![p].at = at]
    BY DEF ReadVersion
<1>2. f \in File /\ VersionsBacked(f) /\ starter[p] \in Progress /\ starter[p].table = 1
    BY <1>1, SeenType DEF SeenTo
<1>3. starter' = [starter EXCEPT ![p] = s]
    BY <1>1 DEF SchemaInv
<1>4. /\ existing \in 5..8
      /\ f.versions # {} => existing \in f.versions
      /\ f.versions = {} => existing = 5
    BY <1>2, Highest DEF File
<1> HIDE DEF existing
<1>5. /\ v \in {6, 8} /\ at \in {"insert5", "table", "journal"}
      /\ at = "insert5" => v = 6
      /\ v = 8 => f.journal /\ Added(6) \subseteq f.columns
      /\ at = "journal" => f.journal /\ AllColumns \subseteq f.columns
    BY <1>2, <1>4, AddedTo DEF VersionsBacked
<1> HIDE DEF v, at
<1>6. s \in Progress /\ s.at = at /\ s.version = v /\ s.table = 1
    BY <1>2, <1>5 DEF Progress
<1> HIDE DEF s
<1>7. TablesDone(s, f)
    <2>1. DOMAIN Additions[v] \subseteq Nat \ {0}
        BY <1>5, SchemaConstants
    <2> QED BY <1>6, <2>1 DEF TablesDone
<1>8. SeenTo(s, f)
    BY <1>5, <1>6, <1>7 DEF SeenTo
<1>9. SeenTo(s, Seen(p)')
    BY <1>1, <1>8, FilesStand
<1> HIDE DEF f
<1> QED BY <1>1, <1>3, <1>5, <1>6, <1>9, FilesStand, StarterStep DEF SchemaInv

LEMMA RecordBaselineStep ==
    ASSUME SchemaInv, NEW p \in Starter, RecordBaseline(p)
    PROVE  SchemaInv'
<1> DEFINE f == Seen(p)
<1>1. starter[p].at = "insert5" /\ deaths' = deaths /\ deaths' \in 0..MaxDeaths
    BY DEF RecordBaseline, SchemaInv
<1>2. f \in File /\ VersionsBacked(f) /\ starter[p] \in Progress /\ SeenTo(starter[p], f)
    BY SeenType
<1>3. CASE Goes(p, "failed") /\ UNCHANGED <<store, draft, writer>>
    <2> DEFINE s == [starter[p] EXCEPT !.at = "failed"]
    <2>1. s \in Progress /\ s.at = "failed" /\ starter' = [starter EXCEPT ![p] = s]
        BY <1>2, <1>3 DEF Goes, Progress
    <2> HIDE DEF s
    <2>2. SeenTo(s, Seen(p)')
        BY <2>1, SeenToNothing
    <2> QED BY <1>1, <1>3, <2>1, <2>2, FilesStand, StarterStep
<1>4. CASE Within(p, [f EXCEPT !.versions = @ \cup {5}]) /\ Goes(p, "table")
    <2> DEFINE new == [f EXCEPT !.versions = @ \cup {5}]
               s == [starter[p] EXCEPT !.at = "table"]
    <2>1. new \in File /\ VersionsBacked(new) /\ Includes(new, f)
        BY <1>2 DEF File, VersionsBacked, Includes
    <2> HIDE DEF new
    <2>2. FilesOK' /\ Seen(p)' = new /\ OthersKeep(p)
        BY <1>4, <2>1, Wrote DEF new
    <2>3. /\ s \in Progress /\ s.at = "table" /\ s.version = 6 /\ s.table = 1
          /\ starter' = [starter EXCEPT ![p] = s]
        BY <1>1, <1>2, <1>4 DEF Goes, Progress, SeenTo
    <2> HIDE DEF s
    <2>4. TablesDone(s, new)
        BY <2>3, SchemaConstants DEF TablesDone
    <2>5. SeenTo(s, Seen(p)')
        BY <2>2, <2>3, <2>4 DEF SeenTo
    <2> QED BY <1>1, <2>2, <2>3, <2>5, StarterStep
<1> QED BY <1>3, <1>4 DEF RecordBaseline

LEMMA ReadColumnsStep ==
    ASSUME SchemaInv, NEW p \in Starter, ReadColumns(p)
    PROVE  SchemaInv'
<1> DEFINE f == Seen(p)
           o == starter[p]
           missing == Additions[o.version][o.table] \ f.columns
           s == [[o EXCEPT !.at = "alter"] EXCEPT !.todo = missing]
<1>1. /\ o.at = "table" /\ o.table \in DOMAIN Additions[o.version]
      /\ starter' = [starter EXCEPT ![p].at = "alter", ![p].todo = missing]
      /\ UNCHANGED <<store, draft, writer, deaths>>
    BY DEF ReadColumns
<1>2. f \in File /\ o \in Progress /\ SeenTo(o, f)
    BY SeenType
<1>3. missing \subseteq AllColumns
    BY <1>1, <1>2, SchemaConstants DEF Progress
<1>4. starter' = [starter EXCEPT ![p] = s]
    BY <1>1 DEF SchemaInv
<1>5. /\ s \in Progress /\ s.at = "alter" /\ s.version = o.version /\ s.table = o.table
      /\ s.todo = missing
    BY <1>2, <1>3 DEF Progress
<1>6. Additions[o.version][o.table] \subseteq f.columns \cup missing
    OBVIOUS
<1> HIDE DEF s, missing
<1>7. SeenTo(s, f)
    BY <1>1, <1>2, <1>5, <1>6 DEF SeenTo, TablesDone
<1>8. SeenTo(s, Seen(p)')
    BY <1>1, <1>7, FilesStand
<1> HIDE DEF f, o
<1> QED BY <1>1, <1>4, <1>5, <1>8, FilesStand, StarterStep DEF SchemaInv

LEMMA AddColumnStep ==
    ASSUME SchemaInv, NEW p \in Starter, AddColumn(p)
    PROVE  SchemaInv'
<1> DEFINE f == Seen(p)
           o == starter[p]
<1>1. /\ o.at = "alter" /\ deaths' = deaths /\ deaths' \in 0..MaxDeaths
    BY DEF AddColumn, SchemaInv
<1>2. /\ f \in File /\ VersionsBacked(f) /\ o \in Progress /\ SeenTo(o, f)
    BY SeenType
<1>3. PICK c \in o.todo :
          /\ CanWrite(p)
          /\ \/ /\ Goes(p, "failed") /\ UNCHANGED store
                /\ draft' = store /\ writer' = "none"
             \/ /\ Alone(p, [f EXCEPT !.columns = @ \cup {c}])
                /\ starter' = [starter EXCEPT ![p].todo = @ \ {c}]
    BY DEF AddColumn
<1>4. CASE Goes(p, "failed") /\ UNCHANGED store /\ draft' = store /\ writer' = "none"
    <2> DEFINE s == [o EXCEPT !.at = "failed"]
    <2>1. s \in Progress /\ s.at = "failed" /\ starter' = [starter EXCEPT ![p] = s]
        BY <1>2, <1>4 DEF Goes, Progress
    <2>2. FilesOK'
        BY <1>4 DEF SchemaInv, FilesOK, Includes, VersionsBacked
    <2>3. OthersKeep(p)
        BY <1>3, <1>4, SchemaConstants DEF OthersKeep, Seen, CanWrite, Includes
    <2> HIDE DEF s
    <2>4. SeenTo(s, Seen(p)')
        BY <2>1, SeenToNothing
    <2> QED BY <1>1, <2>1, <2>2, <2>3, <2>4, StarterStep
<1>5. CASE /\ Alone(p, [f EXCEPT !.columns = @ \cup {c}])
           /\ starter' = [starter EXCEPT ![p].todo = @ \ {c}]
    <2> DEFINE new == [f EXCEPT !.columns = @ \cup {c}]
               s == [o EXCEPT !.todo = @ \ {c}]
    <2>1. c \in AllColumns
        BY <1>2 DEF Progress
    <2>2. new \in File /\ VersionsBacked(new) /\ Includes(new, f) /\ new.columns = f.columns \cup {c}
        BY <1>2, <2>1 DEF File, VersionsBacked, Includes
    <2> HIDE DEF new
    <2>3. FilesOK' /\ Seen(p)' = new /\ OthersKeep(p)
        BY <1>5, <2>2, Wrote DEF new
    <2>4. starter' = [starter EXCEPT ![p] = s]
        BY <1>5 DEF SchemaInv
    <2>5. /\ s \in Progress /\ s.at = "alter" /\ s.version = o.version /\ s.table = o.table
          /\ s.todo = o.todo \ {c}
        BY <1>1, <1>2 DEF Progress
    <2> HIDE DEF s
    <2>6. SeenTo(o, new)
        BY <1>2, <2>2, SeenToGrows
    <2>7. Additions[o.version][o.table] \subseteq new.columns \cup (o.todo \ {c})
        BY <1>1, <2>2, <2>6 DEF SeenTo
    <2>8. SeenTo(s, new)
        BY <1>1, <2>5, <2>6, <2>7 DEF SeenTo, TablesDone
    <2> QED BY <1>1, <2>3, <2>4, <2>5, <2>8, StarterStep
<1> QED BY <1>3, <1>4, <1>5

LEMMA NextTableStep ==
    ASSUME SchemaInv, NEW p \in Starter, NextTable(p)
    PROVE  SchemaInv'
<1> DEFINE f == Seen(p)
           o == starter[p]
           s == [[o EXCEPT !.at = "table"] EXCEPT !.table = @ + 1]
<1>1. /\ o.at = "alter" /\ o.todo = {}
      /\ starter' = [starter EXCEPT ![p].at = "table", ![p].table = @ + 1]
      /\ UNCHANGED <<store, draft, writer, deaths>>
    BY DEF NextTable
<1>2. f \in File /\ o \in Progress /\ SeenTo(o, f)
    BY SeenType
<1>3. starter' = [starter EXCEPT ![p] = s]
    BY <1>1 DEF SchemaInv
<1>4. /\ s \in Progress /\ s.at = "table" /\ s.version = o.version /\ s.table = o.table + 1
      /\ o.table \in Nat
    <2> DEFINE m == [o EXCEPT !.at = "table"]
    <2>1. m \in Progress /\ m.at = "table" /\ m.version = o.version /\ m.table = o.table
        BY <1>2 DEF Progress
    <2>2. s = [m EXCEPT !.table = m.table + 1]
        OBVIOUS
    <2> HIDE DEF s, m
    <2> QED BY <2>1, <2>2 DEF Progress
<1> HIDE DEF s
<1>5. TablesDone(s, f)
    <2> SUFFICES ASSUME NEW i \in DOMAIN Additions[o.version], i < o.table + 1
                 PROVE  Additions[o.version][i] \subseteq f.columns
        BY <1>4 DEF TablesDone
    <2>1. i \in Nat
        BY <1>2, SchemaConstants DEF Progress
    <2>2. CASE i < o.table
        BY <1>1, <1>2, <2>2 DEF SeenTo, TablesDone
    <2>3. CASE i = o.table
        BY <1>1, <1>2, <2>3 DEF SeenTo
    <2> QED BY <1>4, <2>1, <2>2, <2>3
<1>6. SeenTo(s, f)
    BY <1>1, <1>2, <1>4, <1>5 DEF SeenTo
<1>7. SeenTo(s, Seen(p)')
    BY <1>1, <1>6, FilesStand
<1> HIDE DEF f, o
<1> QED BY <1>1, <1>3, <1>4, <1>7, FilesStand, StarterStep DEF SchemaInv

\* JOURNAL_DDL only adds.
LEMMA JournalAdds ==
    ASSUME NEW f \in File, VersionsBacked(f)
    PROVE  /\ WithJournal(f) \in File /\ VersionsBacked(WithJournal(f)) /\ Includes(WithJournal(f), f)
           /\ WithJournal(f).journal
<1>1. Added(8) \subseteq AllColumns
    BY AddedTo
<1>2. CASE f.journal
    BY <1>2 DEF WithJournal, Includes
<1>3. CASE ~f.journal
    <2>1. WithJournal(f) = [[f EXCEPT !.journal = TRUE] EXCEPT !.columns = f.columns \cup Added(8)]
        BY <1>3 DEF WithJournal
    <2> QED BY <1>1, <2>1 DEF File, VersionsBacked, Includes
<1> QED BY <1>2, <1>3

LEMMA EndMigrationStep ==
    ASSUME SchemaInv, NEW p \in Starter, EndMigration(p)
    PROVE  SchemaInv'
<1> DEFINE f == Seen(p)
           o == starter[p]
           s == [o EXCEPT !.at = "record"]
<1>1. /\ o.at = "table" /\ o.table \notin DOMAIN Additions[o.version]
      /\ starter' = [starter EXCEPT ![p] = s] /\ deaths' = deaths /\ deaths' \in 0..MaxDeaths
      /\ \/ o.version = 6 /\ Script(p, WithJournal(f))
         \/ o.version # 6 /\ UNCHANGED <<store, draft, writer>>
    BY DEF EndMigration, Goes, SchemaInv
<1>2. f \in File /\ VersionsBacked(f) /\ o \in Progress /\ SeenTo(o, f)
    BY SeenType
<1>3. /\ s \in Progress /\ s.at = "record" /\ s.version = o.version /\ o.version \in {6, 8}
    BY <1>2 DEF Progress
<1>4. Added(o.version) \subseteq f.columns
    <2>1. ASSUME NEW i \in DOMAIN Additions[o.version]
          PROVE  Additions[o.version][i] \subseteq f.columns
        <3>1. i < o.table
            BY <1>1, <1>2, <1>3, SchemaConstants DEF Progress
        <3> QED BY <1>1, <1>2, <3>1 DEF SeenTo, TablesDone
    <2> QED BY <1>3, <2>1, AllTables
<1> HIDE DEF s
<1>5. CASE o.version = 6 /\ Script(p, WithJournal(f))
    <2> DEFINE new == WithJournal(f)
    <2>1. new \in File /\ VersionsBacked(new) /\ Includes(new, f) /\ new.journal
        BY <1>2, JournalAdds
    <2> HIDE DEF new
    <2>2. FilesOK' /\ Seen(p)' = new /\ OthersKeep(p)
        BY <1>5, <2>1, Wrote DEF new
    <2>3. SeenTo(s, new)
        BY <1>3, <1>4, <1>5, <2>1 DEF SeenTo, Includes
    <2> QED BY <1>1, <1>3, <2>2, <2>3, StarterStep
<1>6. CASE o.version # 6 /\ UNCHANGED <<store, draft, writer>>
    <2>1. SeenTo(s, f)
        BY <1>1, <1>2, <1>3, <1>4, <1>6 DEF SeenTo
    <2>2. SeenTo(s, Seen(p)')
        BY <1>6, <2>1, FilesStand
    <2> HIDE DEF f, o
    <2> QED BY <1>1, <1>3, <1>6, <2>2, FilesStand, StarterStep
<1> QED BY <1>1, <1>5, <1>6

LEMMA RecordVersionStep ==
    ASSUME SchemaInv, NEW p \in Starter, RecordVersion(p)
    PROVE  SchemaInv'
<1> DEFINE f == Seen(p)
           o == starter[p]
           at == IF o.version = 6 THEN "table" ELSE "journal"
           new == [f EXCEPT !.versions = @ \cup {o.version}]
           s == [[[o EXCEPT !.version = 8] EXCEPT !.table = 1] EXCEPT !.at = at]
<1>1. /\ o.at = "record" /\ Within(p, new) /\ deaths' = deaths /\ deaths' \in 0..MaxDeaths
      /\ starter' = [starter EXCEPT ![p].version = 8, ![p].table = 1, ![p].at = at]
    BY DEF RecordVersion, SchemaInv
<1>2. f \in File /\ VersionsBacked(f) /\ o \in Progress /\ SeenTo(o, f)
    BY SeenType
<1>3. /\ o.version \in {6, 8} /\ f.journal /\ Added(o.version) \subseteq f.columns
      /\ Added(6) \subseteq f.columns
    BY <1>1, <1>2 DEF SeenTo, Progress
<1>4. /\ new \in File /\ Includes(new, f)
      /\ new.columns = f.columns /\ new.journal = f.journal /\ new.versions = f.versions \cup {o.version}
    <2> DEFINE versions == f.versions \cup {o.version}
    <2>1. versions \in SUBSET (5..8)
        BY <1>2, <1>3 DEF File
    <2>2. new = [f EXCEPT !.versions = versions]
        OBVIOUS
    <2> HIDE DEF new, versions
    <2>3. /\ new \in File /\ new.columns = f.columns /\ new.journal = f.journal
          /\ new.versions = versions
        BY <1>2, <2>1, <2>2 DEF File
    <2> QED BY <2>3 DEF Includes, versions
<1>5. starter' = [starter EXCEPT ![p] = s]
    BY <1>1 DEF SchemaInv
<1>6. s \in Progress /\ s.at = at /\ s.version = 8 /\ s.table = 1
    <2> DEFINE m == [o EXCEPT !.version = 8]
               n == [m EXCEPT !.table = 1]
    <2>1. m \in Progress /\ m.version = 8
        BY <1>2 DEF Progress
    <2> HIDE DEF m
    <2>2. n \in Progress /\ n.version = 8 /\ n.table = 1
        BY <2>1 DEF Progress
    <2>3. s = [n EXCEPT !.at = at] /\ at \in {"table", "journal"}
        BY DEF m
    <2> HIDE DEF s, n, at
    <2> QED BY <2>2, <2>3 DEF Progress
<1> HIDE DEF s, new
<1>7. VersionsBacked(new)
    BY <1>2, <1>3, <1>4 DEF VersionsBacked
<1>8. FilesOK' /\ Seen(p)' = new /\ OthersKeep(p)
    BY <1>1, <1>4, <1>7, Wrote
<1>9. TablesDone(s, new)
    BY <1>6, SchemaConstants DEF TablesDone
<1>10. SeenTo(s, new)
    BY <1>3, <1>4, <1>6, <1>9, AddedTo DEF SeenTo
<1> QED BY <1>1, <1>5, <1>6, <1>8, <1>10, StarterStep

LEMMA RunJournalDdlStep ==
    ASSUME SchemaInv, NEW p \in Starter, RunJournalDdl(p)
    PROVE  SchemaInv'
<1> DEFINE f == Seen(p)
           o == starter[p]
           new == WithJournal(f)
           s == [o EXCEPT !.at = "seed"]
<1>1. /\ o.at = "journal" /\ Script(p, new) /\ deaths' = deaths /\ deaths' \in 0..MaxDeaths
      /\ starter' = [starter EXCEPT ![p] = s]
    BY DEF RunJournalDdl, Goes, SchemaInv
<1>2. f \in File /\ VersionsBacked(f) /\ o \in Progress /\ SeenTo(o, f)
    BY SeenType
<1>3. new \in File /\ VersionsBacked(new) /\ Includes(new, f)
    BY <1>2, JournalAdds
<1>4. s \in Progress /\ s.at = "seed"
    BY <1>2 DEF Progress
<1> HIDE DEF s, new
<1>5. FilesOK' /\ Seen(p)' = new /\ OthersKeep(p)
    BY <1>1, <1>3, Wrote
<1>6. SeenTo(s, new)
    BY <1>1, <1>2, <1>3, <1>4 DEF SeenTo, Includes
<1> QED BY <1>1, <1>4, <1>5, <1>6, StarterStep

LEMMA SeedStep ==
    ASSUME SchemaInv, NEW p \in Starter, Seed(p)
    PROVE  SchemaInv'
<1> DEFINE f == Seen(p)
           o == starter[p]
           new == [[f EXCEPT !.versions = @ \cup {SCHEMA_VERSION}] EXCEPT !.seeds = TRUE]
           s == [o EXCEPT !.at = "commit"]
<1>1. /\ o.at = "seed" /\ Within(p, new) /\ deaths' = deaths /\ deaths' \in 0..MaxDeaths
      /\ starter' = [starter EXCEPT ![p] = s] /\ writer' = p
    BY DEF Seed, Goes, Within, SchemaInv
<1>2. f \in File /\ VersionsBacked(f) /\ o \in Progress /\ SeenTo(o, f)
    BY SeenType
<1>3. f.journal /\ Added(6) \subseteq f.columns /\ Added(8) \subseteq f.columns
    BY <1>1, <1>2, AddedTo DEF SeenTo
<1>4. new \in File /\ VersionsBacked(new) /\ Includes(new, f)
    <2> DEFINE m == [f EXCEPT !.versions = @ \cup {SCHEMA_VERSION}]
    <2>1. /\ m \in File /\ m.columns = f.columns /\ m.journal = f.journal
          /\ m.versions = f.versions \cup {8}
        BY <1>2 DEF File, SCHEMA_VERSION
    <2>2. new = [m EXCEPT !.seeds = TRUE]
        OBVIOUS
    <2> HIDE DEF new, m
    <2>3. /\ new \in File /\ new.columns = m.columns /\ new.journal = m.journal
          /\ new.versions = m.versions
        BY <2>1, <2>2 DEF File
    <2>4. VersionsBacked(new) /\ Includes(new, f)
        BY <1>3, <2>1, <2>3 DEF VersionsBacked, Includes
    <2> QED BY <2>3, <2>4
<1>5. s \in Progress /\ s.at = "commit"
    BY <1>2 DEF Progress
<1> HIDE DEF s, new
<1>6. FilesOK' /\ OthersKeep(p)
    BY <1>1, <1>4, Wrote
<1>7. SeenTo(s, Seen(p)')
    BY <1>5, SeenToNothing
<1> QED BY <1>1, <1>5, <1>6, <1>7, StarterStep

LEMMA CompleteStep ==
    ASSUME SchemaInv, NEW p \in Starter, Complete(p)
    PROVE  SchemaInv'
<1> DEFINE s == [starter[p] EXCEPT !.at = "ready"]
<1>1. /\ starter[p].at = "commit" /\ store' = draft /\ writer' = "none" /\ draft' = draft
      /\ starter' = [starter EXCEPT ![p] = s] /\ deaths' = deaths /\ deaths' \in 0..MaxDeaths
    BY DEF Complete, Goes, SchemaInv
<1>2. writer = p
    BY <1>1 DEF SchemaInv
<1>3. FilesOK'
    BY <1>1 DEF SchemaInv, FilesOK, Includes, VersionsBacked
<1>4. OthersKeep(p)
    BY <1>1, <1>2, SchemaConstants DEF SchemaInv, FilesOK, OthersKeep, Seen, Includes
<1>5. s \in Progress /\ s.at = "ready"
    BY SeenType DEF Progress
<1> HIDE DEF s
<1>6. SeenTo(s, Seen(p)')
    BY <1>5, SeenToNothing
<1> QED BY <1>1, <1>3, <1>4, <1>5, <1>6, StarterStep

LEMMA StarterFailsStep ==
    ASSUME SchemaInv, NEW p \in Starter, StarterFails(p)
    PROVE  SchemaInv'
<1> DEFINE s == [starter[p] EXCEPT !.at = "failed"]
<1>1. /\ starter' = [starter EXCEPT ![p] = s] /\ deaths < MaxDeaths /\ deaths' = deaths + 1
      /\ \/ writer = p /\ draft' = store /\ writer' = "none" /\ UNCHANGED store
         \/ writer # p /\ UNCHANGED <<store, draft, writer>>
    BY DEF StarterFails, Goes
<1>2. deaths' \in 0..MaxDeaths
    BY <1>1, SchemaConstants DEF SchemaInv
<1>3. FilesOK'
    BY <1>1 DEF SchemaInv, FilesOK, Includes, VersionsBacked
<1>4. OthersKeep(p)
    BY <1>1, SchemaConstants DEF OthersKeep, Seen, Includes
<1>5. s \in Progress /\ s.at = "failed"
    BY SeenType DEF Progress
<1> HIDE DEF s
<1>6. SeenTo(s, Seen(p)')
    BY <1>5, SeenToNothing
<1> QED BY <1>1, <1>2, <1>3, <1>4, <1>5, <1>6, StarterStep

LEMMA SchemaStep ==
    ASSUME SchemaInv, [SchemaNext]_schemaVars
    PROVE  SchemaInv'
<1>1. ASSUME NEW p \in Starter, Statement(p) PROVE SchemaInv'
    BY <1>1, RunDdlStep, ReadVersionStep, RecordBaselineStep, ReadColumnsStep, AddColumnStep, NextTableStep,
       EndMigrationStep, RecordVersionStep, RunJournalDdlStep, SeedStep, CompleteStep DEF Statement
<1>2. CASE UNCHANGED schemaVars
    BY <1>2 DEF schemaVars, SchemaInv, FilesOK, Seen, SeenTo, TablesDone, Includes, VersionsBacked
<1> QED BY <1>1, <1>2, StartCommandStep, StarterFailsStep DEF SchemaNext

LEMMA SchemaStart ==
    ASSUME SchemaInit
    PROVE  SchemaInv
<1>1. \A f \in {Fresh, V5, V7} : f \in File /\ VersionsBacked(f)
    <2>1. Fresh \in File /\ V5 \in File /\ V7 \in File
        BY AddedTo DEF Fresh, V5, V7, File
    <2>2. VersionsBacked(Fresh) /\ VersionsBacked(V5) /\ VersionsBacked(V7)
        BY DEF Fresh, V5, V7, VersionsBacked
    <2> QED BY <2>1, <2>2
<1>2. FilesOK
    BY <1>1 DEF SchemaInit, FilesOK, Includes
<1>3. Absent \in Progress /\ Absent.at = "absent"
    BY DEF Absent, Progress
<1>4. \A f : SeenTo(Absent, f)
    BY <1>3, SeenToNothing
<1> QED BY <1>2, <1>3, <1>4, SchemaConstants DEF SchemaInit, SchemaInv

\* A recorded version has its columns, for any tables and any number of commands that
\* start at once and die between any two statements.
THEOREM VersionsVouch == SchemaSpec => []VersionsAreBacked
<1>1. SchemaInv => VersionsAreBacked
    BY DEF SchemaInv, FilesOK, VersionsBacked, VersionsAreBacked
<1> QED BY <1>1, SchemaStart, SchemaStep, PTL DEF SchemaSpec
-----------------------------------------------------------------------------
(* The types of Notifications and SchemaMigration.                         *)

\* A row that the relay has yet to send is one whose attempts are not used up, and
\* a row that nobody has tried to send has none.
AttemptsOK ==
    /\ \A i \in 1..Len(notes) :
          /\ notes[i].attempts \in 0..MaxAttempts
          /\ notes[i].status = "PENDING" => notes[i].attempts = 0
          /\ notes[i].about \in 0..Len(notes)
    /\ queue \subseteq 1..Len(notes)
    /\ \A i \in queue : notes[i].attempts < MaxAttempts
    /\ relayDeaths \in 0..MaxRelayDeaths

LEMMA NoteConstants ==
    MaxAttempts \in Nat /\ MaxAttempts > 0 /\ MaxRelayDeaths \in Nat
BY NotificationAssumption DEF NotificationAssumption

\* A new row has not been tried.
LEMMA RecordedUntried ==
    ASSUME NotesOK, AttemptsOK, NEW kind, NEW about \in 0..Len(notes),
           notes' = Recorded(kind, about), UNCHANGED <<queue, relayDeaths>>
    PROVE  AttemptsOK'
<1>1. /\ notes \in Seq(NoteRow) /\ Len(notes) \in Nat /\ DOMAIN notes = 1..Len(notes)
      /\ \A i \in 1..Len(notes) : notes[i] \in NoteRow
    BY NotesDomain DEF NotesOK
<1>2. CASE notes' = notes
    BY <1>2 DEF AttemptsOK
<1>3. CASE notes' = Append(notes, NewNote(kind, about))
    <2>1. /\ Len(notes') = Len(notes) + 1
          /\ \A i \in 1..Len(notes) : notes'[i] = notes[i]
          /\ notes'[Len(notes) + 1] = NewNote(kind, about)
        BY <1>1, <1>3
    <2>2. NewNote(kind, about).attempts = 0 /\ NewNote(kind, about).about = about
        BY DEF NewNote
    <2>3. \A i \in 1..Len(notes') : i \in 1..Len(notes) \/ i = Len(notes) + 1
        BY <1>1, <2>1
    <2>4. \A i \in 1..Len(notes) : notes'[i].about \in 0..Len(notes')
        BY <1>1, <2>1 DEF AttemptsOK
    <2>5. about \in 0..Len(notes') /\ queue' \subseteq 1..Len(notes')
        BY <1>1, <2>1 DEF AttemptsOK
    <2> QED BY <2>1, <2>2, <2>3, <2>4, <2>5, NoteConstants DEF AttemptsOK
<1> QED BY <1>2, <1>3 DEF Recorded

LEMMA AttemptsStep ==
    ASSUME WatchdogInv, AttemptsOK, [NoteNext]_noteVars
    PROVE  AttemptsOK'
<1> USE DEF AttemptsOK
<1>1. /\ notes \in Seq(NoteRow) /\ Len(notes) \in Nat /\ DOMAIN notes = 1..Len(notes)
      /\ \A i \in 1..Len(notes) : notes[i] \in NoteRow
      /\ NotesOK /\ incident.id \in 0..Len(notes)
    BY NotesDomain DEF WatchdogInv, NotesOK
<1>2. CASE Emit
    BY <1>1, <1>2, RecordedUntried DEF Emit
<1>3. CASE StartDrain
    <2>1. \A i \in 1..Len(notes) : Deliverable(i) => notes[i].attempts < MaxAttempts
        BY NoteConstants DEF Deliverable
    <2>2. \A i \in queue' : i \in 1..Len(notes) /\ Deliverable(i)
        BY <1>1, <1>3 DEF StartDrain
    <2> QED BY <1>3, <2>1, <2>2 DEF StartDrain
<1>4. CASE Send
    BY <1>4 DEF Send
<1>5. CASE Mark
    <2>1. PICK h \in queue : /\ notes' = [notes EXCEPT ![h].status = sending, ![h].attempts = @ + 1]
                             /\ queue' = queue \ {h}
        BY <1>5 DEF Mark
    <2>2. sending \in {"SENT", "FAILED"} /\ UNCHANGED relayDeaths
        BY <1>5 DEF Mark, WatchdogInv, NotesOK
    <2> DEFINE m == [notes[h] EXCEPT !.status = sending]
               n == [m EXCEPT !.attempts = m.attempts + 1]
    <2>3. h \in 1..Len(notes) /\ notes[h] \in NoteRow /\ notes[h].attempts < MaxAttempts
        BY <1>1
    <2>4. notes' = [notes EXCEPT ![h] = n]
        BY <1>1, <2>1, <2>3
    <2>5. m.attempts = notes[h].attempts /\ m.status = sending /\ m.about = notes[h].about /\ m \in NoteRow
        BY <2>2, <2>3 DEF NoteRow
    <2> HIDE DEF m
    <2>6. n.attempts = notes[h].attempts + 1 /\ n.status = sending /\ n.about = notes[h].about /\ n \in NoteRow
        BY <2>3, <2>5 DEF NoteRow
    <2> HIDE DEF n
    <2>7. /\ Len(notes') = Len(notes)
          /\ \A i \in 1..Len(notes) : notes'[i] = IF i = h THEN n ELSE notes[i]
        BY <1>1, <2>3, <2>4, <2>6, ExceptSeq
    <2>8. notes[h].attempts \in Nat /\ notes[h].attempts + 1 \in 0..MaxAttempts
        BY <2>3, NoteConstants DEF NoteRow
    <2>9. \A i \in 1..Len(notes') :
             /\ notes'[i].attempts \in 0..MaxAttempts
             /\ notes'[i].status = "PENDING" => notes'[i].attempts = 0
             /\ notes'[i].about \in 0..Len(notes')
        BY <2>2, <2>3, <2>6, <2>7, <2>8
    <2>10. queue' \subseteq 1..Len(notes') /\ \A i \in queue' : notes'[i].attempts < MaxAttempts
        BY <2>1, <2>7
    <2> QED BY <2>2, <2>9, <2>10
<1>6. CASE RelayDies
    BY <1>6, NoteConstants DEF RelayDies
<1>7. CASE EmitResult
    BY <1>1, <1>7, RecordedUntried DEF EmitResult
<1>8. CASE TakeIncident \/ MoveWatermark \/ WatchdogDies \/ UNCHANGED noteVars
    BY <1>8 DEF TakeIncident, MoveWatermark, WatchdogDies, noteVars
<1> QED BY <1>2, <1>3, <1>4, <1>5, <1>6, <1>7, <1>8 DEF NoteNext

\* Every row keeps its type; in particular no notification is attempted more often
\* than MaxAttempts times, whatever the channel does and whenever the relay dies.
THEOREM NoteTyped == NoteSpec => []NoteTypeOK
<1>1. NoteInit => AttemptsOK
    <2>1. NoteInit => Len(notes) = 0
        BY DEF NoteInit
    <2> QED BY <2>1, NoteConstants DEF NoteInit, AttemptsOK
<1>2. WatchdogInv /\ AttemptsOK => NoteTypeOK
    <2> SUFFICES ASSUME WatchdogInv, AttemptsOK PROVE NoteTypeOK
        OBVIOUS
    <2>1. /\ notes \in Seq(NoteRow) /\ Len(notes) \in Nat /\ DOMAIN notes = 1..Len(notes)
          /\ \A i \in 1..Len(notes) : notes[i] \in NoteRow
        BY NotesDomain DEF WatchdogInv, NotesOK
    <2> DEFINE Row == [kind : {"RUN_FAILED", "SUMMARY", "AUTO_FIX_RESULT"}, about : 0..Len(notes),
                       status : {"PENDING", "SENT", "FAILED"}, attempts : 0..MaxAttempts]
    <2>2. \A i \in 1..Len(notes) : notes[i] \in Row
        BY <2>1 DEF AttemptsOK, NoteRow
    <2> HIDE DEF Row
    <2>3. notes \in Seq(Row)
        BY <2>1, <2>2, SeqDef
    <2> QED BY <2>1, <2>3 DEF Row, WatchdogInv, NotesOK, AttemptsOK, NoteTypeOK
<1>3. WatchdogInv /\ [NoteNext]_noteVars => WatchdogInv'
    BY NoteStep
<1>4. WatchdogInv /\ AttemptsOK /\ [NoteNext]_noteVars => AttemptsOK'
    BY AttemptsStep
<1> QED BY NoteStart, <1>1, <1>2, <1>3, <1>4, PTL DEF NoteSpec

\* The committed file and what a transaction makes of it keep their types, and a
\* starter works at the columns of a migration.
THEOREM SchemaTyped == SchemaSpec => []SchemaTypeOK
<1>1. SchemaInv => SchemaTypeOK
    BY DEF SchemaInv, FilesOK, File, Progress, SchemaTypeOK
<1> QED BY <1>1, SchemaStart, SchemaStep, PTL DEF SchemaSpec
-----------------------------------------------------------------------------
(* MCSchedule: a behaviour of the composition is one of every component,   *)
(* which either takes its own steps or stands still.                       *)

\* What the theorems say of a component holds of it under the schedule.
THEOREM ScheduleImplements ==
    ScheduleSpec => Spec /\ NoteSpec /\ SchemaSpec
<1>1. ScheduleInit => Init /\ NoteInit /\ SchemaInit
    BY DEF ScheduleInit
<1>2. ASSUME [ScheduleNext]_scheduleVars
      PROVE  [Next]_vars /\ [NoteNext]_noteVars /\ [SchemaNext]_schemaVars
    <2>1. CASE UNCHANGED scheduleVars
        BY <2>1 DEF scheduleVars, bookVars
    <2>2. CASE ScheduleNext
        BY <2>2 DEF ScheduleNext, bookVars
    <2> QED BY <1>2, <2>1, <2>2
<1> QED BY <1>1, <1>2, PTL DEF ScheduleSpec, Spec, NoteSpec, SchemaSpec

\* The rows of every component that the schedule runs keep the types of their columns.
THEOREM ScheduleTyped == ScheduleSpec => []ScheduleTypeOK
<1>1. TypeOK /\ NoteTypeOK /\ SchemaTypeOK => ScheduleTypeOK
    BY DEF ScheduleTypeOK
<1> QED BY <1>1, ScheduleImplements, BookTyped, NoteTyped, SchemaTyped, PTL
-----------------------------------------------------------------------------
(* MCRaces: a behaviour is one of every component likewise, and the        *)
(* entries of two days are an instance of EntryAdmission whose constants   *)
(* meet the hypotheses of SafeEntries.                                     *)

\* The instance brings its own copies of the operators on finite sets.
LEMMA SameFinite == \A S : Entries!IsFiniteSet(S) <=> IsFiniteSet(S)
BY DEF Entries!IsFiniteSet, IsFiniteSet

LEMMA SameCardinality == \A S : Entries!Cardinality(S) = Cardinality(S)
BY DEF Entries!Cardinality, Cardinality

\* The entry of today and the one of an earlier day.
LEMMA BothFinite == IsFiniteSet(Both) /\ IsFiniteSet({carried}) /\ Cardinality({carried}) = 1
<1>1. IsFiniteSet({carried}) /\ Cardinality({carried}) = 1
    BY FS_Singleton
<1>2. Both = {carried} \cup {today}
    BY DEF Both
<1>3. IsFiniteSet({carried} \cup {today})
    BY <1>1, FS_AddElement
<1> QED BY <1>1, <1>2, <1>3

\* The instance meets what EntryAdmission assumes of its constants.
LEMMA EntriesAssumed == Entries!AdmissionAssumption
<1>1. {carried} \subseteq Both /\ {Both} \subseteq SUBSET Both /\ NoIntent \notin Both
    BY RaceAssumption DEF Both
<1> QED BY <1>1, BothFinite, SameFinite, SameCardinality DEF Entries!AdmissionAssumption

\* The earlier entry alone is within the budget of the sector.
LEMMA CarriedFits == Entries!RiskOf({carried}) = 2
<1>0. Entries!AdmissionAssumption
    BY EntriesAssumed
<1> DEFINE f == [i \in Both |-> 2]
<1>1. f[carried] = 2 /\ 2 \in Int
    BY DEF Both
<1>2. Entries!IsFiniteSet({carried}) /\ \A x \in {carried} : f[x] \in Int
    BY <1>1, BothFinite, SameFinite
<1>3. Entries!SumFunctionOnSet(f, {carried}) = f[carried] + Entries!SumFunctionOnSet(f, {carried} \ {carried})
    <2> HIDE DEF f
    <2> QED BY <1>2, <1>0, Entries!SumSplit DEF Entries!AdmissionAssumption
<1>4. {carried} \ {carried} = {}
    OBVIOUS
<1>5. Entries!SumFunctionOnSet(f, {}) = 0
    BY <1>0, Entries!SumEmpty DEF Entries!AdmissionAssumption
<1>6. Entries!SumFunctionOnSet(f, {carried}) = 2
    BY <1>1, <1>3, <1>4, <1>5
<1> QED BY <1>6 DEF Entries!RiskOf

\* What the theorems say of a component holds of it under its race.
THEOREM RacesImplement == RaceSpec => Spec /\ Entries!Spec /\ FeedSpec
<1>1. RaceInit => Init /\ Entries!Init /\ FeedInit
    BY DEF RaceInit
<1>2. [RaceNext]_raceVars => [Next]_vars
    BY DEF RaceNext, raceVars, vars
<1>3. [RaceNext]_raceVars => [Entries!Next]_(Entries!vars)
    BY DEF RaceNext, raceVars, entryVars, Entries!vars, Entries!dbVars, Entries!procVars
<1>4. [RaceNext]_raceVars => [FeedNext]_feedVars
    BY DEF RaceNext, raceVars
<1> QED BY <1>1, <1>2, <1>3, <1>4, PTL DEF RaceSpec, Spec, Entries!Spec, FeedSpec

\* Over one entry of an earlier day, whatever became of it, any number of processes
\* at once never lose an accepted order from the exposure, admit more risk than the
\* sector's budget bears, or send an entry over an unknown outcome.
THEOREM RacingEntriesAreSafe == RaceSpec => []EntriesAreSafe
<1>1. Entries!AdmissionAssumption
    BY EntriesAssumed
<1>2. \A b \in {Both} : Entries!RiskOf({carried} \cap b) <= [c \in {Both} |-> 3][b]
    <2>1. {carried} \cap Both = {carried}
        BY DEF Both
    <2> QED BY <2>1, CarriedFits
<1>3. Entries!Spec => []Entries!EntriesAreSafe
    BY <1>1, <1>2, Entries!SafeEntries DEF Entries!AdmissionAssumption
<1>4. EntriesAreSafe <=> Entries!EntriesAreSafe
    BY DEF EntriesAreSafe
<1> QED BY <1>3, <1>4, RacesImplement, PTL
=============================================================================
