------------------------- MODULE MCEntryAdmission -------------------------
(***************************************************************************)
(* Small instances of EntryAdmission for TLC.                              *)
(***************************************************************************)
EXTENDS EntryAdmission, TLC

\* c1, the entry of an earlier day, shares a sector with the first entry of
\* today; the account can bear the planned risk of two entries, the sector
\* that of one and a half.
CONSTANTS i1, c1
MCBook   == {{i1, c1} \cap Intent, Intent}
MCRisk   == [i \in Intent |-> 2]
MCBudget == [b \in MCBook |-> IF Cardinality(b) = 2 THEN 3 ELSE 4]

\* Processes are interchangeable, and so are the intents of one day where no
\* risk book tells them apart.
Processes == Permutations(Process)
Racers    == Permutations(Process) \cup Permutations(Intent)

\* The book, risk and budget of instances whose intents are interchangeable.
OneBook     == {Intent}
AmpleBudget == [b \in OneBook |-> 2 * Cardinality(Intent)]
===========================================================================
