---------------------------- MODULE Notifications ----------------------------
(***************************************************************************)
(* The notification rows, the relay that delivers them and the watchdog    *)
(* that handles failed runs.                                               *)
(*                                                                         *)
(* Commands insert rows; the relay (drain-notifications, every fifteen     *)
(* minutes) sends the oldest undelivered ones and marks each; the crash    *)
(* watchdog handles the RUN_FAILED rows above its watermark, oldest first. *)
(* One relay and one watchdog at a time: the relay's workflow is bounded   *)
(* to ten minutes of its fifteen.  Either may die between two calls.  The  *)
(* channel is external: a send succeeds or fails.                          *)
(***************************************************************************)
EXTENDS Integers, Sequences, FiniteSets

CONSTANTS MaxAttempts,      \* MAX_DELIVERY_ATTEMPTS
          DrainLimit,       \* rows of one drain
          MaxNotes,         \* bound on the rows
          MaxRelayDeaths    \* bound on the relays killed

ASSUME NotificationAssumption ==
    /\ {MaxAttempts, DrainLimit} \subseteq Nat \ {0}
    /\ {MaxNotes, MaxRelayDeaths} \subseteq Nat

VARIABLES
    notes,          \* the rows, in the order of their ids and creation times
    queue,          \* the relay's rows still to send, the oldest first
    sending,        \* "none", or what the channel said of the first of them
    relayDeaths,
    watermark,      \* system_state.watchdog_last_notification_id
    incident        \* the failure the watchdog works on, and its next call

noteVars == <<notes, queue, sending, relayDeaths, watermark, incident>>

NoIncident == [id |-> 0, at |-> "none"]

NoteInit ==
    /\ notes = << >> /\ queue = {} /\ sending = "none" /\ relayDeaths = 0
    /\ watermark = 0 /\ incident = NoIncident

\* A row; "about" is the incident of an AUTO_FIX_RESULT.
NewNote(kind, about) == [kind |-> kind, about |-> about, status |-> "PENDING", attempts |-> 0]

\* record_notification: the dedupe_key is UNIQUE, and a second result of the
\* same incident is dropped.
Recorded(kind, about) ==
    IF kind = "AUTO_FIX_RESULT" /\ \E i \in DOMAIN notes : notes[i].kind = kind /\ notes[i].about = about
    THEN notes
    ELSE Append(notes, NewNote(kind, about))

\* A command ends, well or with an exception: _finalize_notifications_best_effort
\* writes RUN_FAILED, and leaves the delivery to the relay.
Emit ==
    /\ Len(notes) < MaxNotes
    /\ \E kind \in {"RUN_FAILED", "SUMMARY"} : notes' = Recorded(kind, 0)
    /\ UNCHANGED <<queue, sending, relayDeaths, watermark, incident>>

---------------------------------------------------------------------------
(* drain_pending_notifications.                                            *)

\* Mutant: a failed row is tried for ever.
DeliverableForever(i) == notes[i].status # "SENT"

\* PENDING, or FAILED fewer than MAX_DELIVERY_ATTEMPTS times.
Deliverable(i) ==
    \/ notes[i].status = "PENDING"
    \/ notes[i].status = "FAILED" /\ notes[i].attempts < MaxAttempts

\* The rows to send: the DrainLimit oldest.
StartDrain ==
    LET due == {i \in DOMAIN notes : Deliverable(i)}
    IN /\ queue = {}
       /\ due # {}
       /\ queue' = {i \in due : Cardinality({j \in due : j < i}) < DrainLimit}
       /\ UNCHANGED <<notes, sending, relayDeaths, watermark, incident>>

Send ==
    /\ queue # {} /\ sending = "none"
    /\ sending' \in {"SENT", "FAILED"}
    /\ UNCHANGED <<notes, queue, relayDeaths, watermark, incident>>

\* Mutant: only a success counts as an attempt.
MarkWithoutCount ==
    /\ sending # "none"
    /\ \E i \in queue :
         /\ \A j \in queue : i <= j
         /\ notes' = [notes EXCEPT ![i].status = sending,
                                   ![i].attempts = IF sending = "SENT" THEN @ + 1 ELSE @]
         /\ queue' = queue \ {i}
    /\ sending' = "none"
    /\ UNCHANGED <<relayDeaths, watermark, incident>>

\* mark_notification_delivery, of the row that was sent.
Mark ==
    /\ sending # "none"
    /\ \E i \in queue :
         /\ \A j \in queue : i <= j
         /\ notes' = [notes EXCEPT ![i].status = sending, ![i].attempts = @ + 1]
         /\ queue' = queue \ {i}
    /\ sending' = "none"
    /\ UNCHANGED <<relayDeaths, watermark, incident>>

\* The job is canceled or times out; what it sent and had not marked is sent again.
RelayDies ==
    /\ queue # {} /\ relayDeaths < MaxRelayDeaths
    /\ queue' = {} /\ sending' = "none"
    /\ relayDeaths' = relayDeaths + 1
    /\ UNCHANGED <<notes, watermark, incident>>

---------------------------------------------------------------------------
(* watchdog-check and watchdog-resolve.                                    *)

Failures == {i \in DOMAIN notes : notes[i].kind = "RUN_FAILED"}

Unresolved == {i \in Failures : i > watermark}

\* The watchdog takes the first of unresolved_run_failures, works on it and runs
\* watchdog-resolve.
TakeIncident ==
    /\ incident = NoIncident
    /\ \E i \in Unresolved :
         /\ \A j \in Unresolved : i <= j
         /\ incident' = [id |-> i, at |-> "result"]
    /\ UNCHANGED <<notes, queue, sending, relayDeaths, watermark>>

\* auto_fix_result.
EmitResult ==
    /\ incident.at = "result"
    /\ notes' = Recorded("AUTO_FIX_RESULT", incident.id)
    /\ incident' = [incident EXCEPT !.at = "watermark"]
    /\ UNCHANGED <<queue, sending, relayDeaths, watermark>>

\* Mutant: the watermark moves as soon as the incident is taken.
MoveWatermarkFirst ==
    /\ incident.at \in {"result", "watermark"}
    /\ watermark' = incident.id
    /\ incident' = IF incident.at = "watermark" THEN NoIncident ELSE incident
    /\ UNCHANGED <<notes, queue, sending, relayDeaths>>

\* set_state("watchdog_last_notification_id", ...).
MoveWatermark ==
    /\ incident.at = "watermark"
    /\ watermark' = incident.id
    /\ incident' = NoIncident
    /\ UNCHANGED <<notes, queue, sending, relayDeaths>>

WatchdogDies ==
    /\ incident # NoIncident
    /\ incident' = NoIncident
    /\ UNCHANGED <<notes, queue, sending, relayDeaths, watermark>>

NoteNext ==
    \/ Emit
    \/ StartDrain \/ Send \/ Mark \/ RelayDies
    \/ TakeIncident \/ EmitResult \/ MoveWatermark \/ WatchdogDies

\* The relay is scheduled forever, and it ends what it starts.
NoteFairness == WF_noteVars(StartDrain) /\ WF_noteVars(Send) /\ WF_noteVars(Mark)

NoteSpec == NoteInit /\ [][NoteNext]_noteVars /\ NoteFairness

---------------------------------------------------------------------------
(* Properties.                                                             *)

NoteTypeOK ==
    /\ notes \in Seq([kind : {"RUN_FAILED", "SUMMARY", "AUTO_FIX_RESULT"}, about : 0..Len(notes),
                      status : {"PENDING", "SENT", "FAILED"}, attempts : 0..MaxAttempts])
    /\ queue \subseteq DOMAIN notes /\ sending \in {"none", "SENT", "FAILED"}
    /\ relayDeaths \in 0..MaxRelayDeaths /\ watermark \in 0..Len(notes)
    /\ incident \in [id : 0..Len(notes), at : {"none", "result", "watermark"}]

\* "FAILED rows stay retryable up to this many attempts before being left alone
\* for good": a channel that fails whenever it likes does not let the oldest rows
\* starve the others; each is delivered or given up after MaxAttempts attempts.
EveryNoteSettles ==
    \A i \in 1..(2 * MaxNotes) :
        i \in DOMAIN notes ~> /\ i \in DOMAIN notes
                              /\ \/ notes[i].status = "SENT"
                                 \/ notes[i].status = "FAILED" /\ notes[i].attempts >= MaxAttempts

\* No failed run below the watermark is forgotten: its AUTO_FIX_RESULT is recorded,
\* though the watchdog die between its two writes.
NoIncidentForgotten ==
    \A i \in Failures \ Unresolved :
        \E j \in DOMAIN notes : notes[j].kind = "AUTO_FIX_RESULT" /\ notes[j].about = i
===========================================================================
