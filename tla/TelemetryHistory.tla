-------------------------- MODULE TelemetryHistory --------------------------
(***************************************************************************)
(* The local training history of one profile: the rows that the recording  *)
(* commands append to bounded segments (telemetry_recorder.py,             *)
(* training/snapshot_recording.py, training/training_record_cli.py), and   *)
(* the two commands that read it back while others record: the forecast    *)
(* trainer (training/forecast.py, forecasting.py) and the forecast runner, *)
(* which submits the latest window to the service and polls for its        *)
(* reading (training/runner.py, forecast_client.py, forecastresult.py).    *)
(*                                                                         *)
(* A row is its time.  A segment is a sequence of lines; a line that no    *)
(* longer parses is Garbage.  A power failure leaves a fragment without an *)
(* end of line, and the next line of that segment is glued to it.          *)
(***************************************************************************)
EXTENDS Integers, Sequences, FiniteSets, SequencesExt

CONSTANTS Recorders,    \* Recording processes
          MaxTime,      \* Times are 1 .. MaxTime
          SegmentLines, \* Lines of a segment (max_segment_bytes)
          MaxSegments,  \* max_segments
          Window,       \* Rows of one forecast input
          Ahead,        \* The horizon: rows from the window to its target
          MinWindows,   \* MIN_TRAINING_ROWS
          Attempts,     \* Polls of one job
          MaxUpsets     \* Power failures and unlocked records explored

VARIABLES clock,     \* Time of the latest runtime snapshot
          segments,  \* The segment files, oldest first
          lockOwner, \* Who holds .telemetry.lock, or Nobody
          rec,       \* Each recorder: where it is and its row
          told,      \* History variable: times returned as recorded
          glued,     \* History variable: times written onto a fragment
          plain,     \* History variable: records made without the lock
          outages,
          reader,    \* The trainer or runner: where it is, what it read
          trained    \* Whether a forecaster was published and bound

historyVars == <<clock, segments, lockOwner, rec, told, glued, plain, outages, reader, trained>>

Nobody == "nobody"
Garbage == 0

\* TelemetryRecorder's bounds are positive integers
BoundsAssumption == MaxSegments \in Nat \ {0} /\ SegmentLines \in Nat /\ Nobody \notin Recorders

Times == 1 .. MaxTime
Idle == [at |-> "idle", row |-> Garbage]
NotReading == [at |-> "idle", for |-> "nothing", todo |-> <<>>, got |-> <<>>, polls |-> 0]

----------------------------------------------------------------------------
(* The segment files *)

\* Where a row can be read back: the segments in order, and the lines of each
Time(place) == segments[place[1]].lines[place[2]]
Places == UNION {{i} \X DOMAIN segments[i].lines : i \in DOMAIN segments}
Rows == {place \in Places : Time(place) # Garbage}
Precedes(a, b) == a[1] < b[1] \/ (a[1] = b[1] /\ a[2] < b[2])

Parsed(lines) == SelectSeq(lines, LAMBDA line : line # Garbage)
Increasing(s) == \A i \in 1 .. Len(s) - 1 : s[i] < s[i + 1]

NewSegment(id, line) == [id |-> id, lines |-> <<line>>, torn |-> FALSE]

Newest == segments[Len(segments)]

\* A full segment is followed by the next; a fragment swallows the line after it
Appended(line) ==
    IF segments = <<>> THEN <<NewSegment(0, line)>>
    ELSE LET last == Newest IN
         IF Len(last.lines) >= SegmentLines THEN Append(segments, NewSegment(last.id + 1, line))
         ELSE [segments EXCEPT ![Len(segments)] =
                  IF last.torn THEN [last EXCEPT !.torn = FALSE]
                               ELSE [last EXCEPT !.lines = Append(@, line)]]

Swallowed == /\ segments # <<>>
             /\ Newest.torn
             /\ Len(Newest.lines) < SegmentLines

\* Only the newest max_segments stay
Prune(files) == IF Len(files) > MaxSegments THEN SubSeq(files, Len(files) - MaxSegments + 1, Len(files)) ELSE files

----------------------------------------------------------------------------
(* Recording *)

Init ==
    /\ clock = 1
    /\ segments = <<>>
    /\ lockOwner = Nobody
    /\ rec = [p \in Recorders |-> Idle]
    /\ told = {} /\ glued = {} /\ plain = 0 /\ outages = 0
    /\ reader = NotReading
    /\ trained = FALSE

\* The service publishes another snapshot
SnapshotPublished ==
    /\ clock < MaxTime
    /\ clock' = clock + 1
    /\ UNCHANGED <<segments, lockOwner, rec, told, glued, plain, outages, reader, trained>>

\* A command reads the published snapshot, of which it will record the time
LoadSnapshot(p) ==
    /\ rec[p] = Idle
    /\ rec' = [rec EXCEPT ![p] = [at |-> "loaded", row |-> clock]]
    /\ UNCHANGED <<clock, segments, lockOwner, told, glued, plain, outages, reader, trained>>

\* Mutant: the lock is only looked at
EnterUnlocked(p) ==
    /\ rec[p].at = "loaded" /\ lockOwner = Nobody
    /\ rec' = [rec EXCEPT ![p].at = "checking"]
    /\ UNCHANGED <<clock, segments, lockOwner, told, glued, plain, outages, reader, trained>>
\* record_unique enters the store's lock
Enter(p) ==
    /\ rec[p].at = "loaded" /\ lockOwner = Nobody
    /\ lockOwner' = p
    /\ rec' = [rec EXCEPT ![p].at = "checking"]
    /\ UNCHANGED <<clock, segments, told, glued, plain, outages, reader, trained>>

Unlocked(p) == lockOwner' = IF lockOwner = p THEN Nobody ELSE lockOwner

\* A time already recorded, or older than the history, is not recorded
CheckUnique(p) ==
    /\ rec[p].at = "checking"
    /\ IF \E place \in Rows : Time(place) >= rec[p].row
       THEN rec' = [rec EXCEPT ![p] = Idle] /\ Unlocked(p)
       ELSE rec' = [rec EXCEPT ![p].at = "appending"] /\ UNCHANGED lockOwner
    /\ UNCHANGED <<clock, segments, told, glued, plain, outages, reader, trained>>

\* record(): an explicit sample of any time, with neither lock nor order
RecordPlain(p) ==
    /\ rec[p] = Idle /\ plain + outages < MaxUpsets
    /\ plain' = plain + 1
    /\ \E t \in 1 .. clock : rec' = [rec EXCEPT ![p] = [at |-> "appending", row |-> t]]
    /\ UNCHANGED <<clock, segments, lockOwner, told, glued, outages, reader, trained>>

\* The command prints the row it recorded
ReportRecorded(p) == told' = told \cup {rec[p].row}

\* The line is written, synchronised and old segments removed
AppendRow(p) ==
    /\ rec[p].at = "appending"
    /\ segments' = Prune(Appended(rec[p].row))
    /\ ReportRecorded(p)
    /\ glued' = IF Swallowed THEN glued \cup {rec[p].row} ELSE glued
    /\ rec' = [rec EXCEPT ![p] = Idle]
    /\ Unlocked(p)
    /\ UNCHANGED <<clock, plain, outages, reader, trained>>

\* The power fails: every process is gone, and one write may be a fragment
PowerFails ==
    /\ plain + outages < MaxUpsets
    /\ outages' = outages + 1
    /\ \/ UNCHANGED segments
       \/ /\ \E p \in Recorders : rec[p].at = "appending"
          /\ ~Swallowed
          /\ LET files == Appended(Garbage) IN segments' = [files EXCEPT ![Len(files)].torn = TRUE]
    /\ rec' = [p \in Recorders |-> Idle]
    /\ lockOwner' = Nobody
    /\ reader' = NotReading
    /\ UNCHANGED <<clock, told, glued, plain, trained>>

----------------------------------------------------------------------------
(* Reading the history back *)

\* The segments are listed, then read one by one without the lock
ReadBegins(for) ==
    /\ reader = NotReading
    /\ reader' = [NotReading EXCEPT !.at = "reading", !.for = for, !.todo = [i \in DOMAIN segments |-> segments[i].id]]
    /\ UNCHANGED <<clock, segments, lockOwner, rec, told, glued, plain, outages, trained>>

\* A segment removed meanwhile has no rows
ReadSegment ==
    /\ reader.at = "reading" /\ reader.todo # <<>>
    /\ LET found == SelectSeq(segments, LAMBDA s : s.id = Head(reader.todo))
       IN reader' = [reader EXCEPT !.todo = Tail(@),
                                   !.got = IF found = <<>> THEN @ ELSE @ \o Parsed(Head(found).lines)]
    /\ UNCHANGED <<clock, segments, lockOwner, rec, told, glued, plain, outages, trained>>

ReadAll == reader.at = "reading" /\ reader.todo = <<>>
GiveUp == /\ reader' = NotReading
          /\ UNCHANGED <<clock, segments, lockOwner, rec, told, glued, plain, outages, trained>>

----------------------------------------------------------------------------
(* The trainer *)

\* The row each window of the history is to predict
Targets(rows) == [i \in 1 .. Len(rows) - Window - Ahead + 1 |-> rows[i + Window + Ahead - 1]]
DatasetOK(rows) == Len(rows) >= Window + Ahead /\ Increasing(rows)

ShapeOK(rows) == Len(Targets(rows)) >= MinWindows

\* The fit beats repeating the last observation, or nothing is published
Train ==
    /\ ReadAll /\ reader.for = "training"
    /\ \E useful \in BOOLEAN :
         IF DatasetOK(reader.got) /\ ShapeOK(reader.got) /\ useful
         THEN /\ trained' = TRUE
              /\ reader' = NotReading
              /\ UNCHANGED <<clock, segments, lockOwner, rec, told, glued, plain, outages>>
         ELSE GiveUp

----------------------------------------------------------------------------
(* The runner *)

PayloadOK(rows) == Increasing(rows) /\ Len(rows) >= Window
Latest(rows) == SubSeq(rows, Len(rows) - Window + 1, Len(rows))

\* The latest window is submitted once the runtime's contract matched
Submit ==
    /\ ReadAll /\ reader.for = "forecast"
    /\ trained
    /\ \E accepted \in BOOLEAN :
         IF PayloadOK(reader.got) /\ accepted
         THEN /\ reader' = [reader EXCEPT !.at = "polling", !.got = Latest(@)]
              /\ UNCHANGED <<clock, segments, lockOwner, rec, told, glued, plain, outages, trained>>
         ELSE GiveUp

\* No binding, another contract: nothing is submitted
RunRefused == ReadAll /\ reader.for = "forecast" /\ GiveUp

\* A reply of another request or job, or a reading that does not parse, is refused
Replies == {"running", "succeeded", "failed", "another-job", "no-reading"}
Poll(reply) ==
    /\ reader.at = "polling"
    /\ IF reply = "running" /\ reader.polls + 1 < Attempts
       THEN /\ reader' = [reader EXCEPT !.polls = @ + 1]
            /\ UNCHANGED <<clock, segments, lockOwner, rec, told, glued, plain, outages, trained>>
       ELSE GiveUp

Next ==
    \/ SnapshotPublished \/ PowerFails
    \/ \E p \in Recorders : LoadSnapshot(p) \/ Enter(p) \/ CheckUnique(p) \/ RecordPlain(p) \/ AppendRow(p)
    \/ \E for \in {"training", "forecast"} : ReadBegins(for)
    \/ ReadSegment \/ Train \/ Submit \/ RunRefused
    \/ \E reply \in Replies : Poll(reply)

----------------------------------------------------------------------------

\* While only the snapshot command records, the history it leaves increases strictly, however
\* many processes record at once and wherever the power fails; every row a command reported as
\* recorded can be read back, except one whose segment was pruned and one glued to a fragment
\* (record_unique's check and append under .telemetry.lock, _append and _prune).
HistoryIsTrue ==
    /\ plain = 0 => \A a, b \in Rows : Precedes(a, b) => Time(a) < Time(b)
    /\ \A t \in told : \/ \E place \in Rows : Time(place) = t
                       \/ t \in glued
                       \/ segments[1].id > 0

Spec == Init /\ [][Next]_historyVars

=============================================================================
