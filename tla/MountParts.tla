------------------------------ MODULE MountParts ------------------------------
(* The collectors, the low-light outputs, the files a job reads and the      *)
(* recorded history beside the pool under reloads: each with constants and   *)
(* variables of its own.                                                     *)

-----------------------------------------------------------------------------
(* The collectors. *)

CONSTANTS Families, ItemIds, Allowlist, Samples, Events, MaxPending, MaxItems, MaxTriggers, MaxChanges
VARIABLES family, awaiting, keys, period, collecting, previous, granted, told, shown, unsaid, owed,
          triggers, withdrawals
Collector == INSTANCE Collection WITH Ids <- ItemIds, queue <- awaiting

ASSUME CollectionAssumption == Collector!SamplesAssumption

\* Every event is followed by a collection, and churn is told once or kept, unless its output is
\* refused for its size. (Collection)
CollectionSound == Collector!CollectionSound

-----------------------------------------------------------------------------
(* Low-light enhancement. *)

CONSTANTS Dirs, Below, Photographs, Names, PhotoJobs, MaxTurns
VARIABLES resolves, settings, files, work, placed, turns
Photos == INSTANCE LowLight WITH Jobs <- PhotoJobs

ASSUME LowLightAssumption == Photos!PhotographsAssumption

\* No photograph and no output is ever overwritten. (LowLight)
NothingOverwritten == Photos!NothingOverwritten

-----------------------------------------------------------------------------
(* The files a job reads. *)

CONSTANTS Inodes, Paths, Links, Selections, Contents, MaxBytes, References, ModelSize, NonFinite, MaxEdits
VARIABLES names, disk, job, staging, dir, removal, reading, held, unseen, edits
Inputs == INSTANCE SelectedInputs WITH name <- names, quiet <- unseen

ASSUME InputsAssumption == Inputs!FilesAssumption

\* A worker is given whole copies, a tensor that runs is the one declared, and no copy remains. (SelectedInputs)
InputsSound == Inputs!InputsSound

-----------------------------------------------------------------------------
(* The recorded history. *)

CONSTANTS Recorders, MaxTime, SegmentLines, MaxSegments, Window, Ahead, MinWindows, Attempts, MaxUpsets
VARIABLES clock, segments, lockOwner, rec, recorded, glued, plain, outages, reader, trained
History == INSTANCE TelemetryHistory WITH told <- recorded

ASSUME HistoryAssumption == History!BoundsAssumption

\* The recorded history increases, and what was reported as recorded can be read back. (TelemetryHistory)
HistoryIsTrue == History!HistoryIsTrue

=============================================================================
