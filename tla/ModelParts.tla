------------------------------ MODULE ModelParts ------------------------------
(* The promotion of trained models, the transcription of media, the models   *)
(* produced from pinned sources and the library index beside the model       *)
(* store: each with constants and variables of its own.                      *)

-----------------------------------------------------------------------------
(* Promotion. *)

CONSTANTS Trainers, Promoters, TargetOrder, Available, Versions, MaxFeatures, MaxWindow, MaxInputWidth,
          MaxExports, MaxCommands
VARIABLES recipe, onnx, report, trainer, build, promo, artifacts, binding, overlapped, reverted, exports,
          commands
Promoting == INSTANCE Promotion WITH kind <- recipe, store <- artifacts

ASSUME PromotionAssumption == Promoting!OrderAssumption

\* A bound native has the graph of the model its report names, and a served one was compiled
\* from it unless older files came back. (Promotion)
BoundIsProven == Promoting!BoundIsProven

-----------------------------------------------------------------------------
(* Media transcription. *)

CONSTANTS Medias, Speeches, Spots, MaxParts, MaxMediaJobs
VARIABLES mediaStage, media, heard, sampled, visuals, mediaOutcome, scratch, mediaThreads, vision, uncleared, mediaJob
Media == INSTANCE MediaTranscription WITH
    Places <- Spots, MaxJobs <- MaxMediaJobs, stage <- mediaStage, segments <- heard, outcome <- mediaOutcome, threads <- mediaThreads, left <- uncleared,
    job <- mediaJob

ASSUME MediaAssumption == Media!PortsAssumption

\* No frame of a job remains once it ended, and a result has every part of its media. (MediaTranscription)
NoFrameRemains == Media!NoFrameRemains

-----------------------------------------------------------------------------
(* Pinned sources and produced models. *)

CONSTANTS Fetchers, Recipes, Licenses, Chunks, MaxTotal, Measurements, MaxBegun
VARIABLES producer, fetched, produced, production, cmd, claims, tampered, crowded, begun
Sourcing == INSTANCE ModelSources WITH
    Commands <- Fetchers, kind <- producer, dest <- fetched, model <- produced, report <- production,
    overlapped <- crowded

ASSUME SourcesAssumption == Sourcing!RecipesAssumption

\* A published source is whole and its recipe's, and a production report is true of its model. (ModelSources)
SourcesSound == Sourcing!SourcesSound

-----------------------------------------------------------------------------
(* The library index. *)

CONSTANTS Walk, Contents, FirstContent, Edited, RejectionOf, RefusalOf, LabelsOf, ScoreOf, Labels, Vocabulary,
          Indexers, MaxFiles, MaxIndexed, PageSize, MaxHappened
VARIABLES tree, scan, index, embedder, indexing, walk, labelling, restarted, lastFound, faults, happened
Library == INSTANCE LibraryIndex WITH
    Paths <- Walk, MaxEntries <- MaxIndexed, MaxEvents <- MaxHappened, model <- embedder

ASSUME LibraryAssumption == Library!ContentsAssumption

\* Pages of one query and labels hold against the index they were read from. (LibraryIndex)
ReadsHold == Library!ReadsHold

=============================================================================
