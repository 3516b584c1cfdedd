----------------------------- MODULE ServiceParts -----------------------------
(* The job pipeline and the artifact store beside the control plane: each    *)
(* with constants and variables of its own.                                  *)

-----------------------------------------------------------------------------
(* The job pipeline. *)

CONSTANTS PipelineJobs, PipelineKey, Devices, MaxInFlight, MaxRetries, Retention, MaxTracked, MaxEvents
VARIABLES daemon, stand, at, step, tries, beat, token, leader, future, completed, entries, journal, carried,
          ranOn, answer, admits, present, selected, artifact, reported, excused, events
Pipeline == INSTANCE JobPipeline WITH Jobs <- PipelineJobs, Key <- PipelineKey

\* Interrupted jobs are reported, followers end with their leader, inference runs where it was prepared. (JobPipeline)
PipelineSound == Pipeline!PipelineSound

-----------------------------------------------------------------------------
(* The artifact store. *)

CONSTANTS Processes, Ids, Versions, Bytes, Variants, Pinned, Declared, MaxItems, Asked, MaxIssued
VARIABLES version, pointer, leftover, binding, flock, errand, issued, known, asking, outputs, mislaid
Artifacts == INSTANCE ArtifactStore WITH MaxCommands <- MaxIssued, command <- errand

ASSUME ArtifactsAssumption == Artifacts!ReferencesAssumption

\* What is activated is installed, and a remembered readiness is true. (ArtifactStore)
StoreSound == Artifacts!StoreSound

=============================================================================
