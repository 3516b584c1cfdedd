---------------------------- MODULE AdmissionParts ----------------------------
(* The worker channel, the control socket, grants and settings, and the      *)
(* published snapshot beside the admission pool: each with constants and     *)
(* variables of its own.                                                     *)

-----------------------------------------------------------------------------
(* The pipe to a worker. *)

CONSTANTS Requests, MaxConcurrency, ServiceVersions, WorkerVersions, MaxChunks, MaxProgress
VARIABLES link, agreed, toWorker, toService, half, call, charged, turn, beaten, parts, task, reported
Channel == INSTANCE WorkerChannel

ASSUME ChannelAssumption == Channel!RequestsAssumption

\* An answer is the caller's own, a kept worker has a clean pipe, and charges come back. (WorkerChannel)
ChannelSound == Channel!ChannelSound

-----------------------------------------------------------------------------
(* The control socket. *)

CONSTANTS Services, Clients, OwnerOf, MaxCalls, MaxCallsAtOnce, MaxTracked, MaxRequests, MaxStops
VARIABLES stage, lockOwner, bound, path, listening, calls, windows, tally, requests, stops
Socket == INSTANCE ControlSocket WITH MaxConcurrent <- MaxCallsAtOnce, call <- calls

ASSUME SocketAssumption == Socket!ProcessesAssumption

\* Clients reach the one service that serves, and quotas count the calls that run. (ControlSocket)
SocketSound == Socket!SocketSound

-----------------------------------------------------------------------------
(* Grants and settings. *)

CONSTANTS Plugin, Permissions, Candidates, MaxCandidates, Desks, Editors, SpecVersions, Migrations,
          Configurations, SecretFields, AuditLimit, MaxConsentChanges
VARIABLES installed, disk, memory, desk, lockedBy, commits, guarded, stored, edit, builtFor, edits, published,
          worker, resolved, changes
Consents == INSTANCE Consent WITH
    Versions <- SpecVersions, MaxChanges <- MaxConsentChanges, spec <- builtFor

ASSUME ConsentAssumption == Consents!NamesAssumption

\* The grant ledger and the settings have one history, whoever writes them. (Consent)
ConsentSound == Consents!ConsentSound

-----------------------------------------------------------------------------
(* The snapshot on disk. *)

CONSTANTS Nodes, BackendOf, NodeNumber, Selected, NoNode, Workloads, Plugins, Preference, WithModel, Source,
          MaxAlerts, MaxRunning, MaxChanges
VARIABLES attached, nodes, uevents, source, detecting, registry, onHold, granted, consents,
          telemetry, jobsOf, alerts, working, unavailable, degraded, ready, publisher, view, wake, waking,
          retracted, lastPublished, heartbeat, snapshot, doubt, failedTick, happenings
Publisher == INSTANCE Publication WITH disk <- snapshot, changes <- happenings

ASSUME PublicationAssumption == Publisher!KindsAssumption

\* What readers of the snapshot see is what the service has, and the counts are the jobs. (Publication)
PublicationSound == Publisher!PublicationSound

=============================================================================
