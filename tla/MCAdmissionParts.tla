----------------------------- MODULE MCAdmissionParts -----------------------------
(***************************************************************************)
(* The parts of the service that face its callers and its workers, each on  *)
(* a small instance: the admission pool (PluginAdmission), the published    *)
(* snapshot, the control socket, grants and settings, the worker channel.   *)
(* They share nothing but the messages they take as inputs.  A behaviour is *)
(* one component's from beginning to end, and `part` says whose.            *)
(***************************************************************************)
EXTENDS MCPluginAdmission, AdmissionParts

VARIABLE part    \* the component this behaviour is of

channelVars == <<link, agreed, toWorker, toService, half, call, charged, turn, beaten, parts, task, reported>>
socketVars == <<stage, lockOwner, bound, path, listening, calls, windows, tally, requests, stops>>
consentVars == <<installed, disk, memory, desk, lockedBy, commits, guarded, stored, edit, builtFor, edits,
                 published, worker, resolved, changes>>
snapshotVars == <<attached, nodes, uevents, source, detecting, registry, onHold, granted, consents,
                  telemetry, jobsOf, alerts, working, unavailable, degraded, ready, publisher, view, wake,
                  waking, retracted, lastPublished, heartbeat, snapshot, doubt, failedTick, happenings>>
sumVars == <<part, vars, channelVars, socketVars, consentVars, snapshotVars>>

-----------------------------------------------------------------------------
(* The snapshot on disk. *)

MCBackendOf == "tpu1" :> "tpu"
MCNodeNumber == "tpu1" :> 1
MCSelected == "gpu" :> "none" @@ "npu" :> "none" @@ "tpu" :> "none"
MCPreference == "w" :> <<"tpu", "gpu">>

(* The control socket. *)

MCOwnerOf == "c1" :> "u1" @@ "c2" :> "u1" @@ "c3" :> "u2"

(* Grants and settings. *)

Candidate(dist, origin, manifest, declares, first) ==
    [dist |-> dist, id |-> "p", source |-> origin, flaw |-> "none", manifest |-> manifest, api |-> 1,
     low |-> 1, high |-> 1, declares |-> declares, first |-> first]
MCCandidates ==
    {Candidate("own", "external", 2, {"files", "gpu"}, TRUE),
     Candidate("rival", "external", 2, {"gpu"}, FALSE),
     Candidate("bundled", "bundled", 1, {"gpu"}, FALSE)}
MCMigrations == {<<1, 2>>}

-----------------------------------------------------------------------------
\* Of the initial states of a component, the one in which it is while another acts.
Dormant == admitted = {} /\ weight = [p \in Profiles |-> 1]
SocketDormant == path = "none"
PublisherDormant == attached = {}

\* Each behaviour is one component's; the others stay in an initial state.

SumInit ==
    /\ Init /\ Channel!Init /\ Socket!Init /\ Consents!Init /\ Publisher!Init
    /\ part \in {"pool", "channel", "socket", "consent", "publication"}
    /\ part # "pool" => Dormant
    /\ part # "socket" => SocketDormant
    /\ part # "publication" => PublisherDormant

SumNext ==
    \/ /\ part = "pool"
       /\ UNCHANGED <<part, channelVars, socketVars, consentVars, snapshotVars>>
       /\ Next
    \/ /\ part = "channel"
       /\ UNCHANGED <<part, vars, socketVars, consentVars, snapshotVars>>
       /\ Channel!Next
    \/ /\ part = "socket"
       /\ UNCHANGED <<part, vars, channelVars, consentVars, snapshotVars>>
       /\ Socket!Next
    \/ /\ part = "publication"
       /\ UNCHANGED <<part, vars, channelVars, socketVars, consentVars>>
       /\ Publisher!Next
    \/ /\ part = "consent"
       /\ UNCHANGED <<part, vars, channelVars, socketVars, snapshotVars>>
       /\ Consents!Next
    \* only the bounds stop the others: that is no deadlock
    \/ part # "pool" /\ UNCHANGED sumVars

=============================================================================
