---------------------------- MODULE Publication -----------------------------
(***************************************************************************)
(* The runtime snapshot and what feeds it: the loop that publishes it      *)
(* (publish_loop.py), the devices discovered on the host (discovery.py,    *)
(* device_events.py, device_registry.py), the telemetry of jobs            *)
(* (plugins/telemetry.py, telemetry_observation.py), the alerts            *)
(* (plugins/summaries.py) and the profile statuses (profile_selection.py), *)
(* as service.py wires them.                                               *)
(*                                                                         *)
(* A tick awaits: the grants and the readiness are refreshed, the snapshot *)
(* is built and written off the event loop, and everything it shows may    *)
(* change meanwhile.                                                       *)
(***************************************************************************)
EXTENDS Integers, Sequences, SequencesExt, FiniteSets, FiniteSetsExt

CONSTANTS
    Nodes,          \* device nodes the host may have
    BackendOf,      \* by node: "gpu", "npu", "tpu"
    NodeNumber,     \* by node: its number
    Selected,       \* by backend: the node selected in the environment, or NoNode
    NoNode,
    Workloads,      \* profiles of the runtime itself
    Plugins,        \* profiles that run in plugin workers
    Preference,     \* by workload: the backends it runs on, the preferred first
    WithModel,      \* the workloads that come with a model
    Source,         \* what open_device_changes gives: "events" or "polling"
    MaxAlerts,      \* bound: result summaries
    MaxRunning,     \* bound: jobs of a profile at once
    MaxChanges      \* bound: changes of the world and faults

ProfileIds == Workloads \cup Plugins

\* A profile is the runtime's own or a plugin's.
KindsAssumption == Workloads \cap Plugins = {}

VARIABLES
    attached,   \* the hardware the kernel knows
    nodes,      \* the nodes udev has made for it
    uevents,    \* kernel and udev events in the netlink socket
    source,     \* "events", "polling"
    detecting,  \* the rediscovery loop is about to detect
    registry,   \* the devices of DeviceRegistry
    onHold,     \* the profiles policy holds: the disabled ones, all when paused
    granted,    \* the grants as the service has them
    consents,   \* the grants on disk
    telemetry,  \* by profile: what PluginTelemetryRegistry holds
    jobsOf,     \* by profile: jobs accepted and not ended (_active)
    working,    \* by profile: jobs with a slot of the plugin pool or on a lane
    unavailable, \* plugins whose device lease could not be re-established
    degraded,   \* backends whose lane failed
    ready,      \* workloads whose artifact is ready
    alerts,     \* result summaries retained
    publisher,  \* where SnapshotPublishLoop.run is
    view,       \* the snapshot being built
    wake, waking, retracted, lastPublished, heartbeat,
    disk,       \* the snapshot on disk
    doubt,      \* the last write failed, though it may have taken effect
    failedTick, \* the last tick raised
    changes     \* changes and faults so far

discoveryVars == <<attached, nodes, uevents, source, detecting, registry>>
workVars == <<working, unavailable, degraded, ready>>
feedVars == <<onHold, granted, consents, telemetry, jobsOf, alerts, workVars>>
loopVars == <<publisher, view, wake, waking, retracted, lastPublished, heartbeat,
              disk, doubt, failedTick>>
publicationVars == <<discoveryVars, feedVars, loopVars, changes>>

-----------------------------------------------------------------------------
(* Discovery.                                                                *)

\* _numbered_nodes: the nodes of a backend in the order of their numbers.
Numbered(present, backend) ==
    SetToSortSeq({n \in present : BackendOf[n] = backend},
                 LAMBDA a, b : NodeNumber[a] < NodeNumber[b])

\* _selected: the first candidate, unless one is named: then that one or none.
SelectedOf(candidates, backend) ==
    IF Selected[backend] # NoNode THEN {Selected[backend]} \cap Range(candidates)
    ELSE IF candidates = <<>> THEN {} ELSE {candidates[1]}

DetectTpu(present) == SelectedOf(Numbered(present, "tpu"), "tpu")
DetectNpu(present) == SelectedOf(Numbered(present, "npu"), "npu")
DetectGpus(present) == Range(Numbered(present, "gpu"))

\* detect_devices: every GPU, and one device of the other kinds.
Detect(present) == DetectGpus(present) \cup DetectNpu(present) \cup DetectTpu(present)

-----------------------------------------------------------------------------
(* Telemetry of the jobs.                                                    *)

\* PluginTelemetry: the counts (its times, its health and its readiness tell no
\* property anything, and are left out).
Unregistered == [known |-> FALSE, queued |-> 0, active |-> 0]

\* _initial.
Initial == [Unregistered EXCEPT !.known = TRUE]

\* PluginTelemetryRegistry.register.
Registered(t) == IF t.known THEN t ELSE Initial

\* queue_job, then start_job.
QueueJob(t) == IF t.known THEN [t EXCEPT !.queued = @ + 1] ELSE t
StartJob(t) ==
    IF t.known /\ t.queued > 0
    THEN [t EXCEPT !.queued = @ - 1, !.active = @ + 1] ELSE t

\* succeed and fail: refused, and the refusal swallowed, when no job of the
\* profile is counted as active.
SucceedOrFail(t) == IF t.known /\ t.active > 0 THEN [t EXCEPT !.active = @ - 1] ELSE t

\* Mutant: only a queued job is taken off by a cancellation.
CancelQueued(t) == IF t.known /\ t.queued > 0 THEN [t EXCEPT !.queued = @ - 1] ELSE t

Cancel(t) ==
    IF t.known /\ t.active > 0 THEN [t EXCEPT !.active = @ - 1]
    ELSE IF t.known /\ t.queued > 0 THEN [t EXCEPT !.queued = @ - 1]
    ELSE t

\* TelemetryJobObserver.job_finished.
Finished(t, status) == IF status = "cancelled" THEN Cancel(t) ELSE SucceedOrFail(t)

-----------------------------------------------------------------------------
(* The snapshot.                                                             *)

NoSnapshot ==
    [present |-> FALSE, devices |-> {}, onHold |-> {}, alerts |-> 0,
     active |-> [p \in ProfileIds |-> 0], status |-> [p \in ProfileIds |-> "none"]]

\* policy_hold: paused, or the profile disabled.
PolicyHold(p, held) == p \in held

\* select_backend: the preferred one of the backends that have a device (that
\* run the model's format, are available and not ruled out by a device choice).
BackendsFor(p, devices) ==
    SelectSeq(Preference[p], LAMBDA b : \E d \in devices : BackendOf[d] = b)

\* profile_status of a workload.
WorkloadStatus(p, seen) ==
    LET found == BackendsFor(p, seen.devices)
    IN  IF PolicyHold(p, seen.onHold) THEN "paused-by-policy"
        ELSE IF found = <<>> THEN "device-absent"
        ELSE IF found[1] \in seen.degraded THEN "backend-degraded"
        ELSE IF p \notin WithModel THEN "no-model"
        ELSE IF p \notin granted THEN "consent-missing"
        ELSE IF p \notin ready THEN "artifact-unavailable"
        ELSE IF seen.running[p] > 0 THEN "running" ELSE "watching"

\* Mutant: what runs is asked before what policy holds.
PluginStatusUnheld(p, held) ==
    IF p \in unavailable THEN "device-unavailable"
    ELSE IF working[p] > 0 THEN "running"
    ELSE IF PolicyHold(p, held) THEN "paused-by-policy" ELSE "idle"

\* plugin_profile_status, by what the pool counts as running (profile_stats).
PluginStatus(p, held) ==
    IF p \in unavailable THEN "device-unavailable"
    ELSE IF PolicyHold(p, held) THEN "paused-by-policy"
    ELSE IF working[p] > 0 THEN "running" ELSE "idle"

\* OmniTensorService._profile_statuses.
ProfileStatuses(seen) ==
    [p \in ProfileIds |->
        IF p \in Workloads THEN WorkloadStatus(p, seen) ELSE PluginStatus(p, seen.onHold)]

\* build_snapshot from what was read earlier and what is read last.
BuildSnapshot(seen) ==
    [present |-> TRUE, devices |-> seen.devices, onHold |-> seen.onHold, alerts |-> alerts,
     active |-> [p \in ProfileIds |-> telemetry[p].active],
     status |-> ProfileStatuses(seen)]

-----------------------------------------------------------------------------

NewTelemetry == [p \in ProfileIds |-> IF p \in Workloads THEN Initial ELSE Unregistered]
Idle == [p \in ProfileIds |-> 0]

\* OmniTensorService.__init__ (open_device_changes gives the source).
Init ==
    /\ attached \in {{}, Nodes} /\ nodes = attached /\ uevents = {}
    /\ source = Source
    /\ onHold = {} /\ consents = Workloads /\ granted = consents
    /\ detecting = FALSE /\ registry = Detect(nodes)
    /\ telemetry = NewTelemetry /\ jobsOf = Idle /\ alerts = 0
    /\ working = Idle /\ unavailable = {} /\ degraded = {} /\ ready = WithModel
    /\ publisher = "before" /\ view = NoSnapshot
    /\ wake = FALSE /\ waking = FALSE /\ retracted = FALSE
    /\ lastPublished = NoSnapshot /\ heartbeat = TRUE
    /\ doubt = FALSE /\ failedTick = FALSE
    /\ disk = NoSnapshot /\ changes = 0

\* The process is killed and started again; the file outlives it.
Restart ==
    /\ changes < MaxChanges /\ changes' = changes + 1
    /\ uevents' = {} /\ source' = Source
    /\ detecting' = FALSE /\ registry' = Detect(nodes) /\ granted' = consents
    /\ telemetry' = NewTelemetry /\ jobsOf' = Idle /\ alerts' = 0
    /\ working' = Idle /\ unavailable' = {} /\ degraded' = {}
    /\ publisher' = "before" /\ view' = NoSnapshot
    /\ wake' = FALSE /\ waking' = FALSE /\ retracted' = FALSE
    /\ lastPublished' = NoSnapshot /\ heartbeat' = TRUE
    /\ doubt' = FALSE /\ failedTick' = FALSE
    /\ UNCHANGED <<attached, nodes, onHold, consents, ready, disk>>

Change == changes < MaxChanges /\ changes' = changes + 1

\* request_publish: a no-op when a publish is pending already.
RequestPublish == waking' = (waking \/ ~wake) /\ UNCHANGED wake

\* call_soon_threadsafe runs what request_publish left it.
WakeSet ==
    /\ waking /\ waking' = FALSE /\ wake' = TRUE
    /\ UNCHANGED <<discoveryVars, feedVars, changes, publisher, view, retracted,
                   lastPublished, heartbeat, disk, doubt, failedTick>>

loopButWake == <<publisher, view, retracted, lastPublished, heartbeat, disk, doubt,
                 failedTick>>

-----------------------------------------------------------------------------
(* The host and the rediscovery loop.                                        *)

\* The kernel adds or removes hardware, and says so before udev does.
HardwareChanges(now) ==
    /\ Change /\ now # attached
    /\ attached' = now
    /\ uevents' = uevents \cup {"kernel"}
    /\ UNCHANGED <<nodes, source, detecting, registry, feedVars, loopVars>>

\* UEVENT_GROUPS: the events of udev are subscribed to as well, and come when
\* the node is there.
UdevGroup(queue) == queue \cup {"udev"}

UdevSettles ==
    /\ nodes # attached
    /\ nodes' = attached
    /\ uevents' = UdevGroup(uevents)
    /\ UNCHANGED <<attached, source, detecting, registry, feedVars, loopVars, changes>>

\* wait_for_change, _drain: everything queued is read and one change reported.
WaitForChange ==
    /\ source = "events" /\ uevents # {} /\ ~detecting
    /\ uevents' = {} /\ detecting' = TRUE
    /\ UNCHANGED <<attached, nodes, source, registry, feedVars, loopVars, changes>>

\* The socket fails (a full buffer is an error too): from now on it polls.
SourceCloses ==
    /\ Change /\ source = "events" /\ ~detecting
    /\ source' = "polling"
    /\ UNCHANGED <<attached, nodes, uevents, detecting, registry, feedVars, loopVars>>

\* _sleep_until_stopping ran out.
PollInterval ==
    /\ source = "polling" /\ ~detecting /\ registry # Detect(nodes)
    /\ detecting' = TRUE
    /\ UNCHANGED <<attached, nodes, uevents, source, registry, feedVars, loopVars, changes>>

\* _apply_discovery.
ApplyDiscovery ==
    /\ detecting /\ detecting' = FALSE
    /\ registry' = Detect(nodes)
    /\ IF registry' # registry THEN RequestPublish ELSE UNCHANGED <<wake, waking>>
    /\ UNCHANGED <<attached, nodes, uevents, source, feedVars, loopButWake, changes>>

-----------------------------------------------------------------------------
(* What the snapshot shows changes.                                          *)

\* _policy_changed.
PolicyChanged ==
    /\ Change /\ onHold' \in SUBSET ProfileIds \ {onHold} /\ RequestPublish
    /\ UNCHANGED <<discoveryVars, granted, consents, telemetry, jobsOf, alerts, workVars,
                   loopButWake>>

\* A grant is written by the command line; the service finds out by itself.
ConsentChanges ==
    /\ Change /\ consents' = Workloads \ consents
    /\ UNCHANGED <<discoveryVars, onHold, granted, telemetry, jobsOf, alerts, workVars, loopVars>>

\* _start_plugin_runtime, _plugin_runtime_reloaded: the plugins are registered.
PluginsStarted ==
    /\ \E p \in Plugins : ~telemetry[p].known
    /\ telemetry' = [p \in ProfileIds |-> Registered(telemetry[p])]
    /\ UNCHANGED <<discoveryVars, onHold, granted, consents, jobsOf, alerts, workVars, loopVars, changes>>

\* PublishingJobObserver.job_started; a job of a plugin may start before its
\* plugin is registered here.
JobStarted(p) ==
    /\ Change /\ jobsOf[p] < MaxRunning
    /\ jobsOf' = [jobsOf EXCEPT ![p] = @ + 1]
    /\ telemetry' = [telemetry EXCEPT ![p] = StartJob(QueueJob(@))]
    /\ RequestPublish
    /\ UNCHANGED <<discoveryVars, onHold, granted, consents, alerts, workVars, loopButWake>>

\* ResultSummaryObserver.summarize: a delivered result leaves an alert.
Summarize(p) ==
    /\ jobsOf[p] > 0 /\ alerts < MaxAlerts
    /\ alerts' = alerts + 1
    /\ UNCHANGED <<discoveryVars, onHold, granted, consents, telemetry, jobsOf, workVars,
                   loopVars, changes>>

\* A slot of the pool, or a turn on a lane, goes to a job that waited for it
\* (both ask `_admits`), and nobody asks for a publish.
WorkBegins(p) ==
    /\ p \notin onHold \cup unavailable
    /\ working[p] < jobsOf[p]
    /\ working' = [working EXCEPT ![p] = @ + 1]
    /\ UNCHANGED <<discoveryVars, onHold, granted, consents, telemetry, jobsOf, alerts,
                   unavailable, degraded, ready, loopVars, changes>>

\* The job gives it back, and again nobody asks.
WorkEnds(p) ==
    /\ working[p] > 0
    /\ working' = [working EXCEPT ![p] = @ - 1]
    /\ UNCHANGED <<discoveryVars, onHold, granted, consents, telemetry, jobsOf, alerts,
                   unavailable, degraded, ready, loopVars, changes>>

\* reload_accelerators: the attempts for these plugins came to an end.
LeasesReloaded(affected) ==
    /\ Change
    /\ unavailable' \in {unavailable \cup affected, unavailable \ affected}
    /\ UNCHANGED <<discoveryVars, onHold, granted, consents, telemetry, jobsOf, alerts,
                   working, degraded, ready, loopVars>>

\* A workload's artifact is installed, or withdrawn.
ArtifactChanges(p) ==
    /\ Change
    /\ ready' = (ready \cup {p}) \ (ready \cap {p})
    /\ UNCHANGED <<discoveryVars, onHold, granted, consents, telemetry, jobsOf, alerts, working,
                   unavailable, degraded, loopVars>>

\* _degrade: the loop of a lane failed.
LaneDegrades(backend) ==
    /\ Change /\ degraded' = degraded \cup {backend}
    /\ UNCHANGED <<discoveryVars, onHold, granted, consents, telemetry, jobsOf, alerts,
                   working, unavailable, ready, loopVars>>

\* _clear_degradation: a job of the lane succeeded, or its device is gone.
LaneRecovers(backend) ==
    /\ degraded' = degraded \ {backend}
    /\ UNCHANGED <<discoveryVars, onHold, granted, consents, telemetry, jobsOf, alerts,
                   working, unavailable, ready, loopVars, changes>>

\* PublishingJobObserver.job_finished: a plugin's job has given its slot back by
\* then; a workload's that was cancelled may leave its lane busy.
JobFinished(p, status) ==
    /\ jobsOf[p] > 0
    /\ p \in Plugins => working[p] < jobsOf[p]
    /\ jobsOf' = [jobsOf EXCEPT ![p] = @ - 1]
    /\ telemetry' = [telemetry EXCEPT ![p] = Finished(@, status)]
    /\ RequestPublish
    /\ UNCHANGED <<discoveryVars, onHold, granted, consents, alerts, workVars, loopButWake, changes>>

-----------------------------------------------------------------------------
(* SnapshotPublishLoop.                                                      *)

\* Mutant: the event is cleared before it is waited for.
AwaitBeginsClearing == publisher' = "waiting" /\ wake' = FALSE

\* await_next: begins to wait with whatever was asked for during the tick (for
\* how long depends on whether the tick found anything new).
AwaitBegins == publisher' = "waiting" /\ UNCHANGED wake

\* _before_publish_tick: with devices, the grants when they are due (and the
\* health and the readiness of the plugins).
BeforeTick ==
    /\ publisher = "before" /\ publisher' = "tick"
    /\ granted' \in IF registry = {} THEN {granted} ELSE {granted, consents}
    /\ UNCHANGED <<discoveryVars, onHold, consents, telemetry, jobsOf, alerts, workVars, view, wake,
                   waking, retracted, lastPublished, heartbeat, disk, doubt, failedTick, changes>>

\* The tick chooses; the scheduler is observed on the event loop.
Tick ==
    /\ publisher = "tick"
    /\ IF registry # {}
       THEN /\ publisher' = "building" /\ retracted' = FALSE /\ UNCHANGED wake
            /\ view' = [running |-> working, degraded |-> degraded]
       ELSE /\ IF retracted THEN AwaitBegins ELSE publisher' = "retracting" /\ UNCHANGED wake
            /\ UNCHANGED <<retracted, view>>
    /\ failedTick' = FALSE
    /\ UNCHANGED <<discoveryVars, feedVars, waking, lastPublished, heartbeat, disk, doubt, changes>>

\* _build_runtime_snapshot on a thread: the devices and the policy first ...
BuildStarts ==
    /\ publisher = "building" /\ publisher' = "reading"
    /\ view' = [running |-> view.running, degraded |-> view.degraded,
                devices |-> registry, onHold |-> onHold]
    /\ UNCHANGED <<discoveryVars, feedVars, wake, waking, retracted, lastPublished,
                   heartbeat, disk, doubt, failedTick, changes>>

\* ... the artifacts, the plugins, the alerts and the telemetry last.
BuildEnds ==
    /\ publisher = "reading" /\ publisher' = "built"
    /\ view' = BuildSnapshot(view)
    /\ UNCHANGED <<discoveryVars, feedVars, wake, waking, retracted, lastPublished,
                   heartbeat, disk, doubt, failedTick, changes>>

\* changed: the content differs from what was last published.
Changed == view # lastPublished

\* Only a tick looks whether it is due, so it may as well fall due before one.
HeartbeatDue ==
    /\ publisher = "waiting" /\ ~heartbeat /\ heartbeat' = TRUE
    /\ UNCHANGED <<discoveryVars, feedVars, publisher, view, wake, waking, retracted,
                   lastPublished, disk, doubt, failedTick, changes>>

\* record_published.
RecordPublished == lastPublished' = view /\ heartbeat' = FALSE

\* The rest of _publish_tick: written, or nothing new and no heartbeat due.
PublishTick ==
    /\ publisher = "built" /\ AwaitBegins
    /\ IF Changed \/ heartbeat
       THEN disk' = view /\ RecordPublished /\ doubt' = FALSE
       ELSE UNCHANGED <<disk, lastPublished, heartbeat, doubt>>
    /\ view' = NoSnapshot
    /\ UNCHANGED <<discoveryVars, feedVars, waking, retracted, failedTick, changes>>

\* _retract.
Retract ==
    /\ publisher = "retracting" /\ AwaitBegins
    /\ disk' = NoSnapshot /\ retracted' = TRUE
    /\ lastPublished' = NoSnapshot /\ heartbeat' = TRUE /\ doubt' = FALSE
    /\ UNCHANGED <<discoveryVars, feedVars, view, waking, failedTick, changes>>

\* The write, or the removal, raises an OSError: before it took effect or after
\* (the directory could not be synced).
TickFails ==
    /\ Change
    /\ \/ publisher = "built" /\ (Changed \/ heartbeat) /\ disk' \in {disk, view}
       \/ publisher = "retracting" /\ disk' \in {disk, NoSnapshot}
    /\ AwaitBegins /\ view' = NoSnapshot
    /\ failedTick' = TRUE /\ doubt' = TRUE
    /\ UNCHANGED <<discoveryVars, feedVars, waking, retracted, lastPublished, heartbeat>>

\* await_next ends, woken or after the interval, and clears the event.
AwaitNext ==
    /\ publisher = "waiting"
    /\ publisher' = "before" /\ wake' = FALSE
    /\ UNCHANGED <<discoveryVars, feedVars, view, waking, retracted, lastPublished,
                   heartbeat, disk, doubt, failedTick, changes>>

-----------------------------------------------------------------------------

Next ==
    \/ Restart \/ WakeSet
    \/ \E now \in SUBSET Nodes : HardwareChanges(now)
    \/ UdevSettles \/ WaitForChange \/ SourceCloses \/ PollInterval \/ ApplyDiscovery
    \/ PolicyChanged \/ ConsentChanges \/ PluginsStarted
    \/ \E p \in ProfileIds :
          JobStarted(p) \/ Summarize(p) \/ WorkBegins(p) \/ WorkEnds(p)
          \/ \E s \in {"succeeded", "failed", "cancelled"} : JobFinished(p, s)
    \/ \E affected \in SUBSET Plugins \ {{}} : LeasesReloaded(affected)
    \/ \E n \in registry : LaneDegrades(BackendOf[n])
    \/ \E b \in degraded : LaneRecovers(b)
    \/ \E p \in WithModel : ArtifactChanges(p)
    \/ BeforeTick \/ Tick \/ BuildStarts \/ BuildEnds \/ PublishTick \/ Retract \/ TickFails
    \/ AwaitNext \/ HeartbeatDue

\* Nothing asked for a publish since the tick began.
Settled == publisher = "waiting" /\ ~wake /\ ~waking /\ ~failedTick /\ ~doubt

\* What a status says of a profile: held exactly when policy holds it (a plugin
\* may be without its device instead), and never running while it is held or,
\* for a plugin, while none of its jobs is left.
StatusIsRight(p, status) ==
    /\ status = "paused-by-policy" => p \in onHold
    /\ p \in onHold => \/ status = "paused-by-policy"
                       \/ p \in Plugins /\ status = "device-unavailable"
    /\ p \in Plugins /\ status = "running" => jobsOf[p] > 0

\* While the publisher waits with nothing pending, what readers see is what the
\* service has (SnapshotPublishLoop.run, request_publish, await_next): no
\* snapshot without devices, and with devices the devices, the policy, the jobs
\* and what a status says of either, as they are; and with device events, the
\* devices are the ones udev shows once nothing is queued (wait_for_change,
\* _apply_discovery).  A slot granted, a lane or a lease lost ask for no
\* publish, so a status tells of them only at the next tick.
ShownIsCurrent ==
    /\ Settled => /\ disk.present = (registry # {})
                  /\ disk.present =>
                        /\ disk.devices = registry /\ disk.onHold = onHold
                        /\ \A p \in ProfileIds : disk.active[p] = telemetry[p].active
                        /\ \A p \in ProfileIds : StatusIsRight(p, disk.status[p])
                        /\ jobsOf = [p \in ProfileIds |-> 0] => disk.alerts = alerts
    /\ source = "events" /\ uevents = {} /\ ~detecting /\ nodes = attached =>
          registry = Detect(nodes)

\* The telemetry counts no job that does not run (TelemetryJobObserver,
\* PluginTelemetryRegistry), in whatever order registration, starts and ends of
\* jobs come; a profile that was registered when its jobs started, as a workload
\* is, shows exactly the jobs that run.
TelemetryAgrees ==
    \A p \in ProfileIds :
        /\ telemetry[p].active <= jobsOf[p] /\ telemetry[p].queued = 0
        /\ p \in Workloads => telemetry[p].active = jobsOf[p]

\* What the desktop is shown is what is: a change that nothing is waiting to publish is in the
\* snapshot on disk, and the job counts shown agree with the jobs (PublishLoop, telemetry
\* observation).
PublicationSound == ShownIsCurrent /\ TelemetryAgrees

Spec == Init /\ [][Next]_publicationVars

=============================================================================
