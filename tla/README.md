# A TLA+ verification of OmniTensor's runtime

OmniTensor is an asyncio service that runs AI workloads on a machine's
accelerators. It admits jobs from local callers, queues them per device or per
plugin worker, runs them, and answers polls and cancellations, while devices
come and go, policy commands change what may run where, plugin workers are
replaced, and the service itself is stopped and started. Almost everything runs
on one event loop; blocking calls (executors, file writes, process control) run
on a pool of threads that nothing can interrupt. The hard part of this program
is therefore not parallelism on shared memory, with one exception (the model
store below), but what may happen between two steps of a coroutine: at every
`await`, every callback and every cancellation.

The modules here are translated from the code under `src/src/omnitensor`. TLC
checks them on small instances; TLAPS proves the main invariants of the core
for every value of the constants.

## 1. The system

| part | state it keeps | operations | interacts with |
| --- | --- | --- | --- |
| stride queue (`stride.py`) | a FIFO, a place in the round and a pass value per profile | push, choose, pop, discard, clamp | the admission pool and each scheduler lane own one |
| plugin admission pool (`plugin_admission.py`, `dispatch_routing.py`) | waiting futures, running counts per profile, the queue | submit, acquire, refuse, pump, resume, finish, cancel, kick | gates from the lifecycle and policy; width from host pressure |
| plugin lifecycle (`plugin_lifecycle.py`) | `pending`, `unavailable`, the reload task and its request flag | schedule a reload, attempt, retry, succeed, give up | read by the pool's gate; written by the policy listener in `service.py` |
| job submission (`job_lifecycle.py`, `plugins/job_results.py`) | active tasks, the bounded and expiring records, whether it accepts | submit, progress, complete, cancel, poll, stop, start | owns the tasks that wait in the pool or on a lane |
| scheduler (`scheduler.py`) | a queue, a worker and a wakeup per backend, running counts, failure evidence | submit, take, execute, degrade, replace backends, kick, stop, start | executor calls on pool threads; discovery; policy |
| model store (`executors/base.py`) | cached runtime objects, a cache lock, an in-flight count, parked releases | look up, build, evict, release, close | job threads and the event loop, really in parallel |
| service (`service.py`, `composition.py`) | the wiring, the stopping flag, the monitors | run, apply discovery, policy changed, stop | all of the above |
| control and state (`control.py`, `registry.py`, `state.py`, `atomicio.py`) | policy, its revision, the file on disk | validate, mutate, persist, publish | the policy listener |
| publication (`publish_loop.py`, `snapshot.py`, `telemetry_observation.py`, `plugins/telemetry.py`) | a request flag, a deadline, the last snapshot, running counts, alerts | request, refresh, build, write, retract | reads every part, partly from another thread |
| discovery (`discovery.py`, `device_events.py`) | device list, event source | wait for change, probe, fall back to polling | replaces executors, requests a publish |
| control socket (`socket_transport.py`, `guard.py`, `callers.py`) | a lock file, the socket path, connections, quotas | lock, probe, bind, serve, stop | the request handlers |
| plugin workers (`plugins/supervisor*.py`, `loading.py`) | one process per plugin, its recovery state, holds | start, invoke, cancel, crash, recover, revoke, stop | the dispatcher above, a sandboxed process below |
| worker channel (`plugins/ipc.py`, `worker.py`, `budgets.py`) | two pipes, the call charged, the frame half read | handshake, call, progress, chunks, cancel, stop | the supervisor |
| job pipeline (`plugins/flow.py`, `runner.py`, `pipeline.py`, `cancellation.py`, `dispatch.py`) | stages, coalesced keys, retained results, the in-flight journal | submit, stages, retry, deliver, cancel, recover | dispatch, the scheduler |
| artifact store (`plugins/artifact_*.py`, the installers, `artifact_readiness.py`) | versions, activations and a journal on disk; readiness in memory | stage, verify, install, activate, roll back, evict, resolve | commands in other processes |
| grants, settings, secrets (`plugins/grants.py`, `settings.py`, `secrets.py`, `consent.py`, `plugins/discovery.py`) | versioned documents under a store lock | approve, revoke, compare and set, migrate | worker specifications |
| triggers and collectors (`plugins/triggers.py`, `*collection.py`) | a bounded queue, the previous items | submit, tick, collect, emit | consent, host sources |
| telemetry history (`telemetry_recorder.py`, `training/forecast*.py`, `runner.py`) | segments of rows on disk | record, rotate, prune, read, forecast | commands in other processes |
| document work (`plugins/document_*.py`, `file_*.py`, `selected_text.py`, `generation*.py`, `fragments.py`, `spans.py`, `extraction.py`) | fragments, passes, engines | read, split, generate, fall back, ground, discard | generation workers |
| events (`plugins/event*.py`, `event_cli.py`) | candidates, decisions, a calendar file | parse, merge, decide, preview, export | document work |
| library index (`plugins/index.py`, `search.py`, `ingestion.py`) | an index file with a revision, cursors | scan, upsert, label, search | the person's files |
| media and low light (`plugins/media_transcription.py`, the provider's `formats.py` and `models.py`, `lowlight*.py`) | frames, a loaded model, output files | inspect, transcribe, sample, enhance, publish | native tools |
| files a job reads (`plugins/loading_staging.py`, `tensorref.py`, `plugins/offloop.py`) | private copies per job, a removal on a pool thread | stage, digest, copy, verify, reuse, remove; verify and load a tensor | the person's files, worker dispatch |
| model sources (`training/recipe_*.py`, `production_pipeline.py`, the `*_production.py` producers) | a published folder of sources with a receipt, a model and its report | load a recipe, fetch, publish, open, export, gate, report, clean up | servers, commands in other processes |
| trainers and promotion (`training/*.py`, `conversion.py`, `preparation.py`) | model, report, compiled files, bindings | label, split, fit, compile, compare, install | the artifact store |
| benchmarks, SDK, acceptance tools, providers | files | offline | none at run time |

`PROJECT.json` lists every part with its sources and status, and the hazards
with the line at which each bites.

What makes each modelled part correct:

* **pool**: no slot is leaked or invented, the pool is never over its width, no
  waiter is lost, no slot idles while admitted work waits, profiles share in
  proportion to weight within one step, and a waiting job runs in the end;
* **lifecycle**: a worker that predates the chosen device or model serves
  nothing, however commands and reload attempts overlap;
* **jobs**: what a caller is told is true, final and only its own business, and
  the capacity of a job that ended comes back;
* **scheduler**: every future settles, no worker sleeps on available work, the
  published counts and failure evidence are true;
* **model store**: nothing is released under a running job or twice, nothing
  parked is forgotten, no retired model is served;
* **workers**: at most one process per plugin that serves, every process somebody's
  to stop unless it was given up, no recovery left registered, no worker stopped under a job, and nobody waits
  for ever on the supervisor's lock;
* **control**: a revision names one policy, across crashes and restarts; what a
  client was shown is on disk; no error path keeps the control lock;
* **channel**: an answer goes to the call that asked, a worker kept after a
  cancellation has a clean pipe, and the charge of a call is returned;
* **pipeline**: whoever was interrupted by a kill is told so, a coalesced job
  ends with its leader, inference runs on the device that was prepared;
* **publication**: what readers see is the devices, the policy and the jobs the
  service has, or a publish is on its way; the running counts are the jobs;
* **socket**: clients reach one service, and quotas count the calls that run;
* **grants and settings**: one history, whoever writes, and no stale overwrite;
* **collection**: every event is followed by a collection, churn is told once unless
  the output that tells it is refused for its size;
* **artifact store**: what is activated is installed, remembered readiness is true;
* **history**: it increases, and what was reported as recorded can be read back;
* **files a job reads**: a worker is given whole copies of what was selected, a
  tensor that runs is the one declared, and no private copy outlives its job;
* **model sources**: a published source is whole and its recipe's, and a
  production report is true of the model beside it;
* **promotion**: what is bound and served was compiled from the model its report
  names;
* **training**: labels follow from what was observed, the holdout is unseen but for
  the one snapshot that network rows share;
* **document work**: every word is in a pass, one engine answered, nothing
  private remains; passes over a long document join without gap or overlap;
* **events**: the merge keeps the first of each duplicate, an export has what was
  confirmed and nothing that was rejected, in a file that was not there;
* **index**: pages of one query, and labels, hold against the index they were
  read from;
* **media, low light**: no frame, model or scratch file outlives its job but where the
  cleanup itself failed or was cut short; no photograph and no output is overwritten.

## 2. Modules

```
StrideQueue ──EXTENDS── PluginAdmission ──INSTANCE── ServiceAdmission
     └───────EXTENDS── Scheduler
JobSubmission        ModelStore        PolicyControl        WorkerSupervisor

MCAdmissionParts = PluginAdmission | Publication | ControlSocket | Consent | WorkerChannel
MCMountParts     = ServiceAdmission | Collection | TelemetryHistory | LowLight | SelectedInputs
MCServiceParts   = PolicyControl | JobPipeline | ArtifactStore | GroundedWork
MCModelParts     = ModelStore | ModelSources | Promotion | TrainingData | EventResults
                 | LibraryIndex | Extraction | MediaTranscription

AdmissionParts = WorkerChannel, ControlSocket, Consent, Publication
                 extended by MCAdmissionParts, PluginAdmissionProofs
MountParts     = Collection, LowLight, SelectedInputs, TelemetryHistory
                 extended by MCMountParts, ServiceAdmissionProofs
ModelParts     = Promotion, MediaTranscription, ModelSources, LibraryIndex
                 extended by MCModelParts, ModelStoreProofs
ServiceParts   = JobPipeline, ArtifactStore
                 extended by MCServiceParts, PolicyControlProofs
```

* **`StrideQueue`** — `stride.StrideQueue` as operators on a record of FIFOs,
  round order and pass values. `Popped` is the whole of `pop`: choose, charge,
  prune, clamp the profiles that were held out.
* **`PluginAdmission`** — `PluginAdmissionQueue`. One action per stretch of code
  between two awaits. The pump (`_pump`) is a loop that runs to its end in one
  turn of the event loop, but it reads the host's pressure for each grant, so
  it is a sequence of `PumpServe` steps during which only the pressure may
  change. `quiet` remembers whether the gate or the pressure has changed since
  the last pump without causing one.
* **`ServiceAdmission`** — `PluginLifecycle` and `service._policy_changed` around
  an instance of the pool: the gate is `pending` and `unavailable`, a policy
  command changes mounts, kicks the pool and schedules a reload, and a reload
  attempt replaces workers with whatever mounts are chosen when it starts.
* **`JobSubmission`** — `JobSubmissionService` over `JobResultStore`. A task that
  ends and the done-callback that records it are different turns; the record
  store is a sequence in update order of which a prefix may have expired. The
  operation is a black box that may never end. `_abandon_job` is not there: it
  answers a task that could not be created after the job was recorded, an error
  between two statements with no await, and no property depends on it.
* **`Scheduler`** — `Scheduler` with the part of `service.run` that starts it,
  replaces its executors and closes them. The executor call is a state of its
  own (`thread`), because a cancelled worker unwinds while its thread runs on.
* **`ModelStore`** — `ModelCache` and `ModelStore`, at the grain of their locks.
  `_cache_lock` is a state (`holder`), since a build happens under it;
  `_state_lock` sections are single steps; releases are steps of their own.
* **`PolicyControl`** — `ControlService` over `PolicyStore` and `atomicio`, with the
  adoption of plugin profiles and the end of `service.run`. The policy exists
  three times: in memory, in the file the next process would read, and in what
  a power failure would leave. A save is three steps of a pool thread (rename,
  directory sync, return); a device or a model choice is one kind of choice, and
  a single-setting command is a batch of one change.
* **`WorkerSupervisor`** — one plugin under `InstalledPluginRuntime` and
  `PluginWorkerSupervisor`. The supervisor's lock is a record of its holder, what
  the holder is doing and to which process, since launches and stops happen
  under it. The recovery task is a record of its own. A monitor needs no state:
  it is enabled when the process in the slot is dead and the lock is free. A
  cancellation ends a task where it awaits; a cleanup behind a shield goes on
  (`reaping`), one without a shield does not, and one that waits in vain after
  SIGKILL ends all the same (`SurvivesKill`); either leaves a process behind
  (`abandoned`). Process numbers are reused once nothing refers to them.
* **`WorkerChannel`** — both ends of the framed pipes. A pipe is a FIFO of frames;
  the service reads a frame in two waits, and a cancellation may fall between
  them, or before the request was sent, or among the chunks of a result.
* **`JobPipeline`** — one profile's jobs through `flow`, `runner` and `pipeline`. A
  stage is a task inside an attempt inside a submission, so the end of a stage,
  of the attempt and of the submission are three steps, with cancellations,
  deadlines and a kill between them. The journal survives the kill.
* **`Publication`** — the tick of the publish loop at the grain of its awaits, the
  device monitor, the telemetry registry, the alerts and the profile statuses. A job is
  counted twice, as in the code: from its submission by the telemetry (`jobsOf`), and
  while it holds a slot of the pool or a turn on its lane (`working`); a status speaks of
  the second count. Devices and holds are read when the tick starts, the rest when the
  snapshot is built. Of `select_backend`, the format of a model, the availability a probe
  reports and the device choice are left out; so are the health and readiness that plugin
  telemetry carries beside the status.
* **`ControlSocket`** — several service processes compete for a path with a lock
  file, one of them possibly an older version that takes no lock; clients call,
  wait and time out under the quotas of their user.
* **`Consent`** — candidates for a plugin id, the grant ledger and the settings as
  files read and written by several processes, with the service's monitor that
  re-reads them and the worker that was launched with what they said.
* **`Collection`** — the trigger queue and one collector of any family; what a
  source says is an arbitrary sample. The coordinator looks at the size of an output
  after the collector has put it in the place of the previous one; `unsaid` remembers
  the churn of an output it refused.
* **`ArtifactStore`** — two command processes install, activate, roll back and evict
  under one flock, and may be killed at every step; the service resolves and
  remembers without the lock.
* **`TelemetryHistory`** — two recorders, rotation, pruning and torn rows, and the
  trainer and the runner that read meanwhile. The rows of the history are the places
  (segment and line) where one can be read back.
* **`SelectedInputs`** — the staging of selected files at the grain of the blocks
  read, against an owner who rewrites and renames; a digest is the sequence that
  was read. A rewrite may keep the size and the mtime (one tick of the clock, or a
  writer that restores it). The removal is a call on the pool that a cancellation
  may catch while it is queued. Tensor references are read twice, at admission
  and at dispatch.
* **`ModelSources`** — fetches and producers of one recipe id and version, all of them
  commands without a lock; a file is the sequence of its chunks and a digest the
  file itself. What an exporter does to a graph is what it does to its shape.
* **`Promotion`** — trainers, promotions and conversion commands on one folder that
  nothing locks; a native is its graph and its weights, since the comparison names
  the primary file alone. `reverted` remembers that a conversion put the files of an
  older model in place of a newer one's.
* **`TrainingData`** — the five tabular trainers' reading of a history: rows, labels
  released when their horizon has passed, gaps, the purged time split. Each example has
  the time from which and until which it was measured; a network row is a rate, from
  one snapshot to the next.
* **`GroundedWork`** — the generative workloads share one shape, and here one module:
  read, publish fragments, split into passes, generate through the router, refuse
  what is not grounded, discard. A document is a sequence of words with sizes.
* **`EventResults`** — parse, merge, qualify, decide, preview, export. An export records
  the decisions it was made from, which the code keeps in its locals.
* **`LibraryIndex`** — scans, labels and paged searches over one index file that
  several processes rewrite.
* **`Extraction`** — bounded passes over a document's pages.
* **`MediaTranscription`** — one media job after another. The sampler, the removal of
  its folder and a vision call run on threads that a cancellation of the job leaves
  behind; the sampler writes frame by frame, and the frames are known to the job only
  once it has returned. **`LowLight`** — the jobs of the enhancer.
* **`AdmissionParts`, `MountParts`, `ModelParts`, `ServiceParts`** — the components that theorems speak
  of besides the one their sum begins with: instances over constants and variables of
  their own, with what is assumed of the constants and the properties, so that the runs
  and the theorems speak of the same definitions.
* **`StrideQueueProofs`, `SchedulerProofs`, `JobSubmissionProofs`,
  `WorkerSupervisorProofs`** — the theorems of the module each is named after.
  **`PluginAdmissionProofs`**, **`ServiceAdmissionProofs`**, **`ModelStoreProofs`** and
  **`PolicyControlProofs`** — likewise, and those of the parts beside it.
* **`MC…`** — instances for TLC.

`MCAdmissionParts`, `MCMountParts`, `MCServiceParts` and `MCModelParts` are sums. Their components share no state with
each other (what passes between two of them is an arbitrary input of each), so
exploring their product would repeat every behaviour of one in every state of
another. A behaviour of a sum is one component's from its initial state on:
`part` says whose it is. A component with variables of its own (the first of the sum,
and those of the `…Parts` modules) stays in an initial state while another one runs.
The others, of which no theorem speaks, have the slots `x1`, `x2`, … for variables
through `INSTANCE … WITH`, and their invariants are stated under `part = …`. Which components share a run has no meaning beyond the time a run takes.

Each definition that models code has an entry in `PROJECT.json` under `map`.
Operators whose comment starts with "Mutant" are deliberately wrong variants of
the definition below them: replacing the definition by its mutant must make TLC
report the property named with it, which shows the property is sensitive to
that code.

What is abstracted everywhere: message texts, JSON encoding, logging, clock
values (a TTL is an `Age` step, a timeout a nondeterministic answer), and the
content of jobs and models.

## 3. Runs

| run | instance | checks |
| --- | --- | --- |
| `admission_parts` | the pool with 3 jobs, 2 profiles, 2 slots, 3 places, weights 1 and 5; four more components, see below | `SlotsSound` (slots and width), `NoLostWaiter`, `WorkConserving`, `BoundedLag`, and one property per component |
| `admission_live` | 3 jobs, 1 slot, 2 places, under fairness | `WaiterServed` |
| `service_mounts` | the pool under reloads with 2 profiles, commands during reloads, failing attempts; four more components | `StaleIsHeld`, that the composition implements `PluginAdmission` (`PoolSpec`), and one property per component |
| `service_wedge` | violation | see section 6 |
| `jobs` | 2 jobs, 2 callers, 1 record retained, operations that may never end, under fairness | `JobsSound` (truth, supervision, isolation), `AnswerIsFinal`, `CapacityReturns` |
| `scheduler` | 3 jobs, 2 profiles, one lane that is removed and returns, one queue place, under fairness | `NothingStranded` (futures, wakeups), `PublishedIsTrue` (counts, evidence), `FutureSettles` |
| `service_parts` | `PolicyControl` and three more components | `PolicySound` and one property per component |
| `model_parts` | `ModelStore` and seven more components | `ReleaseSound` and one property per component |
| `control_ack` | violation | see section 6 |
| `workers` | 2 jobs, 2 processes, 2 restarts, any number of crashes, reloads, grant changes and processes that survive SIGKILL | `OneWorker`, `NoStray`, `RecoverySound`, `WorkSpared` (the idle exit) |
| `workers_live` | 1 job, 2 processes, 1 restart, under fairness | `JobAnswered`, `ReloadStops`, `IdleWorkerLeaves` |
| `workers_revoke` | violation | see section 6 |

The components of the sums, with what makes their instances interesting:

| component | instance | property, and what it joins |
| --- | --- | --- |
| `PolicyControl` | 2 clients and the adoption task, 1 catalog and 1 plugin profile, 1 choice for a table of one place, 2 revisions, kills, power failures and restarts | `PolicySound`: `ShownSurvives`, `RevisionNamesPolicy`, `LockOwned` |
| `WorkerChannel` | 2 calls, 1 at a time, 2 chunks, protocol versions 1 and 2 on both sides | `ChannelSound`: `AnswerIsOwn`, `KeptWorkerIsClean`, `ChargeReturned` |
| `JobPipeline` | 3 jobs, two with one key, 2 devices, 1 in flight, 1 retry, 1 retained, 2 tracked | `PipelineSound`: `InterruptedReported`, `NoOrphanFollower`, `InfersWherePrepared` |
| `Publication` | 1 device node and 1 plugin that come and go, 2 running jobs that wait and work, a lane that degrades, a lease and an artifact that are lost, 1 alert | `PublicationSound`: `ShownIsCurrent`, `TelemetryAgrees` |
| `ControlSocket` | 2 services, possibly an older one before them, 3 clients of 2 users, 2 calls a window, 1 at a time | `SocketSound`: `ReachableServer`, `QuotaIsTrue` |
| `Consent` | up to 2 of 3 candidates, 2 permissions, 2 consent desks, 2 editors, 2 schema versions | `ConsentSound`: `LedgerIsHistory`, `SettingsAreLinear` |
| `Collection` | every family, 2 ids, 1 item shown, 2 pending triggers, outputs of any size | `CollectionSound`: `NoEventMissed`, `ChurnIsTransactional` |
| `ArtifactStore` | 2 processes, 2 artifacts of 2 versions, a cache of 1, kills | `StoreSound`: `ActivationInstalled`, `ReadyIsTrue` |
| `TelemetryHistory` | 2 recorders, 2 segments of 2 lines, 1 power failure or clock step | `HistoryIsTrue` |
| `ModelStore` | 2 threads and `close()`, 2 models, a one-entry cache, 2 builds, one rewrite per file | `ReleaseSound`: `NeverReleasedInUse`, `ReleasedOnce`, `ParkedHasOwner`, `ServesCurrentModel` |
| `ModelSources` | 2 commands, 12 recipes of 6 kinds (8 load), 2 kinds of chunk, 2 measurements, kills, one edit of a published file | `SourcesSound`: `InstalledWhole`, `ClaimsAgree`, `ReportTrue` |
| `SelectedInputs` | 2 inodes under 2 names, also as hard links of one; 3 contents of 1 or 2 blocks; 3 actions of the owner; 2 tensor references | `InputsSound`: `CopyIsWhole`, `StagingRemoved`, `InputsComplete` |
| `Promotion` | 2 trainers, 2 promotions, 2 exports, 2 other commands | `BoundIsProven` |
| `TrainingData` | 5 families, each up to its report; 2 devices, 5 days and a horizon of 1, 7 rows | `TrainingSound`: `LabelsAreTrue`, `HoldoutIsUnseen` |
| `GroundedWork` | 6 kinds of task, 2 documents, 2 engines, 2 mishaps | `GroundingSound`: `NothingPrivateRemains`, `PassesCover`, `GroundedByOne` |
| `EventResults` | 8 raw events in 2 passes, ids at their maximal length, 2 paths of which one is taken | `EventsSound`: `MergeIsKeepFirst`, `ExportIsDecided` |
| `LibraryIndex` | 3 files of 5 contents, an index of 2 entries, pages of 1 | `ReadsHold` |
| `Extraction` | every document of up to 2 pages of six kinds and of 3 pages of four, limits of 2 pages and 2 characters | `PassesJoin` |
| `MediaTranscription` | 12 media, 4 transcripts, 2 jobs, a sampler and a cleanup that fail or are cancelled at any frame | `NoFrameRemains` |
| `LowLight` | 2 photographs of one name in two folders, 2 jobs, folders repointed | `NothingOverwritten` |

Bounds. Two profiles are what fairness between profiles needs, and a third job
makes a queue of two behind a busy slot: every branch of the pump, of `pop` and
of the cleanup is reached, and TLC's coverage shows every action firing. One
lane is enough for the scheduler because lanes share nothing but `_running`,
a count per profile, and the two-profile case is there. The store keeps fewer
records than there are jobs, the cache fewer entries than there are models,
and the queues fewer places than jobs, so every bound is hit. `MaxBuilds` and
`MaxRevision` cap counters that only grow; two revisions let a command and an
adoption, or two commands, meet on one. `PolicyControl` is followed no further than a directory
sync that failed (`CONSTRAINT Synced`): the code calls that sync best-effort,
and nothing is promised after it. The worker's instance has two process numbers:
one for the process being replaced and one for its replacement, with a third
launch waiting, and 2 restarts so that an attempt that failed is followed by one
that is not the last. Nothing in it is counted, so its behaviours are unbounded.

Fairness. Weak fairness on every step of the event loop (asyncio runs ready
callbacks in order), and in `scheduler` on the end of an executor call, which
stands for a device call and is assumed to return. In `admission_live` a job that
holds a slot gives it back, and that is assumed, not shown: whoever waits behind it
waits for that job. In `jobs` nothing is assumed of the operations: one may wait in
the pool for as long as policy holds its profile, or run for as long as its worker
reports progress. What is fair is that a done-callback runs and that a cancellation
request is answered, at the latest when its wait times out; `CapacityReturns` says
of a job that has *ended* that it leaves the active table.
For the workers, a turn at the supervisor's lock is strongly fair (an asyncio
lock serves its waiters in order), and so is a stop, which ends at the latest when its
wait after SIGKILL does, with the process gone or not. A call has no fairness: a
worker that keeps reporting progress may run for ever.
`service_wedge` and `admission_live` assume nothing about callers, policy or
pressure.

The `Max…` constants of the other components cap inputs (requests, events, kills,
commands) and never what the code does with them; each is large enough that TLC's
coverage shows every action and every disjunct of it taken, and that the mutants
of its properties are found. Nothing tells two jobs of one profile
(`admission_parts`), two clients (`service_parts`) or two jobs of the worker
(`workers`) apart, so of the states that differ in their names only TLC explores one
(`Symmetry`, `JobSymmetry`); the other components of these runs never name them.

Deadlock is checked in every run. In a sum it means something for the first
component only: the others stop when their inputs are used up, and may then
stutter.

## 4. Theorems

Each is of the form `Spec => []P` or `Spec => A` (`PoolRefined`: `Spec` implies the
pool's specification), for arbitrary sets of jobs, profiles, clients and so on, and
every value of the bounds that the runs fix. In brackets the property of the runs
that the theorem states.

| module | theorems |
| --- | --- |
| `PluginAdmissionProofs` | `TypeCorrect`, `WaitersKept` (`NoLostWaiter`), `NoSlotLeaks` (`SlotsAccounted`), `NeverOverWidth` (`PoolBounded`), both as `PoolKept` (`SlotsSound`), `SlotsUsed` (`WorkConserving`), `LagBounded` (`BoundedLag`); `ChannelIsSound` (`ChannelSound`), `SocketIsSound` (`SocketSound`), `OneHistory` (`ConsentSound`), `SnapshotIsCurrent` (`PublicationSound`) |
| `SchedulerProofs` | `NothingIsStranded` (`NothingStranded`), `ShownIsTrue` (`PublishedIsTrue`) |
| `JobSubmissionProofs` | `JobsAreSound` (`JobsSound`), `AnswersAreFinal` (`AnswerIsFinal`) |
| `ModelStoreProofs` | `StoreReleasesSafely` (`ReleaseSound`); `BindingsAreProven` (`BoundIsProven`), `FramesAreCleared` (`NoFrameRemains`), `SourcesStayPinned` (`SourcesSound`), `ReadsStayTrue` (`ReadsHold`) |
| `PolicyControlProofs` | `PolicyIsSound` (`PolicySound`); `NoJobIsLost` (`PipelineSound`), `StoreIsHonest` (`StoreSound`) |
| `WorkerSupervisorProofs` | `OneWorkerEver` (`OneWorker`), `NoStrayEver` (`NoStray`), `SlotAnnounced` (`SlotIsReady`), `RecoveryKept` (`RecoveryOwned`), both as `RecoveryHeld` (`RecoverySound`), `WorkIsSpared` (`WorkSpared`) |
| `ServiceAdmissionProofs` | `StaleHeld` (`StaleIsHeld`), `PoolRefined` (`PoolSpec`); `NothingIsMissed` (`CollectionSound`), `PhotosAreKept` (`NothingOverwritten`), `InputsAreWhole` (`InputsSound`), `HistoryKept` (`HistoryIsTrue`) |

`StrideQueueProofs` holds the lemmas on `Push`, `Discard` and `Popped` that the first
two rest on.

**Assumptions.** Sets of jobs, threads, clients and profiles are finite; bounds are
natural numbers, positive where the code's constants are; the names the models reserve
("free", "none", "nobody", "no job") are nobody's; weights are integers; a command is
of one of the shapes the parser accepts; the photographs are in the directories; a
sample says whether its item is there; durations, slides and pages are numbers; no
accepted settings hold a secret in the clear; what is installed or declared is a
reference to an artifact and a positive version; no profile of the runtime's own is a
plugin's; a recipe's sources and output shape are lists and its producer is a known one;
a path names one file or none, whose blocks are numbers; "nobody" records no
telemetry; and digests are positive numbers, for their order, and the roots have a
file. These are `ASSUME`s of the component's module or, for an instance, of the `…Parts` module that
has it (`ChannelAssumption`, `SocketAssumption`, `ConsentAssumption`,
`CollectionAssumption`, `LowLightAssumption`, `PromotionAssumption`, `MediaAssumption`,
`ArtifactsAssumption`, `PublicationAssumption`, `SourcesAssumption`, `InputsAssumption`,
`HistoryAssumption`, `LibraryAssumption`, which name the component's `RequestsAssumption`, `ProcessesAssumption`,
`NamesAssumption`, `SamplesAssumption`, `PhotographsAssumption`, `OrderAssumption`,
`PortsAssumption`, `ReferencesAssumption`, `KindsAssumption`, `RecipesAssumption`,
`FilesAssumption`, `BoundsAssumption`, `ContentsAssumption`). `OrderAssumption` is what `SelectSeq` gives: the lanes of a
non-empty selection, in order; `SelectSeq` is recursive and the provers cannot unfold
it. TLC evaluates all of them.

**The pool.** `NoLostWaiter` needs that queues partition the waiting jobs, so its
invariant speaks of positions and not of sets. `SlotsAccounted` is inductive once
`NoLostWaiter` says that a served job was waiting. `PoolBounded` needs that a pump step
starts only below the *maximum* width, since the width it read may have shrunk.
`WorkConserving` needs to know that every step which frees a slot or admits work starts
a pump, and when the gate has changed without one (`quiet`). `BoundedLag` is inductive
only with the bound on each profile's pass relative to the queue's virtual time, and
that is where `clamp_held_out` is needed. `StaleIsHeld` is not inductive either:
`HoldInv` adds that a stale profile is pending or unavailable unless the running attempt
began after its command, which is what the cleared request flag records. `PoolRefined`
maps the composition's gate to the pool's, and every lifecycle step to a silent gate
change.

**The scheduler.** `SchedulerInv` follows each job: it is in one place of one queue
(`QueuedOnce`), or awaited by one worker, or unwinding (`ServedOnce`), and a job that
was never submitted is in none (`NewIsNowhere`). Every path that takes a job out of all
of them settles its future and gives back its count.

**Jobs.** `JobInv`: a record of an ended job says how its task ended and is the job's
only one (`RecordsTrue`), an active job has a task and a caller (`JobsOwned`), and so
has the answer to a cancellation (`RepliesTrue`). For `AnswerIsFinal`, an action
property, `RecordsKept` says what a step may do to such a record: nothing, or drop it.

**The model store.** `StoreInv` puts each built object in one place at a time
(`OnePlace`): the cache, what the lock's holder has still to pass on, the parked
objects, those an actor is about to release, or released. `JobsAlive` keeps what a job
runs on out of the last two, and rests on `Counted`: an object is parked exactly because
the count of jobs in flight was not zero. `RevisionBeforeContents` orders the revision
recorded before a build, the one that was read and the one on disk.

**The policy.** `DiskInv` holds while no save was orphaned (`control_ack`) and no
directory sync failed: every content the file may come to have (memory, the visible
file, the durable one, and each active save) holds what each client was shown
(`FilesHoldViews`), the file is behind memory never and behind a save only until that
save has synced, and saves are one at a time and of later revisions. What a batch of
changes preserves is an induction over its length, done here with the least counterexample.

**Workers.** Four theorems share `IInv`. Its middle is `RecoveryInv`: a recovery that
was not cancelled is registered, and one that was is waited for by whoever holds the
lock. With it, a registered recovery means an empty slot and a running supervisor, a
launch under the lock means an empty slot and no recovery, and so the three places a
wanted process may be in exclude each other. `NoStray` adds which stages of the recovery
and of the lock's holder have no process (`PidInv`), so that overwriting them loses
none. `WorkSpared` has `WorkInv`: the count of jobs in flight is their number unless a
reload cleared it under them (`Counted`), and while an idle stop is registered no job is
past its wait (`IdleHeld`).

**The channel.** `ChannelInv` says of the two pipes, as long as the connection is kept:
each frame is owed to a call that is still there (`PipesOwed`), a request was asked at
most once (`AskedOnce`), nothing follows the last frame of an answer (`LastIsLast`); and
of the service, that the chunks it holds are of the call it reads for (`PartsOwn`).

**The socket.** `LockInv` ties the lock file's holder to the stages of a bind and of a
shutdown; `CallsHeld` and `WindowsHeld` tie each running call to the window that counts
it, also after the window was evicted.

**The snapshot.** The devices, the holds, the alerts and the telemetry's counts are as
shown; a status is right about policy, and says "running" of a plugin only if it has a
job (`StatusIsRight`). More does not hold of statuses, since what they are computed from
changes without a request to publish (section 6). `ShownIsCurrent` speaks of the moment when the publisher waits and
nothing is asked of it; `LoopInv` says what each earlier stage of a tick must know for
that: while a summary is built, everything it has read is current or the wake flag is
set again, so that another tick follows. `DetectedInv` is the same for the devices: an
event that has not been answered, or a detection that is to begin. `CountsInv` ties the
telemetry to the jobs, through registrations that come after the start of a job.

**Model sources.** A command holds no lock, so `CommandsHold` may only say of its stage what
no other command can change: its own temporary files. `VersionHolds` says that the version
appears at once and whole (a rename refuses a folder that is not empty), which makes what
two fetches were told agree. `OutputsHold` says which producer the files beside each other
are of: one only, as long as `overlapped` is false.

**The files a job reads.** A thread digests, copies and digests again, and nothing keeps
the owner from writing meanwhile. `PassesAgree` counts: unless a status betrays it, a pass
that read what the file never held saw a rewrite without a trace *within* the pass, so
after `n` passes one of them read a content the file did hold, or there were `n` such
rewrites. The passes are three and their digests are compared. This proof corrected the
property: the first bound, five rewrites, had been found on files of two blocks, where it
is true; with four blocks TLC finds a forgery with three, and the theorem shows for every
length that fewer never do.

**The recorded history.** A step writes at the end of the history (`Extends`) or removes
whole segments from its beginning, and a fragment is no row: two rows that remain keep
their order. `OneWriter` says who may write: with the lock, one recorder between its
check and its line, whose time is later than every row (`Older`). `Kept` follows a
reported row: it is still there, or was glued to a fragment, or the first segment is not
number 0, which pruning alone brings about, because the numbers grow.

**The library index.** Within one life of the index a revision names its entries:
`WalkHolds` and `LabelHolds` say of a reader and of a labelling person that what they read
is behind the index's revision, or of it and then true of its entries, and a commit
moves the revision on. The files that a scan accepts count against its limit, and are
judged one by one after it, as they are by then. A file that cannot be read begins a new life, of which nothing is
said. That a rescan writes nothing is the other half. `LastHolds`: each file that the
last scan found is stored, or is out, and then the index is full (`Held`). `BoundIsFull`
shows that what `_bound` keeps is full when it leaves something out: the first entry that
did not fit has `MaxEntries` before it, and they are kept. `BoundEvicts` is the converse,
by counting: more entries than places cannot all have a place of their own. So a rescan
that finds something to write finds it where there is no room, and evicts. The merge, the
bound and the ranking are defined by what they hold (`Written`, `Latest`, `Bound`,
`Ranked`) and not by recursion; TLC evaluates, on every short scan of three paths, that
the merge is the one the code makes entry by entry (`MergeIsOneByOne`).

**Low light.** `WorkHeld` says what a job between two steps still knows of its output
path, and `FilesHeld` that every photograph is where it was: a link refuses a taken name.

**Promotion.** `PromotionInv` has three parts. `TrainersInOrder`: models reach the folder
in the order of their numbers while trainers do not overlap. `Compared`, of each
promotion and of the binding: what was compared has the model's graph and, unless older
files came back, weights no newer than the model's, while the files in the folder, and
what has landed of them, are no older; a native that is served is both, hence the
model's. `JobAlone`: the digest of the report is the loaded report's, or model.onnx is no
longer the one the document names, which the comparison then refuses. The first attempt
at this proof, without `reverted`, failed, and TLC with four commands instead of two
showed why (section 6, *promotion*); the property now says what holds.

**Grants and settings.** The permissions of a ledger are defined by its whole history:
the last change of each decides. `ReplayOneMore` says that one more change touches its own
permission and nothing that was replayed before, which is all a commit needs. `LedgerInv`
adds that a command holding the lock still has what is on the disk (`LockSees`), so that
what it commits is one change more, and that what the service remembers is the beginning
of the history of its revision. `SettingsInv` follows the other document: a revision is
the number of changes, each was made over the one before it (`Linear`; a migration is a
change too), and every value in use was said by one of them or is the default.

**The collectors.** `KeysQueued` and `OwedQueued` say that what the coordinator holds as
pending waits in its queue, where coalescing and the removal of the head could lose it.
`ChurnHeld` says that between a snapshot and its output the churn is that from the last
output, and `unsaid` has the ids of which an output was refused for its size: for the
others what a consumer was last told is the collector's previous snapshot.

**Media.** `ScratchHeld`: a frame on the disk is of the job that still has its cleanup
before it, or of a thread that samples or removes it, or is among those the code gives
up (`left`): a removal failed, or a sampler returned its frames to a job that no longer
waited for them. The vision model likewise, when its release failed or was cut short. A result is whole by what each port's answer
was checked for; that speech checked segment by segment never overlaps is an induction
over its length, done with the least segment that would (`LeastExists`).

**The pipeline.** `JournalInv`: while the service is up the journal names the jobs it
tracks, except for jobs whose entry could not be written or read (`excused`), and between a kill
and the next start it names those that were lost. `FlowInv`: a follower's leader still
leads, or has settled the future the follower waits on; every way an attempt can end
goes through the outcome that settles it. `LaneInv`: nothing ran on a device before one
was carried out of RESOLVE.

**The artifact store.** `Stage` is what the holder of the lock knows between two steps:
the activation it read is still the one on the disk, the version it is to activate is
there, the one it is removing is named by no activation or is mislaid, and those it
evicts are named by none. A kill ends a stage with the lock, so nothing is left half
known. The service reads without the lock, and `ReadyHeld` is why that is safe: a
question or an answer under a stamp that still matches is true of the files *now*,
because whatever changes a file the answer depends on also ages the stamp
(`RestampKeeps`); an eviction's first unlink takes the metadata alone without ageing it,
and that can outdate a remembered refusal only.

## 5. Only model-checked

Liveness (`WaiterServed`, `CapacityReturns`, `FutureSettles`, `JobAnswered`,
`ReloadStops`, `IdleWorkerLeaves`): fairness and `ENABLED` are outside the prover.

`TrainingSound`, `GroundingSound`, `EventsSound` and `PassesJoin` compare what a recursive
definition computes with a reference definition. An ordering can be proved with a least
counterexample, as above; what a recursive definition gives for every input needs its
unfolding, and stays with TLC.

What the reader of the telemetry history has collected (`ReadSegment`) is of that kind
too; `HistoryIsTrue` speaks of the segments themselves.

## 6. Where the code and its own words disagree

Three runs expect a violation. Each property states a sentence of the code's
documentation, and the counterexample is a run of the code.

1. `service_wedge` — the end of a reload re-admits profiles but does not pump
   the pool: a job that queued while its profile was held waits for an
   unrelated event, with every slot free.
2. `control_ack` — shutdown cancels an adoption, which leaves the control lock
   while its save runs on; a command acknowledged meanwhile commits the same
   revision, and the orphaned save then replaces its file.
3. `workers_revoke` — `revoke()` keeps the plugin's specification, so a job that
   passed admission before the revocation and still waits for the worker starts
   it again; a later revocation returns early.

Other observations made while modelling, which no run states:

* a reload restarts every worker, but a profile that an earlier reload had
  marked unavailable stays refused (`plugin_lifecycle.py:111`);
* a device removed and found again while its executor call runs gets a second
  concurrent call (`scheduler.py:206`);
* `close()` waits on the event loop for the lock a job holds through its build
  (`executors/base.py:295`);
* `InstalledPluginRuntime.stop` clears the in-flight counts under jobs that wait
  across a reload; their release then arms an idle exit under a new job
  (`plugins/loading.py:801`, the exclusion in `IdleSparesWork`);
* the stop of a worker that failed its handshake or its start-up has no shield,
  and neither has a revocation that `stop()` or a withdrawn job cuts short: the
  process is left with its pipe closed and no signal sent
  (`plugins/supervisor_session.py:122`, `abandoned` in `NoStray`);
* a process that is not reaped within the timeout after SIGKILL is given up: `stop()`
  records "worker survived kill", a failed start, a recovery and a shielded cleanup do
  not look at the answer, and the next worker starts beside it
  (`plugins/supervisor_process.py:248`, `plugins/supervisor.py:334`, `:368`, `:410`);
* `stop_worker` that cancels a recovery leaves the status RESTARTING, and a
  cancelled launch leaves STARTING, until the next request
  (`plugins/supervisor.py:331`);
* two submissions in one turn both see room, and the second job fails after it
  got its id (`plugin_admission.py:152`);
* a policy command kicks the pool before it holds the profiles whose mount it
  changed, so a waiting job may start on the old mount (`service.py:437`);
* executors are closed while an abandoned call may still run; the model store's
  parking makes it harmless, the comment says it cannot happen
  (`service.py:900`);
* `Scheduler.stop` sets `_stopped` for good, so a service that is run again has
  a scheduler that refuses every job (`scheduler.py:220`, `service.py:904`);
* a model that becomes unreadable has its cached object dropped unreleased
  (`executors/base.py:179`).

Of the other components of the sums; each was met while writing a property, which
then had to exclude it or to say less:

* *channel*: `cancel_request` reads the pipe without the request lock, after the
  charge was returned; a call cancelled before its request was sent waits for the
  cancel timeout and costs the worker (`plugins/supervisor_session.py:211`);
* *pipeline*: a deadline between the effect of a delivery and the guard's return
  makes the retry deliver again (`plugins/flow.py:212`); a coalesced job's
  cancellation is accepted and changes nothing; a kill between the clearing of
  the journal and the report loses the report (`plugins/cancellation.py:225`);
  failed results are retained and replayed;
* *publication*: "anything that changes state says so through request_publish"
  (`publish_loop.py:17`), but a slot granted or given back, a lane that degrades, a
  lease that is lost and an artifact that changes do not, so that until the next tick a
  plugin whose job has begun is shown idle, and a workload whose job was cancelled is
  shown running while its lane is still busy (`plugin_admission.py:101`,
  `profile_selection.py:136`); a write that fails after its rename, or a retraction after its
  unlink, leaves the file and `_last_published` apart until the heartbeat
  (`publish_loop.py:159`); the registration of a plugin requests no publish
  (`profile_selection.py:206`); a job that started before its plugin was registered
  is not counted; a kernel event may precede the device node;
* *socket*: a client that timed out leaves its call running; a result that is too
  large is refused after its effect; evicting a window resets its quotas
  (`guard.py`);
* *grants and settings*: an unreadable ledger means no grants
  (`plugins/grants.py:226`); loading migrates and bumps the revision
  (`plugins/settings.py:90`); the ledger is keyed by plugin id, not by publisher;
* *collection*: an output refused for its size by the coordinator has already
  replaced the previous items, so its churn is told to nobody (`plugins/triggers.py:255`,
  where `collection.py:259` says "Churn is transactional"; `unsaid` in
  `ChurnIsTransactional`), and with the defaults, 256 KiB for an output of up to 1024
  items, the refusal is within reach; a session change during a
  desktop snapshot is not seen by it (`desktop_collection.py:168`); a period whose
  trigger a full queue refused is skipped;
* *artifact store*: a repeated installation that fails late uninstalls a variant
  that was bound before (`artifact_installation.py:432`); a kill inside an eviction
  leaves a version without its description, and every later scan fails; the
  readiness stamp misses optional companions nobody declared;
* *history*: a row written after a torn one is glued to it and lost, although it
  was reported as recorded (`telemetry_recorder.py:186`); `record` takes no lock and
  checks no order; two profiles whose sanitised names agree share a history;
* *promotion*: the report is digested after it was read, so with two overlapping
  trainers a binding's digest may be of another report (`numeric_promotion.py:82`);
  the forecast installation compares nothing, so a model replaced between the load
  and the compilation is bound under the old report (`training/installation.py:91`);
  a converter that exits 0 and writes nothing leaves a stale native in use; the
  comparison names the digest of the primary file alone (`numeric_promotion.py:331`),
  so the companion weights of an older model that come back after it, from a conversion
  that had begun earlier, are installed and served (`reverted` in `BoundIsProven`; it
  takes four commands, more than the run has);
* *files a job reads*: a cancellation that arrives while the removal is queued
  cancels it, and the private copies stay (`plugins/loading.py:421`); the removal can
  be queued because the pool has `min(32, cpus + 4)` threads, where its comment says
  "No worker ceiling" (`plugins/offloop.py:29`); a kill leaves staged copies and nothing
  sweeps the root; a second name of an inode is served the first copy although the
  file changed in between, if its status is stable while the second name is looked
  at (`plugins/loading_staging.py:146`); three rewrites in step with the passes that
  keep size and mtime forge a copy of nothing the file ever held, and fewer do not
  (`Forging`);
* *model sources*: two producers on one output folder may leave a report of the
  other's model, and the one that fails removes the outputs of the one that ended
  (`training/production_pipeline.py:64`); a kill after the export leaves a model
  without report, which every later run refuses; a killed fetch leaves its stage;
  the embedding exporter does not compare the shape of its graph with the
  recipe's, which is left to the recipe's validation;
* *training*: the network rows are rates between two snapshots and nothing is purged, so
  the last row that was fitted ends with the snapshot from which the first held-out row
  is measured (`training/network.py:183`; the exception in `HoldoutIsUnseen`);
  forecast windows are split in time without purging the overlap
  (`forecasting.py:70`); two trainers of one folder may leave a report that names
  the other's model (`training/tabular/report.py:44`);
* *document work*: an event's evidence may cite a fragment of another pass; the
  organizer's `failures` leave out two error types its helpers raise;
* *events*: reading a result back drops `readAs` (`plugins/events.py:515`, against the
  comment at line 43); suffixing an id of maximal length fails the extraction;
  preview and export each read the file again (`event_cli.py:122`);
* *index*: rescanning an unchanged tree does write when contents repeat or exceed
  the bound (against `plugins/index.py:11`); the revision restarts at 0 after an
  unreadable file, so an old cursor may be accepted again; a rescan overwrites
  assigned labels;
* *extraction*: merging two passes keeps the outcome of the second
  (`plugins/extraction.py:506`), so a document read in part may be reported as read
  in full;
* *media*: the result re-reads the source at the end (`media_transcription.py:683`);
  the frames of a sampler whose job was cancelled while it sampled are returned to
  nobody, and stay (`media_transcription.py:335`); a cancellation during the cleanup is
  not suppressed and skips the release of the model (`media_transcription.py:353`), and
  a vision thread that was left behind may load the model after its release (all three
  in `left`). The model is of the media job alone: the presentation and document
  samplers clear the folders of their own calls, and what a killed worker leaves in the
  temporary directory is not modelled;
* *low light*: a sync that fails after the link reports a failure although the
  output is there, and the retry then finds it taken (`lowlight.py:150`).

## 7. Not modelled, and the plan

Not modelled, and why:

* the start-up sequence and the wiring of `service.py` and `composition.py`,
  and the start of eager workers: candidates for extending
  `WorkerSupervisor` and `Scheduler`;
* the listing of bundled recipes, and the mapping of addresses to download
  addresses (`training/recipe_uri_policy.py`): pure functions of strings;
* numeric work (fits, forecasts, images, ranking), texts (prompts, languages,
  calendars), byte formats (frames, GGUF, tensors, ONNX): their results are
  arbitrary values of the models, their arithmetic is not stated;
* probing of hardware, the collectors' reading of `/proc` and `/sys`, eBPF
  programs, the sandbox's generated policy: the kernel's side;
* benchmarks, the SDK's test doubles, acceptance and mutation tools, the other
  providers' shims: they do not run in the service.

Next, in the order in which it is worth doing:

1. The composition of `JobPipeline` with `Scheduler`, whose interface is now an
   arbitrary answer of the lane.
