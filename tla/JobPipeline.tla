----------------------------- MODULE JobPipeline -----------------------------
(***************************************************************************)
(* How one profile's inference job runs: the pipeline runner               *)
(* (plugins/runner.py, pipeline.py), the flow controller around it         *)
(* (flow.py), its policy gate (policy.py), its cancellation token and      *)
(* in-flight journal (cancellation.py), the stages of orchestration.py     *)
(* and the prepared lane they hand to dispatch.py.                         *)
(*                                                                         *)
(* A job's attempt is a task that starts each stage as a task of its own:  *)
(* "checking" before a stage, "running" in it, "stepped" or "raised" once  *)
(* its task is done and the guard has not resumed, "ended" once the        *)
(* attempt is done and the submitter has not resumed.                      *)
(***************************************************************************)
EXTENDS Integers, Sequences, SequencesExt, FiniteSets

CONSTANTS
    Jobs,           \* job ids
    Key,            \* the idempotency key of each job
    Devices,        \* the devices a lane can be prepared on
    MaxInFlight,    \* PluginFlowController max_in_flight
    MaxRetries,     \* PluginFlowController max_retries
    Retention,      \* PluginFlowController result_retention
    MaxTracked,     \* JobCancellationRegistry max_tracked_jobs
    MaxEvents       \* bound: cancellations, faults and policy changes

VARIABLES
    daemon,     \* "up" or "down" (dead, or started and not yet reconciled)
    stand,      \* where each job is in PipelineRunner.run
    at, step,   \* the stage of its attempt and how far it is
    tries,      \* attempts that timed out
    beat,       \* CallHeartbeat._beaten
    token,      \* JobCancellationToken, "none" when not tracked
    leader,     \* the job whose future a coalesced job waits on
    future,     \* the in-flight future of each primary
    completed,  \* PluginFlowController._completed, least recent first
    entries,    \* JobCancellationRegistry._entries
    journal,    \* the in-flight journal on disk
    carried,    \* the lane RESOLVE prepared for the attempt
    ranOn,      \* the device the attempt's inference was queued on
    answer,     \* what run() returned
    admits,     \* the policy of the profile: not paused, enabled, granted
    present,    \* devices that are there
    selected,   \* the device select_backend would choose
    artifact,   \* the pinned artifact resolves
    reported,   \* jobs logged as interrupted
    excused,    \* history: jobs whose journal write failed
    events      \* events so far

attempt == <<at, step, tries, beat, carried, ranOn>>
registry == <<token, entries, journal, excused>>
flow == <<leader, future, completed>>
world == <<admits, present, selected, artifact>>
pipelineVars == <<daemon, stand, attempt, registry, flow, answer, world, reported, events>>

NoJob == "nojob"
NoDevice == "nodevice"
Stages == <<"collect", "preprocess", "resolve", "infer", "postprocess", "deliver">>
Tracked == {j \in Jobs : token[j] # "none"}
Leading(j) == stand[j] = "leading"
InFlight == {Key[j] : j \in {i \in Jobs : Leading(i)}}
Up == daemon = "up"

Init ==
    /\ daemon = "up" /\ events = 0
    /\ stand = [j \in Jobs |-> "new"] /\ answer = [j \in Jobs |-> "none"]
    /\ at = [j \in Jobs |-> 1] /\ step = [j \in Jobs |-> "checking"]
    /\ tries = [j \in Jobs |-> 0] /\ beat = [j \in Jobs |-> FALSE]
    /\ carried = [j \in Jobs |-> NoDevice] /\ ranOn = [j \in Jobs |-> NoDevice]
    /\ token = [j \in Jobs |-> "none"] /\ entries = {} /\ journal = {} /\ excused = {}
    /\ leader = [j \in Jobs |-> NoJob] /\ future = [j \in Jobs |-> "none"]
    /\ completed = <<>>
    /\ admits = TRUE /\ present = Devices /\ selected = (CHOOSE d \in Devices : TRUE) /\ artifact = TRUE
    /\ reported = {}

Happens == events < MaxEvents /\ events' = events + 1

-----------------------------------------------------------------------------
(* The gate and the prepared lane.                                           *)

\* _prepare_lane and resolve: a backend is selected, and its artifact resolves.
LaneReady == selected \in present /\ artifact

\* evaluate: readiness is asked when queued and before RESOLVE.
PolicyAdmits(s) == admits /\ (s \in {"queued", "resolve"} => LaneReady)

-----------------------------------------------------------------------------
(* The registry and its journal.  An OSError of a write is a warning.        *)

\* _persist, with the outcome of the write.
Persist(es, j, written) ==
    /\ entries' = es
    /\ journal' = IF written THEN es ELSE journal
    /\ excused' = IF written THEN excused ELSE excused \cup {j}
    /\ IF written THEN UNCHANGED events ELSE Happens

Track(j, written) ==
    /\ token' = [token EXCEPT ![j] = "live"]
    /\ Persist(entries \cup {j}, j, written)

\* Mutant: a job that never led its key is not taken out of the journal.
ReleaseLeaders(j, written) ==
    /\ token' = [token EXCEPT ![j] = "none"]
    /\ IF Leading(j) THEN Persist(entries \ {j}, j, written)
       ELSE UNCHANGED <<entries, journal, excused, events>>

Release(j, written) ==
    /\ token' = [token EXCEPT ![j] = "none"]
    /\ Persist(entries \ {j}, j, written)

-----------------------------------------------------------------------------
(* submit.                                                                   *)

\* _existing: what the key already has.
Retained(k) == {i \in 1..Len(completed) : completed[i].key = k}
Primary(k) == {j \in Jobs : Leading(j) /\ Key[j] = k}

\* run() returns at once, and nothing was tracked.
Returns(j, outcome) ==
    /\ stand' = [stand EXCEPT ![j] = "done"]
    /\ answer' = [answer EXCEPT ![j] = outcome]

\* run(): the gate refuses the job before it is tracked.
SubmitRefused(j) ==
    /\ Up /\ stand[j] = "new" /\ ~PolicyAdmits("queued")
    /\ Returns(j, "cancelled")
    /\ UNCHANGED <<daemon, attempt, registry, flow, world, reported, events>>

\* track() raises: too many jobs.
SubmitUntracked(j) ==
    /\ Up /\ stand[j] = "new" /\ PolicyAdmits("queued")
    /\ Cardinality(Tracked) >= MaxTracked
    /\ Returns(j, "raised")
    /\ UNCHANGED <<daemon, attempt, registry, flow, world, reported, events>>

Enters(j) == Up /\ stand[j] = "new" /\ PolicyAdmits("queued") /\ Cardinality(Tracked) < MaxTracked

\* A retained result is replayed, unless its time to live is over: the job is
\* tracked and released in the same step.
SubmitReplayed(j) ==
    /\ Enters(j)
    /\ \E i \in Retained(Key[j]) :
        /\ answer' = [answer EXCEPT ![j] = completed[i].result]
        /\ completed' = Append(RemoveAt(completed, i), completed[i])
    /\ stand' = [stand EXCEPT ![j] = "done"]
    /\ UNCHANGED <<daemon, attempt, registry, leader, future, world, reported, events>>

Expired(k) == SelectSeq(completed, LAMBDA c : c.key # k)

\* A running key is joined.
SubmitCoalesced(j, written) ==
    /\ Enters(j)
    /\ \E p \in Primary(Key[j]) : leader' = [leader EXCEPT ![j] = p]
    /\ stand' = [stand EXCEPT ![j] = "following"]
    /\ Track(j, written)
    /\ completed' = Expired(Key[j])
    /\ UNCHANGED <<daemon, attempt, future, answer, world, reported>>

\* BACKPRESSURE.
SubmitDropped(j) ==
    /\ Enters(j) /\ Primary(Key[j]) = {} /\ Cardinality(InFlight) >= MaxInFlight
    /\ Returns(j, "failed")
    /\ completed' = Expired(Key[j])
    /\ UNCHANGED <<daemon, attempt, registry, leader, future, world, reported, events>>

\* The job becomes its key's primary.
SubmitPrimary(j, written) ==
    /\ Enters(j) /\ Primary(Key[j]) = {} /\ Cardinality(InFlight) < MaxInFlight
    /\ stand' = [stand EXCEPT ![j] = "leading"]
    /\ future' = [future EXCEPT ![j] = "pending"]
    /\ Track(j, written)
    /\ completed' = Expired(Key[j])
    /\ UNCHANGED <<daemon, attempt, leader, answer, world, reported>>

-----------------------------------------------------------------------------
(* One attempt: _run_stages under the guard.                                 *)

Ended(j, outcome) ==
    /\ step' = [step EXCEPT ![j] = "ended"]
    /\ answer' = [answer EXCEPT ![j] = outcome]
    /\ UNCHANGED <<at, tries, beat, carried, ranOn>>

NextStage(j) == IF step[j] = "stepped" THEN at[j] + 1 ELSE at[j]

\* policy.require(stage), then raise_if_cancelled.
MayBegin(j) == PolicyAdmits(Stages[NextStage(j)]) /\ token[j] = "live"

\* The next stage's task is created.
BeginStage(j) ==
    /\ Leading(j) /\ step[j] \in {"checking", "stepped"} /\ NextStage(j) <= Len(Stages)
    /\ IF MayBegin(j)
       THEN /\ at' = [at EXCEPT ![j] = NextStage(j)]
            /\ step' = [step EXCEPT ![j] = "running"]
            /\ UNCHANGED <<tries, beat, carried, ranOn, answer>>
       ELSE Ended(j, "cancelled")
    /\ UNCHANGED <<daemon, stand, registry, flow, world, reported, events>>

\* The machine is TERMINAL: the output was delivered.
EndDelivered(j) ==
    /\ Leading(j) /\ step[j] = "stepped" /\ at[j] = Len(Stages)
    /\ Ended(j, "succeeded")
    /\ UNCHANGED <<daemon, stand, registry, flow, world, reported, events>>

\* collect, preprocess, postprocess and deliver need nothing outside the job.
PlainStage(j) ==
    /\ Leading(j) /\ step[j] = "running" /\ Stages[at[j]] \notin {"resolve", "infer"}
    /\ step' = [step EXCEPT ![j] = "stepped"]
    /\ UNCHANGED <<daemon, stand, at, tries, beat, carried, ranOn, registry, flow, answer,
                   world, reported, events>>

\* _resolve_stage: the lane is prepared and its artifact resolved.
Resolve(j) ==
    /\ Leading(j) /\ step[j] = "running" /\ Stages[at[j]] = "resolve"
    /\ step' = [step EXCEPT ![j] = IF LaneReady THEN "stepped" ELSE "raised"]
    /\ carried' = [carried EXCEPT ![j] = IF LaneReady THEN selected ELSE @]
    /\ UNCHANGED <<daemon, stand, at, tries, beat, ranOn, registry, flow, answer, world,
                   reported, events>>

\* Mutant: the device is selected again when the inference is queued.
InferDeviceAgain(j) == selected

\* _prepared_executor: the device RESOLVE prepared, or none.
InferDevice(j) == carried[j]

\* _infer_stage: dispatch_prepared queues the job on its device, if that
\* device is still there and the artifact still resolves.
Infer(j) ==
    /\ Leading(j) /\ step[j] = "running" /\ Stages[at[j]] = "infer"
    /\ IF InferDevice(j) \in present /\ artifact
       THEN /\ step' = [step EXCEPT ![j] = "inferring"]
            /\ ranOn' = [ranOn EXCEPT ![j] = InferDevice(j)]
       ELSE step' = [step EXCEPT ![j] = "raised"] /\ UNCHANGED ranOn
    /\ UNCHANGED <<daemon, stand, at, tries, beat, carried, registry, flow, answer, world,
                   reported, events>>

\* The queue was full, or the scheduler refused.
InferRefused(j) ==
    /\ Leading(j) /\ step[j] = "running" /\ Stages[at[j]] = "infer" /\ Happens
    /\ step' = [step EXCEPT ![j] = "raised"]
    /\ UNCHANGED <<daemon, stand, at, tries, beat, carried, ranOn, registry, flow, answer,
                   world, reported>>

\* inference_result_payload: the scheduler's future resolved.
Inferred(j) ==
    /\ Leading(j) /\ step[j] = "inferring"
    /\ step' = [step EXCEPT ![j] = "stepped"]
    /\ UNCHANGED <<daemon, stand, at, tries, beat, carried, ranOn, registry, flow, answer,
                   world, reported, events>>

\* The stage's exception leaves the guard: machine.fail.
EndFailed(j) ==
    /\ Leading(j) /\ step[j] = "raised"
    /\ Ended(j, "failed")
    /\ UNCHANGED <<daemon, stand, registry, flow, world, reported, events>>

\* guard: the token's event wins over a stage that is not done.
EndCancelled(j) ==
    /\ Leading(j) /\ step[j] \in {"running", "inferring"} /\ token[j] = "cancelled"
    /\ Ended(j, "cancelled")
    /\ UNCHANGED <<daemon, stand, registry, flow, world, reported, events>>

\* liveness.report from the call the stage waits on.
Beat(j) ==
    /\ Leading(j) /\ step[j] = "inferring" /\ ~beat[j] /\ Happens
    /\ beat' = [beat EXCEPT ![j] = TRUE]
    /\ UNCHANGED <<daemon, stand, at, step, tries, carried, ranOn, registry, flow, answer,
                   world, reported>>

-----------------------------------------------------------------------------
(* The primary's submit and run.                                             *)

\* The attempt's task and what it carried are gone with the run.
AttemptGone(j) ==
    /\ at' = [at EXCEPT ![j] = 1] /\ step' = [step EXCEPT ![j] = "checking"]
    /\ tries' = [tries EXCEPT ![j] = 0] /\ beat' = [beat EXCEPT ![j] = FALSE]
    /\ carried' = [carried EXCEPT ![j] = NoDevice] /\ ranOn' = [ranOn EXCEPT ![j] = NoDevice]

\* _retain.
Retain(k, r) ==
    LET kept == Append(Expired(k), [key |-> k, result |-> r])
    IN  IF Len(kept) > Retention THEN Tail(kept) ELSE kept

\* The attempt's result: the future, the retained results, then release.
Settle(j, written) ==
    /\ Leading(j) /\ step[j] = "ended"
    /\ stand' = [stand EXCEPT ![j] = "done"]
    /\ future' = [future EXCEPT ![j] = answer[j]]
    /\ completed' = Retain(Key[j], answer[j])
    /\ Release(j, written)
    /\ AttemptGone(j)
    /\ UNCHANGED <<daemon, leader, answer, world, reported>>

\* A deadline passes: a call that reported is left alone, a silent one is
\* cancelled where it stands and started again.
DeadlinePasses(j) ==
    /\ Leading(j) /\ step[j] # "ended" /\ Happens
    /\ IF beat[j]
       THEN beat' = [beat EXCEPT ![j] = FALSE] /\ UNCHANGED <<at, step, tries, carried, ranOn>>
       ELSE /\ tries[j] < MaxRetries
            /\ tries' = [tries EXCEPT ![j] = @ + 1]
            /\ at' = [at EXCEPT ![j] = 1]
            /\ step' = [step EXCEPT ![j] = "checking"]
            /\ carried' = [carried EXCEPT ![j] = NoDevice]
            /\ ranOn' = [ranOn EXCEPT ![j] = NoDevice]
            /\ UNCHANGED beat
    /\ UNCHANGED <<daemon, stand, registry, flow, answer, world, reported>>

\* Mutant: except Exception, which a cancelled submitter passes by.
PrimaryFailsQuietly(j, result, told) ==
    /\ stand' = [stand EXCEPT ![j] = "done"]
    /\ answer' = [answer EXCEPT ![j] = result]
    /\ future' = [future EXCEPT ![j] = IF result = "raised" THEN @ ELSE told]

\* submit() raises: the waiters get a failure of their own.
PrimaryFails(j, result, told) ==
    /\ stand' = [stand EXCEPT ![j] = "done"]
    /\ answer' = [answer EXCEPT ![j] = result]
    /\ future' = [future EXCEPT ![j] = told]

\* RETRIES_EXHAUSTED.
Exhausted(j, written) ==
    /\ Leading(j) /\ step[j] # "ended" /\ ~beat[j] /\ tries[j] >= MaxRetries
    /\ PrimaryFails(j, "failed", "failed")
    /\ Release(j, written)
    /\ AttemptGone(j)
    /\ UNCHANGED <<daemon, leader, completed, world, reported>>

\* The task that runs the primary is cancelled: PRIMARY_CANCELLED.
PrimaryCancelled(j, written) ==
    /\ Leading(j)
    /\ PrimaryFails(j, "raised", "failed")
    /\ Release(j, written)
    /\ AttemptGone(j)
    /\ UNCHANGED <<daemon, leader, completed, world, reported>>

\* A coalesced job gets its primary's outcome, or its own task is cancelled.
FollowerEnds(j, written) ==
    /\ stand[j] = "following" /\ future[leader[j]] # "pending"
    /\ Returns(j, future[leader[j]])
    /\ Release(j, written)
    /\ UNCHANGED <<daemon, attempt, flow, world, reported>>

FollowerCancelled(j, written) ==
    /\ stand[j] = "following"
    /\ Returns(j, "raised")
    /\ Release(j, written)
    /\ UNCHANGED <<daemon, attempt, flow, world, reported>>

-----------------------------------------------------------------------------
(* The caller, the policy, the devices and the process.                      *)

\* PipelineRunner.cancel.
Cancel(j) ==
    /\ token[j] = "live" /\ Happens
    /\ token' = [token EXCEPT ![j] = "cancelled"]
    /\ UNCHANGED <<daemon, stand, attempt, entries, journal, excused, flow, answer, world,
                   reported>>

WorldChanges ==
    /\ Happens
    /\ \/ admits' = ~admits /\ UNCHANGED <<present, selected, artifact>>
       \/ artifact' = ~artifact /\ UNCHANGED <<admits, present, selected>>
       \/ \E d \in present : /\ present' = present \ {d}
                             /\ selected' \in (present \ {d}) \cup {NoDevice}
                             /\ UNCHANGED <<admits, artifact>>
       \/ \E d \in present \ {selected} : selected' = d /\ UNCHANGED <<admits, present, artifact>>
    /\ UNCHANGED <<daemon, stand, attempt, registry, flow, answer, reported>>

\* The service dies; only the journal survives.
Crash ==
    /\ Up /\ Happens
    /\ daemon' = "down"
    /\ stand' = [j \in Jobs |-> IF token[j] # "none" THEN "lost" ELSE stand[j]]
    /\ token' = [j \in Jobs |-> "none"]
    /\ entries' = {}
    /\ completed' = <<>>
    /\ future' = [j \in Jobs |-> "none"] /\ leader' = [j \in Jobs |-> NoJob]
    /\ answer' = [j \in Jobs |-> IF token[j] # "none" THEN "none" ELSE answer[j]]
    /\ at' = [j \in Jobs |-> 1] /\ step' = [j \in Jobs |-> "checking"]
    /\ tries' = [j \in Jobs |-> 0] /\ beat' = [j \in Jobs |-> FALSE]
    /\ carried' = [j \in Jobs |-> NoDevice] /\ ranOn' = [j \in Jobs |-> NoDevice]
    /\ UNCHANGED <<journal, excused, world, reported>>

\* load: an unreadable journal is discarded, with a warning.
Loaded(readable) == IF readable THEN journal ELSE {}

\* reconcile_interrupted_jobs at the next start: what load() reads is cleared
\* and logged, before any job is submitted.
Reconcile(readable) ==
    /\ daemon = "down"
    /\ daemon' = "up"
    /\ entries' = {}
    /\ reported' = reported \cup Loaded(readable)
    /\ journal' = IF Loaded(readable) = {} THEN journal ELSE {}
    /\ excused' = excused \cup (journal \ Loaded(readable))
    /\ IF readable THEN UNCHANGED events ELSE Happens
    /\ UNCHANGED <<stand, attempt, token, flow, answer, world>>

Next ==
    \/ \E j \in Jobs :
        \/ SubmitRefused(j) \/ SubmitUntracked(j) \/ SubmitReplayed(j) \/ SubmitDropped(j)
        \/ BeginStage(j) \/ EndDelivered(j) \/ PlainStage(j) \/ Resolve(j) \/ Infer(j)
        \/ InferRefused(j) \/ Inferred(j) \/ EndFailed(j) \/ EndCancelled(j) \/ Beat(j)
        \/ DeadlinePasses(j) \/ Cancel(j)
        \/ \E written \in BOOLEAN :
            \/ SubmitCoalesced(j, written) \/ SubmitPrimary(j, written) \/ Settle(j, written)
            \/ Exhausted(j, written) \/ PrimaryCancelled(j, written)
            \/ FollowerEnds(j, written) \/ FollowerCancelled(j, written)
    \/ WorldChanges
    \/ Crash
    \/ \E readable \in BOOLEAN : Reconcile(readable)

Spec == Init /\ [][Next]_pipelineVars

-----------------------------------------------------------------------------
\* The in-flight journal tells the next process exactly which jobs a crash cut
\* off (cancellation.py: _persist, recover): as long as no write of a job's
\* entry failed, the journal names the jobs inside run() at every instant, and
\* after a crash the jobs lost and not yet reported, coalesced ones included.
InterruptedReported ==
    /\ journal \ excused =
         (IF Up THEN Tracked ELSE {j \in Jobs : stand[j] = "lost"} \ reported) \ excused
    /\ reported \ excused \subseteq {j \in Jobs : stand[j] = "lost"}

\* A coalesced submission never waits on a future nobody will settle
\* (flow.py, submit): whatever ends the primary, a cancellation included,
\* settles the future its followers wait on.
NoOrphanFollower ==
    \A j \in Jobs : stand[j] = "following" /\ future[leader[j]] = "pending" => Leading(leader[j])

\* Inference runs on the device the attempt prepared and nowhere else
\* (dispatch.py, _queue_prepared): a device that disappears, or a better one
\* that is selected meanwhile, fails the job and never moves it.
InfersWherePrepared == \A j \in Jobs : Leading(j) => ranOn[j] \in {NoDevice, carried[j]}

\* No job falls between the journal, the coalescer and the flow: an interrupted one is reported
\* after the restart, a follower ends with its leader, and inference runs where the tensors were
\* prepared (CancellationJournal, coalescing, PipelineFlow).
PipelineSound == InterruptedReported /\ NoOrphanFollower /\ InfersWherePrepared

=============================================================================
