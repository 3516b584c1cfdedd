------------------------------ MODULE Scheduler ------------------------------
(***************************************************************************)
(* scheduler.Scheduler: one worker task per backend lane serves a stride   *)
(* queue and runs each job's executor call on a pool thread (run_off_loop),*)
(* with the service's run() around it: rediscovery replaces the executors, *)
(* policy changes kick, shutdown stops the workers and closes the          *)
(* executors, and the same service may be run again.                       *)
(*                                                                         *)
(* A worker's pop and its wait are one step of the event loop, so the      *)
(* wakeup Event is the move of a worker from "waiting" to "ready".  A      *)
(* cancelled worker unwinds in a later step of its own; the thread it      *)
(* awaited runs on, because nothing interrupts a blocking call.            *)
(***************************************************************************)
EXTENDS StrideQueue

CONSTANTS
    Jobs,           \* jobs, each submitted at most once
    Lanes,          \* backend names
    Profiles,       \* workload ids
    ProfileOf,      \* the profile each job belongs to
    MaxDepth,       \* max_backend_queue_depth
    Weights         \* the weights policy may hold

ASSUME JobsAssumption == IsFiniteSet(Jobs) /\ "no job" \notin Jobs
ASSUME ProfileOfAssumption == ProfileOf \in [Jobs -> Profiles]
ASSUME MaxDepthAssumption == MaxDepth \in Nat \ {0}
ASSUME WeightsAssumption == Weights \subseteq Int

VARIABLES
    phase,      \* where the service's run() is
    stopped,    \* _stopped
    lanes,      \* the backends of _executors
    queue,      \* _queues
    worker,     \* _workers
    serving,    \* the job each executing worker awaits
    retiring,   \* jobs of cancelled workers that have not unwound yet
    thread,     \* what each job's executor call is doing
    laneOf,     \* the lane each thread uses
    future,     \* the Future handed to each job's caller
    running,    \* _running
    degraded,   \* _degraded
    admitted,   \* the profiles policy admits
    weight      \* their weights

lane == <<lanes, queue, worker, serving>>
calls == <<thread, laneOf>>
policy == <<admitted, weight>>
vars == <<phase, stopped, lane, retiring, calls, future, running, degraded, policy>>

NoJob == "no job"
NoLane == "no lane"
Outcomes == {"ok", "error", "fatal"}

(* The shape of the state; no lane's queue exceeds its bound.                *)
TypeOK ==
    /\ phase \in {"idle", "running", "stopping", "stopped", "closed"}
    /\ stopped \in BOOLEAN
    /\ lanes \in SUBSET Lanes
    /\ queue \in [Lanes -> Queues(Profiles, Jobs)]
    /\ \A l \in Lanes : Depth(queue[l]) <= MaxDepth
    /\ worker \in [Lanes -> {"none", "ready", "waiting", "executing"}]
    /\ serving \in [Lanes -> Jobs \cup {NoJob}]
    /\ retiring \in SUBSET Jobs
    /\ thread \in [Jobs -> {"none", "busy"} \cup Outcomes]
    /\ laneOf \in [Jobs -> Lanes \cup {NoLane}]
    /\ future \in [Jobs -> {"none", "pending", "result", "exception", "cancelled"}]
    /\ running \in [Profiles -> Nat]
    /\ degraded \in SUBSET Lanes
    /\ admitted \in SUBSET Profiles
    /\ weight \in [Profiles -> Weights]

Init ==
    /\ phase = "idle"
    /\ stopped = FALSE
    /\ lanes = Lanes
    /\ queue = [l \in Lanes |-> EmptyQueue(Profiles)]
    /\ worker = [l \in Lanes |-> "none"]
    /\ serving = [l \in Lanes |-> NoJob]
    /\ retiring = {}
    /\ thread = [j \in Jobs |-> "none"]
    /\ laneOf = [j \in Jobs |-> NoLane]
    /\ future = [j \in Jobs |-> "none"]
    /\ running = [p \in Profiles |-> 0]
    /\ degraded = {}
    /\ admitted = Profiles
    /\ weight \in [Profiles -> Weights]

-----------------------------------------------------------------------------
QueuedOn(l) == UNION {Range(queue[l].items[p]) : p \in Profiles}

\* The futures of some jobs, those still pending settled as `how`.
Settling(jobs, how) ==
    [j \in Jobs |-> IF j \in jobs /\ future[j] = "pending" THEN how ELSE future[j]]

\* _job_finished: a count that reaches zero is forgotten
JobFinished(p) == running' = [running EXCEPT ![p] = IF @ > 1 THEN @ - 1 ELSE 0]

\* Every lane's wakeup is set.
Woken(w) == [l \in Lanes |-> IF w[l] = "waiting" THEN "ready" ELSE w[l]]

-----------------------------------------------------------------------------
(* start(): run() starts a worker for every backend it knows.                *)
Start ==
    /\ phase \in {"idle", "closed"}
    /\ phase' = "running"
    /\ worker' = [l \in Lanes |-> IF l \in lanes THEN "ready" ELSE worker[l]]
    /\ UNCHANGED <<stopped, lanes, queue, serving, retiring, calls, future, running,
                   degraded, policy>>

\* Mutant: the bound is checked after the job it should have refused.
HasRoomOffByOne(l) == Depth(queue[l]) <= MaxDepth

HasRoom(l) == Depth(queue[l]) < MaxDepth

(* submit(): refused when stopped, for an unknown backend, or at the bound.  *)
Submit(j, l) ==
    /\ ~stopped
    /\ future[j] = "none"
    /\ l \in lanes
    /\ HasRoom(l)
    /\ queue' = [queue EXCEPT ![l] = Push(@, ProfileOf[j], j)]
    /\ worker' = [worker EXCEPT ![l] = IF @ = "waiting" THEN "ready" ELSE @]
    /\ future' = [future EXCEPT ![j] = "pending"]
    /\ UNCHANGED <<phase, stopped, lanes, serving, retiring, calls, running, degraded, policy>>

\* The caller gives up: its future is cancelled, the job stays where it is.
CallerCancels(j) ==
    /\ future[j] = "pending"
    /\ future' = [future EXCEPT ![j] = "cancelled"]
    /\ UNCHANGED <<phase, stopped, lane, retiring, calls, running, degraded, policy>>

(* _worker takes the next job and _execute hands it to a thread.             *)
WorkerTakes(l, p) ==
    /\ worker[l] = "ready"
    /\ ~stopped
    /\ IsNext(queue[l], admitted, p)
    /\ LET j == Head(queue[l].items[p])
       IN  /\ serving' = [serving EXCEPT ![l] = j]
           /\ thread' = [thread EXCEPT ![j] = "busy"]
           /\ laneOf' = [laneOf EXCEPT ![j] = l]
    /\ queue' = [queue EXCEPT ![l] = Popped(@, admitted, p, weight[p])]
    /\ worker' = [worker EXCEPT ![l] = "executing"]
    /\ running' = [running EXCEPT ![p] = @ + 1]
    /\ UNCHANGED <<phase, stopped, lanes, retiring, future, degraded, policy>>

\* Nothing to serve: clear the wakeup and wait on it.
WorkerWaits(l) ==
    /\ worker[l] = "ready"
    /\ ~stopped
    /\ Present(queue[l]) \cap admitted = {}
    /\ worker' = [worker EXCEPT ![l] = "waiting"]
    /\ UNCHANGED <<phase, stopped, lanes, queue, serving, retiring, calls, future, running,
                   degraded, policy>>

\* The loop of a worker ends when the scheduler is stopped.
WorkerExits(l) ==
    /\ worker[l] = "ready"
    /\ stopped
    /\ worker' = [worker EXCEPT ![l] = "none"]
    /\ UNCHANGED <<phase, stopped, lanes, queue, serving, retiring, calls, future, running,
                   degraded, policy>>

\* run_executor returns, raises, or raises something that is no Exception.
ThreadEnds(j, outcome) ==
    /\ thread[j] = "busy"
    /\ thread' = [thread EXCEPT ![j] = outcome]
    /\ UNCHANGED <<phase, stopped, lane, retiring, laneOf, future, running, degraded, policy>>

\* Mutant: a failed job is not counted off.
ExecuteReturnsOnSuccess(l, outcome) ==
    LET j == serving[l]
    IN  /\ worker[l] = "executing" /\ thread[j] = outcome
        /\ worker' = [worker EXCEPT ![l] = "ready"]
        /\ serving' = [serving EXCEPT ![l] = NoJob]
        /\ IF outcome = "ok" THEN JobFinished(ProfileOf[j]) ELSE UNCHANGED running
        /\ future' = Settling({j}, IF outcome = "ok" THEN "result" ELSE "exception")
        /\ UNCHANGED <<phase, stopped, lanes, queue, retiring, calls, degraded, policy>>

\* Mutant: a fatal error ends the worker's task and leaves its queue as it is.
ExecuteReturnsOnceFatal(l, outcome) ==
    LET j == serving[l]
    IN  /\ worker[l] = "executing" /\ thread[j] = outcome
        /\ worker' = [worker EXCEPT ![l] = IF outcome = "fatal" THEN "none" ELSE "ready"]
        /\ serving' = [serving EXCEPT ![l] = NoJob]
        /\ JobFinished(ProfileOf[j])
        /\ future' = Settling({j}, IF outcome = "ok" THEN "result" ELSE "exception")
        /\ UNCHANGED <<phase, stopped, lanes, queue, retiring, calls, degraded, policy>>

(* _execute resumes with the call's outcome.  A fatal one reaches _worker,   *)
(* which fails everything queued on the lane (_degrade) and carries on.      *)
ExecuteReturns(l, outcome) ==
    LET j == serving[l]
    IN  /\ worker[l] = "executing" /\ thread[j] = outcome
        /\ worker' = [worker EXCEPT ![l] = "ready"]
        /\ serving' = [serving EXCEPT ![l] = NoJob]
        /\ JobFinished(ProfileOf[j])
        /\ \/ /\ outcome = "ok"
              /\ future' = Settling({j}, "result")
              /\ degraded' = degraded \ {l}
              /\ UNCHANGED queue
           \/ /\ outcome = "error"
              /\ future' = Settling({j}, "exception")
              /\ UNCHANGED <<degraded, queue>>
           \/ /\ outcome = "fatal"
              /\ future' = Settling({j} \cup QueuedOn(l), "exception")
              /\ degraded' = degraded \cup {l}
              /\ queue' = [queue EXCEPT ![l] = EmptyQueue(Profiles)]
        /\ UNCHANGED <<phase, stopped, lanes, retiring, calls, policy>>

(* A cancelled _execute: the caller's future is cancelled and the count      *)
(* given back, while the thread may still be busy.                           *)
RetiredUnwinds(j) ==
    /\ j \in retiring
    /\ retiring' = retiring \ {j}
    /\ future' = Settling({j}, "cancelled")
    /\ JobFinished(ProfileOf[j])
    /\ UNCHANGED <<phase, stopped, lane, calls, degraded, policy>>

\* The workers of `gone` are cancelled: what they were executing must unwind.
CancelWorkers(gone) ==
    /\ serving' = [l \in Lanes |-> IF l \in gone THEN NoJob ELSE serving[l]]
    /\ retiring' = retiring \cup ({serving[l] : l \in gone} \ {NoJob})

\* Mutant: the queued jobs of a removed backend are simply dropped.
CancelQueuedNever(gone) == future

\* _cancel_queued, for the queues of some lanes
CancelQueued(gone) == Settling(UNION {QueuedOn(l) : l \in gone}, "cancelled")

\* Mutant: a removed backend's failure evidence is kept.
EvidenceKept(removed) == degraded

\* _clear_degradation of every removed backend
EvidenceLeft(removed) == degraded \ removed

(* update_executors() after a discovery pass.                                *)
UpdateExecutors(found) ==
    LET removed == lanes \ found
        added == found \ lanes
        Spawned(l) == l \in added /\ phase # "idle" /\ ~stopped
    IN  /\ phase \in {"idle", "running"}
        /\ found # lanes
        /\ lanes' = found
        /\ degraded' = EvidenceLeft(removed)
        /\ future' = CancelQueued(removed)
        /\ queue' = [l \in Lanes |-> IF l \in removed THEN EmptyQueue(Profiles) ELSE queue[l]]
        /\ CancelWorkers(removed)
        /\ worker' = [l \in Lanes |-> IF l \in removed THEN "none"
                                      ELSE IF Spawned(l) THEN "ready" ELSE worker[l]]
        /\ UNCHANGED <<phase, stopped, calls, running, policy>>

\* Mutant: a policy change does not wake the workers.
PolicyWithoutKick(newAdmitted, newWeight) ==
    /\ admitted' = newAdmitted
    /\ weight' = newWeight
    /\ UNCHANGED <<phase, stopped, lane, retiring, calls, future, running, degraded>>

(* A committed policy command, and kick().                                   *)
PolicyChanged(newAdmitted, newWeight) ==
    /\ admitted' = newAdmitted
    /\ weight' = newWeight
    /\ worker' = Woken(worker)
    /\ UNCHANGED <<phase, stopped, lanes, queue, serving, retiring, calls, future, running,
                   degraded>>

(* stop(): every worker is cancelled and awaited, then every queued future   *)
(* is cancelled.                                                             *)
Stop ==
    /\ phase = "running"
    /\ phase' = "stopping"
    /\ stopped' = TRUE
    /\ CancelWorkers(Lanes)
    /\ worker' = [l \in Lanes |-> "none"]
    /\ UNCHANGED <<lanes, queue, calls, future, running, degraded, policy>>

StopEnds ==
    /\ phase = "stopping"
    /\ retiring = {}
    /\ phase' = "stopped"
    /\ degraded' = {}
    /\ future' = CancelQueued(Lanes)
    /\ queue' = [l \in Lanes |-> EmptyQueue(Profiles)]
    /\ UNCHANGED <<stopped, lanes, worker, serving, retiring, calls, running, policy>>

\* close_executors, the last step of run()
CloseExecutors ==
    /\ phase = "stopped"
    /\ phase' = "closed"
    /\ UNCHANGED <<stopped, lane, retiring, calls, future, running, degraded, policy>>

LaneStep(l) ==
    \/ \E p \in Profiles : WorkerTakes(l, p)
    \/ WorkerWaits(l)
    \/ WorkerExits(l)
    \/ \E o \in Outcomes : ExecuteReturns(l, o)

Next ==
    \/ Start \/ Stop \/ StopEnds \/ CloseExecutors
    \/ \E l \in Lanes : LaneStep(l)
    \/ \E j \in Jobs : CallerCancels(j) \/ RetiredUnwinds(j) \/ \E l \in Lanes : Submit(j, l)
    \/ \E j \in Jobs, o \in Outcomes : ThreadEnds(j, o)
    \/ \E found \in SUBSET Lanes : UpdateExecutors(found)
    \/ \E a \in SUBSET Profiles, w \in [Profiles -> Weights] : PolicyChanged(a, w)

Spec == Init /\ [][Next]_vars

-----------------------------------------------------------------------------
Executing(j) == j \in retiring \/ \E l \in Lanes : serving[l] = j

(* RunningIsTrue: the per-profile counts the service publishes are the jobs  *)
(* workers are executing or unwinding, through failures, degradations,       *)
(* removed backends and stop (_execute's finally, _job_finished).            *)
RunningIsTrue ==
    \A p \in Profiles :
        running[p] = Cardinality({j \in Jobs : ProfileOf[j] = p /\ Executing(j)})

(* NoOrphanFuture: a caller's pending future always belongs to a job that is *)
(* queued on a backend that exists or in the hands of a worker, so every     *)
(* path that drops a job settles its future; none is left after stop().      *)
NoOrphanFuture ==
    \A j \in Jobs : future[j] = "pending" =>
        Executing(j) \/ \E l \in lanes : j \in QueuedOn(l)

(* NoMissedWakeup: a worker sleeps only while nothing it could serve is      *)
(* queued: each submission and each policy change wakes it.                  *)
NoMissedWakeup ==
    \A l \in Lanes : worker[l] = "waiting" => Present(queue[l]) \cap admitted = {}

(* EvidenceIsCurrent: a backend is reported degraded only while the          *)
(* scheduler still has it and is scheduling; a backend that was unplugged    *)
(* and returns, or a stopped scheduler, starts clean.                        *)
EvidenceIsCurrent ==
    degraded \subseteq lanes /\ (phase \in {"stopped", "closed"} => degraded = {})

-----------------------------------------------------------------------------
(* The loop runs ready tasks, and an executor call ends.                     *)
Fairness ==
    /\ WF_vars(Start) /\ WF_vars(StopEnds)
    /\ \A l \in Lanes : WF_vars(LaneStep(l))
    /\ \A j \in Jobs : /\ WF_vars(RetiredUnwinds(j))
                       /\ WF_vars(\E o \in Outcomes : ThreadEnds(j, o))

LiveSpec == Spec /\ Fairness

(* FutureSettles: no caller waits for ever: its future settles, or policy    *)
(* holds its profile at some later time.                                     *)
FutureSettles ==
    \A j \in Jobs :
        (future[j] = "pending") ~> (future[j] # "pending" \/ ProfileOf[j] \notin admitted)

(* NothingStranded: every queued job has a worker that will come for it or a *)
(* settled future, and no worker sleeps on work it may take (Scheduler).     *)
NothingStranded == TypeOK /\ NoOrphanFuture /\ NoMissedWakeup

(* PublishedIsTrue: the counts and the failure evidence the scheduler shows  *)
(* are of the jobs that run and of the backends that are there (Scheduler).  *)
PublishedIsTrue == RunningIsTrue /\ EvidenceIsCurrent

=============================================================================
