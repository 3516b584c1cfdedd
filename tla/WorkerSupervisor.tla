--------------------------- MODULE WorkerSupervisor ---------------------------
(***************************************************************************)
(* One plugin's worker process under loading.InstalledPluginRuntime and    *)
(* supervisor.PluginWorkerSupervisor: jobs that start it on demand, the    *)
(* monitor and the recovery that replace it when it dies, the idle exit,   *)
(* the monitor of its permission grant, and the reload that stops and      *)
(* starts everything.                                                      *)
(*                                                                         *)
(* The supervisor's lock is held over launches and stops, which take time; *)
(* whoever stops the worker also cancels its recovery and waits for that   *)
(* task, lock in hand.  A task is cancelled at an await, and only a        *)
(* shielded cleanup outlives it.                                           *)
(***************************************************************************)
EXTENDS Integers, FiniteSets, TLC

CONSTANTS
    Jobs,          \* jobs routed to the plugin
    MaxPids,       \* bound: processes that exist at one time
    MaxRestarts    \* WorkerRecoveryPolicy.max_restarts

ASSUME JobsAssumption ==
    IsFiniteSet(Jobs) /\ Jobs \cap {"nobody", "idle", "grants", "runtime"} = {}
ASSUME MaxPidsAssumption == MaxPids \in Nat \ {0}
ASSUME MaxRestartsAssumption == MaxRestarts \in Nat \ {0}

VARIABLES
    running,     \* _running; the specs are registered exactly as long
    status,      \* the state in _statuses
    slot,        \* the process in _slots, 0 if there is none
    attempts,    \* _restart_attempts
    recovering,  \* _recoveries holds the recovery task
    rec,         \* the recovery task: where it is, its attempt and its process
    lock,        \* _lock: its holder, what it does, and to which process
    live,        \* the processes that run
    reaping,     \* those a shielded force_stop is ending
    abandoned,   \* history: those whose stop was cut short, or gave up on them after SIGKILL
    pc,          \* where each job is
    call,        \* the process each job executes on
    inflight,    \* _inflight
    idleExit,    \* _idle_exits holds a task that sleeps
    idleStop,    \* _idle_stops holds a stop
    runtime,     \* where start, stop and reload_accelerator_devices are
    grants,      \* the grant monitor
    changed,     \* the permissions as last read differ from those granted at the start
    revoked,     \* _revoked_workers
    ended,       \* history: this generation's worker was stopped by revoke()
    miscounted   \* history: stop() cleared _inflight under jobs that go on

supervisor == <<running, status, slot, attempts>>
processes == <<live, reaping, abandoned>>
jobs == <<pc, call>>
idle == <<inflight, idleExit, idleStop>>
consent == <<changed, revoked>>
history == <<ended, miscounted>>
vars == <<supervisor, recovering, rec, lock, processes, jobs, idle, runtime, grants, consent, history>>

Pids == 1 .. MaxPids
Stoppers == Jobs \cup {"idle", "grants", "runtime"}
Free == [by |-> "nobody", stage |-> "free", pid |-> 0]
NoRecovery == [at |-> "none", attempt |-> 0, pid |-> 0, cancelled |-> FALSE]
ComingUp == {"STARTING", "RESTARTING"}
InFlight(j) == pc[j] \in {"waiting", "ensuring", "staging", "executing", "revoking"}
Used == live \cup {slot, lock.pid, rec.pid} \cup {call[j] : j \in Jobs}
Unused == Pids \ Used
NewPid == CHOOSE p \in Unused : TRUE

(* The shape of the state; a recovery never exceeds its restart budget.      *)
TypeOK ==
    /\ running \in BOOLEAN /\ recovering \in BOOLEAN
    /\ status \in {"absent", "IDLE", "READY", "FAILED", "EXHAUSTED", "STOPPED"} \cup ComingUp
    /\ slot \in {0} \cup Pids
    /\ attempts \in 0 .. MaxRestarts
    /\ rec.at \in {"none", "begin", "backoff", "launching", "failing", "install",
                   "dropping", "uncharged", "exhausting"}
    /\ rec.attempt \in 0 .. MaxRestarts
    /\ lock.by \in Stoppers \cup {"nobody"}
    /\ lock.stage \in {"free", "launching", "failing", "dropping", "recovery", "stopping"}
    /\ live \subseteq Pids /\ reaping \subseteq live /\ abandoned \subseteq live
    /\ pc \in [Jobs -> {"new", "admitted", "waiting", "ensuring", "staging", "executing",
                        "revoking"}]
    /\ call \in [Jobs -> {0} \cup Pids]
    /\ inflight \in 0 .. Cardinality(Jobs)
    /\ runtime \in {"boot", "registering", "serving", "draining", "stopping", "stopped"}
    /\ grants \in {"off", "watching", "revoking"}
    /\ {idleExit, idleStop, changed, revoked, ended, miscounted} \subseteq BOOLEAN

Init ==
    /\ running = FALSE /\ status = "absent" /\ slot = 0 /\ attempts = 0
    /\ recovering = FALSE /\ rec = NoRecovery /\ lock = Free
    /\ live = {} /\ reaping = {} /\ abandoned = {}
    /\ pc = [j \in Jobs |-> "new"] /\ call = [j \in Jobs |-> 0]
    /\ inflight = 0 /\ idleExit = FALSE /\ idleStop = FALSE
    /\ runtime = "boot" /\ grants = "off"
    /\ changed = FALSE /\ revoked = FALSE
    /\ ended = FALSE /\ miscounted = FALSE

-----------------------------------------------------------------------------
(* Processes                                                                 *)

Spawns(p) == live' = live \cup {p} /\ UNCHANGED <<reaping, abandoned>>
Reaps(p) == reaping' = reaping \cup ({p} \cap live) /\ UNCHANGED <<live, abandoned>>
Abandons(p) == abandoned' = abandoned \cup ({p} \cap live) /\ UNCHANGED <<live, reaping>>

\* terminate_after_timeout is at work on this process.
BeingStopped(p) ==
    \/ p \in reaping
    \/ p = lock.pid /\ lock.stage \in {"failing", "stopping"}
    \/ p = rec.pid /\ rec.at = "failing"

\* What a stop waits for: its process is reaped, or survived the kill.
Stopped(p) == p \notin live \/ p \in abandoned

\* A process ends by itself, or because it is told, terminated or killed.
Exits(p) ==
    /\ p \in live
    /\ live' = live \ {p} /\ reaping' = reaping \ {p} /\ abandoned' = abandoned \ {p}
    /\ UNCHANGED <<supervisor, recovering, rec, lock, jobs, idle, runtime, grants, consent, history>>

\* Not reaped within the timeout after SIGKILL: the stop ends all the same, and
\* only stop() says so ("worker survived kill").
SurvivesKill(p) ==
    /\ p \in live /\ BeingStopped(p) /\ (p \in abandoned => p \in reaping)
    /\ reaping' = reaping \ {p} /\ abandoned' = abandoned \cup {p}
    /\ UNCHANGED <<live, supervisor, recovering, rec, lock, jobs, idle, runtime, grants, consent, history>>

-----------------------------------------------------------------------------
(* Jobs: InstalledPluginRuntime._dispatch                                    *)

\* admit: a status that can serve, and permissions as they were granted.
Admit(j) ==
    /\ pc[j] = "new" /\ runtime # "boot"
    /\ status \in {"absent", "READY", "IDLE"} \cup ComingUp
    /\ ~revoked /\ ~changed
    /\ pc' = [pc EXCEPT ![j] = "admitted"]
    /\ UNCHANGED <<supervisor, recovering, rec, lock, processes, call, idle, runtime, grants, consent, history>>

\* _acquire_worker: a pending idle exit is called off.
Acquire(j) ==
    /\ pc[j] = "admitted"
    /\ pc' = [pc EXCEPT ![j] = "waiting"]
    /\ idleExit' = FALSE
    /\ inflight' = inflight + 1
    /\ UNCHANGED <<supervisor, recovering, rec, lock, processes, call, idleStop, runtime, grants, consent, history>>

\* Mutant: the last one out does not arm the idle exit.
ReleaseUnarmed(j) ==
    /\ pc' = [pc EXCEPT ![j] = "new"]
    /\ call' = [call EXCEPT ![j] = 0]
    /\ inflight' = IF inflight > 1 THEN inflight - 1 ELSE 0
    /\ miscounted' = (miscounted /\ \E k \in Jobs \ {j} : InFlight(k))
    /\ UNCHANGED <<idleExit, idleStop, runtime, grants>>

\* _release_worker: the last one out arms the idle exit.
Release(j) ==
    /\ pc' = [pc EXCEPT ![j] = "new"]
    /\ call' = [call EXCEPT ![j] = 0]
    /\ inflight' = IF inflight > 1 THEN inflight - 1 ELSE 0
    /\ idleExit' = (inflight > 1 => idleExit)
    /\ miscounted' = (miscounted /\ \E k \in Jobs \ {j} : InFlight(k))
    /\ UNCHANGED <<idleStop, runtime, grants>>

\* Mutant: the request races a stop that is under way.
AwaitIdleStopHasty(j) ==
    /\ pc[j] = "waiting"
    /\ pc' = [pc EXCEPT ![j] = "ensuring"]
    /\ UNCHANGED <<supervisor, recovering, rec, lock, processes, call, idle, runtime, grants, consent, history>>

\* _await_idle_stop
AwaitIdleStop(j) ==
    /\ pc[j] = "waiting" /\ ~idleStop
    /\ pc' = [pc EXCEPT ![j] = "ensuring"]
    /\ UNCHANGED <<supervisor, recovering, rec, lock, processes, call, idle, runtime, grants, consent, history>>

Asks(j) == pc[j] = "ensuring" /\ lock = Free

\* ensure_ready finds the worker serving.
FoundReady(j) ==
    /\ Asks(j) /\ running /\ (slot # 0 \/ recovering) /\ status = "READY"
    /\ pc' = [pc EXCEPT ![j] = "staging"]
    /\ UNCHANGED <<supervisor, recovering, rec, lock, processes, call, idle, runtime, grants, consent, history>>

\* Mutant: "not yet" is waited for without a deadline.
GivesUpLate(j) ==
    /\ Asks(j) /\ running /\ (slot # 0 \/ recovering) /\ status \notin ComingUp \cup {"READY"}
    /\ Release(j)
    /\ UNCHANGED <<supervisor, recovering, rec, lock, processes, consent, ended>>

\* _ready_or_waited gives up: what ensure_ready answers cannot be mended by
\* waiting, or is "not yet" until the deadline.
GivesUp(j) ==
    /\ Asks(j)
    /\ running => (slot # 0 \/ recovering) /\ status # "READY"
    /\ Release(j)
    /\ UNCHANGED <<supervisor, recovering, rec, lock, processes, consent, ended>>

\* Mutant: ensure_ready looks at the slot only.
StartableAnyway == running /\ slot = 0

\* No worker serves and no recovery owns the launch.
Startable == running /\ slot = 0 /\ ~recovering

\* ensure_ready begins the launch, holding the lock: _start_one.
Starts(j) ==
    /\ Asks(j) /\ Startable /\ Unused # {}
    /\ status' = "STARTING" /\ attempts' = 0
    /\ lock' = [by |-> j, stage |-> "launching", pid |-> NewPid]
    /\ Spawns(NewPid)
    /\ UNCHANGED <<running, slot, recovering, rec, jobs, idle, runtime, grants, consent, history>>

\* launcher.launch raises: there is no process to stop.
StartRefused(j) ==
    /\ Asks(j) /\ Startable
    /\ status' = "FAILED" /\ attempts' = 0
    /\ Release(j)
    /\ UNCHANGED <<running, slot, recovering, rec, lock, processes, consent, ended>>

\* The handshake is done and the worker says it is ready: _install_ready_slot.
Started(j) ==
    /\ lock.by = j /\ lock.stage = "launching" /\ lock.pid \in live
    /\ slot' = lock.pid /\ status' = "READY" /\ lock' = Free
    /\ pc' = [pc EXCEPT ![j] = "staging"]
    /\ UNCHANGED <<running, attempts, recovering, rec, processes, call, idle, runtime, grants, consent, history>>

\* launch_authenticated meets a timeout, a bad frame or a closed pipe.
StartFails(j) ==
    /\ lock.by = j /\ lock.stage = "launching"
    /\ lock' = [lock EXCEPT !.stage = "failing"]
    /\ UNCHANGED <<supervisor, recovering, rec, processes, jobs, idle, runtime, grants, consent, history>>

StartFailed(j) ==
    /\ lock.by = j /\ lock.stage = "failing" /\ Stopped(lock.pid)
    /\ status' = "FAILED" /\ lock' = Free
    /\ Release(j)
    /\ UNCHANGED <<running, slot, attempts, recovering, rec, processes, consent, ended>>

-----------------------------------------------------------------------------
\* supervisor.execute through WorkerBudgetEnforcer.run: one call at a time.
Execute(j) ==
    /\ pc[j] = "staging" /\ slot # 0 /\ status = "READY"
    /\ \A k \in Jobs : call[k] # slot
    /\ pc' = [pc EXCEPT ![j] = "executing"]
    /\ call' = [call EXCEPT ![j] = slot]
    /\ UNCHANGED <<supervisor, recovering, rec, lock, processes, idle, runtime, grants, consent, history>>

\* The worker is gone by the time the payload is staged, or it is busy.
ExecuteRefused(j) ==
    /\ pc[j] = "staging"
    /\ slot = 0 \/ status # "READY" \/ \E k \in Jobs : call[k] = slot
    /\ Release(j)
    /\ UNCHANGED <<supervisor, recovering, rec, lock, processes, consent, ended>>

\* The call's deadline or a broken protocol: force_stop, shielded.
CallBreaks(j) ==
    /\ pc[j] = "executing" /\ call[j] \in live \ reaping
    /\ Reaps(call[j])
    /\ UNCHANGED <<supervisor, recovering, rec, lock, jobs, idle, runtime, grants, consent, history>>

\* The call is over, well or not; the grant is read again before the answer.
CallEnds(j, differs) ==
    /\ pc[j] = "executing" /\ call[j] \notin reaping
    /\ changed' = differs
    /\ ~(differs /\ ~revoked)
    /\ Release(j)
    /\ UNCHANGED <<supervisor, recovering, rec, lock, processes, revoked, ended>>

\* The grant changed while the call ran: the job itself revokes the worker.
CallRevokes(j) ==
    /\ pc[j] = "executing" /\ call[j] \notin reaping /\ ~revoked
    /\ changed' = TRUE /\ revoked' = TRUE
    /\ pc' = [pc EXCEPT ![j] = "revoking"]
    /\ call' = [call EXCEPT ![j] = 0]
    /\ UNCHANGED <<supervisor, recovering, rec, lock, processes, idle, runtime, grants, history>>

\* The job is withdrawn, or told that its consent is: cancel_request gets an
\* answer from the worker, or stops it.
CallCancelled(j, answered) ==
    /\ pc[j] = "executing"
    /\ IF answered THEN UNCHANGED processes ELSE Reaps(call[j])
    /\ Release(j)
    /\ UNCHANGED <<supervisor, recovering, rec, lock, consent, ended>>

\* A job is withdrawn while it waits; it holds nothing.
Withdrawn(j) ==
    /\ pc[j] \in {"waiting", "ensuring", "staging", "revoking"} /\ lock.by # j
    /\ Release(j)
    /\ UNCHANGED <<supervisor, recovering, rec, lock, processes, consent, ended>>

\* Withdrawn while its launch is under way: the shielded force_stop comes first.
StartCancelled(j) ==
    /\ lock.by = j /\ lock.stage = "launching"
    /\ lock' = [lock EXCEPT !.stage = "dropping"]
    /\ Reaps(lock.pid)
    /\ UNCHANGED <<supervisor, recovering, rec, jobs, idle, runtime, grants, consent, history>>

\* The process is stopped; the job ends and the status stays STARTING.
StartDropped(j) ==
    /\ lock.by = j /\ lock.stage = "dropping" /\ Stopped(lock.pid)
    /\ lock' = Free
    /\ Release(j)
    /\ UNCHANGED <<supervisor, recovering, rec, processes, consent, ended>>

\* Withdrawn, or an error, while it stops a process without a shield.
StopCutShort(j) ==
    /\ lock.by = j
    /\ \/ lock.stage \in {"failing", "stopping"}
       \/ lock.stage = "recovery" /\ rec.at = "none"
    /\ lock' = Free
    /\ Abandons(lock.pid)
    /\ Release(j)
    /\ UNCHANGED <<supervisor, recovering, rec, consent, ended>>

JobStep(j) ==
    \/ Admit(j) \/ Acquire(j) \/ AwaitIdleStop(j) \/ FoundReady(j) \/ GivesUp(j)
    \/ Starts(j) \/ StartRefused(j) \/ Started(j) \/ StartFails(j) \/ StartFailed(j)
    \/ Execute(j) \/ ExecuteRefused(j) \/ CallBreaks(j) \/ CallRevokes(j)
    \/ \E b \in BOOLEAN : CallEnds(j, b) \/ CallCancelled(j, b)
    \/ Withdrawn(j) \/ StartCancelled(j) \/ StartDropped(j) \/ StopCutShort(j)

-----------------------------------------------------------------------------
(* The monitor and the recovery: supervisor_recovery                         *)

others == <<jobs, idle, runtime, grants, consent, history>>

\* Mutant: the budget is compared with the attempt that would come next.
MonitorOffByOne(kept) ==
    /\ lock = Free /\ slot # 0 /\ slot \notin live
    /\ slot' = 0 /\ attempts' = kept
    /\ status' = "FAILED" /\ recovering' = TRUE
    /\ rec' = [NoRecovery EXCEPT !.at = "begin", !.attempt = kept + 1]
    /\ UNCHANGED <<running, lock, processes, others>>

(* monitor_worker: the process in the slot is gone.  Attempts are forgotten  *)
(* after a long uptime; a recovery starts while the budget lasts.            *)
Monitor(kept) ==
    /\ lock = Free /\ slot # 0 /\ slot \notin live
    /\ slot' = 0 /\ attempts' = kept
    /\ IF kept < MaxRestarts
       THEN /\ status' = "FAILED" /\ recovering' = TRUE
            /\ rec' = [NoRecovery EXCEPT !.at = "begin", !.attempt = kept + 1]
       ELSE status' = "EXHAUSTED" /\ UNCHANGED <<recovering, rec>>
    /\ UNCHANGED <<running, lock, processes, others>>

Owns == running /\ recovering
RecoveryRuns(at) == rec.at = at /\ ~rec.cancelled

\* The next attempt is announced, then the task backs off.
RecoveryBegins ==
    /\ RecoveryRuns("begin") /\ lock = Free
    /\ IF Owns
       THEN /\ status' = "RESTARTING" /\ attempts' = rec.attempt
            /\ rec' = [rec EXCEPT !.at = "backoff"]
       ELSE rec' = NoRecovery /\ UNCHANGED <<status, attempts>>
    /\ UNCHANGED <<running, slot, recovering, lock, processes, others>>

\* launch_authenticated, without the lock.
RecoveryLaunches ==
    /\ RecoveryRuns("backoff") /\ Unused # {}
    /\ rec' = [rec EXCEPT !.at = "launching", !.pid = NewPid]
    /\ Spawns(NewPid)
    /\ UNCHANGED <<supervisor, recovering, lock, others>>

\* The loop goes on to the next attempt, or ends.
NextAttempt ==
    rec' = IF rec.attempt < MaxRestarts
           THEN [rec EXCEPT !.at = "begin", !.attempt = @ + 1, !.pid = 0]
           ELSE [rec EXCEPT !.at = "exhausting", !.pid = 0]

RecoveryRefused ==
    /\ RecoveryRuns("backoff")
    /\ NextAttempt
    /\ UNCHANGED <<supervisor, recovering, lock, processes, others>>

RecoveryReady ==
    /\ RecoveryRuns("launching") /\ rec.pid \in live
    /\ rec' = [rec EXCEPT !.at = "install"]
    /\ UNCHANGED <<supervisor, recovering, lock, processes, others>>

RecoveryLaunchFails ==
    /\ RecoveryRuns("launching")
    /\ rec' = [rec EXCEPT !.at = "failing"]
    /\ UNCHANGED <<supervisor, recovering, lock, processes, others>>

\* A handshake that failed is charged, a start-up that timed out is not.
RecoveryLaunchFailed(charged) ==
    /\ RecoveryRuns("failing") /\ Stopped(rec.pid)
    /\ IF charged THEN NextAttempt ELSE rec' = [rec EXCEPT !.at = "uncharged", !.pid = 0]
    /\ UNCHANGED <<supervisor, recovering, lock, processes, others>>

\* Mutant: a recovery that ends on an error stays registered.
RecoveryRaisesPinned ==
    /\ RecoveryRuns("failing")
    /\ rec' = NoRecovery
    /\ Abandons(rec.pid)
    /\ UNCHANGED <<supervisor, recovering, lock, others>>

\* An unexpected error ends the task; _recovery_finished unregisters it.
RecoveryRaises ==
    /\ RecoveryRuns("failing")
    /\ rec' = NoRecovery /\ recovering' = FALSE
    /\ Abandons(rec.pid)
    /\ UNCHANGED <<supervisor, lock, others>>

\* fail_startup
RecoveryUncharged ==
    /\ RecoveryRuns("uncharged") /\ lock = Free
    /\ rec' = NoRecovery /\ recovering' = FALSE
    /\ IF recovering
       THEN status' = "FAILED" /\ attempts' = rec.attempt - 1
       ELSE UNCHANGED <<status, attempts>>
    /\ UNCHANGED <<running, slot, lock, processes, others>>

\* _mark_exhausted, when every attempt has failed.
RecoveryExhausted ==
    /\ RecoveryRuns("exhausting") /\ lock = Free
    /\ rec' = NoRecovery /\ recovering' = FALSE
    /\ status' = IF recovering THEN "EXHAUSTED" ELSE status
    /\ UNCHANGED <<running, slot, attempts, lock, processes, others>>

\* The replacement takes the slot, unless it is no longer wanted.
RecoveryInstalls ==
    /\ RecoveryRuns("install") /\ lock = Free
    /\ IF Owns
       THEN /\ slot' = rec.pid /\ status' = "READY" /\ recovering' = FALSE
            /\ rec' = NoRecovery
            /\ UNCHANGED processes
       ELSE /\ rec' = [rec EXCEPT !.at = "dropping"]
            /\ Reaps(rec.pid)
            /\ UNCHANGED <<slot, status, recovering>>
    /\ UNCHANGED <<running, attempts, lock, others>>

RecoveryDropped ==
    /\ rec.at = "dropping" /\ Stopped(rec.pid)
    /\ rec' = NoRecovery
    /\ UNCHANGED <<supervisor, recovering, lock, processes, others>>

\* Mutant: the cancelled recovery forgets the process it launched.
RecoveryCancelledForgets ==
    /\ rec.cancelled
    /\ rec' = NoRecovery
    /\ UNCHANGED <<supervisor, recovering, lock, processes, others>>

(* The cancellation is delivered.  A launched process is stopped behind a    *)
(* shield, except where its stop was already under way without one.          *)
RecoveryCancelled ==
    /\ rec.cancelled
    /\ IF rec.at \in {"launching", "install"}
       THEN /\ rec' = [rec EXCEPT !.at = "dropping", !.cancelled = FALSE]
            /\ Reaps(rec.pid)
       ELSE /\ rec' = NoRecovery
            /\ Abandons(rec.pid)
    /\ UNCHANGED <<supervisor, recovering, lock, others>>

RecoveryStep ==
    \/ \E kept \in {0, attempts} : Monitor(kept)
    \/ RecoveryBegins \/ RecoveryLaunches \/ RecoveryRefused \/ RecoveryReady
    \/ RecoveryLaunchFails \/ \E b \in BOOLEAN : RecoveryLaunchFailed(b)
    \/ RecoveryRaises \/ RecoveryUncharged \/ RecoveryExhausted \/ RecoveryInstalls
    \/ RecoveryDropped \/ RecoveryCancelled

-----------------------------------------------------------------------------
(* stop_worker, revoke and stop: whoever stops the worker                    *)

Wants(a) ==
    CASE a = "idle" -> idleStop
      [] a = "grants" -> grants = "revoking"
      [] a = "runtime" -> runtime = "stopping" /\ running
      [] OTHER -> pc[a] = "revoking"

\* The slot is emptied and its monitor cancelled; the process is told to go.
Empties(a) == lock' = [by |-> a, stage |-> "stopping", pid |-> slot] /\ slot' = 0

\* Mutant: the recovery is unregistered but neither cancelled nor waited for.
StopBeginsHasty(a) ==
    /\ lock = Free /\ Wants(a)
    /\ Empties(a)
    /\ recovering' = FALSE
    /\ running' = (running /\ a # "runtime")
    /\ UNCHANGED <<rec, status, attempts, processes, others>>

\* Under the lock, a recovery is unregistered, cancelled and waited for.
StopBegins(a) ==
    /\ lock = Free /\ Wants(a)
    /\ IF recovering
       THEN /\ lock' = [by |-> a, stage |-> "recovery", pid |-> 0]
            /\ rec' = [rec EXCEPT !.cancelled = TRUE]
            /\ recovering' = FALSE
            /\ UNCHANGED slot
       ELSE /\ Empties(a)
            /\ UNCHANGED <<recovering, rec>>
    /\ running' = (running /\ a # "runtime")
    /\ UNCHANGED <<status, attempts, processes, others>>

\* The cancelled recovery has ended; stop() publishes it as stopped.
RecoveryGone(a) ==
    /\ lock.by = a /\ lock.stage = "recovery" /\ rec.at = "none"
    /\ Empties(a)
    /\ status' = IF a = "runtime" THEN "STOPPED" ELSE status
    /\ UNCHANGED <<running, attempts, recovering, rec, processes, others>>

\* What the stopped worker is published as.
AfterStop(a) == IF lock.pid = 0 THEN status ELSE IF a = "idle" THEN "IDLE" ELSE "STOPPED"

\* stop_worker with nothing to stop leaves the attempts; the others forget them.
StopDone(a) ==
    /\ lock.by = a /\ lock.stage = "stopping" /\ Stopped(lock.pid)
    /\ lock' = Free
    /\ status' = AfterStop(a)
    /\ attempts' = IF a = "idle" /\ lock.pid = 0 THEN attempts ELSE 0
    /\ UNCHANGED <<running, slot, recovering, rec, processes, consent>>

IdleStopped == StopDone("idle") /\ idleStop' = FALSE /\ UNCHANGED <<jobs, inflight, idleExit, runtime, grants, history>>

GrantsRevoked ==
    /\ StopDone("grants")
    /\ grants' = "watching" /\ ended' = (ended \/ lock.pid # 0)
    /\ UNCHANGED <<jobs, idle, runtime, miscounted>>

RuntimeStopped ==
    /\ StopDone("runtime")
    /\ runtime' = "stopped"
    /\ UNCHANGED <<jobs, idle, grants, history>>

\* A job's own revocation ends with its refusal.
JobRevoked(j) ==
    /\ StopDone(j)
    /\ ended' = (ended \/ lock.pid # 0)
    /\ Release(j)

\* _exit_when_idle wakes: the stop is registered in the step that saw no job.
IdleTimeout ==
    /\ idleExit
    /\ idleExit' = FALSE
    /\ idleStop' = (idleStop \/ inflight = 0)
    /\ UNCHANGED <<supervisor, recovering, rec, lock, processes, jobs, inflight, runtime, grants, consent, history>>

\* _reconcile_permission_grants, with a grant that changed or cannot be read.
Reconcile(differs, unreadable) ==
    /\ grants = "watching"
    /\ changed' = differs
    /\ revoked' = (revoked \/ differs \/ unreadable)
    /\ grants' = IF ~revoked /\ (differs \/ unreadable) THEN "revoking" ELSE grants
    /\ UNCHANGED <<supervisor, recovering, rec, lock, processes, jobs, idle, runtime, history>>

-----------------------------------------------------------------------------
(* InstalledPluginRuntime.start, stop and reload_accelerator_devices         *)

\* stop(): idle exits are cancelled and the jobs in flight forgotten.
RuntimeStops ==
    /\ runtime \in {"serving", "stopped"}
    /\ runtime' = "draining"
    /\ idleExit' = FALSE /\ inflight' = 0
    /\ miscounted' = \E j \in Jobs : InFlight(j)
    /\ UNCHANGED <<supervisor, recovering, rec, lock, processes, jobs, idleStop, grants, consent, ended>>

\* Mutant: stop() also waits for the jobs, which wait for the workers.
RuntimeDrainedAfterJobs ==
    /\ runtime = "draining" /\ ~idleStop /\ lock.by # "grants"
    /\ \A j \in Jobs : ~InFlight(j)
    /\ grants' = "off"
    /\ runtime' = IF running THEN "stopping" ELSE "stopped"
    /\ UNCHANGED <<supervisor, recovering, rec, lock, processes, jobs, idle, consent, history>>

\* No idle stop is left; the grant monitor is cancelled, wherever it is.
RuntimeDrained ==
    /\ runtime = "draining" /\ ~idleStop
    /\ (lock.by = "grants" /\ lock.stage = "recovery") => rec.at = "none"
    /\ grants' = "off"
    /\ runtime' = IF running THEN "stopping" ELSE "stopped"
    /\ IF lock.by = "grants"
       THEN lock' = Free /\ Abandons(lock.pid)
       ELSE UNCHANGED <<lock, processes>>
    /\ UNCHANGED <<supervisor, recovering, rec, jobs, idle, consent, history>>

\* start(): the grants are read and the worker's specification built.
RuntimeStarts ==
    /\ runtime \in {"boot", "stopped"}
    /\ runtime' = "registering"
    /\ changed' = FALSE /\ revoked' = FALSE
    /\ UNCHANGED <<supervisor, recovering, rec, lock, processes, jobs, idle, grants, history>>

\* A start that fails is retried from its stop().
RuntimeStartFails ==
    /\ runtime = "registering"
    /\ runtime' = "stopped"
    /\ UNCHANGED <<supervisor, recovering, rec, lock, processes, jobs, idle, grants, consent, history>>

\* supervisor.register; then the grant monitor is started.
Register ==
    /\ runtime = "registering" /\ lock = Free
    /\ runtime' = "serving" /\ grants' = "watching"
    /\ running' = TRUE /\ status' = "IDLE" /\ attempts' = 0
    /\ ended' = FALSE
    /\ UNCHANGED <<slot, recovering, rec, lock, processes, jobs, idle, consent, miscounted>>

RuntimeStep == RuntimeStops \/ RuntimeDrained \/ RuntimeStarts \/ RuntimeStartFails \/ Register

StopStep ==
    \/ \E a \in Stoppers : StopBegins(a) \/ RecoveryGone(a)
    \/ IdleStopped \/ GrantsRevoked \/ RuntimeStopped \/ \E j \in Jobs : JobRevoked(j)
    \/ IdleTimeout \/ \E d, u \in BOOLEAN : Reconcile(d, u)

Next ==
    \/ \E p \in Pids : Exits(p) \/ SurvivesKill(p)
    \/ \E j \in Jobs : JobStep(j)
    \/ RecoveryStep \/ StopStep \/ RuntimeStep

\* The holder of the lock goes on with what it holds it for.
HolderStep ==
    \/ \E j \in Jobs : Started(j) \/ StartFails(j) \/ StartFailed(j) \/ StartDropped(j) \/ JobRevoked(j)
    \/ \E a \in Stoppers : RecoveryGone(a)
    \/ IdleStopped \/ GrantsRevoked \/ RuntimeStopped

\* A job's turn at the lock.
Turn(j) == FoundReady(j) \/ GivesUp(j) \/ Starts(j) \/ StartRefused(j)

(* The lock is granted in the order it is asked for, which makes the turn of *)
(* whoever waits strongly fair; a stop ends, with its process or at the      *)
(* third timeout without it; and a task that can go on does.                 *)
Fairness ==
    /\ \A p \in Pids : WF_vars(BeingStopped(p) /\ (Exits(p) \/ SurvivesKill(p)))
    /\ \A j \in Jobs : WF_vars(AwaitIdleStop(j)) /\ SF_vars(Turn(j))
    /\ WF_vars(HolderStep)
    /\ WF_vars(RecoveryCancelled \/ RecoveryDropped)
    /\ WF_vars(IdleTimeout)
    /\ \A a \in {"idle", "runtime"} : SF_vars(StopBegins(a))
    /\ SF_vars(RuntimeDrained)

Spec == Init /\ [][Next]_vars

LiveSpec == Spec /\ Fairness

-----------------------------------------------------------------------------
(* A plugin has at most one process that serves or is being started          *)
(* ("exactly one child process", PluginWorkerSupervisor): the recovery's     *)
(* launch and a job's never meet, and neither meets a worker in its slot.    *)
(* A process given up on is none of these: it may still run beside them.     *)
Wanted ==
    ({slot} \cup (IF lock.stage = "launching" THEN {lock.pid} ELSE {})
            \cup (IF rec.at \in {"launching", "install"} /\ ~rec.cancelled THEN {rec.pid} ELSE {})) \ {0}
OneWorker == Cardinality(Wanted) <= 1

(* Every process that runs is somebody's: in the slot, launched or stopped   *)
(* by the lock's holder or by the recovery, or being ended behind a shield;  *)
(* but a stop that was itself cut short leaves one behind, and so does one   *)
(* that gave up on a process SIGKILL did not end in time: force_stop's       *)
(* answer is not looked at, the slot is empty and nobody has the process.    *)
NoStray == \A p \in live : p \in {slot, lock.pid, rec.pid} \cup reaping \cup abandoned

(* Between two holders of the lock, a worker in its slot is announced READY  *)
(* and has no recovery.                                                      *)
SlotIsReady == lock = Free /\ slot # 0 => status = "READY" /\ ~recovering

(* A registered recovery is a task that still runs: a finished one left in   *)
(* _recoveries would keep the worker from ever being started again.          *)
RecoveryOwned == recovering => rec.at # "none" /\ ~rec.cancelled

(* The slot and the recovery never disagree: a worker in the slot is         *)
(* announced and not being replaced, and what replaces one still runs        *)
(* (PluginWorkerSupervisor._slots, _recoveries).                             *)
RecoverySound == SlotIsReady /\ RecoveryOwned

(* The idle exit stops no worker that a job was promised, unless a reload    *)
(* has forgotten the jobs in flight.                                         *)
IdleSparesWork ==
    lock.by = "idle" /\ ~miscounted => \A j \in Jobs : pc[j] \notin {"ensuring", "staging", "executing"}

(* The counts behind the idle exit are sound: the tables are well formed and *)
(* no worker is stopped as idle under a job (the holds in loading.py).       *)
WorkSpared == TypeOK /\ IdleSparesWork

(* Every job that asks for the worker gets it or is refused.                 *)
JobAnswered == \A j \in Jobs : pc[j] \in {"waiting", "ensuring"} ~> pc[j] \notin {"waiting", "ensuring"}

(* A reload that has begun to stop the workers gets them stopped: nobody it  *)
(* waits for waits for its lock.                                             *)
ReloadStops == runtime = "draining" ~> runtime = "stopped"

(* A worker that no job uses is given up, or a job comes for it.             *)
IdleWorkerLeaves ==
    (slot # 0 /\ \A j \in Jobs : ~InFlight(j)) ~> (slot = 0 \/ \E j \in Jobs : InFlight(j))

(* revoke(): "A revoked plugin never runs again under this generation of     *)
(* specs".                                                                   *)
RevokedStaysDown == ended => slot = 0

\* Nothing tells two jobs apart (for TLC).
JobSymmetry == Permutations(Jobs)

=============================================================================
