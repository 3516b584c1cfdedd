------------------------ MODULE WorkerSupervisorProofs ------------------------
(***************************************************************************)
(* One worker, one recovery: whatever jobs, stops, revocations and reloads *)
(* do, for any number of jobs and processes and any restart budget.        *)
(***************************************************************************)
EXTENDS WorkerSupervisor, FiniteSetTheorems, TLAPS

Shape ==
    /\ lock = [by |-> lock.by, stage |-> lock.stage, pid |-> lock.pid]
    /\ rec = [at |-> rec.at, attempt |-> rec.attempt, pid |-> rec.pid, cancelled |-> rec.cancelled]
    /\ running \in BOOLEAN /\ recovering \in BOOLEAN /\ rec.cancelled \in BOOLEAN

Starting == lock.stage \in {"launching", "failing", "dropping"}

(* A recovery that was neither cancelled nor told to drop its process is     *)
(* registered, and nothing else is; one that was cancelled is waited for by  *)
(* the lock's holder.                                                        *)
RecoveryInv ==
    /\ recovering => rec.at \notin {"none", "dropping"} /\ ~rec.cancelled
    /\ rec.at \notin {"none", "dropping"} /\ ~rec.cancelled => recovering
    /\ rec.at = "dropping" \/ rec.cancelled => lock.stage = "recovery"
    /\ rec.at = "none" => ~rec.cancelled

(* The slot is empty while anybody else has, or owns the launch of, the      *)
(* worker.                                                                   *)
SlotInv ==
    /\ recovering => slot = 0 /\ running
    /\ Starting => slot = 0 /\ ~recovering /\ running
    /\ lock.stage \in {"recovery", "stopping"} => slot = 0 /\ ~recovering
    /\ slot # 0 => status = "READY" /\ running

(* The supervisor does not run between its stop and the next registration.   *)
RunningInv ==
    /\ runtime \in {"boot", "registering", "stopped"} => ~running
    /\ lock.by = "runtime" /\ lock.stage = "stopping" => ~running
    /\ lock.by = "runtime" /\ lock.stage = "recovery" => ~running

IInv == Shape /\ RecoveryInv /\ SlotInv /\ RunningInv

USE DEF Free, NoRecovery, Starting

core == <<running, status, slot, recovering, rec, lock, runtime>>

LEMMA Frame ==
    ASSUME IInv, UNCHANGED core
    PROVE  IInv'
BY DEF IInv, core, Shape, RecoveryInv, SlotInv, RunningInv

(* What a job does: only its turn at the lock and its launch reach the       *)
(* supervisor's state.                                                       *)
LEMMA JobKeeps ==
    ASSUME IInv, NEW j \in Jobs, JobStep(j)
    PROVE  IInv'
<1>1. ASSUME \/ Admit(j) \/ Acquire(j) \/ AwaitIdleStop(j) \/ FoundReady(j) \/ GivesUp(j)
             \/ Execute(j) \/ ExecuteRefused(j) \/ CallBreaks(j) \/ CallRevokes(j)
             \/ Withdrawn(j)
             \/ \E b \in BOOLEAN : CallEnds(j, b) \/ CallCancelled(j, b)
      PROVE  IInv'
  <2>1. UNCHANGED core
    BY <1>1 DEF Admit, Acquire, AwaitIdleStop, FoundReady, GivesUp, Execute, ExecuteRefused,
                CallBreaks, CallRevokes, Withdrawn, CallEnds, CallCancelled, Release,
                supervisor, core
  <2>. QED BY <2>1, Frame
<1>2. ASSUME Starts(j) PROVE IInv'
  BY <1>2 DEF Starts, Asks, Startable, IInv, Shape, RecoveryInv, SlotInv, RunningInv
<1>3. ASSUME StartRefused(j) PROVE IInv'
  BY <1>3 DEF StartRefused, Asks, Startable, Release, IInv, Shape, RecoveryInv, SlotInv, RunningInv
<1>4. ASSUME Started(j) PROVE IInv'
  BY <1>4 DEF Started, IInv, Shape, RecoveryInv, SlotInv, RunningInv
<1>5. ASSUME StartFails(j) PROVE IInv'
  BY <1>5 DEF StartFails, supervisor, IInv, Shape, RecoveryInv, SlotInv, RunningInv
<1>6. ASSUME StartFailed(j) PROVE IInv'
  BY <1>6 DEF StartFailed, Release, IInv, Shape, RecoveryInv, SlotInv, RunningInv
<1>7. ASSUME StartCancelled(j) PROVE IInv'
  BY <1>7 DEF StartCancelled, supervisor, IInv, Shape, RecoveryInv, SlotInv, RunningInv
<1>8. ASSUME StartDropped(j) PROVE IInv'
  BY <1>8 DEF StartDropped, Release, supervisor, IInv, Shape, RecoveryInv, SlotInv, RunningInv
<1>9. ASSUME StopCutShort(j) PROVE IInv'
  BY <1>9 DEF StopCutShort, Release, supervisor, IInv, Shape, RecoveryInv, SlotInv, RunningInv
<1>. QED BY <1>1, <1>2, <1>3, <1>4, <1>5, <1>6, <1>7, <1>8, <1>9 DEF JobStep

(* What the monitor and the recovery do.                                     *)
LEMMA RecoveryKeeps ==
    ASSUME IInv, RecoveryStep
    PROVE  IInv'
<1>. USE DEF IInv, Shape, RecoveryInv, SlotInv, RunningInv, supervisor, others, RecoveryRuns
<1>1. ASSUME NEW kept \in {0, attempts}, Monitor(kept) PROVE IInv'
  BY <1>1 DEF Monitor
<1>2. ASSUME RecoveryBegins PROVE IInv'
  BY <1>2 DEF RecoveryBegins, Owns
<1>3. ASSUME RecoveryLaunches PROVE IInv'
  BY <1>3 DEF RecoveryLaunches
<1>4. ASSUME RecoveryRefused PROVE IInv'
  BY <1>4 DEF RecoveryRefused, NextAttempt
<1>5. ASSUME RecoveryReady PROVE IInv'
  BY <1>5 DEF RecoveryReady
<1>6. ASSUME RecoveryLaunchFails PROVE IInv'
  BY <1>6 DEF RecoveryLaunchFails
<1>7. ASSUME NEW b \in BOOLEAN, RecoveryLaunchFailed(b) PROVE IInv'
  BY <1>7 DEF RecoveryLaunchFailed, NextAttempt
<1>8. ASSUME RecoveryRaises PROVE IInv'
  BY <1>8 DEF RecoveryRaises
<1>9. ASSUME RecoveryUncharged PROVE IInv'
  BY <1>9 DEF RecoveryUncharged
<1>10. ASSUME RecoveryExhausted PROVE IInv'
  BY <1>10 DEF RecoveryExhausted
<1>11. ASSUME RecoveryInstalls PROVE IInv'
  <2>1. Owns
    BY <1>11 DEF RecoveryInstalls, Owns
  <2>2. /\ slot' = rec.pid /\ status' = "READY" /\ recovering' = FALSE /\ rec' = NoRecovery
        /\ lock' = lock /\ lock = Free /\ running' = running /\ runtime' = runtime
    BY <1>11, <2>1 DEF RecoveryInstalls
  <2>3. running
    BY <2>1 DEF Owns
  <2>. QED BY <2>2, <2>3
<1>12. ASSUME RecoveryDropped PROVE IInv'
  BY <1>12 DEF RecoveryDropped
<1>13. ASSUME RecoveryCancelled PROVE IInv'
  <2>1. rec.cancelled /\ UNCHANGED <<running, status, slot, recovering, lock, runtime>>
    BY <1>13 DEF RecoveryCancelled
  <2>2. CASE rec.at \in {"launching", "install"}
    <3>1. rec' = [rec EXCEPT !.at = "dropping", !.cancelled = FALSE]
      BY <1>13, <2>2 DEF RecoveryCancelled
    <3>2. rec' = [at |-> "dropping", attempt |-> rec.attempt, pid |-> rec.pid, cancelled |-> FALSE]
      BY <3>1
    <3>. QED BY <2>1, <3>2
  <2>3. CASE rec.at \notin {"launching", "install"}
    <3>1. rec' = NoRecovery
      BY <1>13, <2>3 DEF RecoveryCancelled
    <3>. QED BY <2>1, <3>1
  <2>. QED BY <2>2, <2>3
<1>. QED
  BY <1>1, <1>2, <1>3, <1>4, <1>5, <1>6, <1>7, <1>8, <1>9, <1>10, <1>11, <1>12, <1>13
  DEF RecoveryStep

(* What those who stop the worker do.                                        *)
LEMMA StopKeeps ==
    ASSUME IInv, StopStep
    PROVE  IInv'
<1>1. ASSUME NEW a \in Stoppers, StopBegins(a) PROVE IInv'
  <2>1. CASE recovering
    <3>1. /\ lock' = [by |-> a, stage |-> "recovery", pid |-> 0] /\ recovering' = FALSE
          /\ UNCHANGED <<slot, status, runtime>>
          /\ running' = (running /\ a # "runtime")
      BY <1>1, <2>1 DEF StopBegins, others
    <3>2. rec' = [rec EXCEPT !.cancelled = TRUE]
      BY <1>1, <2>1 DEF StopBegins
    <3>3. rec' = [at |-> rec.at, attempt |-> rec.attempt, pid |-> rec.pid, cancelled |-> TRUE]
      BY <3>2 DEF IInv, Shape
    <3>4. rec.at # "none" /\ slot = 0
      BY <2>1 DEF IInv, RecoveryInv, SlotInv
    <3>. QED BY <3>1, <3>3, <3>4 DEF IInv, Shape, RecoveryInv, SlotInv, RunningInv
  <2>2. CASE ~recovering
    BY <1>1, <2>2 DEF StopBegins, Wants, Empties, others, IInv, Shape, RecoveryInv, SlotInv, RunningInv
  <2>. QED BY <2>1, <2>2
<1>2. ASSUME NEW a \in Stoppers, RecoveryGone(a) PROVE IInv'
  BY <1>2 DEF RecoveryGone, Empties, others, IInv, Shape, RecoveryInv, SlotInv, RunningInv
<1>3. ASSUME IdleStopped PROVE IInv'
  BY <1>3 DEF IdleStopped, StopDone, IInv, Shape, RecoveryInv, SlotInv, RunningInv
<1>4. ASSUME GrantsRevoked PROVE IInv'
  BY <1>4 DEF GrantsRevoked, StopDone, IInv, Shape, RecoveryInv, SlotInv, RunningInv
<1>5. ASSUME RuntimeStopped PROVE IInv'
  BY <1>5 DEF RuntimeStopped, StopDone, IInv, Shape, RecoveryInv, SlotInv, RunningInv
<1>6. ASSUME NEW j \in Jobs, JobRevoked(j) PROVE IInv'
  BY <1>6 DEF JobRevoked, StopDone, Release, IInv, Shape, RecoveryInv, SlotInv, RunningInv
<1>7. ASSUME IdleTimeout \/ \E d, u \in BOOLEAN : Reconcile(d, u) PROVE IInv'
  <2>1. UNCHANGED core
    BY <1>7 DEF IdleTimeout, Reconcile, supervisor, core
  <2>. QED BY <2>1, Frame
<1>. QED BY <1>1, <1>2, <1>3, <1>4, <1>5, <1>6, <1>7 DEF StopStep

(* What start, stop and reload_accelerator_devices do.                       *)
LEMMA RuntimeKeeps ==
    ASSUME IInv, RuntimeStep
    PROVE  IInv'
<1>. USE DEF IInv, Shape, RecoveryInv, SlotInv, RunningInv, supervisor
<1>1. ASSUME RuntimeStops PROVE IInv'
  BY <1>1 DEF RuntimeStops
<1>2. ASSUME RuntimeDrained PROVE IInv'
  BY <1>2 DEF RuntimeDrained
<1>3. ASSUME RuntimeStarts PROVE IInv'
  BY <1>3 DEF RuntimeStarts
<1>4. ASSUME RuntimeStartFails PROVE IInv'
  BY <1>4 DEF RuntimeStartFails
<1>5. ASSUME Register PROVE IInv'
  BY <1>5 DEF Register
<1>. QED BY <1>1, <1>2, <1>3, <1>4, <1>5 DEF RuntimeStep

LEMMA Inductive == Spec => []IInv
<1>1. Init => IInv
  <2>. SUFFICES ASSUME Init PROVE IInv
    OBVIOUS
  <2>1. /\ running = FALSE /\ recovering = FALSE /\ slot = 0
        /\ rec = NoRecovery /\ lock = Free
    BY DEF Init
  <2>. QED BY <2>1 DEF IInv, Shape, RecoveryInv, SlotInv, RunningInv
<1>2. ASSUME IInv, [Next]_vars PROVE IInv'
  <2>1. ASSUME NEW p \in Pids, Exits(p) \/ SurvivesKill(p) PROVE IInv'
    BY <1>2, <2>1, Frame DEF Exits, SurvivesKill, supervisor, core
  <2>2. CASE UNCHANGED vars
    BY <1>2, <2>2, Frame DEF vars, supervisor, core
  <2>. QED
    BY <1>2, <2>1, <2>2, JobKeeps, RecoveryKeeps, StopKeeps, RuntimeKeeps DEF Next
<1>. QED BY <1>1, <1>2, PTL DEF Spec

(* OneWorkerEver: a job's launch, the recovery's launch and the worker in    *)
(* the slot are never two at a time, so the plugin has one worker process.   *)
THEOREM OneWorkerEver == Spec => []OneWorker
<1>1. ASSUME IInv PROVE OneWorker
  <2>1. \E p : Wanted \subseteq {p}
    BY <1>1 DEF IInv, Shape, RecoveryInv, SlotInv, Wanted
  <2>2. PICK p : Wanted \subseteq {p}
    BY <2>1
  <2>3. Wanted = {} \/ Wanted = {p}
    BY <2>2
  <2>4. Cardinality({}) = 0 /\ Cardinality({p}) = 1
    BY FS_EmptySet, FS_Singleton
  <2>. QED BY <2>3, <2>4 DEF OneWorker
<1>. QED BY <1>1, Inductive, PTL

(* SlotAnnounced: whoever takes the lock and finds a worker in the slot      *)
(* finds it published READY, with no recovery that would replace it.         *)
THEOREM SlotAnnounced == Spec => []SlotIsReady
<1>1. ASSUME IInv PROVE SlotIsReady
  BY <1>1 DEF IInv, SlotInv, SlotIsReady
<1>. QED BY <1>1, Inductive, PTL

(* RecoveryKept: what _recoveries holds is a task that still runs and that   *)
(* nobody has cancelled.                                                     *)
THEOREM RecoveryKept == Spec => []RecoveryOwned
<1>1. ASSUME IInv PROVE RecoveryOwned
  BY <1>1 DEF IInv, RecoveryInv, RecoveryOwned
<1>. QED BY <1>1, Inductive, PTL

-----------------------------------------------------------------------------
(* Who has a process at hand.                                                *)

(* A recovery has a process only from its launch on, the lock's holder only  *)
(* once it has launched or taken one, and 0 is no process.                   *)
PidInv ==
    /\ rec.at \in {"none", "begin", "backoff", "uncharged", "exhausting"} => rec.pid = 0
    /\ lock.stage \in {"free", "recovery"} => lock.pid = 0
    /\ 0 \notin live

StrayInv == PidInv /\ NoStray

LEMMA NewPidIsNew == Unused # {} => NewPid \notin live \cup {0}
BY DEF NewPid, Unused, Used, Pids

LEMMA StrayJob ==
    ASSUME IInv, StrayInv, NEW j \in Jobs, JobStep(j)
    PROVE  StrayInv'
<1>. USE DEF StrayInv, PidInv, NoStray
<1>1. ASSUME \/ Admit(j) \/ Acquire(j) \/ AwaitIdleStop(j) \/ FoundReady(j) \/ GivesUp(j)
             \/ StartRefused(j) \/ Execute(j) \/ ExecuteRefused(j) \/ CallRevokes(j)
             \/ Withdrawn(j) \/ StartFails(j)
      PROVE  StrayInv'
  <2>1. /\ slot' = slot /\ rec' = rec /\ live' = live /\ reaping' = reaping
        /\ abandoned' = abandoned
    BY <1>1 DEF Admit, Acquire, AwaitIdleStop, FoundReady, GivesUp, StartRefused, Execute,
                ExecuteRefused, CallRevokes, Withdrawn, StartFails, supervisor, processes
  <2>2. lock' = lock \/ lock' = [lock EXCEPT !.stage = "failing"]
    BY <1>1 DEF Admit, Acquire, AwaitIdleStop, FoundReady, GivesUp, StartRefused, Execute,
                ExecuteRefused, CallRevokes, Withdrawn, StartFails
  <2>3. lock'.pid = lock.pid /\ lock'.stage \in {lock.stage, "failing"}
    BY <2>2 DEF IInv, Shape
  <2>. QED BY <2>1, <2>3
<1>2. ASSUME \/ \E b \in BOOLEAN : CallEnds(j, b) \/ CallCancelled(j, b)
             \/ CallBreaks(j)
      PROVE  StrayInv'
  <2>1. /\ UNCHANGED <<slot, rec, lock, live, abandoned>> /\ reaping \subseteq reaping'
    BY <1>2 DEF CallEnds, CallCancelled, CallBreaks, Reaps, supervisor, processes
  <2>. QED BY <2>1
<1>3. ASSUME Starts(j) PROVE StrayInv'
  <2>1. /\ lock.pid = 0 /\ UNCHANGED <<slot, rec, reaping, abandoned>>
        /\ lock' = [by |-> j, stage |-> "launching", pid |-> NewPid]
        /\ live' = live \cup {NewPid} /\ NewPid # 0
    BY <1>3, NewPidIsNew DEF Starts, Asks, Spawns
  <2>. QED BY <2>1
<1>4. ASSUME Started(j) PROVE StrayInv'
  <2>1. slot = 0
    BY <1>4 DEF Started, IInv, SlotInv
  <2>. QED BY <1>4, <2>1 DEF Started, processes
<1>5. ASSUME StartFailed(j) \/ StartDropped(j) PROVE StrayInv'
  BY <1>5 DEF StartFailed, StartDropped, Stopped, supervisor, processes
<1>6. ASSUME StartCancelled(j) PROVE StrayInv'
  <2>1. lock' = [lock EXCEPT !.stage = "dropping"]
    BY <1>6 DEF StartCancelled
  <2>2. lock'.pid = lock.pid /\ lock'.stage = "dropping"
    BY <2>1 DEF IInv, Shape
  <2>. QED BY <1>6, <2>2 DEF StartCancelled, Reaps, supervisor
<1>7. ASSUME StopCutShort(j) PROVE StrayInv'
  BY <1>7 DEF StopCutShort, Abandons, supervisor
<1>. QED BY <1>1, <1>2, <1>3, <1>4, <1>5, <1>6, <1>7 DEF JobStep

LEMMA StrayRecovery ==
    ASSUME IInv, StrayInv, RecoveryStep
    PROVE  StrayInv'
<1>. USE DEF StrayInv, PidInv, NoStray, supervisor, processes, RecoveryRuns
<1>1. ASSUME NEW kept \in {0, attempts}, Monitor(kept) PROVE StrayInv'
  <2>1. rec.pid = 0
    BY <1>1 DEF Monitor, IInv, RecoveryInv, SlotInv
  <2>2. rec' = rec \/ rec' = [at |-> "begin", attempt |-> kept + 1, pid |-> 0, cancelled |-> FALSE]
    BY <1>1 DEF Monitor
  <2>. QED BY <1>1, <2>1, <2>2 DEF Monitor
<1>2. ASSUME RecoveryBegins PROVE StrayInv'
  BY <1>2 DEF RecoveryBegins, IInv, Shape
<1>3. ASSUME RecoveryLaunches PROVE StrayInv'
  <2>1. /\ rec.pid = 0 /\ UNCHANGED <<slot, lock, reaping, abandoned>>
        /\ live' = live \cup {NewPid} /\ NewPid # 0
    BY <1>3, NewPidIsNew DEF RecoveryLaunches, Spawns
  <2>2. rec'.at = "launching" /\ rec'.pid = NewPid
    BY <1>3 DEF RecoveryLaunches, IInv, Shape
  <2>. QED BY <2>1, <2>2
<1>4. ASSUME RecoveryRefused \/ \E b \in BOOLEAN : RecoveryLaunchFailed(b) PROVE StrayInv'
  <2>1. /\ rec.pid \notin live \/ rec.pid \in abandoned
        /\ UNCHANGED <<slot, lock, live, reaping, abandoned>>
    BY <1>4 DEF RecoveryRefused, RecoveryLaunchFailed, Stopped
  <2>2. rec'.pid = 0
    BY <1>4 DEF RecoveryRefused, RecoveryLaunchFailed, NextAttempt, IInv, Shape
  <2>. QED BY <2>1, <2>2
<1>5. ASSUME RecoveryReady \/ RecoveryLaunchFails PROVE StrayInv'
  <2>1. UNCHANGED <<slot, lock, live, reaping, abandoned>>
    BY <1>5 DEF RecoveryReady, RecoveryLaunchFails
  <2>2. rec'.pid = rec.pid /\ rec'.at \in {"install", "failing"}
    BY <1>5 DEF RecoveryReady, RecoveryLaunchFails, IInv, Shape
  <2>. QED BY <2>1, <2>2
<1>6. ASSUME RecoveryRaises PROVE StrayInv'
  BY <1>6 DEF RecoveryRaises, Abandons
<1>7. ASSUME RecoveryUncharged \/ RecoveryExhausted PROVE StrayInv'
  <2>1. rec.pid = 0 /\ rec' = NoRecovery /\ UNCHANGED <<slot, lock, live, reaping, abandoned>>
    BY <1>7 DEF RecoveryUncharged, RecoveryExhausted
  <2>. QED BY <2>1
<1>8. ASSUME RecoveryInstalls PROVE StrayInv'
  <2>1. Owns /\ slot = 0
    BY <1>8 DEF RecoveryInstalls, Owns, IInv, RecoveryInv, SlotInv
  <2>2. slot' = rec.pid /\ rec' = NoRecovery /\ UNCHANGED <<lock, live, reaping, abandoned>>
    BY <1>8, <2>1 DEF RecoveryInstalls
  <2>. QED BY <2>1, <2>2
<1>9. ASSUME RecoveryDropped PROVE StrayInv'
  BY <1>9 DEF RecoveryDropped, Stopped
<1>10. ASSUME RecoveryCancelled PROVE StrayInv'
  <2>1. CASE rec.at \in {"launching", "install"}
    <3>1. /\ UNCHANGED <<slot, lock, live, abandoned>>
          /\ reaping' = reaping \cup ({rec.pid} \cap live)
          /\ rec' = [rec EXCEPT !.at = "dropping", !.cancelled = FALSE]
      BY <1>10, <2>1 DEF RecoveryCancelled, Reaps
    <3>2. rec'.pid = rec.pid /\ rec'.at = "dropping"
      BY <3>1 DEF IInv, Shape
    <3>. QED BY <3>1, <3>2
  <2>2. CASE rec.at \notin {"launching", "install"}
    BY <1>10, <2>2 DEF RecoveryCancelled, Abandons
  <2>. QED BY <2>1, <2>2
<1>. QED
  BY <1>1, <1>2, <1>3, <1>4, <1>5, <1>6, <1>7, <1>8, <1>9, <1>10 DEF RecoveryStep

LEMMA StrayStop ==
    ASSUME IInv, StrayInv, StopStep
    PROVE  StrayInv'
<1>. USE DEF StrayInv, PidInv, NoStray, supervisor, processes
<1>1. ASSUME NEW a \in Stoppers, StopBegins(a) PROVE StrayInv'
  <2>1. lock.pid = 0 /\ UNCHANGED <<live, reaping, abandoned>>
    BY <1>1 DEF StopBegins
  <2>2. CASE recovering
    <3>1. /\ lock' = [by |-> a, stage |-> "recovery", pid |-> 0] /\ slot' = slot
          /\ rec' = [rec EXCEPT !.cancelled = TRUE]
      BY <1>1, <2>2 DEF StopBegins
    <3>2. rec'.pid = rec.pid /\ rec'.at = rec.at
      BY <3>1 DEF IInv, Shape
    <3>. QED BY <2>1, <3>1, <3>2
  <2>3. CASE ~recovering
    BY <1>1, <2>1, <2>3 DEF StopBegins, Empties
  <2>. QED BY <2>2, <2>3
<1>2. ASSUME NEW a \in Stoppers, RecoveryGone(a) PROVE StrayInv'
  BY <1>2 DEF RecoveryGone, Empties
<1>3. ASSUME NEW a, StopDone(a) PROVE StrayInv'
  BY <1>3 DEF StopDone, Stopped
<1>4. ASSUME IdleTimeout \/ \E d, u \in BOOLEAN : Reconcile(d, u) PROVE StrayInv'
  <2>1. UNCHANGED <<slot, lock, rec, live, reaping, abandoned>>
    BY <1>4 DEF IdleTimeout, Reconcile
  <2>. QED BY <2>1
<1>. QED
  BY <1>1, <1>2, <1>3, <1>4
  DEF StopStep, IdleStopped, GrantsRevoked, RuntimeStopped, JobRevoked

LEMMA StrayRuntime ==
    ASSUME IInv, StrayInv, RuntimeStep
    PROVE  StrayInv'
<1>. USE DEF StrayInv, PidInv, NoStray, supervisor, processes
<1>1. ASSUME RuntimeStops \/ RuntimeStarts \/ RuntimeStartFails \/ Register PROVE StrayInv'
  <2>1. UNCHANGED <<slot, lock, rec, live, reaping, abandoned>>
    BY <1>1 DEF RuntimeStops, RuntimeStarts, RuntimeStartFails, Register
  <2>. QED BY <2>1
<1>2. ASSUME RuntimeDrained PROVE StrayInv'
  BY <1>2 DEF RuntimeDrained, Abandons
<1>. QED BY <1>1, <1>2 DEF RuntimeStep

(* NoStrayEver: no interleaving of launches, cancellations, stops and exits  *)
(* loses track of a process that still runs, but where a stop is cut short   *)
(* or gives up on a process that survived SIGKILL.                           *)
THEOREM NoStrayEver == Spec => []NoStray
<1>1. Init => StrayInv
  BY DEF Init, StrayInv, PidInv, NoStray
<1>2. ASSUME IInv, StrayInv, [Next]_vars PROVE StrayInv'
  <2>1. ASSUME NEW p \in Pids, Exits(p) \/ SurvivesKill(p) PROVE StrayInv'
    BY <1>2, <2>1 DEF Exits, SurvivesKill, supervisor, StrayInv, PidInv, NoStray
  <2>2. CASE UNCHANGED vars
    BY <1>2, <2>2 DEF vars, supervisor, processes, StrayInv, PidInv, NoStray
  <2>. QED
    BY <1>2, <2>1, <2>2, StrayJob, StrayRecovery, StrayStop, StrayRuntime DEF Next
<1>3. StrayInv => NoStray
  BY DEF StrayInv
<1>. QED BY <1>1, <1>2, <1>3, Inductive, PTL DEF Spec

(* RecoveryHeld: the slot and the recovery never disagree, for any number of *)
(* jobs and processes and any restart budget.                                *)
THEOREM RecoveryHeld == Spec => []RecoverySound
<1>1. SlotIsReady /\ RecoveryOwned => RecoverySound
  BY DEF RecoverySound
<1>. QED BY <1>1, SlotAnnounced, RecoveryKept, PTL

-----------------------------------------------------------------------------
(* The idle exit                                                             *)

Budget == 0 .. MaxRestarts
LockRecords ==
    [by : Stoppers \cup {"nobody"}, pid : {0} \cup Pids,
     stage : {"free", "launching", "failing", "dropping", "recovery", "stopping"}]
RecoveryRecords ==
    [at : {"none", "begin", "backoff", "launching", "failing", "install", "dropping",
           "uncharged", "exhausting"},
     attempt : Budget, pid : {0} \cup Pids, cancelled : BOOLEAN]

(* A recovery that runs has been charged an attempt.                         *)
Records ==
    /\ lock \in LockRecords /\ rec \in RecoveryRecords
    /\ rec.at # "none" => rec.attempt # 0

SupervisorTyped ==
    /\ running \in BOOLEAN /\ recovering \in BOOLEAN
    /\ status \in {"absent", "IDLE", "READY", "FAILED", "EXHAUSTED", "STOPPED"} \cup ComingUp
    /\ slot \in {0} \cup Pids
    /\ attempts \in Budget

ProcessesTyped == live \subseteq Pids /\ reaping \subseteq live /\ abandoned \subseteq live

RuntimeTyped ==
    /\ pc \in [Jobs -> {"new", "admitted", "waiting", "ensuring", "staging", "executing",
                        "revoking"}]
    /\ call \in [Jobs -> {0} \cup Pids]
    /\ inflight \in Nat
    /\ runtime \in {"boot", "registering", "serving", "draining", "stopping", "stopped"}
    /\ grants \in {"off", "watching", "revoking"}
    /\ idleExit \in BOOLEAN /\ idleStop \in BOOLEAN /\ changed \in BOOLEAN
    /\ revoked \in BOOLEAN /\ ended \in BOOLEAN /\ miscounted \in BOOLEAN

(* The count of the jobs in flight never exceeds them, and is exact unless a *)
(* reload has cleared it under jobs that go on.                              *)
Busy == {j \in Jobs : InFlight(j)}
Counted ==
    /\ inflight <= Cardinality(Busy)
    /\ ~miscounted => inflight = Cardinality(Busy)

(* A job that holds the lock is where it took it.                            *)
HoldersWait ==
    /\ lock.stage = "free" => lock.by = "nobody"
    /\ \A j \in Jobs : lock.by = j =>
           pc[j] = IF lock.stage \in {"recovery", "stopping"} THEN "revoking" ELSE "ensuring"

(* A stop as idle is registered from the moment no job was in flight until   *)
(* it has ended, and jobs that come meanwhile wait for it.                   *)
IdleHeld ==
    /\ lock.by = "idle" => idleStop
    /\ idleStop /\ ~miscounted =>
           \A j \in Jobs : pc[j] \notin {"ensuring", "staging", "executing"}

WorkInv ==
    /\ Records /\ SupervisorTyped /\ ProcessesTyped /\ RuntimeTyped
    /\ Counted /\ HoldersWait /\ IdleHeld

LEMMA PidFacts ==
    /\ Unused # {} => NewPid \in Pids
    /\ 0 \in Budget
    /\ \A n \in Budget : n < MaxRestarts => n + 1 \in Budget /\ n + 1 # 0
    /\ \A n \in Budget : n # 0 => n - 1 \in Budget
    /\ Free \in LockRecords /\ NoRecovery \in RecoveryRecords
<1>1. Unused # {} => NewPid \in Unused
  BY DEF NewPid
<1>2. /\ 0 \in Budget
      /\ \A n \in Budget : n < MaxRestarts => n + 1 \in Budget /\ n + 1 # 0
      /\ \A n \in Budget : n # 0 => n - 1 \in Budget
  BY MaxRestartsAssumption DEF Budget
<1>3. Free \in LockRecords /\ NoRecovery \in RecoveryRecords
  BY <1>2 DEF LockRecords, RecoveryRecords
<1>. QED BY <1>1, <1>2, <1>3 DEF Unused

LEMMA BusyFinite == IsFiniteSet(Busy) /\ Cardinality(Busy) \in Nat /\ Cardinality(Busy) <= Cardinality(Jobs)
<1>1. IsFiniteSet(Jobs) /\ Busy \subseteq Jobs
  BY JobsAssumption DEF Busy
<1>. QED BY <1>1, FS_Subset, FS_CardinalityType

LEMMA CountUnchanged ==
    ASSUME Counted, UNCHANGED <<inflight, miscounted>>,
           \A k \in Jobs : InFlight(k)' <=> InFlight(k)
    PROVE  Counted'
<1>1. Busy' = Busy
  BY DEF Busy
<1>. QED BY <1>1 DEF Counted

(* A job lets go of the worker, and of the lock if it held it.               *)
LEMMA Released ==
    ASSUME WorkInv, NEW j \in Jobs, InFlight(j), Release(j),
           lock' = Free \/ (lock' = lock /\ lock.by # j),
           \A k \in Jobs : lock.by = k => k = j \/ lock' = lock
    PROVE  /\ pc' \in [Jobs -> {"new", "admitted", "waiting", "ensuring", "staging", "executing",
                                "revoking"}]
           /\ call' \in [Jobs -> {0} \cup Pids]
           /\ inflight' \in Nat
           /\ idleExit' \in BOOLEAN /\ idleStop' \in BOOLEAN /\ miscounted' \in BOOLEAN
           /\ runtime' = runtime /\ grants' = grants
           /\ Counted' /\ HoldersWait' /\ IdleHeld'
<1>. USE DEF WorkInv
<1>1. /\ pc \in [Jobs -> {"new", "admitted", "waiting", "ensuring", "staging", "executing",
                          "revoking"}]
      /\ call \in [Jobs -> {0} \cup Pids] /\ inflight \in Nat /\ idleStop \in BOOLEAN
      /\ miscounted \in BOOLEAN /\ idleExit \in BOOLEAN
  BY DEF RuntimeTyped
<1>2. /\ pc'[j] = "new" /\ pc' = [pc EXCEPT ![j] = "new"]
      /\ \A k \in Jobs : k # j => pc'[k] = pc[k]
      /\ call' \in [Jobs -> {0} \cup Pids] /\ idleStop' = idleStop
      /\ inflight' = (IF inflight > 1 THEN inflight - 1 ELSE 0)
      /\ runtime' = runtime /\ grants' = grants
  BY <1>1 DEF Release
<1>3. pc' \in [Jobs -> {"new", "admitted", "waiting", "ensuring", "staging", "executing", "revoking"}]
  BY <1>1, <1>2
<1>4. inflight' \in Nat
  BY <1>1, <1>2
<1>5. idleExit' \in BOOLEAN /\ miscounted' \in BOOLEAN
  BY DEF Release
<1>6. miscounted' = (miscounted /\ \E k \in Jobs \ {j} : InFlight(k))
  BY DEF Release
<1>7. Counted'
  <2>1. Busy' = Busy \ {j} /\ j \in Busy
    BY <1>2 DEF Busy, InFlight
  <2>2. Cardinality(Busy') = Cardinality(Busy) - 1 /\ IsFiniteSet(Busy')
    BY <2>1, BusyFinite, FS_RemoveElement
  <2>3. Cardinality(Busy') \in Nat /\ Cardinality(Busy) \in Nat
    BY <2>2, BusyFinite, FS_CardinalityType
  <2>4. inflight <= Cardinality(Busy) /\ (~miscounted => inflight = Cardinality(Busy))
    BY DEF Counted
  <2>. DEFINE n == Cardinality(Busy)
              m == Cardinality(Busy')
  <2>5. inflight' <= m /\ (inflight = n => inflight' = m)
    <3>. HIDE DEF n, m
    <3>1. m = n - 1 /\ m \in Nat /\ n \in Nat /\ inflight <= n
      BY <2>2, <2>3, <2>4 DEF n, m
    <3>. QED BY <3>1, <1>1, <1>2
  <2>6. ~miscounted' => inflight' = m
    <3>1. CASE ~miscounted
      BY <3>1, <2>4, <2>5
    <3>2. CASE ~ \E k \in Jobs \ {j} : InFlight(k)
      <4>1. Busy' = {}
        BY <3>2, <2>1 DEF Busy
      <4>2. m = 0
        BY <4>1, FS_EmptySet
      <4>. QED BY <4>2, <2>5, <1>4
    <3>. QED BY <3>1, <3>2, <1>6
  <2>. QED BY <2>5, <2>6 DEF Counted
<1>8. HoldersWait'
  BY <1>2, JobsAssumption DEF HoldersWait
<1>9. IdleHeld'
  <2>1. lock'.by = "idle" => idleStop'
    BY <1>2 DEF IdleHeld
  <2>2. ASSUME idleStop', ~miscounted', NEW k \in Jobs
        PROVE  pc'[k] \notin {"ensuring", "staging", "executing"}
    <3>1. CASE k = j
      BY <3>1, <1>2
    <3>2. CASE k # j
      <4>1. ~miscounted \/ ~InFlight(k)
        BY <2>2, <3>2, <1>6
      <4>. QED BY <4>1, <3>2, <2>2, <1>2 DEF IdleHeld, InFlight
    <3>. QED BY <3>1, <3>2
  <2>. QED BY <2>1, <2>2 DEF IdleHeld
<1>. QED BY <1>1, <1>2, <1>3, <1>4, <1>5, <1>7, <1>8, <1>9

(* A job comes, waits for an idle stop, finds the worker, uses it or breaks  *)
(* with it; it takes no lock.                                                *)
LEMMA JobMoves ==
    ASSUME WorkInv, NEW j \in Jobs,
           Admit(j) \/ AwaitIdleStop(j) \/ FoundReady(j) \/ Execute(j) \/ CallBreaks(j) \/ CallRevokes(j)
    PROVE  WorkInv'
<1>. USE DEF WorkInv, supervisor, processes, jobs, idle, consent, history, others
<1>1. Records'
  BY PidFacts DEF Admit, AwaitIdleStop, FoundReady, Asks, Execute, CallBreaks,
     CallRevokes, Reaps, Records, SupervisorTyped, LockRecords, RecoveryRecords
<1>2. SupervisorTyped'
  BY PidFacts DEF Admit, AwaitIdleStop, FoundReady, Asks, Execute, CallBreaks,
     CallRevokes, Reaps, SupervisorTyped, Records, LockRecords, RecoveryRecords
<1>3. ProcessesTyped'
  BY PidFacts DEF Admit, AwaitIdleStop, FoundReady, Asks, Execute, CallBreaks,
     CallRevokes, Reaps, ProcessesTyped
<1>4. RuntimeTyped'
  <2>1. CASE Execute(j)
    BY <2>1 DEF Execute, RuntimeTyped, SupervisorTyped
  <2>2. CASE CallRevokes(j)
    BY <2>2 DEF CallRevokes, RuntimeTyped
  <2>3. CASE Admit(j) \/ AwaitIdleStop(j) \/ FoundReady(j) \/ CallBreaks(j)
    BY <2>3 DEF Admit, AwaitIdleStop, FoundReady, CallBreaks, RuntimeTyped
  <2>. QED BY <2>1, <2>2, <2>3
<1>5. Counted'
  <2>1. UNCHANGED <<inflight, miscounted>> /\ \A k \in Jobs : InFlight(k)' <=> InFlight(k)
    BY DEF Admit, AwaitIdleStop, FoundReady, Asks, Execute, CallBreaks, CallRevokes,
       Reaps, InFlight, RuntimeTyped
  <2>. QED BY <2>1, CountUnchanged
<1>6. HoldersWait'
  BY JobsAssumption DEF Admit, AwaitIdleStop, FoundReady, Asks, Execute, CallBreaks,
     CallRevokes, Reaps, HoldersWait, Records, LockRecords, RuntimeTyped
<1>7. IdleHeld'
  BY JobsAssumption DEF Admit, AwaitIdleStop, FoundReady, Asks, Execute, CallBreaks,
     CallRevokes, Reaps, IdleHeld, HoldersWait, Records, LockRecords, RuntimeTyped
<1>. QED BY <1>1, <1>2, <1>3, <1>4, <1>5, <1>6, <1>7

(* A job that comes for the worker is counted.                               *)
LEMMA JobAcquires ==
    ASSUME WorkInv, NEW j \in Jobs, Acquire(j)
    PROVE  WorkInv'
<1>. USE DEF WorkInv, supervisor, processes, jobs, idle, consent, history, others
<1>1. Records'
  BY PidFacts DEF Acquire, Records, SupervisorTyped, LockRecords, RecoveryRecords
<1>2. SupervisorTyped'
  BY PidFacts DEF Acquire, SupervisorTyped, Records, LockRecords, RecoveryRecords
<1>3. ProcessesTyped'
  BY PidFacts DEF Acquire, ProcessesTyped
<1>4. RuntimeTyped'
  <2>1. inflight' \in Nat
    BY DEF Acquire, RuntimeTyped
  <2>. QED BY <2>1 DEF Acquire, RuntimeTyped
<1>5. Counted'
  <2>1. Busy' = Busy \cup {j} /\ j \notin Busy
    BY DEF Acquire, Busy, InFlight, RuntimeTyped
  <2>2. Cardinality(Busy') = Cardinality(Busy) + 1
    BY <2>1, BusyFinite, FS_AddElement
  <2>3. /\ inflight <= Cardinality(Busy) /\ (~miscounted => inflight = Cardinality(Busy))
        /\ inflight' = inflight + 1 /\ miscounted' = miscounted /\ inflight \in Nat
    BY DEF Counted, Acquire, RuntimeTyped
  <2>. DEFINE n == Cardinality(Busy)
              m == Cardinality(Busy')
  <2>4. inflight' <= m /\ (inflight = n => inflight' = m)
    <3>1. n \in Nat /\ m = n + 1 /\ inflight <= n
      BY <2>2, <2>3, BusyFinite
    <3>. HIDE DEF n, m
    <3>. QED BY <3>1, <2>3
  <2>. QED BY <2>3, <2>4 DEF Counted
<1>6. HoldersWait'
  BY JobsAssumption DEF Acquire, HoldersWait, Records, LockRecords, RuntimeTyped
<1>7. IdleHeld'
  BY JobsAssumption DEF Acquire, IdleHeld, HoldersWait, Records, LockRecords, RuntimeTyped
<1>. QED BY <1>1, <1>2, <1>3, <1>4, <1>5, <1>6, <1>7

(* A launch begins, ends well, or turns to stopping its process.             *)
LEMMA JobLaunches ==
    ASSUME WorkInv, NEW j \in Jobs,
           Starts(j) \/ Started(j) \/ StartFails(j) \/ StartCancelled(j)
    PROVE  WorkInv'
<1>. USE DEF WorkInv, supervisor, processes, jobs, idle, consent, history, others
<1>1. Records'
  <2>1. CASE Starts(j)
    BY <2>1, PidFacts DEF Starts, Asks, Spawns, Records, LockRecords, Stoppers
  <2>2. CASE Started(j)
    BY <2>2, PidFacts DEF Started, Records, LockRecords, Stoppers
  <2>3. CASE StartFails(j)
    BY <2>3, PidFacts DEF StartFails, Records, LockRecords, Stoppers
  <2>4. CASE StartCancelled(j)
    BY <2>4, PidFacts DEF StartCancelled, Reaps, Records, LockRecords, Stoppers
  <2>. QED BY <2>1, <2>2, <2>3, <2>4
<1>2. SupervisorTyped'
  <2>1. CASE Starts(j)
    BY <2>1, PidFacts DEF Starts, Asks, Spawns, SupervisorTyped, Records, LockRecords,
       ComingUp
  <2>2. CASE Started(j)
    BY <2>2, PidFacts DEF Started, SupervisorTyped, Records, LockRecords, ComingUp
  <2>3. CASE StartFails(j)
    BY <2>3, PidFacts DEF StartFails, SupervisorTyped, Records, LockRecords, ComingUp
  <2>4. CASE StartCancelled(j)
    BY <2>4, PidFacts DEF StartCancelled, Reaps, SupervisorTyped, Records, LockRecords,
       ComingUp
  <2>. QED BY <2>1, <2>2, <2>3, <2>4
<1>3. ProcessesTyped'
  BY PidFacts DEF Starts, Asks, Started, StartFails, StartCancelled, Spawns, Reaps,
     ProcessesTyped
<1>4. RuntimeTyped'
  BY DEF Starts, Asks, Started, StartFails, StartCancelled, Spawns, Reaps, RuntimeTyped,
     SupervisorTyped
<1>5. Counted'
  <2>1. UNCHANGED <<inflight, miscounted>>
    BY DEF Starts, Started, StartFails, StartCancelled
  <2>2. \A k \in Jobs : InFlight(k)' <=> InFlight(k)
    <3>1. CASE Started(j)
      <4>1. pc[j] = "ensuring" /\ pc' = [pc EXCEPT ![j] = "staging"]
        BY <3>1 DEF Started, HoldersWait
      <4>. QED BY <4>1 DEF InFlight, RuntimeTyped
    <3>2. CASE Starts(j) \/ StartFails(j) \/ StartCancelled(j)
      BY <3>2 DEF Starts, StartFails, StartCancelled, InFlight
    <3>. QED BY <3>1, <3>2
  <2>. QED BY <2>1, <2>2, CountUnchanged
<1>6. HoldersWait'
  BY JobsAssumption DEF Starts, Asks, Started, StartFails, StartCancelled, Spawns,
     Reaps, HoldersWait, Records, LockRecords, RuntimeTyped
<1>7. IdleHeld'
  BY JobsAssumption DEF Starts, Asks, Started, StartFails, StartCancelled, Spawns,
     Reaps, IdleHeld, HoldersWait, Records, LockRecords, RuntimeTyped
<1>. QED BY <1>1, <1>2, <1>3, <1>4, <1>5, <1>6, <1>7

(* A job lets go of the worker without the lock.                             *)
LEMMA JobLeavesFree ==
    ASSUME WorkInv, NEW j \in Jobs,
           GivesUp(j) \/ StartRefused(j) \/ ExecuteRefused(j) \/ (\E b \in BOOLEAN : CallEnds(j, b)) \/ (\E b \in BOOLEAN : CallCancelled(j, b)) \/ Withdrawn(j)
    PROVE  WorkInv'
<1>. USE DEF WorkInv, supervisor, processes, jobs, idle, consent, history, others
<1>0. /\ InFlight(j) /\ Release(j)
      /\ lock' = Free \/ (lock' = lock /\ lock.by # j)
      /\ \A k \in Jobs : lock.by = k => k = j \/ lock' = lock
      /\ changed' \in BOOLEAN /\ revoked' \in BOOLEAN /\ ended' \in BOOLEAN
  BY JobsAssumption DEF GivesUp, StartRefused, ExecuteRefused, CallEnds, CallCancelled,
     Withdrawn, Asks, Reaps, Startable, InFlight, HoldersWait, Records, LockRecords,
     RuntimeTyped
<1>8. /\ pc' \in [Jobs -> {"new", "admitted", "waiting", "ensuring", "staging", "executing",
                           "revoking"}]
      /\ call' \in [Jobs -> {0} \cup Pids]
      /\ inflight' \in Nat
      /\ idleExit' \in BOOLEAN /\ idleStop' \in BOOLEAN /\ miscounted' \in BOOLEAN
      /\ runtime' = runtime /\ grants' = grants
      /\ Counted' /\ HoldersWait' /\ IdleHeld'
  <2>. HIDE DEF WorkInv
  <2>. QED BY <1>0, Released
<1>1. Records'
  BY PidFacts DEF GivesUp, StartRefused, ExecuteRefused, CallEnds, CallCancelled,
     Withdrawn, Asks, Reaps, Startable, Records, SupervisorTyped, LockRecords,
     RecoveryRecords
<1>2. SupervisorTyped'
  BY PidFacts DEF GivesUp, StartRefused, ExecuteRefused, CallEnds, CallCancelled,
     Withdrawn, Asks, Reaps, Startable, SupervisorTyped, Records, LockRecords,
     RecoveryRecords
<1>3. ProcessesTyped'
  BY PidFacts DEF GivesUp, StartRefused, ExecuteRefused, CallEnds, CallCancelled,
     Withdrawn, Asks, Reaps, Startable, ProcessesTyped
<1>4. RuntimeTyped'
  BY <1>0, <1>8 DEF RuntimeTyped
<1>5. Counted'
  BY <1>8
<1>6. HoldersWait'
  BY <1>8
<1>7. IdleHeld'
  BY <1>8
<1>. QED BY <1>1, <1>2, <1>3, <1>4, <1>5, <1>6, <1>7

(* A job lets go of the worker and of the lock.                              *)
LEMMA JobLeavesLock ==
    ASSUME WorkInv, NEW j \in Jobs,
           StartFailed(j) \/ StartDropped(j) \/ StopCutShort(j) \/ JobRevoked(j)
    PROVE  WorkInv'
<1>. USE DEF WorkInv, supervisor, processes, jobs, idle, consent, history, others
<1>0. /\ InFlight(j) /\ Release(j)
      /\ lock' = Free \/ (lock' = lock /\ lock.by # j)
      /\ \A k \in Jobs : lock.by = k => k = j \/ lock' = lock
      /\ changed' \in BOOLEAN /\ revoked' \in BOOLEAN /\ ended' \in BOOLEAN
  BY JobsAssumption DEF StartFailed, StartDropped, StopCutShort, JobRevoked, Abandons,
     StopDone, AfterStop, InFlight, HoldersWait, Records, LockRecords, RuntimeTyped
<1>8. /\ pc' \in [Jobs -> {"new", "admitted", "waiting", "ensuring", "staging", "executing",
                           "revoking"}]
      /\ call' \in [Jobs -> {0} \cup Pids]
      /\ inflight' \in Nat
      /\ idleExit' \in BOOLEAN /\ idleStop' \in BOOLEAN /\ miscounted' \in BOOLEAN
      /\ runtime' = runtime /\ grants' = grants
      /\ Counted' /\ HoldersWait' /\ IdleHeld'
  <2>. HIDE DEF WorkInv
  <2>. QED BY <1>0, Released
<1>1. Records'
  BY PidFacts DEF StartFailed, StartDropped, StopCutShort, JobRevoked, Abandons,
     StopDone, AfterStop, Records, SupervisorTyped, LockRecords, RecoveryRecords
<1>2. SupervisorTyped'
  BY PidFacts DEF StartFailed, StartDropped, StopCutShort, JobRevoked, Abandons,
     StopDone, AfterStop, SupervisorTyped, Records, LockRecords, RecoveryRecords
<1>3. ProcessesTyped'
  BY PidFacts DEF StartFailed, StartDropped, StopCutShort, JobRevoked, Abandons,
     StopDone, AfterStop, ProcessesTyped
<1>4. RuntimeTyped'
  BY <1>0, <1>8 DEF RuntimeTyped
<1>5. Counted'
  BY <1>8
<1>6. HoldersWait'
  BY <1>8
<1>7. IdleHeld'
  BY <1>8
<1>. QED BY <1>1, <1>2, <1>3, <1>4, <1>5, <1>6, <1>7

(* The monitor and the recovery reach no job, and stay within their budget.  *)
LEMMA RecoveryMoves ==
    ASSUME WorkInv, RecoveryStep
    PROVE  WorkInv'
<1>. USE DEF WorkInv, supervisor, processes, jobs, idle, consent, history, others
<1>0. UNCHANGED <<lock, others>>
  BY DEF RecoveryStep, Monitor, RecoveryBegins, RecoveryLaunches, RecoveryRefused,
     RecoveryReady, RecoveryLaunchFails, RecoveryLaunchFailed, RecoveryRaises,
     RecoveryUncharged, RecoveryExhausted, RecoveryInstalls, RecoveryDropped,
     RecoveryCancelled
<1>1. Records'
  <2>1. ASSUME NEW kept \in {0, attempts}, Monitor(kept) PROVE Records'
    <3>1. kept \in Budget /\ rec \in RecoveryRecords /\ lock \in LockRecords
      BY PidFacts DEF Records, SupervisorTyped
    <3>2. CASE kept < MaxRestarts
      <4>1. kept + 1 \in Budget /\ kept + 1 # 0
        BY <3>1, <3>2, PidFacts
      <4>2. rec' = [at |-> "begin", attempt |-> kept + 1, pid |-> 0, cancelled |-> FALSE]
        BY <2>1, <3>2 DEF Monitor
      <4>. QED BY <1>0, <3>1, <4>1, <4>2 DEF Records, RecoveryRecords
    <3>3. CASE ~(kept < MaxRestarts)
      BY <1>0, <2>1, <3>3 DEF Monitor, Records
    <3>. QED BY <3>2, <3>3
  <2>2. ASSUME RecoveryBegins PROVE Records'
    BY <1>0, <2>2, PidFacts DEF RecoveryBegins, RecoveryRuns, Records, SupervisorTyped,
       LockRecords, RecoveryRecords
  <2>3. ASSUME RecoveryLaunches PROVE Records'
    BY <1>0, <2>3, PidFacts DEF RecoveryLaunches, RecoveryRuns, Spawns, Records,
       SupervisorTyped, LockRecords, RecoveryRecords
  <2>4. ASSUME RecoveryRefused PROVE Records'
    BY <1>0, <2>4, PidFacts DEF RecoveryRefused, RecoveryRuns, NextAttempt, Records,
       SupervisorTyped, LockRecords, RecoveryRecords
  <2>5. ASSUME RecoveryReady \/ RecoveryLaunchFails PROVE Records'
    BY <1>0, <2>5, PidFacts DEF RecoveryReady, RecoveryLaunchFails, RecoveryRuns,
       Records, SupervisorTyped, LockRecords, RecoveryRecords
  <2>6. ASSUME NEW b \in BOOLEAN, RecoveryLaunchFailed(b) PROVE Records'
    <3>1. CASE b
      BY <1>0, <2>6, <3>1, PidFacts DEF RecoveryLaunchFailed, RecoveryRuns, NextAttempt,
        Records, RecoveryRecords
    <3>2. CASE ~b
      BY <1>0, <2>6, <3>2, PidFacts DEF RecoveryLaunchFailed, RecoveryRuns, Records,
        RecoveryRecords
    <3>. QED BY <3>1, <3>2
  <2>7. ASSUME RecoveryRaises \/ RecoveryExhausted \/ RecoveryDropped PROVE Records'
    BY <1>0, <2>7, PidFacts DEF RecoveryRaises, RecoveryExhausted, RecoveryDropped,
       Abandons, RecoveryRuns, Records, SupervisorTyped, LockRecords, RecoveryRecords
  <2>8. ASSUME RecoveryUncharged PROVE Records'
    BY <1>0, <2>8, PidFacts DEF RecoveryUncharged, RecoveryRuns, Records,
       SupervisorTyped, LockRecords, RecoveryRecords
  <2>9. ASSUME RecoveryInstalls PROVE Records'
    BY <1>0, <2>9, PidFacts DEF RecoveryInstalls, RecoveryRuns, Reaps, Records,
       SupervisorTyped, LockRecords, RecoveryRecords
  <2>10. ASSUME RecoveryCancelled PROVE Records'
    BY <1>0, <2>10, PidFacts DEF RecoveryCancelled, Reaps, Abandons, Records,
       SupervisorTyped, LockRecords, RecoveryRecords
  <2>. QED BY <2>1, <2>2, <2>3, <2>4, <2>5, <2>6, <2>7, <2>8, <2>9, <2>10 DEF RecoveryStep
<1>2. SupervisorTyped'
  <2>1. ASSUME NEW kept \in {0, attempts}, Monitor(kept) PROVE SupervisorTyped'
    BY <1>0, <2>1, PidFacts DEF Monitor, Records, SupervisorTyped, RecoveryRecords,
       ComingUp
  <2>2. ASSUME RecoveryBegins PROVE SupervisorTyped'
    BY <1>0, <2>2, PidFacts DEF RecoveryBegins, RecoveryRuns, Records, SupervisorTyped,
       RecoveryRecords, ComingUp
  <2>3. ASSUME RecoveryLaunches PROVE SupervisorTyped'
    BY <1>0, <2>3, PidFacts DEF RecoveryLaunches, RecoveryRuns, Spawns, Records,
       SupervisorTyped, RecoveryRecords, ComingUp
  <2>4. ASSUME RecoveryRefused PROVE SupervisorTyped'
    BY <1>0, <2>4, PidFacts DEF RecoveryRefused, RecoveryRuns, NextAttempt, Records,
       SupervisorTyped, RecoveryRecords, ComingUp
  <2>5. ASSUME RecoveryReady \/ RecoveryLaunchFails PROVE SupervisorTyped'
    BY <1>0, <2>5, PidFacts DEF RecoveryReady, RecoveryLaunchFails, RecoveryRuns,
       Records, SupervisorTyped, RecoveryRecords, ComingUp
  <2>6. ASSUME NEW b \in BOOLEAN, RecoveryLaunchFailed(b) PROVE SupervisorTyped'
    BY <1>0, <2>6, PidFacts DEF RecoveryLaunchFailed, RecoveryRuns, NextAttempt,
       Records, SupervisorTyped, RecoveryRecords, ComingUp
  <2>7. ASSUME RecoveryRaises \/ RecoveryExhausted \/ RecoveryDropped PROVE SupervisorTyped'
    BY <1>0, <2>7, PidFacts DEF RecoveryRaises, RecoveryExhausted, RecoveryDropped,
       Abandons, RecoveryRuns, Records, SupervisorTyped, RecoveryRecords, ComingUp
  <2>8. ASSUME RecoveryUncharged PROVE SupervisorTyped'
    BY <1>0, <2>8, PidFacts DEF RecoveryUncharged, RecoveryRuns, Records,
       SupervisorTyped, RecoveryRecords, ComingUp
  <2>9. ASSUME RecoveryInstalls PROVE SupervisorTyped'
    BY <1>0, <2>9, PidFacts DEF RecoveryInstalls, RecoveryRuns, Reaps, Records,
       SupervisorTyped, RecoveryRecords, ComingUp
  <2>10. ASSUME RecoveryCancelled PROVE SupervisorTyped'
    BY <1>0, <2>10, PidFacts DEF RecoveryCancelled, Reaps, Abandons, Records,
       SupervisorTyped, RecoveryRecords, ComingUp
  <2>. QED BY <2>1, <2>2, <2>3, <2>4, <2>5, <2>6, <2>7, <2>8, <2>9, <2>10 DEF RecoveryStep
<1>3. ProcessesTyped'
  BY PidFacts DEF RecoveryStep, Monitor, RecoveryBegins, RecoveryLaunches,
     RecoveryRefused, RecoveryReady, RecoveryLaunchFails, RecoveryLaunchFailed,
     RecoveryRaises, RecoveryUncharged, RecoveryExhausted, RecoveryInstalls,
     RecoveryDropped, RecoveryCancelled, Spawns, Abandons, Reaps, ProcessesTyped
<1>4. RuntimeTyped'
  BY <1>0 DEF RuntimeTyped
<1>5. Counted'
  <2>1. UNCHANGED <<inflight, miscounted>> /\ \A k \in Jobs : InFlight(k)' <=> InFlight(k)
    BY <1>0 DEF InFlight
  <2>. QED BY <2>1, CountUnchanged
<1>6. HoldersWait'
  BY <1>0 DEF HoldersWait
<1>7. IdleHeld'
  BY <1>0 DEF IdleHeld
<1>. QED BY <1>1, <1>2, <1>3, <1>4, <1>5, <1>6, <1>7

(* Whoever stops the worker wants it, and waits for the recovery first.      *)
LEMMA StopMoves ==
    ASSUME WorkInv, NEW a \in Stoppers, StopBegins(a) \/ RecoveryGone(a)
    PROVE  WorkInv'
<1>. USE DEF WorkInv, supervisor, processes, jobs, idle, consent, history, others
<1>1. Records'
  <2>1. lock' \in LockRecords
    BY DEF StopBegins, RecoveryGone, Empties, Records, LockRecords, SupervisorTyped
  <2>2. rec' \in RecoveryRecords /\ (rec'.at # "none" => rec'.attempt # 0)
    BY DEF StopBegins, RecoveryGone, Records, RecoveryRecords
  <2>. QED BY <2>1, <2>2 DEF Records
<1>2. SupervisorTyped'
  BY PidFacts DEF StopBegins, RecoveryGone, Empties, Wants, Stoppers, SupervisorTyped,
     Records, LockRecords, RecoveryRecords
<1>3. ProcessesTyped'
  BY PidFacts DEF StopBegins, RecoveryGone, Empties, Wants, Stoppers, ProcessesTyped
<1>4. RuntimeTyped'
  BY DEF StopBegins, RecoveryGone, Empties, Wants, Stoppers, RuntimeTyped, SupervisorTyped
<1>5. Counted'
  <2>1. UNCHANGED <<inflight, miscounted>> /\ \A k \in Jobs : InFlight(k)' <=> InFlight(k)
    BY DEF StopBegins, RecoveryGone, Empties, Wants, Stoppers, InFlight, RuntimeTyped
  <2>. QED BY <2>1, CountUnchanged
<1>6. HoldersWait'
  BY JobsAssumption DEF StopBegins, RecoveryGone, Empties, Wants, Stoppers, HoldersWait,
     Records, LockRecords, RuntimeTyped
<1>7. IdleHeld'
  BY JobsAssumption DEF StopBegins, RecoveryGone, Empties, Wants, Stoppers, IdleHeld,
     HoldersWait, Records, LockRecords, RuntimeTyped
<1>. QED BY <1>1, <1>2, <1>3, <1>4, <1>5, <1>6, <1>7

(* A stop has ended.                                                         *)
LEMMA StopEnds ==
    ASSUME WorkInv, IdleStopped \/ GrantsRevoked \/ RuntimeStopped
    PROVE  WorkInv'
<1>. USE DEF WorkInv, supervisor, processes, jobs, idle, consent, history, others
<1>1. Records'
  BY PidFacts DEF IdleStopped, GrantsRevoked, RuntimeStopped, StopDone, AfterStop,
     Records, SupervisorTyped, LockRecords, RecoveryRecords
<1>2. SupervisorTyped'
  BY PidFacts DEF IdleStopped, GrantsRevoked, RuntimeStopped, StopDone, AfterStop,
     SupervisorTyped, Records, LockRecords, RecoveryRecords
<1>3. ProcessesTyped'
  BY PidFacts DEF IdleStopped, GrantsRevoked, RuntimeStopped, StopDone, AfterStop,
     ProcessesTyped
<1>4. RuntimeTyped'
  <2>1. CASE IdleStopped
    BY <2>1 DEF IdleStopped, StopDone, RuntimeTyped
  <2>2. CASE GrantsRevoked
    BY <2>2 DEF GrantsRevoked, StopDone, RuntimeTyped
  <2>3. CASE RuntimeStopped
    BY <2>3 DEF RuntimeStopped, StopDone, RuntimeTyped
  <2>. QED BY <2>1, <2>2, <2>3
<1>5. Counted'
  <2>1. UNCHANGED <<inflight, miscounted>> /\ \A k \in Jobs : InFlight(k)' <=> InFlight(k)
    BY DEF IdleStopped, GrantsRevoked, RuntimeStopped, StopDone, AfterStop, InFlight,
       RuntimeTyped
  <2>. QED BY <2>1, CountUnchanged
<1>6. HoldersWait'
  BY JobsAssumption DEF IdleStopped, GrantsRevoked, RuntimeStopped, StopDone, AfterStop,
     HoldersWait, Records, LockRecords, RuntimeTyped
<1>7. IdleHeld'
  BY JobsAssumption DEF IdleStopped, GrantsRevoked, RuntimeStopped, StopDone, AfterStop,
     IdleHeld, HoldersWait, Records, LockRecords, RuntimeTyped
<1>. QED BY <1>1, <1>2, <1>3, <1>4, <1>5, <1>6, <1>7

(* The idle exit stops the worker only if no job is counted.                 *)
LEMMA IdleEnds ==
    ASSUME WorkInv, IdleTimeout
    PROVE  WorkInv'
<1>. USE DEF WorkInv, supervisor, processes, jobs, idle, consent, history, others
<1>1. Records'
  BY PidFacts DEF IdleTimeout, Records, SupervisorTyped, LockRecords, RecoveryRecords
<1>2. SupervisorTyped'
  BY PidFacts DEF IdleTimeout, SupervisorTyped, Records, LockRecords, RecoveryRecords
<1>3. ProcessesTyped'
  BY PidFacts DEF IdleTimeout, ProcessesTyped
<1>4. RuntimeTyped'
  BY DEF IdleTimeout, RuntimeTyped, SupervisorTyped
<1>5. Counted'
  <2>1. UNCHANGED <<inflight, miscounted>> /\ \A k \in Jobs : InFlight(k)' <=> InFlight(k)
    BY DEF IdleTimeout, InFlight, RuntimeTyped
  <2>. QED BY <2>1, CountUnchanged
<1>6. HoldersWait'
  BY JobsAssumption DEF IdleTimeout, HoldersWait, Records, LockRecords, RuntimeTyped
<1>7. IdleHeld'
  <2>1. CASE inflight = 0 /\ ~miscounted
    <3>1. Cardinality(Busy) = 0
      BY <2>1 DEF Counted
    <3>2. Busy = {}
      BY <3>1, BusyFinite, FS_EmptySet
    <3>. QED BY <3>2 DEF IdleTimeout, IdleHeld, Busy, InFlight
  <2>2. CASE ~(inflight = 0 /\ ~miscounted)
    BY <2>2 DEF IdleTimeout, IdleHeld
  <2>. QED BY <2>1, <2>2
<1>. QED BY <1>1, <1>2, <1>3, <1>4, <1>5, <1>6, <1>7

(* The grant monitor marks the worker revoked.                               *)
LEMMA GrantsMove ==
    ASSUME WorkInv, NEW d \in BOOLEAN, NEW u \in BOOLEAN, Reconcile(d, u)
    PROVE  WorkInv'
<1>. USE DEF WorkInv, supervisor, processes, jobs, idle, consent, history, others
<1>1. Records'
  BY PidFacts DEF Reconcile, Records, SupervisorTyped, LockRecords, RecoveryRecords
<1>2. SupervisorTyped'
  BY PidFacts DEF Reconcile, SupervisorTyped, Records, LockRecords, RecoveryRecords
<1>3. ProcessesTyped'
  BY PidFacts DEF Reconcile, ProcessesTyped
<1>4. RuntimeTyped'
  BY DEF Reconcile, RuntimeTyped, SupervisorTyped
<1>5. Counted'
  <2>1. UNCHANGED <<inflight, miscounted>> /\ \A k \in Jobs : InFlight(k)' <=> InFlight(k)
    BY DEF Reconcile, InFlight, RuntimeTyped
  <2>. QED BY <2>1, CountUnchanged
<1>6. HoldersWait'
  BY JobsAssumption DEF Reconcile, HoldersWait, Records, LockRecords, RuntimeTyped
<1>7. IdleHeld'
  BY JobsAssumption DEF Reconcile, IdleHeld, HoldersWait, Records, LockRecords,
     RuntimeTyped
<1>. QED BY <1>1, <1>2, <1>3, <1>4, <1>5, <1>6, <1>7

(* A process ends at any time, or survives the stop that would end it.       *)
LEMMA ProcessEnds ==
    ASSUME WorkInv, NEW p \in Pids, Exits(p) \/ SurvivesKill(p)
    PROVE  WorkInv'
<1>. USE DEF WorkInv, supervisor, processes, jobs, idle, consent, history, others
<1>1. Records'
  BY PidFacts DEF Exits, SurvivesKill, Records, SupervisorTyped, LockRecords, RecoveryRecords
<1>2. SupervisorTyped'
  BY PidFacts DEF Exits, SurvivesKill, SupervisorTyped, Records, LockRecords, RecoveryRecords
<1>3. ProcessesTyped'
  BY PidFacts DEF Exits, SurvivesKill, ProcessesTyped
<1>4. RuntimeTyped'
  BY DEF Exits, SurvivesKill, RuntimeTyped, SupervisorTyped
<1>5. Counted'
  <2>1. UNCHANGED <<inflight, miscounted>> /\ \A k \in Jobs : InFlight(k)' <=> InFlight(k)
    BY DEF Exits, SurvivesKill, InFlight, RuntimeTyped
  <2>. QED BY <2>1, CountUnchanged
<1>6. HoldersWait'
  BY JobsAssumption DEF Exits, SurvivesKill, HoldersWait, Records, LockRecords, RuntimeTyped
<1>7. IdleHeld'
  BY JobsAssumption DEF Exits, SurvivesKill, IdleHeld, HoldersWait, Records, LockRecords, RuntimeTyped
<1>. QED BY <1>1, <1>2, <1>3, <1>4, <1>5, <1>6, <1>7

(* A reload forgets the jobs in flight.                                      *)
LEMMA ReloadForgets ==
    ASSUME WorkInv, RuntimeStops
    PROVE  WorkInv'
<1>. USE DEF WorkInv, supervisor, processes, jobs, idle, consent, history, others
<1>1. Records'
  BY PidFacts DEF RuntimeStops, Records, SupervisorTyped, LockRecords, RecoveryRecords
<1>2. SupervisorTyped'
  BY PidFacts DEF RuntimeStops, SupervisorTyped, Records, LockRecords, RecoveryRecords
<1>3. ProcessesTyped'
  BY PidFacts DEF RuntimeStops, ProcessesTyped
<1>4. RuntimeTyped'
  BY DEF RuntimeStops, RuntimeTyped, SupervisorTyped
<1>5. Counted'
  <2>1. Busy' = Busy /\ inflight' = 0 /\ (~miscounted' => Busy = {})
    BY DEF RuntimeStops, Busy, InFlight
  <2>2. Cardinality(Busy) >= 0 /\ (Busy = {} => Cardinality(Busy) = 0)
    BY BusyFinite, FS_EmptySet
  <2>. QED BY <2>1, <2>2 DEF Counted
<1>6. HoldersWait'
  BY JobsAssumption DEF RuntimeStops, HoldersWait, Records, LockRecords, RuntimeTyped
<1>7. IdleHeld'
  BY DEF RuntimeStops, IdleHeld, InFlight
<1>. QED BY <1>1, <1>2, <1>3, <1>4, <1>5, <1>6, <1>7

(* The rest of a reload.                                                     *)
LEMMA ReloadMoves ==
    ASSUME WorkInv, RuntimeDrained \/ RuntimeStarts \/ RuntimeStartFails \/ Register
    PROVE  WorkInv'
<1>. USE DEF WorkInv, supervisor, processes, jobs, idle, consent, history, others
<1>1. Records'
  BY PidFacts DEF RuntimeDrained, RuntimeStarts, RuntimeStartFails, Register, Abandons,
     Records, SupervisorTyped, LockRecords, RecoveryRecords
<1>2. SupervisorTyped'
  BY PidFacts DEF RuntimeDrained, RuntimeStarts, RuntimeStartFails, Register, Abandons,
     SupervisorTyped, Records, LockRecords, RecoveryRecords
<1>3. ProcessesTyped'
  BY PidFacts DEF RuntimeDrained, RuntimeStarts, RuntimeStartFails, Register, Abandons,
     ProcessesTyped
<1>4. RuntimeTyped'
  BY DEF RuntimeDrained, RuntimeStarts, RuntimeStartFails, Register, Abandons,
     RuntimeTyped, SupervisorTyped
<1>5. Counted'
  <2>1. UNCHANGED <<inflight, miscounted>> /\ \A k \in Jobs : InFlight(k)' <=> InFlight(k)
    BY DEF RuntimeDrained, RuntimeStarts, RuntimeStartFails, Register, Abandons,
       InFlight, RuntimeTyped
  <2>. QED BY <2>1, CountUnchanged
<1>6. HoldersWait'
  BY JobsAssumption DEF RuntimeDrained, RuntimeStarts, RuntimeStartFails, Register,
     Abandons, HoldersWait, Records, LockRecords, RuntimeTyped
<1>7. IdleHeld'
  BY JobsAssumption DEF RuntimeDrained, RuntimeStarts, RuntimeStartFails, Register,
     Abandons, IdleHeld, HoldersWait, Records, LockRecords, RuntimeTyped
<1>. QED BY <1>1, <1>2, <1>3, <1>4, <1>5, <1>6, <1>7
LEMMA WorkNext == WorkInv /\ [Next]_vars => WorkInv'
<1>. SUFFICES ASSUME WorkInv, [Next]_vars PROVE WorkInv'
  OBVIOUS
<1>1. ASSUME NEW p \in Pids, Exits(p) \/ SurvivesKill(p) PROVE WorkInv'
  BY <1>1, ProcessEnds
<1>2. ASSUME NEW j \in Jobs, JobStep(j) PROVE WorkInv'
  BY <1>2, JobMoves, JobAcquires, JobLaunches, JobLeavesFree, JobLeavesLock DEF JobStep
<1>3. CASE RecoveryStep
  BY <1>3, RecoveryMoves
<1>4. CASE StopStep
  BY <1>4, StopMoves, StopEnds, JobLeavesLock, IdleEnds, GrantsMove DEF StopStep
<1>5. CASE RuntimeStep
  BY <1>5, ReloadForgets, ReloadMoves DEF RuntimeStep
<1>6. CASE UNCHANGED vars
  <2>. USE <1>6 DEF WorkInv, vars, supervisor, processes, jobs, idle, consent, history
  <2>1. Records' /\ SupervisorTyped' /\ ProcessesTyped' /\ RuntimeTyped' /\ HoldersWait' /\ IdleHeld'
    BY DEF Records, SupervisorTyped, ProcessesTyped, RuntimeTyped, HoldersWait, IdleHeld
  <2>2. Counted'
    BY CountUnchanged DEF InFlight
  <2>. QED BY <2>1, <2>2
<1>. QED BY <1>1, <1>2, <1>3, <1>4, <1>5, <1>6 DEF Next

(* WorkIsSpared: for any number of jobs and any restart budget, whatever     *)
(* dies, is withdrawn, revoked or reloaded when, the idle exit stops no      *)
(* worker that a counted job was promised, the count never exceeds the jobs  *)
(* in flight and no recovery exceeds its budget (_acquire_worker,            *)
(* _release_worker, _exit_when_idle, monitor_worker).                        *)
THEOREM WorkIsSpared == Spec => []WorkSpared
<1>1. Init => WorkInv
  <2>. SUFFICES ASSUME Init PROVE WorkInv
    OBVIOUS
  <2>1. Records /\ SupervisorTyped /\ ProcessesTyped /\ RuntimeTyped
    BY PidFacts DEF Init, Records, SupervisorTyped, ProcessesTyped, RuntimeTyped
  <2>2. Counted
    <3>1. Busy = {} /\ inflight = 0
      BY DEF Init, Busy, InFlight
    <3>. QED BY <3>1, FS_EmptySet DEF Counted
  <2>3. HoldersWait /\ IdleHeld
    BY JobsAssumption DEF Init, HoldersWait, IdleHeld
  <2>. QED BY <2>1, <2>2, <2>3 DEF WorkInv
<1>2. ASSUME WorkInv PROVE WorkSpared
  <2>1. inflight \in 0 .. Cardinality(Jobs)
    <3>. DEFINE n == Cardinality(Busy)
                m == Cardinality(Jobs)
    <3>1. inflight \in Nat /\ inflight <= n /\ n \in Nat /\ n <= m
      BY <1>2, BusyFinite DEF WorkInv, RuntimeTyped, Counted
    <3>2. m \in Nat
      BY JobsAssumption, FS_CardinalityType
    <3>. HIDE DEF n, m
    <3>3. inflight \in 0 .. m
      BY <3>1, <3>2
    <3>. QED BY <3>3 DEF m
  <2>2. TypeOK
    <3>. USE <1>2 DEF WorkInv
    <3>1. /\ lock.by \in Stoppers \cup {"nobody"}
          /\ lock.stage \in {"free", "launching", "failing", "dropping", "recovery", "stopping"}
      BY DEF Records, LockRecords
    <3>2. /\ rec.at \in {"none", "begin", "backoff", "launching", "failing", "install",
                         "dropping", "uncharged", "exhausting"}
          /\ rec.attempt \in 0 .. MaxRestarts
      BY DEF Records, RecoveryRecords, Budget
    <3>3. {idleExit, idleStop, changed, revoked, ended, miscounted} \subseteq BOOLEAN
      BY Zenon DEF RuntimeTyped
    <3>. QED BY <2>1, <3>1, <3>2, <3>3 DEF SupervisorTyped, ProcessesTyped, RuntimeTyped, Budget,
           TypeOK
  <2>3. IdleSparesWork
    BY <1>2 DEF WorkInv, IdleHeld, IdleSparesWork
  <2>. QED BY <2>2, <2>3 DEF WorkSpared
<1>. QED BY <1>1, <1>2, WorkNext, PTL DEF Spec
===============================================================================
