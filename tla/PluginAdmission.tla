--------------------------- MODULE PluginAdmission ---------------------------
(***************************************************************************)
(* The weighted pool of concurrent plugin-worker jobs:                     *)
(* plugin_admission.PluginAdmissionQueue over stride.StrideQueue, driven   *)
(* by the asyncio tasks that call `run`, and gated by the service's        *)
(* `_admits` predicate and the host-pressure probe.                        *)
(*                                                                         *)
(* Everything but the pressure probe runs on one event loop.  `_pump` is a *)
(* synchronous loop: while `pumping` is TRUE it is on the stack and no     *)
(* other loop step happens, but the host may become (un)saturated between  *)
(* two of its iterations, because `width()` is read in each of them.       *)
(***************************************************************************)
EXTENDS StrideQueue

CONSTANTS
    Jobs,           \* job tasks, each submitted at most once
    Profiles,       \* plugin profiles (workload ids)
    ProfileOf,      \* the profile each job names
    MaxConcurrent,  \* max_concurrent
    MaxWaiting,     \* max_waiting
    Weights         \* the weights policy may hold

ASSUME JobsAssumption == IsFiniteSet(Jobs)
ASSUME ProfileOfAssumption == ProfileOf \in [Jobs -> Profiles]
ASSUME MaxConcurrentAssumption == MaxConcurrent \in Nat \ {0}
ASSUME MaxWaitingAssumption == MaxWaiting \in Nat \ {0}
ASSUME WeightsAssumption == Weights \subseteq Int

VARIABLES
    pc,         \* where each job's task is
    waiter,     \* the Future `_acquire` created for the job
    mustCancel, \* tasks whose next step raises CancelledError
    queue,      \* _queue
    running,    \* _running; 0 for an absent profile
    admitted,   \* the profiles `_admits` accepts now
    weight,     \* what `_weight_of` answers now
    saturated,  \* the pressure probe's reading
    pumping,    \* `_pump` is on the stack
    quiet       \* history: no silent gate or pressure change since a pump

tasks == <<pc, waiter, mustCancel>>
policy == <<admitted, weight>>
vars == <<tasks, queue, running, policy, saturated, pumping, quiet>>

Terminal == {"rejected", "full", "cancelled", "done"}
Stages == {"new", "accepted", "acquiring", "waiting", "running"} \cup Terminal

(* The shape of the state: the task table, the stride tables and the pool. *)
TypeOK ==
    /\ pc \in [Jobs -> Stages]
    /\ waiter \in [Jobs -> {"none", "pending", "granted", "cancelled"}]
    /\ mustCancel \in SUBSET Jobs
    /\ queue \in Queues(Profiles, Jobs)
    /\ running \in [Profiles -> Nat]
    /\ admitted \in SUBSET Profiles
    /\ weight \in [Profiles -> Weights]
    /\ saturated \in BOOLEAN
    /\ pumping \in BOOLEAN
    /\ quiet \in BOOLEAN

Init ==
    /\ pc = [j \in Jobs |-> "new"]
    /\ waiter = [j \in Jobs |-> "none"]
    /\ mustCancel = {}
    /\ queue = EmptyQueue(Profiles)
    /\ running = [p \in Profiles |-> 0]
    /\ admitted \in SUBSET Profiles
    /\ weight \in [Profiles -> Weights]
    /\ saturated = FALSE
    /\ pumping = FALSE
    /\ quiet = TRUE

-----------------------------------------------------------------------------
\* One slot per running job; running() is their number.
Slots == UNION {{p} \X (1..running[p]) : p \in Profiles}

\* Mutants: one slot too many; no slot at all under pressure.
WidthOffByOne == IF saturated THEN 1 ELSE MaxConcurrent + 1
WidthZeroUnderPressure == IF saturated THEN 0 ELSE MaxConcurrent

Width == IF saturated THEN 1 ELSE MaxConcurrent

HasRoom == Depth(queue) < MaxWaiting

\* _release, up to the pump it ends with
Release(p) ==
    running' = [running EXCEPT ![p] = IF @ > 1 THEN @ - 1 ELSE 0]

\* Mutant: the callers of _pump leave it out.
StartPumpForgotten == pumping' = pumping

StartPump == pumping' = TRUE

-----------------------------------------------------------------------------
(* submit_job_text for a plugin workload: the authorizer asks `_admits`,     *)
(* admit_plugin_job asks has_room(), and only then is an id minted and the   *)
(* job's task created.                                                       *)
Submit(j) ==
    /\ ~pumping
    /\ pc[j] = "new"
    /\ pc' = [pc EXCEPT ![j] =
                IF ProfileOf[j] \in admitted /\ HasRoom THEN "accepted" ELSE "rejected"]
    /\ UNCHANGED <<waiter, mustCancel, queue, running, policy, saturated, pumping, quiet>>

(* The task's first step, run() -> _acquire() -> _push() -> _pump(): the     *)
(* bound is enforced again, and the pump runs before the task can suspend.   *)
Acquire(j) ==
    /\ ~pumping
    /\ pc[j] = "accepted"
    /\ j \notin mustCancel
    /\ HasRoom
    /\ queue' = Push(queue, ProfileOf[j], j)
    /\ waiter' = [waiter EXCEPT ![j] = "pending"]
    /\ pc' = [pc EXCEPT ![j] = "acquiring"]
    /\ StartPump
    /\ UNCHANGED <<mustCancel, running, policy, saturated, quiet>>

AcquireRefused(j) ==
    /\ ~pumping
    /\ pc[j] = "accepted"
    /\ j \notin mustCancel
    /\ ~HasRoom
    /\ pc' = [pc EXCEPT ![j] = "full"]
    /\ UNCHANGED <<waiter, mustCancel, queue, running, policy, saturated, pumping, quiet>>

(* One iteration of _pump that serves p: choose, charge, clamp, pop.  A      *)
(* waiter cancelled before its turn takes no slot.                           *)
PumpServe(p) ==
    /\ pumping
    /\ Cardinality(Slots) < Width
    /\ IsNext(queue, admitted, p)
    /\ queue' = Popped(queue, admitted, p, weight[p])
    /\ LET j == Head(queue.items[p])
       IN  IF waiter[j] = "cancelled"
           THEN UNCHANGED <<running, waiter>>
           ELSE /\ running' = [running EXCEPT ![p] = @ + 1]
                /\ waiter' = [waiter EXCEPT ![j] = "granted"]
    /\ UNCHANGED <<pc, mustCancel, policy, saturated, pumping, quiet>>

(* The loop ends: the pool is at its width, or nothing admitted waits.  A    *)
(* task whose own _acquire pumped finds its future done and does not suspend *)
(* (an await of a done future returns at once); otherwise it parks.          *)
PumpEnd ==
    /\ pumping
    /\ \/ Cardinality(Slots) >= Width
       \/ Present(queue) \cap admitted = {}
    /\ pumping' = FALSE
    /\ quiet' = TRUE
    /\ pc' = [j \in Jobs |->
                IF pc[j] # "acquiring" THEN pc[j]
                ELSE IF waiter[j] = "granted" THEN "running" ELSE "waiting"]
    /\ UNCHANGED <<waiter, mustCancel, queue, running, policy, saturated>>

\* The parked task resumes with its slot and starts the worker call.
Resume(j) ==
    /\ ~pumping
    /\ pc[j] = "waiting"
    /\ waiter[j] = "granted"
    /\ j \notin mustCancel
    /\ pc' = [pc EXCEPT ![j] = "running"]
    /\ UNCHANGED <<waiter, mustCancel, queue, running, policy, saturated, pumping, quiet>>

\* The worker call settles, however it settles, and the slot is given back.
Finish(j) ==
    /\ ~pumping
    /\ pc[j] = "running"
    /\ pc' = [pc EXCEPT ![j] = "done"]
    /\ Release(ProfileOf[j])
    /\ StartPump
    /\ UNCHANGED <<waiter, mustCancel, queue, policy, saturated, quiet>>

(* task.cancel(): a pending future is cancelled on the spot; a task that is  *)
(* not waiting on one is marked and raises at its next step.  Cancelling a   *)
(* running worker call makes it settle early, which is Finish.               *)
Cancel(j) ==
    /\ ~pumping
    /\ pc[j] \in {"accepted", "waiting"}
    /\ IF waiter[j] = "pending"
       THEN waiter' = [waiter EXCEPT ![j] = "cancelled"] /\ UNCHANGED mustCancel
       ELSE waiter[j] # "cancelled" /\ mustCancel' = mustCancel \cup {j} /\ UNCHANGED waiter
    /\ UNCHANGED <<pc, queue, running, policy, saturated, pumping, quiet>>

\* A task cancelled before its first step never runs a line of `run`.
NeverStarted(j) ==
    /\ ~pumping
    /\ pc[j] = "accepted"
    /\ j \in mustCancel
    /\ pc' = [pc EXCEPT ![j] = "cancelled"]
    /\ UNCHANGED <<waiter, mustCancel, queue, running, policy, saturated, pumping, quiet>>

\* Mutant: a cancelled waiter never had a slot to give back.
UnwindKeepsSlot(j) ==
    /\ ~pumping
    /\ pc[j] = "waiting"
    /\ waiter[j] = "cancelled" \/ (waiter[j] = "granted" /\ j \in mustCancel)
    /\ queue' = Discard(queue, ProfileOf[j], j)
    /\ pc' = [pc EXCEPT ![j] = "cancelled"]
    /\ UNCHANGED <<waiter, mustCancel, running, policy, saturated, pumping, quiet>>

(* CancelledError in _acquire: leave the queue, and give back a slot that    *)
(* was handed over before the cancellation arrived.                          *)
Unwind(j) ==
    /\ ~pumping
    /\ pc[j] = "waiting"
    /\ waiter[j] = "cancelled" \/ (waiter[j] = "granted" /\ j \in mustCancel)
    /\ queue' = Discard(queue, ProfileOf[j], j)
    /\ pc' = [pc EXCEPT ![j] = "cancelled"]
    /\ IF waiter[j] = "granted"
       THEN Release(ProfileOf[j]) /\ StartPump
       ELSE UNCHANGED <<running, pumping>>
    /\ UNCHANGED <<waiter, mustCancel, policy, saturated, quiet>>

-----------------------------------------------------------------------------
(* What surrounds the pool.                                                  *)

\* A committed policy command: the new policy is published, then kick().
Kick(newAdmitted, newWeight) ==
    /\ ~pumping
    /\ admitted' = newAdmitted
    /\ weight' = newWeight
    /\ StartPump
    /\ UNCHANGED <<tasks, queue, running, saturated, quiet>>

(* The other half of `_admits`, PluginLifecycle.pending and .unavailable,    *)
(* changes without a kick.                                                   *)
Gate(newAdmitted) ==
    /\ ~pumping
    /\ newAdmitted # admitted
    /\ admitted' = newAdmitted
    /\ quiet' = FALSE
    /\ UNCHANGED <<tasks, queue, running, weight, saturated, pumping>>

\* The host crosses its memory threshold, also in the middle of a pump.
PressureChange ==
    /\ saturated' = ~saturated
    /\ quiet' = FALSE
    /\ UNCHANGED <<tasks, queue, running, policy, pumping>>

TaskStep(j) ==
    \/ Submit(j) \/ Acquire(j) \/ AcquireRefused(j) \/ Resume(j) \/ Finish(j)
    \/ Cancel(j) \/ NeverStarted(j) \/ Unwind(j)

KickAny == \E a \in SUBSET Profiles, w \in [Profiles -> Weights] : Kick(a, w)
GateAny == \E a \in SUBSET Profiles : Gate(a)
Pump == PumpEnd \/ \E p \in Profiles : PumpServe(p)

Next ==
    \/ \E j \in Jobs : TaskStep(j)
    \/ Pump
    \/ KickAny
    \/ GateAny
    \/ PressureChange

Spec == Init /\ [][Next]_vars

-----------------------------------------------------------------------------
Queued(j) == pc[j] \in {"acquiring", "waiting"}
Holds(j) == pc[j] = "running" \/ (Queued(j) /\ waiter[j] = "granted")

(* SlotsAccounted: the pool counts exactly the jobs that hold a slot.  A     *)
(* grant that races a cancellation, a waiter cancelled before its turn and a *)
(* release each move the count by what they move the holders, so no slot     *)
(* leaks and none is handed back twice (_acquire's CancelledError handler,   *)
(* _release, _pump).                                                         *)
SlotsAccounted ==
    \A p \in Profiles :
        running[p] = Cardinality({j \in Jobs : ProfileOf[j] = p /\ Holds(j)})

(* PoolBounded: however the width flaps with host pressure, no more than     *)
(* MaxConcurrent worker calls hold slots (max_concurrent).                   *)
PoolBounded == Cardinality(Slots) <= MaxConcurrent

(* SlotsSound: the pool's tables are well formed, its counts are its jobs,   *)
(* and it is never over its width (PluginAdmissionQueue).                    *)
SlotsSound == TypeOK /\ SlotsAccounted /\ PoolBounded

(* NoLostWaiter: a job still awaiting its future is in its profile's queue,  *)
(* once, where a pump can find it; and nothing that finished, holds a slot   *)
(* or never started is left in a queue (push, pop, discard and prune agree). *)
QueueSound ==
    \A p \in Profiles : \A i \in DOMAIN queue.items[p] :
        LET j == queue.items[p][i]
        IN  ProfileOf[j] = p /\ Queued(j) /\ waiter[j] \in {"pending", "cancelled"}

QueueDistinct ==
    \A p \in Profiles : \A i, k \in DOMAIN queue.items[p] :
        i # k => queue.items[p][i] # queue.items[p][k]

QueueComplete ==
    \A j \in Jobs : Queued(j) /\ waiter[j] = "pending" =>
        \E i \in DOMAIN queue.items[ProfileOf[j]] : queue.items[ProfileOf[j]][i] = j

NoLostWaiter == QueueSound /\ QueueDistinct /\ QueueComplete

(* WorkConserving: when the loop is not inside a pump and nothing changed    *)
(* silently since the last one, a free slot means that no admitted profile   *)
(* is waiting: every step that frees a slot or admits work pumps.            *)
WorkConserving ==
    ~pumping /\ quiet =>
        \/ Cardinality(Slots) >= Width
        \/ Present(queue) \cap admitted = {}

(* BoundedLag: two waiting profiles are never more than one full stride      *)
(* apart, so neither a newcomer, nor a profile held by policy for any time,  *)
(* nor a weight change can bank credit or fall behind by more than one       *)
(* weight-1 serve (push at virtual time, clamp_held_out).                    *)
BoundedLag == Level(queue)

-----------------------------------------------------------------------------
(* The event loop runs every ready callback, pumps run to completion, and a  *)
(* worker call is assumed to settle: its deadline is extended by progress.   *)
Progress(j) ==
    \/ Acquire(j) \/ AcquireRefused(j) \/ NeverStarted(j)
    \/ Resume(j) \/ Unwind(j) \/ Finish(j)

Fairness == WF_vars(Pump) /\ \A j \in Jobs : SF_vars(Progress(j))

(* The pool when only kicks change what is admitted.                         *)
KickedNext ==
    \/ \E j \in Jobs : TaskStep(j)
    \/ Pump
    \/ KickAny
    \/ PressureChange

KickedSpec == Init /\ [][KickedNext]_vars /\ Fairness

(* WaiterServed: a job waiting for a slot gets one, is cancelled, or has its *)
(* profile disabled: neither weights, cancelled rivals nor a saturated host  *)
(* starve it.                                                                *)
WaiterServed ==
    \A j \in Jobs :
        (Queued(j) /\ waiter[j] = "pending") ~>
            (waiter[j] # "pending" \/ ProfileOf[j] \notin admitted)
=============================================================================
