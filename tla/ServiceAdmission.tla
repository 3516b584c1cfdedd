--------------------------- MODULE ServiceAdmission ---------------------------
(***************************************************************************)
(* The plugin admission pool composed with plugin_lifecycle.PluginLifecycle*)
(* and the policy listener that drives both (service._policy_changed,      *)
(* _configuration_changed, _apply_discovery, _admits).                     *)
(*                                                                         *)
(* A worker's device, model and configuration are fixed when it starts, so *)
(* a change of one of them makes the profile's worker `stale` until a      *)
(* reload has replaced it.  The lifecycle holds such a profile in          *)
(* `pending` while the reload runs and in `unavailable` when it failed.    *)
(***************************************************************************)
EXTENDS Integers, FiniteSets, Sequences

CONSTANTS Jobs, Profiles, ProfileOf, MaxConcurrent, MaxWaiting, Weights,
    RetryAttempts   \* DEVICE_RELOAD_RETRY_ATTEMPTS

ASSUME RetryAttemptsAssumption == RetryAttempts \in Nat \ {0}

VARIABLES
    pc, waiter, mustCancel, queue, running, weight, saturated, pumping, quiet,
    permitted,      \* profiles routing.policy_admits accepts
    pending,        \* PluginLifecycle.pending
    unavailable,    \* PluginLifecycle.unavailable
    requested,      \* PluginLifecycle._requested
    reload,         \* where the reload task is
    affected,       \* reload_accelerators' local
    attempt,        \* _reload_devices' loop variable
    toReload,       \* profiles the policy listener still has to schedule
    stale,          \* profiles whose live worker predates the chosen mount
    mounting        \* stale profiles the attempt under way will remount

poolVars == <<pc, waiter, mustCancel, queue, running, weight, saturated, pumping, quiet>>
reloadVars == <<requested, reload, affected, attempt>>
mountVars == <<stale, mounting>>
gateVars == <<permitted, pending, unavailable>>
lifecycleVars == <<gateVars, reloadVars, toReload, mountVars>>
vars == <<poolVars, lifecycleVars>>

\* service._admits
Admits == permitted \ (pending \cup unavailable)

Pool == INSTANCE PluginAdmission WITH admitted <- Admits

Init ==
    /\ permitted \in SUBSET Profiles
    /\ pending = {} /\ unavailable = {}
    /\ requested = FALSE /\ reload = "idle" /\ affected = {} /\ attempt = 0
    /\ toReload = {} /\ stale = {} /\ mounting = {}
    /\ Pool!Init

-----------------------------------------------------------------------------
\* The listener's synchronous code is not interrupted between kick and schedule.
LoopFree == toReload = {}

JobStep ==
    /\ LoopFree
    /\ UNCHANGED lifecycleVars
    /\ \E j \in Jobs : Pool!TaskStep(j)

PumpStep == UNCHANGED lifecycleVars /\ Pool!Pump

Pressure == UNCHANGED lifecycleVars /\ Pool!PressureChange

(* A committed command: policy, weights, and the device, model or            *)
(* configuration of `changed`.  _policy_changed kicks the pool first and     *)
(* schedules the reload after.                                               *)
PolicyChanged(newPermitted, newWeight, changed) ==
    /\ LoopFree
    /\ permitted' = newPermitted
    /\ UNCHANGED <<pending, unavailable>>
    /\ Pool!Kick(Admits', newWeight)
    /\ toReload' = changed
    /\ stale' = stale \cup changed
    /\ mounting' = mounting \ changed
    /\ UNCHANGED reloadVars

\* schedule_reload, starting the reload task unless one is already running
ScheduleReload(profiles) ==
    /\ pending' = pending \cup profiles
    /\ requested' = TRUE
    /\ reload' = IF reload = "idle" THEN "loop" ELSE reload
    /\ UNCHANGED <<permitted, unavailable, affected, attempt>>

\* Only `admitted` moves in the pool, and the pool is not told.
Regate ==
    /\ UNCHANGED <<pc, waiter, mustCancel, queue, running, weight, saturated, pumping>>
    /\ quiet' = (quiet /\ Admits' = Admits)

ListenerSchedules ==
    /\ ~pumping
    /\ toReload # {}
    /\ ScheduleReload(toReload)
    /\ toReload' = {}
    /\ UNCHANGED mountVars
    /\ Regate

\* _apply_discovery saw the set of devices change: every plugin is reloaded.
DevicesChanged ==
    /\ LoopFree
    /\ ~pumping
    /\ ScheduleReload(Profiles)
    /\ stale' = Profiles
    /\ mounting' = {}
    /\ UNCHANGED toReload
    /\ Regate

-----------------------------------------------------------------------------
(* reload_accelerators                                                       *)

\* Mutant: the reload changes the gate while a pump is on the stack.
ReloadStepInPump == LoopFree /\ UNCHANGED <<permitted, toReload>> /\ Regate

ReloadStep == LoopFree /\ ~pumping /\ UNCHANGED <<permitted, toReload>> /\ Regate

\* The runtime is stopped and started: every worker gets the current choices.
BeginAttempt == reload' = "attempt" /\ mounting' = stale

ReloadRound ==
    /\ reload = "loop"
    /\ requested
    /\ affected' = pending
    /\ requested' = FALSE
    /\ attempt' = 0
    /\ BeginAttempt
    /\ UNCHANGED <<stale, pending, unavailable>>
    /\ ReloadStep

ReloadDone ==
    /\ reload = "loop"
    /\ ~requested
    /\ reload' = "idle"
    /\ pending' = {}
    /\ UNCHANGED <<requested, affected, attempt, unavailable, mountVars>>
    /\ ReloadStep

\* Mutant: the request flag is cleared after the reload, losing a later one.
AttemptSucceedsClearsRequest ==
    /\ reload = "attempt"
    /\ reload' = "apply"
    /\ requested' = FALSE
    /\ stale' = stale \ mounting
    /\ mounting' = {}
    /\ unavailable' = unavailable \ affected
    /\ UNCHANGED <<affected, attempt, pending>>
    /\ ReloadStep

AttemptSucceeds ==
    /\ reload = "attempt"
    /\ reload' = "apply"
    /\ stale' = stale \ mounting
    /\ mounting' = {}
    /\ unavailable' = unavailable \ affected
    /\ UNCHANGED <<requested, affected, attempt, pending>>
    /\ ReloadStep

MoreAttempts == attempt + 1 < RetryAttempts

AttemptFails ==
    /\ reload = "attempt"
    /\ attempt' = attempt + 1
    /\ mounting' = {}
    /\ IF MoreAttempts
       THEN reload' = "backoff" /\ UNCHANGED unavailable
       ELSE reload' = "loop" /\ unavailable' = unavailable \cup affected
    /\ UNCHANGED <<requested, affected, pending, stale>>
    /\ ReloadStep

Retry ==
    /\ reload = "backoff"
    /\ BeginAttempt
    /\ UNCHANGED <<requested, affected, attempt, pending, unavailable, stale>>
    /\ ReloadStep

\* on_reloaded: telemetry and readiness, then round the loop again
Reloaded ==
    /\ reload = "apply"
    /\ reload' = "loop"
    /\ UNCHANGED <<requested, affected, attempt, pending, unavailable, mountVars>>
    /\ ReloadStep

ReloadTask ==
    ReloadRound \/ ReloadDone \/ AttemptSucceeds \/ AttemptFails \/ Retry \/ Reloaded

PolicyAny ==
    \E a \in SUBSET Profiles, w \in [Profiles -> Weights], c \in SUBSET Profiles :
        PolicyChanged(a, w, c)

Next ==
    \/ JobStep \/ PumpStep \/ Pressure
    \/ PolicyAny \/ ListenerSchedules \/ DevicesChanged
    \/ ReloadTask

Spec == Init /\ [][Next]_vars

-----------------------------------------------------------------------------
(* StaleIsHeld: outside the listener's own kick, a profile whose worker      *)
(* still has the previous mount is refused by `_admits`, through every       *)
(* overlap of further commands, retries and failed reloads with the reload   *)
(* task's clearing of its pending set.                                       *)
StaleIsHeld == stale \cap Admits \subseteq toReload

(* PoolSpec: every step of the composition is a step of the pool alone, so   *)
(* the pool's safety properties hold of the service.                         *)
PoolSpec == Pool!Spec

-----------------------------------------------------------------------------
Fairness ==
    /\ WF_vars(PumpStep)
    /\ WF_vars(ListenerSchedules)
    /\ SF_vars(ReloadTask)
    /\ \A j \in Jobs : SF_vars(LoopFree /\ UNCHANGED lifecycleVars /\ Pool!Progress(j))

LiveSpec == Spec /\ Fairness

(* AdmittedWaiterServed: a job waiting for a slot gets one, is cancelled, or *)
(* is held at some later time (plugin_lifecycle: "admission must not stay    *)
(* wedged on a set that only this loop can clear").                          *)
AdmittedWaiterServed ==
    \A j \in Jobs :
        [](waiter[j] = "pending" /\ pc[j] = "waiting" =>
            <>(waiter[j] # "pending" \/ ProfileOf[j] \notin Admits))
=============================================================================
