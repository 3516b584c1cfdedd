---------------------------- MODULE PolicyControl ----------------------------
(***************************************************************************)
(* control.ControlService over state.PolicyStore and atomicio: the policy  *)
(* that commands change under a revision, its file, and the process that   *)
(* serves it.  A command holds the control lock from its revision check to *)
(* its publication in memory; the save runs on a pool thread.              *)
(*                                                                         *)
(* Shutdown cancels the adoption of plugin profiles but not the save it    *)
(* awaits, and the control socket answers commands until the very end.     *)
(***************************************************************************)
EXTENDS Integers, Sequences, FiniteSets

CONSTANTS
    Clients,        \* connections that send commands
    Adopter,        \* the task that adopts plugin profiles
    Profiles,       \* profile ids
    Catalog,        \* the profiles that have a default policy
    Settings,       \* what a profile's policy may be: enabled, and its weight
    DefaultSetting, \* the default one
    Choices,        \* the devices or models a profile may be given
    MaxChoices,     \* MAX_DEVICE_CHOICES, MAX_MODEL_CHOICES
    Commands,       \* the commands clients send
    MaxRevision     \* bound: committed revisions in a behaviour

ASSUME AdopterAssumption == Adopter \notin Clients /\ "free" \notin Clients \cup {Adopter}
ASSUME ProfilesAssumption == IsFiniteSet(Profiles)
ASSUME CatalogAssumption == Catalog \subseteq Profiles
ASSUME DefaultAssumption == DefaultSetting \in Settings /\ "absent" \notin Settings
ASSUME MaxChoicesAssumption == MaxChoices \in Nat
ASSUME MaxRevisionAssumption == MaxRevision \in Nat

VARIABLES
    phase,      \* serving, stopping (the socket still answers), exiting or down
    mem,        \* _state
    visible,    \* the policy file as the next process would read it
    durable,    \* the policy file as a power failure would leave it
    lock,       \* who holds _lock
    pc,         \* where each actor is
    command,    \* what each client sent, and the revision it expects
    saving,     \* each actor's save: its stage and the policy it writes
    view,       \* the newest policy each client was shown
    offered,    \* the devices and models that can be chosen now
    plugins,    \* the plugin profiles the runtime knows
    orphaned,   \* history: a save has outlived the task that asked for it
    unsynced    \* history: a directory could not be synced

files == <<visible, durable>>
world == <<offered, plugins>>
history == <<orphaned, unsynced>>
vars == <<phase, mem, files, lock, pc, command, saving, view, world, history>>

Actors == Clients \cup {Adopter}
Absent == "absent"
None == "none"
Keep == "keep"
Policies == [revision : Nat, paused : BOOLEAN, profiles : [Profiles -> Settings \cup {Absent}],
             choices : [Profiles -> Choices \cup {None}]]
NoSave == [stage |-> "none"]
NoCommand == [cmd |-> [op |-> "none"], expected |-> 0]
Active(a) == saving[a].stage \in {"writing", "replaced"}

Changes == [profile : Profiles, setting : Settings \cup {Keep}, choice : Choices \cup {Keep, None}]

\* What command parsing lets through.
ASSUME CommandsAssumption ==
    \A cmd \in Commands : \/ cmd.op = "batch" /\ cmd.changes \in Seq(Changes)
                          \/ cmd.op = "paused" /\ cmd.value \in BOOLEAN
                          \/ cmd.op = "configure" /\ cmd.profile \in Profiles

Chosen(s) == {p \in Profiles : s.choices[p] # None}

(* The shape of the state; choices never exceed their limit.                 *)
TypeOK ==
    /\ phase \in {"serving", "stopping", "exiting", "down"}
    /\ {mem, visible, durable} \subseteq Policies
    /\ Cardinality(Chosen(mem)) <= MaxChoices
    /\ lock \in Actors \cup {"free"}
    /\ pc \in [Actors -> {"idle", "waiting", "configuring", "saving"}]
    /\ \A a \in Actors : saving[a].stage \in {"none", "writing", "replaced", "synced", "failed"}
    /\ \A c \in Clients : view[c] \in Policies
    /\ offered \in SUBSET Choices
    /\ plugins \in SUBSET Profiles
    /\ orphaned \in BOOLEAN /\ unsynced \in BOOLEAN

\* What load() makes of a store that was never written.
Fresh ==
    [revision |-> 0, paused |-> FALSE,
     profiles |-> [p \in Profiles |-> IF p \in Catalog THEN DefaultSetting ELSE Absent],
     choices |-> [p \in Profiles |-> None]]

Init ==
    /\ phase = "serving"
    /\ mem = Fresh /\ visible = Fresh /\ durable = Fresh
    /\ lock = "free"
    /\ pc = [a \in Actors |-> "idle"]
    /\ command = [c \in Clients |-> NoCommand]
    /\ saving = [a \in Actors |-> NoSave]
    /\ view = [c \in Clients |-> Fresh]
    /\ offered = Choices
    /\ plugins = {}
    /\ orphaned = FALSE /\ unsynced = FALSE

-----------------------------------------------------------------------------
(* What a command does to a policy                                           *)

\* _known_profile
Known(s, p) == s.profiles[p] # Absent \/ s.choices[p] # None \/ p \in plugins \cup Catalog

\* _batch_error, _device_choice_error and _model_choice_error
ChangeAllowed(s, change) ==
    /\ Known(s, change.profile)
    /\ change.setting # Keep \/ change.choice # Keep
    /\ change.setting # Keep => s.profiles[change.profile] # Absent
    /\ change.choice \in {Keep, None} \cup offered

\* Mutant: the limit counts the choice it should refuse.
WithinLimitOffByOne(s, p) == s.choices[p] # None \/ Cardinality(Chosen(s)) <= MaxChoices

\* A profile that has no choice yet needs a place for one.
WithinLimit(s, p) == s.choices[p] # None \/ Cardinality(Chosen(s)) < MaxChoices

\* _apply_batch_change
Applied(s, change) ==
    LET p == change.profile
    IN  [s EXCEPT !.profiles[p] = IF change.setting = Keep THEN @ ELSE change.setting,
                  !.choices[p] = IF change.choice = Keep THEN @ ELSE change.choice]

\* The policy after the first i changes of a batch.
After(s, changes) ==
    LET after[i \in 0 .. Len(changes)] ==
            IF i = 0 THEN s ELSE Applied(after[i - 1], changes[i])
    IN  after

\* _apply_batch: every change is allowed, and each choice finds a place.
BatchAllowed(s, changes) ==
    /\ \A i \in DOMAIN changes : ChangeAllowed(s, changes[i])
    /\ \A i \in DOMAIN changes :
           changes[i].choice \in Choices => WithinLimit(After(s, changes)[i - 1], changes[i].profile)

\* _execute
Allowed(s, cmd) == cmd.op = "batch" => BatchAllowed(s, cmd.changes)

Executed(s, cmd) ==
    CASE cmd.op = "batch" -> After(s, cmd.changes)[Len(cmd.changes)]
      [] cmd.op = "paused" -> [s EXCEPT !.paused = cmd.value]
      [] OTHER -> s

Bumped(s) == [s EXCEPT !.revision = @ + 1]

\* A save is handed to the pool.
Saves(a, s) == saving' = [saving EXCEPT ![a] = [stage |-> "writing", policy |-> s]]

\* snapshot_document: a choice is shown on the profile it belongs to, if any.
Published(s) ==
    [s EXCEPT !.choices = [p \in Profiles |-> IF s.profiles[p] = Absent THEN None ELSE @[p]]]

\* An acknowledgement, applied or rejected, shows its client the policy.
Acknowledge(c, s) ==
    /\ pc' = [pc EXCEPT ![c] = "idle"]
    /\ command' = [command EXCEPT ![c] = NoCommand]
    /\ view' = [view EXCEPT ![c] = s]

-----------------------------------------------------------------------------
Up == phase \in {"serving", "stopping"}

(* apply_command_text, up to the lock.                                       *)
Send(c, cmd) ==
    /\ Up /\ pc[c] = "idle"
    /\ pc' = [pc EXCEPT ![c] = "waiting"]
    /\ command' = [command EXCEPT ![c] = [cmd |-> cmd, expected |-> view[c].revision]]
    /\ UNCHANGED <<phase, mem, files, lock, saving, view, world, history>>

\* A client reads the published snapshot.
Refresh(c) ==
    /\ Up /\ pc[c] = "idle" /\ view[c] # Published(mem)
    /\ view' = [view EXCEPT ![c] = Published(mem)]
    /\ UNCHANGED <<phase, mem, files, lock, pc, command, saving, world, history>>

\* Refused under the lock: a stale revision, or a command that is not allowed.
Reject(c) ==
    /\ pc[c] = "waiting" /\ lock = "free"
    /\ \/ command[c].expected # mem.revision
       \/ command[c].cmd.op # "configure" /\ ~Allowed(mem, command[c].cmd)
       \/ command[c].cmd.op = "configure" /\ ~Known(mem, command[c].cmd.profile)
    /\ Acknowledge(c, mem)
    /\ UNCHANGED <<phase, mem, files, lock, saving, world, history>>

(* _apply_locked: the revision matches, a candidate is built and its save    *)
(* begins.                                                                   *)
Check(c) ==
    /\ pc[c] = "waiting" /\ lock = "free" /\ command[c].expected = mem.revision
    /\ command[c].cmd.op # "configure" /\ Allowed(mem, command[c].cmd)
    /\ mem.revision < MaxRevision
    /\ lock' = c
    /\ pc' = [pc EXCEPT ![c] = "saving"]
    /\ Saves(c, Bumped(Executed(mem, command[c].cmd)))
    /\ UNCHANGED <<phase, mem, files, command, view, world, history>>

\* set-profile-configuration first goes to the settings store, off the loop.
Configure(c) ==
    /\ pc[c] = "waiting" /\ lock = "free" /\ command[c].expected = mem.revision
    /\ command[c].cmd.op = "configure" /\ Known(mem, command[c].cmd.profile)
    /\ mem.revision < MaxRevision
    /\ lock' = c
    /\ pc' = [pc EXCEPT ![c] = "configuring"]
    /\ UNCHANGED <<phase, mem, files, command, saving, view, world, history>>

\* _store_configuration succeeds, and the revision bump is saved.
Configured(c) ==
    /\ pc[c] = "configuring"
    /\ pc' = [pc EXCEPT ![c] = "saving"]
    /\ Saves(c, Bumped(mem))
    /\ UNCHANGED <<phase, mem, files, lock, command, view, world, history>>

\* Mutant: a refused configuration keeps the lock.
ConfigurationRefusedLocked(c) ==
    /\ pc[c] = "configuring"
    /\ Acknowledge(c, mem)
    /\ UNCHANGED <<phase, mem, files, lock, saving, world, history>>

\* _store_configuration refuses or cannot write.
ConfigurationRefused(c) ==
    /\ pc[c] = "configuring"
    /\ lock' = "free"
    /\ Acknowledge(c, mem)
    /\ UNCHANGED <<phase, mem, files, saving, world, history>>

-----------------------------------------------------------------------------
(* PolicyStore.save through write_bytes_atomic, on a thread: the staged file *)
(* is synced and renamed over the target, then the directory is synced.      *)
Replace(a) ==
    /\ saving[a].stage = "writing"
    /\ visible' = saving[a].policy
    /\ saving' = [saving EXCEPT ![a].stage = "replaced"]
    /\ UNCHANGED <<phase, mem, durable, lock, pc, command, view, world, history>>

\* fsync_directory swallows its own failure: the save is reported done.
SyncDirectory(a, ok) ==
    /\ saving[a].stage = "replaced"
    /\ durable' = IF ok THEN visible ELSE durable
    /\ unsynced' = (unsynced \/ ~ok)
    /\ saving' = [saving EXCEPT ![a].stage = "synced"]
    /\ UNCHANGED <<phase, mem, visible, lock, pc, command, view, world, orphaned>>

\* An OSError before the rename: the stage is unlinked, the target untouched.
SaveFails(a) ==
    /\ saving[a].stage = "writing"
    /\ saving' = [saving EXCEPT ![a].stage = "failed"]
    /\ UNCHANGED <<phase, mem, files, lock, pc, command, view, world, history>>

\* Mutant: the acknowledgement does not wait for the directory.
SaveDoneEarly(a) == saving[a].stage \in {"replaced", "synced"}

\* run_off_loop has returned: the save is on disk.
SaveDone(a) == saving[a].stage = "synced"

(* _commit: publish in memory, leave the lock, acknowledge.                  *)
Commit(c) ==
    /\ pc[c] = "saving" /\ SaveDone(c)
    /\ mem' = saving[c].policy
    /\ lock' = "free"
    /\ saving' = [saving EXCEPT ![c] = NoSave]
    /\ Acknowledge(c, saving[c].policy)
    /\ UNCHANGED <<phase, files, world, history>>

\* A failed save changes nothing; a stored configuration is applied all the same.
CommitFails(c) ==
    /\ pc[c] = "saving" /\ saving[c].stage = "failed"
    /\ lock' = "free"
    /\ saving' = [saving EXCEPT ![c] = NoSave]
    /\ Acknowledge(c, mem)
    /\ UNCHANGED <<phase, mem, files, world, history>>

-----------------------------------------------------------------------------
Unadopted(s) == {p \in plugins : s.profiles[p] = Absent}

\* adopt_profiles: give each plugin the default policy, as one revision.
Adopted(s) ==
    [Bumped(s) EXCEPT !.profiles =
        [p \in Profiles |-> IF p \in Unadopted(s) THEN DefaultSetting ELSE @[p]]]

Adopt ==
    /\ phase = "serving" /\ pc[Adopter] = "idle" /\ lock = "free"
    /\ Unadopted(mem) # {}
    /\ mem.revision < MaxRevision
    /\ lock' = Adopter
    /\ pc' = [pc EXCEPT ![Adopter] = "saving"]
    /\ Saves(Adopter, Adopted(mem))
    /\ UNCHANGED <<phase, mem, files, command, view, world, history>>

\* A failed adoption is forgotten and tried again on a later publish tick.
AdoptEnds ==
    /\ pc[Adopter] = "saving" /\ (SaveDone(Adopter) \/ saving[Adopter].stage = "failed")
    /\ mem' = IF SaveDone(Adopter) THEN saving[Adopter].policy ELSE mem
    /\ lock' = "free"
    /\ pc' = [pc EXCEPT ![Adopter] = "idle"]
    /\ saving' = [saving EXCEPT ![Adopter] = NoSave]
    /\ UNCHANGED <<phase, files, command, view, world, history>>

-----------------------------------------------------------------------------
\* Devices and models come and go; plugins are discovered.
OfferChanges(o) ==
    /\ Up /\ o # offered
    /\ offered' = o
    /\ UNCHANGED <<phase, mem, files, lock, pc, command, saving, view, plugins, history>>

PluginFound(p) ==
    /\ phase = "serving" /\ p \notin plugins \cup Catalog
    /\ plugins' = plugins \cup {p}
    /\ UNCHANGED <<phase, mem, files, lock, pc, command, saving, view, offered, history>>

(* service.run's finally: the start-up and publish tasks, which adopt, are   *)
(* cancelled; the lock is left, the save's thread is not interrupted.        *)
Shutdown ==
    /\ phase = "serving"
    /\ phase' = "stopping"
    /\ lock' = IF lock = Adopter THEN "free" ELSE lock
    /\ pc' = [pc EXCEPT ![Adopter] = "idle"]
    /\ orphaned' = (orphaned \/ Active(Adopter))
    /\ UNCHANGED <<mem, files, command, saving, view, world, unsynced>>

\* What the process held in memory is lost.
Gone ==
    /\ mem' = Fresh
    /\ lock' = "free"
    /\ pc' = [a \in Actors |-> "idle"]
    /\ command' = [c \in Clients |-> NoCommand]
    /\ plugins' = {}

\* The transport stops and the loop ends: waiters go, pool threads are joined.
Exit ==
    /\ phase = "stopping"
    /\ phase' = "exiting"
    /\ Gone
    /\ UNCHANGED <<files, saving, view, offered, history>>

Exited ==
    /\ phase = "exiting" /\ \A a \in Actors : ~Active(a)
    /\ phase' = "down"
    /\ saving' = [a \in Actors |-> NoSave]
    /\ UNCHANGED <<mem, files, lock, pc, command, view, world, history>>

\* The process is killed and the kernel writes its rename back, or power fails
\* and an unsynced rename is undone.  (Not both in a row.)
Crash(power) ==
    /\ phase # "down"
    /\ phase' = "down"
    /\ visible' = IF power THEN durable ELSE visible
    /\ durable' = IF power THEN durable ELSE visible
    /\ Gone
    /\ saving' = [a \in Actors |-> NoSave]
    /\ UNCHANGED <<view, offered, history>>

\* Mutant: the revision is not read back.
LoadUncounted(s) == [s EXCEPT !.revision = 0]

\* load(): a catalog profile the file lacks gets its default, adopted ones stay.
Load(s) ==
    [s EXCEPT !.profiles =
        [p \in Profiles |-> IF p \in Catalog /\ @[p] = Absent THEN DefaultSetting ELSE @[p]]]

Restart ==
    /\ phase = "down"
    /\ phase' = "serving"
    /\ mem' = Load(visible)
    /\ UNCHANGED <<files, lock, pc, command, saving, view, world, history>>

ClientStep(c) ==
    \/ Reject(c) \/ Check(c) \/ Configure(c) \/ Configured(c) \/ ConfigurationRefused(c)
    \/ Commit(c) \/ CommitFails(c)

SaveStep(a) == Replace(a) \/ (\E ok \in BOOLEAN : SyncDirectory(a, ok)) \/ SaveFails(a)

Next ==
    \/ \E c \in Clients : ClientStep(c) \/ Refresh(c) \/ \E cmd \in Commands : Send(c, cmd)
    \/ \E a \in Actors : SaveStep(a)
    \/ Adopt \/ AdoptEnds
    \/ \E o \in SUBSET Choices : OfferChanges(o)
    \/ \E p \in Profiles : PluginFound(p)
    \/ Shutdown \/ Exit \/ Exited \/ Restart \/ \E power \in BOOLEAN : Crash(power)

Spec == Init /\ [][Next]_vars

-----------------------------------------------------------------------------
Same(s, v) == Published(s) = Published(v)
Holds(s, v) == s.revision >= v.revision /\ (s.revision = v.revision => Same(s, v))

(* ShownSurvives: whatever policy a client was ever shown survives a crash   *)
(* or a power failure at any moment, as long as no save has outlived its     *)
(* task and the directory could be synced: a command is acknowledged, and a  *)
(* policy served, only once it is on disk (_commit, write_bytes_atomic).     *)
ShownSurvives == ~orphaned /\ ~unsynced => \A c \in Clients : Holds(durable, view[c])

(* RevisionNamesPolicy: a client whose revision is the current one has seen  *)
(* the current policy, across restarts too, so a command accepted on its     *)
(* revision never overwrites a change its sender did not know of (the        *)
(* compare-and-swap of _apply_locked).                                       *)
RevisionNamesPolicy ==
    ~orphaned /\ ~unsynced /\ Up =>
        \A c \in Clients : view[c].revision = mem.revision => Same(view[c], mem)

(* LockOwned: a held lock belongs to an actor with a save or a configuration *)
(* under way, and such an actor holds it: no refusal, failed save, cancelled *)
(* adoption or restart leaves the lock taken or lets two commands in.        *)
LockOwned == \A a \in Actors : lock = a <=> pc[a] \in {"configuring", "saving"}

(* PolicySound: what was shown survives, a revision names one policy however *)
(* commands, adoptions and restarts meet, and the lock that protects it is   *)
(* never left taken (ControlService, PolicyStore).                           *)
PolicySound == TypeOK /\ ShownSurvives /\ RevisionNamesPolicy /\ LockOwned

(* AcknowledgedSurvives: ShownSurvives when a save may outlive its task too  *)
(* (control: "The lock spans the revision check, the persist, and the        *)
(* publish").                                                                *)
AcknowledgedSurvives == ~unsynced => \A c \in Clients : Holds(durable, view[c])
=============================================================================
