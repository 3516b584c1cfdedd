------------------------------ MODULE Consent -------------------------------
(***************************************************************************)
(* What a person allows and sets: which installed distribution a plugin id *)
(* stands for (plugins/discovery.py, identity.py, manifest_compatibility.py*)
(* ), the grant ledger that command lines and the service share through    *)
(* one file (plugins/grants.py, consent.py, revocation.py), the settings   *)
(* that several processes edit (plugins/settings.py, secrets.py), and the  *)
(* worker that is launched with both (worker_specs.py,                     *)
(* worker_configuration.py).                                               *)
(***************************************************************************)
EXTENDS Integers, Sequences, FiniteSets, Relation, TLC

CONSTANTS
    Plugin,         \* the plugin id the model follows
    Permissions,    \* permission names
    Candidates,     \* what can be installed: see Refusal
    MaxCandidates,  \* MAX_PLUGIN_CANDIDATES
    Desks,          \* omnitensor-grant processes
    Editors,        \* processes that configure the plugin
    Versions,       \* configuration versions, the first is what is installed first
    Migrations,     \* pairs of versions a ConfigurationMigration joins
    Configurations, \* configurations that match the schema
    SecretFields,   \* secret_paths of the schema
    AuditLimit,     \* DEFAULT_AUDIT_EVENTS
    MaxChanges      \* bound: commands, edits, installs and mishaps

\* No command line is called "none", no configuration is a secret in the clear.
NamesAssumption ==
    /\ "none" \notin Desks
    /\ "plain-secret" \notin Configurations

VARIABLES
    installed,  \* the installed candidates
    disk,       \* the ledger file
    memory,     \* the service's GrantLedger
    desk,       \* by command line: what it is doing
    lockedBy,   \* who holds the ledger's lock
    commits,    \* every change of the ledger, in order
    guarded,    \* an operation under a ConsentGuard, "idle"
    stored,     \* the settings file
    edit,       \* by editor: the revision it loaded, -1
    spec,       \* by editor: the configuration version it was built for
    edits,      \* every accepted change of the settings, in order
    published,  \* configuration.json beside the worker's state
    worker,     \* the worker
    resolved,   \* by secret field: what the plugin's configuration holds
    changes

ledgerVars == <<disk, memory, desk, lockedBy, commits, guarded>>
settingVars == <<stored, edit, spec, edits>>
workerVars == <<published, worker, resolved>>
consentVars == <<installed, ledgerVars, settingVars, workerVars, changes>>

Changed == changes < MaxChanges /\ changes' = changes + 1

-----------------------------------------------------------------------------
(* Which distribution a plugin id stands for.                                *)

\* _external_metadata, _distribution_manifests and the first two checks of
\* _validate_candidate.
MetadataRefusal(c) ==
    CASE c.flaw = "no-distribution" -> "metadata-unavailable"
      [] c.flaw = "two-manifests" -> "manifest-count"
      [] OTHER -> "none"

\* _validate_external_metadata and _read_manifest; a bundled manifest is loaded.
ManifestRefusal(c) ==
    CASE c.source = "bundled" -> "none"
      [] c.flaw = "unnamed" -> "metadata-unavailable"
      [] c.flaw = "no-target" -> "identity-mismatch"
      [] c.flaw = "unreadable" -> "manifest-io"
      [] c.manifest # 2 -> "incompatible"
      [] OTHER -> "none"

\* _validate_manifest_identity.
IdentityRefusal(c) ==
    CASE c.flaw = "off-schema" -> "manifest-invalid"
      [] c.flaw = "other-name" -> "identity-mismatch"
      [] OTHER -> "none"

Refusal(c) ==
    IF MetadataRefusal(c) # "none" THEN MetadataRefusal(c)
    ELSE IF ManifestRefusal(c) # "none" THEN ManifestRefusal(c) ELSE IdentityRefusal(c)

\* resolve_plugin_identities: an id belongs to the one candidate that claims it,
\* or to the bundled one; otherwise to nobody.
Identified(cands) ==
    LET valid == {c \in cands : Refusal(c) = "none"}
        Group(id) == {c \in valid : c.id = id}
        Bundled(id) == {c \in Group(id) : c.source = "bundled"}
    IN  {c \in valid : \/ Cardinality(Group(c.id)) = 1
                       \/ Cardinality(Bundled(c.id)) = 1 /\ c \in Bundled(c.id)}

\* PluginManifestCompatibilityGate.check.
Compatible(c) ==
    /\ c.manifest = 2 \/ c.source = "bundled"
    /\ c.api = 1
    /\ c.manifest = 2 => c.low <= 1 /\ c.high >= 1

\* adapt_bundled_manifest_v1: an old manifest declares no permission.
Adapted(c) == IF c.manifest = 1 THEN [c EXCEPT !.declares = {}] ELSE c

\* discover_plugin_metadata and resolve_plugin_compatibility.
Discovers == Cardinality(installed) <= MaxCandidates
Resolved == {Adapted(c) : c \in {d \in Identified(installed) : Compatible(d)}}
Found == {c \in Resolved : c.id = Plugin}

Install(cands) ==
    /\ Changed /\ cands # installed
    /\ installed' = cands
    /\ UNCHANGED <<ledgerVars, settingVars, workerVars>>

-----------------------------------------------------------------------------
(* The grant ledger.                                                         *)

\* _decode_grants and _decode_audit accept the file.
Legible == disk.legible

\* A command line that has not begun, or has ended with its answer.
NotOpen == [at |-> "closed", verb |-> "grant", permission |-> CHOOSE p \in Permissions : TRUE,
            expected |-> 0, revision |-> 0, grants |-> {}]

\* active_permissions: what is granted of what is declared.
Active(grants, declared) == grants \cap declared

\* GrantLedger.__init__ in omnitensor-grant, and declared_permissions: the
\* manifest as it is installed now.
DeskOpens(d, verb, p) ==
    /\ Changed /\ desk[d].at = "closed"
    /\ Legible /\ Discovers
    /\ \E c \in Found : verb = "grant" => p \in c.declares
    /\ desk' = [desk EXCEPT ![d] = [at |-> "open", verb |-> verb, permission |-> p,
                                    expected |-> disk.revision,
                                    revision |-> disk.revision, grants |-> disk.grants]]
    /\ UNCHANGED <<installed, disk, memory, lockedBy, commits, guarded, settingVars, workerVars>>

\* Mutant: the lock is taken and the state that was read before it is kept.
LoadedKeeping(ledger) == ledger

\* _load under the lock.
Loaded(ledger) == [ledger EXCEPT !.revision = disk.revision, !.grants = disk.grants]

\* _locked: what was in memory is forgotten and the file is read again.
DeskLocks(d) ==
    /\ desk[d].at = "open" /\ lockedBy = "none"
    /\ IF Legible
       THEN lockedBy' = d /\ desk' = [desk EXCEPT ![d] = [Loaded(@) EXCEPT !.at = "locked"]]
       ELSE lockedBy' = lockedBy /\ desk' = [desk EXCEPT ![d] = NotOpen]
    /\ UNCHANGED <<installed, disk, memory, commits, guarded, settingVars, workerVars, changes>>

\* Nothing to do: somebody was faster, or it is so already.
NoChange(k) ==
    \/ k.expected # k.revision
    \/ k.verb = "grant" <=> k.permission \in k.grants

\* _commit: the next revision, the audit kept to its limit, one atomic write.
Committed(k) ==
    LET audit == Append(disk.audit, k.revision + 1)
    IN  [revision |-> k.revision + 1,
         grants |-> IF k.verb = "grant" THEN k.grants \cup {k.permission}
                                        ELSE k.grants \ {k.permission},
         audit |-> IF Len(audit) > AuditLimit THEN Tail(audit) ELSE audit,
         stamp |-> disk.stamp + 1, legible |-> TRUE]

\* grant, revoke and _check_revision; fits is false when _commit refuses the
\* size or the disk fails.
DeskCommits(d, fits) ==
    /\ desk[d].at = "locked"
    /\ lockedBy' = "none" /\ desk' = [desk EXCEPT ![d] = NotOpen]
    /\ IF NoChange(desk[d]) \/ ~fits
       THEN UNCHANGED <<disk, commits>>
       ELSE /\ disk' = Committed(desk[d])
            /\ commits' = Append(commits, [permission |-> desk[d].permission,
                                           granted |-> desk[d].verb = "grant"])
    /\ UNCHANGED <<installed, memory, guarded, settingVars, workerVars, changes>>

\* The command is interrupted: the kernel gives the lock back.
DeskKilled(d) ==
    /\ Changed /\ desk[d].at # "closed"
    /\ desk' = [desk EXCEPT ![d] = NotOpen]
    /\ lockedBy' = IF lockedBy = d THEN "none" ELSE lockedBy
    /\ UNCHANGED <<installed, disk, memory, commits, guarded, settingVars, workerVars>>

\* Somebody's editor breaks the file, or puts the old one back.
Meddle ==
    /\ Changed /\ lockedBy = "none"
    /\ disk' = [disk EXCEPT !.legible = ~@, !.stamp = @ + 1]
    /\ UNCHANGED <<installed, memory, desk, lockedBy, commits, guarded, settingVars, workerVars>>

\* reload under the lock; when the file cannot be read the service is left with
\* no grants and the old stamp, so that it tries again.
Reloaded ==
    IF Legible
    THEN [revision |-> disk.revision, grants |-> disk.grants, stamp |-> disk.stamp]
    ELSE [revision |-> 0, grants |-> {}, stamp |-> memory.stamp]

\* OmniTensorService._refresh_grants: changed_on_disk, then reload, which gives
\* up when the lock is held too long.
RefreshGrants ==
    /\ memory.stamp # disk.stamp /\ lockedBy = "none" /\ memory # Reloaded
    /\ memory' = Reloaded
    /\ UNCHANGED <<installed, disk, desk, lockedBy, commits, guarded, settingVars, workerVars, changes>>

\* LiveGrantView.granted: reload unless the stamp is the same.
Live == IF memory.stamp = disk.stamp THEN memory ELSE Reloaded
Allows(p, ledger) == \E c \in Found : p \in Active(ledger.grants, c.declares)

\* ConsentGuard.run: refused at once, or the operation begins.
GuardBegins(p) ==
    /\ guarded = "idle" /\ lockedBy = "none" /\ Legible
    /\ memory' = Live
    /\ guarded' = IF Allows(p, Live) THEN p ELSE "idle"
    /\ UNCHANGED <<installed, disk, desk, lockedBy, commits, settingVars, workerVars, changes>>

\* The operation ends, or the poll after poll_seconds finds the grant gone, the
\* lock held or the file unreadable: the operation is cancelled.
GuardPolls ==
    /\ guarded # "idle"
    /\ memory' = IF lockedBy = "none" THEN Live ELSE memory
    /\ guarded' = IF lockedBy = "none" /\ Allows(guarded, Live) THEN guarded ELSE "idle"
    /\ UNCHANGED <<installed, disk, desk, lockedBy, commits, settingVars, workerVars, changes>>

-----------------------------------------------------------------------------
(* The settings.                                                             *)

\* _migrate: a chain of migrations leads from the stored version to this one.
MigrationWorks(from, to) ==
    TransitiveClosure([u \in Versions, v \in Versions |-> <<u, v>> \in Migrations], Versions)[from, to]

\* _load_locked, by the version of the reader's spec: the declared defaults, the
\* stored settings, or the migrated ones; _read and _parse refuse the rest.
Readable(v) == stored.revision = 0 \/ stored.version = v \/ MigrationWorks(stored.version, v)
Migrates(v) == stored.revision > 0 /\ stored.version # v /\ MigrationWorks(stored.version, v)
Current(v) ==
    CASE stored.revision = 0 -> [stored EXCEPT !.version = v]
      [] Migrates(v) -> [stored EXCEPT !.version = v, !.revision = @ + 1]
      [] OTHER -> stored

\* manifest_configuration_spec: what the manifest declares as defaults.
DeclaredDefaults == "default"

\* A load that migrates writes what it migrated.
LoadSettings(v) ==
    /\ stored' = IF Migrates(v) THEN Current(v) ELSE stored
    /\ edits' = IF Migrates(v)
                THEN Append(edits, [value |-> stored.value, over |-> stored.revision]) ELSE edits

\* configure_low_light_workspace, _store_configuration: load ...
EditorLoads(e) ==
    /\ Changed /\ edit[e] = -1 /\ Readable(spec[e])
    /\ LoadSettings(spec[e])
    /\ edit' = [edit EXCEPT ![e] = Current(spec[e]).revision]
    /\ UNCHANGED <<installed, ledgerVars, spec, workerVars>>

\* validate_secret_references: a field the schema marks secret holds a reference.
SecretsReferenced(value) == value # "plain-secret"

\* _validate_persisted_configuration: what does not match the schema is refused.
Persistable(value) == SecretsReferenced(value) /\ value \in Configurations

\* Mutant: update compares nothing under the lock.
UpdatesBlindly(e) == Readable(spec[e])

\* update's comparison under the lock.
Updates(e) == Readable(spec[e]) /\ Current(spec[e]).revision = edit[e]

\* ... then update, in a lock of its own.
EditorUpdates(e, value) ==
    /\ edit[e] >= 0
    /\ edit' = [edit EXCEPT ![e] = -1]
    /\ IF Persistable(value) /\ Updates(e)
       THEN /\ stored' = [version |-> spec[e], revision |-> Current(spec[e]).revision + 1,
                          value |-> value]
            /\ edits' = Append(IF Migrates(spec[e])
                               THEN Append(edits, [value |-> stored.value, over |-> stored.revision])
                               ELSE edits,
                               [value |-> value, over |-> edit[e]])
       ELSE IF Persistable(value) /\ Readable(spec[e]) THEN LoadSettings(spec[e])
       ELSE UNCHANGED <<stored, edits>>
    /\ UNCHANGED <<installed, ledgerVars, spec, workerVars, changes>>

\* The editor's process is replaced by one built for another version.
Upgrade(e, v) ==
    /\ Changed /\ edit[e] = -1 /\ v # spec[e]
    /\ spec' = [spec EXCEPT ![e] = v]
    /\ UNCHANGED <<installed, ledgerVars, stored, edit, edits, workerVars>>

-----------------------------------------------------------------------------
(* The worker.                                                               *)

NoWorker == [at |-> "off", permissions |-> {}, declares |-> {}, value |-> "absent"]

\* manifest_configuration_spec and stored_settings: the version the service was
\* built for; what cannot be read leaves the worker its defaults.
ServiceSettings(v) == IF Readable(v) THEN Current(v).value ELSE "absent"

\* external_worker_specs (a plugin whose granted device is gone is not launched)
\* and external_worker_spec: the permissions of the catalog and the ledger as the
\* service holds them, and publish_worker_configuration.
Launch(e) ==
    /\ Changed /\ worker.at = "off" /\ Discovers
    /\ \E c \in Found :
          /\ c.source = "external"
          /\ worker' = [at |-> "starting", permissions |-> Active(memory.grants, c.declares),
                        declares |-> c.declares, value |-> "absent"]
    /\ published' = ServiceSettings(spec[e])
    /\ IF Readable(spec[e]) THEN LoadSettings(spec[e]) ELSE UNCHANGED <<stored, edits>>
    /\ UNCHANGED <<installed, ledgerVars, edit, spec, resolved>>

\* read_worker_configuration in the worker.
WorkerReads ==
    /\ worker.at = "starting"
    /\ worker' = [worker EXCEPT !.at = "up", !.value = published]
    /\ UNCHANGED <<installed, ledgerVars, settingVars, published, resolved, changes>>

\* resolve_configuration: every reference is replaced, or none is seen.
Resolve(given) ==
    /\ worker.at = "up" /\ \A f \in SecretFields : resolved[f] = "reference"
    /\ resolved' = IF given = SecretFields THEN [f \in SecretFields |-> "secret"] ELSE resolved
    /\ UNCHANGED <<installed, ledgerVars, settingVars, published, worker, changes>>

\* ResolvedConfiguration.close.
Close ==
    /\ \E f \in SecretFields : resolved[f] = "secret"
    /\ resolved' = [f \in SecretFields |-> "redacted"]
    /\ UNCHANGED <<installed, ledgerVars, settingVars, published, worker, changes>>

\* The worker ends, and what it resolved with it.
WorkerEnds ==
    /\ worker.at # "off"
    /\ worker' = NoWorker
    /\ resolved' = [f \in SecretFields |-> "reference"]
    /\ UNCHANGED <<installed, ledgerVars, settingVars, published, changes>>

-----------------------------------------------------------------------------
Init ==
    /\ installed = {c \in Candidates : c.first}
    /\ disk = [revision |-> 0, grants |-> {}, audit |-> <<>>, stamp |-> 0, legible |-> TRUE]
    /\ memory = [revision |-> 0, grants |-> {}, stamp |-> 0]
    /\ desk = [d \in Desks |-> NotOpen] /\ lockedBy = "none" /\ commits = <<>>
    /\ guarded = "idle"
    /\ stored = [version |-> 1, revision |-> 0, value |-> DeclaredDefaults]
    /\ edit = [e \in Editors |-> -1] /\ spec = [e \in Editors |-> 1] /\ edits = <<>>
    /\ published = "absent" /\ worker = NoWorker
    /\ resolved = [f \in SecretFields |-> "reference"]
    /\ changes = 0

Next ==
    \/ \E cands \in SUBSET Candidates : Install(cands)
    \/ \E d \in Desks :
          \/ \E verb \in {"grant", "revoke"}, p \in Permissions : DeskOpens(d, verb, p)
          \/ DeskLocks(d) \/ DeskKilled(d)
          \/ \E fits \in BOOLEAN : DeskCommits(d, fits)
    \/ Meddle \/ RefreshGrants
    \/ \E p \in Permissions : GuardBegins(p)
    \/ GuardPolls
    \/ \E e \in Editors :
          \/ EditorLoads(e) \/ Launch(e)
          \/ \E value \in Configurations \cup {"plain-secret"} : EditorUpdates(e, value)
          \/ \E v \in Versions : Upgrade(e, v)
    \/ WorkerReads \/ WorkerEnds \/ Close
    \/ \E given \in {SecretFields, {}} : Resolve(given)

Spec == Init /\ [][Next]_consentVars

-----------------------------------------------------------------------------
\* The permissions granted after some changes.
Replay(n) ==
    {p \in Permissions :
        \E i \in 1..n : /\ commits[i].permission = p /\ commits[i].granted
                        /\ \A j \in (i+1)..n : commits[j].permission # p}

\* The ledger is its history (GrantLedger.grant, revoke, reload): whatever
\* command lines change it at once, none undoes what another one committed; the
\* service holds what the ledger said at the revision it read, or nothing; and
\* the worker was launched with nothing that its manifest does not declare or
\* that nobody ever granted.
LedgerIsHistory ==
    /\ disk.revision = Len(commits) /\ disk.grants = Replay(Len(commits))
    /\ memory.revision <= Len(commits) /\ memory.grants = Replay(memory.revision)
    /\ worker.permissions \subseteq worker.declares \cap {commits[i].permission : i \in DOMAIN commits}

\* The settings are edited one after the other (PluginSettingsStore.update,
\* load): every change, migrations included, was made over the revision it
\* replaced; a worker runs with settings that were stored, or its defaults; and
\* no secret is ever written down.
SettingsAreLinear ==
    /\ stored.revision = Len(edits)
    /\ \A i \in DOMAIN edits : edits[i].over = i - 1
    /\ \A value \in {stored.value, published, worker.value} :
          value \in {DeclaredDefaults, "absent"} \cup {edits[i].value : i \in DOMAIN edits}
    /\ stored.value # "plain-secret"

\* Consent and settings have one history: the ledger extends what it was, whoever writes it, and no
\* editor overwrites a revision it has not seen (GrantStore, SettingsStore).
ConsentSound == LedgerIsHistory /\ SettingsAreLinear

=============================================================================
