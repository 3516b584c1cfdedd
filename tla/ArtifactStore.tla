---------------------------- MODULE ArtifactStore ----------------------------
(***************************************************************************)
(* The model store on disk: plugins/artifact_installation.py, the quota of  *)
(* plugins/artifact_cache.py, the publishers that install several variants  *)
(* and bind them (training/installation.py, the pinned installers) and the  *)
(* service's remembered readiness (artifact_readiness.py).                  *)
(*                                                                         *)
(* Commands are processes of their own.  One flock serializes install,     *)
(* uninstall, rollback and enforcement; a process can be killed at any     *)
(* point, which frees the lock and keeps the disk as it is.  The service   *)
(* reads without the lock.                                                 *)
(***************************************************************************)
EXTENDS Sequences, Integers, FiniteSets

CONSTANTS
    Processes,      \* installer and maintenance commands
    Ids,            \* artifact ids
    Versions,       \* the versions of each, positive
    Bytes,          \* the contents a companion file can have
    Variants,       \* what a training compiles: a sequence of [id, v, found]
    Pinned,         \* the references the pinned installers install
    Declared,       \* per id, the reference a manifest declares to the service
    MaxItems,       \* the cache's item quota
    Asked,          \* the ids the service asks for
    MaxCommands     \* bound: commands and file replacements in a behaviour

\* References name artifacts and versions, which are positive; "none" is no file and nobody.
ReferencesAssumption ==
    /\ 0 \notin Versions /\ "none" \notin Bytes \cup Processes
    /\ Variants \in Seq([id : Ids, v : Versions, found : Bytes \cup {"none"}])
    /\ Pinned \subseteq [id : Ids, v : Versions, comp : Bytes \cup {"none"},
                       declares : Bytes \cup {"none"}, needs : BOOLEAN, sound : BOOLEAN, trusted : BOOLEAN]
    /\ \A i \in Ids : Declared[i].v \in Versions
    /\ Asked \subseteq Ids

VARIABLES
    version,    \* per id and version, the directory's contents or Absent
    pointer,    \* activation.json: the active and the rollback version
    leftover,   \* ids with an abandoned .install- directory
    binding,    \* the versions the published model binding names
    flock,      \* the process that holds .artifact-store.lock
    command,    \* what each process does
    issued,     \* how many commands and file replacements happened
    known,      \* ArtifactResolver._resolutions
    asking,     \* the stamp a resolution in progress took, per id
    outputs,    \* whether a producer's outputs are in the build directory
    mislaid     \* activations an uninstall did not recognise as its own

disk == <<version, pointer, leftover, binding>>
readers == <<known, asking>>
artifactVars == <<disk, outputs, flock, command, issued, readers, mislaid>>

Absent == [there |-> FALSE]
NoVersion == 0
Nothing == "none"
NoPointer == [active |-> NoVersion, rollback |-> NoVersion]
Idle == [at |-> "idle", todo |-> <<>>, landed |-> <<>>, binds |-> FALSE, undoes |-> FALSE,
         was |-> NoPointer, evicting |-> {}]
Unknown == [held |-> FALSE]

Present(i, v) == v # NoVersion /\ version[i][v].there

Init ==
    /\ version = [i \in Ids |-> [v \in Versions |-> Absent]]
    /\ pointer = [i \in Ids |-> NoPointer]
    /\ leftover = {} /\ binding = {} /\ outputs = FALSE
    /\ flock = Nothing
    /\ command = [p \in Processes |-> Idle]
    /\ issued = 0
    /\ known = [i \in Ids |-> Unknown] /\ asking = [i \in Ids |-> Unknown]
    /\ mislaid = {}

-----------------------------------------------------------------------------
(* What the gates compare.  A reference names an id and a version, and       *)
(* declares a companion digest or none; the copy in activation.json and in   *)
(* artifact.json keeps neither companions nor source.                        *)

\* artifact_reference_document drops the companions, so a stored reference
\* equals (by dataclass equality) only a reference that declares none.
SameReference(stored, ref) == stored = ref.v /\ ref.declares = Nothing

\* verify_pinned_source, _copy_verified: the staged primary has the pinned digest.
CopyVerified(ref) == ref.sound

\* _stage_companions with the format's required and permitted names.
CompanionsStaged(ref) == ref.needs => ref.comp # Nothing

\* ArtifactTrustVerifier.verify: policy, provenance document and signature.
TrustVerified(ref) == ref.trusted

\* ArtifactResolver._verify: the primary file has the digest of the reference.
PrimaryMatches(d) == d.primary

\* verify_companions: the files are what artifact.json recorded; a directory
\* without artifact.json recorded nothing.
RecordedMatches(d) == d.noted \in {"lost", d.comp}

\* verify_declared_companions
DeclaredMatches(d, ref) == ref.declares \in {Nothing, d.comp}

\* ArtifactInstaller.resolve
Resolves(i, ref) ==
    /\ Present(i, ref.v)
    /\ PrimaryMatches(version[i][ref.v])
    /\ RecordedMatches(version[i][ref.v])
    /\ DeclaredMatches(version[i][ref.v], ref)

\* Whoever holds the lock is the only process that changes the store.
Holds(p) == flock = p
Job(p) == command[p]

\* A file of the version changed: stamps taken before no longer match, unless
\* the file is a companion that the reference the service asks with names not.
Restamped(i, v, ofCompanion) ==
    LET moved == Declared[i].v = v /\ (ofCompanion => Declared[i].declares # Nothing)
        aged(r) == IF r.held /\ moved THEN [r EXCEPT !.fresh = FALSE] ELSE r
    IN  /\ known' = [known EXCEPT ![i] = aged(@)]
        /\ asking' = [asking EXCEPT ![i] = aged(@)]

-----------------------------------------------------------------------------
(* The commands.                                                            *)

\* prepare_artifact declares every companion it discovered or was given.
PrepareArtifact(i, v, found) ==
    [id |-> i, v |-> v, comp |-> found, declares |-> found, needs |-> found # Nothing,
     sound |-> TRUE, trusted |-> TRUE]

\* install_training: every variant, then the binding, or none of them.
InstallTraining(refs) ==
    [refs |-> refs, binds |-> TRUE, undoes |-> TRUE, builds |-> FALSE, verifies |-> FALSE]

\* install_media_artifacts: every source is verified first, nothing is undone.
InstallMedia(refs) ==
    [refs |-> refs, binds |-> FALSE, undoes |-> FALSE, builds |-> FALSE, verifies |-> TRUE]

\* install_generation_artifacts, likewise.
InstallGeneration(refs) == InstallMedia(refs)

\* install_hebrew_translation_model, a single source.
InstallHebrew(ref) == InstallMedia(<<ref>>)

\* install_document_model: built and gated, installed, bound; nothing is undone.
InstallDocumentModel(ref) ==
    [refs |-> <<ref>>, binds |-> TRUE, undoes |-> FALSE, builds |-> TRUE, verifies |-> FALSE]

\* verify_pinned_source over every source.
SourcesVerified(plan) ==
    plan.verifies => \A k \in DOMAIN plan.refs : plan.refs[k].sound

\* The commands an operator can issue.
Plans ==
    {InstallTraining([k \in DOMAIN Variants |->
         PrepareArtifact(Variants[k].id, Variants[k].v, Variants[k].found)])}
    \cup {InstallMedia(<<r>>) : r \in Pinned} \cup {InstallGeneration(<<r>>) : r \in Pinned}
    \cup {InstallHebrew(r) : r \in Pinned} \cup {InstallDocumentModel(r) : r \in Pinned}

\* A command starts.
Command(p, plan) ==
    /\ Job(p).at = "idle" /\ issued < MaxCommands
    /\ SourcesVerified(plan)
    /\ issued' = issued + 1
    /\ command' = [command EXCEPT ![p] = [Idle EXCEPT
           !.at = IF plan.builds THEN "build" ELSE "next",
           !.todo = plan.refs, !.binds = plan.binds, !.undoes = plan.undoes]]
    /\ UNCHANGED <<disk, outputs, flock, readers, mislaid>>

(* run_production_pipeline: outputs of an earlier run are refused; export.   *)
ProducerExports(p) ==
    /\ Job(p).at = "build"
    /\ outputs' = TRUE
    /\ command' = [command EXCEPT ![p] = IF outputs THEN Idle ELSE [@ EXCEPT !.at = "gate"]]
    /\ UNCHANGED <<disk, flock, issued, readers, mislaid>>

\* _gate_passed and the report; a refusal removes every output.
ProducerGate(p, passed) ==
    /\ Job(p).at = "gate"
    /\ outputs' = passed
    /\ command' = [command EXCEPT ![p] = IF passed THEN [@ EXCEPT !.at = "next"] ELSE Idle]
    /\ UNCHANGED <<disk, flock, issued, readers, mislaid>>

Reference(p) == Head(Job(p).todo)

\* install(): the lock is taken, the activation read, a stage directory made.
InstallBegins(p) ==
    /\ Job(p).at = "next" /\ Job(p).todo # <<>> /\ flock = Nothing
    /\ flock' = p
    /\ leftover' = leftover \cup {Reference(p).id}
    /\ command' = [command EXCEPT ![p].at = "staged", ![p].was = pointer[Reference(p).id]]
    /\ UNCHANGED <<version, pointer, binding, issued, readers, mislaid, outputs>>

\* _file_digests compares the files, not the generated metadata.
FileDigests(d) == d.comp

\* _refuse_changed_companions: a version that is there is immutable.
Conflicts(ref) ==
    LET d == version[ref.id][ref.v]
    IN  d.there /\ (~PrimaryMatches(d) \/ FileDigests(d) # ref.comp)

\* What a command does once it failed: a training undoes what it landed.
Unwinding(p) == IF Job(p).undoes THEN [Job(p) EXCEPT !.at = "undo"] ELSE Idle

\* install() raises before the version is activated; the stage is removed.
InstallRefused(p) ==
    LET ref == Reference(p)
    IN  /\ Holds(p) /\ Job(p).at = "staged"
        /\ \/ ~CopyVerified(ref) \/ ~CompanionsStaged(ref) \/ ~TrustVerified(ref)
           \/ Conflicts(ref)
        /\ flock' = Nothing
        /\ leftover' = leftover \ {ref.id}
        /\ command' = [command EXCEPT ![p] = Unwinding(p)]
        /\ UNCHANGED <<version, pointer, binding, issued, readers, mislaid, outputs>>

\* The stage is renamed onto the version, or the version was there already.
ActivateVersion(p) ==
    LET ref == Reference(p)
        d == version[ref.id][ref.v]
    IN  /\ Holds(p) /\ Job(p).at = "staged"
        /\ CopyVerified(ref) /\ CompanionsStaged(ref) /\ TrustVerified(ref) /\ ~Conflicts(ref)
        /\ version' = IF d.there THEN version
                      ELSE [version EXCEPT ![ref.id][ref.v] =
                                [there |-> TRUE, primary |-> TRUE, comp |-> ref.comp,
                                 noted |-> ref.comp]]
        /\ leftover' = IF d.there THEN leftover ELSE leftover \ {ref.id}
        /\ IF d.there THEN UNCHANGED readers ELSE Restamped(ref.id, ref.v, FALSE)
        /\ command' = [command EXCEPT ![p].at = "renamed"]
        /\ UNCHANGED <<pointer, binding, flock, issued, mislaid, outputs>>

\* _write_activation, and the next variant.
WriteActivation(p) ==
    LET ref == Reference(p)
        was == Job(p).was
    IN  /\ Holds(p) /\ Job(p).at = "renamed"
        /\ pointer' = [pointer EXCEPT ![ref.id] =
               [active |-> ref.v,
                rollback |-> IF SameReference(was.active, ref) THEN was.rollback ELSE was.active]]
        /\ leftover' = leftover \ {ref.id}
        /\ flock' = Nothing
        /\ command' = [command EXCEPT ![p].at = "next", ![p].todo = Tail(@),
                                      ![p].landed = Append(@, ref)]
        /\ mislaid' = mislaid \ {<<ref.id, ref.v>>}
        /\ UNCHANGED <<version, binding, issued, readers, outputs>>

\* The activation cannot be written: the version stays, and nothing names it.
ActivationFails(p) ==
    /\ Holds(p) /\ Job(p).at = "renamed"
    /\ flock' = Nothing
    /\ leftover' = leftover \ {Reference(p).id}
    /\ command' = [command EXCEPT ![p] = Unwinding(p)]
    /\ UNCHANGED <<version, pointer, binding, issued, readers, mislaid, outputs>>

\* publish_binding names every variant, in one replaced file.
Publish(p) ==
    /\ Job(p).at = "next" /\ Job(p).todo = <<>>
    /\ binding' = IF Job(p).binds
                  THEN {<<Job(p).landed[k].id, Job(p).landed[k].v>> : k \in DOMAIN Job(p).landed}
                  ELSE binding
    /\ command' = [command EXCEPT ![p] = Idle]
    /\ UNCHANGED <<version, pointer, leftover, flock, issued, readers, mislaid, outputs>>

\* The binding is refused or cannot be written.
PublishFails(p) ==
    /\ Job(p).at = "next" /\ Job(p).todo = <<>> /\ Job(p).binds
    /\ command' = [command EXCEPT ![p] = Unwinding(p)]
    /\ UNCHANGED <<disk, flock, issued, readers, mislaid, outputs>>

-----------------------------------------------------------------------------
(* remove_landed_artifacts: the landed variants are uninstalled, last first. *)
Last(s) == s[Len(s)]

\* The activation an uninstall leaves: what the version displaced, if it
\* recognises the activation as its own.
Undone(ptr, ref) ==
    CASE SameReference(ptr.active, ref) -> [active |-> ptr.rollback, rollback |-> NoVersion]
      [] ~SameReference(ptr.active, ref) /\ SameReference(ptr.rollback, ref) ->
             [active |-> ptr.active, rollback |-> NoVersion]
      [] OTHER -> ptr

\* uninstall() takes the lock and rewrites the activation.
UninstallBegins(p) ==
    LET ref == Last(Job(p).landed)
    IN  /\ Job(p).at = "undo" /\ Job(p).landed # <<>> /\ flock = Nothing
        /\ flock' = p
        /\ pointer' = [pointer EXCEPT ![ref.id] = Undone(@, ref)]
        /\ command' = [command EXCEPT ![p].at = "removing"]
        /\ mislaid' = IF ref.v \in {pointer'[ref.id].active, pointer'[ref.id].rollback}
                      THEN mislaid \cup {<<ref.id, ref.v>>} ELSE mislaid
        /\ UNCHANGED <<version, leftover, binding, issued, readers, outputs>>

\* It removes the directory.
UninstallRemoves(p) ==
    LET ref == Last(Job(p).landed)
    IN  /\ Holds(p) /\ Job(p).at = "removing"
        /\ version' = [version EXCEPT ![ref.id][ref.v] = Absent]
        /\ Restamped(ref.id, ref.v, FALSE)
        /\ flock' = Nothing
        /\ command' = [command EXCEPT ![p].at = "undo",
                                      ![p].landed = SubSeq(@, 1, Len(@) - 1)]
        /\ UNCHANGED <<pointer, leftover, binding, issued, mislaid, outputs>>

UndoDone(p) ==
    /\ Job(p).at = "undo" /\ Job(p).landed = <<>>
    /\ command' = [command EXCEPT ![p] = Idle]
    /\ UNCHANGED <<disk, flock, issued, readers, mislaid, outputs>>

-----------------------------------------------------------------------------
(* rollback(): the primary file is verified again, the companions are not.   *)
Rollback(p, i) ==
    /\ Job(p).at = "idle" /\ flock = Nothing /\ issued < MaxCommands
    /\ pointer[i].active # NoVersion /\ pointer[i].rollback # NoVersion
    /\ Present(i, pointer[i].rollback) /\ version[i][pointer[i].rollback].primary
    /\ issued' = issued + 1
    /\ pointer' = [pointer EXCEPT ![i] = [active |-> @.rollback, rollback |-> @.active]]
    /\ UNCHANGED <<version, leftover, binding, flock, command, readers, mislaid, outputs>>

-----------------------------------------------------------------------------
(* ArtifactCache.enforce                                                     *)
Entries == {e \in Ids \X Versions : version[e[1]][e[2]].there}

\* _scan raises on a version directory whose metadata or primary is missing.
Scannable == \A e \in Entries : version[e[1]][e[2]].noted # "lost"

\* Mutant: only the active version is kept.
ProtectsActive(e) == e[2] = pointer[e[1]].active

\* Active and rollback versions are never candidates.
Protected(e) == e[2] \in {pointer[e[1]].active, pointer[e[1]].rollback}

\* The candidates it removes, in any order: unprotected, until the quota is
\* met; none when the protected ones alone exceed it.
Evicted ==
    LET over == Cardinality(Entries) - MaxItems
        loose == {e \in Entries : ~Protected(e)}
    IN  {E \in SUBSET loose : Cardinality(E) = IF over \in 0 .. Cardinality(loose) THEN over ELSE 0}

\* Under the lock: the scan, the leftovers' removal and the choice.
EnforceBegins(p) ==
    /\ Job(p).at = "idle" /\ flock = Nothing /\ issued < MaxCommands
    /\ Scannable
    /\ issued' = issued + 1
    /\ flock' = p
    /\ leftover' = {}
    /\ \E E \in Evicted :
           command' = [command EXCEPT ![p] = [Idle EXCEPT !.at = "evict", !.evicting = E]]
    /\ UNCHANGED <<version, pointer, binding, readers, mislaid, outputs>>

\* _remove_entry unlinks by name: artifact.json goes first ...
EvictUnlinks(p, e) ==
    /\ Holds(p) /\ Job(p).at = "evict" /\ e \in Job(p).evicting
    /\ version[e[1]][e[2]].noted # "lost"
    /\ version' = [version EXCEPT ![e[1]][e[2]].noted = "lost"]
    /\ UNCHANGED <<pointer, leftover, binding, flock, command, issued, readers, mislaid, outputs>>

\* ... then the rest, and the directory.
EvictRemoves(p, e) ==
    /\ Holds(p) /\ Job(p).at = "evict" /\ e \in Job(p).evicting
    /\ version[e[1]][e[2]].noted = "lost"
    /\ version' = [version EXCEPT ![e[1]][e[2]] = Absent]
    /\ Restamped(e[1], e[2], FALSE)
    /\ command' = [command EXCEPT ![p].evicting = @ \ {e}]
    /\ UNCHANGED <<pointer, leftover, binding, flock, issued, mislaid, outputs>>

EnforceDone(p) ==
    /\ Holds(p) /\ Job(p).at = "evict" /\ Job(p).evicting = {}
    /\ flock' = Nothing
    /\ command' = [command EXCEPT ![p] = Idle]
    /\ UNCHANGED <<disk, issued, readers, mislaid, outputs>>

-----------------------------------------------------------------------------
(* A command is killed: the kernel drops its lock, its temporaries stay.     *)
Killed(p) ==
    /\ Job(p).at # "idle"
    /\ command' = [command EXCEPT ![p] = Idle]
    /\ flock' = IF flock = p THEN Nothing ELSE flock
    /\ UNCHANGED <<disk, issued, readers, mislaid, outputs>>

\* Somebody replaces a companion, or the primary, of an installed version.
CompanionReplaced(i, v, b) ==
    /\ Present(i, v) /\ version[i][v].comp \notin {Nothing, b}
    /\ issued < MaxCommands /\ issued' = issued + 1
    /\ version' = [version EXCEPT ![i][v].comp = b]
    /\ Restamped(i, v, TRUE)
    /\ UNCHANGED <<pointer, leftover, binding, flock, command, mislaid, outputs>>

PrimaryReplaced(i, v) ==
    /\ Present(i, v) /\ version[i][v].primary
    /\ issued < MaxCommands /\ issued' = issued + 1
    /\ version' = [version EXCEPT ![i][v].primary = FALSE]
    /\ Restamped(i, v, FALSE)
    /\ UNCHANGED <<pointer, leftover, binding, flock, command, mislaid, outputs>>

-----------------------------------------------------------------------------
(* cached_resolution, in the service.                                        *)

\* artifact_stamp: None when a file it names cannot be stat'd.
Stampable(i) ==
    /\ Present(i, Declared[i].v)
    /\ Declared[i].declares # Nothing => version[i][Declared[i].v].comp # Nothing

\* The stamp is taken; a remembered answer under the same stamp is served.
Ask(i) ==
    /\ ~asking[i].held
    /\ ~(known[i].held /\ known[i].fresh /\ Stampable(i))
    /\ IF Stampable(i)
       THEN asking' = [asking EXCEPT ![i] = [held |-> TRUE, fresh |-> TRUE, read |-> "unread"]]
            /\ UNCHANGED known
       ELSE known' = [known EXCEPT ![i] = Unknown] /\ UNCHANGED asking
    /\ UNCHANGED <<disk, flock, command, issued, mislaid, outputs>>

\* artifact_store.resolve hashes the files of the version.
Resolve(i) ==
    /\ asking[i].held /\ asking[i].read = "unread"
    /\ asking' = [asking EXCEPT ![i].read = IF Resolves(i, Declared[i]) THEN "ready" ELSE "refused"]
    /\ UNCHANGED <<disk, flock, command, issued, known, mislaid, outputs>>

Resolved(i) == asking[i].held /\ asking[i].read # "unread"

\* Mutant: the stamp is taken once the files are hashed.
AnswerStampedLate(i) ==
    /\ Resolved(i)
    /\ known' = [known EXCEPT ![i] = [held |-> TRUE, fresh |-> TRUE, ready |-> asking[i].read = "ready"]]
    /\ asking' = [asking EXCEPT ![i] = Unknown]
    /\ UNCHANGED <<disk, flock, command, issued, mislaid, outputs>>

\* The answer is kept under the stamp that was taken before the files were hashed.
Answer(i) ==
    /\ Resolved(i)
    /\ known' = [known EXCEPT ![i] = [held |-> TRUE, fresh |-> asking[i].fresh,
                                     ready |-> asking[i].read = "ready"]]
    /\ asking' = [asking EXCEPT ![i] = Unknown]
    /\ UNCHANGED <<disk, flock, command, issued, mislaid, outputs>>

Next ==
    \/ \E p \in Processes :
           \/ \E plan \in Plans : Command(p, plan)
           \/ ProducerExports(p) \/ \E passed \in BOOLEAN : ProducerGate(p, passed)
           \/ InstallBegins(p) \/ InstallRefused(p) \/ ActivateVersion(p)
           \/ WriteActivation(p) \/ ActivationFails(p) \/ Publish(p) \/ PublishFails(p)
           \/ UninstallBegins(p) \/ UninstallRemoves(p) \/ UndoDone(p)
           \/ \E i \in Ids : Rollback(p, i)
           \/ EnforceBegins(p) \/ EnforceDone(p) \/ Killed(p)
           \/ \E e \in Ids \X Versions : EvictUnlinks(p, e) \/ EvictRemoves(p, e)
    \/ \E i \in Ids, v \in Versions :
           PrimaryReplaced(i, v) \/ \E b \in Bytes : CompanionReplaced(i, v, b)
    \/ \E i \in Asked : Ask(i) \/ Resolve(i) \/ Answer(i)

Spec == Init /\ [][Next]_artifactVars

-----------------------------------------------------------------------------
(* Whatever is killed and whenever, activation.json names only versions that *)
(* are installed; an uninstall by a reference that declares companions is    *)
(* the exception, it does not recognise the activation it made.              *)
ActivationInstalled ==
    \A i \in Ids : \A v \in {pointer[i].active, pointer[i].rollback} :
        v # NoVersion /\ <<i, v>> \notin mislaid => Present(i, v)

(* A remembered "ready" under a stamp that still matches is what resolving   *)
(* would answer now, as long as the manifest declares the companion.         *)
ReadyIsTrue ==
    \A i \in Ids :
        known[i].held /\ known[i].fresh /\ known[i].ready /\ Stampable(i)
            /\ (version[i][Declared[i].v].comp # Nothing => Declared[i].declares # Nothing)
        => Resolves(i, Declared[i])

(* What every uninstall is said to do: remove the version and undo the       *)
(* activation that named it.                                                 *)
UninstallUndoes == mislaid = {}

\* The store is honest with installers and readers at once: what is activated is installed, and a
\* readiness answer that is given from memory is true of the files (ArtifactInstaller,
\* ArtifactCache, cached_resolution).
StoreSound == ActivationInstalled /\ ReadyIsTrue

=============================================================================
