--------------------------- MODULE SelectedInputs ---------------------------
(***************************************************************************)
(* A job's inputs that are files of a person (plugins/loading_staging.py,  *)
(* the staging in plugins/loading.py, tensorref.py, tensorcontract.py and  *)
(* the input checks of dispatch.py).                                       *)
(*                                                                         *)
(* Selected files are copied for the worker into a private directory by a  *)
(* thread of the pool of plugins/offloop.py: every source is digested,     *)
(* copied and digested again, block by block, while its owner may rewrite, *)
(* truncate, link or rename it, and while the job may be cancelled.  A     *)
(* tensor passed by reference is read once when the job is admitted and    *)
(* again when it is dispatched.  A digest is the sequence of blocks that   *)
(* was read.                                                               *)
(***************************************************************************)
EXTENDS Integers, Sequences, FiniteSets

CONSTANTS
    Inodes, Paths,
    Links,          \* which path names which inode at first
    Selections,     \* the lists of paths a job may name
    Contents,       \* what an owner may write, sequences of blocks
    MaxBytes,       \* MAX_SELECTED_SOURCE_BYTES, in blocks
    References,     \* the tensor references a job may carry
    ModelSize,      \* the size of the input the model declares
    NonFinite,      \* the blocks that hold a number that is not finite
    MaxEdits        \* bound on what owners do

\* No file: a path that names nothing.
Gone == 0

\* Blocks are numbers, a path names a file or nothing, and a job names paths.
FilesAssumption ==
    /\ Gone \notin Inodes /\ Links \subseteq [Paths -> Inodes \cup {Gone}]
    /\ Contents \subseteq Seq(Nat) /\ MaxBytes \in Nat
    /\ Selections \subseteq Seq(Paths)

VARIABLES
    name,       \* path -> inode
    disk,       \* inode -> what it holds and its mtime
    job,        \* the job
    staging,    \* the staging thread of a job with selected files
    dir,        \* the private directory and the copies in it
    removal,    \* its removal by the pool: none, queued, running or dropped
    reading,    \* the read of a tensor reference
    held,       \* what an inode has held since the job began
    quiet,      \* rewrites since then that left size and mtime as they were
    edits

inputVars == <<name, disk, job, staging, dir, removal, reading, held, quiet, edits>>
owner == <<name, disk, held, quiet, edits>>

NoStaging == [at |-> "none"]
NoReading == [at |-> "none"]
NoDir == [there |-> FALSE, copies |-> <<>>]

Init ==
    /\ name \in Links
    /\ \E c \in Contents : disk = [i \in Inodes |-> [content |-> c, mtime |-> 0]]
    /\ job = [at |-> "none"]
    /\ staging = NoStaging /\ dir = NoDir /\ removal = "none" /\ reading = NoReading
    /\ held = [i \in Inodes |-> {disk[i].content}] /\ quiet = [i \in Inodes |-> 0]
    /\ edits = 0

----------------------------------------------------------------------------
(* The owner.  A rewrite that keeps the size may also keep the mtime: it falls into the same  *)
(* tick of the clock, or the writer restores it                                               *)

\* What is done before the job begins is in the initial states
OwnerActs == job.at \notin {"none", "ended"} /\ edits < MaxEdits /\ edits' = edits + 1

Rewrite(i, c, unseen) ==
    /\ OwnerActs
    /\ c # disk[i].content
    /\ unseen => Len(c) = Len(disk[i].content)
    /\ disk' = [disk EXCEPT ![i] = [content |-> c, mtime |-> IF unseen THEN @.mtime ELSE @.mtime + 1]]
    /\ held' = [held EXCEPT ![i] = @ \cup {c}]
    /\ quiet' = [quiet EXCEPT ![i] = IF unseen THEN @ + 1 ELSE @]
    /\ UNCHANGED <<name, job, staging, dir, removal, reading>>

\* A path comes to name another file, or none
Rename(p, i) ==
    /\ OwnerActs
    /\ name[p] # i
    /\ name' = [name EXCEPT ![p] = i]
    /\ UNCHANGED <<disk, job, staging, dir, removal, reading, held, quiet>>

----------------------------------------------------------------------------
(* Staging *)

Thread(fields) == staging' = fields
Path == staging.sources[Len(staging.copies) + 1]

\* Any refusal: stage_selected_sources removes the directory and raises
StagingFails ==
    /\ Thread([at |-> "failed"])
    /\ dir' = NoDir

\* stage_selected_sources: one or more different sources, then the directory is made
StagingBegins ==
    /\ staging.at = "queued"
    /\ IF staging.sources # <<>> /\ Cardinality({staging.sources[k] : k \in DOMAIN staging.sources})
                                      = Len(staging.sources)
       THEN /\ Thread([at |-> "look", sources |-> staging.sources, copies |-> <<>>, observed |-> {}])
            /\ dir' = [NoDir EXCEPT !.there = TRUE]
       ELSE Thread([at |-> "failed"]) /\ UNCHANGED dir
    /\ UNCHANGED <<owner, job, removal, reading>>

\* copy_selected_source first asks which file the path names
SelectedStatus ==
    /\ staging.at = "look"
    /\ IF name[Path] = Gone THEN StagingFails
       ELSE /\ Thread([at |-> "open", sources |-> staging.sources, copies |-> staging.copies,
                       observed |-> staging.observed, selected |-> name[Path]])
            /\ UNCHANGED dir
    /\ UNCHANGED <<owner, job, removal, reading>>

\* validate_selected_source_stat
SelectedSourceValid(i) == Len(disk[i].content) \in 1 .. MaxBytes

\* The file that was opened must be the one that was named
OpenSelectedSource ==
    /\ staging.at = "open"
    /\ LET i == name[Path]
       IN IF i = staging.selected /\ SelectedSourceValid(i)
          THEN /\ Thread([at |-> IF \E o \in staging.observed : o.inode = i THEN "reuse" ELSE "digest",
                          sources |-> staging.sources, copies |-> staging.copies,
                          observed |-> staging.observed, inode |-> i,
                          size |-> Len(disk[i].content), mtime |-> disk[i].mtime,
                          first |-> <<>>, copy |-> <<>>, last |-> <<>>])
               /\ UNCHANGED dir
          ELSE StagingFails
    /\ UNCHANGED <<owner, job, removal, reading>>

\* selected_source_changed, of an inode's status now
SourceChanged(i, copy) ==
    \/ i # staging.inode
    \/ Len(disk[i].content) # staging.size
    \/ disk[i].mtime # staging.mtime
    \/ Len(copy) # staging.size

\* The copy serves the worker, and this thread's later sources of the same inode
CopyAccepted(copy) ==
    /\ Thread([at |-> IF Len(staging.copies) + 1 = Len(staging.sources) THEN "staged" ELSE "look",
               sources |-> staging.sources, copies |-> Append(staging.copies, copy),
               observed |-> staging.observed \cup {[inode |-> staging.inode, copy |-> copy]}])
    /\ dir' = [dir EXCEPT !.copies = Append(@, [inode |-> staging.inode, copy |-> copy])]

\* A second name of a file already copied
ReuseObserved ==
    /\ staging.at = "reuse"
    /\ LET prior == (CHOOSE o \in staging.observed : o.inode = staging.inode).copy
       IN IF SourceChanged(name[Path], prior) THEN StagingFails ELSE CopyAccepted(prior)
    /\ UNCHANGED <<owner, job, removal, reading>>

Opened == disk[staging.inode].content

\* _stream_digest: as many blocks as the first status said, and then the end of the file
Digested(read) ==
    IF Len(read) < staging.size THEN Len(Opened) > Len(read) ELSE Len(Opened) <= staging.size

StreamDigest ==
    /\ staging.at = "digest"
    /\ IF ~Digested(staging.first) THEN StagingFails
       ELSE /\ IF Len(staging.first) < staging.size
               THEN Thread([staging EXCEPT !.first = Append(@, Opened[Len(@) + 1])])
               ELSE Thread([staging EXCEPT !.at = "copy"])
            /\ UNCHANGED dir
    /\ UNCHANGED <<owner, job, removal, reading>>

\* _copy_bounded: to the end of the file, and at most one block more than expected
CopyBounded ==
    /\ staging.at = "copy"
    /\ IF Len(staging.copy) <= staging.size /\ Len(staging.copy) < Len(Opened)
       THEN Thread([staging EXCEPT !.copy = Append(@, Opened[Len(@) + 1])])
       ELSE Thread([staging EXCEPT !.at = "verify"])
    /\ UNCHANGED <<owner, job, dir, removal, reading>>

\* The second digest of the source, and the status of the open file after it
VerifySource ==
    /\ staging.at = "verify"
    /\ IF ~Digested(staging.last) THEN StagingFails
       ELSE /\ IF Len(staging.last) < staging.size
               THEN Thread([staging EXCEPT !.last = Append(@, Opened[Len(@) + 1])])
               ELSE Thread([staging EXCEPT !.at = "status"])
            /\ UNCHANGED dir
    /\ UNCHANGED <<owner, job, removal, reading>>

FinalStatus ==
    /\ staging.at = "status"
    /\ IF SourceChanged(staging.inode, staging.copy)
       THEN StagingFails
       ELSE Thread([staging EXCEPT !.at = "compare"]) /\ UNCHANGED dir
    /\ UNCHANGED <<owner, job, removal, reading>>

\* Mutant: the status alone decides
DigestsAgreeAlways == TRUE

DigestsAgree == staging.first = staging.copy /\ staging.last = staging.copy

\* The path must still name the file, and the three digests must be one
CompareDigests ==
    /\ staging.at = "compare"
    /\ IF name[Path] = staging.inode /\ DigestsAgree THEN CopyAccepted(staging.copy) ELSE StagingFails
    /\ UNCHANGED <<owner, job, removal, reading>>

----------------------------------------------------------------------------
(* The job around it *)

\* _stage_payload: without the permission nothing is staged
JobBegins(sources, granted) ==
    /\ job.at = "none"
    /\ job' = [at |-> IF granted THEN "staging" ELSE "running", kind |-> "files", inputs |-> <<>>]
    /\ staging' = IF granted THEN [at |-> "queued", sources |-> sources] ELSE NoStaging
    /\ UNCHANGED <<owner, dir, removal, reading>>

StagingOver == staging.at \in {"staged", "failed"}

\* The staged paths go to the worker; a failure ends the job
StagingReturns ==
    /\ job.at = "staging" /\ StagingOver
    /\ job' = IF staging.at = "staged" THEN [job EXCEPT !.at = "running", !.inputs = dir.copies]
              ELSE [job EXCEPT !.at = "ended"]
    /\ UNCHANGED <<owner, staging, dir, removal, reading>>

\* The worker answers, fails or is cancelled; the directory goes to the pool to be removed
WorkerReturns ==
    /\ job.at = "running"
    /\ job' = [job EXCEPT !.at = IF dir.there THEN "removing" ELSE "ended"]
    /\ removal' = IF dir.there THEN "queued" ELSE removal
    /\ UNCHANGED <<owner, staging, dir, reading>>

\* Mutant: a cancelled job does not wait for its staging
CancelAtOnce ==
    /\ job.at = "staging"
    /\ job' = [job EXCEPT !.at = "ended"]
    /\ UNCHANGED <<owner, staging, dir, removal, reading>>

\* A cancelled job first waits for the staging, which nothing interrupts
CancelStaging ==
    /\ job.at = "staging"
    /\ job' = [job EXCEPT !.at = "abandoning"]
    /\ UNCHANGED <<owner, staging, dir, removal, reading>>

\* _cleanup_abandoned_staging: shielded from further cancellations
CleanupAbandonedStaging ==
    /\ job.at = "abandoning" /\ StagingOver
    /\ job' = [job EXCEPT !.at = IF dir.there THEN "shielded" ELSE "ended"]
    /\ removal' = IF dir.there THEN "queued" ELSE removal
    /\ UNCHANGED <<owner, staging, dir, reading>>

\* A cancellation while the removal is awaited ends the job at once.  A removal that no thread
\* of the pool has taken yet is cancelled with its waiter
CancelRemoving ==
    /\ job.at = "removing"
    /\ job' = [job EXCEPT !.at = "ended"]
    /\ removal' = IF removal = "queued" THEN "dropped" ELSE removal
    /\ UNCHANGED <<owner, staging, dir, reading>>

RemovalStarts ==
    /\ removal = "queued"
    /\ removal' = "running"
    /\ UNCHANGED <<owner, job, staging, dir, reading>>

RemovalEnds ==
    /\ removal = "running"
    /\ removal' = "none" /\ dir' = NoDir
    /\ job' = [job EXCEPT !.at = "ended"]
    /\ UNCHANGED <<owner, staging, reading>>

----------------------------------------------------------------------------
(* Tensors by reference *)

\* The declared contract, and the rules before a byte is read: the roots, the size
ContractAgrees(ref) == ref.size = ModelSize
ReferencePermitted(ref) ==
    ref.inRoots /\ name[ref.path] # Gone /\ Len(disk[name[ref.path]].content) = ref.size

ReadBegins(ref) == [at |-> "open", ref |-> ref, inode |-> Gone, got |-> <<>>]

\* ModelDispatcher.admit: verify_reference in the submitting call
AdmitReference(ref) ==
    /\ job.at = "none"
    /\ ContractAgrees(ref) /\ ReferencePermitted(ref)
    /\ job' = [at |-> "admitting", kind |-> "tensor", inputs |-> <<>>]
    /\ reading' = ReadBegins(ref)
    /\ UNCHANGED <<owner, staging, dir, removal>>

\* The path is opened after its size was looked at
OpenReference ==
    /\ reading.at = "open"
    /\ IF name[reading.ref.path] = Gone
       THEN reading' = NoReading /\ job' = [job EXCEPT !.at = "ended"]
       ELSE reading' = [reading EXCEPT !.at = "read", !.inode = name[reading.ref.path]] /\ UNCHANGED job
    /\ UNCHANGED <<owner, staging, dir, removal>>

\* One chunk; a number that is not finite ends the job
ReadReference ==
    /\ reading.at = "read"
    /\ LET content == disk[reading.inode].content
           k == Len(reading.got) + 1
       IN IF k > Len(content)
          THEN reading' = [reading EXCEPT !.at = "digested"] /\ UNCHANGED job
          ELSE IF content[k] \in NonFinite
          THEN reading' = NoReading /\ job' = [job EXCEPT !.at = "ended"]
          ELSE reading' = [reading EXCEPT !.got = Append(@, content[k])] /\ UNCHANGED job
    /\ UNCHANGED <<owner, staging, dir, removal>>

\* Mutant: what admission verified is not verified again
ReferenceProvenOnce(at) == at = "admitting" => reading.got = reading.ref.sha256

ReferenceProven(at) == reading.got = reading.ref.sha256

\* Admission keeps nothing of what it read; dispatch runs the values it read itself
ReferenceDigested ==
    /\ reading.at = "digested"
    /\ IF ~ReferenceProven(job.at) THEN job' = [job EXCEPT !.at = "ended"]
       ELSE IF job.at = "admitting" THEN job' = [job EXCEPT !.at = "accepted"]
       ELSE job' = [job EXCEPT !.at = "running", !.inputs = reading.got]
    /\ reading' = [reading EXCEPT !.at = "none"]
    /\ UNCHANGED <<owner, staging, dir, removal>>

\* load_referenced_tensor, when the job is dispatched
LoadReference ==
    /\ job.at = "accepted"
    /\ IF ReferencePermitted(reading.ref)
       THEN /\ job' = [job EXCEPT !.at = "loading"]
            /\ reading' = ReadBegins(reading.ref)
       ELSE job' = [job EXCEPT !.at = "ended"] /\ UNCHANGED reading
    /\ UNCHANGED <<owner, staging, dir, removal>>

Next ==
    \/ \E i \in Inodes, c \in Contents, unseen \in BOOLEAN : Rewrite(i, c, unseen)
    \/ \E p \in Paths, i \in Inodes \cup {Gone} : Rename(p, i)
    \/ \E s \in Selections, granted \in BOOLEAN : JobBegins(s, granted)
    \/ StagingBegins \/ SelectedStatus \/ OpenSelectedSource \/ ReuseObserved
    \/ StreamDigest \/ CopyBounded \/ VerifySource \/ FinalStatus \/ CompareDigests
    \/ StagingReturns \/ WorkerReturns \/ CancelStaging \/ CleanupAbandonedStaging
    \/ CancelRemoving \/ RemovalStarts \/ RemovalEnds
    \/ \E ref \in References : AdmitReference(ref)
    \/ OpenReference \/ ReadReference \/ ReferenceDigested \/ LoadReference

----------------------------------------------------------------------------

\* Rewrites in step with the three passes that forge a copy of nothing the file ever held: one
\* within each pass.  (A file of two blocks takes two more, one between each pass and the next.)
Forging == 3

\* What the worker is given was in the file at one moment, not a mixture of moments
CopyIsWhole ==
    \A k \in DOMAIN dir.copies :
        LET given == dir.copies[k]
        IN given.copy \in held[given.inode] \/ quiet[given.inode] >= Forging

\* A private copy outlives its job only while its removal runs, or when it was dropped
StagingRemoved == job.at = "ended" /\ removal \notin {"running", "dropped"} => dir = NoDir

\* A running job has every source it named, in order, or the very tensor it declared
InputsComplete ==
    job.at = "running" =>
        IF job.kind = "files"
        THEN staging # NoStaging => Len(job.inputs) = Len(staging.sources)
        ELSE job.inputs = reading.ref.sha256

\* Whatever its owner does to a selected file while it is staged, and whenever the job is
\* cancelled, a worker is given whole copies and nothing private remains; a referenced tensor
\* that runs is the one declared although the file changes between admission, dispatch and any
\* two chunks (copy_selected_source, _stage_payload, load_referenced_tensor).
InputsSound == CopyIsWhole /\ StagingRemoved /\ InputsComplete

Spec == Init /\ [][Next]_inputVars

=============================================================================
