------------------------------ MODULE LowLight ------------------------------
(***************************************************************************)
(* The low-light workload (lowlight.py, lowlight_image.py,                 *)
(* lowlight_pipeline.py): photographs of a configured input folder are     *)
(* enhanced into a disjoint output folder.  Folders are paths a person may *)
(* point elsewhere at any time; several jobs run at once and name their    *)
(* outputs after the photograph, wherever in the input folder it lies.     *)
(***************************************************************************)
EXTENDS Integers, FiniteSets

CONSTANTS
    Dirs,       \* directories of the file system, and the paths that lead to them
    Below,      \* Below[d]: the directories that d contains, d included
    Photographs,\* <<directory, name>> of the originals
    Names,      \* names of photographs
    Jobs,
    MaxTurns    \* bound: folders pointed elsewhere, failures

VARIABLES
    resolves,   \* [Dirs -> Dirs]: where each path leads now
    settings,   \* the stored configuration: input and output path, canonical
    files,      \* [Dirs \X Names -> content]: the photograph it shows, and how
    work,       \* each job: its stage, workspace, source, and what it was told
    placed,     \* outputs that were linked into place, with their content
    turns

lowLightVars == <<resolves, settings, files, work, placed, turns>>

Unset == [input |-> "none", output |-> "none"]
Nowhere == <<"none", "none">>
Absent == [of |-> Nowhere, enhanced |-> FALSE]
NoWork == [stage |-> "idle", space |-> Unset, at |-> Nowhere, told |-> "none"]

\* The originals are files of the file system, and "none" is none of its directories.
PhotographsAssumption == Photographs \subseteq Dirs \X Names /\ "none" \notin Dirs

Init ==
    /\ resolves = [d \in Dirs |-> d]
    /\ settings = Unset
    /\ files = [at \in Dirs \X Names |->
                  IF at \in Photographs THEN [of |-> at, enhanced |-> FALSE] ELSE Absent]
    /\ work = [j \in Jobs |-> NoWork]
    /\ placed = {} /\ turns = 0

Turn == turns < MaxTurns /\ turns' = turns + 1

-----------------------------------------------------------------------------
(* The workspace.                                                            *)

\* validate_low_light_workspace: neither folder contains the other.
Disjoint(i, o) == i \notin Below[o] /\ o \notin Below[i]

\* _canonical_directory of a configured path, and whether the pair is accepted.
Valid(space) == Disjoint(resolves[space.input], resolves[space.output])

\* configure_low_light_workspace: what is stored is where the paths lead.
Configure(i, o) ==
    /\ Valid([input |-> i, output |-> o])
    /\ settings' = [input |-> resolves[i], output |-> resolves[o]]
    /\ UNCHANGED <<resolves, files, work, placed, turns>>

\* load_low_light_workspace: the folders as they were stored, or a refusal.
Canonical(space) == resolves[space.input] = space.input /\ resolves[space.output] = space.output
Load(j) ==
    /\ work[j].stage = "idle" /\ settings # Unset
    /\ work' = [work EXCEPT ![j] =
                    IF Valid(settings) /\ Canonical(settings)
                    THEN [NoWork EXCEPT !.stage = "loaded", !.space = settings]
                    ELSE [NoWork EXCEPT !.stage = "done", !.told = "configuration-invalid"]]
    /\ UNCHANGED <<resolves, settings, files, placed, turns>>

\* The person, or another program, points a path at another directory.
Relink(p, d) ==
    /\ Turn /\ resolves[p] # d
    /\ resolves' = [resolves EXCEPT ![p] = d]
    /\ UNCHANGED <<settings, files, work, placed>>

-----------------------------------------------------------------------------
(* Preparing, enhancing, publishing.                                         *)

Fails(j, code) == work' = [work EXCEPT ![j] = [NoWork EXCEPT !.stage = "done", !.told = code]]

\* _source_file: a regular file somewhere in the input folder.
SourceIn(space, at) == at[1] \in Below[resolves[space.input]] /\ files[at] # Absent

\* prepare_low_light_input: the folders are validated again, the bytes are read
\* once, and decoded.
Prepare(j, at) ==
    /\ work[j].stage = "loaded"
    /\ IF Valid(work[j].space) /\ SourceIn(work[j].space, at)
       THEN work' = [work EXCEPT ![j].stage = "prepared", ![j].at = at]
       ELSE Fails(j, "input-invalid")
    /\ UNCHANGED <<resolves, settings, files, placed, turns>>

\* _read_bounded, _decode_normalized, _bounded_geometry, _rgb_nchw refuse.
Undecodable(j) ==
    /\ work[j].stage = "loaded" /\ Turn
    /\ Fails(j, "input-decode-failed")
    /\ UNCHANGED <<resolves, settings, files, placed>>

\* execute_low_light_pipeline and reconstruct_low_light_output: on the GPU or
\* not at all.
Enhance(j) ==
    /\ work[j].stage = "prepared"
    /\ work' = [work EXCEPT ![j].stage = "enhanced"]
    /\ UNCHANGED <<resolves, settings, files, placed, turns>>
EnhanceFails(j) ==
    /\ work[j].stage = "prepared" /\ Turn
    /\ Fails(j, "inference-failed")
    /\ UNCHANGED <<resolves, settings, files, placed>>

\* publish_low_light_output: the folders and the source are validated again, and
\* the output is named after the source.
PublishChecks(j) ==
    /\ work[j].stage = "enhanced"
    /\ IF Valid(work[j].space) /\ SourceIn(work[j].space, work[j].at)
       THEN work' = [work EXCEPT ![j].stage = "writing",
                                 ![j].space.output = resolves[work[j].space.output]]
       ELSE Fails(j, "input-invalid")
    /\ UNCHANGED <<resolves, settings, files, placed, turns>>

\* Mutant: the output is renamed over what is there.
MayLinkAnyway(target) == TRUE

\* _write_bytes_atomic(replace=False): linking fails where a file is.
MayLink(target) == files[target] = Absent

\* The link, and the fsync of the folder, which may fail after it.
PublishWrites(j, synced) ==
    LET target == <<resolves[work[j].space.output], work[j].at[2]>>
        content == [of |-> work[j].at, enhanced |-> TRUE]
    IN  /\ work[j].stage = "writing"
        /\ synced \/ turns < MaxTurns
        /\ turns' = IF synced THEN turns ELSE turns + 1
        /\ IF MayLink(target)
           THEN /\ files' = [files EXCEPT ![target] = content]
                /\ placed' = placed \cup {<<target, content>>}
                /\ Fails(j, IF synced THEN "published" ELSE "output-unavailable")
           ELSE Fails(j, "output-exists") /\ UNCHANGED <<files, placed>>
        /\ UNCHANGED <<resolves, settings>>

\* Another photograph, or the same again.
Again(j) ==
    /\ work[j].stage = "done"
    /\ work' = [work EXCEPT ![j] = NoWork]
    /\ UNCHANGED <<resolves, settings, files, placed, turns>>

Next ==
    \/ \E i, o \in Dirs : Configure(i, o) \/ Relink(i, o)
    \/ \E j \in Jobs :
          \/ Load(j) \/ Undecodable(j) \/ Enhance(j) \/ EnhanceFails(j) \/ PublishChecks(j) \/ Again(j)
          \/ \E d \in Dirs, n \in Names : Prepare(j, <<d, n>>)
          \/ \E synced \in BOOLEAN : PublishWrites(j, synced)

Spec == Init /\ [][Next]_lowLightVars

-----------------------------------------------------------------------------
\* _write_bytes_atomic(replace=False), and "originalsPreserved": photographs of
\* the same name in two folders, jobs at once and folders that are pointed
\* elsewhere between a check and a write never cost a photograph or an output
\* that a job placed, whatever that job was told.
NothingOverwritten ==
    /\ \A at \in Photographs : files[at] = [of |-> at, enhanced |-> FALSE]
    /\ \A p \in placed : files[p[1]] = p[2]

=============================================================================
