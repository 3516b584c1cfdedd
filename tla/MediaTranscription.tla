------------------------- MODULE MediaTranscription -------------------------
(***************************************************************************)
(* The transcription workload (plugins/media_transcription.py): a selected *)
(* file is inspected, its speech is transcribed, its slides, pages or      *)
(* sampled frames are read one after another, and whatever ends the job    *)
(* the sampled frames are discarded and the vision model is released.      *)
(*                                                                         *)
(* The probe, the transcribers and the sampler are ports: what they answer *)
(* is arbitrary.  Times and positions are small numbers; 0 stands for a    *)
(* position that is absent.  Sampling, seeing and discarding run in threads *)
(* of their own: a cancelled task leaves the thread it awaited running, and *)
(* what that thread does then is nobody's.                                 *)
(***************************************************************************)
EXTENDS Integers, Sequences, SequencesExt, FiniteSets

CONSTANTS
    Medias,     \* what the probe may answer: [modality, duration, dimensions, audio, slides, pages]
    Speeches,   \* what the speech port may answer: sequences of [from, to]
    Places,     \* where a port may say a part is: [time, slide, page]
    MaxParts,   \* bound: frames, slides or pages of one source
    MaxJobs     \* bound: jobs executed

\* Counts and times of what the ports answer are numbers.
PortsAssumption ==
    /\ \A m \in Medias : m.duration \in Nat /\ m.slides \in Nat /\ m.pages \in Nat
    /\ Speeches \subseteq Seq([from : Nat, to : Nat])
    /\ MaxParts \in Nat

VARIABLES
    stage,      \* where _transcribe is
    media,      \* what was inspected
    segments,   \* the speech, so far as it was accepted
    sampled,    \* the frames _transcribe holds
    visuals,    \* what was read of them: [time, slide, page]
    outcome,    \* how the job ends
    scratch,    \* frame files, with the job they are of
    threads,    \* threads at work: a job's "sample", or what outlived its task: "sample", "see", "discard"
    vision,     \* the vision model: "idle", "held" once a frame loaded it
    left,       \* what was given up: the "frames" of a job, the "model"
    job         \* jobs so far

mediaVars == <<stage, media, segments, sampled, visuals, outcome, scratch, threads, vision, left, job>>

NoMedia == [modality |-> "none", duration |-> 0, dimensions |-> 0, audio |-> FALSE,
            slides |-> 0, pages |-> 0]

Init ==
    /\ stage = "idle" /\ media = NoMedia /\ segments = <<>> /\ sampled = <<>>
    /\ visuals = <<>> /\ outcome = "none"
    /\ scratch = {} /\ threads = {} /\ vision = "idle" /\ left = {} /\ job = 0

\* Whatever is raised, the finally clause is next.
Ends(how) == stage' = "discarding" /\ outcome' = how

\* The frame files of a job; the frames of a selected raster image are itself.
FilesOf(j) == {f \in scratch : f.job = j}
Lost(j) == left \cup {[job |-> j, of |-> "frames"]}

-----------------------------------------------------------------------------
(* What is accepted of the ports.                                            *)

DurationOK(m) == m.modality = "video" => m.duration > 0
PositionsOK(m) ==
    /\ m.modality # "presentation" => m.slides = 0
    /\ m.modality # "document" => m.pages = 0
ImageOK(m) == m.dimensions > 0 /\ m.duration = 0 /\ ~m.audio
PresentationOK(m) == m.duration = 0 /\ ~m.audio /\ m.dimensions = 0 /\ m.slides > 0
DocumentOK(m) == m.duration = 0 /\ ~m.audio /\ m.dimensions = 0

\* _validated_media.
ValidatedMedia(m) ==
    /\ DurationOK(m) /\ PositionsOK(m)
    /\ CASE m.modality = "image" -> ImageOK(m)
         [] m.modality = "presentation" -> PresentationOK(m)
         [] m.modality = "document" -> DocumentOK(m)
         [] OTHER -> m.duration > 0
    /\ m.modality = "audio" => m.audio

\* _validated_speech: segments that follow each other and end with the media.
ValidatedSpeech(heard) ==
    \A i \in DOMAIN heard :
        /\ heard[i].from >= IF i = 1 THEN 0 ELSE heard[i - 1].to
        /\ heard[i].from < heard[i].to /\ heard[i].to <= media.duration

NoneOf(items, field) == \A i \in DOMAIN items : items[i][field] = 0
Numbered(items, field) == \A i \in DOMAIN items : items[i][field] = i

VideoOK(items) ==
    /\ items # <<>> /\ NoneOf(items, "slide") /\ NoneOf(items, "page")
    /\ \A i \in DOMAIN items : items[i].time > 0
    /\ \A i, k \in DOMAIN items : i < k => items[i].time <= items[k].time
PresentationVisualsOK(items) ==
    /\ Len(items) = media.slides /\ NoneOf(items, "time") /\ NoneOf(items, "page")
    /\ Numbered(items, "slide")
DocumentVisualsOK(items) ==
    /\ items # <<>> /\ NoneOf(items, "time") /\ NoneOf(items, "slide")
    /\ IF media.pages = 0 THEN Len(items) = 1 /\ NoneOf(items, "page")
       ELSE Len(items) = media.pages /\ Numbered(items, "page")

\* _validated_visuals.
ValidatedVisuals(items) ==
    CASE media.modality = "audio" -> items = <<>>
      [] media.modality = "image" ->
            Len(items) = 1 /\ \A f \in {"time", "slide", "page"} : NoneOf(items, f)
      [] media.modality = "video" -> VideoOK(items)
      [] media.modality = "presentation" -> PresentationVisualsOK(items)
      [] OTHER -> DocumentVisualsOK(items)

-----------------------------------------------------------------------------
(* _transcribe.                                                              *)

\* execute, _selected_source: one bounded regular file, chosen by a person.
Execute(usable) ==
    /\ stage = "idle" /\ job < MaxJobs
    /\ job' = job + 1
    /\ IF usable THEN stage' = "inspect" /\ UNCHANGED outcome ELSE Ends("failed")
    /\ UNCHANGED <<media, segments, sampled, visuals, scratch, threads, vision, left>>

Inspect(m) ==
    /\ stage = "inspect"
    /\ IF ValidatedMedia(m)
       THEN /\ media' = m /\ UNCHANGED outcome
            /\ stage' = IF m.modality = "audio" \/ m.audio THEN "speech" ELSE "visuals"
       ELSE Ends("failed") /\ UNCHANGED media
    /\ UNCHANGED <<segments, sampled, visuals, scratch, threads, vision, left, job>>

Hear(heard) ==
    /\ stage = "speech"
    /\ IF ValidatedSpeech(heard)
       THEN segments' = heard /\ stage' = "visuals" /\ UNCHANGED outcome
       ELSE Ends("failed") /\ UNCHANGED segments
    /\ UNCHANGED <<media, sampled, visuals, scratch, threads, vision, left, job>>

\* A recording has nothing to see.
NothingToSee ==
    /\ stage = "visuals" /\ media.modality = "audio"
    /\ stage' = "conclude"
    /\ UNCHANGED <<media, segments, sampled, visuals, outcome, scratch, threads, vision, left, job>>

\* What a cancelled await on the vision model leaves behind.
MaySee == threads' \in {threads, threads \cup {[job |-> job, does |-> "see"]}}

\* The presentation and document ports read their parts themselves, with the
\* same model.
ReadParts ==
    /\ stage = "visuals" /\ media.modality \in {"presentation", "document"}
    /\ visuals' \in UNION {[1..n -> Places] : n \in 0..MaxParts} /\ stage' = "conclude"
    /\ vision' \in {vision, "held"}
    /\ UNCHANGED <<media, segments, sampled, outcome, scratch, threads, left, job>>

\* sample: a raster image is its own frame.
SampleSource ==
    /\ stage = "visuals" /\ media.modality = "image"
    /\ sampled' = <<[job |-> job, frame |-> 0]>> /\ stage' = "frames"
    /\ UNCHANGED <<media, segments, visuals, outcome, scratch, threads, vision, left, job>>

\* sample: drawings and videos are sampled in a thread, into a folder of the job's own.
SamplerStarts ==
    /\ stage = "visuals" /\ media.modality \in {"image", "video"}
    /\ threads' = threads \cup {[job |-> job, does |-> "sample"]} /\ stage' = "sampling"
    /\ UNCHANGED <<media, segments, sampled, visuals, outcome, scratch, vision, left, job>>

Awaited(t) == stage = "sampling" /\ t.job = job

\* One more frame is written, whether or not the job still waits.
SamplerWrites(t, i) ==
    /\ t \in threads /\ t.does = "sample" /\ [job |-> t.job, frame |-> i] \notin scratch
    /\ i = 1 \/ [job |-> t.job, frame |-> i - 1] \in scratch
    /\ scratch' = scratch \cup {[job |-> t.job, frame |-> i]}
    /\ UNCHANGED <<stage, media, segments, sampled, visuals, outcome, threads, vision, left, job>>

\* The frames are returned: to the job, or to nobody.
SamplerReturns(t, n) ==
    /\ t \in threads /\ t.does = "sample" /\ n > 0
    /\ FilesOf(t.job) = {[job |-> t.job, frame |-> i] : i \in 1..n}
    /\ threads' = threads \ {t}
    /\ IF Awaited(t)
       THEN /\ sampled' = [i \in 1..n |-> [job |-> t.job, frame |-> i]]
            /\ stage' = "frames" /\ UNCHANGED left
       ELSE left' = Lost(t.job) /\ UNCHANGED <<sampled, stage>>
    /\ UNCHANGED <<media, segments, visuals, outcome, scratch, vision, job>>

\* The sampler fails, or sees the token cancelled, and removes its folder;
\* errors of the removal are ignored.
SamplerFails(t, how, works) ==
    /\ t \in threads /\ t.does = "sample"
    /\ threads' = threads \ {t}
    /\ IF works THEN scratch' = scratch \ FilesOf(t.job) /\ UNCHANGED left
       ELSE left' = Lost(t.job) /\ UNCHANGED scratch
    /\ IF Awaited(t) THEN Ends(how) ELSE UNCHANGED <<stage, outcome>>
    /\ UNCHANGED <<media, segments, sampled, visuals, vision, job>>

\* _transcribe_frames: one frame after another.
TranscribeFrame(place) ==
    /\ stage = "frames" /\ Len(visuals) < Len(sampled)
    /\ visuals' = Append(visuals, place) /\ vision' = "held"
    /\ stage' = IF Len(visuals') = Len(sampled) THEN "conclude" ELSE "frames"
    /\ UNCHANGED <<media, segments, sampled, outcome, scratch, threads, left, job>>

\* A vision thread nobody awaits ends; it may have loaded the model once more.
SeeingEnds(t) ==
    /\ t \in threads /\ t.does = "see"
    /\ threads' = threads \ {t}
    /\ \/ UNCHANGED <<vision, left>>
       \/ vision' = "held" /\ left' = left \cup {[job |-> t.job, of |-> "model"]}
    /\ UNCHANGED <<stage, media, segments, sampled, visuals, outcome, scratch, job>>

\* The parts are validated together, and media_result reads the source again.
Conclude(readable) ==
    /\ stage = "conclude"
    /\ Ends(IF ValidatedVisuals(visuals) /\ readable THEN "succeeded" ELSE "failed")
    /\ UNCHANGED <<media, segments, sampled, visuals, scratch, threads, vision, left, job>>

\* A port raises or answers what _validated_visual refuses, the token is seen
\* cancelled between two ports, or the task is cancelled at an await.
Interrupted(how) ==
    /\ stage \in {"inspect", "speech", "visuals", "frames", "conclude"}
    /\ Ends(how)
    /\ IF stage = "frames" \/ (stage = "visuals" /\ media.modality \in {"presentation", "document"})
       THEN vision' \in {vision, "held"} /\ (UNCHANGED threads \/ (how = "cancelled" /\ MaySee))
       ELSE UNCHANGED <<vision, threads>>
    /\ UNCHANGED <<media, segments, sampled, visuals, scratch, left, job>>

\* The task is cancelled while a thread samples: the thread goes on.
SamplingCancelled ==
    /\ stage = "sampling"
    /\ Ends("cancelled")
    /\ UNCHANGED <<media, segments, sampled, visuals, scratch, threads, vision, left, job>>

-----------------------------------------------------------------------------
(* The finally clause.                                                       *)

\* Mutant: only a job that succeeded cleans up.
DiscardableOnSuccess == outcome = "succeeded"

\* The finally clause runs however the job ends.
Discardable == TRUE

\* Mutant: the model is released where frames were sampled only.
ReleasableOfFrames == sampled # <<>>

\* Whatever was read.
Releasable == TRUE

ModelKept == IF vision = "held" THEN left \cup {[job |-> job, of |-> "model"]} ELSE left

Forgotten == media' = NoMedia /\ segments' = <<>> /\ sampled' = <<>> /\ visuals' = <<>> /\ outcome' = "none"

\* finally: discard the frames; that it raises is suppressed, and what rmtree
\* cannot remove it ignores.
Discard(works) ==
    /\ stage = "discarding"
    /\ stage' = "releasing"
    /\ scratch' = IF works /\ Discardable THEN scratch \ Range(sampled) ELSE scratch
    /\ left' = IF works THEN left ELSE Lost(job)
    /\ UNCHANGED <<media, segments, sampled, visuals, outcome, threads, vision, job>>

\* The task is cancelled while a thread discards: suppress(Exception) lets the
\* cancellation through, so the model is not released; the thread goes on.
DiscardCancelled ==
    /\ stage = "discarding" /\ Range(sampled) \cap scratch # {}
    /\ stage' = "idle" /\ Forgotten
    /\ threads' = threads \cup {[job |-> job, does |-> "discard"]}
    /\ left' = ModelKept
    /\ UNCHANGED <<scratch, vision, job>>

\* _remove_root, in that thread.
Removed(t, works) ==
    /\ t \in threads /\ t.does = "discard"
    /\ threads' = threads \ {t}
    /\ IF works THEN scratch' = scratch \ FilesOf(t.job) /\ UNCHANGED left
       ELSE left' = Lost(t.job) /\ UNCHANGED scratch
    /\ UNCHANGED <<stage, media, segments, sampled, visuals, outcome, vision, job>>

\* VisualTranscriber.release: suppressed likewise, and cut short by a
\* cancellation before the model's own release.
Release(works) ==
    /\ stage = "releasing"
    /\ stage' = "idle" /\ Forgotten
    /\ IF works
       THEN /\ vision' = IF Releasable THEN "idle" ELSE vision
            /\ left' = {l \in left : l.of = "frames"}
       ELSE left' = ModelKept /\ UNCHANGED vision
    /\ UNCHANGED <<scratch, threads, job>>

Next ==
    \/ \E usable \in BOOLEAN : Execute(usable) \/ Conclude(usable) \/ Discard(usable) \/ Release(usable)
    \/ \E m \in Medias : Inspect(m)
    \/ \E heard \in Speeches : Hear(heard)
    \/ NothingToSee \/ ReadParts \/ SampleSource \/ SamplerStarts \/ SamplingCancelled \/ DiscardCancelled
    \/ \E t \in threads :
          \/ \E i \in 1..MaxParts : SamplerWrites(t, i) \/ SamplerReturns(t, i)
          \/ \E works \in BOOLEAN :
                Removed(t, works) \/ \E how \in {"failed", "cancelled"} : SamplerFails(t, how, works)
          \/ SeeingEnds(t)
    \/ \E place \in Places : TranscribeFrame(place)
    \/ \E how \in {"failed", "cancelled"} : Interrupted(how)

Spec == Init /\ [][Next]_mediaVars

-----------------------------------------------------------------------------
\* The finally clause of _transcribe: between jobs no frame of a selected
\* recording is on the disk and the vision model is not loaded, whichever
\* step failed or was cancelled, but for what the code gives up: frames whose
\* removal failed, frames a sampler returned to a task that was cancelled, a
\* model whose release failed or was skipped as the task was cancelled in
\* the finally clause, or that a vision thread loaded after it; and files a thread is
\* still at work on.  A result that succeeded has every part of the media, in
\* its order, and speech that never overlaps.
NoFrameRemains ==
    /\ stage = "idle" =>
          /\ \A f \in scratch :
                \/ [job |-> f.job, of |-> "frames"] \in left
                \/ \E t \in threads : t.job = f.job /\ t.does \in {"sample", "discard"}
          /\ vision = "held" => \E l \in left : l.of = "model"
    /\ outcome = "succeeded" =>
          /\ media.slides > 0 => Len(visuals) = media.slides
          /\ media.pages > 0 => Len(visuals) = media.pages
          /\ sampled # <<>> => Len(visuals) = Len(sampled)
          /\ \A i, k \in DOMAIN segments : i < k => segments[i].to <= segments[k].from

=============================================================================
