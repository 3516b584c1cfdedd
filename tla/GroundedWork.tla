---------------------------- MODULE GroundedWork ----------------------------
(***************************************************************************)
(* The generative workloads of one plugin worker: questions and operations *)
(* over selected files (document_qa.py, file_operations.py), the file      *)
(* organizer, selected text and event extraction.  They share one shape:   *)
(* read the selected sources, publish private fragments (fragments.py),    *)
(* generate in passes that fit the model's context (document_spans.py,     *)
(* event_passes.py, spans.py), through a router over the accelerators      *)
(* (generation.py, generation_workers.py), refuse an answer that is not    *)
(* grounded in what the model was given, and discard the fragments.        *)
(*                                                                         *)
(* A worker runs one job at a time.  A document is a sequence of words,    *)
(* each with a size in characters and the gap after it; a span is a range  *)
(* of characters of one document.  What the model answers is arbitrary.    *)
(***************************************************************************)
EXTENDS Integers, Sequences, SequencesExt, FiniteSets, FiniteSetsExt, Folds

CONSTANTS
    Tasks,          \* job ids
    Kinds,          \* "ask", "transform", "translate", "organize", "selection", "events"
    Documents,      \* sequence of documents: words [size, gap]
    MaxSpan,        \* MAX_SPAN_CHARACTERS
    PassBudget,     \* the characters of source text one pass may hold
    MaxReferences,  \* MAX_CONTENT_REFERENCES
    SplitLimit,     \* the characters of a translated span
    Preference,     \* accelerators in the order the router tries them
    MaxMishaps      \* bound: faults, cancellations, deaths

VARIABLES
    who,        \* the job being executed, or nobody
    errand,     \* where it is
    kind,       \* the operation it asks for
    readUpTo,   \* sources read
    spans,      \* spans extracted from them
    passes,     \* the planned passes
    pass,       \* the pass being generated
    lane,       \* index in Preference of the provider being tried
    voice,      \* accelerators on which this pass began to generate
    cites,      \* spans the accepted answers cite
    ended,      \* outcome of each job
    store,      \* MemoryFragmentStore._requests: references by job
    marks,      \* the event recovery journal on disk
    interrupted,\* what the last start recovered from it
    loaded,     \* _GenerationWorker._load_report is set
    intact,     \* the model files are the pinned ones
    stopAsked,  \* the job's cancellation token
    mishaps

perJob == <<who, errand, kind, readUpTo, spans, passes, pass, lane, voice, cites, stopAsked>>
persistent == <<ended, store, marks, interrupted>>
providers == <<loaded, intact>>
groundedVars == <<perJob, persistent, providers, mishaps>>

None == "none"
Accelerators == Range(Preference)
Files == 1..Len(Documents)
Sum(sizes) == FoldLeft(LAMBDA a, b : a + b, 0, sizes)
SpanSize(s) == s.to - s.from
Control == [doc |-> 0, from |-> 0, to |-> 0]    \* a control, question or metadata fragment
Selection == [doc |-> 0, from |-> 0, to |-> 1]  \* the text selected on screen

Init ==
    /\ who = None /\ errand = "idle" /\ kind = None
    /\ readUpTo = 0 /\ spans = <<>> /\ passes = <<>> /\ pass = 0 /\ lane = 1
    /\ voice = {} /\ cites = {} /\ stopAsked = FALSE
    /\ ended = [j \in Tasks |-> None]
    /\ store = [j \in Tasks |-> {}]
    /\ marks = {} /\ interrupted = {}
    /\ loaded = [a \in Accelerators |-> FALSE]
    /\ intact = [a \in Accelerators |-> TRUE]
    /\ mishaps = 0

Mishap == mishaps < MaxMishaps /\ mishaps' = mishaps + 1

-----------------------------------------------------------------------------
(* Cutting text into spans and spans into passes.                            *)

TextLength(d) == Sum([i \in DOMAIN Documents[d] |-> Documents[d][i].size])

\* page_spans: ranges of at most MaxSpan characters.
PageSpans(d) ==
    [i \in 1..((TextLength(d) + MaxSpan - 1) \div MaxSpan) |->
        [doc |-> d, from |-> (i - 1) * MaxSpan, to |-> Min({i * MaxSpan, TextLength(d)})]]

\* A pass is closed by the first span that would overflow it.
Full(pass_, s, references) ==
    /\ pass_ # <<>>
    /\ \/ Sum([i \in DOMAIN pass_ |-> SpanSize(pass_[i])]) + SpanSize(s) > PassBudget
       \/ Len(pass_) >= references

\* Mutant: the span that closes a pass is not carried into the next one.
AnswerPassesDropping(ss) ==
    FoldLeft(LAMBDA acc, s : IF Full(acc[Len(acc)], s, MaxReferences - 1)
                             THEN Append(acc, <<>>)
                             ELSE [acc EXCEPT ![Len(acc)] = Append(@, s)],
             << <<>> >>, ss)

\* answer_passes: one reference of each pass is the question or the control.
AnswerPasses(ss) ==
    FoldLeft(LAMBDA acc, s : IF Full(acc[Len(acc)], s, MaxReferences - 1)
                             THEN Append(acc, <<s>>)
                             ELSE [acc EXCEPT ![Len(acc)] = Append(@, s)],
             << <<>> >>, ss)

\* plan_passes: the same, with nothing reserved.
PlanPasses(ss) ==
    FoldLeft(LAMBDA acc, s : IF Full(acc[Len(acc)], s, MaxReferences)
                             THEN Append(acc, <<s>>)
                             ELSE [acc EXCEPT ![Len(acc)] = Append(@, s)],
             << <<>> >>, ss)

\* retrieve_spans: every span, the nearest to the question first; which file
\* the question is about is the embedding's answer.
RetrieveSpans(ss, near) ==
    SelectSeq(ss, LAMBDA s : s.doc = near) \o SelectSeq(ss, LAMBDA s : s.doc # near)

\* _parts: the sizes of the pieces a boundary pattern cuts a document into.
Parts(d, gaps) ==
    FoldLeft(LAMBDA acc, w :
                [sizes |-> IF acc.open THEN [acc.sizes EXCEPT ![Len(acc.sizes)] = @ + w.size]
                           ELSE Append(acc.sizes, w.size),
                 open |-> w.gap \notin gaps],
             [sizes |-> <<>>, open |-> FALSE], Documents[d]).sizes

\* _gather: adjacent parts joined while they fit.
Gather(parts) ==
    FoldLeft(LAMBDA acc, n : IF acc # <<>> /\ acc[Len(acc)] + n <= SplitLimit
                             THEN [acc EXCEPT ![Len(acc)] = @ + n]
                             ELSE Append(acc, n),
             <<>>, parts)

\* _split_to_limit: paragraphs, sentences, words, or the whole text.
Patterns == << {"paragraph"}, {"paragraph", "sentence"}, {"paragraph", "sentence", "word"} >>
Fits(parts) == Len(parts) > 1 /\ \A i \in DOMAIN Gather(parts) : Gather(parts)[i] <= SplitLimit
SplitSizes(d) ==
    LET usable == {p \in 1..3 : Fits(Parts(d, Patterns[p]))}
    IN  IF TextLength(d) <= SplitLimit \/ usable = {} THEN <<TextLength(d)>>
        ELSE Gather(Parts(d, Patterns[Min(usable)]))

\* split: the pieces found again in the text, one after the other.
Split(d) ==
    LET sizes == SplitSizes(d)
        start(i) == Sum(SubSeq(sizes, 1, i - 1))
    IN  [i \in DOMAIN sizes |-> [doc |-> d, from |-> start(i), to |-> start(i) + sizes[i]]]

\* What each operation generates from: one call per element.
Translated(ss) == [i \in DOMAIN ss |-> <<ss[i]>>]
Planned(ss) ==
    CASE kind \in {"ask", "transform"} -> AnswerPasses(ss)
      [] kind = "events" -> PlanPasses(ss)
      [] kind = "translate" -> Translated(ss)
      [] kind \in {"organize", "selection"} -> <<ss>>

-----------------------------------------------------------------------------
(* workload_result: a job begins and ends.                                   *)

\* Mutant: only a job that succeeded discards its fragments.
DiscardedOnSuccess(j, outcome) == IF outcome = "succeeded" THEN {} ELSE store[j]

\* The finally of workload_result.
Discarded(j, outcome) == {}

\* Whatever the body raised, the private fragments go and the result is final.
Ends(outcome) ==
    /\ ended' = [ended EXCEPT ![who] = outcome]
    /\ store' = [store EXCEPT ![who] = Discarded(who, outcome)]
    /\ marks' = marks \ {who}
    /\ who' = None /\ errand' = "idle" /\ kind' = None
    /\ readUpTo' = 0 /\ spans' = <<>> /\ passes' = <<>> /\ pass' = 0 /\ lane' = 1
    /\ voice' = {} /\ stopAsked' = FALSE
    /\ cites' = IF outcome = "succeeded" THEN cites ELSE {}
    /\ UNCHANGED interrupted

\* What a request says: the operation, whether it was asked by hand with the
\* permission granted, and which of its parameters it carries.
Requests == [op : {"ask", "translate", "transform"}, granted : BOOLEAN,
             question : BOOLEAN, language : BOOLEAN]

\* _validated_parameters of document_qa: a question only when asking, a
\* language only when translating.
FileParameters(r) ==
    /\ r.question <=> r.op = "ask"
    /\ r.language <=> r.op = "translate"

\* _validated_parameters of selected_text: the same rule for its own operations.
SelectionParameters(r) ==
    CASE r.op = "ask" -> ~r.language /\ r.question
      [] r.op = "translate" -> r.language /\ ~r.question
      [] OTHER -> ~r.question /\ ~r.language

\* DocumentQuestionPlugin._validate_request.
FileRequestValid(r, k) == r.granted /\ r.op = k /\ FileParameters(r)

\* SelectedTextPlugin._validate_request.
SelectionRequestValid(r) == r.granted /\ SelectionParameters(r)

\* The organizer and the event extraction take sources and nothing else.
RequestValid(r, k) ==
    CASE k = "selection" -> SelectionRequestValid(r)
      [] k \in {"organize", "events"} -> r.granted
      [] OTHER -> FileRequestValid(r, k)

\* _validate_request, or select_sources, refuses the payload.
Refused(j) ==
    /\ who = None /\ ended[j] = None
    /\ \E k \in Kinds, r \in Requests : ~RequestValid(r, k)
    /\ ended' = [ended EXCEPT ![j] = "failed"]
    /\ UNCHANGED <<perJob, store, marks, interrupted, providers, mishaps>>

\* The control fragment is published first, except where the question is
\* published after retrieval and the files before the only pass.
OperationControl == {Control}

\* EventRecoveryJournal.stage.
Staged(j, k) == IF k = "events" THEN marks \cup {j} ELSE marks

Begin(j, k) ==
    /\ who = None /\ ended[j] = None
    /\ \E r \in Requests : RequestValid(r, k)
    /\ who' = j /\ kind' = k
    /\ errand' = IF k = "selection" THEN "planning" ELSE "reading"
    /\ spans' = IF k = "selection" THEN <<Selection>> ELSE <<>>
    /\ store' = [store EXCEPT ![j] = IF k \in {"transform", "translate", "selection"}
                                     THEN OperationControl ELSE {}]
    /\ marks' = Staged(j, k)
    /\ cites' = {}
    /\ UNCHANGED <<readUpTo, passes, pass, lane, voice, stopAsked, ended, interrupted,
                   providers, mishaps>>

\* raise_if_cancelled before the next source, pass or provider.
GivenUp ==
    /\ who # None /\ stopAsked /\ errand \in {"reading", "planning", "routing"}
    /\ Ends("cancelled")
    /\ UNCHANGED <<providers, mishaps>>

-----------------------------------------------------------------------------
(* SelectedDocumentReader.read, one source after the other.                  *)

Reading == who # None /\ errand = "reading" /\ readUpTo < Len(Documents) /\ ~stopAsked

\* A source that holds no text at all is refused by the organizer, by a
\* translation and by the fragment store; elsewhere it adds no span.
EmptyRefused == kind \in {"organize", "translate", "events"}

\* _extract_spans, _extract_sources and translate_document: what one source adds.
Found(d, empty) ==
    IF empty THEN <<>> ELSE IF kind = "translate" THEN Split(d) ELSE PageSpans(d)

\* Event sources are published as they are read.
Published(found) == IF kind = "events" THEN store[who] \cup Range(found) ELSE store[who]

ReadSource(empty) ==
    /\ Reading
    /\ IF empty THEN Mishap ELSE UNCHANGED mishaps
    /\ IF empty /\ EmptyRefused
       THEN Ends("failed")
       ELSE LET d == readUpTo + 1
                found == Found(d, empty)
            IN  /\ readUpTo' = d
                /\ spans' = spans \o found
                /\ store' = [store EXCEPT ![who] = Published(found)]
                /\ UNCHANGED <<who, errand, kind, passes, pass, lane, voice, cites, stopAsked,
                               ended, marks, interrupted>>
    /\ UNCHANGED providers

\* A source that was truncated, changed while it was read, or cannot be read.
ReadFails ==
    /\ Reading /\ Mishap
    /\ Ends("failed")
    /\ UNCHANGED providers

ReadAll ==
    /\ who # None /\ errand = "reading" /\ readUpTo = Len(Documents) /\ ~stopAsked
    /\ errand' = "planning"
    /\ UNCHANGED <<who, kind, readUpTo, spans, passes, pass, lane, voice, cites, stopAsked,
                   persistent, providers, mishaps>>

\* generation_request: a pass holds a bounded number of references.
TooManyReferences == kind = "organize" /\ Len(Documents) + Len(spans) > MaxReferences

\* What the first pass needs is published before it.
FirstFragments(planned) ==
    CASE kind = "ask" -> store[who] \cup {Control} \cup Range(planned[1])
      [] kind = "organize" -> store[who] \cup {Control} \cup Range(planned[1])
      [] OTHER -> store[who] \cup Range(planned[1])

\* Passes are planned over the spans, a question's in the order retrieval gives.
Plan(near) ==
    /\ who # None /\ errand = "planning" /\ ~stopAsked
    /\ kind # "ask" => near = 1
    /\ IF spans = <<>> \/ TooManyReferences
       THEN Ends("failed")
       ELSE LET ordered == IF kind = "ask" THEN RetrieveSpans(spans, near) ELSE spans
                planned == Planned(ordered)
            IN  /\ spans' = ordered
                /\ passes' = planned
                /\ pass' = 1 /\ lane' = 1 /\ voice' = {}
                /\ errand' = "routing"
                /\ store' = [store EXCEPT ![who] = FirstFragments(planned)]
                /\ UNCHANGED <<who, kind, readUpTo, cites, stopAsked, ended, marks, interrupted>>
    /\ UNCHANGED <<providers, mishaps>>

-----------------------------------------------------------------------------
(* GenerationRouter.run.                                                     *)

Trying == Preference[lane]
Routing == who # None /\ errand = "routing" /\ ~stopAsked

\* _verify_artifacts and the load: only a provider without a load report.
Load ==
    /\ Routing /\ ~loaded[Trying] /\ intact[Trying]
    /\ loaded' = [loaded EXCEPT ![Trying] = TRUE]
    /\ UNCHANGED <<perJob, persistent, intact, mishaps>>

PreGenerationFailures == {"admission-refused", "model-load-failed", "model-load-unverified"}

\* Mutant: a failure is answered by the next provider whenever it happens.
MayFallBackAlways(started, code) == Trying = "npu" /\ lane < Len(Preference)

\* The NPU's failure before it generated anything is answered by the next one,
\* for the three codes that say nothing ran.
MayFallBack(started, code) ==
    Trying = "npu" /\ ~started /\ code \in PreGenerationFailures /\ lane < Len(Preference)

FallsBackOrFails(started, code) ==
    IF MayFallBack(started, code)
    THEN /\ lane' = lane + 1
         /\ errand' = "routing"
         /\ UNCHANGED <<who, kind, readUpTo, spans, passes, pass, voice, cites, stopAsked,
                        persistent>>
    ELSE Ends("failed")

\* model-load-failed: the artifact changed, or the runtime could not load it.
LoadFails ==
    /\ Routing /\ ~loaded[Trying]
    /\ IF intact[Trying] THEN Mishap ELSE UNCHANGED mishaps
    /\ FallsBackOrFails(FALSE, "model-load-failed")
    /\ UNCHANGED providers

\* The runtime refuses before the first token, with a code the next provider is
\* tried for or with another.
RefusesEarly ==
    /\ Routing /\ loaded[Trying] /\ Mishap
    /\ \E code \in {"admission-refused", "generation-failed"} : FallsBackOrFails(FALSE, code)
    /\ UNCHANGED providers

Generate ==
    /\ Routing /\ loaded[Trying]
    /\ errand' = "generating"
    /\ voice' = voice \cup {Trying}
    /\ UNCHANGED <<who, kind, readUpTo, spans, passes, pass, lane, cites, stopAsked,
                   persistent, providers, mishaps>>

\* A failure after generation began: the runtime is terminated.
GenerationFails ==
    /\ errand = "generating" /\ Mishap
    /\ loaded' = [loaded EXCEPT ![Trying] = FALSE]
    /\ FallsBackOrFails(TRUE, "generation-failed")
    /\ UNCHANGED intact

\* Cancelled while the provider loads or generates: the router terminates it.
GenerationCancelled ==
    /\ who # None /\ errand \in {"routing", "generating"} /\ stopAsked
    /\ loaded' = [loaded EXCEPT ![Trying] = FALSE]
    /\ Ends("cancelled")
    /\ UNCHANGED <<intact, mishaps>>

-----------------------------------------------------------------------------
(* The answer.  A citation names a span and repeats its digests: it agrees   *)
(* with its source, or it does not.                                          *)

Batch == Range(passes[pass])
Citable == Range(spans) \cup {Control}
Answer == [valid : BOOLEAN, cites : SUBSET Citable]

\* validate_structured_output and checked_answer: strict JSON of the task's
\* schema that names this request and repeats the digests it cites.
Structured(a) == a.valid

\* grounded_answer_document: every citation is a span of this pass.
AskAccepted(a) == a.cites \subseteq Batch

\* grounded_operation_answer: it cites its one content fragment.
OperationAccepted(a) == a.cites = Batch

\* review_only_plan and _public_evidence: one suggestion for each selected
\* file, each citing spans of that file only.
PlanAccepted(a) == a.cites \subseteq Batch /\ \A d \in Files : \E c \in a.cites : c.doc = d

\* grounded_selected_text_result: it cites the whole selection.
SelectionAccepted(a) == a.cites = Batch

\* validate_event_grounding looks evidence up among all fragments of the job.
EventsAccepted(a) == a.cites \subseteq store[who]

Accepted(a) ==
    /\ Structured(a)
    /\ CASE kind = "ask" -> AskAccepted(a)
         [] kind \in {"transform", "translate"} -> OperationAccepted(a)
         [] kind = "organize" -> PlanAccepted(a)
         [] kind = "selection" -> SelectionAccepted(a)
         [] kind = "events" -> EventsAccepted(a)

\* The next pass publishes its own spans, or the result is complete.
PassDone(cs) ==
    IF pass = Len(passes)
    THEN /\ errand' = "complete" /\ cites' = cites \cup cs
         /\ UNCHANGED <<pass, lane, voice, store>>
    ELSE /\ errand' = "routing" /\ pass' = pass + 1 /\ lane' = 1 /\ voice' = {}
         /\ cites' = cites \cup cs
         /\ store' = [store EXCEPT ![who] = @ \cup Range(passes[pass + 1])]

Answers ==
    /\ errand = "generating"
    /\ \E a \in Answer :
        IF Accepted(a)
        THEN /\ PassDone(a.cites)
             /\ UNCHANGED <<who, kind, readUpTo, spans, passes, stopAsked, ended, marks,
                            interrupted, mishaps>>
        ELSE Ends("failed") /\ UNCHANGED mishaps
    /\ UNCHANGED providers

Complete ==
    /\ errand = "complete"
    /\ Ends("succeeded")
    /\ UNCHANGED <<providers, mishaps>>

-----------------------------------------------------------------------------
(* The service cancels, files change, the worker dies.                       *)

StopAsked ==
    /\ who # None /\ ~stopAsked /\ Mishap
    /\ stopAsked' = TRUE
    /\ UNCHANGED <<who, errand, kind, readUpTo, spans, passes, pass, lane, voice, cites,
                   persistent, providers>>

ModelChanges(a) ==
    /\ Mishap /\ intact[a]
    /\ intact' = [intact EXCEPT ![a] = FALSE]
    /\ UNCHANGED <<perJob, persistent, loaded>>

\* EventRecoveryJournal.recover: what the previous process left running.
Recovered == marks

\* The worker dies and another starts.
WorkerRestarts ==
    /\ who # None /\ Mishap
    /\ ended' = [ended EXCEPT ![who] = "lost"]
    /\ store' = [j \in Tasks |-> {}]
    /\ interrupted' = Recovered /\ marks' = {}
    /\ loaded' = [a \in Accelerators |-> FALSE]
    /\ who' = None /\ errand' = "idle" /\ kind' = None
    /\ readUpTo' = 0 /\ spans' = <<>> /\ passes' = <<>> /\ pass' = 0 /\ lane' = 1
    /\ voice' = {} /\ cites' = {} /\ stopAsked' = FALSE
    /\ UNCHANGED intact

Next ==
    \/ \E j \in Tasks : Refused(j) \/ \E k \in Kinds : Begin(j, k)
    \/ \E empty \in BOOLEAN : ReadSource(empty)
    \/ GivenUp \/ ReadFails \/ ReadAll
    \/ \E near \in Files : Plan(near)
    \/ Load \/ LoadFails \/ RefusesEarly \/ Generate \/ GenerationFails \/ GenerationCancelled
    \/ Answers \/ Complete \/ StopAsked
    \/ \E a \in Accelerators : ModelChanges(a)
    \/ WorkerRestarts

-----------------------------------------------------------------------------
\* Nothing private outlives its job (workload_result's finally, fragments.py):
\* whatever ended it, a refusal, a failure of any stage, a cancellation or the
\* worker's death, no fragment of it is left in the store and no entry of it in
\* the recovery journal; a worker that was lost while it extracted events is
\* reported by the next start.
NothingPrivateRemains ==
    \A j \in Tasks : j # who => store[j] = {} /\ j \notin marks

\* The passes lose nothing and repeat nothing (answer_passes, plan_passes,
\* spans.split): together they are the extracted text in order, each within
\* the budget it was planned for unless it is one piece that cannot be cut.
PassesCover ==
    passes # <<>> =>
        /\ FlattenSeq(passes) = spans
        /\ kind \in {"ask", "transform", "events"} =>
              \A p \in DOMAIN passes :
                  /\ passes[p] # <<>>
                  /\ Len(passes[p]) <= IF kind = "events" THEN MaxReferences ELSE MaxReferences - 1
                  /\ \/ Len(passes[p]) = 1
                     \/ Sum([i \in DOMAIN passes[p] |-> SpanSize(passes[p][i])]) <= PassBudget
        /\ kind = "translate" =>
              \A d \in Files :
                  LET own == SelectSeq(spans, LAMBDA s : s.doc = d)
                  IN  /\ own[1].from = 0 /\ own[Len(own)].to = TextLength(d)
                      /\ \A i \in 1..(Len(own) - 1) : own[i].to = own[i + 1].from
                      /\ \/ \A i \in DOMAIN own : SpanSize(own[i]) <= SplitLimit
                         \/ \E w \in Range(Documents[d]) : w.size > SplitLimit

\* An answer is grounded, and by one provider (grounded_answer_document,
\* GenerationRouter.run): every span a result cites was given to the model by a
\* pass that is done (event evidence may name any fragment of the job), and once
\* a provider began to generate a pass no other is asked to generate it again.
GroundedByOne ==
    LET done == IF errand = "complete" THEN pass ELSE pass - 1
    IN  /\ who # None /\ passes # <<>> =>
              cites \subseteq IF kind = "events" THEN store[who]
                             ELSE UNION {Range(passes[p]) : p \in 1..done}
        /\ Cardinality(voice) <= 1
        /\ errand = "generating" => loaded[Trying] /\ voice = {Trying}

\* A grounded answer is complete and private: every fragment is in a pass, one engine produced the
\* whole answer, and no fragment or model of the task outlives it (the document, event and
\* selection workloads).
GroundingSound == NothingPrivateRemains /\ PassesCover /\ GroundedByOne

=============================================================================
