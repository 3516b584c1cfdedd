----------------------------- MODULE MCModelParts -----------------------------
(***************************************************************************)
(* The parts that handle models, documents and data, each on a small        *)
(* instance: the model store of the executors (ModelStore), pinned sources  *)
(* and the models produced from them, promotion, training, and the event,   *)
(* library, document and media workloads.  They share nothing but the       *)
(* messages they take as inputs.  A behaviour is one component's from       *)
(* beginning to end, and `part` says whose.  The slots x1, x2, ... are the  *)
(* variables of the components that have none of their own.                 *)
(***************************************************************************)
EXTENDS ModelStore, ModelParts, TLC

CONSTANTS t1, t2, m1, m2

VARIABLES
    part,   \* the component this behaviour is of
    x1, x2, x3, x4, x5, x6, x7, x8, x9, x10

slots == <<x1, x2, x3, x4, x5, x6, x7, x8, x9, x10>>
promotionVars == <<recipe, onnx, report, trainer, build, promo, artifacts, binding, overlapped, reverted,
                   exports, commands>>
mediaVars == <<mediaStage, media, heard, sampled, visuals, mediaOutcome, scratch, mediaThreads, vision, uncleared,
               mediaJob>>
sourcingVars == <<producer, fetched, produced, production, cmd, claims, tampered, crowded, begun>>
libraryVars == <<tree, scan, index, embedder, indexing, walk, labelling, restarted, lastFound, faults,
                 happened>>
sumVars == <<part, slots, vars, promotionVars, mediaVars, sourcingVars, libraryVars>>

-----------------------------------------------------------------------------
(* Pinned sources and produced models. *)

Pinned(role, bytes) == [role |-> role, name |-> role, bytes |-> bytes, pinned |-> TRUE]
Recipe(kind, inputs, source, output) ==
    [kind |-> kind, license |-> "mit", sources |-> <<Pinned("model", <<1>>)>>, needs |-> {},
     inputs |-> inputs, source |-> source, output |-> output]
Sentence ==
    [Recipe("sentence", [i \in 1 .. 3 |-> <<1, 128>>], <<1, 128, 384>>, <<1, 384>>) EXCEPT
        !.sources = <<Pinned("model", <<1, 2>>), Pinned("tokenizer", <<1>>)>>, !.needs = {"tokenizer"}]
Measured ==
    [parity |-> 999, quality |-> 990, outside |-> 0, repeat |-> 20, candidate |-> 13, linear |-> 14, error |-> 1]
MCRecipes ==
    {Sentence, [Sentence EXCEPT !.sources[2].bytes = <<2>>], [Sentence EXCEPT !.output = <<1, 128>>],
     [Sentence EXCEPT !.sources[2].name = "model"], [Sentence EXCEPT !.needs = {"config"}],
     [Sentence EXCEPT !.sources[1].pinned = FALSE],
     Recipe("clip", <<<<1, 3, 224, 224>>>>, <<1, 512>>, <<1, 512>>),
     Recipe("clip", <<<<1, 3, 224, 224>>>>, <<1, 256>>, <<1, 256>>),
     Recipe("point", <<<<1, 512>>>>, <<1, 96, 1>>, <<1, 1>>),
     Recipe("quantile", <<<<1, 512>>>>, <<1, 9, 64>>, <<1, 1>>),
     Recipe("identity", <<<<1, 4>>>>, <<1, 2>>, <<1, 2>>),
     [Recipe("retinexformer", <<<<1, 3, 256, 256>>>>, <<1, 3, 256, 256>>, <<1, 3, 256, 256>>) EXCEPT
        !.sources = <<Pinned("model", <<1>>), Pinned("architecture", <<2>>), Pinned("config", <<1>>)>>]}
MCMeasurements == {Measured, [Measured EXCEPT !.parity = 998, !.candidate = 14]}

(* Promotion of trained models. *)

MCTargetOrder == <<"gpu", "npu", "tpu">>

(* The tabular trainers. *)

TrainingFamilies == {"storage", "hardware", "network", "build", "desktop"}
TrainingDevices == {"a", "b"}
TrainingMandatory == {"m"}
TrainingOptional == {"o"}
Training == INSTANCE TrainingData WITH
    Families <- TrainingFamilies, Devices <- TrainingDevices, Horizon <- 1, MaxDevices <- 2,
    MaxSamples <- 5, Window <- 2, MinClass <- 1, MinTraining <- 1, MinHoldout <- 2,
    Mandatory <- TrainingMandatory, Optional <- TrainingOptional, MaxTime <- 5, MaxRows <- 7,
    family <- x1, phase <- x2, now <- x3, seen <- x4, pending <- x5, history <- x6, examples <- x7,
    split <- x8, report <- x9, failures <- x10

(* Extracted events. *)

Talk ==
    [id |-> <<"a">>, label |-> "talk", date |-> 1, time |-> 2, endDate |-> 0, endTime |-> 0, allDay |-> FALSE,
     zone |-> "none", offset |-> FALSE, place |-> [kind |-> "unstated", venue |-> "none", url |-> FALSE],
     repeats |-> {}, spanStart |-> 0, spanEnd |-> 1, readAs |-> "ocr", confirmation |-> "pending", needs |-> {}]
EventsRawEvents ==
    {Talk,
     [Talk EXCEPT !.id = <<"a", 2>>, !.label = "trip", !.date = 0, !.time = 0],
     [Talk EXCEPT !.id = <<"b">>, !.place = [kind |-> "physical", venue |-> "hall", url |-> FALSE],
                  !.repeats = {"count"}, !.endTime = 3],
     [Talk EXCEPT !.id = <<"b">>, !.label = "fair", !.time = 0, !.allDay = TRUE, !.endDate = 2],
     [Talk EXCEPT !.label = "fair", !.zone = "UTC", !.readAs = "text"],
     [Talk EXCEPT !.endTime = 1],
     [Talk EXCEPT !.repeats = {"count", "until"}],
     [Talk EXCEPT !.confirmation = "confirmed"]}
EventsPaths == {"p1", "p2"}
EventsTaken == {"p2"}
Events == INSTANCE EventResults WITH
    RawEvents <- EventsRawEvents, PassCount <- 2, MaxEvents <- 2, MaxId <- 2, Paths <- EventsPaths,
    Taken <- EventsTaken, MaxExports <- 1,
    extraction <- x1, parsed <- x2, merged <- x3, document <- x4, calendar <- x5, exports <- x6

(* The library index. *)

MCWalk == <<"a", "b", "c">>
MCFirstContent == "a" :> 1 @@ "b" :> 3 @@ "c" :> 4
MCRejectionOf == <<"none", "none", "none", "too-large", "none">>
MCRefusalOf == <<"none", "none", "declared-type-mismatch", "none", "none">>
MCLabelsOf == <<{"x"}, {}, {}, {}, {"odd"}>>
MCScoreOf == <<1, 2, 0, 0, 0>>

\* What upsert does one by one, on short scans of three paths.
MergeOne(acc, e) ==
    IF Library!Stored(e, acc.entries) THEN acc
    ELSE [entries |-> Library!Put(acc.entries, {e}), changed |-> TRUE]
Merged(found, entries) ==
    FoldLeft(MergeOne, [entries |-> entries, changed |-> FALSE], [k \in DOMAIN found |-> Library!EntryOf(found[k])])
Found(path, content, age) == [path |-> path, content |-> content, age |-> age]
ShortScans ==
    {[k \in 1 .. n |-> Found(MCWalk[k], s[k], 1)] : n \in 0 .. 3, s \in [1 .. 3 -> 1 .. 2]}
SmallIndexes ==
    LET at(p, c) == Library!EntryOf(Found(p, c, 0))
    IN  {e1 \cup e2 : e1 \in {{}} \cup {{at(p, 1)} : p \in Range(MCWalk)},
                      e2 \in {{}, {[at("c", 2) EXCEPT !.labels = {"mine"}]}, {at("b", 2)}}}
ASSUME MergeIsOneByOne ==
    \A found \in ShortScans, entries \in SmallIndexes :
        LET written == Library!Written(found, entries)
        IN  Merged(found, entries) = [entries |-> Library!Put(entries, Library!Latest(found, written)),
                                      changed |-> written # {}]

(* Document extraction. *)

Page(n, valid, spoilt, scanned) ==
    [characters |-> n, valid |-> valid, spoilt |-> spoilt, scanned |-> scanned]
Pages == {Page(n, TRUE, 0, FALSE) : n \in {0, 1, 2, 5}} \cup {Page(1, TRUE, 1, TRUE), Page(2, FALSE, 0, FALSE)}
\* Three pages: without those that are empty or fill a pass by themselves.
ReadingDocuments ==
    UNION {[1 .. n -> Pages] : n \in 1 .. 2} \cup [1 .. 3 -> {p \in Pages : p.characters \in {1, 5} \/ ~p.valid}]
Reading == INSTANCE Extraction WITH
    Documents <- ReadingDocuments, MaxPages <- 2, MaxCharacters <- 2,
    document <- x1, reading <- x2, collector <- x3, from <- x4, merged <- x5, engine <- x6,
    answer <- x7

(* Media transcription. *)

Medium(modality, duration, dimensions, audio, slides, pages) ==
    [modality |-> modality, duration |-> duration, dimensions |-> dimensions, audio |-> audio,
     slides |-> slides, pages |-> pages]
Said(from, to) == [from |-> from, to |-> to]
MCMedias ==
    {Medium("audio", 2, 0, TRUE, 0, 0), Medium("audio", 2, 0, FALSE, 0, 0), Medium("image", 0, 1, FALSE, 0, 0),
     Medium("image", 0, 0, FALSE, 0, 0), Medium("video", 2, 1, TRUE, 0, 0), Medium("video", 0, 1, TRUE, 0, 0),
     Medium("presentation", 0, 0, FALSE, 2, 0), Medium("presentation", 0, 0, FALSE, 0, 0),
     Medium("document", 0, 0, FALSE, 0, 2), Medium("document", 0, 0, FALSE, 0, 0),
     Medium("document", 1, 0, FALSE, 0, 0), Medium("image", 0, 1, FALSE, 1, 0)}
MCSpeeches ==
    {<<>>, <<Said(0, 1), Said(1, 2)>>, <<Said(0, 2), Said(1, 2)>>, <<Said(1, 3)>>}
MCSpots ==
    {p \in [time : 0 .. 2, slide : 0 .. 2, page : 0 .. 2] :
       p.time + p.slide + p.page < 3 /\ 0 \in {p.time, p.slide}}

-----------------------------------------------------------------------------
\* Of the initial states of promotion and sourcing, those in which they are while another acts.
PromotionDormant == recipe = "numeric"
SourcingDormant == producer = "identity"

\* Each behaviour is one component's; the slots it does not use stay 0.

SumInit ==
    /\ Init /\ Promoting!Init /\ Media!Init /\ Sourcing!Init /\ Library!Init
    /\ \/ /\ part \in {"store", "promotion", "media", "sources", "library"}
          /\ x1 = 0 /\ x2 = 0 /\ x3 = 0 /\ x4 = 0 /\ x5 = 0 /\ x6 = 0 /\ x7 = 0 /\ x8 = 0
          /\ x9 = 0 /\ x10 = 0
       \/ part = "training" /\ Training!Init
       \/ /\ part = "events" /\ Events!Init
          /\ x7 = 0 /\ x8 = 0 /\ x9 = 0 /\ x10 = 0
       \/ /\ part = "extraction" /\ Reading!Init
          /\ x8 = 0 /\ x9 = 0 /\ x10 = 0
    /\ part # "promotion" => PromotionDormant
    /\ part # "sources" => SourcingDormant

SumNext ==
    \/ /\ part = "store"
       /\ UNCHANGED <<part, slots, promotionVars, mediaVars, sourcingVars, libraryVars>>
       /\ Next
    \/ /\ part = "sources"
       /\ UNCHANGED <<part, slots, vars, promotionVars, mediaVars, libraryVars>>
       /\ Sourcing!Next
    \/ /\ part = "promotion"
       /\ UNCHANGED <<part, slots, vars, mediaVars, sourcingVars, libraryVars>>
       /\ Promoting!Next
    \/ /\ part = "training"
       /\ UNCHANGED <<part, vars, promotionVars, mediaVars, sourcingVars, libraryVars>>
       /\ Training!Next
    \/ /\ part = "events"
       /\ UNCHANGED <<part, vars, promotionVars, mediaVars, sourcingVars, libraryVars, x7, x8, x9, x10>>
       /\ Events!Next
    \/ /\ part = "library"
       /\ UNCHANGED <<part, slots, vars, promotionVars, mediaVars, sourcingVars>>
       /\ Library!Next
    \/ /\ part = "extraction"
       /\ UNCHANGED <<part, vars, promotionVars, mediaVars, sourcingVars, libraryVars, x8, x9, x10>>
       /\ Reading!Next
    \/ /\ part = "media"
       /\ UNCHANGED <<part, slots, vars, promotionVars, sourcingVars, libraryVars>>
       /\ Media!Next
    \* only the bounds stop the others: that is no deadlock
    \/ part # "store" /\ UNCHANGED sumVars

-----------------------------------------------------------------------------

\* Labels follow from what was observed, and the holdout is unseen. (TrainingData)
TrainingSound == part = "training" => Training!TrainingSound

\* Merging keeps the first of each duplicate, and an export is what was decided. (EventResults)
EventsSound == part = "events" => Events!EventsSound

\* The passes over a long document join without gap or overlap. (Extraction)
PassesJoin == part = "extraction" => Reading!PassesJoin

=============================================================================
