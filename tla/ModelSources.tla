---------------------------- MODULE ModelSources ----------------------------
(***************************************************************************)
(* Pinned sources of portable models and the models produced from them     *)
(* (training/recipe_*.py, training/production_pipeline.py and the          *)
(* embedding, CLIP, Retinexformer and forecast producers).                 *)
(*                                                                         *)
(* One recipe id and version: one folder of sources, one model and one     *)
(* report.  Commands fetch into a private stage and publish it by a rename,*)
(* or open the published folder and export, gate and report a model.       *)
(* Nothing locks any of it, people may hold different recipes for the same *)
(* version, servers answer what they like and a command may be killed      *)
(* between two steps.  A file is the sequence of its chunks, a digest is   *)
(* the file itself.                                                        *)
(***************************************************************************)
EXTENDS Integers, Sequences, FiniteSets, SequencesExt

CONSTANTS
    Commands,       \* commands running at once
    Recipes,        \* the recipe documents people hold
    Licenses,       \* the identifiers passed to --accept-license
    Chunks,         \* what a server may send
    MaxTotal,       \* MAX_TOTAL_SOURCE_BYTES, in chunks
    Measurements,   \* what a gate may measure
    MaxBegun        \* bound on the commands begun

\* A recipe document names one of the producers, and pins its sources in order.
Producers == {"identity", "sentence", "clip", "retinexformer", "point", "quantile"}
SourceRecords == [role : STRING, name : STRING, bytes : Seq(Chunks), pinned : BOOLEAN]
RecipesAssumption ==
    \A r \in Recipes : r.kind \in Producers /\ r.sources \in Seq(SourceRecords) /\ r.source \in Seq(Nat)

VARIABLES
    kind,       \* the producer kind of the id
    dest,       \* <source root>/<id>/<version>: the receipt and the files
    model,      \* <id>.onnx
    report,     \* <id>-production-report.json
    cmd,        \* per command: its step, its recipe, what it has staged
    claims,     \* the recipes some command was told are installed
    tampered,   \* somebody edited a published file
    overlapped, \* two producers wrote the outputs at the same time
    begun

sourceVars == <<kind, dest, model, report, cmd, claims, tampered, overlapped, begun>>
outputs == <<model, report>>
ghosts == <<tampered, overlapped, begun>>

Kinds == {r.kind : r \in Recipes}
Absent == [there |-> FALSE]
Idle == [at |-> "idle"]
Roles(r) == {r.sources[i].role : i \in DOMAIN r.sources}
PinnedFiles(r) == [i \in DOMAIN r.sources |-> r.sources[i].bytes]

Init ==
    /\ kind \in Kinds
    /\ dest = Absent /\ model = Absent /\ report = Absent
    /\ cmd = [c \in Commands |-> Idle]
    /\ claims = {}
    /\ tampered = FALSE /\ overlapped = FALSE /\ begun = 0

----------------------------------------------------------------------------
(* Which recipes load *)

\* validate_source_inventory
InventoryOK(r) ==
    /\ Cardinality({i \in DOMAIN r.sources : r.sources[i].role = "model"}) = 1
    /\ \A i, j \in DOMAIN r.sources :
         i # j => r.sources[i].role # r.sources[j].role /\ r.sources[i].name # r.sources[j].name
    /\ FoldSeq(LAMBDA s, n : n + Len(s.bytes), 0, r.sources) <= MaxTotal

\* The uri policy: https without credentials, the revision a segment of the path
RevisionPinned(r) == \A i \in DOMAIN r.sources : r.sources[i].pinned

PreprocessingSourced(r) == r.needs \subseteq Roles(r)

\* The sources and shapes each producer kind demands.  Formats, tensor names, dtypes and the named
\* postprocessing are left out: an export depends on them only through the shape it gives.
IdentityProducer(r) == r.source = r.output
\* Mutant: the pooled width is not compared
SentenceProducerLoose(r) ==
    /\ Len(r.inputs) = 3 /\ \A i \in 1 .. 3 : r.inputs[i] = r.inputs[1]
    /\ Len(r.source) = 3 /\ SubSeq(r.source, 1, 2) = r.inputs[1]
SentenceProducer(r) ==
    /\ Len(r.inputs) = 3 /\ \A i \in 1 .. 3 : r.inputs[i] = r.inputs[1]
    /\ Len(r.source) = 3 /\ SubSeq(r.source, 1, 2) = r.inputs[1]
    /\ r.output = <<r.inputs[1][1], r.source[3]>>
ClipProducer(r) == r.inputs = <<<<1, 3, 224, 224>>>> /\ r.source = r.output
RetinexformerProducer(r) ==
    /\ {"architecture", "config"} \subseteq Roles(r)
    /\ r.inputs = <<<<1, 3, 256, 256>>>>
    /\ r.source = <<1, 3, 256, 256>> /\ r.output = r.source
TimeseriesProducer(r) ==
    /\ r.inputs = <<<<1, 512>>>> /\ r.output = <<1, 1>>
    /\ r.source = IF r.kind = "point" THEN <<1, 96, 1>> ELSE <<1, 9, 64>>

ProducerOK(r) ==
    /\ r.output[1] = 1
    /\ CASE r.kind = "identity" -> IdentityProducer(r)
         [] r.kind = "sentence" -> SentenceProducer(r)
         [] r.kind = "clip" -> ClipProducer(r)
         [] r.kind = "retinexformer" -> RetinexformerProducer(r)
         [] r.kind \in {"point", "quantile"} -> TimeseriesProducer(r)

\* load_model_recipe and validate_recipe_semantics
LoadsRecipe(r) == InventoryOK(r) /\ RevisionPinned(r) /\ PreprocessingSourced(r) /\ ProducerOK(r)

----------------------------------------------------------------------------
(* Fetching *)

Step(c, fields) == cmd' = [cmd EXCEPT ![c] = fields]
\* The command ends; a `finally` removes the stage it had
Ends(c) == Step(c, Idle)

\* installed_source_matches: the receipt is this recipe's and every file has its digest
InstalledMatches(r) == dest # Absent /\ dest.receipt = r /\ dest.files = PinnedFiles(r)

\* A FetchedModelSource is returned
Returns(r) == claims' = claims \cup {r}

\* fetch_model_sources reads the recipe and the licence the person accepts
FetchBegins(c, r, accepted) ==
    /\ cmd[c] = Idle /\ begun < MaxBegun /\ r.kind = kind
    /\ begun' = begun + 1
    /\ IF LoadsRecipe(r) /\ accepted = r.license
       THEN Step(c, [at |-> "look", recipe |-> r])
       ELSE UNCHANGED cmd
    /\ UNCHANGED <<kind, dest, outputs, claims, tampered, overlapped>>

\* A version that is there is returned if it matches and refused otherwise; else a stage is made
FetchLooks(c) ==
    /\ cmd[c].at = "look"
    /\ IF dest = Absent
       THEN /\ Step(c, [at |-> "fetch", recipe |-> cmd[c].recipe, stage |-> <<>>, got |-> <<>>])
            /\ UNCHANGED claims
       ELSE /\ Ends(c)
            /\ IF InstalledMatches(cmd[c].recipe) THEN Returns(cmd[c].recipe) ELSE UNCHANGED claims
    /\ UNCHANGED <<kind, dest, outputs, ghosts>>

Source(c) == cmd[c].recipe.sources[Len(cmd[c].stage) + 1]
Fetching(c) == cmd[c].at = "fetch" /\ Len(cmd[c].stage) < Len(cmd[c].recipe.sources)

\* One chunk of HttpsSourceTransport.chunks, written unless the source is longer than declared
Chunk(c, chunk) ==
    /\ Fetching(c)
    /\ IF Len(cmd[c].got) < Len(Source(c).bytes)
       THEN Step(c, [cmd[c] EXCEPT !.got = Append(@, chunk)])
       ELSE Ends(c)
    /\ UNCHANGED <<kind, dest, outputs, claims, ghosts>>

\* Mutant: the digest is not compared
SourceAcceptedBySize(got, source) == Len(got) = Len(source.bytes)

SourceAccepted(got, source) == Len(got) = Len(source.bytes) /\ got = source.bytes

\* fetch_one after the last chunk: a short or different file ends the command
FetchOne(c) ==
    /\ Fetching(c)
    /\ IF SourceAccepted(cmd[c].got, Source(c))
       THEN Step(c, [cmd[c] EXCEPT !.stage = Append(@, cmd[c].got), !.got = <<>>])
       ELSE Ends(c)
    /\ UNCHANGED <<kind, dest, outputs, claims, ghosts>>

\* No connection, a redirect the policy refuses, a declared length over the bound, a full disk
FetchFails(c) ==
    /\ cmd[c].at \in {"fetch", "publish"}
    /\ Ends(c)
    /\ UNCHANGED <<kind, dest, outputs, claims, ghosts>>

\* The receipt is written into the stage once every source is there
WriteReceipt(c) ==
    /\ cmd[c].at = "fetch" /\ Len(cmd[c].stage) = Len(cmd[c].recipe.sources)
    /\ Step(c, [at |-> "publish", recipe |-> cmd[c].recipe, stage |-> cmd[c].stage])
    /\ UNCHANGED <<kind, dest, outputs, claims, ghosts>>

\* _publish_stage: the rename, which fails when another fetch published first
PublishStage(c) ==
    /\ cmd[c].at = "publish"
    /\ IF dest = Absent
       THEN /\ dest' = [receipt |-> cmd[c].recipe, files |-> cmd[c].stage]
            /\ Ends(c) /\ Returns(cmd[c].recipe)
       ELSE /\ Step(c, [at |-> "compare", recipe |-> cmd[c].recipe])
            /\ UNCHANGED <<dest, claims>>
    /\ UNCHANGED <<kind, outputs, ghosts>>

\* Mutant: whatever was published concurrently is taken for this recipe
PublishedFirstAny(c) ==
    /\ cmd[c].at = "compare"
    /\ Ends(c) /\ Returns(cmd[c].recipe)
    /\ UNCHANGED <<kind, dest, outputs, ghosts>>

\* What the other fetch published serves this one too if it matches, and is a conflict otherwise
PublishedFirst(c) ==
    /\ cmd[c].at = "compare"
    /\ Ends(c)
    /\ IF InstalledMatches(cmd[c].recipe) THEN Returns(cmd[c].recipe) ELSE UNCHANGED claims
    /\ UNCHANGED <<kind, dest, outputs, ghosts>>

----------------------------------------------------------------------------
(* Producing *)

\* What the exporters append to the source, by the shape it gives
PoolingNodes(shape) == <<shape[1], shape[3]>>
ImageOnlyWrapper(shape) == shape
ClampedRetinexformer(shape) == shape
ScalarForecastWrapper(shape) == <<1, 1>>

Exported(r) ==
    CASE kind = "sentence" -> PoolingNodes(r.source)
      [] kind = "clip" -> ImageOnlyWrapper(r.source)
      [] kind = "retinexformer" -> ClampedRetinexformer(r.source)
      [] OTHER -> ScalarForecastWrapper(r.source)

\* validate_onnx_io compares the exported graph with the shape the service expects; the
\* embedding exporter does not: the gate compares the width of its vectors
GraphOK(shape) ==
    CASE kind = "sentence" -> TRUE
      [] kind = "clip" -> shape = <<1, 512>>
      [] kind = "retinexformer" -> shape = <<1, 3, 256, 256>>
      [] OTHER -> shape = <<1, 1>>

\* The gates, in thousandths; a forecast's error in ten thousandths
EmbeddingGate(m, shape) == shape[2] = 384 /\ m.parity >= 999 /\ m.quality >= 900
ClipGate(m, shape) == shape[2] = 512 /\ m.parity >= 999 /\ m.quality >= 990
RetinexformerGate(m) == m.parity >= 999 /\ m.quality >= 800 /\ m.outside = 0
ForecastGate(m) ==
    /\ m.repeat # 0
    /\ 1000 * (m.repeat - m.candidate) >= 350 * m.repeat
    /\ m.candidate < m.repeat /\ m.candidate < m.linear
    /\ m.error <= 1

GateAccepts(m, shape) ==
    CASE kind = "sentence" -> EmbeddingGate(m, shape)
      [] kind = "clip" -> ClipGate(m, shape)
      [] kind = "retinexformer" -> RetinexformerGate(m)
      [] OTHER -> ForecastGate(m)

\* open_fetched_model_source: every pinned byte is checked again.  No producer takes an identity
\* recipe.
OpensSource(c, r) ==
    /\ cmd[c] = Idle /\ begun < MaxBegun /\ r.kind = kind
    /\ begun' = begun + 1
    /\ IF LoadsRecipe(r) /\ InstalledMatches(r)
       THEN /\ Returns(r)
            /\ Step(c, IF kind = "identity" THEN Idle ELSE [at |-> "outputs", recipe |-> r])
       ELSE UNCHANGED <<cmd, claims>>
    /\ UNCHANGED <<kind, dest, outputs, tampered, overlapped>>

Producing(c) == cmd[c].at \in {"export", "gate", "report", "clean", "clean report"}

\* run_production_pipeline refuses when an output exists
OutputsFree(c) ==
    /\ cmd[c].at = "outputs"
    /\ IF model = Absent /\ report = Absent
       THEN /\ Step(c, [cmd[c] EXCEPT !.at = "export"])
            /\ overlapped' = (overlapped \/ \E d \in Commands : Producing(d))
       ELSE Ends(c) /\ UNCHANGED overlapped
    /\ UNCHANGED <<kind, dest, outputs, claims, tampered, begun>>

\* Any failure: every output is removed, the model first
CleanUp(c) == Step(c, [cmd[c] EXCEPT !.at = "clean"])

\* The exporter reads the published files as they are now and replaces the model at once
Export(c) ==
    /\ cmd[c].at = "export"
    /\ LET shape == Exported(cmd[c].recipe)
       IN IF GraphOK(shape)
          THEN /\ model' = [files |-> dest.files, shape |-> shape]
               /\ Step(c, [cmd[c] EXCEPT !.at = "gate"])
          ELSE UNCHANGED model /\ CleanUp(c)
    /\ UNCHANGED <<kind, dest, report, claims, ghosts>>

\* The gate runs the source and the model that is there now on the holdout
Evaluate(c, m) ==
    /\ cmd[c].at = "gate"
    /\ IF model # Absent /\ GateAccepts(m, model.shape)
       THEN Step(c, [at |-> "report", recipe |-> cmd[c].recipe, gated |-> model])
       ELSE CleanUp(c)
    /\ UNCHANGED <<kind, dest, outputs, claims, ghosts>>

\* production_report digests the receipt and the model as they are now; one atomic write
ProductionReport(c) ==
    /\ cmd[c].at = "report"
    /\ IF model # Absent
       THEN /\ report' = [recipe |-> cmd[c].recipe, receipt |-> dest.receipt, model |-> model,
                          gated |-> cmd[c].gated]
            /\ Ends(c)
       ELSE UNCHANGED report /\ CleanUp(c)
    /\ UNCHANGED <<kind, dest, model, claims, ghosts>>

\* A missing library, an unreadable source, a full disk
ProductionFails(c) ==
    /\ cmd[c].at \in {"export", "gate", "report"}
    /\ CleanUp(c)
    /\ UNCHANGED <<kind, dest, outputs, claims, ghosts>>

CleanModel(c) ==
    /\ cmd[c].at = "clean"
    /\ model' = Absent
    /\ Step(c, [cmd[c] EXCEPT !.at = "clean report"])
    /\ UNCHANGED <<kind, dest, report, claims, ghosts>>

CleanReport(c) ==
    /\ cmd[c].at = "clean report"
    /\ report' = Absent
    /\ Ends(c)
    /\ UNCHANGED <<kind, dest, model, claims, ghosts>>

----------------------------------------------------------------------------
\* Nothing is cleaned up: a stage or a model without a report stays
Killed(c) ==
    /\ cmd[c] # Idle
    /\ Ends(c)
    /\ UNCHANGED <<kind, dest, outputs, claims, ghosts>>

\* Somebody edits a published source, once
Tamper(chunk) ==
    /\ dest # Absent /\ ~tampered
    /\ dest.files[1] # <<chunk>>
    /\ dest' = [dest EXCEPT !.files[1] = <<chunk>>]
    /\ tampered' = TRUE
    /\ UNCHANGED <<kind, outputs, cmd, claims, overlapped, begun>>

Next ==
    \/ \E c \in Commands :
         \/ \E r \in Recipes : OpensSource(c, r) \/ \E l \in Licenses : FetchBegins(c, r, l)
         \/ FetchLooks(c) \/ \E chunk \in Chunks : Chunk(c, chunk)
         \/ FetchOne(c) \/ FetchFails(c) \/ WriteReceipt(c) \/ PublishStage(c) \/ PublishedFirst(c)
         \/ OutputsFree(c) \/ Export(c) \/ \E m \in Measurements : Evaluate(c, m)
         \/ ProductionReport(c) \/ ProductionFails(c) \/ CleanModel(c) \/ CleanReport(c)
         \/ Killed(c)
    \/ \E chunk \in Chunks : Tamper(chunk)

----------------------------------------------------------------------------

\* A published version is whole: the files its own receipt pins
InstalledWhole == dest # Absent /\ ~tampered => dest.files = PinnedFiles(dest.receipt)

\* Nobody was told that his recipe is installed while the version is another recipe's
ClaimsAgree == \A r \in claims : dest # Absent /\ dest.receipt = r

\* A report stands beside the model it describes: the model that passed the gate, computed from
\* the files its recipe pins and giving the shape the recipe promises
ReportTrue ==
    report # Absent /\ ~overlapped =>
        /\ model # Absent /\ report.model = model /\ report.gated = model
        /\ report.receipt = report.recipe
        /\ model.shape = report.recipe.output
        /\ ~tampered => model.files = PinnedFiles(report.recipe)

\* Whatever servers send, however fetches of different recipes for one version race and wherever
\* a command is killed or fails, a published source is whole, is the recipe's of everyone who was
\* told so, and a production report is true of the model beside it, unless somebody edits the
\* published files or runs two producers on one output folder (fetch_model_sources,
\* _publish_stage, open_fetched_model_source, run_production_pipeline).
SourcesSound == InstalledWhole /\ ClaimsAgree /\ ReportTrue

Spec == Init /\ [][Next]_sourceVars

=============================================================================
