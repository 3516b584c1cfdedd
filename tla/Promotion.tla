------------------------------ MODULE Promotion ------------------------------
(***************************************************************************)
(* From a trained model to the native variants a profile is bound to       *)
(* (training/contracts.py, training/tabular/report.py, conversion.py,      *)
(* training/compilers.py, training/numeric_promotion.py,                   *)
(* training/installation.py, preparation.py).                              *)
(*                                                                         *)
(* One output folder holds model.onnx, its report and the folder `compiled`*)
(* of native files.  Trainers write the model and then the report;         *)
(* promotions load the report, compile, digest, compare and install, one   *)
(* step at a time; the conversion and preparation commands work on the     *)
(* same files.  Nothing locks the folder: any of them may run between two  *)
(* steps of another, and be killed between two steps.                      *)
(*                                                                         *)
(* A portable model is its number and its input width: training again      *)
(* gives a new number.  A native is a graph (the primary file: it depends  *)
(* on the width alone) and its weights (the companion).                    *)
(***************************************************************************)
EXTENDS Integers, Sequences, FiniteSets

CONSTANTS
    Trainers,       \* training commands running at once
    Promoters,      \* promotion or installation commands running at once
    TargetOrder,    \* TARGET_ORDER: a sequence of lanes
    Available,      \* the lanes whose compiler is installed
    Versions,       \* artifact versions a command may name
    MaxFeatures, MaxWindow, MaxInputWidth,
    MaxExports,     \* bound on the models trained
    MaxCommands     \* bound on the commands that use them

VARIABLES
    kind,       \* "numeric" or "forecast": the recipe of the folder's reports
    onnx,       \* model.onnx
    report,     \* the report: the model it names
    trainer,    \* per trainer: its step, its model, the digest it took
    build,      \* compiled/<lane>: the native files there
    promo,      \* per promotion: its step and what it holds
    store,      \* the installed artifacts, by lane and version
    binding,    \* the profile's model binding
    overlapped, \* two training commands wrote the folder at the same time
    reverted,   \* native files of an older model replaced those of a newer one
    exports, commands

promotionVars == <<kind, onnx, report, trainer, build, promo, store, binding, overlapped, reverted,
                   exports, commands>>
folder == <<onnx, report>>
history == <<overlapped, reverted>>
counts == <<history, exports, commands>>

Targets == {TargetOrder[i] : i \in DOMAIN TargetOrder}
NoModel == [id |-> 0, width |-> 0]
NoNative == [graph |-> 0, weights |-> 0]
Resting == [at |-> "idle", model |-> NoModel, named |-> NoModel]
Unbound == [model |-> NoModel, report |-> NoModel, version |-> 0, variants |-> <<>>]
Finished == [at |-> "idle", doc |-> NoModel, reported |-> NoModel, version |-> 0, todo |-> <<>>,
             source |-> NoModel, ready |-> <<>>, landed |-> 0]

\* The commands and the recipe of the report each writes
TrainerDispatch ==
    [forecast |-> "forecast", storage |-> "numeric", network |-> "numeric", build |-> "numeric",
     hardware |-> "numeric", desktop |-> "numeric"]

Init ==
    /\ kind \in {TrainerDispatch[c] : c \in DOMAIN TrainerDispatch}
    /\ onnx = NoModel /\ report = NoModel
    /\ trainer = [t \in Trainers |-> Resting]
    /\ build = [l \in Targets |-> NoNative]
    /\ promo = [p \in Promoters |-> Finished]
    /\ store = [e \in Targets \X Versions |-> NoNative]
    /\ binding = Unbound
    /\ overlapped = FALSE /\ reverted = FALSE /\ exports = 0 /\ commands = 0

----------------------------------------------------------------------------
(* What a training command is asked for *)

Specs == [features : 0 .. MaxFeatures + 1, window : 0 .. MaxWindow + 1]
InputWidth(spec) == spec.features * spec.window

FeaturesOK(spec) == spec.features \in 1 .. MaxFeatures
BoundsOK(spec) == spec.window \in 1 .. MaxWindow /\ InputWidth(spec) <= MaxInputWidth

\* A spec is refused before anything is read or written
TrainingSpec(spec) == FeaturesOK(spec) /\ BoundsOK(spec)

\* What the report loader demands of a report and of the model beside it: the widths agree
\* and the digest is of the file there now
ReportLoads(named) == named # NoModel /\ onnx = named

\* The graph of a portable model: its input is as wide as the normalisation's vectors
NormalizedLogisticModel(n, width) == [id |-> n, width |-> width]

----------------------------------------------------------------------------
(* Training commands *)

TrainRefused(spec) == kind = "forecast" /\ ~TrainingSpec(spec)

\* The command has read its data and fits a model; only a forecast takes its width from a spec
TrainBegins(t) ==
    /\ trainer[t].at = "idle"
    /\ exports < MaxExports
    /\ \E spec \in Specs :
         /\ ~TrainRefused(spec) /\ InputWidth(spec) \in 1 .. MaxInputWidth
         /\ trainer' = [trainer EXCEPT ![t] = [at |-> "fitted", named |-> NoModel,
                          model |-> NormalizedLogisticModel(exports + 1, InputWidth(spec))]]
    /\ overlapped' = (overlapped \/ \E u \in Trainers \ {t} : trainer[u].at # "idle")
    /\ exports' = exports + 1
    /\ UNCHANGED <<kind, folder, build, promo, store, binding, reverted, commands>>

\* save_onnx_atomic: the file changes by one rename, or not at all
SaveOnnxAtomic(model) == onnx' = model

\* The exporter replaces model.onnx
Export(t) ==
    /\ trainer[t].at = "fitted"
    /\ SaveOnnxAtomic(trainer[t].model)
    /\ trainer' = [trainer EXCEPT ![t] = [Resting EXCEPT !.at = "exported"]]
    /\ UNCHANGED <<kind, report, build, promo, store, binding, counts>>

\* numeric_training_report digests the file that is there, which a second trainer may have
\* replaced meanwhile
DigestModel(t) ==
    /\ trainer[t].at = "exported"
    /\ trainer' = [trainer EXCEPT ![t].at = "digested", ![t].named = onnx]
    /\ UNCHANGED <<kind, onnx, report, build, promo, store, binding, counts>>

\* write_training_report: the schema is checked, then the report is replaced at once
WriteReport(t) ==
    /\ trainer[t].at = "digested"
    /\ report' = trainer[t].named
    /\ trainer' = [trainer EXCEPT ![t] = Resting]
    /\ UNCHANGED <<kind, onnx, build, promo, store, binding, counts>>

\* A failed exporter, a full disk or a kill: the command ends where it is
TrainEnds(t) ==
    /\ trainer[t].at # "idle"
    /\ trainer' = [trainer EXCEPT ![t] = Resting]
    /\ UNCHANGED <<kind, onnx, report, build, promo, store, binding, counts>>

----------------------------------------------------------------------------
(* Compilers *)

\* The lanes that accept portable ONNX: a TPU needs a fully quantised TFLite source
Compatible(lane) == lane # "tpu"
CompilerCatalog == Targets
AvailableTargets == {l \in CompilerCatalog : Compatible(l) /\ l \in Available}

\* --targets: "auto" takes every available lane, a list is taken in TARGET_ORDER
ValidatedTargets(chosen) == SelectSeq(TargetOrder, LAMBDA l : l \in chosen)
Selections == {AvailableTargets} \cup {chosen \in SUBSET Targets : chosen # {}}

\* Some lane is selected and the order names it, so that there is one to begin with.
OrderAssumption ==
    \A chosen \in Selections : chosen # {} =>
        ValidatedTargets(chosen) \in Seq(Targets) /\ ValidatedTargets(chosen) # <<>>

\* What the converter leaves for a source: nothing when it fails, so that an older native stays;
\* convert_to_* only asks whether both files are there
NativeOf(model) == [graph |-> model.width, weights |-> model.id]
RunConverter(lane, model) == {[build EXCEPT ![lane] = NativeOf(model)], build}
ConversionComplete(files, lane) == files[lane] # NoNative
Reverts(files) == \E l \in Targets : files[l].weights < build[l].weights

\* omnitensor-convert-model: the same files, outside any promotion
ConvertCommand(lane) ==
    /\ commands < MaxCommands /\ onnx # NoModel
    /\ Compatible(lane)
    /\ build' \in RunConverter(lane, onnx) /\ reverted' = (reverted \/ Reverts(build'))
    /\ commands' = commands + 1
    /\ UNCHANGED <<kind, folder, trainer, promo, store, binding, overlapped, exports>>

----------------------------------------------------------------------------
(* The store: what ArtifactStore promises of one install *)

\* The primary must have its digest; the companion is recorded as it lands; a version never changes
Lands(native, lane, v, source) ==
    /\ source # NoNative
    /\ source.graph = native.graph
    /\ store[<<lane, v>>] \in {NoNative, source}

\* omnitensor-prepare-artifact --install-root: whatever file it is given
PrepareCommand(lane, v) ==
    /\ commands < MaxCommands
    /\ Lands(build[lane], lane, v, build[lane])
    /\ store' = [store EXCEPT ![<<lane, v>>] = build[lane]]
    /\ commands' = commands + 1
    /\ UNCHANGED <<kind, folder, trainer, build, promo, binding, history, exports>>

----------------------------------------------------------------------------
(* Promotion of a numeric report, and installation of a forecast one *)

Job(p) == promo[p]
Lane(p) == Head(Job(p).todo)
Advance(p, fields) == promo' = [promo EXCEPT ![p] = fields]

\* A failure after something landed removes what landed, in reverse (remove_landed_artifacts);
\* before that nothing is to undo
Fails(p) ==
    LET undone == {<<Job(p).ready[i].lane, Job(p).version>> : i \in 1 .. Job(p).landed}
    IN /\ store' = [e \in DOMAIN store |-> IF e \in undone THEN NoNative ELSE store[e]]
       /\ Advance(p, Finished)
       /\ UNCHANGED <<kind, folder, trainer, build, binding, counts>>

\* _load_numeric_document, TrainingReport.load: the document
LoadDocument(p) ==
    /\ Job(p).at = "idle" /\ commands < MaxCommands
    /\ report # NoModel
    /\ Advance(p, [Finished EXCEPT !.at = "document", !.doc = report])
    /\ commands' = commands + 1
    /\ UNCHANGED <<kind, folder, trainer, build, store, binding, history, exports>>

\* _portable_model_identity: the model beside it must be the one it names
PortableModelIdentity(p) ==
    /\ Job(p).at = "document"
    /\ IF ReportLoads(Job(p).doc)
       THEN /\ Advance(p, [Job(p) EXCEPT !.at = "identified"])
            /\ UNCHANGED <<kind, folder, trainer, build, store, binding, counts>>
       ELSE Fails(p)

\* file_digest(report_path), after the document was read, and the targets of the command
NumericContractOK(chosen) == kind = "numeric" => "tpu" \notin chosen
DigestReport(p) ==
    /\ Job(p).at = "identified"
    /\ \E chosen \in Selections, v \in Versions :
         IF chosen # {} /\ NumericContractOK(chosen)
         THEN /\ Advance(p, [Job(p) EXCEPT !.at = "compile", !.reported = report, !.version = v,
                                           !.todo = ValidatedTargets(chosen)])
              /\ UNCHANGED <<kind, folder, trainer, build, store, binding, counts>>
         ELSE Fails(p)

\* The compiler reads model.onnx: what is there now, not what the report named
CompileBegins(p) ==
    /\ Job(p).at = "compile"
    /\ IF Compatible(Lane(p)) /\ Lane(p) \in Available /\ onnx # NoModel
       THEN /\ Advance(p, [Job(p) EXCEPT !.at = "compiling", !.source = onnx])
            /\ UNCHANGED <<kind, folder, trainer, build, store, binding, counts>>
       ELSE Fails(p)

Compile(p) ==
    /\ Job(p).at = "compiling"
    /\ \E files \in RunConverter(Lane(p), Job(p).source) :
         /\ ConversionComplete(files, Lane(p))
         /\ build' = files /\ reverted' = (reverted \/ Reverts(files))
    /\ Advance(p, [Job(p) EXCEPT !.at = "prepare", !.source = NoModel])
    /\ UNCHANGED <<kind, folder, trainer, store, binding, overlapped, exports, commands>>

\* A converter that failed, timed out or left nothing
CompileFails(p) == Job(p).at = "compiling" /\ Fails(p)

\* Every lane is prepared before any is installed
Prepared(p, native) ==
    LET ready == Append(Job(p).ready, [lane |-> Lane(p), native |-> native])
        rest == Tail(Job(p).todo)
    IN [Job(p) EXCEPT !.at = IF rest = <<>> THEN "install" ELSE "compile",
                      !.todo = rest, !.ready = ready]

\* prepare_artifact digests the two files as they are now
PrepareArtifact(p) ==
    /\ Job(p).at = "prepare"
    /\ Advance(p, IF kind = "forecast"
                  THEN Prepared(p, build[Lane(p)])
                  ELSE [Job(p) EXCEPT !.at = "verify",
                                      !.ready = Append(@, [lane |-> Lane(p), native |-> build[Lane(p)]])])
    /\ UNCHANGED <<kind, folder, trainer, build, store, binding, counts>>

\* The verifier runs the portable model and the native files and names what it compared; the
\* primary's digest alone names the native
Evidence(lane) ==
    [within |-> build[lane] = NativeOf(onnx), portable |-> onnx, native |-> build[lane].graph]

\* Mutant: evidence about another portable model is accepted
ValidateParityAnyModel(p, evidence) ==
    LET reference == Job(p).ready[Len(Job(p).ready)].native
    IN evidence.within /\ evidence.native = reference.graph

ValidateParity(p, evidence) ==
    LET reference == Job(p).ready[Len(Job(p).ready)].native
    IN /\ evidence.within
       /\ evidence.portable = Job(p).doc
       /\ evidence.native = reference.graph

\* _compile_prepare_and_gate's last two calls
Verify(p) ==
    /\ Job(p).at = "verify"
    /\ IF ValidateParity(p, Evidence(Lane(p)))
       THEN /\ Advance(p, [Job(p) EXCEPT !.at = IF Len(Job(p).todo) = 1 THEN "install" ELSE "compile",
                                         !.todo = Tail(@)])
            /\ UNCHANGED <<kind, folder, trainer, build, store, binding, counts>>
       ELSE Fails(p)

\* A signature the trust verifier refuses, or bytes the store refuses, end the promotion
Install(p, trusted) ==
    /\ Job(p).at = "install" /\ Job(p).landed < Len(Job(p).ready)
    /\ LET next == Job(p).ready[Job(p).landed + 1]
       IN IF trusted /\ Lands(next.native, next.lane, Job(p).version, build[next.lane])
          THEN /\ store' = [store EXCEPT ![<<next.lane, Job(p).version>>] = build[next.lane]]
               /\ Advance(p, [Job(p) EXCEPT !.landed = @ + 1])
               /\ UNCHANGED <<kind, folder, trainer, build, binding, counts>>
          ELSE Fails(p)

\* The fragment declares the digests prepare_artifact took, the report and the evidence
NumericModelFragment(p) ==
    [model |-> Job(p).doc, report |-> Job(p).reported, version |-> Job(p).version,
     variants |-> Job(p).ready]

\* binding_manifest and publish_binding: the whole binding is replaced at once
PublishBinding(p) ==
    /\ Job(p).at = "install" /\ Job(p).landed = Len(Job(p).ready)
    /\ binding' = NumericModelFragment(p)
    /\ Advance(p, Finished)
    /\ UNCHANGED <<kind, folder, trainer, build, store, counts>>

\* No such profile, a manifest the schema refuses, a disk that is full
PublishFails(p) ==
    /\ Job(p).at = "install" /\ Job(p).landed = Len(Job(p).ready)
    /\ Fails(p)

\* A killed command undoes nothing
Killed(p) ==
    /\ Job(p).at # "idle"
    /\ Advance(p, Finished)
    /\ UNCHANGED <<kind, folder, trainer, build, store, binding, counts>>

Next ==
    \/ \E t \in Trainers :
         \/ TrainBegins(t) \/ Export(t) \/ DigestModel(t) \/ WriteReport(t) \/ TrainEnds(t)
    \/ \E l \in Targets : ConvertCommand(l) \/ \E v \in Versions : PrepareCommand(l, v)
    \/ \E p \in Promoters :
         \/ LoadDocument(p) \/ PortableModelIdentity(p) \/ DigestReport(p)
         \/ CompileBegins(p) \/ Compile(p) \/ CompileFails(p) \/ PrepareArtifact(p) \/ Verify(p)
         \/ \E trusted \in BOOLEAN : Install(p, trusted)
         \/ PublishBinding(p) \/ PublishFails(p) \/ Killed(p)

----------------------------------------------------------------------------

\* What the store resolves for a variant of the binding: present, and equal to what the binding
\* declares of its primary and of its companion
Served(variant) == store[<<variant.lane, binding.version>>] = variant.native

\* A native a numeric profile is bound to has the graph of the very model its report names, and
\* one it is served was compiled from that model; and the report the binding pins names that
\* model unless two trainers wrote the folder at once: although trainers replace model.onnx and
\* the report, other commands replace the compiled files and the installed version may already
\* be there, at any moment between the load, the compilation, the comparison and the install
\* (promote_numeric_training, _validate_parity, verify_declared_companions).  The comparison
\* names the primary file alone: when the files of an older model come back after it was made,
\* their weights are served.
BoundIsProven ==
    kind = "numeric" =>
        /\ overlapped \/ binding.report = binding.model
        /\ \A i \in DOMAIN binding.variants :
             LET native == binding.variants[i].native
             IN  /\ native.graph = NativeOf(binding.model).graph
                 /\ Served(binding.variants[i]) => reverted \/ native = NativeOf(binding.model)

Spec == Init /\ [][Next]_promotionVars

=============================================================================
