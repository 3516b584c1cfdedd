---------------------------- MODULE TrainingData ----------------------------
(***************************************************************************)
(* How the five tabular trainers (training/storage.py, hardware.py,        *)
(* network.py, build.py, desktop.py over training/tabular) turn a recorded *)
(* history into labelled examples, divide them in time and decide whether  *)
(* what they fitted may be published.                                      *)
(*                                                                         *)
(* A history is read row by row, oldest first; a row that one of the       *)
(* validators refuses ends the training.  A row is abstracted to its time  *)
(* and to what its label and its features depend on; an example to its     *)
(* time, the first and last time its features were measured and the last   *)
(* time its label depends on.  The fit itself is arithmetic on floats: its *)
(* held-out quality is an arbitrary outcome.                               *)
(***************************************************************************)
EXTENDS Naturals, Sequences, FiniteSets, SequencesExt

CONSTANTS Families,     \* The trainers explored, see AllFamilies
          Devices,      \* Serial numbers of the daily drive statistics
          Horizon,      \* horizon_days
          MaxDevices,   \* Devices with rows still unlabelled
          MaxSamples,   \* max_samples
          Window,       \* Observations of one hardware example
          MinClass,     \* Examples of each class each side of the split needs
          MinTraining,  \* Network rows before the split
          MinHoldout,   \* Network rows after it
          Mandatory,    \* The build checks that always run
          Optional,     \* The build checks the model may reorder
          MaxTime,      \* Daily files are of the days 1 .. MaxTime
          MaxRows       \* Rows of a history

VARIABLES family,    \* The trainer
          phase,     \* "reading", "read", "split", "useful", "reported", or "refused"
          now,       \* Time of the last row; the day of the current file
          seen,      \* Serials already read from the current daily file
          pending,   \* Per device, the days that await their label
          history,   \* The accepted rows of the other four histories
          examples,  \* The labelled examples, in the order they were made
          split,     \* The training and the held-out examples
          report,    \* What the published report says of the division
          failures   \* History variable: the <<device, day>> that failed

vars == <<family, phase, now, seen, pending, history, examples, split, report, failures>>

AllFamilies == {"storage", "hardware", "network", "build", "desktop"}
Unsplit == [training |-> <<>>, holdout |-> <<>>]
Unreported == [training |-> 0, holdout |-> 0, from |-> 0, purge |-> 0]
RowKinds == {"measured", "unmeasured", "failed"}
\* The operator confirms the terms, the labels or the provenance in so many words
NeedConfirmation == {"storage", "hardware", "network", "build"}
Checks == Mandatory \cup Optional

----------------------------------------------------------------------------
(* What a row of each history says *)

HardwareRows == [label : {0, 1}, semantics : {"as-before", "drifted"}]
\* A ready snapshot gives each link it lists a counter
NetworkRows == [ready : BOOLEAN, links : UNION {[L -> 0 .. 1] : L \in SUBSET {"link"}}]
Build(outcome, executed, failed) == [outcome |-> outcome, executed |-> executed, failed |-> failed]
BuildRows == {Build("succeeded", Checks, {}), Build("cancelled", Checks, {}), Build("failed", Checks, Optional),
              Build("failed", Mandatory, Mandatory), Build("failed", Mandatory, Optional),
              Build("succeeded", Optional, {})}
DesktopRows == [suggestion : {"keep", "maximize"}, confirmed : BOOLEAN]

RowsOf(f) == CASE f = "hardware" -> HardwareRows
               [] f = "network" -> NetworkRows
               [] f = "build" -> BuildRows
               [] f = "desktop" -> DesktopRows

----------------------------------------------------------------------------
(* Which rows the validators accept, given the rows before them *)

HardwareAccepts(row) == row.semantics = "as-before"

\* Only ready snapshots train, and no counter may go back
NetworkAccepts(row) ==
    /\ row.ready
    /\ history # <<>> =>
         \A l \in DOMAIN row.links \cap DOMAIN Last(history).row.links :
             row.links[l] >= Last(history).row.links[l]

\* Failed checks ran, every mandatory check ran and no unlisted one did
BuildRecordOK(row) == row.failed \subseteq row.executed
BuildAccepts(row) == BuildRecordOK(row) /\ Mandatory \subseteq row.executed /\ row.executed \subseteq Checks

DesktopAccepts(row) == row.confirmed

Accepts(row) == CASE family = "hardware" -> HardwareAccepts(row)
                  [] family = "network" -> NetworkAccepts(row)
                  [] family = "build" -> BuildAccepts(row)
                  [] family = "desktop" -> DesktopAccepts(row)

----------------------------------------------------------------------------
(* The daily drive statistics *)

Example(at, from, until, label) == [at |-> at, from |-> from, until |-> until, label |-> label]
StorageExample(d, day, label) == Example(day, day, day + Horizon, label) @@ [device |-> d]

\* Mutant: a drive that fails on the last day of the horizon is a negative
ReleasableOnTheDay(days, today) == SelectSeq(days, LAMBDA day : today - day >= Horizon)
\* The waiting days whose horizon has passed without a failure
Releasable(days, today) == SelectSeq(days, LAMBDA day : today - day > Horizon)
Held(days, today) == SelectSeq(days, LAMBDA day : day \notin Range(Releasable(days, today)))

\* Which negatives are kept depends on a hash of the serial and the day
KeptNegatives(d, days, kept) ==
    [i \in DOMAIN SelectSeq(days, LAMBDA day : day \in kept) |->
        StorageExample(d, SelectSeq(days, LAMBDA day : day \in kept)[i], 0)]
Positives(d, days) == [i \in DOMAIN days |-> StorageExample(d, days[i], 1)]

Init ==
    /\ family \in Families
    /\ phase = "reading"
    /\ now = (IF family = "storage" THEN 1 ELSE 0)
    /\ seen = {}
    /\ pending = <<>>
    /\ history = <<>>
    /\ examples = <<>>
    /\ split = Unsplit
    /\ report = Unreported
    /\ failures = {}

\* An error ends the command, and what it had read is gone with it
Refused ==
    /\ phase' = "refused" /\ now' = 0 /\ seen' = {} /\ pending' = <<>> /\ history' = <<>>
    /\ examples' = <<>> /\ split' = Unsplit /\ report' = Unreported /\ failures' = {}
    /\ UNCHANGED family

\* The confirmation was not given exactly
Unconfirmed ==
    /\ family \in NeedConfirmation /\ phase = "reading"
    /\ history = <<>> /\ pending = <<>> /\ examples = <<>>
    /\ Refused

\* The next daily file; a day of no rows stands for a day of no file
NextFile ==
    /\ family = "storage" /\ phase = "reading"
    /\ now < MaxTime
    /\ now' = now + 1
    /\ seen' = {}
    /\ UNCHANGED <<family, phase, pending, history, examples, split, report, failures>>

Waiting(d) == IF d \in DOMAIN pending THEN pending[d] ELSE <<>>

\* One drive of one day: whose wait is over is labelled first, then the failure
ConsumeRow(d, kind) ==
    /\ family = "storage" /\ phase = "reading"
    /\ LET over == Releasable(Waiting(d), now)
           held == Held(Waiting(d), now)
       IN IF d \in seen \/ (d \notin DOMAIN pending /\ Cardinality(DOMAIN pending) >= MaxDevices)
          THEN Refused
          ELSE \E kept \in SUBSET Range(over) :
                 LET made == KeptNegatives(d, over, kept)
                             \o (IF kind = "failed" THEN Positives(d, held) ELSE <<>>)
                 IN IF Len(examples) + Len(made) > MaxSamples
                    THEN Refused
                    ELSE /\ examples' = examples \o made
                         /\ seen' = seen \cup {d}
                         /\ failures' = IF kind = "failed" THEN failures \cup {<<d, now>>} ELSE failures
                         /\ pending' = CASE kind = "failed" ->
                                                [e \in DOMAIN pending \ {d} |-> pending[e]]
                                         [] kind = "unmeasured" -> (d :> held) @@ pending
                                         [] kind = "measured" -> (d :> Append(held, now)) @@ pending
                         /\ UNCHANGED <<family, phase, now, history, split, report>>

----------------------------------------------------------------------------
(* The line-delimited histories *)

\* The examples of a history of single rows, of consecutive pairs, or of windows
PointExamples == [i \in DOMAIN history |-> Example(history[i].at, history[i].at, history[i].at, 0)]

\* Cancelled and unknown builds are ignored
BuildExamples ==
    LET told == SelectSeq(history, LAMBDA h : h.row.outcome # "cancelled")
    IN [i \in DOMAIN told |->
          Example(told[i].at, told[i].at, told[i].at, IF told[i].row.outcome = "failed" THEN 1 ELSE 0)
          @@ [ran |-> told[i].row.executed \cap Optional, broke |-> told[i].row.failed \cap Optional]]

DesktopExamples == [i \in DOMAIN history |-> PointExamples[i] @@ [suggestion |-> history[i].row.suggestion]]

\* A row of rates is measured from the snapshot before it to its own
Moved(before, after) ==
    FoldFunction(+, 0, [l \in DOMAIN before \cap DOMAIN after |-> after[l] - before[l]])
NetworkExamples ==
    [i \in 1 .. Len(history) - 1 |->
        Example(history[i + 1].at, history[i].at, history[i + 1].at, 0)
        @@ [moved |-> Moved(history[i].row.links, history[i + 1].row.links)]]

HardwareExamples ==
    [i \in 1 .. Len(history) - Window + 1 |->
        Example(history[i + Window - 1].at, history[i].at, history[i + Window - 1].at,
                history[i + Window - 1].row.label)]

ReadRow(t, row) ==
    /\ family # "storage" /\ phase = "reading"
    /\ Len(history) < MaxRows
    /\ IF t <= now \/ ~Accepts(row)
       THEN Refused
       ELSE /\ now' = t
            /\ history' = Append(history, [at |-> t, row |-> row])
            /\ UNCHANGED <<family, phase, seen, pending, examples, split, report, failures>>

\* The end of the history: too few rows for one example is refused
ReadingEnds ==
    /\ phase = "reading"
    /\ IF CASE family = "storage" -> examples = <<>>
            [] family = "hardware" -> Len(history) < Window
            [] family = "network" -> Len(history) < 2
            [] family \in {"build", "desktop"} -> history = <<>>
       THEN Refused
       ELSE /\ phase' = "read"
            /\ examples' = CASE family = "storage" -> examples
                             [] family = "hardware" -> HardwareExamples
                             [] family = "network" -> NetworkExamples
                             [] family = "build" -> BuildExamples
                             [] family = "desktop" -> DesktopExamples
            /\ history' = <<>> /\ pending' = <<>> /\ seen' = {} /\ now' = 0
            /\ UNCHANGED <<family, split, report, failures>>

----------------------------------------------------------------------------
(* Dividing the examples in time *)

Smaller(a, b) == IF a < b THEN a ELSE b
Larger(a, b) == IF a > b THEN a ELSE b
\* min(n - 1, max(1, int(n * 0.8)))
FourFifths(n) == Smaller(n - 1, Larger(1, (4 * n) \div 5))

Parted(cut) == [training |-> SubSeq(examples, 1, cut), holdout |-> SubSeq(examples, cut + 1, Len(examples))]
ChronologicalSplit == IF Len(examples) < 2 THEN Unsplit ELSE Parted(FourFifths(Len(examples)))

FloorSplit ==
    IF Len(examples) < MinTraining + MinHoldout THEN Unsplit
    ELSE Parted(Smaller(Larger(MinTraining, (4 * Len(examples)) \div 5), Len(examples) - MinHoldout))

\* Mutant: the windows that overlap the first held-out one stay in
PurgedSplitWhole == ChronologicalSplit
\* The training windows that overlap the first held-out one are dropped
PurgedSplit == [ChronologicalSplit EXCEPT !.training = SubSeq(@, 1, Len(@) - (Window - 1))]

Dates == SetToSortSeq({examples[i].at : i \in DOMAIN examples}, <)
SplitDate == Dates[FourFifths(Len(Dates)) + 1]
\* Training days end a whole horizon before the first held-out day
DatedSplit ==
    IF Len(Dates) < 3 THEN Unsplit
    ELSE [training |-> SelectSeq(examples, LAMBDA e : e.at + Horizon < SplitDate),
          holdout |-> SelectSeq(examples, LAMBDA e : e.at >= SplitDate)]

SplitOf == CASE family = "storage" -> DatedSplit
             [] family = "hardware" -> PurgedSplit
             [] family = "network" -> FloorSplit
             [] family \in {"build", "desktop"} -> ChronologicalSplit

Split ==
    /\ phase = "read"
    /\ IF SplitOf.training = <<>> \/ SplitOf.holdout = <<>>
       THEN Refused
       ELSE /\ phase' = "split"
            /\ split' = SplitOf
            /\ UNCHANGED <<family, now, seen, pending, history, examples, report, failures>>

----------------------------------------------------------------------------
(* The gates before and after the fit *)

CountOf(side, Test(_)) == Len(SelectSeq(side, Test))
BinaryFloor(side) == /\ CountOf(side, LAMBDA e : e.label = 1) >= MinClass
                     /\ CountOf(side, LAMBDA e : e.label = 0) >= MinClass

\* Each optional check needs passes and failures among the builds that ran it
CheckFloors(side) ==
    \A c \in Optional : /\ CountOf(side, LAMBDA e : c \in e.ran /\ c \in e.broke) >= MinClass
                        /\ CountOf(side, LAMBDA e : c \in e.ran /\ c \notin e.broke) >= MinClass
RankedSomething(side) == \E i \in DOMAIN side : side[i].broke # {}

\* Every suggestion of the history is confirmed often enough on this side
SuggestionFloor(side) ==
    LET offered == {examples[i].suggestion : i \in DOMAIN examples}
    IN /\ Cardinality(offered) >= 2
       /\ \A s \in offered : CountOf(side, LAMBDA e : e.suggestion = s) >= MinClass

StorageTrainable == BinaryFloor(split.training) /\ BinaryFloor(split.holdout)
HardwareTrainable == BinaryFloor(split.training) /\ BinaryFloor(split.holdout)
BuildTrainable == /\ BinaryFloor(split.training) /\ BinaryFloor(split.holdout)
                  /\ CheckFloors(split.training) /\ RankedSomething(split.holdout)
DesktopTrainable == SuggestionFloor(split.training) /\ SuggestionFloor(split.holdout)

Trainable == CASE family = "storage" -> StorageTrainable
               [] family = "hardware" -> HardwareTrainable
               [] family = "build" -> BuildTrainable
               [] family = "desktop" -> DesktopTrainable
               [] family = "network" -> TRUE

\* The held-out measurements each trainer bounds
StorageGates == {"auc"}
HardwareGates == {"auc", "recall", "falsePositives"}
NetworkGates == {"falsePositives"}
BuildGates == {"auc", "meanReciprocalRank"}
DesktopGates == {"accuracy", "macroRecall"}
Gates == CASE family = "storage" -> StorageGates
           [] family = "hardware" -> HardwareGates
           [] family = "network" -> NetworkGates
           [] family = "build" -> BuildGates
           [] family = "desktop" -> DesktopGates

\* The fit meets an arbitrary set of the bounds
FitAndGate ==
    /\ phase = "split"
    /\ \E met \in SUBSET Gates :
         IF Trainable /\ met = Gates
         THEN /\ phase' = "useful"
              /\ UNCHANGED <<family, now, seen, pending, history, examples, split, report, failures>>
         ELSE Refused

----------------------------------------------------------------------------
(* The report beside the published model *)

Told(from, purge) == [training |-> Len(split.training), holdout |-> Len(split.holdout),
                      from |-> from, purge |-> purge]
StorageReport == Told(SplitDate, Horizon)
HardwareReport == Told(Head(split.holdout).at, Window - 1)
NetworkReport == Told(Head(split.holdout).at, 0)
BuildReport == Told(Head(split.holdout).at, 0)
DesktopReport == Told(Head(split.holdout).at, 0)

Report ==
    /\ phase = "useful"
    /\ phase' = "reported"
    /\ report' = CASE family = "storage" -> StorageReport
                    [] family = "hardware" -> HardwareReport
                    [] family = "network" -> NetworkReport
                    [] family = "build" -> BuildReport
                    [] family = "desktop" -> DesktopReport
    /\ UNCHANGED <<family, now, seen, pending, history, examples, split, failures>>

Next ==
    \/ Unconfirmed \/ NextFile \/ ReadingEnds \/ Split \/ FitAndGate \/ Report
    \/ \E d \in Devices, kind \in RowKinds : ConsumeRow(d, kind)
    \/ \E t \in {now, now + 1} : family # "storage" /\ \E row \in RowsOf(family) : ReadRow(t, row)

----------------------------------------------------------------------------

\* A drive's example says failure exactly when the drive failed within the horizon after
\* the day it was measured, although the label is decided days later, by another row, and
\* whether the drive is then failing or only too old is decided in the same step
\* (storage.py _consume_row and _release_negatives).
LabelsAreTrue ==
    family = "storage" =>
        \A i \in DOMAIN examples :
            (examples[i].label = 1) <=>
                \E day \in examples[i].at + 1 .. examples[i].at + Horizon : <<examples[i].device, day>> \in failures

\* Nothing a training example was measured from, and nothing its label depends on, reaches
\* the time from which a held-out example was measured: the quality gate judges what the
\* fit could not have seen, and the report's holdoutFrom divides the two (the horizon purge
\* of storage.py, the window purge of hardware.py and the order the loaders enforce). The
\* network trainer purges nothing between its rows of rates, so there, and only there, the
\* last training row ends with the very snapshot the first held-out row starts from.
HoldoutIsUnseen ==
    /\ \A i \in DOMAIN split.training, j \in DOMAIN split.holdout :
          LET seenUntil == split.training[i].until
              measuredFrom == split.holdout[j].from
          IN \/ seenUntil < measuredFrom
             \/ /\ family = "network" /\ seenUntil = measuredFrom
                /\ i = Len(split.training) /\ j = 1
    /\ phase = "reported" =>
          /\ \A i \in DOMAIN split.training : split.training[i].at < report.from
          /\ \A j \in DOMAIN split.holdout : split.holdout[j].at >= report.from

\* A report's quality is of unseen and truly labelled examples: a label follows from what was
\* observed, and no training example reaches into the time a held-out one covers (the five
\* tabular trainers).
TrainingSound == LabelsAreTrue /\ HoldoutIsUnseen

=============================================================================
