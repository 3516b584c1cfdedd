------------------------ MODULE ServiceAdmissionProofs ------------------------
(***************************************************************************)
(* The admission pool composed with the plugins' lifecycle, for every      *)
(* instance; and, as instances over variables of their own, the low-light  *)
(* outputs, the telemetry collectors, the files a job reads and the        *)
(* recorded history.                                                       *)
(***************************************************************************)
EXTENDS ServiceAdmission, MountParts, SequencesExt, FiniteSetTheorems, SequenceTheorems, TLAPS

-----------------------------------------------------------------------------
(* Admission and the lifecycle: its hold on stale workers, and the           *)
(* composition's refinement of the pool.                                     *)

(* Why the reload task may clear `pending`: what is stale is either still in *)
(* the listener's hands, or has a round of the reload ahead of it, or is     *)
(* known to be unavailable.                                                  *)
HoldInv ==
    /\ requested \in BOOLEAN
    /\ reload \in {"idle", "loop", "attempt", "backoff", "apply"}
    /\ requested => reload # "idle"
    /\ stale \subseteq pending \cup unavailable \cup toReload
    /\ reload \in {"attempt", "backoff"} =>
        /\ affected \subseteq pending
        /\ ~requested => stale \subseteq affected \cup unavailable \cup toReload
    /\ reload = "attempt" /\ ~requested => stale \subseteq mounting \cup toReload
    /\ reload \in {"idle", "loop", "apply"} /\ ~requested =>
        stale \subseteq unavailable \cup toReload
    /\ toReload \subseteq stale /\ stale \subseteq Profiles

(* StaleHeld: a worker that predates the chosen mount is never admitted to,  *)
(* however commands, failed reloads and retries overlap.                     *)
THEOREM StaleHeld == Spec => []StaleIsHeld
<1>1. Init => HoldInv
  BY DEF Init, HoldInv
<1>2. ASSUME HoldInv, [Next]_vars PROVE HoldInv'
  <2>. USE <1>2 DEF HoldInv
  <2>1. CASE UNCHANGED lifecycleVars
    BY <2>1 DEF lifecycleVars, gateVars, reloadVars, mountVars
  <2>2. CASE PolicyAny
    BY <2>2 DEF PolicyAny, PolicyChanged, LoopFree, reloadVars
  <2>3. CASE ListenerSchedules
    BY <2>3 DEF ListenerSchedules, ScheduleReload, mountVars
  <2>4. CASE DevicesChanged
    BY <2>4 DEF DevicesChanged, ScheduleReload, LoopFree
  <2>5. CASE ReloadRound
    BY <2>5 DEF ReloadRound, BeginAttempt, ReloadStep, LoopFree
  <2>6. CASE ReloadDone
    BY <2>6 DEF ReloadDone, ReloadStep, LoopFree, mountVars
  <2>7. CASE AttemptSucceeds
    BY <2>7 DEF AttemptSucceeds, ReloadStep, LoopFree
  <2>8. CASE AttemptFails
    BY <2>8 DEF AttemptFails, ReloadStep, LoopFree
  <2>9. CASE Retry
    BY <2>9 DEF Retry, BeginAttempt, ReloadStep, LoopFree
  <2>10. CASE Reloaded
    BY <2>10 DEF Reloaded, ReloadStep, LoopFree, mountVars
  <2>11. JobStep \/ PumpStep \/ Pressure \/ UNCHANGED vars => UNCHANGED lifecycleVars
    BY DEF JobStep, PumpStep, Pressure, vars
  <2>. QED
    BY <2>1, <2>2, <2>3, <2>4, <2>5, <2>6, <2>7, <2>8, <2>9, <2>10, <2>11
    DEF Next, ReloadTask
<1>3. HoldInv => StaleIsHeld
  BY DEF HoldInv, StaleIsHeld, Admits
<1>. QED BY <1>1, <1>2, <1>3, PTL DEF Spec

(* What the refinement needs of the state: the mapped gate is a set of       *)
(* profiles and the pool's history flag is a Boolean.                        *)
GateInv == permitted \subseteq Profiles /\ quiet \in BOOLEAN

LEMMA GateTyped == Spec => []GateInv
<1>1. Init => GateInv
  BY DEF Init, GateInv, Pool!Init
<1>2. ASSUME GateInv, [Next]_vars PROVE GateInv'
  <2>. USE <1>2 DEF GateInv
  <2>1. quiet' \in BOOLEAN
    <3>1. CASE JobStep
      BY <3>1 DEF JobStep, Pool!TaskStep, Pool!Submit, Pool!Acquire, Pool!AcquireRefused,
         Pool!Resume, Pool!Finish, Pool!Cancel, Pool!NeverStarted, Pool!Unwind
    <3>2. CASE PumpStep \/ Pressure
      BY <3>2 DEF PumpStep, Pressure, Pool!Pump, Pool!PumpEnd, Pool!PumpServe,
         Pool!PressureChange
    <3>3. CASE PolicyAny
      BY <3>3 DEF PolicyAny, PolicyChanged, Pool!Kick
    <3>4. CASE ListenerSchedules \/ DevicesChanged \/ ReloadTask
      <4>1. Regate
        BY <3>4 DEF ListenerSchedules, DevicesChanged, ReloadTask, ReloadRound, ReloadDone,
           AttemptSucceeds, AttemptFails, Retry, Reloaded, ReloadStep
      <4>. QED BY <4>1 DEF Regate
    <3>5. CASE UNCHANGED vars
      BY <3>5 DEF vars, poolVars
    <3>. QED BY <3>1, <3>2, <3>3, <3>4, <3>5 DEF Next
  <2>2. permitted' \subseteq Profiles
    BY DEF Next, vars, lifecycleVars, gateVars, JobStep, PumpStep, Pressure, PolicyAny,
       PolicyChanged, ListenerSchedules, DevicesChanged, ScheduleReload, ReloadTask,
       ReloadRound, ReloadDone, AttemptSucceeds, AttemptFails, Retry, Reloaded, ReloadStep
  <2>. QED BY <2>1, <2>2
<1>. QED BY <1>1, <1>2, PTL DEF Spec

(* PoolRefined: the composition implements the pool, with `admitted` read as *)
(* service._admits: the listener and the reload task only ever kick the pool *)
(* or move its gate, and never while a pump is on the stack.                 *)
THEOREM PoolRefined == Spec => PoolSpec
<1>1. Init => Pool!Init
  BY DEF Init
<1>2. ASSUME GateInv, GateInv', [Next]_vars PROVE [Pool!Next]_(Pool!vars)
  <2>. USE <1>2 DEF GateInv
  <2>0. Admits' \in SUBSET Profiles
    BY DEF Admits
  <2>1. CASE JobStep
    BY <2>1 DEF JobStep, Pool!Next
  <2>2. CASE PumpStep
    BY <2>2 DEF PumpStep, Pool!Next
  <2>3. CASE Pressure
    BY <2>3 DEF Pressure, Pool!Next
  <2>4. CASE PolicyAny
    <3>1. PICK w \in [Profiles -> Weights] : Pool!Kick(Admits', w)
      BY <2>4 DEF PolicyAny, PolicyChanged
    <3>. QED BY <2>0, <3>1 DEF Pool!Next, Pool!KickAny
  <2>5. CASE ListenerSchedules \/ DevicesChanged \/ ReloadTask
    <3>1. Regate /\ ~pumping
      BY <2>5 DEF ListenerSchedules, DevicesChanged, ReloadTask, ReloadRound, ReloadDone,
         AttemptSucceeds, AttemptFails, Retry, Reloaded, ReloadStep
    <3>2. CASE Admits' = Admits
      BY <3>1, <3>2 DEF Regate, Pool!vars, Pool!tasks, Pool!policy
    <3>3. CASE Admits' # Admits
      <4>1. Pool!Gate(Admits')
        BY <3>1, <3>3 DEF Regate, Pool!Gate, Pool!tasks
      <4>. QED BY <2>0, <4>1 DEF Pool!Next, Pool!GateAny
    <3>. QED BY <3>2, <3>3
  <2>6. CASE UNCHANGED vars
    BY <2>6 DEF vars, poolVars, lifecycleVars, gateVars, Admits, Pool!vars, Pool!tasks,
       Pool!policy
  <2>. QED BY <2>1, <2>2, <2>3, <2>4, <2>5, <2>6 DEF Next
<1>. QED BY <1>1, <1>2, GateTyped, PTL DEF Spec, PoolSpec, Pool!Spec

-----------------------------------------------------------------------------
(* The low-light outputs.                                                    *)

(* A job that has loaded its workspace keeps two directories of the file     *)
(* system, and one that has prepared its input keeps where that was.         *)
Spaces == [input : Dirs, output : Dirs]
Places == Dirs \X Names
Codes == {"none", "configuration-invalid", "input-invalid", "input-decode-failed",
          "inference-failed", "published", "output-unavailable", "output-exists"}
WorkRecords == [stage : {"idle", "done", "loaded", "prepared", "enhanced", "writing"},
                space : Spaces \cup {Photos!Unset}, at : Places \cup {Photos!Nowhere}, told : Codes]
WorkHeld ==
    /\ resolves \in [Dirs -> Dirs]
    /\ settings \in Spaces \cup {Photos!Unset}
    /\ work \in [PhotoJobs -> WorkRecords]
    /\ \A j \in PhotoJobs :
           /\ work[j].stage \in {"loaded", "prepared", "enhanced", "writing"} => work[j].space \in Spaces
           /\ work[j].stage \in {"prepared", "enhanced", "writing"} => work[j].at \in Places

(* What was placed is the enhancement of something, so that no link finds    *)
(* its place empty again.                                                    *)
FilesHeld ==
    /\ files \in [Places -> [of : Places \cup {Photos!Nowhere}, enhanced : BOOLEAN]]
    /\ \A p \in placed : p[1] \in Places /\ p[2].enhanced

PhotosInv == WorkHeld /\ FilesHeld /\ Photos!NothingOverwritten

LEMMA PhotosStart == Photos!PhotographsAssumption /\ Photos!Init => PhotosInv
<1>. SUFFICES ASSUME Photos!PhotographsAssumption, Photos!Init PROVE PhotosInv
  OBVIOUS
<1>. USE DEF Photos!Init, Photos!Unset, Photos!Nowhere, Photos!Absent, Photos!NoWork,
             Photos!PhotographsAssumption
<1>1. WorkHeld
  BY DEF WorkHeld, WorkRecords, Spaces, Codes
<1>2. FilesHeld
  BY DEF FilesHeld, Places
<1>3. Photos!NothingOverwritten
  BY DEF Photos!NothingOverwritten
<1>. QED BY <1>1, <1>2, <1>3 DEF PhotosInv

(* Work that failed or is over.                                              *)
LEMMA OverIsHeld ==
    ASSUME WorkHeld, NEW j \in PhotoJobs, NEW code \in Codes, Photos!Fails(j, code),
           UNCHANGED <<resolves, settings>>
    PROVE  WorkHeld'
BY DEF Codes, WorkHeld, WorkRecords, Spaces, Photos!Fails, Photos!NoWork, Photos!Unset, Photos!Nowhere

LEMMA WorkKept == ASSUME WorkHeld, Photos!Next PROVE WorkHeld'
<1>. USE DEF Photos!Unset, Photos!Nowhere, Photos!NoWork, Spaces, Places, Codes
<1>1. ASSUME NEW i \in Dirs, NEW o \in Dirs, Photos!Configure(i, o) \/ Photos!Relink(i, o)
      PROVE  WorkHeld'
  BY <1>1 DEF WorkHeld, Photos!Configure, Photos!Relink
<1>2. ASSUME NEW j \in PhotoJobs, Photos!Load(j) PROVE WorkHeld'
  <2>1. CASE Photos!Valid(settings) /\ Photos!Canonical(settings)
    <3>1. work' = [work EXCEPT ![j] = [Photos!NoWork EXCEPT !.stage = "loaded", !.space = settings]]
      BY <1>2, <2>1 DEF Photos!Load
    <3>2. settings \in Spaces
      BY <1>2 DEF Photos!Load, WorkHeld
    <3>. DEFINE new == [Photos!NoWork EXCEPT !.stage = "loaded", !.space = settings]
    <3>3. new \in WorkRecords /\ new.stage = "loaded" /\ new.space = settings
      BY <3>2 DEF WorkRecords
    <3>. HIDE DEF new
    <3>4. work' = [work EXCEPT ![j] = new] /\ UNCHANGED <<resolves, settings>>
      BY <1>2, <3>1 DEF Photos!Load, new
    <3>. QED BY <3>2, <3>3, <3>4 DEF WorkHeld
  <2>2. CASE ~(Photos!Valid(settings) /\ Photos!Canonical(settings))
    <3>1. Photos!Fails(j, "configuration-invalid")
      BY <1>2, <2>2 DEF Photos!Load, Photos!Fails
    <3>. QED BY <1>2, <3>1, OverIsHeld DEF Photos!Load
  <2>. QED BY <2>1, <2>2
<1>3. ASSUME NEW j \in PhotoJobs, Photos!Undecodable(j) \/ Photos!EnhanceFails(j) PROVE WorkHeld'
  BY <1>3, OverIsHeld DEF Photos!Undecodable, Photos!EnhanceFails
<1>4. ASSUME NEW j \in PhotoJobs, Photos!Enhance(j) PROVE WorkHeld'
  BY <1>4 DEF Photos!Enhance, WorkHeld, WorkRecords
<1>5. ASSUME NEW j \in PhotoJobs, Photos!PublishChecks(j) PROVE WorkHeld'
  <2>1. CASE Photos!Valid(work[j].space) /\ Photos!SourceIn(work[j].space, work[j].at)
    <3>1. work' = [work EXCEPT ![j].stage = "writing",
                               ![j].space.output = resolves[work[j].space.output]]
      BY <1>5, <2>1 DEF Photos!PublishChecks
    <3>2. work[j].space \in Spaces /\ work[j].at \in Places
      BY <1>5 DEF Photos!PublishChecks, WorkHeld
    <3>. DEFINE old == work[j]
                new == [old EXCEPT !.stage = "writing", !.space.output = resolves[old.space.output]]
    <3>3. old \in WorkRecords /\ resolves[old.space.output] \in Dirs
      BY <3>2 DEF WorkHeld
    <3>4. work' = [work EXCEPT ![j] = new] /\ UNCHANGED <<resolves, settings>>
      BY <1>5, <3>1 DEF Photos!PublishChecks, WorkHeld
    <3>. HIDE DEF old
    <3>5. new.space \in Spaces
      BY <3>2, <3>3 DEF WorkRecords, old
    <3>6. new \in WorkRecords /\ new.stage = "writing" /\ new.at = old.at
      BY <3>3, <3>5 DEF WorkRecords
    <3>. HIDE DEF new
    <3>. QED BY <3>2, <3>4, <3>5, <3>6 DEF WorkHeld, old
  <2>2. CASE ~(Photos!Valid(work[j].space) /\ Photos!SourceIn(work[j].space, work[j].at))
    BY <1>5, <2>2, OverIsHeld DEF Photos!PublishChecks
  <2>. QED BY <2>1, <2>2
<1>6. ASSUME NEW j \in PhotoJobs, Photos!Again(j) PROVE WorkHeld'
  BY <1>6 DEF Photos!Again, WorkHeld, WorkRecords
<1>7. ASSUME NEW j \in PhotoJobs, NEW d \in Dirs, NEW n \in Names, Photos!Prepare(j, <<d, n>>)
      PROVE  WorkHeld'
  <2>1. CASE Photos!Valid(work[j].space) /\ Photos!SourceIn(work[j].space, <<d, n>>)
    BY <1>7, <2>1 DEF Photos!Prepare, WorkHeld, WorkRecords
  <2>2. CASE ~(Photos!Valid(work[j].space) /\ Photos!SourceIn(work[j].space, <<d, n>>))
    BY <1>7, <2>2, OverIsHeld DEF Photos!Prepare
  <2>. QED BY <2>1, <2>2
<1>8. ASSUME NEW j \in PhotoJobs, NEW synced \in BOOLEAN, Photos!PublishWrites(j, synced)
      PROVE  WorkHeld'
  <2>1. PICK code \in Codes : Photos!Fails(j, code)
    BY <1>8 DEF Photos!PublishWrites
  <2>. QED BY <1>8, <2>1, OverIsHeld DEF Photos!PublishWrites
<1>. QED BY <1>1, <1>2, <1>3, <1>4, <1>5, <1>6, <1>7, <1>8 DEF Photos!Next

(* The one step that writes a file writes where there was none.              *)
LEMMA FilesKept ==
    ASSUME Photos!PhotographsAssumption, PhotosInv, Photos!Next
    PROVE  FilesHeld' /\ Photos!NothingOverwritten'
<1>1. CASE UNCHANGED <<files, placed>>
  BY <1>1 DEF PhotosInv, FilesHeld, Photos!NothingOverwritten
<1>2. ASSUME NEW j \in PhotoJobs, NEW synced \in BOOLEAN, Photos!PublishWrites(j, synced),
             ~UNCHANGED <<files, placed>>
      PROVE  FilesHeld' /\ Photos!NothingOverwritten'
  <2>. DEFINE target == <<resolves[work[j].space.output], work[j].at[2]>>
              content == [of |-> work[j].at, enhanced |-> TRUE]
  <2>1. /\ files[target] = Photos!Absent
        /\ files' = [files EXCEPT ![target] = content]
        /\ placed' = placed \cup {<<target, content>>}
    BY <1>2 DEF Photos!PublishWrites, Photos!MayLink
  <2>2. work[j].space \in Spaces /\ work[j].at \in Places
    BY <1>2 DEF PhotosInv, WorkHeld, Photos!PublishWrites
  <2>3. target \in Places
    BY <2>2 DEF PhotosInv, WorkHeld, Spaces, Places
  <2>4. content \in [of : Places \cup {Photos!Nowhere}, enhanced : BOOLEAN] /\ content.enhanced
    BY <2>2
  <2>. HIDE DEF target, content
  <2>5. FilesHeld'
    BY <2>1, <2>3, <2>4 DEF PhotosInv, FilesHeld
  <2>6. \A at \in Places : files'[at] = IF at = target THEN content ELSE files[at]
    BY <2>1, <2>3 DEF PhotosInv, FilesHeld
  <2>7. ~Photos!Absent.enhanced /\ \A at \in Photographs : at \in Places /\ at # Photos!Nowhere
    BY DEF Photos!Absent, Photos!PhotographsAssumption, Photos!Nowhere, Places
  <2>8. ASSUME NEW at \in Photographs PROVE at # target
    <3>1. files[at] = [of |-> at, enhanced |-> FALSE]
      BY DEF PhotosInv, Photos!NothingOverwritten
    <3>3. files[at].of = at
      BY <3>1
    <3>2. files[target].of = Photos!Nowhere
      BY <2>1 DEF Photos!Absent
    <3>. QED BY <2>7, <3>2, <3>3
  <2>9. \A p \in placed : p[1] # target /\ p[1] \in Places
    BY <2>1, <2>7 DEF PhotosInv, Photos!NothingOverwritten, FilesHeld
  <2>10. \A at \in Photographs : files'[at] = [of |-> at, enhanced |-> FALSE]
    BY <2>6, <2>7, <2>8 DEF PhotosInv, Photos!NothingOverwritten
  <2>11. \A p \in placed' : files'[p[1]] = p[2]
    BY <2>1, <2>3, <2>6, <2>9 DEF PhotosInv, Photos!NothingOverwritten
  <2>. QED BY <2>5, <2>10, <2>11 DEF Photos!NothingOverwritten
<1>3. UNCHANGED <<files, placed>> \/ \E j \in PhotoJobs, synced \in BOOLEAN : Photos!PublishWrites(j, synced)
  BY DEF Photos!Next, Photos!Configure, Photos!Relink, Photos!Load, Photos!Undecodable,
     Photos!Enhance, Photos!EnhanceFails, Photos!PublishChecks, Photos!Again, Photos!Prepare
<1>. QED BY <1>1, <1>2, <1>3

(* PhotosAreKept: for every tree of folders and any number of jobs, no       *)
(* original and no output is overwritten, wherever the folders are pointed   *)
(* between the checks and the write.                                         *)
THEOREM PhotosAreKept == Photos!Spec => []NothingOverwritten
<1>. USE LowLightAssumption
<1>1. Photos!Init => PhotosInv
  BY PhotosStart
<1>2. PhotosInv /\ [Photos!Next]_(Photos!lowLightVars) => PhotosInv'
  <2>1. ASSUME PhotosInv, Photos!Next PROVE PhotosInv'
    BY <2>1, WorkKept, FilesKept DEF PhotosInv
  <2>2. ASSUME PhotosInv, UNCHANGED Photos!lowLightVars PROVE PhotosInv'
    BY <2>2 DEF PhotosInv, WorkHeld, FilesHeld, Photos!NothingOverwritten, Photos!lowLightVars
  <2>. QED BY <2>1, <2>2
<1>3. PhotosInv => Photos!NothingOverwritten
  BY DEF PhotosInv
<1>. QED BY <1>1, <1>2, <1>3, PTL DEF Photos!Spec, NothingOverwritten

-----------------------------------------------------------------------------
(* The collectors: what was accepted is queued, and an output amended by the *)
(* churn of the next one is the next one.                                    *)

Readings == Samples \cup {Collector!NoSample}
Snapshots == [ItemIds -> Readings]
TriggerKeys == ({"event"} \X Events) \cup {<<"periodic", ToString(n)>> : n \in Nat}

(* What a collection holds between its snapshot and its output: the churn    *)
(* is that from the last output to the items, on the ids it may speak of.    *)
ChurnHeld ==
    collecting.stage = "writing" =>
        /\ collecting.items \in Snapshots /\ collecting.scope \subseteq ItemIds
        /\ collecting.churn =
               Collector!Churn([i \in ItemIds |-> IF i \in collecting.scope THEN previous[i]
                                                                            ELSE Collector!NoSample],
                               collecting.items)

KeysQueued == \A key \in keys : Contains(awaiting, key)
OwedQueued == \A key \in owed : Contains(awaiting, key)

(* What is compared with is what was given last, but for what refused        *)
(* outputs replaced.                                                         *)
ComparedIsShown ==
    /\ previous \in Snapshots /\ shown.items \in Snapshots
    /\ \A i \in ItemIds \ unsaid : ~Collector!Differs(shown.items[i], previous[i])

CollectionInv ==
    /\ awaiting \in Seq(TriggerKeys) /\ period \in Nat
    /\ KeysQueued /\ OwedQueued
    /\ ComparedIsShown
    /\ ChurnHeld
    /\ Collector!ChurnIsTransactional

LEMMA ReadingsSay == ASSUME Collector!SamplesAssumption, NEW r \in Readings PROVE r.there \in BOOLEAN
<1>1. Collector!NoSample.there = FALSE
  BY DEF Collector!NoSample
<1>. QED BY <1>1 DEF Readings, Collector!SamplesAssumption

(* No sample differs from itself, and to say the same is transitive.         *)
LEMMA SaysTheSame ==
    ASSUME Collector!SamplesAssumption, NEW r \in Readings, NEW s \in Readings, NEW t \in Readings
    PROVE  /\ ~Collector!Differs(r, r)
           /\ ~Collector!Differs(r, s) /\ ~Collector!Differs(s, t) => ~Collector!Differs(r, t)
<1>1. r.there \in BOOLEAN /\ s.there \in BOOLEAN /\ t.there \in BOOLEAN
  BY ReadingsSay
<1>. QED BY <1>1 DEF Collector!Differs, Collector!Changed

(* Nothing is there in either, so nothing differs.                           *)
LEMMA NothingDiffers ==
    /\ Collector!Nothing \in Snapshots
    /\ \A i \in ItemIds : ~Collector!Differs(Collector!Nothing[i], Collector!Nothing[i])
BY DEF Collector!Nothing, Snapshots, Readings, Collector!Differs, Collector!Changed

LEMMA CollectionStarts == Collector!Init => CollectionInv
<1>. SUFFICES ASSUME Collector!Init PROVE CollectionInv
  OBVIOUS
<1>1. ComparedIsShown
  BY NothingDiffers DEF Collector!Init, ComparedIsShown, Collector!NotShown
<1>2. ChurnHeld /\ Collector!ChurnIsTransactional
  BY DEF Collector!Init, ChurnHeld, Collector!Idle, Collector!NotShown, Collector!ChurnIsTransactional
<1>. QED BY <1>1, <1>2 DEF Collector!Init, CollectionInv, KeysQueued, OwedQueued

(* An append queues the key and keeps the others.                            *)
LEMMA AppendQueues ==
    ASSUME NEW S, NEW s \in Seq(S), NEW key \in S
    PROVE  /\ Append(s, key) \in Seq(S)
           /\ Contains(Append(s, key), key)
           /\ \A k : Contains(s, k) => Contains(Append(s, key), k)
<1>1. /\ Append(s, key) \in Seq(S) /\ Len(Append(s, key)) = Len(s) + 1 /\ Len(s) \in Nat
      /\ Append(s, key)[Len(s) + 1] = key
      /\ \A i \in 1 .. Len(s) : Append(s, key)[i] = s[i]
  OBVIOUS
<1>2. \A i \in 1 .. Len(s) : i \in 1 .. Len(s) + 1
  BY <1>1
<1>. HIDE DEF Contains
<1>3. Contains(Append(s, key), key)
  BY <1>1 DEF Contains
<1>4. ASSUME NEW k, Contains(s, k) PROVE Contains(Append(s, key), k)
  <2>1. PICK i \in 1 .. Len(s) : s[i] = k
    BY <1>4 DEF Contains
  <2>. QED BY <1>1, <1>2, <2>1 DEF Contains
<1>. QED BY <1>1, <1>3, <1>4

(* Taking the head leaves every other key queued.                            *)
LEMMA TailQueues ==
    ASSUME NEW S, NEW s \in Seq(S), s # <<>>
    PROVE  /\ Tail(s) \in Seq(S)
           /\ \A k : Contains(s, k) /\ k # Head(s) => Contains(Tail(s), k)
<1>1. /\ Tail(s) \in Seq(S) /\ Len(s) \in Nat /\ Len(Tail(s)) = Len(s) - 1 /\ Head(s) = s[1]
      /\ \A i \in 1 .. Len(s) - 1 : Tail(s)[i] = s[i + 1]
  OBVIOUS
<1>2. ASSUME NEW k, Contains(s, k), k # Head(s) PROVE Contains(Tail(s), k)
  <2>1. PICK i \in 1 .. Len(s) : s[i] = k
    BY <1>2 DEF Contains
  <2>2. i # 1
    BY <1>1, <1>2, <2>1
  <2>3. i - 1 \in 1 .. Len(s) - 1 /\ (i - 1) + 1 = i
    BY <1>1, <2>1, <2>2
  <2>4. Tail(s)[i - 1] = s[i]
    BY <1>1, <2>3
  <2>. QED BY <1>1, <2>1, <2>3, <2>4 DEF Contains
<1>. QED BY <1>1, <1>2

(* A step that leaves the outputs alone, and the collection under way or      *)
(* none, keeps what is known of them.                                        *)
LEMMA OutputsKept ==
    ASSUME CollectionInv, UNCHANGED <<family, previous, shown, told, unsaid>>,
           collecting' = collecting \/ collecting'.stage # "writing"
    PROVE  ComparedIsShown' /\ ChurnHeld' /\ Collector!ChurnIsTransactional'
<1>1. ComparedIsShown'
  BY DEF CollectionInv, ComparedIsShown, Collector!Differs, Collector!Changed
<1>2. Collector!ChurnIsTransactional'
  BY DEF CollectionInv, Collector!ChurnIsTransactional, Collector!Differs, Collector!Changed
<1>3. ChurnHeld'
  BY DEF CollectionInv, ChurnHeld, Collector!Churn, Collector!Changed
<1>. QED BY <1>1, <1>2, <1>3

LEMMA SubmitKeeps ==
    ASSUME CollectionInv, NEW key \in TriggerKeys, Collector!Submit(key), period' \in Nat
    PROVE  CollectionInv'
<1>1. UNCHANGED <<family, collecting, previous, shown, told, unsaid>>
  BY DEF Collector!Submit
<1>2. ComparedIsShown' /\ ChurnHeld' /\ Collector!ChurnIsTransactional'
  BY <1>1, OutputsKept
<1>3. awaiting \in Seq(TriggerKeys) /\ KeysQueued /\ OwedQueued
  BY DEF CollectionInv
<1>4. awaiting' \in Seq(TriggerKeys) /\ KeysQueued' /\ OwedQueued'
  <2>1. CASE key \in keys
    BY <1>3, <2>1 DEF Collector!Submit, KeysQueued, OwedQueued
  <2>2. CASE key \notin keys /\ UNCHANGED <<owed, awaiting, keys>>
    BY <1>3, <2>2 DEF KeysQueued, OwedQueued
  <2>3. CASE /\ key \notin keys /\ owed' = owed \cup {key} /\ awaiting' = Append(awaiting, key)
             /\ keys' = keys \cup {key}
    <3>1. /\ awaiting' \in Seq(TriggerKeys) /\ Contains(awaiting', key)
          /\ \A k : Contains(awaiting, k) => Contains(awaiting', k)
      BY <1>3, <2>3, AppendQueues
    <3>. QED BY <1>3, <2>3, <3>1 DEF KeysQueued, OwedQueued
  <2>. QED BY <2>1, <2>2, <2>3 DEF Collector!Submit
<1>. QED BY <1>2, <1>4 DEF CollectionInv

LEMMA CollectNextKeeps == CollectionInv /\ Collector!CollectNext => CollectionInv'
<1>. SUFFICES ASSUME CollectionInv, Collector!CollectNext PROVE CollectionInv'
  OBVIOUS
<1>1. UNCHANGED <<family, previous, shown, told, unsaid, period>> /\ collecting'.stage # "writing"
  BY DEF Collector!CollectNext, Collector!Idle
<1>2. ComparedIsShown' /\ ChurnHeld' /\ Collector!ChurnIsTransactional' /\ period' \in Nat
  BY <1>1, OutputsKept DEF CollectionInv
<1>3. awaiting \in Seq(TriggerKeys) /\ awaiting # <<>> /\ KeysQueued /\ OwedQueued
  BY DEF CollectionInv, Collector!CollectNext
<1>4. /\ awaiting' = Tail(awaiting) /\ keys' = keys \ {Head(awaiting)} /\ owed' = owed \ {Head(awaiting)}
  BY DEF Collector!CollectNext, Collector!KeysAfter
<1>5. /\ awaiting' \in Seq(TriggerKeys)
      /\ \A k : Contains(awaiting, k) /\ k # Head(awaiting) => Contains(awaiting', k)
  BY <1>3, <1>4, TailQueues
<1>6. KeysQueued' /\ OwedQueued'
  BY <1>3, <1>4, <1>5 DEF KeysQueued, OwedQueued
<1>. QED BY <1>2, <1>5, <1>6 DEF CollectionInv

(* The queue is no concern of a collection under way.                        *)
LEMMA QueueKept ==
    ASSUME CollectionInv, UNCHANGED <<awaiting, keys, owed, period>>
    PROVE  awaiting' \in Seq(TriggerKeys) /\ period' \in Nat /\ KeysQueued' /\ OwedQueued'
BY DEF CollectionInv, KeysQueued, OwedQueued

LEMMA SnapshotKeeps ==
    ASSUME CollectionInv, NEW seen \in Snapshots, Collector!ReadSnapshot(seen)
    PROVE  CollectionInv'
<1>1. UNCHANGED <<family, awaiting, keys, owed, period, shown, told, previous, unsaid>>
  BY DEF Collector!ReadSnapshot, Collector!Remembered
<1>2. ComparedIsShown' /\ Collector!ChurnIsTransactional'
  BY <1>1 DEF CollectionInv, ComparedIsShown, Collector!ChurnIsTransactional, Collector!Differs,
              Collector!Changed
<1>. DEFINE may == {i \in ItemIds : Collector!MayEmit(i)}
            items == [i \in ItemIds |-> IF i \in may THEN seen[i] ELSE Collector!NoSample]
            before == [i \in ItemIds |-> IF i \in may THEN previous[i] ELSE Collector!NoSample]
<1>3. \/ collecting' = Collector!Idle
      \/ collecting' = [stage |-> "writing", items |-> items, scope |-> may,
                        churn |-> Collector!Churn(before, items)]
  BY DEF Collector!ReadSnapshot
<1>4. items \in Snapshots /\ may \subseteq ItemIds
  BY DEF Snapshots, Readings
<1>5. CASE collecting' = Collector!Idle
  <2>1. ChurnHeld'
    BY <1>5 DEF ChurnHeld, Collector!Idle
  <2>. QED BY <1>1, <1>2, <2>1, QueueKept DEF CollectionInv
<1>6. CASE collecting' = [stage |-> "writing", items |-> items, scope |-> may,
                          churn |-> Collector!Churn(before, items)]
  <2>. HIDE DEF may, items
  <2>1. /\ collecting'.items = items /\ collecting'.scope = may
        /\ collecting'.churn = Collector!Churn(before, items)
    BY <1>6
  <2>2. before = [i \in ItemIds |-> IF i \in collecting'.scope THEN previous'[i] ELSE Collector!NoSample]
    BY <1>1, <2>1
  <2>. HIDE DEF before
  <2>3. ChurnHeld'
    BY <1>1, <1>4, <2>1, <2>2 DEF ChurnHeld, Collector!Churn, Collector!Changed
  <2>. QED BY <1>1, <1>2, <2>3, QueueKept DEF CollectionInv
<1>. QED BY <1>3, <1>5, <1>6

(* The churn of a collection says how its output differs from what it was    *)
(* compared with, for every id that the output speaks of.                    *)
LEMMA ChurnSays ==
    ASSUME Collector!SamplesAssumption, CollectionInv, collecting.stage = "writing",
           NEW i \in collecting.scope, NEW old, NEW new,
           old = previous[i], new = collecting.items[i]
    PROVE  /\ i \in ItemIds /\ old \in Readings /\ new \in Readings
           /\ i \in collecting.churn.added <=> new.there /\ ~old.there
           /\ i \in collecting.churn.removed <=> old.there /\ ~new.there
           /\ i \in collecting.churn.changed <=> old.there /\ new.there /\ Collector!Changed(old, new)
<1>. DEFINE before == [x \in ItemIds |-> IF x \in collecting.scope THEN previous[x] ELSE Collector!NoSample]
<1>1. /\ collecting.items \in Snapshots /\ collecting.scope \subseteq ItemIds /\ previous \in Snapshots
      /\ collecting.churn = Collector!Churn(before, collecting.items)
  BY DEF CollectionInv, ChurnHeld, ComparedIsShown
<1>2. i \in ItemIds /\ old \in Readings /\ new \in Readings
  BY <1>1 DEF Snapshots
<1>3. before[i] = old
  BY <1>2
<1>. HIDE DEF before
<1>4. /\ i \in collecting.churn.added <=> new.there /\ ~old.there
      /\ i \in collecting.churn.removed <=> old.there /\ ~new.there
      /\ i \in collecting.churn.changed <=> old.there /\ new.there /\ Collector!Changed(old, new)
  BY <1>1, <1>2, <1>3 DEF Collector!Churn
<1>. QED BY <1>2, <1>4

(* The churn told with an output makes its predecessor equal to it, for      *)
(* every id that the output could speak of and no refused one spoke of.      *)
LEMMA EmitKeeps ==
    ASSUME Collector!SamplesAssumption, CollectionInv, Collector!Emit
    PROVE  CollectionInv'
<1>1. /\ UNCHANGED <<family, awaiting, keys, owed, period>> /\ collecting.stage = "writing"
      /\ previous' = collecting.items
      /\ shown' = [items |-> collecting.items, scope |-> collecting.scope, unsaid |-> unsaid]
      /\ collecting' = Collector!Idle
  BY DEF Collector!Emit
<1>2. ChurnHeld'
  BY <1>1 DEF ChurnHeld, Collector!Idle
<1>3. collecting.items \in Snapshots /\ collecting.scope \subseteq ItemIds /\ shown.items \in Snapshots
  BY <1>1 DEF CollectionInv, ChurnHeld, ComparedIsShown
<1>4. ASSUME NEW i \in collecting.scope \ unsaid
      PROVE  ~Collector!Differs(told'[i], collecting.items[i])
  <2>1. PICK old, new, last : old = previous[i] /\ new = collecting.items[i] /\ last = shown.items[i]
    OBVIOUS
  <2>2. /\ i \in ItemIds /\ old \in Readings /\ new \in Readings
        /\ i \in collecting.churn.added <=> new.there /\ ~old.there
        /\ i \in collecting.churn.removed <=> old.there /\ ~new.there
        /\ i \in collecting.churn.changed <=> old.there /\ new.there /\ Collector!Changed(old, new)
    BY <1>1, <2>1, ChurnSays
  <2>3. last \in Readings /\ ~Collector!Differs(last, old)
    BY <1>3, <2>1, <2>2 DEF CollectionInv, ComparedIsShown, Snapshots
  <2>4. old.there \in BOOLEAN /\ new.there \in BOOLEAN
    BY <2>2, ReadingsSay
  <2>5. told'[i] = IF i \in collecting.churn.added \cup collecting.churn.changed THEN new
                   ELSE IF i \in collecting.churn.removed THEN Collector!NoSample ELSE last
    BY <2>1, <2>2 DEF Collector!Emit
  <2>6. CASE told'[i] = new
    BY <2>1, <2>2, <2>6, SaysTheSame
  <2>7. CASE told'[i] = Collector!NoSample /\ i \in collecting.churn.removed
    <3>1. Collector!NoSample.there = FALSE /\ new.there = FALSE
      BY <2>2, <2>4, <2>7 DEF Collector!NoSample
    <3>. HIDE DEF Collector!NoSample
    <3>. QED BY <2>1, <2>7, <3>1 DEF Collector!Differs
  <2>8. CASE told'[i] = last /\ i \notin collecting.churn.removed
                             /\ i \notin collecting.churn.added \cup collecting.churn.changed
    <3>1. ~Collector!Differs(old, new)
      BY <2>2, <2>4, <2>8 DEF Collector!Differs
    <3>2. ~Collector!Differs(last, new)
      BY <2>2, <2>3, <3>1, SaysTheSame
    <3>. QED BY <2>1, <2>8, <3>2
  <2>. QED BY <2>5, <2>6, <2>7, <2>8
<1>5. Collector!ChurnIsTransactional'
  <2>1. /\ shown'.items = collecting.items /\ shown'.scope = collecting.scope
        /\ shown'.unsaid = unsaid
    BY <1>1
  <2>. QED BY <1>1, <1>4, <2>1 DEF Collector!ChurnIsTransactional, Collector!Differs, Collector!Changed
<1>6. ComparedIsShown'
  <2>1. /\ previous' \in Snapshots /\ shown'.items = previous'
    BY <1>1, <1>3
  <2>2. ASSUME NEW i \in ItemIds PROVE ~Collector!Differs(collecting.items[i], collecting.items[i])
    <3>1. collecting.items[i] \in Readings
      BY <1>3 DEF Snapshots
    <3>. QED BY <3>1, SaysTheSame
  <2>. QED BY <1>1, <2>1, <2>2 DEF ComparedIsShown, Collector!Differs, Collector!Changed
<1>. QED BY <1>1, <1>2, <1>5, <1>6, QueueKept DEF CollectionInv

(* An output refused for its size leaves what it replaced unsaid.            *)
LEMMA TooLargeKeeps ==
    ASSUME Collector!SamplesAssumption, CollectionInv, Collector!EmitTooLarge
    PROVE  CollectionInv'
<1>1. /\ UNCHANGED <<family, awaiting, keys, owed, period, shown, told>> /\ collecting.stage = "writing"
      /\ previous' = collecting.items /\ collecting' = Collector!Idle
      /\ unsaid' = unsaid \cup {i \in ItemIds : Collector!Differs(previous[i], collecting.items[i])}
  BY DEF Collector!EmitTooLarge
<1>2. ChurnHeld'
  BY <1>1 DEF ChurnHeld, Collector!Idle
<1>3. Collector!ChurnIsTransactional'
  BY <1>1 DEF CollectionInv, Collector!ChurnIsTransactional, Collector!Differs, Collector!Changed
<1>4. collecting.items \in Snapshots /\ shown.items \in Snapshots /\ previous \in Snapshots
  BY <1>1 DEF CollectionInv, ChurnHeld, ComparedIsShown
<1>5. ASSUME NEW i \in ItemIds \ unsaid'
      PROVE  ~Collector!Differs(shown.items[i], collecting.items[i])
  <2>1. /\ ~Collector!Differs(shown.items[i], previous[i])
        /\ ~Collector!Differs(previous[i], collecting.items[i])
    BY <1>1, <1>5 DEF CollectionInv, ComparedIsShown
  <2>2. shown.items[i] \in Readings /\ previous[i] \in Readings /\ collecting.items[i] \in Readings
    BY <1>4 DEF Snapshots
  <2>. QED BY <2>1, <2>2, SaysTheSame
<1>6. ComparedIsShown'
  BY <1>1, <1>4, <1>5 DEF ComparedIsShown, Collector!Differs, Collector!Changed
<1>. QED BY <1>1, <1>2, <1>3, <1>6, QueueKept DEF CollectionInv

LEMMA CollectionStep ==
    ASSUME Collector!SamplesAssumption, CollectionInv, [Collector!Next]_Collector!collectionVars
    PROVE  CollectionInv'
<1>1. ASSUME UNCHANGED Collector!collectionVars PROVE CollectionInv'
  <2>1. UNCHANGED <<family, awaiting, keys, owed, period, collecting, previous, shown, told, unsaid>>
    BY <1>1 DEF Collector!collectionVars
  <2>. QED BY <2>1, OutputsKept, QueueKept DEF CollectionInv
<1>2. ASSUME NEW e \in Events, Collector!SubmitEvent(e) PROVE CollectionInv'
  <2>1. <<"event", e>> \in TriggerKeys
    BY DEF TriggerKeys
  <2>2. period' \in Nat
    BY <1>2 DEF Collector!SubmitEvent, CollectionInv
  <2>. QED BY <1>2, <2>1, <2>2, SubmitKeeps DEF Collector!SubmitEvent
<1>3. ASSUME Collector!Tick PROVE CollectionInv'
  <2>1. period + 1 \in Nat
    BY DEF CollectionInv
  <2>2. <<"periodic", ToString(period + 1)>> \in TriggerKeys
    BY <2>1 DEF TriggerKeys
  <2>. QED BY <1>3, <2>1, <2>2, SubmitKeeps DEF Collector!Tick
<1>4. ASSUME NEW seen \in [ItemIds -> Samples \cup {Collector!NoSample}], Collector!ReadSnapshot(seen)
      PROVE  CollectionInv'
  BY <1>4, SnapshotKeeps DEF Snapshots, Readings
<1>5. ASSUME \/ Collector!CollectFails
             \/ \E p \in {"metadata", "consent"} \cup ItemIds : Collector!Regrant(p)
      PROVE  CollectionInv'
  <2>1. /\ UNCHANGED <<family, awaiting, keys, owed, period, previous, shown, told, unsaid>>
        /\ collecting' = Collector!Idle \/ collecting' = collecting
    BY <1>5 DEF Collector!CollectFails, Collector!Regrant
  <2>2. collecting' = collecting \/ collecting'.stage # "writing"
    BY <2>1 DEF Collector!Idle
  <2>. QED BY <2>1, <2>2, OutputsKept, QueueKept DEF CollectionInv
<1>6. ASSUME Collector!SessionChanged PROVE CollectionInv'
  <2>1. /\ UNCHANGED <<family, awaiting, keys, owed, period, collecting>> /\ collecting.stage # "writing"
        /\ previous' = Collector!Nothing /\ shown' = Collector!NotShown /\ unsaid' = {}
    BY <1>6 DEF Collector!SessionChanged
  <2>2. shown'.items = Collector!Nothing /\ shown'.scope = {}
    BY <2>1 DEF Collector!NotShown
  <2>3. ChurnHeld' /\ Collector!ChurnIsTransactional'
    BY <2>1, <2>2 DEF ChurnHeld, Collector!ChurnIsTransactional
  <2>4. ComparedIsShown'
    BY <2>1, <2>2, NothingDiffers DEF ComparedIsShown, Collector!Differs, Collector!Changed
  <2>. QED BY <2>1, <2>3, <2>4, QueueKept DEF CollectionInv
<1>. QED BY <1>1, <1>2, <1>3, <1>4, <1>5, <1>6, CollectNextKeeps, EmitKeeps, TooLargeKeeps DEF Collector!Next

(* A collector misses nothing and repeats nothing: a trigger that was        *)
(* accepted or coalesced stays queued until a collection begins after it,    *)
(* and an output amended by the churn of the next is the next, whatever      *)
(* failed or was withdrawn between them, but for the ids that an output      *)
(* refused for its size spoke of (TriggerCoordinator.submit, collect_next,   *)
(* BoundedCollector.collect).                                                *)
THEOREM NothingIsMissed == Collector!Spec => []CollectionSound
<1>. USE CollectionAssumption
<1>1. Collector!Init => CollectionInv
  BY CollectionStarts
<1>2. CollectionInv /\ [Collector!Next]_Collector!collectionVars => CollectionInv'
  BY CollectionStep
<1>3. CollectionInv => Collector!CollectionSound
  BY DEF CollectionInv, OwedQueued, Collector!CollectionSound, Collector!NoEventMissed, Contains,
         Collector!Contains
<1>. QED BY <1>1, <1>2, <1>3, PTL DEF Collector!Spec, CollectionSound

-----------------------------------------------------------------------------
(* The files a job reads.  Three passes over a file agree on a content it    *)
(* never held only if it was rewritten within each of them without a trace.  *)

(* A file that is read from its beginning.                                   *)
BeginsAs(s, c) == s \in Seq(Nat) /\ Len(s) <= Len(c) /\ \A k \in 1 .. Len(s) : s[k] = c[k]

(* What a copy given to the worker may be.                                   *)
Whole(copy, i) == copy \in held[i] \/ unseen[i] >= 3

(* What the passes have read, of a file that now holds c, has held h, and    *)
(* was rewritten q times without a trace.                                    *)
PassesAgree(a, f, p, l, c, h, q) ==
    /\ a = "digest" => BeginsAs(f, c) \/ q >= 1
    /\ a = "copy" => f \in h \/ (q >= 1 /\ BeginsAs(p, c)) \/ q >= 2
    /\ a = "verify" => f \in h \/ p \in h \/ (q >= 2 /\ BeginsAs(l, c)) \/ q >= 3
    /\ a = "status" => f \in h \/ p \in h \/ l \in h \/ q >= 3

PassSteps == {"reuse", "digest", "copy", "verify", "status", "compare"}
Pass(a, s, cs, o, i, z, m, f, p, l) ==
    [at |-> a, sources |-> s, copies |-> cs, observed |-> o, inode |-> i, size |-> z, mtime |-> m,
     first |-> f, copy |-> p, last |-> l]

Listed(s, cs, o) ==
    /\ s \in Seq(Paths) /\ cs \in Seq(Seq(Nat)) /\ Len(cs) <= Len(s)
    /\ \A x \in o : x.inode \in Inodes /\ x.copy \in Seq(Nat) /\ Whole(x.copy, x.inode)

PassHolds(a, o, i, z, m, f, p, l) ==
    /\ i \in Inodes /\ z \in Nat /\ m \in Nat /\ m <= disk[i].mtime
    /\ f \in Seq(Nat) /\ p \in Seq(Nat) /\ l \in Seq(Nat)
    /\ Len(f) <= z /\ Len(l) <= z
    /\ a \in {"reuse", "digest"} => p = <<>>
    /\ a \in {"reuse", "digest", "copy"} => l = <<>>
    /\ a = "reuse" => \E x \in o : x.inode = i
    /\ m = disk[i].mtime => /\ Len(disk[i].content) = z
                            /\ PassesAgree(a, f, p, l, disk[i].content, held[i], unseen[i])
    /\ a = "compare" => f \in held[i] \/ p \in held[i] \/ l \in held[i] \/ unseen[i] >= 3

InQueue(x) == \E s \in Seq(Paths) : x = [at |-> "queued", sources |-> s]
Looking(x) ==
    \E s, cs, o : /\ x = [at |-> "look", sources |-> s, copies |-> cs, observed |-> o]
                  /\ Listed(s, cs, o) /\ Len(cs) < Len(s)
Staged(x) ==
    \E s, cs, o : /\ x = [at |-> "staged", sources |-> s, copies |-> cs, observed |-> o]
                  /\ Listed(s, cs, o) /\ Len(cs) = Len(s)
Opening(x) ==
    \E s, cs, o, i : /\ x = [at |-> "open", sources |-> s, copies |-> cs, observed |-> o, selected |-> i]
                     /\ Listed(s, cs, o) /\ Len(cs) < Len(s) /\ i \in Inodes
Passing(x) ==
    \E a \in PassSteps : \E s, cs, o, i, z, m, f, p, l :
        /\ x = Pass(a, s, cs, o, i, z, m, f, p, l)
        /\ Listed(s, cs, o) /\ Len(cs) < Len(s) /\ PassHolds(a, o, i, z, m, f, p, l)
StagingOf(x) ==
    \/ x = Inputs!NoStaging \/ x = [at |-> "failed"]
    \/ InQueue(x) \/ Looking(x) \/ Opening(x) \/ Passing(x) \/ Staged(x)

(* The files, and the copies in the private directory.                       *)
FilesHold ==
    /\ names \in [Paths -> Inodes \cup {Inputs!Gone}]
    /\ disk \in [Inodes -> [content : Seq(Nat), mtime : Nat]]
    /\ unseen \in [Inodes -> Nat]
    /\ held = [i \in Inodes |-> held[i]]
    /\ \A i \in Inodes : disk[i].content \in held[i]

Copies == [inode : Inodes, copy : Seq(Nat)]
DirHolds ==
    /\ dir = [there |-> dir.there, copies |-> dir.copies]
    /\ dir.there \in BOOLEAN /\ dir.copies \in Seq(Copies)
    /\ ~dir.there => dir.copies = <<>>
    /\ \A k \in DOMAIN dir.copies : Whole(dir.copies[k].copy, dir.copies[k].inode)

(* The directory is there while a job is to use it or a removal is due.      *)
StagingSteps == {"queued", "look", "open"} \cup PassSteps
TensorSteps == {"admitting", "accepted", "loading"}
JobHolds ==
    /\ \/ job = [at |-> "none"]
       \/ job = [at |-> job.at, kind |-> job.kind, inputs |-> job.inputs]
    /\ job.at \in {"none", "staging", "running", "abandoning", "shielded", "removing", "ended"} \cup TensorSteps
    /\ removal \in {"none", "queued", "running", "dropped"}
    /\ staging.at \in StagingSteps => job.at \in {"staging", "abandoning"}
    /\ job.at \in {"staging", "abandoning"} => removal = "none" /\ staging.at # "none" /\ job.kind = "files"
    /\ job.at \in {"none", "running"} \cup TensorSteps => removal = "none"
    /\ job.at \in {"removing", "shielded"} => removal \in {"queued", "running"}
    /\ job.at = "ended" => removal # "queued" /\ (removal = "none" => dir = Inputs!NoDir)
    /\ staging.at \in {"none", "queued", "failed"} => dir = Inputs!NoDir
    /\ staging.at \in {"none", "failed"} \/ staging.at \in StagingSteps \/ staging.at = "staged"
    /\ staging.at = "none" => staging = Inputs!NoStaging
    /\ job.at = "none" \/ job.at \in TensorSteps => staging.at = "none"
    /\ job.at = "running" => staging.at \in {"none", "staged"}
    /\ reading.at \in {"none", "open", "read", "digested"}
    /\ reading.at # "none" => /\ job.at \in {"admitting", "loading"}
                              /\ reading = [at |-> reading.at, ref |-> reading.ref, inode |-> reading.inode,
                                            got |-> reading.got]

(* Every source has its copy, and a tensor that runs is the declared one.    *)
InputsListed ==
    /\ job.at \in {"staging", "abandoning"} /\ staging.at \notin {"queued", "failed"} =>
          dir.there /\ Len(dir.copies) = Len(staging.copies)
    /\ job.at = "running" /\ job.kind = "files" /\ staging.at = "staged" => Len(job.inputs) = Len(staging.sources)
    /\ job.at = "running" /\ job.kind # "files" => job.inputs = reading.ref.sha256

InputsInv == FilesHold /\ StagingOf(staging) /\ DirHolds /\ JobHolds /\ InputsListed

LEMMA ReadsOn ==
    ASSUME NEW s, NEW c \in Seq(Nat), BeginsAs(s, c), Len(s) < Len(c)
    PROVE  BeginsAs(Append(s, c[Len(s) + 1]), c)
<1>1. PICK q : q = Append(s, c[Len(s) + 1])
  OBVIOUS
<1>2. s \in Seq(Nat) /\ Len(s) \in Nat /\ Len(c) \in Nat /\ c[Len(s) + 1] \in Nat
  BY DEF BeginsAs
<1>3. q \in Seq(Nat) /\ Len(q) = Len(s) + 1 /\ q[Len(s) + 1] = c[Len(s) + 1]
      /\ \A k \in 1 .. Len(s) : q[k] = s[k]
  BY <1>1, <1>2
<1>4. \A k \in 1 .. Len(q) : k \in 1 .. Len(s) \/ k = Len(s) + 1
  BY <1>2, <1>3
<1>5. \A k \in 1 .. Len(q) : q[k] = c[k]
  BY <1>3, <1>4 DEF BeginsAs
<1>6. Len(q) <= Len(c)
  BY <1>2, <1>3
<1>. QED BY <1>1, <1>3, <1>5, <1>6 DEF BeginsAs

LEMMA ReadToTheEnd ==
    ASSUME NEW s, NEW c \in Seq(Nat), BeginsAs(s, c), Len(s) = Len(c)
    PROVE  s = c
<1>1. s \in Seq(Nat) /\ \A k \in 1 .. Len(s) : s[k] = c[k]
  BY DEF BeginsAs
<1>. QED BY <1>1, SeqEqual

LEMMA NothingRead == ASSUME NEW c \in Seq(Nat) PROVE BeginsAs(<<>>, c)
BY DEF BeginsAs

(* A rewrite that leaves no trace counts.                                    *)
LEMMA RewriteCounts ==
    ASSUME NEW a, NEW f, NEW p, NEW l, NEW c, NEW h, NEW q \in Nat, NEW d, PassesAgree(a, f, p, l, c, h, q)
    PROVE  PassesAgree(a, f, p, l, d, h \cup {d}, q + 1)
<1>1. q + 1 >= 1 /\ (q >= 1 => q + 1 >= 2) /\ (q >= 2 => q + 1 >= 3) /\ (q >= 3 => q + 1 >= 3)
  OBVIOUS
<1>. QED BY <1>1 DEF PassesAgree

(* The step of a staging thread, from what it holds.                         *)
LEMMA StepsOfStaging ==
    ASSUME NEW x
    PROVE  /\ x = Inputs!NoStaging => x.at = "none"
           /\ x = [at |-> "failed"] => x.at = "failed"
           /\ InQueue(x) => x.at = "queued" /\ x.sources \in Seq(Paths)
           /\ Looking(x) => x.at = "look"
           /\ Opening(x) => x.at = "open"
           /\ Passing(x) => x.at \in PassSteps
           /\ Staged(x) => x.at = "staged"
<1>1. x = Inputs!NoStaging => x.at = "none"
  BY DEF Inputs!NoStaging
<1>2. InQueue(x) => x.at = "queued" /\ x.sources \in Seq(Paths)
  BY DEF InQueue
<1>3. Looking(x) => x.at = "look"
  BY DEF Looking
<1>4. Opening(x) => x.at = "open"
  BY DEF Opening
<1>5. Passing(x) => x.at \in PassSteps
  <2>. SUFFICES ASSUME Passing(x) PROVE x.at \in PassSteps
    OBVIOUS
  <2>1. PICK a \in PassSteps : \E s, cs, o, i, z, m, f, p, l : x = Pass(a, s, cs, o, i, z, m, f, p, l)
    BY DEF Passing
  <2>2. x.at = a
    BY <2>1 DEF Pass
  <2>. QED BY <2>2
<1>6. Staged(x) => x.at = "staged"
  BY DEF Staged
<1>. QED BY <1>1, <1>2, <1>3, <1>4, <1>5, <1>6

LEMMA StagingAt ==
    ASSUME NEW x, StagingOf(x)
    PROVE  /\ x.at \in {"none", "failed", "staged"} \cup StagingSteps
           /\ x.at = "none" => x = Inputs!NoStaging
           /\ x.at = "queued" => InQueue(x)
           /\ x.at = "look" => Looking(x)
           /\ x.at = "open" => Opening(x)
           /\ x.at \in PassSteps => Passing(x)
           /\ x.at = "staged" => Staged(x)
<1>1. \/ x = Inputs!NoStaging \/ x = [at |-> "failed"]
      \/ InQueue(x) \/ Looking(x) \/ Opening(x) \/ Passing(x) \/ Staged(x)
  BY DEF StagingOf
<1>. QED BY <1>1, StepsOfStaging DEF StagingSteps, PassSteps

(* What the thread holds stays true while only others act.                   *)
FilesGrow ==
    /\ \A i \in Inodes : held[i] \subseteq held'[i] /\ unseen[i] <= unseen'[i]
    /\ \A i \in Inodes : disk[i].mtime <= disk'[i].mtime
    /\ \A i \in Inodes : disk'[i].mtime = disk[i].mtime =>
          \/ disk'[i] = disk[i] /\ held'[i] = held[i] /\ unseen'[i] = unseen[i]
          \/ /\ Len(disk'[i].content) = Len(disk[i].content)
             /\ held'[i] = held[i] \cup {disk'[i].content} /\ unseen'[i] = unseen[i] + 1
    /\ \A i \in Inodes : disk[i].mtime \in Nat /\ disk'[i].mtime \in Nat /\ unseen[i] \in Nat /\ unseen'[i] \in Nat

LEMMA PassKeeps ==
    ASSUME FilesGrow, NEW a, NEW o, NEW i, NEW z, NEW m, NEW f, NEW p, NEW l, PassHolds(a, o, i, z, m, f, p, l)
    PROVE  PassHolds(a, o, i, z, m, f, p, l)'
<1>1. i \in Inodes /\ m \in Nat /\ m <= disk[i].mtime
  BY DEF PassHolds
<1>2. m <= disk'[i].mtime /\ (m = disk'[i].mtime => m = disk[i].mtime /\ disk'[i].mtime = disk[i].mtime)
  BY <1>1 DEF FilesGrow
<1>3. m = disk'[i].mtime =>
         Len(disk'[i].content) = z /\ PassesAgree(a, f, p, l, disk'[i].content, held'[i], unseen'[i])
  <2>. SUFFICES ASSUME m = disk'[i].mtime
       PROVE  Len(disk'[i].content) = z /\ PassesAgree(a, f, p, l, disk'[i].content, held'[i], unseen'[i])
    OBVIOUS
  <2>1. Len(disk[i].content) = z /\ PassesAgree(a, f, p, l, disk[i].content, held[i], unseen[i])
    BY <1>2 DEF PassHolds
  <2>2. CASE disk'[i] = disk[i] /\ held'[i] = held[i] /\ unseen'[i] = unseen[i]
    BY <2>1, <2>2
  <2>3. CASE /\ Len(disk'[i].content) = Len(disk[i].content)
             /\ held'[i] = held[i] \cup {disk'[i].content} /\ unseen'[i] = unseen[i] + 1
    <3>1. unseen[i] \in Nat
      BY <1>1 DEF FilesGrow
    <3>2. PICK c, h, q, d : c = disk[i].content /\ h = held[i] /\ q = unseen[i] /\ d = disk'[i].content
      OBVIOUS
    <3>3. PassesAgree(a, f, p, l, d, h \cup {d}, q + 1)
      BY <2>1, <3>1, <3>2, RewriteCounts
    <3>. QED BY <2>1, <2>3, <3>2, <3>3
  <2>. QED BY <1>1, <1>2, <2>2, <2>3 DEF FilesGrow
<1>4. a = "compare" => f \in held'[i] \/ p \in held'[i] \/ l \in held'[i] \/ unseen'[i] >= 3
  <2>1. held[i] \subseteq held'[i] /\ (unseen[i] >= 3 => unseen'[i] >= 3)
    BY <1>1 DEF FilesGrow
  <2>. QED BY <2>1 DEF PassHolds
<1>. QED BY <1>1, <1>2, <1>3, <1>4 DEF PassHolds

LEMMA WholeKeeps ==
    ASSUME FilesGrow, NEW copy, NEW i \in Inodes, Whole(copy, i)
    PROVE  Whole(copy, i)'
<1>1. held[i] \subseteq held'[i] /\ (unseen[i] >= 3 => unseen'[i] >= 3)
  BY DEF FilesGrow
<1>. QED BY <1>1 DEF Whole

LEMMA StagingKeeps ==
    ASSUME FilesGrow, NEW x, StagingOf(x)
    PROVE  StagingOf(x)'
<1>1. ASSUME NEW s, NEW cs, NEW o, Listed(s, cs, o) PROVE Listed(s, cs, o)'
  BY <1>1, WholeKeeps DEF Listed
<1>2. Looking(x) => Looking(x)'
  BY <1>1 DEF Looking
<1>3. Staged(x) => Staged(x)'
  BY <1>1 DEF Staged
<1>4. Opening(x) => Opening(x)'
  BY <1>1 DEF Opening
<1>5. Passing(x) => Passing(x)'
  <2>. SUFFICES ASSUME Passing(x) PROVE Passing(x)'
    OBVIOUS
  <2>1. PICK a \in PassSteps : \E s, cs, o, i, z, m, f, p, l :
           /\ x = Pass(a, s, cs, o, i, z, m, f, p, l)
           /\ Listed(s, cs, o) /\ Len(cs) < Len(s) /\ PassHolds(a, o, i, z, m, f, p, l)
    BY DEF Passing
  <2>2. PICK s, cs, o, i, z, m, f, p, l :
           /\ x = Pass(a, s, cs, o, i, z, m, f, p, l)
           /\ Listed(s, cs, o) /\ Len(cs) < Len(s) /\ PassHolds(a, o, i, z, m, f, p, l)
    BY <2>1
  <2>3. Listed(s, cs, o)' /\ PassHolds(a, o, i, z, m, f, p, l)'
    BY <1>1, <2>2, PassKeeps
  <2>. QED BY <2>2, <2>3 DEF Passing, Pass
<1>6. InQueue(x) => InQueue(x)'
  BY DEF InQueue
<1>. QED BY <1>2, <1>3, <1>4, <1>5, <1>6 DEF StagingOf, Inputs!NoStaging

LEMMA DirKeeps ==
    ASSUME FilesGrow, DirHolds, dir' = dir
    PROVE  DirHolds'
<1>1. PICK ds : ds = dir.copies
  OBVIOUS
<1>2. ds \in Seq(Copies) /\ \A k \in DOMAIN ds : Whole(ds[k].copy, ds[k].inode)
  BY <1>1 DEF DirHolds
<1>3. \A k \in DOMAIN ds : ds[k] \in Copies
  BY <1>2
<1>4. \A k \in DOMAIN ds : ds[k].inode \in Inodes
  BY <1>3 DEF Copies
<1>5. ASSUME NEW k \in DOMAIN ds PROVE Whole(ds[k].copy, ds[k].inode)'
  BY <1>2, <1>4, WholeKeeps
<1>6. dir'.copies = ds /\ DOMAIN dir'.copies = DOMAIN ds
  BY <1>1
<1>7. \A k \in DOMAIN ds : Whole(dir.copies[k].copy, dir.copies[k].inode)'
  BY <1>5, <1>6 DEF Whole
<1>. QED BY <1>1, <1>6, <1>7 DEF DirHolds

LEMMA FilesStay ==
    ASSUME FilesHold, UNCHANGED <<names, disk, held, unseen>>
    PROVE  FilesHold' /\ FilesGrow
<1>1. FilesHold'
  BY DEF FilesHold
<1>2. \A i \in Inodes : disk[i].mtime \in Nat /\ unseen[i] \in Nat
  BY DEF FilesHold
<1>3. \A i \in Inodes : unseen[i] <= unseen[i] /\ disk[i].mtime <= disk[i].mtime
  BY <1>2
<1>. QED BY <1>1, <1>2, <1>3 DEF FilesGrow

LEMMA NoDirHolds == dir' = Inputs!NoDir => DirHolds'
<1>. SUFFICES ASSUME dir' = Inputs!NoDir PROVE DirHolds'
  OBVIOUS
<1>1. dir' = [there |-> FALSE, copies |-> <<>>]
  BY DEF Inputs!NoDir
<1>2. dir'.there = FALSE /\ dir'.copies = <<>> /\ <<>> \in Seq(Copies)
  BY <1>1
<1>. QED BY <1>1, <1>2 DEF DirHolds

LEMMA NoDirIs == DirHolds /\ ~dir.there => dir = Inputs!NoDir
BY DEF DirHolds, Inputs!NoDir

(* A step of the staging thread.                                             *)
LEMMA ThreadMoves ==
    ASSUME InputsInv, NEW x, staging' = x, StagingOf(x), staging.at \in StagingSteps,
           UNCHANGED <<names, disk, held, unseen, job, removal, reading>>, DirHolds',
           x.at \in {"failed", "staged"} \cup (StagingSteps \ {"queued"}),
           x.at = "failed" => dir' = Inputs!NoDir,
           x.at # "failed" => dir'.there /\ Len(dir'.copies) = Len(x.copies)
    PROVE  InputsInv'
<1>1. FilesHold' /\ StagingOf(x)'
  BY FilesStay, StagingKeeps DEF InputsInv
<1>2. job.at \in {"staging", "abandoning"} /\ removal = "none" /\ job.kind = "files" /\ reading.at = "none"
  BY DEF InputsInv, JobHolds
<1>3. x.at # "none" /\ x.at # "queued"
  BY DEF StagingSteps, PassSteps
<1>4. JobHolds'
  BY <1>2, <1>3 DEF InputsInv, JobHolds, StagingSteps, PassSteps, TensorSteps
<1>5. InputsListed'
  BY <1>2, <1>3 DEF InputsInv, InputsListed
<1>. QED BY <1>1, <1>4, <1>5 DEF InputsInv

LEMMA ThreadFails ==
    ASSUME InputsInv, Inputs!StagingFails, staging.at \in StagingSteps,
           UNCHANGED <<names, disk, held, unseen, job, removal, reading>>
    PROVE  InputsInv'
<1>1. PICK x : x = [at |-> "failed"]
  OBVIOUS
<1>2. StagingOf(x) /\ x.at = "failed"
  BY <1>1 DEF StagingOf
<1>3. staging' = x /\ dir' = Inputs!NoDir
  BY <1>1 DEF Inputs!StagingFails, Inputs!Thread
<1>. QED BY <1>2, <1>3, NoDirHolds, ThreadMoves

(* A step that leaves the directory as it is.                                *)
LEMMA ThreadReads ==
    ASSUME InputsInv, NEW x, staging' = x, StagingOf(x), staging.at \in StagingSteps \ {"queued"},
           UNCHANGED <<names, disk, held, unseen, job, removal, reading, dir>>,
           x.at \in StagingSteps \ {"queued"}, Len(x.copies) = Len(staging.copies)
    PROVE  InputsInv'
<1>1. DirHolds'
  BY DirKeeps, FilesStay DEF InputsInv
<1>2. job.at \in {"staging", "abandoning"} /\ staging.at \notin {"queued", "failed"}
  BY DEF InputsInv, JobHolds, StagingSteps, PassSteps
<1>3. dir.there /\ Len(dir.copies) = Len(staging.copies)
  BY <1>2 DEF InputsInv, InputsListed
<1>4. x.at # "failed"
  BY DEF StagingSteps, PassSteps
<1>. QED BY <1>1, <1>3, <1>4, ThreadMoves

(* A copy is handed on.                                                      *)
LEMMA ThreadAccepts ==
    ASSUME InputsInv, NEW a \in PassSteps, NEW s, NEW cs, NEW o, NEW i, NEW z, NEW m, NEW f, NEW p, NEW l,
           staging = Pass(a, s, cs, o, i, z, m, f, p, l),
           Listed(s, cs, o), Len(cs) < Len(s), i \in Inodes, NEW copy \in Seq(Nat), Whole(copy, i),
           Inputs!CopyAccepted(copy), UNCHANGED <<names, disk, held, unseen, job, removal, reading>>
    PROVE  InputsInv'
<1>1. /\ staging.at = a /\ staging.sources = s /\ staging.copies = cs /\ staging.observed = o /\ staging.inode = i
  BY DEF Pass
<1>2. a \in StagingSteps /\ a \notin {"queued", "failed"}
  BY DEF StagingSteps, PassSteps
<1>3. job.at \in {"staging", "abandoning"}
  BY <1>1, <1>2 DEF InputsInv, JobHolds
<1>4. dir.there /\ Len(dir.copies) = Len(cs)
  BY <1>1, <1>2, <1>3 DEF InputsInv, InputsListed
<1>5. PICK q, r : q = Append(cs, copy) /\ r = [inode |-> i, copy |-> copy]
  OBVIOUS
<1>6. PICK b : b = IF Len(cs) + 1 = Len(s) THEN "staged" ELSE "look"
  OBVIOUS
<1>7. PICK x : x = [at |-> b, sources |-> s, copies |-> q, observed |-> o \cup {r}]
  OBVIOUS
<1>8. staging' = x
  BY <1>1, <1>5, <1>6, <1>7 DEF Inputs!CopyAccepted, Inputs!Thread
<1>9. s \in Seq(Paths) /\ cs \in Seq(Seq(Nat)) /\ Len(cs) \in Nat /\ Len(s) \in Nat
  BY DEF Listed
<1>10. q \in Seq(Seq(Nat)) /\ Len(q) = Len(cs) + 1
  BY <1>5, <1>9
<1>11. Listed(s, q, o \cup {r})
  <2>1. r.inode = i /\ r.copy = copy
    BY <1>5
  <2>2. Len(q) <= Len(s)
    BY <1>9, <1>10
  <2>. QED BY <1>9, <1>10, <2>1, <2>2 DEF Listed
<1>12. StagingOf(x) /\ x.at \in {"look", "staged"} /\ x.copies = q
  <2>1. CASE Len(cs) + 1 = Len(s)
    <3>1. x = [at |-> "staged", sources |-> s, copies |-> q, observed |-> o \cup {r}]
      BY <1>6, <1>7, <2>1
    <3>2. Staged(x)
      BY <1>10, <1>11, <2>1, <3>1 DEF Staged
    <3>. QED BY <3>1, <3>2 DEF StagingOf
  <2>2. CASE Len(cs) + 1 # Len(s)
    <3>1. x = [at |-> "look", sources |-> s, copies |-> q, observed |-> o \cup {r}]
      BY <1>6, <1>7, <2>2
    <3>2. Len(q) < Len(s)
      BY <1>9, <1>10, <2>2
    <3>3. Looking(x)
      BY <1>11, <3>1, <3>2 DEF Looking
    <3>. QED BY <3>1, <3>3 DEF StagingOf
  <2>. QED BY <2>1, <2>2
<1>13. PICK ds, d : ds = dir.copies /\ d = Append(ds, r)
  OBVIOUS
<1>14. dir' = [there |-> TRUE, copies |-> d]
  <2>1. PICK y : y = dir
    OBVIOUS
  <2>2. y = [there |-> TRUE, copies |-> ds]
    BY <1>4, <1>13, <2>1 DEF InputsInv, DirHolds
  <2>3. [y EXCEPT !.copies = d] = [there |-> TRUE, copies |-> d]
    <3>1. PICK w : w = TRUE
      OBVIOUS
    <3>2. y = [there |-> w, copies |-> ds]
      BY <2>2, <3>1
    <3>3. [y EXCEPT !.copies = d] = [there |-> w, copies |-> d]
      BY <3>2
    <3>. QED BY <3>1, <3>3
  <2>4. dir' = [y EXCEPT !.copies = d]
    BY <1>1, <1>5, <1>13, <2>1 DEF Inputs!CopyAccepted
  <2>. QED BY <2>3, <2>4
<1>15. ds \in Seq(Copies) /\ r \in Copies /\ Len(ds) = Len(cs) /\ \A k \in DOMAIN ds : Whole(ds[k].copy, ds[k].inode)
  BY <1>4, <1>5, <1>13 DEF InputsInv, DirHolds, Copies
<1>16. d \in Seq(Copies) /\ Len(d) = Len(cs) + 1 /\ d[Len(ds) + 1] = r /\ \A k \in 1 .. Len(ds) : d[k] = ds[k]
  BY <1>13, <1>15
<1>17. \A k \in DOMAIN d : Whole(d[k].copy, d[k].inode)
  <2>1. DOMAIN d = 1 .. Len(ds) + 1 /\ DOMAIN ds = 1 .. Len(ds) /\ Len(ds) \in Nat
    BY <1>9, <1>15, <1>16
  <2>2. \A k \in DOMAIN d : k \in DOMAIN ds \/ k = Len(ds) + 1
    BY <2>1
  <2>3. r.copy = copy /\ r.inode = i
    BY <1>5
  <2>. QED BY <1>15, <1>16, <2>1, <2>2, <2>3
<1>18. DirHolds'
  <2>1. dir'.there = TRUE /\ dir'.copies = d
    BY <1>14
  <2>2. \A k \in DOMAIN d : Whole(d[k].copy, d[k].inode)'
    <3>1. ASSUME NEW k \in DOMAIN d PROVE Whole(d[k].copy, d[k].inode)'
      BY <1>17, <3>1 DEF Whole
    <3>. QED BY <3>1
  <2>. QED BY <1>14, <1>16, <2>1, <2>2 DEF DirHolds, Whole
<1>19. dir'.there /\ Len(dir'.copies) = Len(x.copies)
  BY <1>10, <1>12, <1>14, <1>16
<1>20. x.at # "failed" /\ x.at \in {"failed", "staged"} \cup (StagingSteps \ {"queued"})
  BY <1>12 DEF StagingSteps
<1>. QED BY <1>1, <1>2, <1>8, <1>12, <1>18, <1>19, <1>20, ThreadMoves

LEMMA InputsStart == Inputs!Init => InputsInv
<1>. SUFFICES ASSUME Inputs!Init PROVE InputsInv
  OBVIOUS
<1>1. FilesHold
  <2>1. PICK c \in Contents : disk = [i \in Inodes |-> [content |-> c, mtime |-> 0]]
    BY DEF Inputs!Init
  <2>2. c \in Seq(Nat) /\ \A i \in Inodes : disk[i].content = c
    BY <2>1, InputsAssumption DEF Inputs!FilesAssumption
  <2>3. names \in [Paths -> Inodes \cup {Inputs!Gone}]
    BY InputsAssumption DEF Inputs!Init, Inputs!FilesAssumption
  <2>4. disk \in [Inodes -> [content : Seq(Nat), mtime : Nat]]
    BY <2>1, <2>2
  <2>5. /\ unseen \in [Inodes -> Nat] /\ held = [i \in Inodes |-> held[i]]
        /\ \A i \in Inodes : disk[i].content \in held[i]
    BY DEF Inputs!Init
  <2>. QED BY <2>3, <2>4, <2>5 DEF FilesHold
<1>2. /\ staging = Inputs!NoStaging /\ dir = Inputs!NoDir /\ removal = "none"
      /\ job = [at |-> "none"] /\ reading = Inputs!NoReading
  BY DEF Inputs!Init
<1>3. staging.at = "none" /\ job.at = "none" /\ reading.at = "none"
  BY <1>2 DEF Inputs!NoStaging, Inputs!NoReading
<1>4. DirHolds
  <2>1. dir = [there |-> FALSE, copies |-> <<>>]
    BY <1>2 DEF Inputs!NoDir
  <2>2. dir.there = FALSE /\ dir.copies = <<>> /\ <<>> \in Seq(Copies)
    BY <2>1
  <2>. QED BY <2>1, <2>2 DEF DirHolds
<1>5. JobHolds
  BY <1>2, <1>3 DEF JobHolds, StagingSteps, PassSteps, TensorSteps
<1>6. InputsListed
  BY <1>3 DEF InputsListed
<1>. QED BY <1>1, <1>2, <1>4, <1>5, <1>6 DEF InputsInv, StagingOf

(* What owners do.                                                           *)
LEMMA OwnerKeeps ==
    ASSUME InputsInv, FilesHold', FilesGrow, UNCHANGED <<job, staging, dir, removal, reading>>
    PROVE  InputsInv'
<1>1. PICK x : x = staging
  OBVIOUS
<1>2. StagingOf(x)'
  BY <1>1, StagingKeeps DEF InputsInv
<1>3. StagingOf(staging)'
  BY <1>1, <1>2
<1>4. JobHolds' /\ InputsListed'
  BY DEF InputsInv, JobHolds, InputsListed
<1>. QED BY <1>3, <1>4, DirKeeps DEF InputsInv

LEMMA RewriteKeeps ==
    ASSUME InputsInv, NEW i \in Inodes, NEW c \in Contents, NEW u \in BOOLEAN, Inputs!Rewrite(i, c, u)
    PROVE  InputsInv'
<1>1. c \in Seq(Nat)
  BY InputsAssumption DEF Inputs!FilesAssumption
<1>2. PICK q, m : q = unseen[i] /\ m = disk[i].mtime
  OBVIOUS
<1>3. q \in Nat /\ m \in Nat
  BY <1>2 DEF InputsInv, FilesHold
<1>4. /\ UNCHANGED <<names, job, staging, dir, removal, reading>>
      /\ held' = [held EXCEPT ![i] = @ \cup {c}]
      /\ u => Len(c) = Len(disk[i].content)
  BY DEF Inputs!Rewrite
<1>5. PICK n : n = IF u THEN m ELSE m + 1
  OBVIOUS
<1>6. PICK v : v = IF u THEN q + 1 ELSE q
  OBVIOUS
<1>7. n \in Nat /\ v \in Nat /\ m <= n /\ q <= v /\ (n = m => u /\ v = q + 1)
  BY <1>3, <1>5, <1>6
<1>8. PICK e : e = [content |-> c, mtime |-> n]
  OBVIOUS
<1>9. disk' = [disk EXCEPT ![i] = e] /\ unseen' = [unseen EXCEPT ![i] = v]
  BY <1>2, <1>5, <1>6, <1>8 DEF Inputs!Rewrite
<1>10. /\ e \in [content : Seq(Nat), mtime : Nat] /\ e.content = c /\ e.mtime = n
  BY <1>1, <1>7, <1>8
<1>11. /\ disk'[i] = e /\ unseen'[i] = v /\ held'[i] = held[i] \cup {c}
       /\ \A k \in Inodes \ {i} : disk'[k] = disk[k] /\ unseen'[k] = unseen[k] /\ held'[k] = held[k]
  BY <1>4, <1>9 DEF InputsInv, FilesHold
<1>12. FilesHold'
  <2>1. disk' \in [Inodes -> [content : Seq(Nat), mtime : Nat]]
    BY <1>9, <1>10 DEF InputsInv, FilesHold
  <2>2. unseen' \in [Inodes -> Nat]
    BY <1>7, <1>9 DEF InputsInv, FilesHold
  <2>3. held' = [k \in Inodes |-> held'[k]]
    BY <1>4 DEF InputsInv, FilesHold
  <2>4. \A k \in Inodes : disk'[k].content \in held'[k]
    BY <1>10, <1>11 DEF InputsInv, FilesHold
  <2>. QED BY <1>4, <2>1, <2>2, <2>3, <2>4 DEF InputsInv, FilesHold
<1>13. FilesGrow
  <2>1. \A k \in Inodes : /\ disk[k].mtime \in Nat /\ unseen[k] \in Nat
                          /\ disk'[k].mtime \in Nat /\ unseen'[k] \in Nat
    BY <1>12 DEF InputsInv, FilesHold
  <2>2. ASSUME NEW k \in Inodes
        PROVE  held[k] \subseteq held'[k] /\ unseen[k] <= unseen'[k] /\ disk[k].mtime <= disk'[k].mtime
    <3>1. CASE k = i
      BY <1>2, <1>7, <1>10, <1>11, <3>1
    <3>2. CASE k # i
      BY <1>11, <2>1, <3>2
    <3>. QED BY <3>1, <3>2
  <2>3. ASSUME NEW k \in Inodes, disk'[k].mtime = disk[k].mtime
        PROVE  \/ disk'[k] = disk[k] /\ held'[k] = held[k] /\ unseen'[k] = unseen[k]
               \/ /\ Len(disk'[k].content) = Len(disk[k].content)
                  /\ held'[k] = held[k] \cup {disk'[k].content} /\ unseen'[k] = unseen[k] + 1
    <3>1. CASE k = i
      <4>1. n = m
        BY <1>2, <1>10, <1>11, <2>3, <3>1
      <4>. QED BY <1>2, <1>4, <1>7, <1>10, <1>11, <3>1, <4>1
    <3>2. CASE k # i
      BY <1>11, <3>2
    <3>. QED BY <3>1, <3>2
  <2>. QED BY <2>1, <2>2, <2>3 DEF FilesGrow
<1>. QED BY <1>4, <1>12, <1>13, OwnerKeeps

LEMMA RenameKeeps ==
    ASSUME InputsInv, NEW p \in Paths, NEW i \in Inodes \cup {Inputs!Gone}, Inputs!Rename(p, i)
    PROVE  InputsInv'
<1>1. names' \in [Paths -> Inodes \cup {Inputs!Gone}]
  BY DEF Inputs!Rename, InputsInv, FilesHold
<1>2. UNCHANGED <<disk, held, unseen, job, staging, dir, removal, reading>>
  BY DEF Inputs!Rename
<1>3. FilesHold'
  BY <1>1, <1>2 DEF InputsInv, FilesHold
<1>4. \A k \in Inodes : disk[k].mtime \in Nat /\ unseen[k] \in Nat
  BY DEF InputsInv, FilesHold
<1>5. \A k \in Inodes : disk[k].mtime <= disk[k].mtime /\ unseen[k] <= unseen[k]
  BY <1>4
<1>6. FilesGrow
  BY <1>2, <1>4, <1>5 DEF FilesGrow
<1>. QED BY <1>2, <1>3, <1>6, OwnerKeeps

-----------------------------------------------------------------------------
(* The staging thread.                                                       *)

LEMMA StagingBeginsKeeps == ASSUME InputsInv, Inputs!StagingBegins PROVE InputsInv'
<1>1. staging.at = "queued" /\ UNCHANGED <<names, disk, held, unseen, job, removal, reading>>
  BY DEF Inputs!StagingBegins, Inputs!owner
<1>2. PICK y : y = staging
  OBVIOUS
<1>3. PICK s \in Seq(Paths) : y = [at |-> "queued", sources |-> s]
  BY <1>1, <1>2, StagingAt DEF InputsInv, InQueue
<1>4. staging.sources = s /\ staging.at \in StagingSteps /\ dir = Inputs!NoDir
  BY <1>1, <1>2, <1>3 DEF StagingSteps, InputsInv, JobHolds
<1>5. CASE staging' = [at |-> "failed"] /\ dir' = dir
  <2>1. Inputs!StagingFails
    BY <1>4, <1>5 DEF Inputs!StagingFails, Inputs!Thread
  <2>. QED BY <1>1, <1>4, <2>1, ThreadFails
<1>6. CASE /\ s # <<>> /\ staging' = [at |-> "look", sources |-> s, copies |-> <<>>, observed |-> {}]
           /\ dir' = [Inputs!NoDir EXCEPT !.there = TRUE]
  <2>1. PICK x : x = [at |-> "look", sources |-> s, copies |-> <<>>, observed |-> {}]
    OBVIOUS
  <2>2. Listed(s, <<>>, {}) /\ Len(<<>>) < Len(s)
    BY <1>6 DEF Listed
  <2>3. Looking(x) /\ x.at = "look" /\ x.copies = <<>>
    BY <2>1, <2>2 DEF Looking
  <2>4. dir' = [there |-> TRUE, copies |-> <<>>]
    BY <1>6 DEF Inputs!NoDir
  <2>5. dir'.there = TRUE /\ dir'.copies = <<>> /\ <<>> \in Seq(Copies)
    BY <2>4
  <2>6. DirHolds'
    BY <2>4, <2>5 DEF DirHolds
  <2>7. x.at \in {"failed", "staged"} \cup (StagingSteps \ {"queued"}) /\ x.at # "failed"
    BY <2>3 DEF StagingSteps
  <2>. QED BY <1>1, <1>4, <1>6, <2>1, <2>3, <2>5, <2>6, <2>7, ThreadMoves DEF StagingOf
<1>. QED BY <1>4, <1>5, <1>6 DEF Inputs!StagingBegins, Inputs!Thread

(* The path of the source that is next.                                      *)
LEMMA PathNamed ==
    ASSUME InputsInv, NEW s, NEW cs, NEW o, staging.sources = s, staging.copies = cs, Listed(s, cs, o), Len(cs) < Len(s)
    PROVE  Inputs!Path \in Paths /\ names[Inputs!Path] \in Inodes \cup {Inputs!Gone}
<1>1. s \in Seq(Paths) /\ Len(cs) \in Nat /\ Len(s) \in Nat
  BY DEF Listed
<1>2. s[Len(cs) + 1] \in Paths
  BY <1>1
<1>. QED BY <1>2 DEF Inputs!Path, InputsInv, FilesHold

LEMMA SelectedStatusKeeps == ASSUME InputsInv, Inputs!SelectedStatus PROVE InputsInv'
<1>1. staging.at = "look" /\ UNCHANGED <<names, disk, held, unseen, job, removal, reading>>
  BY DEF Inputs!SelectedStatus, Inputs!owner
<1>2. PICK y : y = staging
  OBVIOUS
<1>3. PICK s, cs, o : /\ y = [at |-> "look", sources |-> s, copies |-> cs, observed |-> o]
                      /\ Listed(s, cs, o) /\ Len(cs) < Len(s)
  BY <1>1, <1>2, StagingAt DEF InputsInv, Looking
<1>4. /\ staging.sources = s /\ staging.copies = cs /\ staging.observed = o
      /\ staging.at \in StagingSteps \ {"queued"}
  BY <1>1, <1>2, <1>3 DEF StagingSteps
<1>5. PICK i : i = names[Inputs!Path]
  OBVIOUS
<1>6. i \in Inodes \cup {Inputs!Gone}
  BY <1>3, <1>4, <1>5, PathNamed
<1>7. CASE i = Inputs!Gone
  BY <1>1, <1>4, <1>5, <1>7, ThreadFails DEF Inputs!SelectedStatus
<1>8. CASE i # Inputs!Gone
  <2>1. PICK x : x = [at |-> "open", sources |-> s, copies |-> cs, observed |-> o, selected |-> i]
    OBVIOUS
  <2>2. Opening(x) /\ x.at = "open" /\ x.copies = cs
    BY <1>3, <1>6, <1>8, <2>1 DEF Opening
  <2>3. staging' = x /\ dir' = dir
    BY <1>4, <1>5, <1>8, <2>1 DEF Inputs!SelectedStatus, Inputs!Thread
  <2>4. x.at \in StagingSteps \ {"queued"}
    BY <2>2 DEF StagingSteps
  <2>. QED BY <1>1, <1>4, <2>2, <2>3, <2>4, ThreadReads DEF StagingOf
<1>. QED BY <1>7, <1>8

LEMMA OpenKeeps == ASSUME InputsInv, Inputs!OpenSelectedSource PROVE InputsInv'
<1>1. staging.at = "open" /\ UNCHANGED <<names, disk, held, unseen, job, removal, reading>>
  BY DEF Inputs!OpenSelectedSource, Inputs!owner
<1>2. PICK y : y = staging
  OBVIOUS
<1>3. PICK s, cs, o, i : /\ y = [at |-> "open", sources |-> s, copies |-> cs, observed |-> o, selected |-> i]
                         /\ Listed(s, cs, o) /\ Len(cs) < Len(s) /\ i \in Inodes
  BY <1>1, <1>2, StagingAt DEF InputsInv, Opening
<1>4. /\ staging.sources = s /\ staging.copies = cs /\ staging.observed = o /\ staging.selected = i
      /\ staging.at \in StagingSteps \ {"queued"}
  BY <1>1, <1>2, <1>3 DEF StagingSteps
<1>5. CASE names[Inputs!Path] = i /\ Inputs!SelectedSourceValid(i)
  <2>1. PICK c, m, z : c = disk[i].content /\ m = disk[i].mtime /\ z = Len(c)
    OBVIOUS
  <2>2. c \in Seq(Nat) /\ m \in Nat /\ z \in Nat
    BY <1>3, <2>1 DEF InputsInv, FilesHold
  <2>3. PICK a : a = IF \E e \in o : e.inode = i THEN "reuse" ELSE "digest"
    OBVIOUS
  <2>4. a \in {"reuse", "digest"} /\ (a = "reuse" => \E e \in o : e.inode = i)
    BY <2>3
  <2>5. PICK x : x = Pass(a, s, cs, o, i, z, m, <<>>, <<>>, <<>>)
    OBVIOUS
  <2>6. staging' = x /\ dir' = dir
    BY <1>4, <1>5, <2>1, <2>3, <2>5 DEF Inputs!OpenSelectedSource, Inputs!Thread, Pass
  <2>7. PassHolds(a, o, i, z, m, <<>>, <<>>, <<>>)
    <3>1. BeginsAs(<<>>, c)
      BY <2>2, NothingRead
    <3>2. PassesAgree(a, <<>>, <<>>, <<>>, disk[i].content, held[i], unseen[i])
      BY <2>1, <2>4, <3>1 DEF PassesAgree
    <3>3. m <= disk[i].mtime /\ <<>> \in Seq(Nat) /\ Len(<<>>) <= z
      BY <2>1, <2>2
    <3>. QED BY <1>3, <2>1, <2>2, <2>4, <3>2, <3>3 DEF PassHolds
  <2>8. Passing(x)
    BY <1>3, <2>4, <2>5, <2>7 DEF Passing, PassSteps
  <2>9. x.at = a /\ x.copies = cs
    BY <2>5 DEF Pass
  <2>10. x.at \in StagingSteps \ {"queued"}
    BY <2>4, <2>9 DEF StagingSteps, PassSteps
  <2>. QED BY <1>1, <1>4, <2>6, <2>8, <2>9, <2>10, ThreadReads DEF StagingOf
<1>6. CASE ~(names[Inputs!Path] = i /\ Inputs!SelectedSourceValid(i))
  <2>1. Inputs!StagingFails
    BY <1>4, <1>6 DEF Inputs!OpenSelectedSource
  <2>. QED BY <1>1, <1>4, <2>1, ThreadFails
<1>. QED BY <1>5, <1>6

LEMMA PassFacts ==
    ASSUME InputsInv, staging.at \in PassSteps
    PROVE  \E s, cs, o, i, z, m, f, p, l :
              /\ staging = Pass(staging.at, s, cs, o, i, z, m, f, p, l)
              /\ Listed(s, cs, o) /\ Len(cs) < Len(s) /\ PassHolds(staging.at, o, i, z, m, f, p, l)
<1>1. PICK y : y = staging
  OBVIOUS
<1>2. Passing(y)
  BY <1>1, StagingAt DEF InputsInv
<1>3. PICK a \in PassSteps : \E s, cs, o, i, z, m, f, p, l :
         /\ y = Pass(a, s, cs, o, i, z, m, f, p, l)
         /\ Listed(s, cs, o) /\ Len(cs) < Len(s) /\ PassHolds(a, o, i, z, m, f, p, l)
  BY <1>2 DEF Passing
<1>4. y.at = a
  BY <1>3 DEF Pass
<1>. QED BY <1>1, <1>3, <1>4

LEMMA PassFields ==
    ASSUME NEW a, NEW s, NEW cs, NEW o, NEW i, NEW z, NEW m, NEW f, NEW p, NEW l, NEW v, NEW y,
           y = Pass(a, s, cs, o, i, z, m, f, p, l)
    PROVE  /\ y.at = a /\ y.sources = s /\ y.copies = cs /\ y.observed = o /\ y.inode = i /\ y.size = z
           /\ y.mtime = m /\ y.first = f /\ y.copy = p /\ y.last = l
           /\ [y EXCEPT !.at = v] = Pass(v, s, cs, o, i, z, m, f, p, l)
           /\ [y EXCEPT !.first = v] = Pass(a, s, cs, o, i, z, m, v, p, l)
           /\ [y EXCEPT !.copy = v] = Pass(a, s, cs, o, i, z, m, f, v, l)
           /\ [y EXCEPT !.last = v] = Pass(a, s, cs, o, i, z, m, f, p, v)
BY DEF Pass

LEMMA PassMoves ==
    ASSUME InputsInv, NEW a \in PassSteps, NEW s, NEW cs, NEW o, NEW i, NEW z, NEW m, NEW f, NEW p, NEW l,
           staging = Pass(a, s, cs, o, i, z, m, f, p, l), Listed(s, cs, o), Len(cs) < Len(s),
           NEW b \in PassSteps, NEW g, NEW q, NEW k, PassHolds(b, o, i, z, m, g, q, k),
           staging' = Pass(b, s, cs, o, i, z, m, g, q, k),
           UNCHANGED <<names, disk, held, unseen, job, removal, reading, dir>>
    PROVE  InputsInv'
<1>1. PICK x : x = Pass(b, s, cs, o, i, z, m, g, q, k)
  OBVIOUS
<1>2. Passing(x)
  BY <1>1 DEF Passing
<1>3. x.at = b /\ x.copies = cs
  BY <1>1, PassFields
<1>4. PICK y : y = staging
  OBVIOUS
<1>5. staging.at = a /\ staging.copies = cs
  BY <1>4, PassFields
<1>6. b \in StagingSteps \ {"queued"} /\ a \in StagingSteps \ {"queued"}
  BY DEF StagingSteps, PassSteps
<1>. QED BY <1>1, <1>2, <1>3, <1>5, <1>6, ThreadReads DEF StagingOf

LEMMA StreamDigestKeeps == ASSUME InputsInv, Inputs!StreamDigest PROVE InputsInv'
<1>1. staging.at = "digest" /\ UNCHANGED <<names, disk, held, unseen, job, removal, reading>>
  BY DEF Inputs!StreamDigest, Inputs!owner
<1>2. "digest" \in PassSteps /\ "copy" \in PassSteps /\ "digest" \in StagingSteps
  BY DEF PassSteps, StagingSteps
<1>3. PICK s, cs, o, i, z, m, f, p, l :
         /\ staging = Pass("digest", s, cs, o, i, z, m, f, p, l)
         /\ Listed(s, cs, o) /\ Len(cs) < Len(s) /\ PassHolds("digest", o, i, z, m, f, p, l)
  BY <1>1, <1>2, PassFacts
<1>4. PICK y : y = staging
  OBVIOUS
<1>5. y.inode = i /\ y.size = z /\ y.first = f /\ y = Pass("digest", s, cs, o, i, z, m, f, p, l)
  BY <1>3, <1>4, PassFields
<1>6. PICK c : c = disk[i].content
  OBVIOUS
<1>7. /\ i \in Inodes /\ c \in Seq(Nat) /\ Inputs!Opened = c /\ z \in Nat /\ f \in Seq(Nat) /\ Len(f) \in Nat
      /\ Len(c) \in Nat /\ Len(f) <= z /\ p = <<>> /\ l = <<>>
  BY <1>3, <1>4, <1>5, <1>6 DEF PassHolds, InputsInv, FilesHold, Inputs!Opened
<1>8. CASE ~Inputs!Digested(staging.first)
  BY <1>1, <1>2, <1>8, ThreadFails DEF Inputs!StreamDigest
<1>9. CASE Inputs!Digested(staging.first) /\ Len(f) < z
  <2>1. Len(f) < Len(c)
    BY <1>4, <1>5, <1>7, <1>9 DEF Inputs!Digested
  <2>2. PICK g : g = Append(f, c[Len(f) + 1])
    OBVIOUS
  <2>3. c[Len(f) + 1] \in Nat /\ g \in Seq(Nat) /\ Len(g) = Len(f) + 1 /\ Len(g) <= z
    BY <1>7, <1>9, <2>1, <2>2
  <2>4. staging' = Pass("digest", s, cs, o, i, z, m, g, p, l) /\ dir' = dir
    <3>1. staging' = [y EXCEPT !.first = g] /\ dir' = dir
      BY <1>4, <1>5, <1>7, <1>9, <2>2 DEF Inputs!StreamDigest, Inputs!Thread
    <3>. QED BY <1>5, <3>1, PassFields
  <2>5. BeginsAs(f, c) => BeginsAs(g, c)
    BY <1>7, <2>1, <2>2, ReadsOn
  <2>6. PassHolds("digest", o, i, z, m, g, p, l)
    BY <1>3, <1>6, <2>3, <2>5 DEF PassHolds, PassesAgree
  <2>. QED BY <1>1, <1>2, <1>3, <2>4, <2>6, PassMoves
<1>10. CASE Inputs!Digested(staging.first) /\ ~(Len(f) < z)
  <2>1. staging' = Pass("copy", s, cs, o, i, z, m, f, p, l) /\ dir' = dir
    <3>1. staging' = [y EXCEPT !.at = "copy"] /\ dir' = dir
      BY <1>4, <1>5, <1>10 DEF Inputs!StreamDigest, Inputs!Thread
    <3>. QED BY <1>5, <3>1, PassFields
  <2>2. m = disk[i].mtime => PassesAgree("copy", f, p, l, disk[i].content, held[i], unseen[i])
    <3>. SUFFICES ASSUME m = disk[i].mtime
         PROVE  PassesAgree("copy", f, p, l, disk[i].content, held[i], unseen[i])
      OBVIOUS
    <3>1. Len(c) = z /\ (BeginsAs(f, c) \/ unseen[i] >= 1)
      BY <1>3, <1>6 DEF PassHolds, PassesAgree
    <3>2. BeginsAs(f, c) => f = c
      BY <1>7, <1>10, <3>1, ReadToTheEnd
    <3>3. c \in held[i] /\ BeginsAs(p, c)
      BY <1>6, <1>7, NothingRead DEF InputsInv, FilesHold
    <3>. QED BY <1>6, <3>1, <3>2, <3>3 DEF PassesAgree
  <2>3. PassHolds("copy", o, i, z, m, f, p, l)
    BY <1>3, <1>7, <2>2 DEF PassHolds
  <2>. QED BY <1>1, <1>2, <1>3, <2>1, <2>3, PassMoves
<1>. QED BY <1>8, <1>9, <1>10

LEMMA CopyBoundedKeeps == ASSUME InputsInv, Inputs!CopyBounded PROVE InputsInv'
<1>1. staging.at = "copy" /\ UNCHANGED <<names, disk, held, unseen, job, removal, reading, dir>>
  BY DEF Inputs!CopyBounded, Inputs!owner
<1>2. "copy" \in PassSteps /\ "verify" \in PassSteps
  BY DEF PassSteps
<1>3. PICK s, cs, o, i, z, m, f, p, l :
         /\ staging = Pass("copy", s, cs, o, i, z, m, f, p, l)
         /\ Listed(s, cs, o) /\ Len(cs) < Len(s) /\ PassHolds("copy", o, i, z, m, f, p, l)
  BY <1>1, <1>2, PassFacts
<1>4. PICK y : y = staging
  OBVIOUS
<1>5. y.inode = i /\ y.size = z /\ y.copy = p /\ y = Pass("copy", s, cs, o, i, z, m, f, p, l)
  BY <1>3, <1>4, PassFields
<1>6. PICK c : c = disk[i].content
  OBVIOUS
<1>7. /\ i \in Inodes /\ c \in Seq(Nat) /\ Inputs!Opened = c /\ z \in Nat /\ p \in Seq(Nat) /\ Len(p) \in Nat
      /\ Len(c) \in Nat /\ l = <<>>
  BY <1>3, <1>4, <1>5, <1>6 DEF PassHolds, InputsInv, FilesHold, Inputs!Opened
<1>8. CASE Len(p) <= z /\ Len(p) < Len(c)
  <2>1. PICK g : g = Append(p, c[Len(p) + 1])
    OBVIOUS
  <2>2. c[Len(p) + 1] \in Nat /\ g \in Seq(Nat)
    BY <1>7, <1>8, <2>1
  <2>3. staging' = Pass("copy", s, cs, o, i, z, m, f, g, l)
    <3>1. staging' = [y EXCEPT !.copy = g]
      BY <1>4, <1>5, <1>7, <1>8, <2>1 DEF Inputs!CopyBounded, Inputs!Thread
    <3>. QED BY <1>5, <3>1, PassFields
  <2>4. BeginsAs(p, c) => BeginsAs(g, c)
    BY <1>7, <1>8, <2>1, ReadsOn
  <2>5. PassHolds("copy", o, i, z, m, f, g, l)
    BY <1>3, <1>6, <2>2, <2>4 DEF PassHolds, PassesAgree
  <2>. QED BY <1>1, <1>2, <1>3, <2>3, <2>5, PassMoves
<1>9. CASE ~(Len(p) <= z /\ Len(p) < Len(c))
  <2>1. staging' = Pass("verify", s, cs, o, i, z, m, f, p, l)
    <3>1. staging' = [y EXCEPT !.at = "verify"]
      BY <1>4, <1>5, <1>7, <1>9 DEF Inputs!CopyBounded, Inputs!Thread
    <3>. QED BY <1>5, <3>1, PassFields
  <2>2. m = disk[i].mtime => PassesAgree("verify", f, p, l, disk[i].content, held[i], unseen[i])
    <3>. SUFFICES ASSUME m = disk[i].mtime
         PROVE  PassesAgree("verify", f, p, l, disk[i].content, held[i], unseen[i])
      OBVIOUS
    <3>1. Len(c) = z /\ (f \in held[i] \/ (unseen[i] >= 1 /\ BeginsAs(p, c)) \/ unseen[i] >= 2)
      BY <1>3, <1>6 DEF PassHolds, PassesAgree
    <3>2. BeginsAs(p, c) => p = c
      <4>1. BeginsAs(p, c) => Len(p) = Len(c)
        BY <1>7, <1>9, <3>1 DEF BeginsAs
      <4>. QED BY <1>7, <4>1, ReadToTheEnd
    <3>3. c \in held[i] /\ BeginsAs(l, c)
      BY <1>6, <1>7, NothingRead DEF InputsInv, FilesHold
    <3>. QED BY <1>6, <3>1, <3>2, <3>3 DEF PassesAgree
  <2>3. PassHolds("verify", o, i, z, m, f, p, l)
    BY <1>3, <2>2 DEF PassHolds
  <2>. QED BY <1>1, <1>2, <1>3, <2>1, <2>3, PassMoves
<1>. QED BY <1>8, <1>9

LEMMA VerifyKeeps == ASSUME InputsInv, Inputs!VerifySource PROVE InputsInv'
<1>1. staging.at = "verify" /\ UNCHANGED <<names, disk, held, unseen, job, removal, reading>>
  BY DEF Inputs!VerifySource, Inputs!owner
<1>2. "verify" \in PassSteps /\ "status" \in PassSteps /\ "verify" \in StagingSteps
  BY DEF PassSteps, StagingSteps
<1>3. PICK s, cs, o, i, z, m, f, p, l :
         /\ staging = Pass("verify", s, cs, o, i, z, m, f, p, l)
         /\ Listed(s, cs, o) /\ Len(cs) < Len(s) /\ PassHolds("verify", o, i, z, m, f, p, l)
  BY <1>1, <1>2, PassFacts
<1>4. PICK y : y = staging
  OBVIOUS
<1>5. y.inode = i /\ y.size = z /\ y.last = l /\ y = Pass("verify", s, cs, o, i, z, m, f, p, l)
  BY <1>3, <1>4, PassFields
<1>6. PICK c : c = disk[i].content
  OBVIOUS
<1>7. /\ i \in Inodes /\ c \in Seq(Nat) /\ Inputs!Opened = c /\ z \in Nat /\ l \in Seq(Nat) /\ Len(l) \in Nat
      /\ Len(c) \in Nat /\ Len(l) <= z
  BY <1>3, <1>4, <1>5, <1>6 DEF PassHolds, InputsInv, FilesHold, Inputs!Opened
<1>8. CASE ~Inputs!Digested(staging.last)
  BY <1>1, <1>2, <1>8, ThreadFails DEF Inputs!VerifySource
<1>9. CASE Inputs!Digested(staging.last) /\ Len(l) < z
  <2>1. Len(l) < Len(c)
    BY <1>4, <1>5, <1>7, <1>9 DEF Inputs!Digested
  <2>2. PICK g : g = Append(l, c[Len(l) + 1])
    OBVIOUS
  <2>3. c[Len(l) + 1] \in Nat /\ g \in Seq(Nat) /\ Len(g) = Len(l) + 1 /\ Len(g) <= z
    BY <1>7, <1>9, <2>1, <2>2
  <2>4. staging' = Pass("verify", s, cs, o, i, z, m, f, p, g) /\ dir' = dir
    <3>1. staging' = [y EXCEPT !.last = g] /\ dir' = dir
      BY <1>4, <1>5, <1>7, <1>9, <2>2 DEF Inputs!VerifySource, Inputs!Thread
    <3>. QED BY <1>5, <3>1, PassFields
  <2>5. BeginsAs(l, c) => BeginsAs(g, c)
    BY <1>7, <2>1, <2>2, ReadsOn
  <2>6. PassHolds("verify", o, i, z, m, f, p, g)
    BY <1>3, <1>6, <2>3, <2>5 DEF PassHolds, PassesAgree
  <2>. QED BY <1>1, <1>2, <1>3, <2>4, <2>6, PassMoves
<1>10. CASE Inputs!Digested(staging.last) /\ ~(Len(l) < z)
  <2>1. staging' = Pass("status", s, cs, o, i, z, m, f, p, l) /\ dir' = dir
    <3>1. staging' = [y EXCEPT !.at = "status"] /\ dir' = dir
      BY <1>4, <1>5, <1>10 DEF Inputs!VerifySource, Inputs!Thread
    <3>. QED BY <1>5, <3>1, PassFields
  <2>2. m = disk[i].mtime => PassesAgree("status", f, p, l, disk[i].content, held[i], unseen[i])
    <3>. SUFFICES ASSUME m = disk[i].mtime
         PROVE  PassesAgree("status", f, p, l, disk[i].content, held[i], unseen[i])
      OBVIOUS
    <3>1. /\ Len(c) = z
          /\ f \in held[i] \/ p \in held[i] \/ (unseen[i] >= 2 /\ BeginsAs(l, c)) \/ unseen[i] >= 3
      BY <1>3, <1>6 DEF PassHolds, PassesAgree
    <3>2. BeginsAs(l, c) => l = c
      BY <1>7, <1>10, <3>1, ReadToTheEnd
    <3>3. c \in held[i]
      BY <1>6, <1>7 DEF InputsInv, FilesHold
    <3>. QED BY <1>6, <3>1, <3>2, <3>3 DEF PassesAgree
  <2>3. PassHolds("status", o, i, z, m, f, p, l)
    BY <1>3, <2>2 DEF PassHolds
  <2>. QED BY <1>1, <1>2, <1>3, <2>1, <2>3, PassMoves
<1>. QED BY <1>8, <1>9, <1>10

LEMMA FinalStatusKeeps == ASSUME InputsInv, Inputs!FinalStatus PROVE InputsInv'
<1>1. staging.at = "status" /\ UNCHANGED <<names, disk, held, unseen, job, removal, reading>>
  BY DEF Inputs!FinalStatus, Inputs!owner
<1>2. "status" \in PassSteps /\ "compare" \in PassSteps /\ "status" \in StagingSteps
  BY DEF PassSteps, StagingSteps
<1>3. PICK s, cs, o, i, z, m, f, p, l :
         /\ staging = Pass("status", s, cs, o, i, z, m, f, p, l)
         /\ Listed(s, cs, o) /\ Len(cs) < Len(s) /\ PassHolds("status", o, i, z, m, f, p, l)
  BY <1>1, <1>2, PassFacts
<1>4. PICK y : y = staging
  OBVIOUS
<1>5. y.inode = i /\ y.mtime = m /\ y = Pass("status", s, cs, o, i, z, m, f, p, l)
  BY <1>3, <1>4, PassFields
<1>6. CASE Inputs!SourceChanged(staging.inode, staging.copy)
  BY <1>1, <1>2, <1>6, ThreadFails DEF Inputs!FinalStatus
<1>7. CASE ~Inputs!SourceChanged(staging.inode, staging.copy)
  <2>1. staging' = Pass("compare", s, cs, o, i, z, m, f, p, l) /\ dir' = dir
    <3>1. staging' = [y EXCEPT !.at = "compare"] /\ dir' = dir
      BY <1>4, <1>7 DEF Inputs!FinalStatus, Inputs!Thread
    <3>. QED BY <1>5, <3>1, PassFields
  <2>2. m = disk[i].mtime
    BY <1>4, <1>5, <1>7 DEF Inputs!SourceChanged
  <2>3. f \in held[i] \/ p \in held[i] \/ l \in held[i] \/ unseen[i] >= 3
    BY <1>3, <2>2 DEF PassHolds, PassesAgree
  <2>4. PassHolds("compare", o, i, z, m, f, p, l)
    BY <1>3, <2>3 DEF PassHolds, PassesAgree
  <2>. QED BY <1>1, <1>2, <1>3, <2>1, <2>4, PassMoves
<1>. QED BY <1>6, <1>7

LEMMA CompareKeeps == ASSUME InputsInv, Inputs!CompareDigests PROVE InputsInv'
<1>1. staging.at = "compare" /\ UNCHANGED <<names, disk, held, unseen, job, removal, reading>>
  BY DEF Inputs!CompareDigests, Inputs!owner
<1>2. "compare" \in PassSteps /\ "compare" \in StagingSteps
  BY DEF PassSteps, StagingSteps
<1>3. PICK s, cs, o, i, z, m, f, p, l :
         /\ staging = Pass("compare", s, cs, o, i, z, m, f, p, l)
         /\ Listed(s, cs, o) /\ Len(cs) < Len(s) /\ PassHolds("compare", o, i, z, m, f, p, l)
  BY <1>1, <1>2, PassFacts
<1>4. PICK y : y = staging
  OBVIOUS
<1>5. y.first = f /\ y.copy = p /\ y.last = l
  BY <1>3, <1>4, PassFields
<1>6. CASE names[Inputs!Path] = staging.inode /\ Inputs!DigestsAgree
  <2>1. f = p /\ l = p
    BY <1>4, <1>5, <1>6 DEF Inputs!DigestsAgree
  <2>2. i \in Inodes /\ p \in Seq(Nat) /\ Whole(p, i)
    BY <1>3, <2>1 DEF PassHolds, Whole
  <2>3. Inputs!CopyAccepted(p)
    BY <1>4, <1>5, <1>6 DEF Inputs!CompareDigests
  <2>. QED BY <1>1, <1>2, <1>3, <2>2, <2>3, ThreadAccepts
<1>7. CASE ~(names[Inputs!Path] = staging.inode /\ Inputs!DigestsAgree)
  <2>1. Inputs!StagingFails
    BY <1>7 DEF Inputs!CompareDigests
  <2>. QED BY <1>1, <1>2, <2>1, ThreadFails
<1>. QED BY <1>6, <1>7

LEMMA ReuseKeeps == ASSUME InputsInv, Inputs!ReuseObserved PROVE InputsInv'
<1>1. staging.at = "reuse" /\ UNCHANGED <<names, disk, held, unseen, job, removal, reading>>
  BY DEF Inputs!ReuseObserved, Inputs!owner
<1>2. "reuse" \in PassSteps /\ "reuse" \in StagingSteps
  BY DEF PassSteps, StagingSteps
<1>3. PICK s, cs, o, i, z, m, f, p, l :
         /\ staging = Pass("reuse", s, cs, o, i, z, m, f, p, l)
         /\ Listed(s, cs, o) /\ Len(cs) < Len(s) /\ PassHolds("reuse", o, i, z, m, f, p, l)
  BY <1>1, <1>2, PassFacts
<1>4. PICK y : y = staging
  OBVIOUS
<1>5. y.inode = i /\ y.observed = o
  BY <1>3, <1>4, PassFields
<1>6. \E e \in o : e.inode = i
  BY <1>3 DEF PassHolds
<1>7. PICK w : w = CHOOSE e \in o : e.inode = i
  OBVIOUS
<1>8. w \in o /\ w.inode = i
  BY <1>6, <1>7
<1>9. PICK c : c = w.copy
  OBVIOUS
<1>10. i \in Inodes /\ c \in Seq(Nat) /\ Whole(c, i)
  BY <1>3, <1>8, <1>9 DEF Listed
<1>11. Inputs!StagingFails \/ Inputs!CopyAccepted(c)
  BY <1>4, <1>5, <1>7, <1>9 DEF Inputs!ReuseObserved
<1>12. CASE Inputs!StagingFails
  BY <1>1, <1>2, <1>12, ThreadFails
<1>13. CASE Inputs!CopyAccepted(c)
  BY <1>1, <1>2, <1>3, <1>10, <1>13, ThreadAccepts
<1>. QED BY <1>11, <1>12, <1>13

(* A step that leaves the files, the thread and the directory as they are.   *)
LEMMA JobMoves ==
    ASSUME InputsInv, UNCHANGED <<names, disk, held, unseen, staging, dir>>, JobHolds', InputsListed'
    PROVE  InputsInv'
<1>1. FilesHold' /\ FilesGrow
  BY FilesStay DEF InputsInv
<1>2. DirHolds'
  BY <1>1, DirKeeps DEF InputsInv
<1>3. PICK x : x = staging
  OBVIOUS
<1>4. StagingOf(x)'
  BY <1>1, <1>3, StagingKeeps DEF InputsInv
<1>5. StagingOf(staging)'
  BY <1>3, <1>4
<1>. QED BY <1>1, <1>2, <1>5 DEF InputsInv

LEMMA JobFields ==
    ASSUME NEW y, NEW a, NEW k, NEW n, NEW v, NEW w, y = [at |-> a, kind |-> k, inputs |-> n]
    PROVE  /\ [y EXCEPT !.at = v] = [at |-> v, kind |-> k, inputs |-> n]
           /\ [y EXCEPT !.at = v, !.inputs = w] = [at |-> v, kind |-> k, inputs |-> w]
<1>1. [y EXCEPT !.at = v] = [at |-> v, kind |-> k, inputs |-> n]
  OBVIOUS
<1>2. PICK x : x = [at |-> v, kind |-> k, inputs |-> n]
  OBVIOUS
<1>3. [x EXCEPT !.inputs = w] = [at |-> v, kind |-> k, inputs |-> w]
  BY <1>2
<1>4. [y EXCEPT !.at = v] = x
  BY <1>1, <1>2
<1>5. [y EXCEPT !.at = v, !.inputs = w] = [x EXCEPT !.inputs = w]
  BY <1>4, Zenon
<1>. QED BY <1>1, <1>3, <1>5

LEMMA JobTo ==
    ASSUME JobHolds, job.at # "none", NEW v, job' = [job EXCEPT !.at = v]
    PROVE  /\ job' = [at |-> v, kind |-> job.kind, inputs |-> job.inputs]
           /\ job'.at = v /\ job'.kind = job.kind /\ job'.inputs = job.inputs
<1>1. PICK y, a, k, n : y = job /\ a = job.at /\ k = job.kind /\ n = job.inputs
  OBVIOUS
<1>2. job = [at |-> job.at, kind |-> job.kind, inputs |-> job.inputs]
  BY DEF JobHolds
<1>3. y = [at |-> a, kind |-> k, inputs |-> n] /\ job' = [y EXCEPT !.at = v]
  BY <1>1, <1>2
<1>4. job' = [at |-> v, kind |-> k, inputs |-> n]
  BY <1>3, JobFields
<1>. QED BY <1>1, <1>4

LEMMA JobRuns ==
    ASSUME JobHolds, job.at # "none", NEW v, NEW w, job' = [job EXCEPT !.at = v, !.inputs = w]
    PROVE  /\ job' = [at |-> v, kind |-> job.kind, inputs |-> w]
           /\ job'.at = v /\ job'.kind = job.kind /\ job'.inputs = w
<1>1. PICK y, a, k, n : y = job /\ a = job.at /\ k = job.kind /\ n = job.inputs
  OBVIOUS
<1>2. job = [at |-> job.at, kind |-> job.kind, inputs |-> job.inputs]
  BY DEF JobHolds
<1>3. y = [at |-> a, kind |-> k, inputs |-> n] /\ job' = [y EXCEPT !.at = v, !.inputs = w]
  BY <1>1, <1>2
<1>4. job' = [at |-> v, kind |-> k, inputs |-> w]
  BY <1>3, JobFields
<1>. QED BY <1>1, <1>4

(* The steps of a job, once it has its shape.                                *)
LEMMA JobShape ==
    ASSUME NEW v, NEW k, NEW n, job' = [at |-> v, kind |-> k, inputs |-> n]
    PROVE  job' = [at |-> job'.at, kind |-> job'.kind, inputs |-> job'.inputs]
OBVIOUS

LEMMA JobBeginsKeeps ==
    ASSUME InputsInv, Inputs!FilesAssumption, NEW s \in Selections, NEW allowed \in BOOLEAN, Inputs!JobBegins(s, allowed)
    PROVE  InputsInv'
<1>1. job.at = "none" /\ UNCHANGED <<names, disk, held, unseen, dir, removal, reading>>
  BY DEF Inputs!JobBegins, Inputs!owner
<1>2. staging.at = "none" /\ dir = Inputs!NoDir /\ removal = "none" /\ reading.at = "none"
  BY <1>1 DEF InputsInv, JobHolds
<1>3. FilesHold' /\ DirHolds'
  BY <1>1, FilesStay, DirKeeps DEF InputsInv
<1>4. CASE allowed
  <2>1. job' = [at |-> "staging", kind |-> "files", inputs |-> <<>>]
    BY <1>4 DEF Inputs!JobBegins
  <2>2. staging' = [at |-> "queued", sources |-> s] /\ s \in Seq(Paths)
    BY <1>4 DEF Inputs!JobBegins, Inputs!FilesAssumption
  <2>3. job'.at = "staging" /\ job'.kind = "files" /\ staging'.at = "queued"
    BY <2>1, <2>2
  <2>4. PICK x : x = staging'
    OBVIOUS
  <2>5. StagingOf(x)'
    BY <2>2, <2>4 DEF StagingOf, InQueue
  <2>6. StagingOf(staging)'
    BY <2>4, <2>5 DEF StagingOf, InQueue, Looking, Opening, Passing, Staged
  <2>7. job' = [at |-> job'.at, kind |-> job'.kind, inputs |-> job'.inputs]
    BY <2>1, JobShape
  <2>8. JobHolds'
    BY <1>1, <1>2, <2>3, <2>7 DEF JobHolds, StagingSteps, PassSteps, TensorSteps
  <2>9. InputsListed'
    BY <2>3 DEF InputsListed
  <2>. QED BY <1>3, <2>6, <2>8, <2>9 DEF InputsInv
<1>5. CASE ~allowed
  <2>1. job' = [at |-> "running", kind |-> "files", inputs |-> <<>>]
    BY <1>5 DEF Inputs!JobBegins
  <2>2. staging' = Inputs!NoStaging
    BY <1>5 DEF Inputs!JobBegins
  <2>3. job'.at = "running" /\ job'.kind = "files" /\ staging'.at = "none"
    BY <2>1, <2>2 DEF Inputs!NoStaging
  <2>4. StagingOf(staging)'
    BY <2>2 DEF StagingOf
  <2>5. job' = [at |-> job'.at, kind |-> job'.kind, inputs |-> job'.inputs]
    BY <2>1, JobShape
  <2>6. JobHolds'
    BY <1>1, <1>2, <2>2, <2>3, <2>5 DEF JobHolds, StagingSteps, PassSteps, TensorSteps
  <2>7. InputsListed'
    BY <2>3 DEF InputsListed
  <2>. QED BY <1>3, <2>4, <2>6, <2>7 DEF InputsInv
<1>. QED BY <1>4, <1>5

LEMMA StagingReturnsKeeps == ASSUME InputsInv, Inputs!StagingReturns PROVE InputsInv'
<1>1. job.at = "staging" /\ UNCHANGED <<names, disk, held, unseen, staging, dir, removal, reading>>
  BY DEF Inputs!StagingReturns, Inputs!owner
<1>2. JobHolds /\ removal = "none" /\ job.kind = "files" /\ reading.at = "none"
  BY <1>1 DEF InputsInv, JobHolds
<1>3. CASE staging.at = "staged"
  <2>1. PICK v, w : v = "running" /\ w = dir.copies
    OBVIOUS
  <2>2. job' = [job EXCEPT !.at = v, !.inputs = w]
    BY <1>3, <2>1 DEF Inputs!StagingReturns
  <2>3. job' = [at |-> v, kind |-> job.kind, inputs |-> w] /\ job'.at = v /\ job'.kind = job.kind /\ job'.inputs = w
    BY <1>1, <1>2, <2>2, JobRuns
  <2>4. job' = [at |-> job'.at, kind |-> job'.kind, inputs |-> job'.inputs]
    BY <2>3
  <2>5. JobHolds'
    BY <1>1, <1>2, <1>3, <2>1, <2>3, <2>4 DEF JobHolds, StagingSteps, PassSteps, TensorSteps
  <2>6. Staged(staging)
    BY <1>3, StagingAt DEF InputsInv
  <2>7. Len(staging.copies) = Len(staging.sources)
    BY <2>6 DEF Staged
  <2>8. Len(dir.copies) = Len(staging.copies)
    BY <1>1, <1>3 DEF InputsInv, InputsListed
  <2>9. InputsListed'
    BY <1>1, <1>2, <2>1, <2>3, <2>7, <2>8 DEF InputsListed
  <2>. QED BY <1>1, <2>5, <2>9, JobMoves
<1>4. CASE staging.at # "staged"
  <2>1. PICK v : v = "ended"
    OBVIOUS
  <2>2. job' = [job EXCEPT !.at = v] /\ staging.at = "failed"
    BY <1>4, <2>1 DEF Inputs!StagingReturns, Inputs!StagingOver
  <2>3. job' = [at |-> v, kind |-> job.kind, inputs |-> job.inputs] /\ job'.at = v /\ job'.kind = job.kind
    BY <1>1, <1>2, <2>2, JobTo
  <2>4. job' = [at |-> job'.at, kind |-> job'.kind, inputs |-> job'.inputs]
    BY <2>3, JobShape
  <2>5. JobHolds'
    BY <1>1, <1>2, <2>1, <2>2, <2>3, <2>4 DEF JobHolds, StagingSteps, PassSteps, TensorSteps
  <2>6. InputsListed'
    BY <2>1, <2>3 DEF InputsListed
  <2>. QED BY <1>1, <2>5, <2>6, JobMoves
<1>. QED BY <1>3, <1>4

(* A job that goes on to v, with its removal at r.                           *)
LEMMA JobLeaves ==
    ASSUME InputsInv, job.at # "none", NEW v, NEW r, job' = [job EXCEPT !.at = v], removal' = r,
           UNCHANGED <<names, disk, held, unseen, staging, dir, reading>>,
           v \in {"abandoning", "shielded", "removing", "ended"}, reading.at = "none",
           job.at \in {"staging", "running", "abandoning", "removing"},
           v = "abandoning" => job.at = "staging" /\ r = "none",
           v \in {"shielded", "removing"} => r = "queued" /\ staging.at \notin StagingSteps,
           v = "ended" => /\ r # "queued" /\ r \in {"none", "running", "dropped"}
                          /\ staging.at \notin StagingSteps /\ (r = "none" => dir = Inputs!NoDir)
    PROVE  InputsInv'
<1>1. /\ job' = [at |-> v, kind |-> job.kind, inputs |-> job.inputs] /\ job'.at = v /\ job'.kind = job.kind
      /\ job'.inputs = job.inputs
  BY JobTo DEF InputsInv
<1>2. job' = [at |-> job'.at, kind |-> job'.kind, inputs |-> job'.inputs]
  BY <1>1
<1>3. JobHolds'
  BY <1>1, <1>2 DEF InputsInv, JobHolds, StagingSteps, PassSteps, TensorSteps
<1>4. InputsListed'
  BY <1>1 DEF InputsInv, InputsListed
<1>. QED BY <1>3, <1>4, JobMoves

LEMMA WorkerReturnsKeeps == ASSUME InputsInv, Inputs!WorkerReturns PROVE InputsInv'
<1>1. job.at = "running" /\ UNCHANGED <<names, disk, held, unseen, staging, dir, reading>>
  BY DEF Inputs!WorkerReturns, Inputs!owner
<1>2. removal = "none" /\ staging.at \in {"none", "staged"} /\ reading.at = "none"
  BY <1>1 DEF InputsInv, JobHolds, TensorSteps
<1>3. staging.at \notin StagingSteps
  BY <1>2 DEF StagingSteps, PassSteps
<1>4. CASE dir.there
  <2>1. PICK v : v = "removing"
    OBVIOUS
  <2>2. job' = [job EXCEPT !.at = v] /\ removal' = "queued"
    BY <1>4, <2>1 DEF Inputs!WorkerReturns
  <2>. QED BY <1>1, <1>2, <1>3, <2>1, <2>2, JobLeaves
<1>5. CASE ~dir.there
  <2>1. PICK v : v = "ended"
    OBVIOUS
  <2>2. job' = [job EXCEPT !.at = v] /\ removal' = "none"
    BY <1>2, <1>5, <2>1 DEF Inputs!WorkerReturns
  <2>3. dir = Inputs!NoDir
    BY <1>5, NoDirIs DEF InputsInv
  <2>. QED BY <1>1, <1>2, <1>3, <2>1, <2>2, <2>3, JobLeaves
<1>. QED BY <1>4, <1>5

LEMMA CancelStagingKeeps == ASSUME InputsInv, Inputs!CancelStaging PROVE InputsInv'
<1>1. job.at = "staging" /\ UNCHANGED <<names, disk, held, unseen, staging, dir, removal, reading>>
  BY DEF Inputs!CancelStaging, Inputs!owner
<1>2. removal = "none" /\ reading.at = "none"
  BY <1>1 DEF InputsInv, JobHolds
<1>3. PICK v : v = "abandoning"
  OBVIOUS
<1>4. job' = [job EXCEPT !.at = v]
  BY <1>3 DEF Inputs!CancelStaging
<1>. QED BY <1>1, <1>2, <1>3, <1>4, JobLeaves

LEMMA CleanupKeeps == ASSUME InputsInv, Inputs!CleanupAbandonedStaging PROVE InputsInv'
<1>1. job.at = "abandoning" /\ UNCHANGED <<names, disk, held, unseen, staging, dir, reading>>
  BY DEF Inputs!CleanupAbandonedStaging, Inputs!owner
<1>2. removal = "none" /\ reading.at = "none"
  BY <1>1 DEF InputsInv, JobHolds
<1>3. staging.at \notin StagingSteps
  BY DEF Inputs!CleanupAbandonedStaging, Inputs!StagingOver, StagingSteps, PassSteps
<1>4. CASE dir.there
  <2>1. PICK v : v = "shielded"
    OBVIOUS
  <2>2. job' = [job EXCEPT !.at = v] /\ removal' = "queued"
    BY <1>4, <2>1 DEF Inputs!CleanupAbandonedStaging
  <2>. QED BY <1>1, <1>2, <1>3, <2>1, <2>2, JobLeaves
<1>5. CASE ~dir.there
  <2>1. PICK v : v = "ended"
    OBVIOUS
  <2>2. job' = [job EXCEPT !.at = v] /\ removal' = "none"
    BY <1>2, <1>5, <2>1 DEF Inputs!CleanupAbandonedStaging
  <2>3. dir = Inputs!NoDir
    BY <1>5, NoDirIs DEF InputsInv
  <2>. QED BY <1>1, <1>2, <1>3, <2>1, <2>2, <2>3, JobLeaves
<1>. QED BY <1>4, <1>5

LEMMA CancelRemovingKeeps == ASSUME InputsInv, Inputs!CancelRemoving PROVE InputsInv'
<1>1. job.at = "removing" /\ UNCHANGED <<names, disk, held, unseen, staging, dir, reading>>
  BY DEF Inputs!CancelRemoving, Inputs!owner
<1>2. removal \in {"queued", "running"} /\ reading.at = "none"
  BY <1>1 DEF InputsInv, JobHolds
<1>3. staging.at \notin StagingSteps
  BY <1>1 DEF InputsInv, JobHolds
<1>4. PICK v, r : v = "ended" /\ r = IF removal = "queued" THEN "dropped" ELSE removal
  OBVIOUS
<1>5. job' = [job EXCEPT !.at = v] /\ removal' = r
  BY <1>4 DEF Inputs!CancelRemoving
<1>6. r \in {"running", "dropped"}
  BY <1>2, <1>4
<1>. QED BY <1>1, <1>2, <1>3, <1>4, <1>5, <1>6, JobLeaves

LEMMA RemovalStartsKeeps == ASSUME InputsInv, Inputs!RemovalStarts PROVE InputsInv'
<1>1. /\ removal = "queued" /\ removal' = "running"
      /\ UNCHANGED <<names, disk, held, unseen, job, staging, dir, reading>>
  BY DEF Inputs!RemovalStarts, Inputs!owner
<1>2. JobHolds'
  BY <1>1 DEF InputsInv, JobHolds
<1>3. InputsListed'
  BY <1>1 DEF InputsInv, InputsListed
<1>. QED BY <1>1, <1>2, <1>3, JobMoves

LEMMA RemovalEndsKeeps == ASSUME InputsInv, Inputs!RemovalEnds PROVE InputsInv'
<1>1. /\ removal = "running" /\ removal' = "none" /\ dir' = Inputs!NoDir
      /\ UNCHANGED <<names, disk, held, unseen, staging, reading>>
  BY DEF Inputs!RemovalEnds, Inputs!owner
<1>2. /\ job.at \in {"shielded", "removing", "ended"} /\ JobHolds /\ staging.at \notin StagingSteps
      /\ reading.at = "none"
  BY <1>1 DEF InputsInv, JobHolds
<1>3. PICK v : v = "ended"
  OBVIOUS
<1>4. job' = [job EXCEPT !.at = v]
  BY <1>3 DEF Inputs!RemovalEnds
<1>5. /\ job' = [at |-> v, kind |-> job.kind, inputs |-> job.inputs] /\ job'.at = v
  BY <1>2, <1>4, JobTo
<1>6. job' = [at |-> job'.at, kind |-> job'.kind, inputs |-> job'.inputs]
  BY <1>5
<1>7. JobHolds'
  BY <1>1, <1>2, <1>3, <1>5, <1>6 DEF JobHolds, StagingSteps, PassSteps, TensorSteps
<1>8. InputsListed'
  BY <1>3, <1>5 DEF InputsListed
<1>9. FilesHold' /\ FilesGrow
  BY <1>1, FilesStay DEF InputsInv
<1>10. PICK x : x = staging
  OBVIOUS
<1>11. StagingOf(x)'
  BY <1>9, <1>10, StagingKeeps DEF InputsInv
<1>12. StagingOf(staging)'
  BY <1>1, <1>10, <1>11
<1>. QED BY <1>1, <1>7, <1>8, <1>9, <1>12, NoDirHolds DEF InputsInv

(* A tensor by reference: nothing is staged.                                 *)
LEMMA NothingStaged ==
    ASSUME InputsInv, job.at \in TensorSteps \/ job.at = "none"
    PROVE  staging.at = "none" /\ dir = Inputs!NoDir /\ removal = "none"
BY DEF InputsInv, JobHolds

LEMMA ReadingFields ==
    ASSUME NEW y, NEW a, NEW f, NEW i, NEW g, NEW v, NEW w, y = [at |-> a, ref |-> f, inode |-> i, got |-> g]
    PROVE  /\ [y EXCEPT !.at = v] = [at |-> v, ref |-> f, inode |-> i, got |-> g]
           /\ [y EXCEPT !.at = v, !.inode = w] = [at |-> v, ref |-> f, inode |-> w, got |-> g]
           /\ [y EXCEPT !.got = w] = [at |-> a, ref |-> f, inode |-> i, got |-> w]
<1>1. [y EXCEPT !.at = v] = [at |-> v, ref |-> f, inode |-> i, got |-> g]
  OBVIOUS
<1>2. PICK x : x = [at |-> v, ref |-> f, inode |-> i, got |-> g]
  OBVIOUS
<1>3. [x EXCEPT !.inode = w] = [at |-> v, ref |-> f, inode |-> w, got |-> g]
  BY <1>2
<1>4. [y EXCEPT !.at = v] = x
  BY <1>1, <1>2
<1>5. [y EXCEPT !.at = v, !.inode = w] = [x EXCEPT !.inode = w]
  BY <1>4, Zenon
<1>6. [y EXCEPT !.got = w] = [at |-> a, ref |-> f, inode |-> i, got |-> w]
  OBVIOUS
<1>. QED BY <1>1, <1>3, <1>5, <1>6

(* A tensor's job goes on reading, or to v.                                  *)
LEMMA TensorReads ==
    ASSUME InputsInv, NEW b \in {"open", "read", "digested"}, NEW f, NEW i, NEW g,
           reading' = [at |-> b, ref |-> f, inode |-> i, got |-> g], job' = job,
           job.at \in {"admitting", "loading"},
           UNCHANGED <<names, disk, held, unseen, staging, dir, removal>>
    PROVE  InputsInv'
<1>1. reading'.at = b /\ reading'.ref = f /\ reading'.inode = i /\ reading'.got = g
  OBVIOUS
<1>2. reading' = [at |-> reading'.at, ref |-> reading'.ref, inode |-> reading'.inode, got |-> reading'.got]
  BY <1>1
<1>3. JobHolds'
  BY <1>1, <1>2 DEF InputsInv, JobHolds
<1>4. InputsListed'
  BY DEF InputsInv, InputsListed
<1>. QED BY <1>3, <1>4, JobMoves

LEMMA TensorLeaves ==
    ASSUME InputsInv, job.at \in TensorSteps, NEW v, job' = [job EXCEPT !.at = v], v \in {"accepted", "ended"},
           reading'.at = "none", UNCHANGED <<names, disk, held, unseen, staging, dir, removal>>
    PROVE  InputsInv'
<1>1. job.at # "none"
  BY DEF TensorSteps
<1>2. /\ job' = [at |-> v, kind |-> job.kind, inputs |-> job.inputs] /\ job'.at = v
  BY <1>1, JobTo DEF InputsInv
<1>3. job' = [at |-> job'.at, kind |-> job'.kind, inputs |-> job'.inputs]
  BY <1>2
<1>4. JobHolds'
  BY <1>2, <1>3, NothingStaged DEF InputsInv, JobHolds, StagingSteps, PassSteps, TensorSteps
<1>5. InputsListed'
  BY <1>2 DEF InputsListed
<1>. QED BY <1>4, <1>5, JobMoves

LEMMA AdmitKeeps ==
    ASSUME InputsInv, NEW ref, Inputs!AdmitReference(ref)
    PROVE  InputsInv'
<1>1. job.at = "none" /\ UNCHANGED <<names, disk, held, unseen, staging, dir, removal>>
  BY DEF Inputs!AdmitReference, Inputs!owner
<1>2. job' = [at |-> "admitting", kind |-> "tensor", inputs |-> <<>>]
  BY DEF Inputs!AdmitReference
<1>3. reading' = [at |-> "open", ref |-> ref, inode |-> Inputs!Gone, got |-> <<>>]
  BY DEF Inputs!AdmitReference, Inputs!ReadBegins
<1>4. job'.at = "admitting" /\ reading'.at = "open"
  BY <1>2, <1>3
<1>5. job' = [at |-> job'.at, kind |-> job'.kind, inputs |-> job'.inputs]
  BY <1>2, JobShape
<1>6. reading' = [at |-> reading'.at, ref |-> reading'.ref, inode |-> reading'.inode, got |-> reading'.got]
  BY <1>3
<1>7. JobHolds'
  BY <1>1, <1>4, <1>5, <1>6, NothingStaged DEF InputsInv, JobHolds, StagingSteps, PassSteps, TensorSteps
<1>8. InputsListed'
  BY <1>4 DEF InputsListed
<1>. QED BY <1>1, <1>7, <1>8, JobMoves

LEMMA OpenReferenceKeeps == ASSUME InputsInv, Inputs!OpenReference PROVE InputsInv'
<1>1. reading.at = "open" /\ UNCHANGED <<names, disk, held, unseen, staging, dir, removal>>
  BY DEF Inputs!OpenReference, Inputs!owner
<1>2. /\ job.at \in {"admitting", "loading"}
      /\ reading = [at |-> reading.at, ref |-> reading.ref, inode |-> reading.inode, got |-> reading.got]
  BY <1>1 DEF InputsInv, JobHolds
<1>3. CASE names[reading.ref.path] = Inputs!Gone
  <2>1. PICK v : v = "ended"
    OBVIOUS
  <2>2. job' = [job EXCEPT !.at = v] /\ reading'.at = "none" /\ job.at \in TensorSteps
    BY <1>2, <1>3, <2>1 DEF Inputs!OpenReference, Inputs!NoReading, TensorSteps
  <2>. QED BY <1>1, <2>1, <2>2, TensorLeaves
<1>4. CASE names[reading.ref.path] # Inputs!Gone
  <2>1. PICK y, a, f, i, g : y = reading /\ a = reading.at /\ f = reading.ref /\ i = reading.inode /\ g = reading.got
    OBVIOUS
  <2>2. PICK v, w : v = "read" /\ w = names[f.path]
    OBVIOUS
  <2>3. y = [at |-> a, ref |-> f, inode |-> i, got |-> g]
    BY <1>2, <2>1
  <2>4. reading' = [y EXCEPT !.at = v, !.inode = w] /\ job' = job
    BY <1>4, <2>1, <2>2 DEF Inputs!OpenReference
  <2>5. reading' = [at |-> v, ref |-> f, inode |-> w, got |-> g]
    BY <2>3, <2>4, ReadingFields
  <2>. QED BY <1>1, <1>2, <2>2, <2>4, <2>5, TensorReads
<1>. QED BY <1>3, <1>4

LEMMA ReadReferenceKeeps == ASSUME InputsInv, Inputs!ReadReference PROVE InputsInv'
<1>1. reading.at = "read" /\ UNCHANGED <<names, disk, held, unseen, staging, dir, removal>>
  BY DEF Inputs!ReadReference, Inputs!owner
<1>2. /\ job.at \in {"admitting", "loading"} /\ job.at \in TensorSteps
      /\ reading = [at |-> reading.at, ref |-> reading.ref, inode |-> reading.inode, got |-> reading.got]
  BY <1>1 DEF InputsInv, JobHolds, TensorSteps
<1>3. PICK y, a, f, i, g : y = reading /\ a = reading.at /\ f = reading.ref /\ i = reading.inode /\ g = reading.got
  OBVIOUS
<1>4. y = [at |-> a, ref |-> f, inode |-> i, got |-> g]
  BY <1>2, <1>3
<1>5. PICK u, v, w, n :
         u = "ended" /\ v = "digested" /\ n = disk[i].content[Len(g) + 1] /\ w = Append(g, n)
  OBVIOUS
<1>6. \/ reading' = [y EXCEPT !.at = v] /\ job' = job
      \/ reading' = Inputs!NoReading /\ job' = [job EXCEPT !.at = u]
      \/ reading' = [y EXCEPT !.got = w] /\ job' = job
  BY <1>3, <1>5 DEF Inputs!ReadReference
<1>7. CASE reading' = [y EXCEPT !.at = v] /\ job' = job
  <2>1. reading' = [at |-> v, ref |-> f, inode |-> i, got |-> g]
    BY <1>4, <1>7, ReadingFields
  <2>. QED BY <1>1, <1>2, <1>5, <1>7, <2>1, TensorReads
<1>8. CASE reading' = Inputs!NoReading /\ job' = [job EXCEPT !.at = u]
  <2>1. reading'.at = "none"
    BY <1>8 DEF Inputs!NoReading
  <2>. QED BY <1>1, <1>2, <1>5, <1>8, <2>1, TensorLeaves
<1>9. CASE reading' = [y EXCEPT !.got = w] /\ job' = job
  <2>1. reading' = [at |-> a, ref |-> f, inode |-> i, got |-> w]
    BY <1>4, <1>9, ReadingFields
  <2>. QED BY <1>1, <1>2, <1>3, <1>9, <2>1, TensorReads
<1>. QED BY <1>6, <1>7, <1>8, <1>9

LEMMA DigestedKeeps == ASSUME InputsInv, Inputs!ReferenceDigested PROVE InputsInv'
<1>1. reading.at = "digested" /\ UNCHANGED <<names, disk, held, unseen, staging, dir, removal>>
  BY DEF Inputs!ReferenceDigested, Inputs!owner
<1>2. /\ job.at \in {"admitting", "loading"} /\ job.at \in TensorSteps /\ job.at # "none"
      /\ reading = [at |-> reading.at, ref |-> reading.ref, inode |-> reading.inode, got |-> reading.got]
  BY <1>1 DEF InputsInv, JobHolds, TensorSteps
<1>3. PICK y, a, f, i, g : y = reading /\ a = reading.at /\ f = reading.ref /\ i = reading.inode /\ g = reading.got
  OBVIOUS
<1>4. PICK u : u = "none"
  OBVIOUS
<1>5. y = [at |-> a, ref |-> f, inode |-> i, got |-> g] /\ reading' = [y EXCEPT !.at = u]
  BY <1>2, <1>3, <1>4 DEF Inputs!ReferenceDigested
<1>6. reading' = [at |-> u, ref |-> f, inode |-> i, got |-> g]
  BY <1>5, ReadingFields
<1>7. reading'.at = "none" /\ reading'.ref = f
  BY <1>4, <1>6
<1>8. PICK v, w, r : v = "ended" /\ w = "accepted" /\ r = "running"
  OBVIOUS
<1>9. \/ job' = [job EXCEPT !.at = v]
      \/ job' = [job EXCEPT !.at = w]
      \/ job' = [job EXCEPT !.at = r, !.inputs = g] /\ g = f.sha256
  BY <1>3, <1>8 DEF Inputs!ReferenceDigested, Inputs!ReferenceProven
<1>10. CASE job' = [job EXCEPT !.at = v]
  BY <1>1, <1>2, <1>7, <1>8, <1>10, TensorLeaves
<1>11. CASE job' = [job EXCEPT !.at = w]
  BY <1>1, <1>2, <1>7, <1>8, <1>11, TensorLeaves
<1>12. CASE job' = [job EXCEPT !.at = r, !.inputs = g] /\ g = f.sha256
  <2>1. job' = [at |-> r, kind |-> job.kind, inputs |-> g] /\ job'.at = r /\ job'.kind = job.kind /\ job'.inputs = g
    BY <1>2, <1>12, JobRuns DEF InputsInv
  <2>2. job' = [at |-> job'.at, kind |-> job'.kind, inputs |-> job'.inputs]
    BY <2>1
  <2>3. staging.at = "none" /\ dir = Inputs!NoDir /\ removal = "none"
    BY <1>2, NothingStaged
  <2>4. JobHolds'
    BY <1>1, <1>7, <1>8, <2>1, <2>2, <2>3 DEF InputsInv, JobHolds, StagingSteps, PassSteps, TensorSteps
  <2>5. InputsListed'
    BY <1>1, <1>7, <1>8, <1>12, <2>1, <2>3 DEF InputsListed
  <2>. QED BY <1>1, <2>4, <2>5, JobMoves
<1>. QED BY <1>9, <1>10, <1>11, <1>12

LEMMA LoadKeeps == ASSUME InputsInv, Inputs!LoadReference PROVE InputsInv'
<1>1. job.at = "accepted" /\ UNCHANGED <<names, disk, held, unseen, staging, dir, removal>>
  BY DEF Inputs!LoadReference, Inputs!owner
<1>2. job.at \in TensorSteps /\ job.at # "none" /\ reading.at = "none"
  BY <1>1 DEF InputsInv, JobHolds, TensorSteps
<1>3. PICK v, w, f : v = "ended" /\ w = "loading" /\ f = reading.ref
  OBVIOUS
<1>4. CASE Inputs!ReferencePermitted(reading.ref)
  <2>1. job' = [job EXCEPT !.at = w] /\ reading' = [at |-> "open", ref |-> f, inode |-> Inputs!Gone, got |-> <<>>]
    BY <1>3, <1>4 DEF Inputs!LoadReference, Inputs!ReadBegins
  <2>2. job' = [at |-> w, kind |-> job.kind, inputs |-> job.inputs] /\ job'.at = w
    BY <1>2, <2>1, JobTo DEF InputsInv
  <2>3. job' = [at |-> job'.at, kind |-> job'.kind, inputs |-> job'.inputs]
    BY <2>2
  <2>4. reading'.at = "open"
    BY <2>1
  <2>5. reading' = [at |-> reading'.at, ref |-> reading'.ref, inode |-> reading'.inode, got |-> reading'.got]
    BY <2>1
  <2>6. JobHolds'
    BY <1>1, <1>2, <1>3, <2>2, <2>3, <2>4, <2>5, NothingStaged
       DEF InputsInv, JobHolds, StagingSteps, PassSteps, TensorSteps
  <2>7. InputsListed'
    BY <1>3, <2>2 DEF InputsListed
  <2>. QED BY <1>1, <2>6, <2>7, JobMoves
<1>5. CASE ~Inputs!ReferencePermitted(reading.ref)
  <2>1. job' = [job EXCEPT !.at = v] /\ reading' = reading
    BY <1>3, <1>5 DEF Inputs!LoadReference
  <2>. QED BY <1>1, <1>2, <1>3, <2>1, TensorLeaves
<1>. QED BY <1>4, <1>5

LEMMA InputsStutter == ASSUME InputsInv, UNCHANGED Inputs!inputVars PROVE InputsInv'
<1>1. UNCHANGED <<names, disk, held, unseen, job, staging, dir, removal, reading>>
  BY DEF Inputs!inputVars
<1>2. JobHolds' /\ InputsListed'
  BY <1>1 DEF InputsInv, JobHolds, InputsListed
<1>. QED BY <1>1, <1>2, JobMoves

LEMMA InputsStep == ASSUME InputsInv, [Inputs!Next]_(Inputs!inputVars) PROVE InputsInv'
<1>1. Inputs!FilesAssumption
  BY InputsAssumption
<1>2. CASE \E i \in Inodes, c \in Contents, traceless \in BOOLEAN : Inputs!Rewrite(i, c, traceless)
  BY <1>1, <1>2, RewriteKeeps
<1>3. CASE \E p \in Paths, i \in Inodes \cup {Inputs!Gone} : Inputs!Rename(p, i)
  BY <1>3, RenameKeeps
<1>4. CASE \E s \in Selections, g \in BOOLEAN : Inputs!JobBegins(s, g)
  BY <1>1, <1>4, JobBeginsKeeps
<1>5. CASE Inputs!StagingBegins \/ Inputs!SelectedStatus \/ Inputs!OpenSelectedSource \/ Inputs!ReuseObserved
  BY <1>5, StagingBeginsKeeps, SelectedStatusKeeps, OpenKeeps, ReuseKeeps
<1>6. CASE \/ Inputs!StreamDigest \/ Inputs!CopyBounded \/ Inputs!VerifySource \/ Inputs!FinalStatus
           \/ Inputs!CompareDigests
  BY <1>6, StreamDigestKeeps, CopyBoundedKeeps, VerifyKeeps, FinalStatusKeeps, CompareKeeps
<1>7. CASE Inputs!StagingReturns \/ Inputs!WorkerReturns \/ Inputs!CancelStaging \/ Inputs!CleanupAbandonedStaging
  BY <1>7, StagingReturnsKeeps, WorkerReturnsKeeps, CancelStagingKeeps, CleanupKeeps
<1>8. CASE Inputs!CancelRemoving \/ Inputs!RemovalStarts \/ Inputs!RemovalEnds
  BY <1>8, CancelRemovingKeeps, RemovalStartsKeeps, RemovalEndsKeeps
<1>9. CASE \E ref \in References : Inputs!AdmitReference(ref)
  BY <1>9, AdmitKeeps
<1>10. CASE Inputs!OpenReference \/ Inputs!ReadReference \/ Inputs!ReferenceDigested \/ Inputs!LoadReference
  BY <1>10, OpenReferenceKeeps, ReadReferenceKeeps, DigestedKeeps, LoadKeeps
<1>11. CASE UNCHANGED Inputs!inputVars
  BY <1>11, InputsStutter
<1>. QED
  BY <1>2, <1>3, <1>4, <1>5, <1>6, <1>7, <1>8, <1>9, <1>10, <1>11 DEF Inputs!Next

LEMMA InputsInvSound == InputsInv => InputsSound
<1>. SUFFICES ASSUME InputsInv PROVE InputsSound
  OBVIOUS
<1>1. Inputs!CopyIsWhole
  BY DEF InputsInv, DirHolds, Whole, Inputs!CopyIsWhole, Inputs!Forging
<1>2. Inputs!StagingRemoved
  BY DEF InputsInv, JobHolds, Inputs!StagingRemoved
<1>3. Inputs!InputsComplete
  BY DEF InputsInv, JobHolds, InputsListed, Inputs!InputsComplete
<1>. QED BY <1>1, <1>2, <1>3 DEF InputsSound, Inputs!InputsSound

(* However its owner rewrites, renames or truncates a selected file while    *)
(* copy_selected_source digests, copies and digests it again, and whenever   *)
(* the job is cancelled, the worker is given contents the file held at one   *)
(* moment (unless it was rewritten three times without a trace), and         *)
(* _stage_payload leaves no private copy behind; a tensor that runs is the   *)
(* one its reference declared (load_referenced_tensor).  For files of any    *)
(* length, any number of them, and any number of rewrites.                   *)
THEOREM InputsAreWhole == Inputs!Spec => []InputsSound
<1>1. Inputs!Init => InputsInv
  BY InputsStart
<1>2. InputsInv /\ [Inputs!Next]_(Inputs!inputVars) => InputsInv'
  BY InputsStep
<1>3. InputsInv => InputsSound
  BY InputsInvSound
<1>. QED BY <1>1, <1>2, <1>3, PTL DEF Inputs!Spec

-----------------------------------------------------------------------------
(* The recorded history.  A step writes at its end or removes from its       *)
(* beginning, so of two rows that remain the first was written first.        *)

Segment == [id : Nat, lines : Seq(Nat), torn : BOOLEAN]
Segmented(s) == s \in Seq(Segment) /\ \A i, j \in DOMAIN s : i < j => s[i].id < s[j].id
Line(s, i, k) == i \in DOMAIN s /\ k \in DOMAIN s[i].lines
Increases(s) ==
    \A i, j, k, l : /\ Line(s, i, k) /\ Line(s, j, l) /\ s[i].lines[k] # 0 /\ s[j].lines[l] # 0
                    /\ i < j \/ (i = j /\ k < l)
                    => s[i].lines[k] < s[j].lines[l]
Older(s, t) == \A i, k : Line(s, i, k) /\ s[i].lines[k] # 0 => s[i].lines[k] < t
Has(s, t) == \E i, k : Line(s, i, k) /\ s[i].lines[k] = t
Cut(s) == s # <<>> /\ s[1].id > 0

Steps == {"idle", "loaded", "checking", "appending"}
RecordersHold ==
    /\ rec \in [Recorders -> [at : Steps, row : Nat]]
    /\ \A p \in Recorders : rec[p].at # "idle" => rec[p].row # 0
    /\ clock \in Nat /\ clock # 0 /\ plain \in Nat /\ 0 \notin recorded

(* While only record_unique writes, who is past its entry holds the lock.    *)
OneWriter ==
    plain = 0 => /\ \A p \in Recorders : rec[p].at \in {"checking", "appending"} => lockOwner = p
                 /\ Increases(segments)
                 /\ \A p \in Recorders : rec[p].at = "appending" => Older(segments, rec[p].row)

Kept(s) == \A t \in recorded : Has(s, t) \/ t \in glued \/ Cut(s)

HistoryInv == Segmented(segments) /\ RecordersHold /\ OneWriter /\ Kept(segments)

(* q is s with a line more.                                                  *)
Extends(q, s, line) ==
    /\ Segmented(q) /\ q # <<>>
    /\ s # <<>> => q[1].id = s[1].id
    /\ \A i, k : Line(s, i, k) => Line(q, i, k) /\ q[i].lines[k] = s[i].lines[k]
    /\ \A i, k : Line(q, i, k) =>
          \/ Line(s, i, k)
          \/ /\ q[i].lines[k] = line
             /\ \A j, l : Line(q, j, l) => j < i \/ (j = i /\ l <= k)

LEMMA SegmentFields ==
    ASSUME NEW s, Segmented(s), NEW i \in DOMAIN s
    PROVE  /\ s[i] = [id |-> s[i].id, lines |-> s[i].lines, torn |-> s[i].torn]
           /\ s[i].id \in Nat /\ s[i].lines \in Seq(Nat) /\ s[i].torn \in BOOLEAN
<1>1. s[i] \in Segment
  BY DEF Segmented
<1>. QED BY <1>1 DEF Segment

LEMMA NewestIs ==
    ASSUME NEW s, Segmented(s), s # <<>>
    PROVE  Len(s) \in Nat /\ Len(s) \in DOMAIN s /\ 1 \in DOMAIN s /\ DOMAIN s = 1 .. Len(s)
BY DEF Segmented

(* A segment is added.                                                       *)
LEMMA AddsSegment ==
    ASSUME NEW s, Segmented(s), NEW line \in Nat, NEW d \in Nat, \A i \in DOMAIN s : s[i].id < d,
           NEW r, r = [id |-> d, lines |-> <<line>>, torn |-> FALSE], NEW q, q = Append(s, r)
    PROVE  Extends(q, s, line) /\ Has(q, line)
<1>1. r \in Segment
  <2>1. <<line>> \in Seq(Nat) /\ FALSE \in BOOLEAN
    OBVIOUS
  <2>. QED BY <2>1 DEF Segment
<1>2. s \in Seq(Segment) /\ Len(s) \in Nat /\ DOMAIN s = 1 .. Len(s)
  BY DEF Segmented
<1>3. /\ q \in Seq(Segment) /\ Len(q) = Len(s) + 1 /\ q[Len(s) + 1] = r /\ DOMAIN q = 1 .. (Len(s) + 1)
      /\ \A i \in 1 .. Len(s) : q[i] = s[i]
  BY <1>1, <1>2
<1>4. r.id = d /\ r.lines = <<line>> /\ DOMAIN r.lines = {1} /\ r.lines[1] = line
  OBVIOUS
<1>5. \A i \in DOMAIN q : i \in DOMAIN s \/ i = Len(s) + 1
  BY <1>2, <1>3
<1>6. ASSUME NEW i \in DOMAIN q, NEW j \in DOMAIN q, i < j PROVE q[i].id < q[j].id
  <2>1. i \in 1 .. Len(s)
    BY <1>2, <1>3, <1>6
  <2>2. CASE j \in DOMAIN s
    BY <1>2, <1>3, <1>6, <2>1, <2>2 DEF Segmented
  <2>3. CASE j = Len(s) + 1
    BY <1>2, <1>3, <1>4, <2>1, <2>3
  <2>. QED BY <1>5, <2>2, <2>3
<1>7. Segmented(q) /\ q # <<>>
  BY <1>2, <1>3, <1>6 DEF Segmented
<1>8. s # <<>> => q[1].id = s[1].id
  BY <1>2, <1>3
<1>9. ASSUME NEW i, NEW k, Line(s, i, k) PROVE Line(q, i, k) /\ q[i].lines[k] = s[i].lines[k]
  BY <1>2, <1>3, <1>9 DEF Line
<1>10. ASSUME NEW i, NEW k, Line(q, i, k), ~Line(s, i, k)
       PROVE  /\ q[i].lines[k] = line
              /\ \A j, l : Line(q, j, l) => j < i \/ (j = i /\ l <= k)
  <2>1. i = Len(s) + 1
    BY <1>2, <1>3, <1>5, <1>10 DEF Line
  <2>2. k = 1
    BY <1>3, <1>4, <1>10, <2>1 DEF Line
  <2>3. ASSUME NEW j, NEW l, Line(q, j, l) PROVE j < i \/ (j = i /\ l <= k)
    <3>1. j \in 1 .. (Len(s) + 1)
      BY <1>3, <2>3 DEF Line
    <3>2. j = i => l = 1
      BY <1>3, <1>4, <2>1, <2>3 DEF Line
    <3>. QED BY <1>2, <2>1, <2>2, <3>1, <3>2
  <2>. QED BY <1>3, <1>4, <2>1, <2>2, <2>3
<1>11. Line(q, Len(s) + 1, 1) /\ q[Len(s) + 1].lines[1] = line
  BY <1>2, <1>3, <1>4 DEF Line
<1>12. Has(q, line)
  BY <1>11 DEF Has
<1>13. Extends(q, s, line)
  BY <1>7, <1>8, <1>9, <1>10 DEF Extends
<1>. QED BY <1>12, <1>13

(* The newest segment takes a line, or swallows it.                          *)
LEMMA GrowsSegment ==
    ASSUME NEW s, Segmented(s), s # <<>>, NEW line \in Nat, NEW q \in Seq(Segment), DOMAIN q = DOMAIN s,
           \A i \in DOMAIN s : i # Len(s) => q[i] = s[i], q[Len(s)].id = s[Len(s)].id,
           \/ q[Len(s)].lines = s[Len(s)].lines
           \/ q[Len(s)].lines = Append(s[Len(s)].lines, line)
    PROVE  /\ Extends(q, s, line)
           /\ q[Len(s)].lines = Append(s[Len(s)].lines, line) => Has(q, line)
<1>0. PICK n, ls : n = Len(s) /\ ls = q[Len(s)].lines
  OBVIOUS
<1>1. n \in DOMAIN s /\ n \in Nat /\ DOMAIN s = 1 .. n /\ 1 \in DOMAIN s /\ s \in Seq(Segment)
  BY <1>0, NewestIs DEF Segmented
<1>2. PICK old : old = s[n].lines
  OBVIOUS
<1>3. s[n].id \in Nat /\ old \in Seq(Nat) /\ Len(old) \in Nat /\ DOMAIN old = 1 .. Len(old)
  BY <1>1, <1>2, SegmentFields
<1>4. /\ ls \in Seq(Nat) /\ \A k \in DOMAIN old : k \in DOMAIN ls /\ ls[k] = old[k]
      /\ \A k \in DOMAIN ls : k \in DOMAIN old \/ (k = Len(old) + 1 /\ ls = Append(old, line))
  <2>1. CASE ls = old
    <3>1. \A k \in DOMAIN old : k \in DOMAIN ls /\ ls[k] = old[k]
      BY <2>1
    <3>2. \A k \in DOMAIN ls : k \in DOMAIN old
      BY <2>1
    <3>3. ls \in Seq(Nat)
      BY <1>3, <2>1
    <3>. QED BY <3>1, <3>2, <3>3, Zenon
  <2>2. CASE ls = Append(old, line)
    BY <1>3, <2>2
  <2>. QED BY <1>0, <1>2, <2>1, <2>2
<1>6. q \in Seq(Segment) /\ q[n].id = s[n].id /\ q[n].lines = ls /\ \A i \in DOMAIN s : i # n => q[i] = s[i]
  BY <1>0
<1>7. \A i \in DOMAIN s : q[i].id = s[i].id
  BY <1>6
<1>8. Segmented(q) /\ q # <<>>
  BY <1>1, <1>6, <1>7 DEF Segmented
<1>9. ASSUME NEW i, NEW k, Line(s, i, k) PROVE Line(q, i, k) /\ q[i].lines[k] = s[i].lines[k]
  BY <1>2, <1>4, <1>6, <1>9 DEF Line
<1>10. ASSUME NEW i, NEW k, Line(q, i, k), ~Line(s, i, k)
       PROVE  i = n /\ k = Len(old) + 1 /\ ls = Append(old, line) /\ q[i].lines[k] = line
  <2>1. i = n
    BY <1>6, <1>10 DEF Line
  <2>2. k \in DOMAIN ls /\ k \notin DOMAIN old
    BY <1>1, <1>2, <1>6, <1>10, <2>1 DEF Line
  <2>3. k = Len(old) + 1 /\ ls = Append(old, line)
    BY <1>4, <2>2
  <2>. QED BY <1>3, <1>6, <2>1, <2>3
<1>11. ASSUME NEW i, NEW k, Line(q, i, k), ~Line(s, i, k), NEW j, NEW l, Line(q, j, l)
       PROVE  j < i \/ (j = i /\ l <= k)
  <2>1. i = n /\ k = Len(old) + 1 /\ ls = Append(old, line)
    BY <1>10, <1>11
  <2>2. j \in 1 .. n
    BY <1>1, <1>6, <1>11 DEF Line
  <2>3. j = n => l \in 1 .. (Len(old) + 1)
    BY <1>3, <1>6, <1>11, <2>1 DEF Line
  <2>. QED BY <1>1, <1>3, <2>1, <2>2, <2>3
<1>12. ls = Append(old, line) => Has(q, line)
  <2>. SUFFICES ASSUME ls = Append(old, line) PROVE Has(q, line)
    OBVIOUS
  <2>1. Len(old) + 1 \in DOMAIN ls /\ ls[Len(old) + 1] = line
    BY <1>3
  <2>2. Line(q, n, Len(old) + 1) /\ q[n].lines[Len(old) + 1] = line
    BY <1>1, <1>6, <2>1 DEF Line
  <2>. QED BY <2>2 DEF Has
<1>13. Extends(q, s, line)
  BY <1>1, <1>7, <1>8, <1>9, <1>10, <1>11 DEF Extends
<1>. QED BY <1>0, <1>2, <1>12, <1>13

(* The newest segment is replaced by r.                                      *)
LEMMA ReplacesNewest ==
    ASSUME NEW s \in Seq(Segment), NEW n \in DOMAIN s, NEW r \in Segment, NEW q, q = [s EXCEPT ![n] = r]
    PROVE  q \in Seq(Segment) /\ DOMAIN q = DOMAIN s /\ q[n] = r /\ \A i \in DOMAIN s : i # n => q[i] = s[i]
OBVIOUS

LEMMA AppendExtends ==
    ASSUME HistoryInv, NEW line \in Nat, NEW q, q = History!Appended(line)
    PROVE  Extends(q, segments, line) /\ (History!Swallowed \/ Has(q, line))
<1>1. PICK s : s = segments
  OBVIOUS
<1>2. Segmented(s)
  BY <1>1 DEF HistoryInv
<1>3. CASE s = <<>>
  <2>1. PICK r : r = [id |-> 0, lines |-> <<line>>, torn |-> FALSE]
    OBVIOUS
  <2>2. q = Append(s, r)
    <3>1. q = <<r>>
      BY <1>1, <1>3, <2>1 DEF History!Appended, History!NewSegment
    <3>2. Append(<<>>, r) = <<r>>
      OBVIOUS
    <3>. QED BY <1>3, <3>1, <3>2
  <2>3. \A i \in DOMAIN s : s[i].id < 0
    BY <1>3
  <2>. QED BY <1>1, <1>2, <2>1, <2>2, <2>3, AddsSegment
<1>4. CASE s # <<>>
  <2>1. PICK n, last : n = Len(s) /\ last = s[n]
    OBVIOUS
  <2>2. n \in Nat /\ n \in DOMAIN s /\ DOMAIN s = 1 .. n
    BY <1>2, <1>4, <2>1, NewestIs
  <2>3. PICK d, ls, b : d = last.id /\ ls = last.lines /\ b = last.torn
    OBVIOUS
  <2>4. last = [id |-> d, lines |-> ls, torn |-> b] /\ d \in Nat /\ ls \in Seq(Nat) /\ b \in BOOLEAN
    BY <1>2, <2>1, <2>2, <2>3, SegmentFields
  <2>5. History!Newest = last
    BY <1>1, <2>1 DEF History!Newest
  <2>6. CASE Len(ls) >= SegmentLines
    <3>1. PICK r : r = [id |-> d + 1, lines |-> <<line>>, torn |-> FALSE]
      OBVIOUS
    <3>2. q = Append(s, r)
      BY <1>1, <1>4, <2>3, <2>5, <2>6, <3>1 DEF History!Appended, History!NewSegment
    <3>3. ASSUME NEW i \in DOMAIN s PROVE s[i].id < d + 1
      <4>1. s[i].id \in Nat /\ (i < n => s[i].id < d) /\ (i = n => s[i].id = d)
        BY <1>2, <2>1, <2>2, <2>3, SegmentFields DEF Segmented
      <4>2. i < n \/ i = n
        BY <2>2
      <4>. QED BY <2>4, <4>1, <4>2
    <3>4. d + 1 \in Nat
      BY <2>4
    <3>. QED BY <1>1, <1>2, <3>1, <3>2, <3>3, <3>4, AddsSegment
  <2>7. CASE ~(Len(ls) >= SegmentLines) /\ b
    <3>1. PICK f : f = FALSE
      OBVIOUS
    <3>2. PICK r : r = [id |-> d, lines |-> ls, torn |-> f]
      OBVIOUS
    <3>3. [last EXCEPT !.torn = f] = r
      BY <2>4, <3>2
    <3>4. q = [s EXCEPT ![n] = r]
      BY <1>1, <1>4, <2>1, <2>3, <2>5, <2>7, <3>1, <3>3 DEF History!Appended
    <3>5. Extends(q, s, line)
      <4>1. r.id = s[n].id /\ r.lines = s[n].lines /\ r \in Segment
        BY <2>1, <2>3, <2>4, <3>1, <3>2 DEF Segment
      <4>2. /\ q \in Seq(Segment) /\ DOMAIN q = DOMAIN s /\ q[n] = r
            /\ \A i \in DOMAIN s : i # n => q[i] = s[i]
        BY <1>2, <2>2, <3>4, <4>1, ReplacesNewest DEF Segmented
      <4>. QED BY <1>2, <1>4, <2>1, <4>1, <4>2, GrowsSegment
    <3>6. History!Swallowed \/ ~(Len(ls) < SegmentLines)
      BY <1>1, <1>4, <2>3, <2>5, <2>7 DEF History!Swallowed
    <3>. QED BY <1>1, <2>4, <2>7, <3>5, <3>6, HistoryAssumption DEF History!BoundsAssumption
  <2>8. CASE ~(Len(ls) >= SegmentLines) /\ ~b
    <3>1. PICK w : w = Append(ls, line)
      OBVIOUS
    <3>2. PICK r : r = [id |-> d, lines |-> w, torn |-> b]
      OBVIOUS
    <3>3. [last EXCEPT !.lines = w] = r
      BY <2>4, <3>2
    <3>4. q = [s EXCEPT ![n] = r]
      BY <1>1, <1>4, <2>1, <2>3, <2>5, <2>8, <3>1, <3>3 DEF History!Appended
    <3>5. r.id = s[n].id /\ r.lines = Append(s[n].lines, line) /\ r \in Segment
      <4>1. w \in Seq(Nat)
        BY <2>4, <3>1
      <4>. QED BY <2>1, <2>3, <2>4, <3>1, <3>2, <4>1 DEF Segment
    <3>6. /\ q \in Seq(Segment) /\ DOMAIN q = DOMAIN s /\ q[n] = r
          /\ \A i \in DOMAIN s : i # n => q[i] = s[i]
      BY <1>2, <2>2, <3>4, <3>5, ReplacesNewest DEF Segmented
    <3>7. Extends(q, s, line) /\ Has(q, line)
      BY <1>2, <1>4, <2>1, <3>5, <3>6, GrowsSegment
    <3>. QED BY <1>1, <3>7
  <2>. QED BY <2>6, <2>7, <2>8
<1>. QED BY <1>3, <1>4

(* What a line more, and segments fewer, leave as it was.                    *)
LEMMA ExtendsIncreases ==
    ASSUME NEW s, NEW q, NEW line \in Nat, Extends(q, s, line), Segmented(s), Increases(s),
           line = 0 \/ Older(s, line)
    PROVE  Increases(q)
<1>. SUFFICES ASSUME NEW i, NEW j, NEW k, NEW l, Line(q, i, k), Line(q, j, l),
                     q[i].lines[k] # 0, q[j].lines[l] # 0, i < j \/ (i = j /\ k < l)
              PROVE  q[i].lines[k] < q[j].lines[l]
  BY DEF Increases
<1>1. i \in Int /\ j \in Int /\ k \in Int /\ l \in Int
  <2>1. Segmented(q) /\ i \in DOMAIN q /\ j \in DOMAIN q
    BY DEF Extends, Line
  <2>2. q \in Seq(Segment) /\ q[i].lines \in Seq(Nat) /\ q[j].lines \in Seq(Nat)
    BY <2>1, SegmentFields DEF Segmented
  <2>3. DOMAIN q = 1 .. Len(q) /\ DOMAIN q[i].lines = 1 .. Len(q[i].lines) /\ DOMAIN q[j].lines = 1 .. Len(q[j].lines)
    BY <2>2
  <2>4. i \in 1 .. Len(q) /\ j \in 1 .. Len(q) /\ k \in 1 .. Len(q[i].lines) /\ l \in 1 .. Len(q[j].lines)
    BY <2>3 DEF Line
  <2>. QED BY <2>4
<1>2. ~(j < i \/ (j = i /\ l <= k))
  BY <1>1
<1>3. Line(s, i, k) /\ q[i].lines[k] = s[i].lines[k]
  BY <1>2 DEF Extends
<1>4. CASE Line(s, j, l)
  <2>1. q[j].lines[l] = s[j].lines[l]
    BY <1>4 DEF Extends
  <2>. QED BY <1>3, <1>4, <2>1 DEF Increases
<1>5. CASE ~Line(s, j, l)
  <2>1. q[j].lines[l] = line
    BY <1>5 DEF Extends
  <2>. QED BY <1>3, <2>1 DEF Older
<1>. QED BY <1>4, <1>5

LEMMA PruneKeeps ==
    ASSUME NEW q, Segmented(q), q # <<>>, NEW r, r = History!Prune(q)
    PROVE  /\ Segmented(r) /\ (r = q \/ Cut(r)) /\ (Cut(q) => Cut(r))
           /\ Increases(q) => Increases(r)
<1>1. MaxSegments \in Nat \ {0}
  BY HistoryAssumption DEF History!BoundsAssumption
<1>2. q \in Seq(Segment) /\ Len(q) \in Nat /\ DOMAIN q = 1 .. Len(q)
  BY DEF Segmented
<1>3. CASE ~(Len(q) > MaxSegments)
  BY <1>3 DEF History!Prune
<1>4. CASE Len(q) > MaxSegments
  <2>1. PICK d : d = Len(q) - MaxSegments
    OBVIOUS
  <2>2. d \in Nat /\ d >= 1 /\ Len(q) = d + MaxSegments /\ r = SubSeq(q, d + 1, Len(q))
    BY <1>1, <1>2, <1>4, <2>1 DEF History!Prune
  <2>3. /\ r \in Seq(Segment) /\ Len(r) = MaxSegments /\ DOMAIN r = 1 .. MaxSegments
        /\ \A i \in DOMAIN r : i + d \in DOMAIN q /\ r[i] = q[i + d]
    <3>1. r \in Seq(Segment) /\ Len(r) = MaxSegments
      BY <1>1, <1>2, <2>2
    <3>2. DOMAIN r = 1 .. MaxSegments
      BY <3>1
    <3>3. ASSUME NEW i \in 1 .. MaxSegments PROVE i + d \in DOMAIN q /\ r[i] = q[i + d]
      <4>1. i + d \in 1 .. Len(q) /\ (d + 1) + i - 1 = i + d
        BY <1>1, <2>2
      <4>2. r[i] = q[(d + 1) + i - 1]
        BY <1>1, <1>2, <2>2
      <4>. QED BY <1>2, <4>1, <4>2
    <3>. QED BY <3>1, <3>2, <3>3
  <2>4. \A i \in DOMAIN r : i \in Nat
    BY <2>3
  <2>5. Segmented(r)
    <3>1. ASSUME NEW i \in DOMAIN r, NEW j \in DOMAIN r, i < j PROVE r[i].id < r[j].id
      <4>1. i + d < j + d /\ i + d \in DOMAIN q /\ j + d \in DOMAIN q
        BY <2>2, <2>3, <2>4, <3>1
      <4>. QED BY <2>3, <4>1 DEF Segmented
    <3>. QED BY <2>3, <3>1 DEF Segmented
  <2>6. Cut(r)
    <3>1. 1 \in DOMAIN r /\ r # <<>>
      BY <1>1, <2>3
    <3>2. 1 + d \in DOMAIN q /\ r[1] = q[1 + d] /\ 1 \in DOMAIN q /\ 1 < 1 + d
      <4>1. 1 + d \in DOMAIN q /\ r[1] = q[1 + d]
        BY <2>3, <3>1
      <4>2. 1 \in 1 .. Len(q) /\ 1 < 1 + d
        BY <1>1, <2>2
      <4>. QED BY <1>2, <4>1, <4>2
    <3>3. q[1].id < q[1 + d].id /\ q[1].id \in Nat /\ q[1 + d].id \in Nat
      BY <3>2, SegmentFields DEF Segmented
    <3>4. q[1 + d].id > 0
      BY <3>3
    <3>. QED BY <3>1, <3>2, <3>4 DEF Cut
  <2>7. ASSUME Increases(q) PROVE Increases(r)
    <3>. SUFFICES ASSUME NEW i, NEW j, NEW k, NEW l, Line(r, i, k), Line(r, j, l),
                         r[i].lines[k] # 0, r[j].lines[l] # 0, i < j \/ (i = j /\ k < l)
                  PROVE  r[i].lines[k] < r[j].lines[l]
      BY DEF Increases
    <3>1. /\ i \in DOMAIN r /\ j \in DOMAIN r /\ i \in Nat /\ j \in Nat
      BY <2>4 DEF Line
    <3>2. Line(q, i + d, k) /\ Line(q, j + d, l) /\ r[i] = q[i + d] /\ r[j] = q[j + d]
      BY <2>3, <3>1 DEF Line
    <3>3. i + d < j + d \/ (i + d = j + d /\ k < l)
      BY <2>2, <3>1
    <3>4. q[i + d].lines[k] < q[j + d].lines[l]
      BY <2>7, <3>2, <3>3 DEF Increases
    <3>. QED BY <3>2, <3>4
  <2>. QED BY <2>5, <2>6, <2>7
<1>. QED BY <1>3, <1>4

(* What a step does to one recorder.                                         *)
Becomes(p, a, w) ==
    /\ rec' \in [Recorders -> [at : Steps, row : Nat]]
    /\ rec'[p].at = a /\ rec'[p].row = w /\ \A r \in Recorders : r # p => rec'[r] = rec[r]
    /\ \A r \in Recorders : rec'[r].at # "idle" => rec'[r].row # 0

LEMMA RecorderBegins ==
    ASSUME RecordersHold, NEW p \in Recorders, NEW x \in [at : Steps, row : Nat], x.at # "idle" => x.row # 0,
           rec' = [rec EXCEPT ![p] = x]
    PROVE  Becomes(p, x.at, x.row)
<1>1. rec \in [Recorders -> [at : Steps, row : Nat]]
  BY DEF RecordersHold
<1>2. rec' \in [Recorders -> [at : Steps, row : Nat]] /\ rec'[p] = x /\ \A r \in Recorders : r # p => rec'[r] = rec[r]
  BY <1>1
<1>. QED BY <1>2 DEF Becomes, RecordersHold

LEMMA RecorderGoesOn ==
    ASSUME RecordersHold, NEW p \in Recorders, NEW a \in Steps, rec[p].at # "idle", rec' = [rec EXCEPT ![p].at = a]
    PROVE  Becomes(p, a, rec[p].row)
<1>1. rec \in [Recorders -> [at : Steps, row : Nat]]
  BY DEF RecordersHold
<1>2. /\ rec' \in [Recorders -> [at : Steps, row : Nat]] /\ rec'[p].at = a /\ rec'[p].row = rec[p].row
      /\ \A r \in Recorders : r # p => rec'[r] = rec[r]
  BY <1>1
<1>. QED BY <1>2 DEF Becomes, RecordersHold

LEMMA HistoryStart == History!Init => HistoryInv
<1>. SUFFICES ASSUME History!Init PROVE HistoryInv
  OBVIOUS
<1>1. segments = <<>> /\ recorded = {} /\ clock = 1 /\ plain = 0 /\ rec = [p \in Recorders |-> History!Idle]
  BY DEF History!Init
<1>2. Segmented(segments) /\ Kept(segments) /\ Increases(segments)
  BY <1>1 DEF Segmented, Kept, Increases, Line
<1>3. PICK x : x = History!Idle
  OBVIOUS
<1>4. x \in [at : Steps, row : Nat] /\ x.at = "idle"
  BY <1>3 DEF History!Idle, History!Garbage, Steps
<1>5. rec = [p \in Recorders |-> x]
  BY <1>1, <1>3
<1>6. rec \in [Recorders -> [at : Steps, row : Nat]] /\ \A p \in Recorders : rec[p].at = "idle"
  BY <1>4, <1>5
<1>. QED BY <1>1, <1>2, <1>6 DEF HistoryInv, RecordersHold, OneWriter

(* A step that writes nothing.                                               *)
LEMMA NothingWritten ==
    ASSUME HistoryInv, UNCHANGED <<segments, recorded, glued>>, RecordersHold',
           plain' = 0 => /\ plain = 0
                         /\ \A p \in Recorders : rec'[p].at \in {"checking", "appending"} => lockOwner' = p
                         /\ \A p \in Recorders : rec'[p].at = "appending" => Older(segments, rec'[p].row)
    PROVE  HistoryInv'
BY DEF HistoryInv, OneWriter, Kept

LEMMA HistorySnapshotKeeps == ASSUME HistoryInv, History!SnapshotPublished PROVE HistoryInv'
<1>1. clock' = clock + 1 /\ UNCHANGED <<segments, lockOwner, rec, recorded, glued, plain>>
  BY DEF History!SnapshotPublished
<1>2. RecordersHold'
  BY <1>1 DEF HistoryInv, RecordersHold
<1>. QED BY <1>1, <1>2, NothingWritten DEF HistoryInv, OneWriter

LEMMA LoadHistorySnapshotKeeps == ASSUME HistoryInv, NEW p \in Recorders, History!LoadSnapshot(p) PROVE HistoryInv'
<1>1. /\ rec' = [rec EXCEPT ![p] = [at |-> "loaded", row |-> clock]]
      /\ UNCHANGED <<clock, segments, lockOwner, recorded, glued, plain>>
  BY DEF History!LoadSnapshot
<1>2. PICK a : a = "loaded"
  OBVIOUS
<1>3. a \in Steps /\ clock \in Nat /\ clock # 0 /\ RecordersHold
  BY <1>2 DEF HistoryInv, RecordersHold, Steps
<1>4. PICK x : x = [at |-> a, row |-> clock]
  OBVIOUS
<1>5. rec' = [rec EXCEPT ![p] = x] /\ x \in [at : Steps, row : Nat] /\ x.at = a /\ x.row = clock
  BY <1>1, <1>2, <1>3, <1>4
<1>6. Becomes(p, a, clock)
  BY <1>3, <1>5, RecorderBegins
<1>7. RecordersHold'
  BY <1>1, <1>3, <1>6 DEF RecordersHold, Becomes
<1>8. \A r \in Recorders : rec'[r].at \in {"checking", "appending"} => r # p /\ rec'[r] = rec[r]
  BY <1>2, <1>6 DEF Becomes
<1>. QED BY <1>1, <1>7, <1>8, NothingWritten DEF HistoryInv, OneWriter

LEMMA EnterKeeps == ASSUME HistoryInv, NEW p \in Recorders, History!Enter(p) PROVE HistoryInv'
<1>1. /\ rec' = [rec EXCEPT ![p].at = "checking"] /\ rec[p].at = "loaded" /\ lockOwner = History!Nobody
      /\ lockOwner' = p /\ UNCHANGED <<clock, segments, recorded, glued, plain>>
  BY DEF History!Enter
<1>2. PICK a, w : a = "checking" /\ w = rec[p].row
  OBVIOUS
<1>3. a \in Steps /\ RecordersHold /\ w \in Nat /\ w # 0
  BY <1>1, <1>2 DEF HistoryInv, RecordersHold, Steps
<1>4. rec' = [rec EXCEPT ![p].at = a]
  BY <1>1, <1>2
<1>5. Becomes(p, a, w)
  BY <1>1, <1>2, <1>3, <1>4, RecorderGoesOn
<1>6. RecordersHold'
  BY <1>1, <1>3, <1>5 DEF RecordersHold, Becomes
<1>7. plain = 0 => \A r \in Recorders : rec[r].at \notin {"checking", "appending"}
  BY <1>1, HistoryAssumption DEF HistoryInv, OneWriter, History!BoundsAssumption
<1>8. plain = 0 => \A r \in Recorders : r # p => rec'[r].at \notin {"checking", "appending"}
  BY <1>5, <1>7 DEF Becomes
<1>. QED BY <1>1, <1>2, <1>5, <1>6, <1>8, NothingWritten DEF Becomes

LEMMA CheckKeeps == ASSUME HistoryInv, NEW p \in Recorders, History!CheckUnique(p) PROVE HistoryInv'
<1>1. rec[p].at = "checking" /\ UNCHANGED <<clock, segments, recorded, glued, plain>>
  BY DEF History!CheckUnique
<1>2. RecordersHold
  BY DEF HistoryInv
<1>3. plain = 0 => \A r \in Recorders : r # p => rec[r].at \notin {"checking", "appending"}
  BY <1>1 DEF HistoryInv, OneWriter
<1>4. CASE \E place \in History!Rows : History!Time(place) >= rec[p].row
  <2>1. PICK a, w : a = "idle" /\ w = 0
    OBVIOUS
  <2>2. PICK x : x = [at |-> a, row |-> w]
    OBVIOUS
  <2>3. rec' = [rec EXCEPT ![p] = x] /\ x \in [at : Steps, row : Nat] /\ x.at = a /\ x.row = w
    BY <1>4, <2>1, <2>2 DEF History!CheckUnique, History!Idle, History!Garbage, Steps
  <2>4. Becomes(p, a, w)
    BY <1>2, <2>1, <2>3, RecorderBegins
  <2>5. RecordersHold'
    BY <1>1, <1>2, <2>4 DEF RecordersHold, Becomes
  <2>6. plain = 0 => \A r \in Recorders : rec'[r].at \notin {"checking", "appending"}
    BY <1>3, <2>1, <2>4 DEF Becomes
  <2>. QED BY <1>1, <2>5, <2>6, NothingWritten
<1>5. CASE ~\E place \in History!Rows : History!Time(place) >= rec[p].row
  <2>1. PICK a, w : a = "appending" /\ w = rec[p].row
    OBVIOUS
  <2>2. rec' = [rec EXCEPT ![p].at = a] /\ lockOwner' = lockOwner
    BY <1>5, <2>1 DEF History!CheckUnique
  <2>3. a \in Steps /\ w \in Nat /\ w # 0
    BY <1>1, <1>2, <2>1 DEF Steps, RecordersHold
  <2>4. Becomes(p, a, w)
    BY <1>1, <1>2, <2>1, <2>2, <2>3, RecorderGoesOn
  <2>5. RecordersHold'
    BY <1>1, <1>2, <2>4 DEF RecordersHold, Becomes
  <2>6. Older(segments, w)
    <3>. SUFFICES ASSUME NEW i, NEW k, Line(segments, i, k), segments[i].lines[k] # 0
                  PROVE  segments[i].lines[k] < w
      BY DEF Older
    <3>1. PICK place : place = <<i, k>>
      OBVIOUS
    <3>2. place[1] = i /\ place[2] = k
      BY <3>1
    <3>3. place \in History!Rows
      <4>1. i \in DOMAIN segments /\ place \in {i} \X DOMAIN segments[i].lines
        BY <3>1 DEF Line
      <4>2. place \in History!Places
        BY <4>1 DEF History!Places
      <4>. QED BY <3>2, <4>2 DEF History!Rows, History!Time, History!Garbage
    <3>4. ~(segments[i].lines[k] >= w)
      BY <1>5, <2>1, <3>2, <3>3 DEF History!Time
    <3>5. segments[i].lines[k] \in Nat
      <4>1. segments[i].lines \in Seq(Nat)
        BY SegmentFields DEF Line, HistoryInv
      <4>. QED BY <4>1 DEF Line
    <3>. QED BY <2>3, <3>4, <3>5
  <2>7. plain = 0 => lockOwner' = p
    BY <1>1, <2>2 DEF HistoryInv, OneWriter
  <2>8. plain = 0 => \A r \in Recorders : r # p => rec'[r].at \notin {"checking", "appending"}
    BY <1>3, <2>4 DEF Becomes
  <2>. QED BY <1>1, <2>4, <2>5, <2>6, <2>7, <2>8, NothingWritten DEF Becomes
<1>. QED BY <1>4, <1>5

LEMMA RecordPlainKeeps == ASSUME HistoryInv, NEW p \in Recorders, History!RecordPlain(p) PROVE HistoryInv'
<1>1. plain' = plain + 1 /\ UNCHANGED <<clock, segments, lockOwner, recorded, glued>>
  BY DEF History!RecordPlain
<1>2. RecordersHold /\ plain \in Nat /\ clock \in Nat
  BY DEF HistoryInv, RecordersHold
<1>3. PICK w \in 1 .. clock : rec' = [rec EXCEPT ![p] = [at |-> "appending", row |-> w]]
  BY DEF History!RecordPlain
<1>4. PICK a : a = "appending"
  OBVIOUS
<1>5. PICK x : x = [at |-> a, row |-> w]
  OBVIOUS
<1>6. /\ rec' = [rec EXCEPT ![p] = x] /\ x \in [at : Steps, row : Nat] /\ x.at = a /\ x.row = w
      /\ w # 0
  BY <1>2, <1>3, <1>4, <1>5 DEF Steps
<1>9. Becomes(p, a, w)
  BY <1>2, <1>6, RecorderBegins
<1>7. plain' \in Nat /\ plain' # 0
  BY <1>1, <1>2
<1>8. RecordersHold'
  BY <1>1, <1>2, <1>7, <1>9 DEF RecordersHold, Becomes
<1>. QED BY <1>1, <1>7, <1>8, NothingWritten

LEMMA CutExtends == ASSUME NEW s, NEW q, NEW line, Extends(q, s, line), Cut(s) PROVE Cut(q)
BY DEF Extends, Cut

LEMMA HasExtends == ASSUME NEW s, NEW q, NEW line, Extends(q, s, line), NEW t, Has(s, t) PROVE Has(q, t)
BY DEF Extends, Has

LEMMA AppendRowKeeps == ASSUME HistoryInv, NEW p \in Recorders, History!AppendRow(p) PROVE HistoryInv'
<1>1. rec[p].at = "appending" /\ UNCHANGED <<clock, plain>> /\ recorded' = recorded \cup {rec[p].row}
  BY DEF History!AppendRow, History!ReportRecorded
<1>2. RecordersHold
  BY DEF HistoryInv
<1>3. PICK line, q, z : line = rec[p].row /\ q = History!Appended(line) /\ z = History!Prune(q)
  OBVIOUS
<1>4. line \in Nat /\ line # 0
  BY <1>1, <1>2, <1>3 DEF RecordersHold
<1>5. segments' = z /\ glued' = IF History!Swallowed THEN glued \cup {line} ELSE glued
  BY <1>3 DEF History!AppendRow
<1>6. Extends(q, segments, line) /\ (History!Swallowed \/ Has(q, line))
  BY <1>3, <1>4, AppendExtends
<1>7. Segmented(q) /\ q # <<>>
  BY <1>6 DEF Extends
<1>8. Segmented(z) /\ (z = q \/ Cut(z)) /\ (Cut(q) => Cut(z)) /\ (Increases(q) => Increases(z))
  BY <1>3, <1>7, PruneKeeps
<1>9. PICK a, w : a = "idle" /\ w = 0
  OBVIOUS
<1>19. PICK x : x = [at |-> a, row |-> w]
  OBVIOUS
<1>10. rec' = [rec EXCEPT ![p] = x] /\ x \in [at : Steps, row : Nat] /\ x.at = a /\ x.row = w
  BY <1>9, <1>19 DEF History!AppendRow, History!Idle, History!Garbage, Steps
<1>11. Becomes(p, a, w)
  BY <1>2, <1>9, <1>10, RecorderBegins
<1>12. RecordersHold'
  BY <1>1, <1>2, <1>3, <1>4, <1>11 DEF RecordersHold, Becomes
<1>13. plain = 0 => \A r \in Recorders : rec'[r].at \notin {"checking", "appending"}
  <2>1. plain = 0 => \A r \in Recorders : r # p => rec[r].at \notin {"checking", "appending"}
    BY <1>1 DEF HistoryInv, OneWriter
  <2>. QED BY <1>9, <1>11, <2>1 DEF Becomes
<1>14. plain = 0 => Increases(z)
  <2>. SUFFICES ASSUME plain = 0 PROVE Increases(z)
    OBVIOUS
  <2>1. Increases(segments) /\ Older(segments, line)
    BY <1>1, <1>3 DEF HistoryInv, OneWriter
  <2>2. Segmented(segments)
    BY DEF HistoryInv
  <2>3. PICK s : s = segments
    OBVIOUS
  <2>. QED BY <1>4, <1>6, <1>8, <2>1, <2>2, <2>3, ExtendsIncreases
<1>15. OneWriter'
  BY <1>1, <1>5, <1>13, <1>14 DEF OneWriter
<1>16. ASSUME NEW t \in recorded' PROVE Has(z, t) \/ t \in glued' \/ Cut(z)
  <2>1. CASE t = line
    BY <1>5, <1>6, <1>8, <2>1
  <2>2. CASE t \in recorded
    <3>1. Has(segments, t) \/ t \in glued \/ Cut(segments)
      BY <2>2 DEF HistoryInv, Kept
    <3>2. Has(q, t) \/ t \in glued \/ Cut(q)
      BY <1>6, <3>1, CutExtends, HasExtends
    <3>. QED BY <1>5, <1>8, <3>2
  <2>. QED BY <1>1, <1>3, <2>1, <2>2
<1>17. Kept(segments)'
  BY <1>5, <1>16 DEF Kept
<1>18. Segmented(segments)'
  BY <1>5, <1>8
<1>. QED BY <1>12, <1>15, <1>17, <1>18 DEF HistoryInv

(* A fragment is the last line of its segment, and no row.                   *)
LEMMA TearKeeps ==
    ASSUME NEW s, NEW q, Extends(q, s, 0), NEW r \in Segment, r.id = q[Len(q)].id, r.lines = q[Len(q)].lines,
           NEW z, z = [q EXCEPT ![Len(q)] = r]
    PROVE  Extends(z, s, 0)
<1>1. Segmented(q) /\ q # <<>> /\ q \in Seq(Segment)
  BY DEF Extends, Segmented
<1>2. PICK n : n = Len(q)
  OBVIOUS
<1>3. n \in DOMAIN q /\ DOMAIN q = 1 .. n /\ 1 \in DOMAIN q
  BY <1>1, <1>2, NewestIs
<1>4. z \in Seq(Segment) /\ DOMAIN z = DOMAIN q /\ z[n] = r /\ \A i \in DOMAIN q : i # n => z[i] = q[i]
  BY <1>1, <1>2, <1>3, ReplacesNewest
<1>5. \A i \in DOMAIN q : z[i].id = q[i].id /\ z[i].lines = q[i].lines
  BY <1>2, <1>4
<1>6. Segmented(z) /\ z # <<>>
  BY <1>1, <1>3, <1>4, <1>5 DEF Segmented
<1>7. ASSUME NEW i, NEW k
      PROVE  Line(z, i, k) = Line(q, i, k) /\ (Line(q, i, k) => z[i].lines[k] = q[i].lines[k])
  BY <1>4, <1>5 DEF Line
<1>8. s # <<>> => z[1].id = s[1].id
  BY <1>3, <1>5 DEF Extends
<1>9. ASSUME NEW i, NEW k, Line(s, i, k)
      PROVE  Line(z, i, k) /\ z[i].lines[k] = s[i].lines[k]
  <2>1. Line(q, i, k) /\ q[i].lines[k] = s[i].lines[k]
    BY <1>9 DEF Extends
  <2>. QED BY <1>7, <2>1
<1>10. ASSUME NEW i, NEW k, Line(z, i, k), ~Line(s, i, k)
       PROVE  /\ z[i].lines[k] = 0
              /\ \A j, l : Line(z, j, l) => j < i \/ (j = i /\ l <= k)
  <2>1. Line(q, i, k) /\ z[i].lines[k] = q[i].lines[k]
    BY <1>7, <1>10
  <2>2. /\ q[i].lines[k] = 0
        /\ \A j, l : Line(q, j, l) => j < i \/ (j = i /\ l <= k)
    BY <1>10, <2>1 DEF Extends
  <2>. QED BY <1>7, <2>1, <2>2
<1>. QED BY <1>6, <1>8, <1>9, <1>10 DEF Extends

LEMMA PowerFailsKeeps == ASSUME HistoryInv, History!PowerFails PROVE HistoryInv'
<1>1. /\ rec' = [p \in Recorders |-> History!Idle] /\ UNCHANGED <<clock, recorded, glued, plain>>
  BY DEF History!PowerFails
<1>2. PICK x : x = History!Idle
  OBVIOUS
<1>3. x \in [at : Steps, row : Nat] /\ x.at = "idle" /\ rec' = [p \in Recorders |-> x]
  BY <1>1, <1>2 DEF History!Idle, History!Garbage, Steps
<1>4. rec' \in [Recorders -> [at : Steps, row : Nat]] /\ \A p \in Recorders : rec'[p].at = "idle"
  BY <1>3
<1>5. RecordersHold'
  BY <1>1, <1>4 DEF HistoryInv, RecordersHold
<1>6. CASE UNCHANGED segments
  BY <1>1, <1>4, <1>5, <1>6, NothingWritten
<1>7. CASE ~UNCHANGED segments
  <2>1. PICK line, q : line = 0 /\ q = History!Appended(line)
    OBVIOUS
  <2>4. Extends(q, segments, line)
    BY <2>1, AppendExtends
  <2>12. PICK b, n, last : b = TRUE /\ n = Len(q) /\ last = q[n]
    OBVIOUS
  <2>13. PICK d, ls, o : d = last.id /\ ls = last.lines /\ o = last.torn
    OBVIOUS
  <2>14. last = [id |-> d, lines |-> ls, torn |-> o] /\ d \in Nat /\ ls \in Seq(Nat) /\ b \in BOOLEAN
    BY <2>4, <2>12, <2>13, NewestIs, SegmentFields DEF Extends
  <2>15. PICK r : r = [id |-> d, lines |-> ls, torn |-> b]
    OBVIOUS
  <2>16. [last EXCEPT !.torn = b] = r /\ r \in Segment /\ r.id = q[n].id /\ r.lines = q[n].lines
    <3>1. [last EXCEPT !.torn = b] = r
      BY <2>14, <2>15
    <3>2. r \in Segment
      BY <2>14, <2>15 DEF Segment
    <3>3. r.id = d /\ r.lines = ls
      BY <2>15
    <3>. QED BY <2>12, <2>13, <3>1, <3>2, <3>3
  <2>2. PICK z : z = [q EXCEPT ![n] = r]
    OBVIOUS
  <2>3. segments' = z
    BY <1>7, <2>1, <2>2, <2>12, <2>16 DEF History!PowerFails, History!Garbage
  <2>5. PICK s : s = segments
    OBVIOUS
  <2>6. Extends(z, s, 0)
    BY <2>1, <2>2, <2>4, <2>5, <2>12, <2>16, TearKeeps
  <2>7. Segmented(z)
    BY <2>6 DEF Extends
  <2>8. plain = 0 => Increases(z)
    BY <2>5, <2>6, ExtendsIncreases DEF HistoryInv, OneWriter
  <2>9. OneWriter'
    BY <1>1, <1>4, <2>3, <2>8 DEF OneWriter
  <2>10. ASSUME NEW t \in recorded PROVE Has(z, t) \/ t \in glued \/ Cut(z)
    <3>1. Has(s, t) \/ t \in glued \/ Cut(s)
      BY <2>5 DEF HistoryInv, Kept
    <3>. QED BY <2>6, <3>1, CutExtends, HasExtends
  <2>11. Kept(segments)'
    BY <1>1, <2>3, <2>10 DEF Kept
  <2>. QED BY <1>5, <2>3, <2>7, <2>9, <2>11 DEF HistoryInv
<1>. QED BY <1>6, <1>7

LEMMA ReaderKeeps ==
    ASSUME HistoryInv, UNCHANGED <<clock, segments, lockOwner, rec, recorded, glued, plain>>
    PROVE  HistoryInv'
BY DEF HistoryInv, RecordersHold, OneWriter, Kept

LEMMA HistoryStep == ASSUME HistoryInv, [History!Next]_(History!historyVars) PROVE HistoryInv'
<1>1. CASE History!SnapshotPublished \/ History!PowerFails
  BY <1>1, HistorySnapshotKeeps, PowerFailsKeeps
<1>2. CASE \E p \in Recorders : \/ History!LoadSnapshot(p) \/ History!Enter(p) \/ History!CheckUnique(p)
                                \/ History!RecordPlain(p) \/ History!AppendRow(p)
  BY <1>2, LoadHistorySnapshotKeeps, EnterKeeps, CheckKeeps, RecordPlainKeeps, AppendRowKeeps
<1>3. CASE \/ \E for \in {"training", "forecast"} : History!ReadBegins(for)
           \/ History!ReadSegment \/ History!Train \/ History!Submit \/ History!RunRefused
           \/ \E reply \in History!Replies : History!Poll(reply)
  <2>1. UNCHANGED <<clock, segments, lockOwner, rec, recorded, glued, plain>>
    BY <1>3 DEF History!ReadBegins, History!ReadSegment, History!Train, History!Submit, History!RunRefused,
                History!Poll, History!GiveUp
  <2>. QED BY <2>1, ReaderKeeps
<1>4. CASE UNCHANGED History!historyVars
  BY <1>4, ReaderKeeps DEF History!historyVars
<1>. QED BY <1>1, <1>2, <1>3, <1>4 DEF History!Next

LEMMA HistoryInvTrue == HistoryInv => HistoryIsTrue
<1>. SUFFICES ASSUME HistoryInv PROVE HistoryIsTrue
  OBVIOUS
<1>1. ASSUME NEW place \in History!Rows
      PROVE  /\ Line(segments, place[1], place[2]) /\ History!Time(place) # 0
             /\ History!Time(place) = segments[place[1]].lines[place[2]]
  <2>1. place \in History!Places /\ History!Time(place) # 0
    BY <1>1 DEF History!Rows, History!Garbage
  <2>2. PICK i \in DOMAIN segments : place \in {i} \X DOMAIN segments[i].lines
    BY <2>1 DEF History!Places
  <2>3. place[1] = i /\ place[2] \in DOMAIN segments[i].lines
    BY <2>2
  <2>. QED BY <2>1, <2>2, <2>3 DEF Line, History!Time
<1>2. ASSUME plain = 0, NEW a \in History!Rows, NEW b \in History!Rows, History!Precedes(a, b)
      PROVE  History!Time(a) < History!Time(b)
  <2>1. Increases(segments)
    BY <1>2 DEF HistoryInv, OneWriter
  <2>2. PICK i, j, k, l : i = a[1] /\ j = b[1] /\ k = a[2] /\ l = b[2]
    OBVIOUS
  <2>3. i < j \/ (i = j /\ k < l)
    BY <1>2, <2>2 DEF History!Precedes
  <2>4. Line(segments, i, k) /\ Line(segments, j, l) /\ segments[i].lines[k] # 0 /\ segments[j].lines[l] # 0
    BY <1>1, <2>2
  <2>5. segments[i].lines[k] < segments[j].lines[l]
    BY <2>1, <2>3, <2>4 DEF Increases
  <2>. QED BY <2>2, <2>5 DEF History!Time
<1>3. ASSUME NEW t \in recorded
      PROVE  \/ \E place \in History!Rows : History!Time(place) = t
             \/ t \in glued \/ segments[1].id > 0
  <2>1. Has(segments, t) \/ t \in glued \/ Cut(segments)
    BY DEF HistoryInv, Kept
  <2>2. ASSUME Has(segments, t) PROVE \E place \in History!Rows : History!Time(place) = t
    <3>1. PICK i, k : Line(segments, i, k) /\ segments[i].lines[k] = t
      BY <2>2 DEF Has
    <3>2. PICK place : place = <<i, k>>
      OBVIOUS
    <3>3. place[1] = i /\ place[2] = k /\ i \in DOMAIN segments /\ place \in {i} \X DOMAIN segments[i].lines
      BY <3>1, <3>2 DEF Line
    <3>4. place \in History!Places
      BY <3>3 DEF History!Places
    <3>5. History!Time(place) = t /\ t # 0
      BY <3>1, <3>3 DEF History!Time, HistoryInv, RecordersHold
    <3>. QED BY <3>4, <3>5 DEF History!Rows, History!Garbage
  <2>. QED BY <2>1, <2>2 DEF Cut
<1>. QED BY <1>2, <1>3 DEF HistoryIsTrue, History!HistoryIsTrue

(* While only record_unique writes, the times of the recorded rows increase, *)
(* however many processes record and wherever the power fails; and a row     *)
(* that a command reported as recorded can be read back, unless it was       *)
(* written onto a fragment or its segment was pruned (telemetry_recorder.py: *)
(* record_unique, _append, _prune).                                          *)
THEOREM HistoryKept == History!Spec => []HistoryIsTrue
<1>1. HistoryInv /\ [History!Next]_(History!historyVars) => HistoryInv'
  BY HistoryStep
<1>. QED BY <1>1, HistoryStart, HistoryInvTrue, PTL DEF History!Spec

==============================================================================
