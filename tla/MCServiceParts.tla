----------------------------- MODULE MCServiceParts -----------------------------
(***************************************************************************)
(* The parts that clean up after what fails, is killed or is restarted,     *)
(* each on a small instance: the control plane (PolicyControl), the job     *)
(* pipeline with its journal, the artifact store and grounded document      *)
(* work.  They share nothing but the messages they take as inputs.  A       *)
(* behaviour is one component's from beginning to end: `part` says whose,   *)
(* and the slots x1, x2, ... are that component's variables.                *)
(***************************************************************************)
EXTENDS MCPolicyControl, ServiceParts

VARIABLES
    part,   \* the component this behaviour is of
    x1, x2, x3, x4, x5, x6, x7, x8, x9, x10, x11, x12, x13, x14, x15, x16, x17, x18

slots == <<x1, x2, x3, x4, x5, x6, x7, x8, x9, x10, x11, x12, x13, x14, x15, x16, x17, x18>>
jobVars == <<daemon, stand, at, step, tries, beat, token, leader, future, completed, entries, journal,
             carried, ranOn, answer, admits, present, selected, artifact, reported, excused, events>>
storeVars == <<version, pointer, leftover, binding, flock, errand, issued, known, asking, outputs, mislaid>>
sumVars == <<part, slots, vars, jobVars, storeVars>>

-----------------------------------------------------------------------------
(* The job pipeline. *)

MCPipelineKey == [j1 |-> "k", j2 |-> "k", j3 |-> "m"]

(* The artifact store. *)

ArtifactRef(id, comp) ==
    [id |-> id, v |-> 2, comp |-> comp, declares |-> "none", needs |-> FALSE, sound |-> TRUE, trusted |-> TRUE]
MCVersions == 1 .. 2
MCVariants ==
    <<[id |-> "a", v |-> 1, found |-> "x"], [id |-> "b", v |-> 1, found |-> "none"]>>
MCPinned ==
    {ArtifactRef("a", "y"), [ArtifactRef("b", "none") EXCEPT !.trusted = FALSE],
     [ArtifactRef("b", "none") EXCEPT !.sound = FALSE]}
MCDeclared ==
    [i \in {"a", "b"} |-> [v |-> 1, declares |-> IF i = "a" THEN "x" ELSE "none"]]

(* Grounded document work. *)

Word(size, gap) == [size |-> size, gap |-> gap]
GroundedTasks == {"t1", "t2"}
GroundedKinds == {"ask", "transform", "translate", "organize", "selection", "events"}
GroundedDocuments ==
    <<<<Word(1, "word"), Word(2, "sentence"), Word(2, "word")>>, <<Word(1, "paragraph"), Word(2, "word")>>>>
GroundedPreference == <<"npu", "gpu">>
Grounded == INSTANCE GroundedWork WITH
    Tasks <- GroundedTasks, Kinds <- GroundedKinds, Documents <- GroundedDocuments, MaxSpan <- 2,
    PassBudget <- 4, MaxReferences <- 7, SplitLimit <- 3, Preference <- GroundedPreference,
    MaxMishaps <- 2,
    who <- x1, errand <- x2, kind <- x3, readUpTo <- x4, spans <- x5, passes <- x6, pass <- x7,
    lane <- x8, voice <- x9, cites <- x10, ended <- x11, store <- x12, marks <- x13,
    interrupted <- x14, loaded <- x15, intact <- x16, stopAsked <- x17, mishaps <- x18

-----------------------------------------------------------------------------
\* Each behaviour is one component's; the slots it does not use stay 0.

SumInit ==
    /\ Init /\ Pipeline!Init /\ Artifacts!Init
    /\ part \in {"control", "pipeline", "artifacts", "grounded"}
    /\ \/ /\ part # "grounded"
          /\ x1 = 0 /\ x2 = 0 /\ x3 = 0 /\ x4 = 0 /\ x5 = 0 /\ x6 = 0 /\ x7 = 0 /\ x8 = 0
          /\ x9 = 0 /\ x10 = 0 /\ x11 = 0 /\ x12 = 0 /\ x13 = 0 /\ x14 = 0 /\ x15 = 0 /\ x16 = 0
          /\ x17 = 0 /\ x18 = 0
       \/ part = "grounded" /\ Grounded!Init

SumNext ==
    \/ /\ part = "control"
       /\ UNCHANGED <<part, slots, jobVars, storeVars>>
       /\ Next
    \/ /\ part = "pipeline"
       /\ UNCHANGED <<part, slots, vars, storeVars>>
       /\ Pipeline!Next
    \/ /\ part = "artifacts"
       /\ UNCHANGED <<part, slots, vars, jobVars>>
       /\ Artifacts!Next
    \/ /\ part = "grounded"
       /\ UNCHANGED <<part, vars, jobVars, storeVars>>
       /\ Grounded!Next
    \* only the bounds stop the others: that is no deadlock
    \/ part # "control" /\ UNCHANGED sumVars

-----------------------------------------------------------------------------

\* Every fragment is in a pass, one engine answered, and nothing private remains. (GroundedWork)
GroundingSound == part = "grounded" => Grounded!GroundingSound

=============================================================================
