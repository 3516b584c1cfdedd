----------------------------- MODULE MCMountParts -----------------------------
(***************************************************************************)
(* The parts that run beside other processes or other owners of their       *)
(* files, each on a small instance: the pool under reloads                  *)
(* (ServiceAdmission), the collectors, the recorded history, the files a    *)
(* job reads and the low-light outputs.  They share nothing but the         *)
(* messages they take as inputs.  A behaviour is one component's from       *)
(* beginning to end, and `part` says whose.                                 *)
(***************************************************************************)
EXTENDS MCServiceAdmission, MountParts, TLC

VARIABLES
    part    \* the component this behaviour is of

collectorVars == <<family, awaiting, keys, period, collecting, previous, granted, told, shown, unsaid, owed,
                   triggers, withdrawals>>
photoVars == <<resolves, settings, files, work, placed, turns>>
inputVars == <<names, disk, job, staging, dir, removal, reading, held, unseen, edits>>
historyVars == <<clock, segments, lockOwner, rec, recorded, glued, plain, outages, reader, trained>>
sumVars == <<part, vars, collectorVars, photoVars, inputVars, historyVars>>

-----------------------------------------------------------------------------
(* The collectors. *)

Sample(present, value, second) ==
    [present |-> present, value |-> value, second |-> second, there |-> TRUE]
MCSamples == {Sample(TRUE, 0, 0), Sample(TRUE, 1, 1), Sample(FALSE, -1, 0)}

(* Files a job reads. *)

TensorRef(path, allowed) == [path |-> path, inRoots |-> allowed, size |-> 2, sha256 |-> <<1, 1>>]
MCLinks == {"p" :> 1 @@ "q" :> 1, "p" :> 1 @@ "q" :> 2}
MCSelections == {<<>>, <<"p", "q">>, <<"p", "p">>}
MCContents == {<<1, 1>>, <<2, 2>>, <<1>>}
MCReferences == {TensorRef("p", TRUE), TensorRef("p", FALSE)}

(* Low-light enhancement. *)

MCBelow ==
    "photos" :> {"photos", "trip"} @@ "trip" :> {"trip"} @@ "enhanced" :> {"enhanced"}
MCPhotographs == {<<"photos", "n1">>, <<"trip", "n1">>}

-----------------------------------------------------------------------------
\* Of the initial states of the pool, the collectors and the files, those in which they are while
\* another acts.
Dormant == permitted = {}
CollectorDormant == family = "storage"
InputsDormant == names["q"] = 1 /\ disk[1].content = <<1>>

\* Each behaviour is one component's.

SumInit ==
    /\ Init /\ Collector!Init /\ Photos!Init /\ Inputs!Init /\ History!Init
    /\ part \in {"mounts", "collection", "lowlight", "inputs", "history"}
    /\ part # "mounts" => Dormant
    /\ part # "collection" => CollectorDormant
    /\ part # "inputs" => InputsDormant

SumNext ==
    \/ /\ part = "mounts"
       /\ UNCHANGED <<part, collectorVars, photoVars, inputVars, historyVars>>
       /\ Next
    \/ /\ part = "collection"
       /\ UNCHANGED <<part, vars, photoVars, inputVars, historyVars>>
       /\ Collector!Next
    \/ /\ part = "history"
       /\ UNCHANGED <<part, vars, collectorVars, photoVars, inputVars>>
       /\ History!Next
    \/ /\ part = "inputs"
       /\ UNCHANGED <<part, vars, collectorVars, photoVars, historyVars>>
       /\ Inputs!Next
    \/ /\ part = "lowlight"
       /\ UNCHANGED <<part, vars, collectorVars, inputVars, historyVars>>
       /\ Photos!Next
    \* only the bounds stop the others: that is no deadlock
    \/ part # "mounts" /\ UNCHANGED sumVars

=============================================================================
