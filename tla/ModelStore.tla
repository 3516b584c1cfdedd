------------------------------ MODULE ModelStore ------------------------------
(***************************************************************************)
(* executors/base.py: ModelCache and ModelStore, the runtime objects an    *)
(* executor keeps between jobs, with the threads that run jobs and the     *)
(* event loop that closes the executor when discovery replaces it.         *)
(*                                                                         *)
(* The cache is guarded by _cache_lock, held across a whole lookup with    *)
(* its build; the in-flight count and the parked releases by _state_lock,  *)
(* whose critical sections are single steps here.  A release happens       *)
(* outside both: `doomed` holds what an actor has decided to release.      *)
(***************************************************************************)
EXTENDS SequencesExt, Integers

CONSTANTS
    Threads,        \* pool threads, each runs a job at a time
    Loop,           \* the event loop, which calls close()
    Paths,          \* model paths
    MaxEntries,     \* max_entries
    MaxBuilds,      \* bound: objects built in a behaviour
    MaxRevision     \* bound: times a model file is rewritten

ASSUME ThreadsAssumption == IsFiniteSet(Threads)
ASSUME LoopAssumption == Loop \notin Threads /\ "free" \notin Threads \cup {Loop}
ASSUME MaxEntriesAssumption == MaxEntries \in Nat \ {0}
ASSUME BoundsAssumption == MaxBuilds \in Nat /\ MaxRevision \in Nat

VARIABLES
    file,       \* the revision of each model on disk: its files' mtimes and sizes
    readable,   \* whether every file of a model can be stat'd
    cache,      \* _entries, least recently used first
    built,      \* how many runtime objects were built so far
    contents,   \* the revision each object was really built from
    holder,     \* who holds _cache_lock
    outgoing,   \* objects the holder still has to pass to _releasing
    inFlight,   \* _in_flight
    pending,    \* _pending
    doomed,     \* objects each actor is about to hand back to their library
    released,   \* how often each object was handed back
    pc,         \* where each thread, and close(), is
    job         \* what each thread runs: path, the revision it stat'd, its object

disk == <<file, readable>>
store == <<cache, holder, outgoing, inFlight, pending, doomed, released>>
objects == <<built, contents>>
vars == <<disk, store, objects, pc, job>>

Actors == Threads \cup {Loop}
Values == 1 .. MaxBuilds
NoValue == 0
NoRevision == -1    \* _model_revision returned None
Revisions == 0 .. MaxRevision
Entries == [path : Paths, revision : Revisions, value : Values]
NoJob == [path |-> "none", revision |-> NoRevision, value |-> NoValue]

(* The shape of the state; the cache never exceeds its bound once the entry  *)
(* a lookup displaced is out, and holds one entry per path.                  *)
TypeOK ==
    /\ file \in [Paths -> Revisions]
    /\ readable \in [Paths -> BOOLEAN]
    /\ cache \in Seq(Entries) /\ Len(cache) <= MaxEntries
    /\ \A i, k \in DOMAIN cache : cache[i].path = cache[k].path => i = k
    /\ built \in 0 .. MaxBuilds
    /\ contents \in [Values -> Revisions \cup {NoRevision}]
    /\ holder \in Actors \cup {"free"}
    /\ outgoing \in Seq(Values)
    /\ inFlight \in 0 .. Cardinality(Threads)
    /\ pending \in SUBSET Values
    /\ doomed \in [Actors -> SUBSET Values]
    /\ released \in [Values -> Nat]
    /\ pc \in [Actors -> {"out", "handed", "entered", "building", "loaded", "unlocking",
                          "using", "freeing"}]
    /\ \A t \in Threads :
           job[t] = NoJob \/ job[t] \in [path : Paths, revision : Revisions \cup {NoRevision},
                                         value : Values \cup {NoValue}]

Init ==
    /\ file = [p \in Paths |-> 0]
    /\ readable = [p \in Paths |-> TRUE]
    /\ cache = <<>> /\ built = 0
    /\ contents = [v \in Values |-> NoRevision]
    /\ holder = "free" /\ outgoing = <<>>
    /\ inFlight = 0 /\ pending = {}
    /\ doomed = [a \in Actors |-> {}]
    /\ released = [v \in Values |-> 0]
    /\ pc = [a \in Actors |-> "out"]
    /\ job = [t \in Threads |-> NoJob]

-----------------------------------------------------------------------------
\* Another process rewrites a model in place, withdraws it or restores it.
FileRewritten(p) ==
    /\ file[p] < MaxRevision
    /\ file' = [file EXCEPT ![p] = @ + 1]
    /\ UNCHANGED <<readable, store, objects, pc, job>>

FileToggled(p) ==
    /\ readable' = [readable EXCEPT ![p] = ~@]
    /\ UNCHANGED <<file, store, objects, pc, job>>

\* _model_revision
ModelRevision(p) == IF readable[p] THEN file[p] ELSE NoRevision

-----------------------------------------------------------------------------
(* The scheduler hands an executor call to a pool thread.                    *)
Handed(t, p) ==
    /\ pc[t] = "out"
    /\ pc' = [pc EXCEPT ![t] = "handed"]
    /\ job' = [job EXCEPT ![t] = [NoJob EXCEPT !.path = p]]
    /\ UNCHANGED <<disk, store, objects>>

\* running() is entered.
Enter(t) ==
    /\ pc[t] = "handed"
    /\ pc' = [pc EXCEPT ![t] = "entered"]
    /\ inFlight' = inFlight + 1
    /\ UNCHANGED <<disk, cache, holder, outgoing, pending, doomed, released, objects, job>>

\* The entry of a path, if it has one, and the entries without it.
At(p) == {i \in DOMAIN cache : cache[i].path = p}
Position(p) == CHOOSE i \in At(p) : TRUE
Cached(p) == IF At(p) = {} THEN <<>> ELSE <<cache[Position(p)]>>
Uncached(p) == IF At(p) = {} THEN cache ELSE RemoveAt(cache, Position(p))
IsHit(p) == \E e \in Range(cache) : e.path = p /\ e.revision = ModelRevision(p)

\* A hit: the entry was built from the files as they are now.
LookupHits(t) ==
    LET p == job[t].path
    IN  /\ pc[t] = "entered" /\ holder = "free"
        /\ IsHit(p)
        /\ cache' = Uncached(p) \o Cached(p)
        /\ job' = [job EXCEPT ![t] = Cached(p)[1]]
        /\ pc' = [pc EXCEPT ![t] = "using"]
        /\ UNCHANGED <<disk, holder, outgoing, inFlight, pending, doomed, released, objects>>

\* A miss: the revision is taken before the build, and the lock is kept.
LookupMisses(t) ==
    LET p == job[t].path
    IN  /\ pc[t] = "entered" /\ holder = "free"
        /\ ~IsHit(p)
        /\ holder' = t
        /\ job' = [job EXCEPT ![t].revision = ModelRevision(p)]
        /\ pc' = [pc EXCEPT ![t] = "building"]
        /\ UNCHANGED <<disk, cache, outgoing, inFlight, pending, doomed, released, objects>>

\* build() reads the model, whatever revision is there by then.
Build(t) ==
    /\ pc[t] = "building" /\ built < MaxBuilds
    /\ built' = built + 1
    /\ contents' = [contents EXCEPT ![built + 1] = file[job[t].path]]
    /\ job' = [job EXCEPT ![t].value = built + 1]
    /\ pc' = [pc EXCEPT ![t] = "loaded"]
    /\ UNCHANGED <<disk, store>>

\* build() raises: the lock and running() are left with nothing.
BuildFails(t) ==
    /\ pc[t] = "building"
    /\ holder' = "free"
    /\ pc' = [pc EXCEPT ![t] = "using"]
    /\ UNCHANGED <<disk, cache, outgoing, inFlight, pending, doomed, released, objects, job>>

\* Mutant: the entry is tagged with the revision found after the build.
TagAfterBuild(t) == file[job[t].path]

\* The revision an entry is revalidated against.
Tag(t) == job[t].revision

\* Mutant: a cache that already exceeds its bound is left alone.
KeptOneMore(entries) == IF Len(entries) > MaxEntries + 1 THEN Tail(entries) ELSE entries

\* popitem(last=False) until the bound holds: one insertion exceeds it by one.
Kept(entries) == IF Len(entries) > MaxEntries THEN Tail(entries) ELSE entries

Objects(entries) == [i \in DOMAIN entries |-> entries[i].value]

(* The built object becomes the newest entry; what it replaced and what it   *)
(* displaced go out.                                                         *)
Insert(t) ==
    LET p == job[t].path
        grown == Append(Uncached(p), [path |-> p, revision |-> Tag(t), value |-> job[t].value])
        displaced == SubSeq(grown, 1, Len(grown) - Len(Kept(grown)))
    IN  /\ pc[t] = "loaded" /\ job[t].revision # NoRevision
        /\ cache' = Kept(grown)
        /\ outgoing' = Objects(Cached(p)) \o Objects(displaced)
        /\ pc' = [pc EXCEPT ![t] = "unlocking"]
        /\ UNCHANGED <<disk, holder, inFlight, pending, doomed, released, objects, job>>

\* A model that cannot be revalidated is not cached, and its entry is dropped.
InsertNothing(t) ==
    /\ pc[t] = "loaded" /\ job[t].revision = NoRevision
    /\ cache' = Uncached(job[t].path)
    /\ pc' = [pc EXCEPT ![t] = "unlocking"]
    /\ UNCHANGED <<disk, holder, outgoing, inFlight, pending, doomed, released, objects, job>>

\* Mutant: what leaves the cache is released whatever runs.
ReleasingAtOnce(a) ==
    /\ holder = a /\ outgoing # <<>>
    /\ outgoing' = Tail(outgoing)
    /\ doomed' = [doomed EXCEPT ![a] = @ \cup {Head(outgoing)}]
    /\ UNCHANGED <<disk, cache, holder, inFlight, pending, released, objects, pc, job>>

(* _releasing: parked while a job is in flight, released otherwise.          *)
Releasing(a) ==
    /\ holder = a /\ outgoing # <<>>
    /\ outgoing' = Tail(outgoing)
    /\ IF inFlight > 0
       THEN pending' = pending \cup {Head(outgoing)} /\ UNCHANGED doomed
       ELSE doomed' = [doomed EXCEPT ![a] = @ \cup {Head(outgoing)}] /\ UNCHANGED pending
    /\ UNCHANGED <<disk, cache, holder, inFlight, released, objects, pc, job>>

\* _release: the object goes back to its library.
Release(a, v) ==
    /\ v \in doomed[a]
    /\ doomed' = [doomed EXCEPT ![a] = @ \ {v}]
    /\ released' = [released EXCEPT ![v] = @ + 1]
    /\ UNCHANGED <<disk, cache, holder, outgoing, inFlight, pending, objects, pc, job>>

\* The cache lock is left: a thread goes on to its inference, close() returns.
Unlock(a) ==
    /\ pc[a] = "unlocking" /\ outgoing = <<>> /\ doomed[a] = {}
    /\ holder' = "free"
    /\ pc' = [pc EXCEPT ![a] = IF a = Loop THEN "out" ELSE "using"]
    /\ UNCHANGED <<disk, cache, outgoing, inFlight, pending, doomed, released, objects, job>>

\* Mutant: the last job out leaves the parked objects behind.
LeaveParked(t) ==
    /\ pc[t] = "using"
    /\ inFlight' = inFlight - 1
    /\ pc' = [pc EXCEPT ![t] = "freeing"]
    /\ job' = [job EXCEPT ![t] = NoJob]
    /\ UNCHANGED <<disk, cache, holder, outgoing, pending, doomed, released, objects>>

(* The inference is over and running() is left: the last job out takes       *)
(* everything parked with it.                                                *)
Leave(t) ==
    /\ pc[t] = "using"
    /\ inFlight' = inFlight - 1
    /\ IF inFlight = 1
       THEN doomed' = [doomed EXCEPT ![t] = pending] /\ pending' = {}
       ELSE UNCHANGED <<doomed, pending>>
    /\ pc' = [pc EXCEPT ![t] = "freeing"]
    /\ job' = [job EXCEPT ![t] = NoJob]
    /\ UNCHANGED <<disk, cache, holder, outgoing, released, objects>>

\* The thread's call returns once it has released what it took.
Return(t) ==
    /\ pc[t] = "freeing" /\ doomed[t] = {}
    /\ pc' = [pc EXCEPT ![t] = "out"]
    /\ UNCHANGED <<disk, store, objects, job>>

-----------------------------------------------------------------------------
(* close(), on the event loop: wait for the cache lock, then empty the cache *)
(* before anything is released.                                              *)
Close ==
    /\ pc[Loop] = "out"
    /\ pc' = [pc EXCEPT ![Loop] = "entered"]
    /\ UNCHANGED <<disk, store, objects, job>>

\* Mutant: the entries are released but not forgotten.
CloseKeepsEntries ==
    /\ pc[Loop] = "entered" /\ holder = "free"
    /\ holder' = Loop
    /\ outgoing' = Objects(cache)
    /\ pc' = [pc EXCEPT ![Loop] = "unlocking"]
    /\ UNCHANGED <<disk, cache, inFlight, pending, doomed, released, objects, job>>

CloseLocks ==
    /\ pc[Loop] = "entered" /\ holder = "free"
    /\ holder' = Loop
    /\ outgoing' = Objects(cache)
    /\ cache' = <<>>
    /\ pc' = [pc EXCEPT ![Loop] = "unlocking"]
    /\ UNCHANGED <<disk, inFlight, pending, doomed, released, objects, job>>

BuildEnds(t) == Build(t) \/ BuildFails(t)
Inserted(t) == Insert(t) \/ InsertNothing(t)
Looked(t) == LookupHits(t) \/ LookupMisses(t)

ActorStep(a) == Releasing(a) \/ Unlock(a) \/ \E v \in Values : Release(a, v)

ThreadStep(t) ==
    \/ Enter(t) \/ Looked(t) \/ BuildEnds(t) \/ Inserted(t) \/ ActorStep(t)
    \/ Leave(t) \/ Return(t)

Next ==
    \/ \E p \in Paths : FileRewritten(p) \/ FileToggled(p)
    \/ \E t \in Threads : ThreadStep(t) \/ \E p \in Paths : Handed(t, p)
    \/ Close \/ CloseLocks \/ ActorStep(Loop)

Spec == Init /\ [][Next]_vars

-----------------------------------------------------------------------------
(* NeverReleasedInUse: no runtime object is handed back to its library while *)
(* a job may still be running on it: a job that got it before it was evicted,*)
(* replaced or closed finishes first ("tearing an ncnn Net's allocators down *)
(* under a running extractor").                                              *)
NeverReleasedInUse ==
    \A t \in Threads : job[t].value # NoValue => released[job[t].value] = 0

(* ReleasedOnce: no object is handed back twice, and none while it is still  *)
(* served from the cache, whoever evicts, replaces, closes or leaves last.   *)
ReleasedOnce ==
    /\ \A v \in Values : released[v] <= 1
    /\ \A i \in DOMAIN cache : released[cache[i].value] = 0

(* ParkedHasOwner: a parked release always has a job left in flight that     *)
(* will perform it.                                                          *)
ParkedHasOwner == pending # {} => inFlight > 0

(* ServesCurrentModel: an entry whose recorded revision is the file's was    *)
(* built from exactly that revision, although the file can be rewritten      *)
(* while build() reads it: no lookup serves a retired model.                 *)
ServesCurrentModel ==
    \A i \in DOMAIN cache :
        cache[i].revision = file[cache[i].path] => contents[cache[i].value] = file[cache[i].path]

(* ReleaseSound: objects are handed back to their library exactly once, by   *)
(* somebody who will, and never under a job; and what a lookup serves is the *)
(* model that is on disk (ModelStore and ModelCache).                        *)
ReleaseSound ==
    TypeOK /\ NeverReleasedInUse /\ ReleasedOnce /\ ParkedHasOwner /\ ServesCurrentModel

=============================================================================
