--------------------------- MODULE ModelStoreProofs ---------------------------
(* ModelStore for every set of threads and of paths, every cache size and    *)
(* any number of builds and rewrites: what is handed back to a library, and  *)
(* when.                                                                     *)
(*                                                                           *)
(* Each object that was ever cached is in one place at a time: an entry of   *)
(* the cache, the objects the lock's holder still has to pass on, the parked *)
(* ones, the ones an actor is about to release, or released.                 *)
(*                                                                           *)
(* Beside the store, as instances over variables of their own: the promotion *)
(* of trained models, the transcription of media, the models produced from   *)
(* pinned sources, and the library index.                                    *)
EXTENDS ModelStore, ModelParts, FiniteSetTheorems, SequenceTheorems, WellFoundedInduction, TLAPS

Served == {cache[i].value : i \in DOMAIN cache}
Going == {outgoing[i] : i \in DOMAIN outgoing}
Dying == UNION {doomed[a] : a \in Actors}
Holding == {"building", "loaded", "unlocking"}
Busy == {"entered", "building", "loaded", "unlocking", "using"}
Running == {t \in Threads : pc[t] \in Busy}
Jobs == [path : Paths \cup {"none"}, revision : Revisions \cup {NoRevision},
         value : Values \cup {NoValue}]

(* _cache_lock is held exactly from a miss, or from close(), until what left *)
(* the cache is passed on.                                                   *)
LockHeld ==
    /\ \A a \in Actors : holder = a <=> pc[a] \in Holding
    /\ outgoing # <<>> => \E a \in Actors : pc[a] = "unlocking"
    /\ pc[Loop] \in {"out", "entered", "unlocking"}

(* _in_flight counts the threads inside running().                           *)
Counted == inFlight = Cardinality(Running)

(* A thread has an object from its build or its hit until it leaves.         *)
JobShape ==
    /\ job \in [Threads -> Jobs]
    /\ \A t \in Threads :
           /\ pc[t] \notin {"out", "freeing"} => job[t].path \in Paths
           /\ pc[t] \notin {"loaded", "unlocking", "using"} => job[t].value = NoValue
           /\ pc[t] = "loaded" => job[t].value # NoValue

(* Every object anywhere was built.                                          *)
OnlyBuilt ==
    /\ \A v \in Served \cup Going \cup pending \cup Dying : v <= built
    /\ \A v \in Values : released[v] # 0 => v <= built
    /\ \A t \in Threads : job[t].value <= built

(* One place at a time.                                                      *)
OnePlace ==
    /\ \A i, k \in DOMAIN cache : cache[i].value = cache[k].value => i = k
    /\ \A i, k \in DOMAIN outgoing : outgoing[i] = outgoing[k] => i = k
    /\ \A v \in Served : v \notin Going /\ v \notin pending /\ v \notin Dying
    /\ \A v \in Going : v \notin pending /\ v \notin Dying
    /\ \A v \in pending : v \notin Dying
    /\ \A a, b \in Actors : a # b => doomed[a] \cap doomed[b] = {}
    /\ \A v \in Values : released[v] # 0 =>
           released[v] = 1 /\ v \notin Served \cup Going \cup pending \cup Dying

(* What a job runs on is not about to be released, and what it has just      *)
(* built is in no place yet.                                                 *)
JobsAlive ==
    \A t \in Threads :
        /\ job[t].value # NoValue => released[job[t].value] = 0 /\ job[t].value \notin Dying
        /\ pc[t] = "loaded" => job[t].value \notin Served \cup Going \cup pending

(* The revision recorded before a build is no later than the one that was    *)
(* read, which is no later than the file's.                                  *)
RevisionBeforeContents ==
    /\ \A i \in DOMAIN cache :
           /\ cache[i].revision <= contents[cache[i].value]
           /\ contents[cache[i].value] <= file[cache[i].path]
    /\ \A t \in Threads :
           /\ pc[t] = "building" /\ job[t].revision # NoRevision =>
                  job[t].revision <= file[job[t].path]
           /\ pc[t] = "loaded" /\ job[t].revision # NoRevision =>
                  /\ job[t].revision <= contents[job[t].value]
                  /\ contents[job[t].value] <= file[job[t].path]

StoreInv ==
    /\ TypeOK
    /\ LockHeld
    /\ Counted
    /\ JobShape
    /\ OnlyBuilt
    /\ OnePlace
    /\ JobsAlive
    /\ ParkedHasOwner
    /\ RevisionBeforeContents

-----------------------------------------------------------------------------
(* Removing one position keeps the others, in order.                         *)
LEMMA RemoveAtElements ==
    ASSUME NEW S, NEW s \in Seq(S), NEW i \in 1..Len(s)
    PROVE  /\ RemoveAt(s, i) \in Seq(S)
           /\ Len(RemoveAt(s, i)) = Len(s) - 1
           /\ \A k \in 1..Len(s) - 1 : RemoveAt(s, i)[k] = s[IF k < i THEN k ELSE k + 1]
<1>. DEFINE a == SubSeq(s, 1, i - 1)
            b == SubSeq(s, i + 1, Len(s))
<1>1. Len(s) \in Nat /\ i \in Nat
  OBVIOUS
<1>2. a \in Seq(S) /\ Len(a) = i - 1 /\ \A k \in 1..i - 1 : a[k] = s[k]
  BY <1>1, SubSeqProperties
<1>3. b \in Seq(S) /\ Len(b) = Len(s) - i /\ \A k \in 1..Len(s) - i : b[k] = s[i + k]
  <2>1. CASE i = Len(s)
    <3>1. b = <<>>
      BY <2>1, <1>1, SubSeqEmpty
    <3>. QED BY <2>1, <3>1, <1>1, EmptySeq
  <2>2. CASE i < Len(s)
    <3>1. b \in Seq(S) /\ Len(b) = Len(s) - (i + 1) + 1
          /\ \A k \in 1..Len(b) : b[k] = s[(i + 1) + k - 1]
      BY <2>2, <1>1, SubSeqProperties
    <3>. QED BY <3>1, <1>1
  <2>. QED BY <2>1, <2>2, <1>1
<1>. HIDE DEF a, b
<1>4. RemoveAt(s, i) = a \o b
  BY DEF RemoveAt, a, b
<1>5. /\ a \o b \in Seq(S)
      /\ Len(a \o b) = Len(a) + Len(b)
      /\ \A k \in 1..Len(a) + Len(b) : (a \o b)[k] = IF k <= Len(a) THEN a[k] ELSE b[k - Len(a)]
  BY <1>2, <1>3, ConcatProperties
<1>. DEFINE c == a \o b
            n == Len(s)
<1>6. /\ c \in Seq(S) /\ Len(c) = (i - 1) + (n - i) /\ n \in Nat /\ i \in 1..n
      /\ \A k \in 1..(i - 1) + (n - i) : c[k] = IF k <= i - 1 THEN a[k] ELSE b[k - (i - 1)]
      /\ \A k \in 1..i - 1 : a[k] = s[k]
      /\ \A k \in 1..n - i : b[k] = s[i + k]
  BY <1>1, <1>2, <1>3, <1>5
<1>7. RemoveAt(s, i) = c
  BY <1>4
<1>. HIDE DEF c, n
<1>8. Len(c) = n - 1
  BY <1>6
<1>9. ASSUME NEW k \in 1..n - 1
      PROVE  c[k] = s[IF k < i THEN k ELSE k + 1]
  <2>1. c[k] = IF k <= i - 1 THEN a[k] ELSE b[k - (i - 1)]
    BY <1>6
  <2>2. CASE k < i
    BY <1>6, <2>1, <2>2
  <2>3. CASE ~(k < i)
    <3>1. k - (i - 1) \in 1..n - i /\ i + (k - (i - 1)) = k + 1 /\ ~(k <= i - 1)
      BY <1>6, <2>3
    <3>. QED BY <1>6, <2>1, <2>3, <3>1
  <2>. QED BY <2>2, <2>3
<1>. QED BY <1>6, <1>7, <1>8, <1>9 DEF n

(* What a path's entry and the rest of the cache are made of.                *)
LEMMA CacheParts ==
    ASSUME TypeOK, NEW p
    PROVE  /\ Uncached(p) \in Seq(Entries)
           /\ Len(Uncached(p)) = IF At(p) = {} THEN Len(cache) ELSE Len(cache) - 1
           /\ \A k \in 1..Len(Uncached(p)) : \E j \in DOMAIN cache :
                  Uncached(p)[k] = cache[j] /\ cache[j].path # p
           /\ \A k, l \in 1..Len(Uncached(p)) :
                  Uncached(p)[k].path = Uncached(p)[l].path => k = l
           /\ At(p) # {} => Position(p) \in DOMAIN cache /\ cache[Position(p)].path = p
           /\ \A j \in DOMAIN cache : cache[j].path = p => At(p) # {} /\ j = Position(p)
<1>1. cache \in Seq(Entries) /\ DOMAIN cache = 1..Len(cache) /\ Len(cache) \in Nat
      /\ \A i, k \in DOMAIN cache : cache[i].path = cache[k].path => i = k
  BY DEF TypeOK
<1>2. At(p) # {} => Position(p) \in DOMAIN cache /\ cache[Position(p)].path = p
  BY DEF At, Position
<1>3. \A j \in DOMAIN cache : cache[j].path = p => At(p) # {} /\ j = Position(p)
  BY <1>1, <1>2 DEF At
<1>4. CASE At(p) = {}
  BY <1>1, <1>2, <1>3, <1>4 DEF Uncached, At
<1>5. CASE At(p) # {}
  <2>. DEFINE i == Position(p)
  <2>1. i \in 1..Len(cache) /\ i \in Nat
    BY <1>1, <1>2, <1>5
  <2>2. Uncached(p) = RemoveAt(cache, i)
    BY <1>5 DEF Uncached
  <2>. HIDE DEF i
  <2>3. /\ RemoveAt(cache, i) \in Seq(Entries)
        /\ Len(RemoveAt(cache, i)) = Len(cache) - 1
        /\ \A k \in 1..Len(cache) - 1 : RemoveAt(cache, i)[k] = cache[IF k < i THEN k ELSE k + 1]
    BY <1>1, <2>1, RemoveAtElements
  <2>4. ASSUME NEW k \in 1..Len(cache) - 1
        PROVE  /\ (IF k < i THEN k ELSE k + 1) \in DOMAIN cache
               /\ (IF k < i THEN k ELSE k + 1) # i
    BY <1>1, <2>1
  <2>5. ASSUME NEW k \in 1..Len(cache) - 1
        PROVE  \E j \in DOMAIN cache : RemoveAt(cache, i)[k] = cache[j] /\ cache[j].path # p
    BY <1>1, <1>3, <2>3, <2>4 DEF i
  <2>6. ASSUME NEW k \in 1..Len(cache) - 1, NEW l \in 1..Len(cache) - 1,
               RemoveAt(cache, i)[k].path = RemoveAt(cache, i)[l].path
        PROVE  k = l
    <3>. DEFINE x == IF k < i THEN k ELSE k + 1
                y == IF l < i THEN l ELSE l + 1
    <3>1. /\ x \in DOMAIN cache /\ y \in DOMAIN cache
          /\ RemoveAt(cache, i)[k] = cache[x] /\ RemoveAt(cache, i)[l] = cache[y]
      BY <2>3, <2>4
    <3>2. x = y => k = l
      BY <2>1, <1>1
    <3>. HIDE DEF x, y
    <3>3. x = y
      BY <1>1, <2>6, <3>1
    <3>. QED BY <3>2, <3>3
  <2>. QED BY <1>2, <1>3, <1>5, <2>2, <2>3, <2>5, <2>6
<1>. QED BY <1>4, <1>5

-----------------------------------------------------------------------------
(* The values the parts of the state range over.                             *)
LEMMA Ranges ==
    ASSUME TypeOK
    PROVE  /\ Revisions \subseteq Nat /\ NoRevision \notin Revisions /\ NoRevision \in Int
           /\ Values \subseteq Nat /\ NoValue \notin Values
           /\ DOMAIN cache = 1..Len(cache) /\ Len(cache) \in Nat
           /\ DOMAIN outgoing = 1..Len(outgoing) /\ Len(outgoing) \in Nat
           /\ \A i \in DOMAIN cache : /\ cache[i] \in Entries
                                      /\ cache[i].path \in Paths
                                      /\ cache[i].revision \in Revisions
                                      /\ cache[i].value \in Values
           /\ \A i \in DOMAIN outgoing : outgoing[i] \in Values
           /\ Served \subseteq Values /\ Going \subseteq Values /\ Dying \subseteq Values
           /\ built \in Nat /\ inFlight \in Nat
           /\ \A v \in Values : contents[v] \in Int /\ released[v] \in Nat
           /\ \A p \in Paths : file[p] \in Nat
<1>1. Revisions \subseteq Nat /\ NoRevision \notin Revisions /\ NoRevision \in Int
      /\ Values \subseteq Nat /\ NoValue \notin Values /\ built \in Nat
  BY BoundsAssumption DEF TypeOK, Revisions, NoRevision, Values, NoValue
<1>2. /\ DOMAIN cache = 1..Len(cache) /\ Len(cache) \in Nat
      /\ \A i \in DOMAIN cache : cache[i] \in Entries
      /\ DOMAIN outgoing = 1..Len(outgoing) /\ Len(outgoing) \in Nat
      /\ \A i \in DOMAIN outgoing : outgoing[i] \in Values
  BY DEF TypeOK
<1>3. \A i \in DOMAIN cache : /\ cache[i].path \in Paths
                              /\ cache[i].revision \in Revisions
                              /\ cache[i].value \in Values
  BY <1>2 DEF Entries
<1>4. Served \subseteq Values /\ Going \subseteq Values
  BY <1>2, <1>3 DEF Served, Going
<1>5. Dying \subseteq Values
  BY DEF Dying, TypeOK
<1>6. inFlight \in Nat
  BY ThreadsAssumption, FS_CardinalityType DEF TypeOK
<1>7. /\ \A v \in Values : contents[v] \in Revisions \cup {NoRevision} /\ released[v] \in Nat
      /\ \A p \in Paths : file[p] \in Revisions
  BY DEF TypeOK
<1>8. \A x \in Revisions \cup {NoRevision} : x \in Int
  BY <1>1
<1>9. /\ \A v \in Values : contents[v] \in Int
      /\ \A p \in Paths : file[p] \in Nat
  BY <1>1, <1>7, <1>8
<1>. QED BY <1>1, <1>2, <1>3, <1>4, <1>5, <1>6, <1>7, <1>9

(* What a job is made of, and where its model is.                            *)
LEMMA JobParts ==
    ASSUME JobShape, NEW t \in Threads
    PROVE  /\ job[t] \in Jobs
           /\ job[t].value \in Values \cup {NoValue}
           /\ job[t].revision \in Revisions \cup {NoRevision}
           /\ job[t].path \in Paths \cup {"none"}
  BY DEF JobShape, Jobs

(* A set of threads is finite and no larger than the pool.                   *)
LEMMA ThreadSets ==
    ASSUME NEW S \in SUBSET Threads
    PROVE  /\ IsFiniteSet(S)
           /\ Cardinality(S) \in 0..Cardinality(Threads)
<1>1. IsFiniteSet(S) /\ Cardinality(S) <= Cardinality(Threads)
  BY ThreadsAssumption, FS_Subset
<1>. QED BY <1>1, ThreadsAssumption, FS_CardinalityType

(* Only a thread inside running() has an object.                             *)
LEMMA OnlyRunningHaveObjects ==
    ASSUME JobShape, NEW t \in Threads, job[t].value # NoValue
    PROVE  t \in Running
  BY DEF JobShape, Running, Busy


(* A rewrite only takes the file's revision further.                         *)
LEMMA FileRewrittenStep ==
    ASSUME StoreInv, NEW p \in Paths, FileRewritten(p)
    PROVE  StoreInv'
<1>. USE DEF StoreInv, store, objects, disk
<1>1. Served' = Served /\ Going' = Going /\ Dying' = Dying /\ Running' = Running
  BY DEF FileRewritten, Served, Going, Dying, Running, Busy, TypeOK, Actors
<1>2. TypeOK'
  <2>1. file' \in [Paths -> Revisions]
    BY BoundsAssumption DEF FileRewritten, TypeOK, Revisions
  <2>. QED BY <2>1 DEF FileRewritten, TypeOK
<1>3. LockHeld'
  BY <1>1, LoopAssumption DEF FileRewritten, LockHeld, TypeOK, Actors, Holding
<1>4. Counted'
  BY <1>1 DEF FileRewritten, Counted, TypeOK
<1>5. JobShape'
  BY <1>1, LoopAssumption DEF FileRewritten, JobShape, TypeOK, Actors, NoJob, NoValue,
       NoRevision, Jobs
<1>6. OnlyBuilt'
  BY <1>1 DEF FileRewritten, OnlyBuilt, TypeOK, JobShape, NoJob, NoValue, NoRevision
<1>7. OnePlace'
  BY <1>1 DEF FileRewritten, OnePlace, TypeOK, JobShape, NoJob, NoValue, NoRevision
<1>8. JobsAlive'
  BY <1>1 DEF FileRewritten, JobsAlive, TypeOK, JobShape, NoJob, NoValue, NoRevision
<1>9. ParkedHasOwner'
  BY <1>1 DEF FileRewritten, ParkedHasOwner, TypeOK
<1>10. RevisionBeforeContents'
  <2>1. \A q \in Paths : file[q] \in Nat /\ file'[q] \in Nat /\ file[q] <= file'[q]
    BY Ranges DEF FileRewritten, TypeOK
  <2>2. ASSUME NEW i \in DOMAIN cache
        PROVE  contents[cache[i].value] <= file'[cache[i].path]
    <3>1. /\ cache[i].path \in Paths /\ contents[cache[i].value] \in Int
          /\ contents[cache[i].value] <= file[cache[i].path]
      BY Ranges DEF RevisionBeforeContents
    <3>. QED BY <2>1, <3>1
  <2>3. ASSUME NEW t \in Threads, pc[t] = "building", job[t].revision # NoRevision
        PROVE  job[t].revision <= file'[job[t].path]
    BY <2>1, <2>3, Ranges, JobParts DEF RevisionBeforeContents, JobShape
  <2>4. ASSUME NEW t \in Threads, pc[t] = "loaded", job[t].revision # NoRevision
        PROVE  contents[job[t].value] <= file'[job[t].path]
    BY <2>1, <2>4, Ranges, JobParts DEF RevisionBeforeContents, JobShape
  <2>. QED BY <2>2, <2>3, <2>4 DEF FileRewritten, RevisionBeforeContents
<1>. QED BY <1>2, <1>3, <1>4, <1>5, <1>6, <1>7, <1>8, <1>9, <1>10

(* Withdrawing a file changes nothing kept.                                  *)
LEMMA FileToggledStep ==
    ASSUME StoreInv, NEW p \in Paths, FileToggled(p)
    PROVE  StoreInv'
<1>. USE DEF StoreInv, store, objects, disk
<1>1. Served' = Served /\ Going' = Going /\ Dying' = Dying /\ Running' = Running
  BY DEF FileToggled, Served, Going, Dying, Running, Busy, TypeOK, Actors
<1>2. TypeOK'
  BY <1>1, LoopAssumption DEF FileToggled, TypeOK, Actors, NoJob, NoValue, NoRevision
<1>3. LockHeld'
  BY <1>1, LoopAssumption DEF FileToggled, LockHeld, TypeOK, Actors, Holding
<1>4. Counted'
  BY <1>1 DEF FileToggled, Counted, TypeOK
<1>5. JobShape'
  BY <1>1, LoopAssumption DEF FileToggled, JobShape, TypeOK, Actors, NoJob, NoValue,
       NoRevision, Jobs
<1>6. OnlyBuilt'
  BY <1>1 DEF FileToggled, OnlyBuilt, TypeOK, JobShape, NoJob, NoValue, NoRevision
<1>7. OnePlace'
  BY <1>1 DEF FileToggled, OnePlace, TypeOK, JobShape, NoJob, NoValue, NoRevision
<1>8. JobsAlive'
  BY <1>1 DEF FileToggled, JobsAlive, TypeOK, JobShape, NoJob, NoValue, NoRevision
<1>9. ParkedHasOwner'
  BY <1>1 DEF FileToggled, ParkedHasOwner, TypeOK
<1>10. RevisionBeforeContents'
  BY <1>1 DEF FileToggled, RevisionBeforeContents, TypeOK, JobShape, NoJob, NoValue,
       NoRevision
<1>. QED BY <1>2, <1>3, <1>4, <1>5, <1>6, <1>7, <1>8, <1>9, <1>10

(* A thread is given a job, without an object.                               *)
LEMMA HandedStep ==
    ASSUME StoreInv, NEW t \in Threads, NEW p \in Paths, Handed(t, p)
    PROVE  StoreInv'
<1>. USE DEF StoreInv, store, objects, disk
<1>1. Served' = Served /\ Going' = Going /\ Dying' = Dying /\ Running' = Running
  BY DEF Handed, Served, Going, Dying, Running, Busy, TypeOK, Actors
<1>2. TypeOK'
  BY <1>1, LoopAssumption DEF Handed, TypeOK, Actors, NoJob, NoValue, NoRevision
<1>3. LockHeld'
  BY <1>1, LoopAssumption DEF Handed, LockHeld, TypeOK, Actors, Holding
<1>4. Counted'
  BY <1>1 DEF Handed, Counted, TypeOK
<1>5. JobShape'
  BY <1>1, LoopAssumption DEF Handed, JobShape, TypeOK, Actors, NoJob, NoValue,
       NoRevision, Jobs
<1>6. OnlyBuilt'
  BY <1>1 DEF Handed, OnlyBuilt, TypeOK, JobShape, NoJob, NoValue, NoRevision
<1>7. OnePlace'
  BY <1>1 DEF Handed, OnePlace, TypeOK, JobShape, NoJob, NoValue, NoRevision
<1>8. JobsAlive'
  BY <1>1 DEF Handed, JobsAlive, TypeOK, JobShape, NoJob, NoValue, NoRevision
<1>9. ParkedHasOwner'
  BY <1>1 DEF Handed, ParkedHasOwner, TypeOK
<1>10. RevisionBeforeContents'
  BY <1>1 DEF Handed, RevisionBeforeContents, TypeOK, JobShape, NoJob, NoValue, NoRevision
<1>. QED BY <1>2, <1>3, <1>4, <1>5, <1>6, <1>7, <1>8, <1>9, <1>10

(* running() counts its thread.                                              *)
LEMMA EnterStep ==
    ASSUME StoreInv, NEW t \in Threads, Enter(t)
    PROVE  StoreInv'
<1>. USE DEF StoreInv, store, objects, disk
<1>1. Served' = Served /\ Going' = Going /\ Dying' = Dying
  BY DEF Enter, Served, Going, Dying
<1>0. Running' = Running \cup {t} /\ t \notin Running
  BY DEF Enter, Running, Busy, TypeOK, Actors
<1>. USE ThreadsAssumption
<1>2. TypeOK'
  <2>1. inFlight' = Cardinality(Running')
    <3>1. IsFiniteSet(Running)
      BY ThreadSets DEF Running
    <3>. QED BY <1>0, <3>1, FS_AddElement DEF Enter, Counted
  <2>2. inFlight' \in 0..Cardinality(Threads)
    BY <2>1, <1>0, ThreadSets DEF Running
  <2>. QED BY <2>2 DEF Enter, TypeOK, Actors
<1>3. LockHeld'
  BY <1>1, LoopAssumption DEF Enter, LockHeld, TypeOK, Actors, Holding
<1>4. Counted'
  <2>1. IsFiniteSet(Running)
    BY ThreadSets DEF Running
  <2>. QED BY <1>0, <2>1, FS_AddElement DEF Enter, Counted
<1>5. JobShape'
  BY <1>1, LoopAssumption DEF Enter, JobShape, TypeOK, Actors, NoJob, NoValue,
       NoRevision, Jobs
<1>6. OnlyBuilt'
  BY <1>1 DEF Enter, OnlyBuilt, TypeOK, JobShape, NoJob, NoValue, NoRevision
<1>7. OnePlace'
  BY <1>1 DEF Enter, OnePlace, TypeOK, JobShape, NoJob, NoValue, NoRevision
<1>8. JobsAlive'
  BY <1>1 DEF Enter, JobsAlive, TypeOK, JobShape, NoJob, NoValue, NoRevision
<1>9. ParkedHasOwner'
  BY <1>1 DEF Enter, ParkedHasOwner, TypeOK
<1>10. RevisionBeforeContents'
  BY <1>1 DEF Enter, RevisionBeforeContents, TypeOK, JobShape, NoJob, NoValue, NoRevision
<1>. QED BY <1>2, <1>3, <1>4, <1>5, <1>6, <1>7, <1>8, <1>9, <1>10

(* A hit moves the entry to the end and shares its object.                   *)
LEMMA LookupHitsStep ==
    ASSUME StoreInv, NEW t \in Threads, LookupHits(t)
    PROVE  StoreInv'
<1>. USE DEF StoreInv, store, objects, disk
<1>. DEFINE p == job[t].path
            n == Len(Uncached(p))
            e == cache[Position(p)]
<1>1. Going' = Going /\ Dying' = Dying /\ Running' = Running
  BY DEF LookupHits, Going, Dying, Running, Busy, TypeOK, Actors
<1>a. /\ Uncached(p) \in Seq(Entries)
      /\ n = IF At(p) = {} THEN Len(cache) ELSE Len(cache) - 1
      /\ \A k \in 1..n : \E j \in DOMAIN cache : Uncached(p)[k] = cache[j] /\ cache[j].path # p
      /\ \A k, l \in 1..n : Uncached(p)[k].path = Uncached(p)[l].path => k = l
      /\ At(p) # {} => Position(p) \in DOMAIN cache /\ e.path = p
      /\ \A j \in DOMAIN cache : cache[j].path = p => At(p) # {}
  BY CacheParts
<1>b. At(p) # {}
  BY <1>a DEF LookupHits, IsHit, Range
<1>c. /\ e \in Entries /\ Position(p) \in DOMAIN cache /\ e.path = p /\ n \in Nat
      /\ n + 1 = Len(cache)
  <2>1. e \in Entries /\ Position(p) \in DOMAIN cache /\ e.path = p
    BY <1>a, <1>b, Ranges
  <2>2. Len(cache) \in Nat /\ Len(cache) >= 1
    BY <2>1, Ranges
  <2>. QED BY <2>1, <2>2, <1>a, <1>b
<1>d. cache' = Append(Uncached(p), e) /\ job' = [job EXCEPT ![t] = e]
  <2>1. Cached(p) = <<e>>
    BY <1>b DEF Cached
  <2>. QED BY <2>1, <1>a, <1>c, AppendIsConcat DEF LookupHits
<1>. HIDE DEF p, n, e
<1>e. /\ cache' \in Seq(Entries) /\ Len(cache') = n + 1 /\ DOMAIN cache' = 1..n + 1
      /\ \A k \in 1..n : cache'[k] = Uncached(p)[k]
      /\ cache'[n + 1] = e
  BY <1>a, <1>c, <1>d, AppendProperties DEF n
<1>f. \A i \in DOMAIN cache' : \E j \in DOMAIN cache : cache'[i] = cache[j]
  <2>1. ASSUME NEW i \in 1..n PROVE \E j \in DOMAIN cache : cache'[i] = cache[j]
    BY <2>1, <1>a, <1>e
  <2>. QED BY <2>1, <1>c, <1>e DEF e
<1>g. \A i, k \in DOMAIN cache' : cache'[i].path = cache'[k].path => i = k
  <2>1. \A i \in 1..n : cache'[i].path # p
    BY <1>a, <1>e
  <2>2. ASSUME NEW i \in 1..n + 1, NEW k \in 1..n + 1, cache'[i].path = cache'[k].path
        PROVE  i = k
    <3>1. i = n + 1 <=> k = n + 1
      BY <2>1, <2>2, <1>c, <1>e
    <3>2. i # n + 1 => i \in 1..n /\ k \in 1..n
      BY <3>1, <1>c
    <3>. QED BY <2>2, <3>1, <3>2, <1>a, <1>e
  <2>. QED BY <2>2, <1>e
<1>h. \A i, k \in DOMAIN cache' : cache'[i].value = cache'[k].value => i = k
  BY <1>f, <1>g DEF OnePlace
<1>i. Served' \subseteq Served
  BY <1>f DEF Served
<1>j. e.value \in Served /\ e.value \in Values
  BY <1>c, Ranges DEF Served, e
<1>k. e \in Jobs /\ e.path \in Paths
  BY <1>c DEF Entries, Jobs
<1>2. TypeOK'
  <2>1. \A s \in Threads : job'[s] = NoJob \/ job'[s] \in [path : Paths,
            revision : Revisions \cup {NoRevision}, value : Values \cup {NoValue}]
    BY <1>c, <1>d DEF TypeOK, Entries, JobShape
  <2>2. Len(cache') <= MaxEntries
    BY <1>c, <1>e DEF TypeOK
  <2>. QED BY <1>e, <1>g, <2>1, <2>2 DEF LookupHits, TypeOK, Actors
<1>3. LockHeld'
  BY <1>1, LoopAssumption DEF LookupHits, LockHeld, TypeOK, Actors, Holding
<1>4. Counted'
  BY <1>1 DEF LookupHits, Counted, TypeOK
<1>5. JobShape'
  BY <1>c, <1>d, <1>j, <1>k, Ranges DEF LookupHits, JobShape, TypeOK, Actors
<1>6. OnlyBuilt'
  BY <1>1, <1>d, <1>i, <1>j DEF LookupHits, OnlyBuilt, JobShape
<1>7. OnePlace'
  BY <1>1, <1>h, <1>i DEF LookupHits, OnePlace
<1>8. JobsAlive'
  <2>1. released[e.value] = 0 /\ e.value \notin Dying
    BY <1>j DEF OnePlace
  <2>. QED BY <2>1, <1>1, <1>d, <1>i DEF LookupHits, JobsAlive, JobShape, TypeOK, Actors
<1>9. ParkedHasOwner'
  BY <1>1 DEF LookupHits, ParkedHasOwner, TypeOK
<1>10. RevisionBeforeContents'
  <2>1. \A i \in DOMAIN cache' :
            /\ cache'[i].revision <= contents[cache'[i].value]
            /\ contents[cache'[i].value] <= file[cache'[i].path]
    BY <1>f DEF RevisionBeforeContents
  <2>. QED BY <2>1, <1>d DEF LookupHits, RevisionBeforeContents, TypeOK, Actors, JobShape
<1>. QED BY <1>2, <1>3, <1>4, <1>5, <1>6, <1>7, <1>8, <1>9, <1>10

(* A miss takes the lock and the revision.                                   *)
LEMMA LookupMissesStep ==
    ASSUME StoreInv, NEW t \in Threads, LookupMisses(t)
    PROVE  StoreInv'
<1>. USE DEF StoreInv, store, objects, disk
<1>1. Served' = Served /\ Going' = Going /\ Dying' = Dying /\ Running' = Running
  BY DEF LookupMisses, Served, Going, Dying, Running, Busy, TypeOK, Actors
<1>2. TypeOK'
  <2>1. ModelRevision(job[t].path) \in Revisions \cup {NoRevision}
    BY JobParts DEF LookupMisses, ModelRevision, JobShape, TypeOK
  <2>2. job[t].path \in Paths
    BY DEF LookupMisses, JobShape
  <2>3. \A s \in Threads : job'[s] = NoJob \/ job'[s] \in [path : Paths,
            revision : Revisions \cup {NoRevision}, value : Values \cup {NoValue}]
    BY <2>1, <2>2 DEF LookupMisses, TypeOK, JobShape, Jobs
  <2>. QED BY <2>3 DEF LookupMisses, TypeOK, Actors
<1>3. LockHeld'
  <2>1. \A a \in Actors : pc[a] \notin Holding
    BY LoopAssumption DEF LookupMisses, LockHeld, Actors
  <2>. QED BY <2>1, LoopAssumption DEF LookupMisses, LockHeld, TypeOK, Actors, Holding
<1>4. Counted'
  BY <1>1 DEF LookupMisses, Counted, TypeOK
<1>5. JobShape'
  <2>1. ModelRevision(job[t].path) \in Revisions \cup {NoRevision}
    BY DEF LookupMisses, ModelRevision, JobShape, TypeOK
  <2>. QED BY <2>1 DEF LookupMisses, JobShape, Jobs, TypeOK, Actors
<1>6. OnlyBuilt'
  BY <1>1 DEF LookupMisses, OnlyBuilt, TypeOK, JobShape, NoJob, NoValue, NoRevision
<1>7. OnePlace'
  BY <1>1 DEF LookupMisses, OnePlace, TypeOK, JobShape, NoJob, NoValue, NoRevision
<1>8. JobsAlive'
  BY <1>1 DEF LookupMisses, JobsAlive, TypeOK, JobShape, NoJob, NoValue, NoRevision
<1>9. ParkedHasOwner'
  BY DEF LookupMisses, ParkedHasOwner
<1>10. RevisionBeforeContents'
  <2>1. job[t].path \in Paths /\ job'[t].path = job[t].path
        /\ job'[t].revision = ModelRevision(job[t].path)
    BY DEF LookupMisses, JobShape, Jobs
  <2>2. job'[t].revision # NoRevision => job'[t].revision <= file[job[t].path]
    BY <2>1, Ranges DEF ModelRevision
  <2>. QED BY <2>1, <2>2 DEF LookupMisses, RevisionBeforeContents, TypeOK, Actors, JobShape
<1>. QED BY <1>2, <1>3, <1>4, <1>5, <1>6, <1>7, <1>8, <1>9, <1>10

(* A build makes an object nobody has.                                       *)
LEMMA BuildStep ==
    ASSUME StoreInv, NEW t \in Threads, Build(t)
    PROVE  StoreInv'
<1>. USE DEF StoreInv, store, objects, disk
<1>1. Served' = Served /\ Going' = Going /\ Dying' = Dying /\ Running' = Running
  BY DEF Build, Served, Going, Dying, Running, Busy, TypeOK, Actors
<1>a. built + 1 \in Values /\ built + 1 # NoValue /\ built' = built + 1 /\ built \in Nat
      /\ built' \in 0..MaxBuilds
  BY BoundsAssumption DEF Build, TypeOK, Values, NoValue
<1>b. /\ job[t].path \in Paths /\ file[job[t].path] \in Revisions
      /\ job[t].revision \in Revisions \cup {NoRevision}
  BY JobParts DEF Build, JobShape, TypeOK
<1>c. /\ job' \in [Threads -> Jobs]
      /\ job'[t].path = job[t].path /\ job'[t].revision = job[t].revision
      /\ job'[t].value = built + 1
      /\ \A s \in Threads \ {t} : job'[s] = job[s]
  BY <1>a DEF Build, JobShape, Jobs
<1>d. /\ \A v \in Served \cup Going \cup pending \cup Dying : v # built + 1
      /\ released[built + 1] = 0
  BY <1>a, Ranges DEF OnlyBuilt, TypeOK
<1>2. TypeOK'
  <2>1. job'[t] \in [path : Paths, revision : Revisions \cup {NoRevision},
                     value : Values \cup {NoValue}]
    BY <1>a, <1>b, <1>c DEF Jobs
  <2>2. contents' \in [Values -> Revisions \cup {NoRevision}]
    BY <1>a, <1>b DEF Build, TypeOK
  <2>. QED BY <1>a, <1>c, <2>1, <2>2 DEF Build, TypeOK, Actors
<1>3. LockHeld'
  BY <1>1, LoopAssumption DEF Build, LockHeld, TypeOK, Actors, Holding
<1>4. Counted'
  BY <1>1 DEF Build, Counted, TypeOK
<1>5. JobShape'
  BY <1>a, <1>b, <1>c DEF Build, JobShape, TypeOK, Actors
<1>6. OnlyBuilt'
  <2>1. \A v \in Served \cup Going \cup pending \cup Dying : v <= built + 1
    BY <1>a, Ranges DEF OnlyBuilt, TypeOK
  <2>2. \A v \in Values : released[v] # 0 => v <= built + 1
    BY <1>a, Ranges DEF OnlyBuilt
  <2>3. \A s \in Threads : job'[s].value <= built + 1
    <3>1. ASSUME NEW s \in Threads PROVE job[s].value <= built + 1
      BY <1>a, JobParts, Ranges DEF OnlyBuilt, NoValue
    <3>. QED BY <1>a, <1>c, <3>1
  <2>. QED BY <1>1, <1>a, <2>1, <2>2, <2>3 DEF Build, OnlyBuilt
<1>7. OnePlace'
  BY <1>1 DEF Build, OnePlace, TypeOK, JobShape, NoJob, NoValue, NoRevision
<1>8. JobsAlive'
  <2>1. \A s \in Threads \ {t} : pc'[s] = pc[s] /\ job'[s] = job[s]
    BY <1>c DEF Build, TypeOK, Actors
  <2>2. released' = released /\ pending' = pending
    BY DEF Build
  <2>. QED BY <1>1, <1>c, <1>d, <2>1, <2>2 DEF JobsAlive
<1>9. ParkedHasOwner'
  BY <1>1 DEF Build, ParkedHasOwner, TypeOK
<1>10. RevisionBeforeContents'
  <2>1. \A v \in Values \ {built + 1} : contents'[v] = contents[v]
    BY DEF Build, TypeOK
  <2>2. contents'[built + 1] = file[job[t].path]
    BY <1>a DEF Build, TypeOK
  <2>3. \A i \in DOMAIN cache : contents'[cache[i].value] = contents[cache[i].value]
    BY <1>d, <2>1, Ranges DEF Served
  <2>4. ASSUME NEW s \in Threads \ {t}, pc[s] = "loaded"
        PROVE  contents'[job[s].value] = contents[job[s].value]
    <3>1. job[s].value \in Values /\ job[s].value <= built
      BY <2>4, JobParts DEF JobShape, OnlyBuilt
    <3>. QED BY <1>a, <2>1, <3>1
  <2>5. job[t].revision # NoRevision => job[t].revision <= file[job[t].path]
    BY DEF Build, RevisionBeforeContents
  <2>6. file[job[t].path] <= file[job[t].path]
    BY <1>b, Ranges
  <2>7. /\ \A s \in Threads \ {t} : pc'[s] = pc[s] /\ job'[s] = job[s]
        /\ pc'[t] = "loaded" /\ cache' = cache /\ file' = file
    BY <1>c DEF Build, TypeOK, Actors
  <2>. QED BY <1>c, <2>2, <2>3, <2>4, <2>5, <2>6, <2>7 DEF RevisionBeforeContents
<1>. QED BY <1>2, <1>3, <1>4, <1>5, <1>6, <1>7, <1>8, <1>9, <1>10

(* A failed build leaves the lock.                                           *)
LEMMA BuildFailsStep ==
    ASSUME StoreInv, NEW t \in Threads, BuildFails(t)
    PROVE  StoreInv'
<1>. USE DEF StoreInv, store, objects, disk
<1>1. Served' = Served /\ Going' = Going /\ Dying' = Dying /\ Running' = Running
  BY DEF BuildFails, Served, Going, Dying, Running, Busy, TypeOK, Actors
<1>2. TypeOK'
  BY <1>1, LoopAssumption DEF BuildFails, TypeOK, Actors, NoJob, NoValue, NoRevision
<1>3. LockHeld'
  BY <1>1, LoopAssumption DEF BuildFails, LockHeld, TypeOK, Actors, Holding
<1>4. Counted'
  BY <1>1 DEF BuildFails, Counted, TypeOK
<1>5. JobShape'
  BY <1>1, LoopAssumption DEF BuildFails, JobShape, TypeOK, Actors, NoJob, NoValue,
       NoRevision, Jobs
<1>6. OnlyBuilt'
  BY <1>1 DEF BuildFails, OnlyBuilt, TypeOK, JobShape, NoJob, NoValue, NoRevision
<1>7. OnePlace'
  BY <1>1 DEF BuildFails, OnePlace, TypeOK, JobShape, NoJob, NoValue, NoRevision
<1>8. JobsAlive'
  BY <1>1 DEF BuildFails, JobsAlive, TypeOK, JobShape, NoJob, NoValue, NoRevision
<1>9. ParkedHasOwner'
  BY <1>1 DEF BuildFails, ParkedHasOwner, TypeOK
<1>10. RevisionBeforeContents'
  BY <1>1 DEF BuildFails, RevisionBeforeContents, TypeOK, JobShape, NoJob, NoValue,
       NoRevision
<1>. QED BY <1>2, <1>3, <1>4, <1>5, <1>6, <1>7, <1>8, <1>9, <1>10

(* The new entry takes a place; what it replaces or displaces leaves.        *)
LEMMA InsertStep ==
    ASSUME StoreInv, NEW t \in Threads, Insert(t)
    PROVE  StoreInv'
<1>. USE DEF StoreInv, store, objects, disk
<1>. DEFINE p == job[t].path
            u == Uncached(p)
            n == Len(u)
            new == [path |-> p, revision |-> job[t].revision, value |-> job[t].value]
            grown == Append(u, new)
<1>1. Dying' = Dying /\ Running' = Running
  BY DEF Insert, Dying, Running, Busy, TypeOK, Actors
<1>a. /\ u \in Seq(Entries) /\ n \in Nat /\ Len(cache) \in Nat
      /\ n = IF At(p) = {} THEN Len(cache) ELSE Len(cache) - 1
      /\ \A k \in 1..n : \E j \in DOMAIN cache : u[k] = cache[j] /\ cache[j].path # p
      /\ \A k, l \in 1..n : u[k].path = u[l].path => k = l
      /\ At(p) # {} => Position(p) \in DOMAIN cache /\ cache[Position(p)].path = p
  <2>1. u \in Seq(Entries) /\ Len(cache) \in Nat
    BY CacheParts, Ranges
  <2>2. n \in Nat
    BY <2>1, LenProperties
  <2>. QED BY <2>1, <2>2, CacheParts
<1>n. n \in Nat /\ n + 1 \in 1..n + 1 /\ \A i \in 1..n + 1 : i = n + 1 \/ i \in 1..n
  BY <1>a
<1>b. /\ new \in Entries /\ new.value \notin Served /\ new.path = p
      /\ new.value = job[t].value /\ new.revision = job[t].revision /\ p \in Paths
      /\ \A s \in Threads : pc[s] = "loaded" => s = t
  BY JobParts DEF Insert, JobShape, JobsAlive, Entries, LockHeld, Holding, Actors
<1>c. cache' = Kept(grown)
      /\ outgoing' = Objects(Cached(p)) \o Objects(SubSeq(grown, 1, Len(grown) - Len(Kept(grown))))
  BY DEF Insert, Tag
<1>. HIDE DEF p, u, n, new, grown
<1>d. /\ grown \in Seq(Entries) /\ Len(grown) = n + 1 /\ DOMAIN grown = 1..n + 1
      /\ \A k \in 1..n : grown[k] = u[k]
      /\ grown[n + 1] = new
  BY <1>a, <1>b, AppendProperties DEF grown, n
<1>e. \A i \in 1..n + 1 : \/ i = n + 1 /\ grown[i] = new
                          \/ i \in 1..n /\ \E j \in DOMAIN cache : grown[i] = cache[j] /\ cache[j].path # p
  <2>1. \A i \in 1..n : \E j \in DOMAIN cache : u[i] = cache[j] /\ cache[j].path # p
    BY <1>a
  <2>2. \A i \in 1..n : \E j \in DOMAIN cache : grown[i] = cache[j] /\ cache[j].path # p
    BY <2>1, <1>d
  <2>. QED BY <2>2, <1>d, <1>n
<1>f. \A i, k \in 1..n + 1 : grown[i].path = grown[k].path => i = k
  <2>1. ASSUME NEW i \in 1..n + 1, NEW k \in 1..n + 1, grown[i].path = grown[k].path
        PROVE  i = k
    <3>1. i = n + 1 <=> k = n + 1
      BY <2>1, <1>a, <1>b, <1>e
    <3>2. i # n + 1 => i \in 1..n /\ k \in 1..n
      BY <3>1, <1>n
    <3>. QED BY <2>1, <3>1, <3>2, <1>a, <1>d
  <2>. QED BY <2>1
<1>g. \A i, k \in 1..n + 1 : grown[i].value = grown[k].value => i = k
  <2>1. ASSUME NEW i \in 1..n + 1, NEW k \in 1..n + 1, grown[i].value = grown[k].value
        PROVE  i = k
    <3>1. ASSUME NEW l \in 1..n PROVE grown[l].value \in Served
      <4>1. PICK j \in DOMAIN cache : grown[l] = cache[j]
        <5>1. l # n + 1 /\ l \in 1..n + 1
          BY <1>n
        <5>. QED BY <5>1, <1>e
      <4>. QED BY <4>1 DEF Served
    <3>2. i = n + 1 <=> k = n + 1
      BY <2>1, <3>1, <1>b, <1>d, <1>n
    <3>3. CASE i \in 1..n /\ k \in 1..n
      <4>1. PICK x \in DOMAIN cache : grown[i] = cache[x]
        BY <3>3, <1>a, <1>d
      <4>2. PICK y \in DOMAIN cache : grown[k] = cache[y]
        BY <3>3, <1>a, <1>d
      <4>3. x = y
        BY <2>1, <4>1, <4>2 DEF OnePlace
      <4>. QED BY <4>1, <4>2, <4>3, <1>f
    <3>. QED BY <3>2, <3>3, <1>n
  <2>. QED BY <2>1
<1>h. MaxEntries \in Nat /\ MaxEntries >= 1 /\ Len(cache) <= MaxEntries
  BY MaxEntriesAssumption DEF TypeOK
\* What the cache is afterwards, and the at most one object that leaves it.
<1>i. /\ cache' \in Seq(Entries) /\ Len(cache') <= MaxEntries
      /\ \A i \in DOMAIN cache' : \E j \in 1..n + 1 : cache'[i] = grown[j]
      /\ \A i, k \in DOMAIN cache' : cache'[i].path = cache'[k].path => i = k
      /\ \A i, k \in DOMAIN cache' : cache'[i].value = cache'[k].value => i = k
      /\ outgoing' = <<>> \/ \E v \in Served : v \notin Served' /\ outgoing' = <<v>>
  <2>1. CASE n + 1 <= MaxEntries
    <3>1. Kept(grown) = grown /\ cache' = grown
      BY <2>1, <1>c, <1>d, <1>h, <1>a DEF Kept
    <3>2. outgoing' = Objects(Cached(p)) \o Objects(<<>>)
      <4>1. Len(grown) - Len(Kept(grown)) = 0
        BY <3>1, <1>d, <1>n
      <4>2. SubSeq(grown, 1, 0) = <<>>
        BY SubSeqEmpty
      <4>. QED BY <4>1, <4>2, <1>c
    <3>3. Objects(<<>>) = <<>>
      BY DEF Objects
    <3>4. CASE At(p) = {}
      <4>1. outgoing' = <<>>
        BY <3>2, <3>3, <3>4 DEF Cached
      <4>. QED BY <3>1, <4>1, <2>1, <1>d, <1>f, <1>g
    <3>5. CASE At(p) # {}
      <4>. DEFINE e == cache[Position(p)]
      <4>1. Cached(p) = <<e>>
        BY <3>5 DEF Cached
      <4>2. Objects(<<e>>) = <<e.value>>
        BY DEF Objects
      <4>3. e.value \in Served /\ e.path = p /\ e.value \in Values
        BY <3>5, <1>a, Ranges DEF Served
      <4>4. outgoing' = <<e.value>>
        <5>1. <<e.value>> \in Seq(Values)
          BY <4>3
        <5>2. <<e.value>> \o <<>> = <<e.value>>
          BY <5>1, ConcatEmptySeq
        <5>. QED BY <3>2, <3>3, <4>1, <4>2, <5>2
      <4>5. ASSUME NEW i \in DOMAIN cache', cache'[i].value = e.value PROVE FALSE
        <5>1. i \in 1..n + 1 /\ cache'[i] = grown[i]
          BY <3>1, <1>d
        <5>2. grown[i] # new
          BY <4>3, <4>5, <5>1, <1>b
        <5>3. PICK j \in DOMAIN cache : grown[i] = cache[j] /\ cache[j].path # p
          BY <5>1, <5>2, <1>e
        <5>4. j = Position(p)
          BY <4>5, <5>1, <5>3, <3>5, <1>a DEF OnePlace
        <5>. QED BY <4>3, <5>3, <5>4
      <4>6. e.value \notin Served'
        BY <4>5 DEF Served
      <4>. QED BY <3>1, <4>3, <4>4, <4>6, <2>1, <1>d, <1>f, <1>g
    <3>. QED BY <3>4, <3>5
  <2>2. CASE n + 1 > MaxEntries
    <3>1. At(p) = {} /\ n = MaxEntries /\ n >= 1
      BY <2>2, <1>a, <1>h
    <3>2. cache' = Tail(grown) /\ Kept(grown) = Tail(grown)
      BY <2>2, <1>c, <1>d DEF Kept
    <3>3. /\ cache' \in Seq(Entries) /\ Len(cache') = n /\ DOMAIN cache' = 1..n
          /\ \A i \in 1..n : cache'[i] = grown[i + 1]
      BY <3>1, <3>2, <1>a, <1>d, HeadTailProperties
    <3>4. \A i \in 1..n : i + 1 \in 1..n + 1
      BY <1>a
    <3>5. SubSeq(grown, 1, 1) = <<grown[1]>> /\ 1 \in 1..n /\ 1 \in 1..n + 1
      <4>1. 1 \in 1..n /\ 1 \in 1..n + 1
        BY <3>1, <1>n
      <4>2. \A i \in 1..1 : grown[i] \in Entries
        BY <4>1, <1>d
      <4>3. /\ SubSeq(grown, 1, 1) \in Seq(Entries)
            /\ Len(SubSeq(grown, 1, 1)) = 1 /\ SubSeq(grown, 1, 1)[1] = grown[1]
        BY <4>2, SubSeqProperties
      <4>4. <<grown[1]>> \in Seq(Entries) /\ Len(<<grown[1]>>) = 1 /\ <<grown[1]>>[1] = grown[1]
        BY <4>2
      <4>5. \A i \in 1..1 : SubSeq(grown, 1, 1)[i] = <<grown[1]>>[i]
        BY <4>3, <4>4
      <4>6. SubSeq(grown, 1, 1) = <<grown[1]>>
        BY <4>3, <4>4, <4>5, SeqEqual
      <4>. QED BY <4>1, <4>6
    <3>6. Len(grown) - Len(Kept(grown)) = 1
      BY <3>2, <3>3, <1>a, <1>d
    <3>7. Objects(<<grown[1]>>) = <<grown[1].value>> /\ Objects(<<>>) = <<>>
      BY DEF Objects
    <3>8. grown[1].value \in Served
      <4>1. \E i \in DOMAIN cache : grown[1] = cache[i]
        BY <3>1, <3>5, <1>a, <1>d
      <4>. QED BY <4>1 DEF Served
    <3>9. Cached(p) = <<>>
      BY <3>1 DEF Cached
    <3>10. outgoing' = <<grown[1].value>>
      <4>1. <<grown[1].value>> \in Seq(Values)
        BY <3>8, Ranges
      <4>2. <<>> \o <<grown[1].value>> = <<grown[1].value>>
        BY <4>1, ConcatEmptySeq
      <4>. QED BY <3>5, <3>6, <3>7, <3>9, <4>2, <1>c
    <3>11. ASSUME NEW i \in 1..n, cache'[i].value = grown[1].value PROVE FALSE
      <4>1. i + 1 = 1
        BY <3>3, <3>4, <3>5, <3>11, <1>g
      <4>. QED BY <4>1
    <3>12. grown[1].value \notin Served'
      BY <3>3, <3>11 DEF Served
    <3>13. \A i, k \in 1..n : /\ cache'[i].path = cache'[k].path => i = k
                              /\ cache'[i].value = cache'[k].value => i = k
      <4>1. ASSUME NEW i \in 1..n, NEW k \in 1..n, i + 1 = k + 1 PROVE i = k
        BY <4>1
      <4>. QED BY <4>1, <3>3, <3>4, <1>f, <1>g
    <3>14. cache' \in Seq(Entries) /\ Len(cache') <= MaxEntries
      BY <3>1, <3>3, <1>h
    <3>15. \A i \in DOMAIN cache' : \E j \in 1..n + 1 : cache'[i] = grown[j]
      BY <3>3, <3>4
    <3>16. \E v \in Served : v \notin Served' /\ outgoing' = <<v>>
      BY <3>8, <3>10, <3>12
    <3>17. /\ \A i, k \in DOMAIN cache' : cache'[i].path = cache'[k].path => i = k
           /\ \A i, k \in DOMAIN cache' : cache'[i].value = cache'[k].value => i = k
      BY <3>3, <3>13
    <3>. QED BY <3>14, <3>15, <3>16, <3>17
  <2>3. n + 1 <= MaxEntries \/ n + 1 > MaxEntries
    BY <1>n, <1>h
  <2>. QED BY <2>1, <2>2, <2>3
<1>j. \A i \in DOMAIN cache' : cache'[i] = new \/ \E j \in DOMAIN cache : cache'[i] = cache[j]
  BY <1>e, <1>i
<1>k. /\ Served' \subseteq Served \cup {job[t].value}
      /\ Going' \subseteq Served /\ Going' \cap Served' = {}
      /\ \A i, k \in DOMAIN outgoing' : i = k
  <2>1. Served' \subseteq Served \cup {job[t].value}
    BY <1>b, <1>j DEF Served
  <2>2. CASE outgoing' = <<>>
    BY <2>1, <2>2 DEF Going
  <2>3. CASE outgoing' # <<>>
    BY <2>1, <2>3, <1>i DEF Going
  <2>. QED BY <2>2, <2>3
<1>l. job' = job /\ released' = released /\ pending' = pending /\ contents' = contents
      /\ file' = file /\ doomed' = doomed /\ built' = built
      /\ pc' = [pc EXCEPT ![t] = "unlocking"]
  BY DEF Insert
<1>m. job[t].value \in Values /\ released[job[t].value] = 0 /\ job[t].value \notin Dying
      /\ job[t].value \notin pending /\ job[t].value <= built
  BY JobParts DEF Insert, JobShape, JobsAlive, OnlyBuilt
<1>2. TypeOK'
  <2>1. outgoing' \in Seq(Values)
    <3>1. \A v \in Served : <<v>> \in Seq(Values)
      BY Ranges
    <3>2. <<>> \in Seq(Values)
      OBVIOUS
    <3>. QED BY <1>i, <3>1, <3>2
  <2>. QED BY <1>i, <2>1 DEF Insert, TypeOK, Actors
<1>3. LockHeld'
  BY <1>1, LoopAssumption DEF Insert, LockHeld, TypeOK, Actors, Holding
<1>4. Counted'
  BY <1>1 DEF Insert, Counted, TypeOK
<1>5. JobShape'
  BY <1>1, LoopAssumption DEF Insert, JobShape, TypeOK, Actors, NoJob, NoValue,
       NoRevision, Jobs
<1>6. OnlyBuilt'
  BY <1>1, <1>k, <1>l, <1>m DEF OnlyBuilt
<1>7. OnePlace'
  <2>1. \A v \in Served' : v \notin Going' /\ v \notin pending /\ v \notin Dying
    BY <1>k, <1>m DEF OnePlace
  <2>2. \A v \in Going' : v \notin pending /\ v \notin Dying
    BY <1>k DEF OnePlace
  <2>3. \A v \in Values : released[v] # 0 =>
            released[v] = 1 /\ v \notin Served' \cup Going' \cup pending \cup Dying
    BY <1>k, <1>m DEF OnePlace
  <2>4. \A i, k \in DOMAIN outgoing' : outgoing'[i] = outgoing'[k] => i = k
    BY <1>k
  <2>. QED BY <1>1, <1>i, <1>l, <2>1, <2>2, <2>3, <2>4 DEF OnePlace
<1>8. JobsAlive'
  <2>1. \A s \in Threads : pc'[s] # "loaded"
    BY <1>b, <1>l DEF TypeOK, Actors
  <2>. QED BY <1>1, <1>l, <2>1 DEF JobsAlive
<1>9. ParkedHasOwner'
  BY <1>1 DEF Insert, ParkedHasOwner, TypeOK
<1>10. RevisionBeforeContents'
  <2>1. new.revision <= contents[new.value] /\ contents[new.value] <= file[new.path]
    BY <1>b DEF Insert, RevisionBeforeContents, p
  <2>2. \A i \in DOMAIN cache' :
            /\ cache'[i].revision <= contents[cache'[i].value]
            /\ contents[cache'[i].value] <= file[cache'[i].path]
    BY <2>1, <1>j DEF RevisionBeforeContents
  <2>. QED BY <2>2, <1>l DEF RevisionBeforeContents, TypeOK, Actors
<1>. QED BY <1>2, <1>3, <1>4, <1>5, <1>6, <1>7, <1>8, <1>9, <1>10

(* An entry that cannot be revalidated is forgotten.                         *)
LEMMA InsertNothingStep ==
    ASSUME StoreInv, NEW t \in Threads, InsertNothing(t)
    PROVE  StoreInv'
<1>. USE DEF StoreInv, store, objects, disk
<1>. DEFINE u == Uncached(job[t].path)
<1>1. Going' = Going /\ Dying' = Dying /\ Running' = Running
  BY DEF InsertNothing, Going, Dying, Running, Busy, TypeOK, Actors
<1>a. /\ u \in Seq(Entries) /\ Len(u) <= MaxEntries /\ DOMAIN u = 1..Len(u)
      /\ \A k \in DOMAIN u : \E j \in DOMAIN cache : u[k] = cache[j]
      /\ \A k, l \in DOMAIN u : u[k].path = u[l].path => k = l
  <2>1. /\ u \in Seq(Entries)
        /\ Len(u) = IF At(job[t].path) = {} THEN Len(cache) ELSE Len(cache) - 1
        /\ \A k \in 1..Len(u) : \E j \in DOMAIN cache : u[k] = cache[j]
        /\ \A k, l \in 1..Len(u) : u[k].path = u[l].path => k = l
    BY CacheParts
  <2>2. Len(cache) \in Nat /\ MaxEntries \in Nat /\ Len(cache) <= MaxEntries
    BY Ranges, MaxEntriesAssumption DEF TypeOK
  <2>. HIDE DEF u
  <2>3. Len(u) <= MaxEntries /\ DOMAIN u = 1..Len(u)
    BY <2>1, <2>2
  <2>. QED BY <2>1, <2>3
<1>b. cache' = u
  BY DEF InsertNothing
<1>. HIDE DEF u
<1>c. \A i, k \in DOMAIN cache' : cache'[i].value = cache'[k].value => i = k
  BY <1>a, <1>b DEF OnePlace
<1>d. Served' \subseteq Served
  BY <1>a, <1>b DEF Served
<1>e. \A s \in Threads : pc'[s] # "loaded"
  BY DEF InsertNothing, LockHeld, Holding, TypeOK, Actors
<1>2. TypeOK'
  BY <1>a, <1>b DEF InsertNothing, TypeOK, Actors
<1>3. LockHeld'
  BY <1>1, LoopAssumption DEF InsertNothing, LockHeld, TypeOK, Actors, Holding
<1>4. Counted'
  BY <1>1 DEF InsertNothing, Counted, TypeOK
<1>5. JobShape'
  BY <1>1, LoopAssumption DEF InsertNothing, JobShape, TypeOK, Actors, NoJob, NoValue,
       NoRevision, Jobs
<1>6. OnlyBuilt'
  BY <1>1, <1>d DEF InsertNothing, OnlyBuilt
<1>7. OnePlace'
  BY <1>1, <1>c, <1>d DEF InsertNothing, OnePlace
<1>8. JobsAlive'
  BY <1>1, <1>e DEF InsertNothing, JobsAlive
<1>9. ParkedHasOwner'
  BY <1>1 DEF InsertNothing, ParkedHasOwner, TypeOK
<1>10. RevisionBeforeContents'
  <2>1. \A i \in DOMAIN cache' :
            /\ cache'[i].revision <= contents[cache'[i].value]
            /\ contents[cache'[i].value] <= file[cache'[i].path]
    BY <1>a, <1>b DEF RevisionBeforeContents
  <2>. QED BY <2>1, <1>e DEF InsertNothing, RevisionBeforeContents, TypeOK, Actors
<1>. QED BY <1>2, <1>3, <1>4, <1>5, <1>6, <1>7, <1>8, <1>9, <1>10

(* What leaves the cache is parked while a job runs.                         *)
LEMMA ReleasingStep ==
    ASSUME StoreInv, NEW a \in Actors, Releasing(a)
    PROVE  StoreInv'
<1>. USE DEF StoreInv, store, objects, disk
<1>. DEFINE h == Head(outgoing)
<1>1. Served' = Served /\ Running' = Running
  BY DEF Releasing, Served, Running
<1>a. /\ outgoing' \in Seq(Values) /\ h \in Going /\ h \in Values
      /\ Going' \subseteq Going /\ h \notin Going'
      /\ \A i, k \in DOMAIN outgoing' : outgoing'[i] = outgoing'[k] => i = k
  <2>1. /\ outgoing' = Tail(outgoing) /\ outgoing \in Seq(Values) /\ outgoing # <<>>
        /\ Len(outgoing) \in Nat /\ Len(outgoing) >= 1 /\ DOMAIN outgoing = 1..Len(outgoing)
    BY DEF Releasing, TypeOK
  <2>. DEFINE n == Len(outgoing) - 1
  <2>2. /\ h = outgoing[1] /\ outgoing' \in Seq(Values) /\ n \in Nat
        /\ DOMAIN outgoing' = 1..n /\ DOMAIN outgoing = 1..n + 1
        /\ \A i \in 1..n : outgoing'[i] = outgoing[i + 1]
    BY <2>1, HeadTailProperties
  <2>. HIDE DEF n, h
  <2>3. \A i \in 1..n : i + 1 \in 1..n + 1 /\ i + 1 # 1
    BY <2>2
  <2>4. 1 \in 1..n + 1
    BY <2>2
  <2>5. \A i, k \in 1..n : outgoing'[i] = outgoing'[k] => i = k
    <3>1. ASSUME NEW i \in 1..n, NEW k \in 1..n, i + 1 = k + 1 PROVE i = k
      BY <3>1
    <3>. QED BY <3>1, <2>2, <2>3 DEF OnePlace
  <2>6. \A i \in 1..n : outgoing'[i] # h
    BY <2>2, <2>3, <2>4 DEF OnePlace
  <2>7. h \in Going /\ h \in Values
    BY <2>2, <2>4, Ranges DEF Going
  <2>8. Going' \subseteq Going /\ h \notin Going'
    BY <2>2, <2>3, <2>6 DEF Going
  <2>. QED BY <2>2, <2>5, <2>7, <2>8
<1>b. \/ inFlight > 0 /\ pending' = pending \cup {h} /\ doomed' = doomed
      \/ inFlight = 0 /\ pending' = pending /\ doomed' = [doomed EXCEPT ![a] = @ \cup {h}]
  BY Ranges DEF Releasing
<1>c. /\ \A s \in Threads : pc[s] # "loaded"
      /\ pc' = pc /\ job' = job /\ released' = released /\ built' = built /\ cache' = cache
      /\ inFlight' = inFlight
  BY DEF Releasing, LockHeld, Holding, Actors
<1>. HIDE DEF h
<1>d. Dying' = IF inFlight > 0 THEN Dying ELSE Dying \cup {h}
  <2>1. CASE inFlight > 0
    BY <2>1, <1>b DEF Dying
  <2>2. CASE inFlight = 0
    <3>1. doomed' = [doomed EXCEPT ![a] = doomed[a] \cup {h}] /\ doomed \in [Actors -> SUBSET Values]
      BY <2>2, <1>b DEF TypeOK
    <3>2. \A b \in Actors : doomed'[b] = IF b = a THEN doomed[b] \cup {h} ELSE doomed[b]
      BY <3>1
    <3>3. \A x : x \in Dying' <=> x \in Dying \/ x = h
      BY <3>2 DEF Dying
    <3>. QED BY <2>2, <3>3
  <2>. QED BY <2>1, <2>2, Ranges
<1>e. inFlight = 0 => \A s \in Threads : job[s].value = NoValue
  <2>1. inFlight = 0 => Running = {}
    BY ThreadSets, FS_EmptySet DEF Counted, Running
  <2>. QED BY <2>1, OnlyRunningHaveObjects
<1>2. TypeOK'
  <2>1. pending' \in SUBSET Values /\ doomed' \in [Actors -> SUBSET Values]
    <3>1. pending \in SUBSET Values /\ doomed \in [Actors -> SUBSET Values]
      BY DEF TypeOK
    <3>2. doomed[a] \cup {h} \in SUBSET Values /\ pending \cup {h} \in SUBSET Values
      BY <3>1, <1>a
    <3>. QED BY <3>1, <3>2, <1>b
  <2>. QED BY <1>a, <2>1 DEF Releasing, TypeOK
<1>3. LockHeld'
  BY <1>1, LoopAssumption DEF Releasing, LockHeld, TypeOK, Actors, Holding
<1>4. Counted'
  BY <1>1 DEF Releasing, Counted, TypeOK
<1>5. JobShape'
  BY <1>1, LoopAssumption DEF Releasing, JobShape, TypeOK, Actors, NoJob, NoValue,
       NoRevision, Jobs
<1>6. OnlyBuilt'
  <2>1. pending' \subseteq pending \cup {h} /\ Dying' \subseteq Dying \cup {h}
    BY <1>b, <1>d
  <2>. QED BY <1>1, <1>a, <1>c, <2>1 DEF OnlyBuilt
<1>7. OnePlace'
  <2>1. h \notin Served /\ h \notin pending /\ h \notin Dying /\ released[h] = 0
    BY <1>a DEF OnePlace
  <2>2. \A b, c \in Actors : b # c => doomed'[b] \cap doomed'[c] = {}
    BY <1>b, <2>1 DEF OnePlace, Dying, TypeOK
  <2>3. CASE inFlight > 0
    BY <1>1, <1>a, <1>b, <1>c, <1>d, <2>1, <2>2, <2>3 DEF OnePlace
  <2>4. CASE ~(inFlight > 0)
    BY <1>1, <1>a, <1>b, <1>c, <1>d, <2>1, <2>2, <2>4 DEF OnePlace
  <2>. QED BY <2>3, <2>4
<1>8. JobsAlive'
  BY <1>b, <1>c, <1>d, <1>e DEF JobsAlive
<1>9. ParkedHasOwner'
  BY <1>b, <1>c DEF ParkedHasOwner
<1>10. RevisionBeforeContents'
  BY <1>1 DEF Releasing, RevisionBeforeContents, TypeOK, JobShape, NoJob, NoValue,
       NoRevision
<1>. QED BY <1>2, <1>3, <1>4, <1>5, <1>6, <1>7, <1>8, <1>9, <1>10

(* An object is handed back by the one actor that took it.                   *)
LEMMA ReleaseStep ==
    ASSUME StoreInv, NEW a \in Actors, NEW v \in Values, Release(a, v)
    PROVE  StoreInv'
<1>. USE DEF StoreInv, store, objects, disk
<1>1. Served' = Served /\ Going' = Going /\ Running' = Running
  BY DEF Release, Served, Going, Running
<1>a. /\ v \in Dying /\ v <= built
      /\ v \notin Served /\ v \notin Going /\ v \notin pending /\ released[v] = 0
  <2>1. v \in Dying
    BY DEF Release, Dying
  <2>. QED BY <2>1 DEF OnePlace, OnlyBuilt
<1>b. Dying' = Dying \ {v}
  BY DEF Release, Dying, OnePlace, TypeOK
<1>c. released' = [released EXCEPT ![v] = 1]
  BY <1>a DEF Release, TypeOK
<1>2. TypeOK'
  BY <1>1, LoopAssumption DEF Release, TypeOK, Actors, NoJob, NoValue, NoRevision
<1>3. LockHeld'
  BY <1>1, LoopAssumption DEF Release, LockHeld, TypeOK, Actors, Holding
<1>4. Counted'
  BY <1>1 DEF Release, Counted, TypeOK
<1>5. JobShape'
  BY <1>1, LoopAssumption DEF Release, JobShape, TypeOK, Actors, NoJob, NoValue,
       NoRevision, Jobs
<1>6. OnlyBuilt'
  BY <1>1, <1>a, <1>b, <1>c DEF Release, OnlyBuilt, TypeOK
<1>7. OnePlace'
  <2>1. \A b, c \in Actors : b # c => doomed'[b] \cap doomed'[c] = {}
    BY DEF Release, OnePlace, TypeOK
  <2>. QED BY <1>1, <1>a, <1>b, <1>c, <2>1 DEF Release, OnePlace, TypeOK
<1>8. JobsAlive'
  <2>1. ASSUME NEW t \in Threads, job[t].value # NoValue
        PROVE  released'[job[t].value] = 0 /\ job[t].value \notin Dying'
    <3>1. job[t].value \in Values /\ job[t].value # v
      BY <2>1, <1>a, JobParts DEF JobsAlive
    <3>. QED BY <2>1, <3>1, <1>b, <1>c DEF JobsAlive, TypeOK
  <2>. QED BY <1>1, <2>1 DEF Release, JobsAlive
<1>9. ParkedHasOwner'
  BY <1>1 DEF Release, ParkedHasOwner, TypeOK
<1>10. RevisionBeforeContents'
  BY <1>1 DEF Release, RevisionBeforeContents, TypeOK, JobShape, NoJob, NoValue,
       NoRevision
<1>. QED BY <1>2, <1>3, <1>4, <1>5, <1>6, <1>7, <1>8, <1>9, <1>10

(* The lock is left.                                                         *)
LEMMA UnlockStep ==
    ASSUME StoreInv, NEW a \in Actors, Unlock(a)
    PROVE  StoreInv'
<1>. USE DEF StoreInv, store, objects, disk
<1>1. Served' = Served /\ Going' = Going /\ Dying' = Dying
  BY DEF Unlock, Served, Going, Dying
<1>0. Running' = Running
  BY LoopAssumption DEF Unlock, Running, Busy, TypeOK, Actors
<1>2. TypeOK'
  BY <1>1, LoopAssumption DEF Unlock, TypeOK, Actors, NoJob, NoValue, NoRevision
<1>3. LockHeld'
  BY <1>1, LoopAssumption DEF Unlock, LockHeld, TypeOK, Actors, Holding
<1>4. Counted'
  BY <1>0 DEF Unlock, Counted
<1>5. JobShape'
  BY <1>1, LoopAssumption DEF Unlock, JobShape, TypeOK, Actors, NoJob, NoValue,
       NoRevision, Jobs
<1>6. OnlyBuilt'
  BY <1>1 DEF Unlock, OnlyBuilt, TypeOK, JobShape, NoJob, NoValue, NoRevision
<1>7. OnePlace'
  BY <1>1 DEF Unlock, OnePlace, TypeOK, JobShape, NoJob, NoValue, NoRevision
<1>8. JobsAlive'
  BY <1>1 DEF Unlock, JobsAlive, TypeOK, JobShape, NoJob, NoValue, NoRevision
<1>9. ParkedHasOwner'
  BY <1>1 DEF Unlock, ParkedHasOwner, TypeOK
<1>10. RevisionBeforeContents'
  BY <1>1 DEF Unlock, RevisionBeforeContents, TypeOK, JobShape, NoJob, NoValue, NoRevision
<1>. QED BY <1>2, <1>3, <1>4, <1>5, <1>6, <1>7, <1>8, <1>9, <1>10

(* The last thread out takes what is parked, and nobody runs on it.          *)
LEMMA LeaveStep ==
    ASSUME StoreInv, NEW t \in Threads, Leave(t)
    PROVE  StoreInv'
<1>. USE DEF StoreInv, store, objects, disk
<1>1. Served' = Served /\ Going' = Going
  BY DEF Leave, Served, Going
<1>a. Running' = Running \ {t} /\ t \in Running /\ IsFiniteSet(Running)
  BY ThreadSets DEF Leave, Running, Busy, TypeOK, Actors
<1>b. inFlight' = Cardinality(Running') /\ inFlight' = inFlight - 1
  BY <1>a, FS_RemoveElement DEF Leave, Counted
<1>c. ASSUME inFlight = 1, NEW s \in Threads, s # t PROVE job[s].value = NoValue
  <2>1. Running = {t}
    <3>1. Cardinality(Running) = 1
      BY <1>c DEF Counted
    <3>2. PICK x : Running = {x}
      BY <3>1, <1>a, FS_Singleton
    <3>. QED BY <3>2, <1>a
  <2>. QED BY <1>c, <2>1, OnlyRunningHaveObjects
<1>d. /\ \A s \in Threads : s # t => job'[s] = job[s] /\ pc'[s] = pc[s]
      /\ job'[t] = NoJob /\ job'[t].value = NoValue /\ pc'[t] = "freeing"
      /\ cache' = cache /\ outgoing' = outgoing /\ released' = released /\ built' = built
  BY DEF Leave, TypeOK, JobShape, Actors, NoJob
<1>e. \/ inFlight = 1 /\ doomed' = [doomed EXCEPT ![t] = pending] /\ pending' = {}
      \/ inFlight # 1 /\ doomed' = doomed /\ pending' = pending
  BY DEF Leave
<1>f. Dying' \subseteq Dying \cup pending /\ (inFlight # 1 => Dying' = Dying)
  <2>1. CASE inFlight = 1
    <3>1. \A b \in Actors : doomed'[b] = IF b = t THEN pending ELSE doomed[b]
      BY <2>1, <1>e DEF TypeOK
    <3>. QED BY <2>1, <3>1 DEF Dying
  <2>2. CASE inFlight # 1
    BY <2>2, <1>e DEF Dying
  <2>. QED BY <2>1, <2>2
<1>g. t \in Actors
  BY DEF Actors
<1>2. TypeOK'
  <2>1. inFlight' \in 0..Cardinality(Threads)
    BY <1>a, <1>b, ThreadSets DEF Running
  <2>2. pending' \in SUBSET Values /\ doomed' \in [Actors -> SUBSET Values]
    BY <1>e DEF TypeOK
  <2>. QED BY <1>d, <2>1, <2>2 DEF Leave, TypeOK, Actors
<1>3. LockHeld'
  BY <1>1, LoopAssumption DEF Leave, LockHeld, TypeOK, Actors, Holding
<1>4. Counted'
  BY <1>b DEF Counted
<1>5. JobShape'
  <2>1. NoJob \in Jobs
    BY DEF NoJob, Jobs
  <2>. QED BY <1>d, <2>1 DEF Leave, JobShape
<1>6. OnlyBuilt'
  <2>1. pending' \subseteq pending /\ NoValue <= built
    BY <1>e, Ranges DEF NoValue
  <2>. QED BY <1>1, <1>d, <1>f, <2>1 DEF OnlyBuilt
<1>7. OnePlace'
  <2>1. CASE inFlight = 1
    <3>1. doomed' = [doomed EXCEPT ![t] = pending] /\ pending' = {}
      BY <2>1, <1>e
    <3>2. \A b, c \in Actors : b # c => doomed'[b] \cap doomed'[c] = {}
      <4>1. \A b \in Actors : doomed[b] \cap pending = {}
        BY DEF OnePlace, Dying
      <4>. QED BY <3>1, <4>1, <1>g DEF OnePlace, TypeOK
    <3>. QED BY <1>1, <1>d, <1>f, <3>1, <3>2 DEF OnePlace
  <2>2. CASE inFlight # 1
    BY <1>1, <1>d, <1>e, <1>f, <2>2 DEF OnePlace
  <2>. QED BY <2>1, <2>2
<1>8. JobsAlive'
  <2>1. CASE inFlight = 1
    BY <1>1, <1>c, <1>d, <1>e, <2>1 DEF JobsAlive
  <2>2. CASE inFlight # 1
    BY <1>1, <1>d, <1>e, <1>f, <2>2 DEF JobsAlive
  <2>. QED BY <2>1, <2>2
<1>9. ParkedHasOwner'
  BY <1>b, <1>e, Ranges DEF ParkedHasOwner
<1>10. RevisionBeforeContents'
  BY <1>1 DEF Leave, RevisionBeforeContents, TypeOK, JobShape, NoJob, NoValue, NoRevision
<1>. QED BY <1>2, <1>3, <1>4, <1>5, <1>6, <1>7, <1>8, <1>9, <1>10

(* A call returns.                                                           *)
LEMMA ReturnStep ==
    ASSUME StoreInv, NEW t \in Threads, Return(t)
    PROVE  StoreInv'
<1>. USE DEF StoreInv, store, objects, disk
<1>1. Served' = Served /\ Going' = Going /\ Dying' = Dying /\ Running' = Running
  BY DEF Return, Served, Going, Dying, Running, Busy, TypeOK, Actors
<1>2. TypeOK'
  BY <1>1, LoopAssumption DEF Return, TypeOK, Actors, NoJob, NoValue, NoRevision
<1>3. LockHeld'
  BY <1>1, LoopAssumption DEF Return, LockHeld, TypeOK, Actors, Holding
<1>4. Counted'
  BY <1>1 DEF Return, Counted, TypeOK
<1>5. JobShape'
  BY <1>1, LoopAssumption DEF Return, JobShape, TypeOK, Actors, NoJob, NoValue,
       NoRevision, Jobs
<1>6. OnlyBuilt'
  BY <1>1 DEF Return, OnlyBuilt, TypeOK, JobShape, NoJob, NoValue, NoRevision
<1>7. OnePlace'
  BY <1>1 DEF Return, OnePlace, TypeOK, JobShape, NoJob, NoValue, NoRevision
<1>8. JobsAlive'
  BY <1>1 DEF Return, JobsAlive, TypeOK, JobShape, NoJob, NoValue, NoRevision
<1>9. ParkedHasOwner'
  BY <1>1 DEF Return, ParkedHasOwner, TypeOK
<1>10. RevisionBeforeContents'
  BY <1>1 DEF Return, RevisionBeforeContents, TypeOK, JobShape, NoJob, NoValue, NoRevision
<1>. QED BY <1>2, <1>3, <1>4, <1>5, <1>6, <1>7, <1>8, <1>9, <1>10

(* close() waits for the lock.                                               *)
LEMMA CloseStep ==
    ASSUME StoreInv, Close
    PROVE  StoreInv'
<1>. USE DEF StoreInv, store, objects, disk
<1>1. Served' = Served /\ Going' = Going /\ Dying' = Dying
  BY DEF Close, Served, Going, Dying
<1>0. Running' = Running
  BY LoopAssumption DEF Close, Running, TypeOK, Actors
<1>2. TypeOK'
  BY <1>1, LoopAssumption DEF Close, TypeOK, Actors, NoJob, NoValue, NoRevision
<1>3. LockHeld'
  BY <1>1, LoopAssumption DEF Close, LockHeld, TypeOK, Actors, Holding
<1>4. Counted'
  BY <1>0 DEF Close, Counted
<1>5. JobShape'
  BY <1>1, LoopAssumption DEF Close, JobShape, TypeOK, Actors, NoJob, NoValue,
       NoRevision, Jobs
<1>6. OnlyBuilt'
  BY <1>1 DEF Close, OnlyBuilt, TypeOK, JobShape, NoJob, NoValue, NoRevision
<1>7. OnePlace'
  BY <1>1 DEF Close, OnePlace, TypeOK, JobShape, NoJob, NoValue, NoRevision
<1>8. JobsAlive'
  BY <1>1 DEF Close, JobsAlive, TypeOK, JobShape, NoJob, NoValue, NoRevision
<1>9. ParkedHasOwner'
  BY <1>1 DEF Close, ParkedHasOwner, TypeOK
<1>10. RevisionBeforeContents'
  BY <1>1 DEF Close, RevisionBeforeContents, TypeOK, JobShape, NoJob, NoValue, NoRevision
<1>. QED BY <1>2, <1>3, <1>4, <1>5, <1>6, <1>7, <1>8, <1>9, <1>10

(* close() empties the cache.                                                *)
LEMMA CloseLocksStep ==
    ASSUME StoreInv, CloseLocks
    PROVE  StoreInv'
<1>. USE DEF StoreInv, store, objects, disk
<1>1. Dying' = Dying /\ Running' = Running
  BY LoopAssumption DEF CloseLocks, Dying, Running, TypeOK, Actors
<1>a. /\ Len(cache) \in Nat /\ DOMAIN cache = 1..Len(cache)
      /\ outgoing' = [i \in 1..Len(cache) |-> cache[i].value] /\ cache' = <<>>
  BY Ranges DEF CloseLocks, Objects
<1>b. outgoing' \in Seq(Values) /\ DOMAIN outgoing' = DOMAIN cache
      /\ \A i \in DOMAIN cache : outgoing'[i] = cache[i].value
  <2>1. \A i \in 1..Len(cache) : cache[i].value \in Values
    BY <1>a, Ranges
  <2>. QED BY <1>a, <2>1, IsASeq
<1>c. Served' = {} /\ Going' = Served
  BY <1>a, <1>b DEF Served, Going
<1>d. \A s \in Threads : pc[s] # "loaded" /\ pc'[s] = pc[s]
  BY LoopAssumption DEF CloseLocks, LockHeld, Holding, TypeOK, Actors
<1>2. TypeOK'
  <2>1. cache' \in Seq(Entries) /\ Len(cache') <= MaxEntries /\ DOMAIN cache' = {}
    BY <1>a, MaxEntriesAssumption
  <2>. QED BY <1>b, <2>1 DEF CloseLocks, TypeOK, Actors
<1>3. LockHeld'
  BY <1>1, LoopAssumption DEF CloseLocks, LockHeld, TypeOK, Actors, Holding
<1>4. Counted'
  BY <1>1 DEF CloseLocks, Counted, TypeOK
<1>5. JobShape'
  BY <1>1, LoopAssumption DEF CloseLocks, JobShape, TypeOK, Actors, NoJob, NoValue,
       NoRevision, Jobs
<1>6. OnlyBuilt'
  BY <1>1, <1>c DEF CloseLocks, OnlyBuilt
<1>7. OnePlace'
  BY <1>1, <1>a, <1>b, <1>c DEF CloseLocks, OnePlace
<1>8. JobsAlive'
  BY <1>1, <1>d DEF CloseLocks, JobsAlive
<1>9. ParkedHasOwner'
  BY <1>1 DEF CloseLocks, ParkedHasOwner, TypeOK
<1>10. RevisionBeforeContents'
  BY <1>a, <1>d DEF CloseLocks, RevisionBeforeContents
<1>. QED BY <1>2, <1>3, <1>4, <1>5, <1>6, <1>7, <1>8, <1>9, <1>10
-----------------------------------------------------------------------------
LEMMA StoreInit == Init => StoreInv
<1>. SUFFICES ASSUME Init PROVE StoreInv
  OBVIOUS
<1>. USE DEF Init
<1>1. cache = <<>> /\ outgoing = <<>> /\ DOMAIN cache = {} /\ DOMAIN outgoing = {}
  OBVIOUS
<1>2. Served = {} /\ Going = {} /\ Dying = {} /\ Running = {}
  BY <1>1 DEF Served, Going, Dying, Running, Busy, Actors
<1>3. Cardinality(Running) = 0 /\ 0 \in 0..Cardinality(Threads)
  BY <1>2, FS_EmptySet, ThreadsAssumption, FS_CardinalityType
<1>4. \A t \in Threads : job[t] = NoJob /\ job[t].value = NoValue /\ pc[t] = "out"
  BY DEF NoJob, Actors
<1>5. pc[Loop] = "out" /\ \A a \in Actors : pc[a] = "out" /\ holder # a
  BY LoopAssumption DEF Actors
<1>6. TypeOK
  <2>1. cache \in Seq(Entries) /\ Len(cache) <= MaxEntries /\ outgoing \in Seq(Values)
    BY <1>1, MaxEntriesAssumption
  <2>2. 0 \in Revisions /\ built \in 0..MaxBuilds
    BY BoundsAssumption DEF Revisions
  <2>. QED BY <1>1, <1>3, <1>4, <2>1, <2>2 DEF TypeOK
<1>7. LockHeld
  BY <1>1, <1>5 DEF LockHeld, Holding
<1>8. Counted
  BY <1>3 DEF Counted
<1>9. JobShape
  <2>1. NoJob \in Jobs
    BY DEF NoJob, Jobs
  <2>. QED BY <1>4, <2>1 DEF JobShape
<1>10. OnlyBuilt /\ JobsAlive
  BY <1>2, <1>4 DEF OnlyBuilt, JobsAlive, NoValue
<1>11. OnePlace
  <2>1. \A a, b \in Actors : doomed[a] \cap doomed[b] = {}
    OBVIOUS
  <2>2. \A v \in Values : released[v] = 0
    OBVIOUS
  <2>. QED BY <1>1, <1>2, <2>1, <2>2 DEF OnePlace
<1>12. ParkedHasOwner /\ RevisionBeforeContents
  BY <1>1, <1>4 DEF ParkedHasOwner, RevisionBeforeContents
<1>. QED BY <1>6, <1>7, <1>8, <1>9, <1>10, <1>11, <1>12 DEF StoreInv

(* A step of any thread, of close() or of another process keeps every object *)
(* in one place.                                                             *)
LEMMA StoreNext == StoreInv /\ [Next]_vars => StoreInv'
<1>. SUFFICES ASSUME StoreInv, [Next]_vars PROVE StoreInv'
  OBVIOUS
<1>1. ASSUME NEW p \in Paths, FileRewritten(p) \/ FileToggled(p) PROVE StoreInv'
  BY <1>1, FileRewrittenStep, FileToggledStep
<1>2. ASSUME NEW t \in Threads, NEW p \in Paths, Handed(t, p) PROVE StoreInv'
  BY <1>2, HandedStep
<1>3. ASSUME NEW a \in Actors, ActorStep(a) PROVE StoreInv'
  BY <1>3, ReleasingStep, ReleaseStep, UnlockStep DEF ActorStep
<1>4. ASSUME NEW t \in Threads, ThreadStep(t) PROVE StoreInv'
  <2>1. CASE ActorStep(t)
    BY <2>1, <1>3 DEF Actors
  <2>2. CASE Enter(t) \/ Looked(t)
    BY <2>2, EnterStep, LookupHitsStep, LookupMissesStep DEF Looked
  <2>3. CASE BuildEnds(t) \/ Inserted(t)
    BY <2>3, BuildStep, BuildFailsStep, InsertStep, InsertNothingStep DEF BuildEnds, Inserted
  <2>4. CASE Leave(t) \/ Return(t)
    BY <2>4, LeaveStep, ReturnStep
  <2>. QED BY <1>4, <2>1, <2>2, <2>3, <2>4 DEF ThreadStep
<1>5. CASE Close \/ CloseLocks
  BY <1>5, CloseStep, CloseLocksStep
<1>6. CASE UNCHANGED vars
  <2>1. Served' = Served /\ Going' = Going /\ Dying' = Dying /\ Running' = Running
    BY <1>6 DEF vars, store, Served, Going, Dying, Running
  <2>2. TypeOK' /\ LockHeld' /\ Counted' /\ JobShape' /\ ParkedHasOwner'
    BY <1>6, <2>1 DEF vars, store, objects, disk, StoreInv, TypeOK, LockHeld, Counted,
                      JobShape, ParkedHasOwner
  <2>3. OnlyBuilt' /\ OnePlace' /\ JobsAlive' /\ RevisionBeforeContents'
    BY <1>6, <2>1 DEF vars, store, objects, disk, StoreInv, OnlyBuilt, OnePlace, JobsAlive,
                      RevisionBeforeContents
  <2>. QED BY <2>2, <2>3 DEF StoreInv
<1>. QED BY <1>1, <1>2, <1>3, <1>4, <1>5, <1>6 DEF Next, Actors

(* The invariant is enough: an object in a job is not released, an object in *)
(* the cache is not released, and an entry that still carries the file's     *)
(* revision was built from it.                                               *)
LEMMA StoreInvSound == StoreInv => ReleaseSound
<1>. SUFFICES ASSUME StoreInv PROVE ReleaseSound
  OBVIOUS
<1>. USE DEF StoreInv
<1>1. NeverReleasedInUse
  BY DEF NeverReleasedInUse, JobsAlive
<1>2. ReleasedOnce
  <2>1. \A v \in Values : released[v] <= 1
    BY Ranges DEF OnePlace
  <2>2. \A i \in DOMAIN cache : cache[i].value \in Served /\ cache[i].value \in Values
    BY Ranges DEF Served
  <2>. QED BY <2>1, <2>2 DEF ReleasedOnce, OnePlace
<1>3. ServesCurrentModel
  <2>1. ASSUME NEW i \in DOMAIN cache, cache[i].revision = file[cache[i].path]
        PROVE  contents[cache[i].value] = file[cache[i].path]
    <3>1. contents[cache[i].value] \in Int /\ file[cache[i].path] \in Nat
      BY Ranges
    <3>. QED BY <2>1, <3>1 DEF RevisionBeforeContents
  <2>. QED BY <2>1 DEF ServesCurrentModel
<1>. QED BY <1>1, <1>2, <1>3 DEF ReleaseSound

(* For every pool, every set of models, every cache size and any number of   *)
(* rewrites: an object is handed back to its library at most once, never     *)
(* under a job that runs on it nor while the cache serves it, a parked one   *)
(* has a job that will release it, and what a lookup serves was built from   *)
(* the file it was revalidated against (ModelStore and ModelCache).          *)
THEOREM StoreReleasesSafely == Spec => []ReleaseSound
<1>1. Init => StoreInv
  BY StoreInit
<1>2. StoreInv /\ [Next]_vars => StoreInv'
  BY StoreNext
<1>3. StoreInv => ReleaseSound
  BY StoreInvSound
<1>. QED BY <1>1, <1>2, <1>3, PTL DEF Spec

-----------------------------------------------------------------------------
(* Promotion of trained models.                                              *)

(* A model that was trained has a number and a width.                        *)
Models == {Promoting!NoModel} \cup [id : Nat \ {0}, width : Nat \ {0}]
Natives == [graph : Nat, weights : Nat]
Lanes == Promoting!Targets
LaneNatives == [lane : Lanes, native : Natives]
TrainerRecords == [at : {"idle", "fitted", "exported", "digested"}, model : Models, named : Models]
PromotionRecords ==
    [at : {"idle", "document", "identified", "compile", "compiling", "prepare", "verify", "install"},
     doc : Models, reported : Models, version : Versions \cup {0}, todo : Seq(Lanes), source : Models,
     ready : Seq(LaneNatives), landed : Nat]
Bindings == [model : Models, report : Models, version : Versions \cup {0}, variants : Seq(LaneNatives)]

FolderTyped ==
    /\ recipe \in {"numeric", "forecast"} /\ overlapped \in BOOLEAN /\ reverted \in BOOLEAN
    /\ onnx \in Models /\ report \in Models /\ exports \in Nat
    /\ trainer \in [Trainers -> TrainerRecords]
    /\ build \in [Lanes -> Natives] /\ artifacts \in [Lanes \X Versions -> Natives]
    /\ binding \in Bindings

(* Models are numbered as their training begins; while trainers do not       *)
(* overlap they reach the folder in that order, and the report follows.      *)
TrainersInOrder ==
    /\ onnx.id <= exports
    /\ \A t \in Trainers : trainer[t].at = "fitted" =>
           trainer[t].model # Promoting!NoModel /\ trainer[t].model.id <= exports
    /\ ~overlapped =>
           /\ \A t, u \in Trainers : trainer[t].at # "idle" /\ trainer[u].at # "idle" => t = u
           /\ \A t \in Trainers : trainer[t].at = "fitted" => onnx.id < trainer[t].model.id
           /\ \A t \in Trainers : trainer[t].at = "digested" => trainer[t].named = onnx
           /\ report.id <= onnx.id

(* What has been compared: the graph is the model's, and unless older files  *)
(* came back its weights are no newer than the model's, those in the folder  *)
(* no older; and what landed of it is no older either.                       *)
Compared(model, v, entries, proven, landed) ==
    /\ \A k \in 1 .. proven :
           /\ entries[k].native.graph = model.width
           /\ ~reverted => /\ entries[k].native.weights <= model.id
                           /\ model.id <= build[entries[k].lane].weights
    /\ \A k \in 1 .. landed :
           ~reverted => \/ artifacts[<<entries[k].lane, v>>] = Promoting!NoNative
                        \/ model.id <= artifacts[<<entries[k].lane, v>>].weights

(* A promotion: its last native is compared once it is verified.             *)
Proven(j) == IF j.at = "verify" THEN Len(j.ready) - 1 ELSE Len(j.ready)
JobTyped(j) ==
    /\ j \in PromotionRecords
    /\ j.at # "idle" => j.doc # Promoting!NoModel
    /\ j.at \in {"compile", "compiling", "prepare", "verify"} => j.todo # <<>>
    /\ j.at \in {"compile", "compiling", "prepare", "verify", "install"} => j.version \in Versions
    /\ j.at \in {"idle", "document", "identified"} => j.ready = <<>>
    /\ j.at \in {"verify", "install"} => j.ready # <<>>
    /\ j.landed <= Len(j.ready) /\ (j.landed > 0 => j.at = "install")
JobCompared(j) ==
    recipe = "numeric" =>
        /\ Compared(j.doc, j.version, j.ready, Proven(j), j.landed)
        /\ j.at = "verify" =>
               /\ j.ready[Len(j.ready)].lane = Head(j.todo)
               /\ ~reverted => j.ready[Len(j.ready)].native.weights <= build[Head(j.todo)].weights

(* While trainers do not overlap, the digest a promotion took of the report  *)
(* is of the one it read, or its model has been replaced.                    *)
JobAlone(j) ==
    ~overlapped /\ j.at # "idle" =>
        /\ j.doc.id <= onnx.id
        /\ onnx = j.doc => j.doc = IF j.at \in {"document", "identified"} THEN report ELSE j.reported
        /\ recipe = "numeric" /\ Proven(j) >= 1 => j.reported = j.doc

JobsProven ==
    /\ promo = [p \in Promoters |-> promo[p]]
    /\ \A p \in Promoters : JobTyped(promo[p]) /\ JobCompared(promo[p]) /\ JobAlone(promo[p])

BindingProven ==
    /\ binding.variants # <<>> => binding.version \in Versions /\ binding.model # Promoting!NoModel
    /\ recipe = "numeric" =>
           /\ Compared(binding.model, binding.version, binding.variants, Len(binding.variants), Len(binding.variants))
           /\ ~overlapped => binding.report = binding.model

PromotionInv == FolderTyped /\ TrainersInOrder /\ JobsProven /\ BindingProven

-----------------------------------------------------------------------------

LEMMA PromotingNames ==
    /\ Promoting!NoModel \in Models /\ Promoting!NoNative \in Natives
    /\ Promoting!NoModel = [id |-> 0, width |-> 0] /\ Promoting!NoNative = [graph |-> 0, weights |-> 0]
    /\ \A m \in Models : m.id \in Nat /\ m.width \in Nat /\ (m # Promoting!NoModel => m.width > 0 /\ m.id > 0)
    /\ \A m \in Models : Promoting!NativeOf(m) = [graph |-> m.width, weights |-> m.id]
    /\ \A m \in Models : Promoting!NativeOf(m) \in Natives
BY DEF Promoting!NoModel, Promoting!NoNative, Models, Natives, Promoting!NativeOf

LEMMA FinishedHeld ==
    JobTyped(Promoting!Finished) /\ JobCompared(Promoting!Finished) /\ JobAlone(Promoting!Finished)
<1>. DEFINE j == Promoting!Finished
<1>1. /\ j.at = "idle" /\ j.doc = Promoting!NoModel /\ j.reported = Promoting!NoModel /\ j.version = 0
      /\ j.todo = <<>> /\ j.source = Promoting!NoModel /\ j.ready = <<>> /\ j.landed = 0
  BY DEF Promoting!Finished
<1>2. j \in PromotionRecords
  BY PromotingNames DEF Promoting!Finished, PromotionRecords
<1>. HIDE DEF j
<1>3. JobTyped(j)
  BY <1>1, <1>2 DEF JobTyped
<1>4. JobCompared(j) /\ JobAlone(j)
  BY <1>1 DEF JobCompared, JobAlone, Compared, Proven
<1>. QED BY <1>3, <1>4 DEF j

LEMMA PromotingStart == Promoting!Init => PromotionInv
<1>. SUFFICES ASSUME Promoting!Init PROVE PromotionInv
  OBVIOUS
<1>1. recipe \in {"numeric", "forecast"}
  BY DEF Promoting!Init, Promoting!TrainerDispatch
<1>2. Promoting!Resting \in TrainerRecords /\ Promoting!Resting.at = "idle"
  BY PromotingNames DEF Promoting!Resting, TrainerRecords
<1>3. /\ Promoting!Unbound \in Bindings /\ Promoting!Unbound.variants = <<>>
      /\ Promoting!Unbound.report = Promoting!Unbound.model
  BY PromotingNames DEF Promoting!Unbound, Bindings
<1>4. FolderTyped
  BY <1>1, <1>2, <1>3, PromotingNames DEF Promoting!Init, FolderTyped, Lanes
<1>5. TrainersInOrder
  BY <1>2, PromotingNames DEF Promoting!Init, TrainersInOrder
<1>6. JobsProven
  BY FinishedHeld DEF Promoting!Init, JobsProven
<1>7. BindingProven
  BY <1>3 DEF Promoting!Init, BindingProven, Compared
<1>. QED BY <1>4, <1>5, <1>6, <1>7 DEF PromotionInv

-----------------------------------------------------------------------------
(* What a step may do to the folder, the compiled files and the store.       *)

FolderMoves ==
    ~overlapped' =>
        /\ ~overlapped
        /\ onnx' = onnx \/ onnx'.id > onnx.id
        /\ report' = report \/ (report' = onnx /\ onnx' = onnx)
FilesMove ==
    ~reverted' =>
        /\ ~reverted
        /\ \A l \in Lanes : build[l].weights <= build'[l].weights
        /\ \A e \in Lanes \X Versions : artifacts'[e] \in {artifacts[e], Promoting!NoNative, build[e[1]]}

LEMMA ComparedMoves ==
    ASSUME FolderTyped, FolderTyped', FilesMove,
           NEW model \in Models, NEW v, NEW entries \in Seq(LaneNatives), NEW proven \in Nat, NEW landed \in Nat,
           proven <= Len(entries), landed <= proven, landed > 0 => v \in Versions,
           Compared(model, v, entries, proven, landed)
    PROVE  Compared(model, v, entries, proven, landed)'
<1>1. \A k \in 1 .. proven : entries[k] \in LaneNatives
  OBVIOUS
<1>2. \A k \in 1 .. proven : entries[k].lane \in Lanes
  BY <1>1 DEF LaneNatives
<1>3. \A k \in 1 .. proven : entries[k].native.weights \in Nat
  BY <1>1 DEF LaneNatives, Natives
<1>4. \A l \in Lanes : build[l].weights \in Nat /\ build'[l].weights \in Nat
  BY DEF FolderTyped, Natives
<1>5. model.id \in Nat
  BY PromotingNames
<1>6. ASSUME NEW k \in 1 .. proven
      PROVE  /\ entries[k].native.graph = model.width
             /\ ~reverted' => /\ entries[k].native.weights <= model.id
                              /\ model.id <= build'[entries[k].lane].weights
  <2>. DEFINE l == entries[k].lane
              w == entries[k].native.weights
  <2>1. l \in Lanes /\ w \in Nat /\ build[l].weights \in Nat /\ build'[l].weights \in Nat
    BY <1>2, <1>3, <1>4
  <2>2. /\ entries[k].native.graph = model.width
        /\ ~reverted => w <= model.id /\ model.id <= build[l].weights
    BY DEF Compared
  <2>. HIDE DEF l, w
  <2>3. ~reverted' => w <= model.id /\ model.id <= build'[l].weights
    BY <1>5, <2>1, <2>2 DEF FilesMove
  <2>. QED BY <2>2, <2>3 DEF l, w
<1>7. ASSUME NEW k \in 1 .. landed, ~reverted'
      PROVE  \/ artifacts'[<<entries[k].lane, v>>] = Promoting!NoNative
             \/ model.id <= artifacts'[<<entries[k].lane, v>>].weights
  <2>. DEFINE l == entries[k].lane
              e == <<l, v>>
  <2>1. k \in 1 .. proven /\ v \in Versions /\ ~reverted
    BY <1>7 DEF FilesMove
  <2>2. l \in Lanes /\ model.id <= build[l].weights
    BY <1>2, <2>1 DEF Compared
  <2>3. artifacts[e] = Promoting!NoNative \/ model.id <= artifacts[e].weights
    BY <2>1 DEF Compared
  <2>. HIDE DEF l
  <2>4. e \in Lanes \X Versions /\ e[1] = l
    BY <2>1, <2>2
  <2>. HIDE DEF e
  <2>5. artifacts'[e] \in {artifacts[e], Promoting!NoNative, build[l]}
    BY <1>7, <2>4 DEF FilesMove
  <2>6. artifacts'[e] = Promoting!NoNative \/ model.id <= artifacts'[e].weights
    BY <2>2, <2>3, <2>5
  <2>. QED BY <2>6 DEF e, l
<1>. QED BY <1>6, <1>7 DEF Compared

LEMMA JobSizes ==
    ASSUME NEW j, JobTyped(j)
    PROVE  /\ j.ready \in Seq(LaneNatives) /\ Len(j.ready) \in Nat /\ j.doc \in Models
           /\ Proven(j) \in Nat /\ Proven(j) <= Len(j.ready)
           /\ j.landed \in Nat /\ j.landed <= Proven(j) /\ (j.landed > 0 => j.version \in Versions)
<1>1. j.ready \in Seq(LaneNatives) /\ j.landed \in Nat /\ j.doc \in Models
  BY DEF JobTyped, PromotionRecords
<1>2. Len(j.ready) \in Nat /\ (j.ready # <<>> => Len(j.ready) > 0)
  BY <1>1
<1>3. j.landed <= Len(j.ready) /\ (j.landed > 0 => j.at = "install" /\ j.version \in Versions)
      /\ (j.at = "verify" => j.ready # <<>> /\ ~(j.landed > 0))
  BY DEF JobTyped
<1>4. Proven(j) \in Nat /\ Proven(j) <= Len(j.ready) /\ j.landed <= Proven(j)
  <2>1. CASE j.at = "verify"
    BY <1>1, <1>2, <1>3, <2>1 DEF Proven
  <2>2. CASE j.at # "verify"
    BY <1>1, <1>2, <1>3, <2>2 DEF Proven
  <2>. QED BY <2>1, <2>2
<1>. QED BY <1>1, <1>2, <1>3, <1>4

(* A promotion that does nothing stays proven whatever the others do.        *)
LEMMA JobMoves ==
    ASSUME FolderTyped, FolderTyped', FolderMoves, FilesMove, recipe' = recipe, NEW j, JobTyped(j)
    PROVE  /\ JobCompared(j) => JobCompared(j)'
           /\ JobAlone(j) => JobAlone(j)'
<1>1. ASSUME JobCompared(j) PROVE JobCompared(j)'
  <2>. SUFFICES ASSUME recipe = "numeric" PROVE JobCompared(j)'
    BY DEF JobCompared
  <2>1. Compared(j.doc, j.version, j.ready, Proven(j), j.landed)
    BY <1>1 DEF JobCompared
  <2>2. Compared(j.doc, j.version, j.ready, Proven(j), j.landed)'
    BY <2>1, JobSizes, ComparedMoves
  <2>3. ASSUME j.at = "verify"
        PROVE  /\ j.ready[Len(j.ready)].lane = Head(j.todo)
               /\ ~reverted' => j.ready[Len(j.ready)].native.weights <= build'[Head(j.todo)].weights
    <3>. DEFINE w == j.ready[Len(j.ready)].native.weights
                l == Head(j.todo)
    <3>1. j.ready[Len(j.ready)].lane = l /\ (~reverted => w <= build[l].weights)
      BY <1>1, <2>3 DEF JobCompared
    <3>2. j.ready \in Seq(LaneNatives) /\ j.ready # <<>> /\ j.todo \in Seq(Lanes) /\ j.todo # <<>>
      BY <2>3 DEF JobTyped, PromotionRecords
    <3>3. j.ready[Len(j.ready)] \in LaneNatives /\ l \in Lanes
      BY <3>2
    <3>4. w \in Nat /\ build[l].weights \in Nat /\ build'[l].weights \in Nat
      BY <3>3 DEF LaneNatives, Natives, FolderTyped
    <3>. HIDE DEF w, l
    <3>5. ~reverted' => w <= build'[l].weights
      BY <3>1, <3>3, <3>4 DEF FilesMove
    <3>. QED BY <3>1, <3>5 DEF w, l
  <2>. QED BY <2>2, <2>3 DEF JobCompared, Proven
<1>2. ASSUME JobAlone(j) PROVE JobAlone(j)'
  <2>. SUFFICES ASSUME ~overlapped', j.at # "idle"
                PROVE  /\ j.doc.id <= onnx'.id
                       /\ onnx' = j.doc => j.doc = IF j.at \in {"document", "identified"} THEN report' ELSE j.reported
                       /\ recipe = "numeric" /\ Proven(j) >= 1 => j.reported = j.doc
    BY DEF JobAlone, Proven
  <2>1. /\ ~overlapped /\ j.doc.id <= onnx.id
        /\ onnx = j.doc => j.doc = IF j.at \in {"document", "identified"} THEN report ELSE j.reported
        /\ recipe = "numeric" /\ Proven(j) >= 1 => j.reported = j.doc
    BY <1>2 DEF JobAlone, FolderMoves
  <2>2. j.doc.id \in Nat /\ onnx.id \in Nat /\ onnx'.id \in Nat
    BY JobSizes, PromotingNames DEF FolderTyped
  <2>3. onnx' = onnx \/ onnx'.id > onnx.id
    BY DEF FolderMoves
  <2>4. j.doc.id <= onnx'.id /\ (onnx' = j.doc => onnx' = onnx)
    BY <2>1, <2>2, <2>3
  <2>. QED BY <2>1, <2>4 DEF FolderMoves
<1>. QED BY <1>1, <1>2

(* The promotions that do nothing, and the one that becomes new.             *)
LEMMA JobsKept ==
    ASSUME FolderTyped, FolderTyped', FolderMoves, FilesMove, recipe' = recipe, JobsProven, UNCHANGED promo
    PROVE  JobsProven'
<1>1. ASSUME NEW q \in Promoters
      PROVE  JobTyped(promo'[q]) /\ JobCompared(promo[q])' /\ JobAlone(promo[q])'
  <2>1. PICK j : j = promo[q]
    OBVIOUS
  <2>2. JobTyped(j) /\ JobCompared(j) /\ JobAlone(j)
    BY <2>1 DEF JobsProven
  <2>3. JobCompared(j)' /\ JobAlone(j)'
    BY <2>2, JobMoves
  <2>4. promo'[q] = j
    BY <2>1
  <2>. QED BY <2>2, <2>3, <2>4
<1>. QED BY <1>1 DEF JobsProven

LEMMA JobKept ==
    ASSUME FolderTyped, FolderTyped', FolderMoves, FilesMove, recipe' = recipe, JobsProven,
           NEW p \in Promoters, NEW new, promo' = [promo EXCEPT ![p] = new],
           JobTyped(new), JobCompared(new)', JobAlone(new)'
    PROVE  JobsProven'
<1>1. ASSUME NEW q \in Promoters
      PROVE  JobTyped(promo'[q]) /\ JobCompared(promo[q])' /\ JobAlone(promo[q])'
  <2>1. PICK j : j = promo[q]
    OBVIOUS
  <2>2. JobTyped(j) /\ JobCompared(j) /\ JobAlone(j)
    BY <2>1 DEF JobsProven
  <2>3. JobCompared(j)' /\ JobAlone(j)'
    BY <2>2, JobMoves
  <2>4. promo'[q] = IF q = p THEN new ELSE j
    BY <2>1 DEF JobsProven
  <2>5. CASE q = p
    BY <2>4, <2>5
  <2>6. CASE q # p
    BY <2>2, <2>3, <2>4, <2>6
  <2>. QED BY <2>5, <2>6
<1>2. promo' = [q \in Promoters |-> promo'[q]]
  BY DEF JobsProven
<1>. QED BY <1>1, <1>2 DEF JobsProven

LEMMA BindingKept ==
    ASSUME FolderTyped, FolderTyped', FolderMoves, FilesMove, recipe' = recipe, BindingProven, UNCHANGED binding
    PROVE  BindingProven'
<1>1. PICK b : b = binding
  OBVIOUS
<1>2. PICK n \in Nat : n = Len(b.variants)
  BY <1>1 DEF FolderTyped, Bindings
<1>3. b.variants \in Seq(LaneNatives) /\ b.model \in Models
  BY <1>1 DEF FolderTyped, Bindings
<1>4. b.variants # <<>> => b.version \in Versions /\ b.model # Promoting!NoModel
  BY <1>1 DEF BindingProven
<1>5. /\ recipe = "numeric" => Compared(b.model, b.version, b.variants, n, n)
      /\ recipe = "numeric" /\ ~overlapped => b.report = b.model
  BY <1>1, <1>2 DEF BindingProven
<1>6. PICK model, v, entries : model = b.model /\ v = b.version /\ entries = b.variants
  OBVIOUS
<1>7. /\ model \in Models /\ entries \in Seq(LaneNatives) /\ n <= Len(entries) /\ n <= n
      /\ n > 0 => v \in Versions
  BY <1>2, <1>3, <1>4, <1>6
<1>8. recipe = "numeric" => Compared(model, v, entries, n, n)
  BY <1>5, <1>6
<1>9. recipe = "numeric" => Compared(model, v, entries, n, n)'
  BY <1>7, <1>8, ComparedMoves
<1>10. binding' = b
  BY <1>1
<1>11. ~overlapped' => ~overlapped
  BY DEF FolderMoves
<1>12. binding'.variants # <<>> => binding'.version \in Versions /\ binding'.model # Promoting!NoModel
  BY <1>4, <1>10
<1>13. ~overlapped' /\ recipe' = "numeric" => binding'.report = binding'.model
  BY <1>5, <1>10, <1>11
<1>14. binding'.model = model /\ binding'.version = v /\ binding'.variants = entries /\ Len(binding'.variants) = n
  BY <1>2, <1>6, <1>10
<1>15. recipe' = "numeric" => Compared(binding.model, binding.version, binding.variants, Len(binding.variants), Len(binding.variants))'
  BY <1>9, <1>14 DEF Compared
<1>. QED BY <1>12, <1>13, <1>15 DEF BindingProven

-----------------------------------------------------------------------------
(* Training.                                                                 *)

LEMMA TrainerKept ==
    ASSUME PromotionInv, NEW t \in Trainers,
           \/ Promoting!TrainBegins(t)
           \/ Promoting!Export(t) \/ Promoting!DigestModel(t) \/ Promoting!WriteReport(t)
           \/ Promoting!TrainEnds(t)
    PROVE  PromotionInv'
<1>. USE DEF PromotionInv
<1>1. UNCHANGED <<recipe, build, promo, artifacts, binding, reverted>>
  BY DEF Promoting!TrainBegins, Promoting!Export, Promoting!DigestModel, Promoting!WriteReport,
         Promoting!TrainEnds, Promoting!counts, Promoting!history
<1>2. FilesMove
  <2>1. \A l \in Lanes : build[l].weights \in Nat
    BY DEF FolderTyped, Natives
  <2>. QED BY <1>1, <2>1 DEF FilesMove
<1>3. Promoting!Resting \in TrainerRecords /\ Promoting!Resting.at = "idle"
  BY PromotingNames DEF Promoting!Resting, TrainerRecords
<1>4. onnx.id \in Nat /\ report.id \in Nat /\ exports \in Nat /\ onnx \in Models /\ report \in Models
  BY PromotingNames DEF FolderTyped
<1>5. PICK new \in TrainerRecords :
          /\ trainer' = [trainer EXCEPT ![t] = new]
          /\ \/ /\ trainer[t].at = "idle" /\ new.at = "fitted" /\ new.model # Promoting!NoModel
                /\ new.model.id = exports + 1 /\ exports' = exports + 1 /\ UNCHANGED <<onnx, report>>
                /\ overlapped' = (overlapped \/ \E u \in Trainers \ {t} : trainer[u].at # "idle")
             \/ /\ trainer[t].at = "fitted" /\ new.at = "exported" /\ onnx' = trainer[t].model
                /\ UNCHANGED <<report, exports, overlapped>>
             \/ /\ trainer[t].at = "exported" /\ new.at = "digested" /\ new.named = onnx
                /\ UNCHANGED <<onnx, report, exports, overlapped>>
             \/ /\ trainer[t].at = "digested" /\ new.at = "idle" /\ report' = trainer[t].named
                /\ UNCHANGED <<onnx, exports, overlapped>>
             \/ /\ trainer[t].at # "idle" /\ new.at = "idle" /\ UNCHANGED <<onnx, report, exports, overlapped>>
  <2>1. ASSUME Promoting!TrainBegins(t)
        PROVE  \E new \in TrainerRecords :
                  /\ trainer' = [trainer EXCEPT ![t] = new]
                  /\ trainer[t].at = "idle" /\ new.at = "fitted" /\ new.model # Promoting!NoModel
                  /\ new.model.id = exports + 1 /\ exports' = exports + 1 /\ UNCHANGED <<onnx, report>>
                  /\ overlapped' = (overlapped \/ \E u \in Trainers \ {t} : trainer[u].at # "idle")
    <3>0. PICK spec \in Promoting!Specs :
            /\ Promoting!InputWidth(spec) \in 1 .. MaxInputWidth
            /\ trainer' = [trainer EXCEPT ![t] = [at |-> "fitted", named |-> Promoting!NoModel,
                   model |-> Promoting!NormalizedLogisticModel(exports + 1, Promoting!InputWidth(spec))]]
      BY <2>1 DEF Promoting!TrainBegins
    <3>. DEFINE model == Promoting!NormalizedLogisticModel(exports + 1, Promoting!InputWidth(spec))
                new == [at |-> "fitted", named |-> Promoting!NoModel, model |-> model]
    <3>1. /\ trainer' = [trainer EXCEPT ![t] = new] /\ trainer[t].at = "idle"
          /\ Promoting!InputWidth(spec) \in 1 .. MaxInputWidth /\ exports' = exports + 1 /\ UNCHANGED <<onnx, report>>
          /\ overlapped' = (overlapped \/ \E u \in Trainers \ {t} : trainer[u].at # "idle")
      BY <2>1, <3>0 DEF Promoting!TrainBegins, Promoting!folder
    <3>2. Promoting!InputWidth(spec) \in Nat \ {0}
      BY <3>1
    <3>3. model \in Models /\ model.id = exports + 1 /\ model # Promoting!NoModel
      <4>. HIDE DEF Promoting!InputWidth
      <4>1. model = [id |-> exports + 1, width |-> Promoting!InputWidth(spec)]
        BY DEF Promoting!NormalizedLogisticModel
      <4>. QED BY <1>4, <3>2, <4>1 DEF Models, Promoting!NoModel
    <3>. HIDE DEF model
    <3>4. new \in TrainerRecords /\ new.at = "fitted" /\ new.model = model
      BY <3>3, PromotingNames DEF TrainerRecords
    <3>. HIDE DEF new
    <3>. QED BY <3>1, <3>3, <3>4
  <2>2. ASSUME Promoting!Export(t)
        PROVE  \E new \in TrainerRecords :
                  /\ trainer' = [trainer EXCEPT ![t] = new]
                  /\ trainer[t].at = "fitted" /\ new.at = "exported" /\ onnx' = trainer[t].model
                  /\ UNCHANGED <<report, exports, overlapped>>
    <3>. DEFINE new == [Promoting!Resting EXCEPT !.at = "exported"]
    <3>1. new \in TrainerRecords /\ new.at = "exported"
      BY PromotingNames DEF Promoting!Resting, TrainerRecords
    <3>2. trainer' = [trainer EXCEPT ![t] = new]
      BY <2>2 DEF Promoting!Export
    <3>. HIDE DEF new
    <3>. QED BY <2>2, <3>1, <3>2 DEF Promoting!Export, Promoting!SaveOnnxAtomic, Promoting!counts, Promoting!history
  <2>3. ASSUME Promoting!DigestModel(t)
        PROVE  \E new \in TrainerRecords :
                  /\ trainer' = [trainer EXCEPT ![t] = new]
                  /\ trainer[t].at = "exported" /\ new.at = "digested" /\ new.named = onnx
                  /\ UNCHANGED <<onnx, report, exports, overlapped>>
    <3>. DEFINE old == trainer[t]
                new == [old EXCEPT !.at = "digested", !.named = onnx]
    <3>1. old \in TrainerRecords
      BY DEF FolderTyped
    <3>2. trainer' = [trainer EXCEPT ![t] = new] /\ old.at = "exported" /\ UNCHANGED <<onnx, report, exports, overlapped>>
      BY <2>3, <3>1 DEF Promoting!DigestModel, FolderTyped, Promoting!counts, Promoting!history
    <3>. HIDE DEF old
    <3>3. new \in TrainerRecords /\ new.at = "digested" /\ new.named = onnx
      BY <1>4, <3>1 DEF TrainerRecords
    <3>. HIDE DEF new
    <3>. QED BY <3>2, <3>3 DEF old
  <2>4. ASSUME Promoting!WriteReport(t)
        PROVE  /\ trainer' = [trainer EXCEPT ![t] = Promoting!Resting]
               /\ trainer[t].at = "digested" /\ report' = trainer[t].named
               /\ UNCHANGED <<onnx, exports, overlapped>>
    BY <2>4 DEF Promoting!WriteReport, Promoting!counts, Promoting!history
  <2>5. ASSUME Promoting!TrainEnds(t)
        PROVE  /\ trainer' = [trainer EXCEPT ![t] = Promoting!Resting]
               /\ trainer[t].at # "idle" /\ UNCHANGED <<onnx, report, exports, overlapped>>
    BY <2>5 DEF Promoting!TrainEnds, Promoting!counts, Promoting!history
  <2>6. CASE Promoting!TrainBegins(t)
    BY <2>1, <2>6
  <2>7. CASE Promoting!Export(t)
    BY <2>2, <2>7
  <2>8. CASE Promoting!DigestModel(t)
    BY <2>3, <2>8
  <2>9. CASE Promoting!WriteReport(t)
    BY <1>3, <2>4, <2>9
  <2>10. CASE Promoting!TrainEnds(t)
    BY <1>3, <2>5, <2>10
  <2>. QED BY <2>6, <2>7, <2>8, <2>9, <2>10
<1>6. /\ trainer' \in [Trainers -> TrainerRecords]
      /\ \A u \in Trainers : trainer'[u] = IF u = t THEN new ELSE trainer[u]
  BY <1>5 DEF FolderTyped
<1>. DEFINE old == trainer[t]
<1>7. /\ old \in TrainerRecords /\ old.model \in Models /\ old.named \in Models
      /\ old.model.id \in Nat /\ new.model.id \in Nat /\ new.model \in Models
  <2>1. old \in TrainerRecords /\ new \in TrainerRecords
    BY DEF FolderTyped
  <2>. HIDE DEF old
  <2>. QED BY <2>1, PromotingNames DEF TrainerRecords
<1>8. FolderTyped'
  BY <1>1, <1>4, <1>5, <1>6, <1>7 DEF FolderTyped
<1>9. FolderMoves
  BY <1>4, <1>5 DEF FolderMoves, TrainersInOrder
<1>10. TrainersInOrder'
  <2>1. onnx'.id <= exports'
    BY <1>4, <1>5 DEF TrainersInOrder
  <2>2. \A u \in Trainers : trainer'[u].at = "fitted" =>
            trainer'[u].model # Promoting!NoModel /\ trainer'[u].model.id <= exports'
    <3>1. \A u \in Trainers : trainer[u].at = "fitted" =>
              trainer[u].model # Promoting!NoModel /\ trainer[u].model.id <= exports /\ trainer[u].model.id \in Nat
      BY PromotingNames DEF TrainersInOrder, FolderTyped, TrainerRecords
    <3>2. exports' \in Nat /\ exports <= exports' /\ (new.at = "fitted" => new.model # Promoting!NoModel /\ new.model.id <= exports')
      BY <1>4, <1>5
    <3>. QED BY <1>4, <1>6, <3>1, <3>2
  <2>3. ASSUME ~overlapped'
        PROVE  /\ \A u, v \in Trainers : trainer'[u].at # "idle" /\ trainer'[v].at # "idle" => u = v
               /\ \A u \in Trainers : trainer'[u].at = "fitted" => onnx'.id < trainer'[u].model.id
               /\ \A u \in Trainers : trainer'[u].at = "digested" => trainer'[u].named = onnx'
               /\ report'.id <= onnx'.id
    <3>1. /\ ~overlapped
          /\ \A u, v \in Trainers : trainer[u].at # "idle" /\ trainer[v].at # "idle" => u = v
          /\ old.at = "fitted" => onnx.id < old.model.id
          /\ old.at = "digested" => old.named = onnx
          /\ report.id <= onnx.id /\ onnx.id <= exports
      BY <1>9, <2>3 DEF FolderMoves, TrainersInOrder
    <3>2. \A u \in Trainers : u # t => trainer[u].at = "idle"
      <4>1. CASE old.at = "idle"
        BY <1>5, <2>3, <4>1
      <4>2. CASE old.at # "idle"
        BY <3>1, <4>2
      <4>. QED BY <4>1, <4>2
    <3>3. \A u \in Trainers : trainer'[u].at # "idle" => u = t
      BY <1>6, <3>2
    <3>4. /\ new.at = "fitted" => onnx'.id < new.model.id
          /\ new.at = "digested" => new.named = onnx'
          /\ report'.id <= onnx'.id
      BY <1>4, <1>5, <1>7, <3>1
    <3>. QED BY <1>6, <3>3, <3>4
  <2>. QED BY <2>1, <2>2, <2>3 DEF TrainersInOrder
<1>11. JobsProven' /\ BindingProven'
  BY <1>1, <1>2, <1>8, <1>9, JobsKept, BindingKept
<1>. QED BY <1>8, <1>10, <1>11

-----------------------------------------------------------------------------
(* What a step that leaves the folder alone has to show.                     *)

LEMMA FolderStill ==
    ASSUME PromotionInv, UNCHANGED <<recipe, onnx, report, trainer, overlapped, exports>>
    PROVE  FolderMoves /\ TrainersInOrder'
BY DEF PromotionInv, FolderMoves, TrainersInOrder

LEMMA PromotionKept ==
    ASSUME PromotionInv, UNCHANGED <<recipe, onnx, report, trainer, overlapped, exports, binding>>,
           FolderTyped', FilesMove, NEW p \in Promoters, NEW new, promo' = [promo EXCEPT ![p] = new],
           JobTyped(new), JobCompared(new)', JobAlone(new)'
    PROVE  PromotionInv'
<1>1. FolderMoves /\ TrainersInOrder' /\ recipe' = recipe
  BY FolderStill
<1>2. FolderTyped /\ JobsProven /\ BindingProven
  BY DEF PromotionInv
<1>3. JobsProven'
  BY <1>1, <1>2, JobKept
<1>4. BindingProven'
  BY <1>1, <1>2, BindingKept
<1>. QED BY <1>1, <1>3, <1>4 DEF PromotionInv

(* A step that changes the promotion alone.                                  *)
LEMMA StepKept ==
    ASSUME PromotionInv,
           UNCHANGED <<recipe, onnx, report, trainer, build, artifacts, binding, overlapped, reverted, exports>>,
           NEW p \in Promoters, NEW new, promo' = [promo EXCEPT ![p] = new],
           JobTyped(new), JobCompared(new), JobAlone(new)
    PROVE  PromotionInv'
<1>1. FolderTyped' /\ FolderTyped
  BY DEF PromotionInv, FolderTyped
<1>2. FilesMove
  <2>1. \A l \in Lanes : build[l].weights \in Nat
    BY <1>1 DEF FolderTyped, Natives
  <2>. QED BY <2>1 DEF FilesMove
<1>3. JobCompared(new)'
  BY DEF JobCompared, Compared, Proven
<1>4. JobAlone(new)'
  BY DEF JobAlone, Proven
<1>. QED BY <1>1, <1>2, <1>3, <1>4, PromotionKept

LEMMA FailsKept ==
    ASSUME PromotionInv, NEW p \in Promoters, Promoting!Fails(p)
    PROVE  PromotionInv'
<1>1. PICK undone : artifacts' = [e \in DOMAIN artifacts |-> IF e \in undone THEN Promoting!NoNative ELSE artifacts[e]]
  BY DEF Promoting!Fails
<1>2. /\ promo' = [promo EXCEPT ![p] = Promoting!Finished]
      /\ UNCHANGED <<recipe, onnx, report, trainer, build, binding, overlapped, reverted, exports>>
  BY DEF Promoting!Fails, Promoting!Advance, Promoting!folder, Promoting!counts, Promoting!history
<1>3. FolderTyped
  BY DEF PromotionInv
<1>4. artifacts \in [Lanes \X Versions -> Natives]
  BY <1>3 DEF FolderTyped
<1>5. /\ artifacts' \in [Lanes \X Versions -> Natives]
      /\ \A e \in Lanes \X Versions : artifacts'[e] \in {artifacts[e], Promoting!NoNative}
  BY <1>1, <1>4, PromotingNames
<1>6. FolderTyped'
  BY <1>2, <1>3, <1>5 DEF FolderTyped
<1>7. FilesMove
  <2>1. \A l \in Lanes : build[l].weights \in Nat
    BY <1>3 DEF FolderTyped, Natives
  <2>. QED BY <1>2, <1>5, <2>1 DEF FilesMove
<1>8. PICK new : new = Promoting!Finished
  OBVIOUS
<1>9. JobTyped(new)
  BY <1>8, FinishedHeld
<1>10. new.at = "idle" /\ new.ready = <<>> /\ new.landed = 0
  BY <1>8 DEF Promoting!Finished
<1>11. JobCompared(new)' /\ JobAlone(new)'
  BY <1>10 DEF JobCompared, JobAlone, Compared, Proven
<1>. QED BY <1>2, <1>6, <1>7, <1>8, <1>9, <1>11, PromotionKept

-----------------------------------------------------------------------------
(* Compiled files.                                                           *)

LEMMA FilesWritten ==
    ASSUME FolderTyped, NEW lane \in Lanes, NEW source \in Models, NEW natives,
           natives \in Promoting!RunConverter(lane, source), build' = natives,
           reverted' = (reverted \/ Promoting!Reverts(natives)), UNCHANGED artifacts
    PROVE  build' \in [Lanes -> Natives] /\ reverted' \in BOOLEAN /\ FilesMove
<1>1. build \in [Lanes -> Natives] /\ Promoting!NativeOf(source) \in Natives
  BY PromotingNames DEF FolderTyped
<1>2. build' \in [Lanes -> Natives]
  BY <1>1 DEF Promoting!RunConverter
<1>3. \A l \in Lanes : build[l].weights \in Nat /\ build'[l].weights \in Nat
  BY <1>1, <1>2 DEF Natives
<1>4. ~reverted' => ~reverted /\ \A l \in Lanes : ~(build'[l].weights < build[l].weights)
  BY DEF Promoting!Reverts, Lanes
<1>5. \A l \in Lanes : ~(build'[l].weights < build[l].weights) => build[l].weights <= build'[l].weights
  BY <1>3
<1>6. reverted' \in BOOLEAN
  BY DEF FolderTyped
<1>. QED BY <1>2, <1>4, <1>5, <1>6 DEF FilesMove

LEMMA CommandKept ==
    ASSUME PromotionInv, NEW lane \in Lanes,
           Promoting!ConvertCommand(lane) \/ \E v \in Versions : Promoting!PrepareCommand(lane, v)
    PROVE  PromotionInv'
<1>1. UNCHANGED <<recipe, onnx, report, trainer, overlapped, exports, promo, binding>>
  BY DEF Promoting!ConvertCommand, Promoting!PrepareCommand, Promoting!folder, Promoting!history
<1>2. FolderTyped /\ JobsProven /\ BindingProven
  BY DEF PromotionInv
<1>3. FolderTyped' /\ FilesMove
  <2>1. CASE Promoting!ConvertCommand(lane)
    <3>1. PICK natives : /\ natives \in Promoting!RunConverter(lane, onnx) /\ build' = natives
                         /\ reverted' = (reverted \/ Promoting!Reverts(natives)) /\ UNCHANGED artifacts
      BY <2>1 DEF Promoting!ConvertCommand
    <3>2. onnx \in Models
      BY <1>2 DEF FolderTyped
    <3>3. build' \in [Lanes -> Natives] /\ reverted' \in BOOLEAN /\ FilesMove
      BY <1>2, <3>1, <3>2, FilesWritten
    <3>. QED BY <1>1, <1>2, <3>1, <3>3 DEF FolderTyped
  <2>2. CASE \E v \in Versions : Promoting!PrepareCommand(lane, v)
    <3>1. PICK v \in Versions : /\ artifacts' = [artifacts EXCEPT ![<<lane, v>>] = build[lane]]
                                /\ UNCHANGED <<build, reverted>>
      BY <2>2 DEF Promoting!PrepareCommand, Promoting!history
    <3>2. artifacts \in [Lanes \X Versions -> Natives] /\ build[lane] \in Natives
      BY <1>2 DEF FolderTyped
    <3>3. artifacts' \in [Lanes \X Versions -> Natives]
      BY <3>1, <3>2
    <3>4. \A e \in Lanes \X Versions : artifacts'[e] = artifacts[e] \/ (e = <<lane, v>> /\ artifacts'[e] = build[lane])
      BY <3>1, <3>2
    <3>5. \A e \in Lanes \X Versions : artifacts'[e] \in {artifacts[e], build[e[1]]}
      BY <3>4
    <3>6. \A l \in Lanes : build[l].weights \in Nat
      BY <1>2 DEF FolderTyped, Natives
    <3>7. FilesMove
      BY <3>1, <3>5, <3>6 DEF FilesMove
    <3>. QED BY <1>1, <1>2, <3>1, <3>3, <3>7 DEF FolderTyped
  <2>. QED BY <2>1, <2>2
<1>4. FolderMoves /\ TrainersInOrder'
  BY <1>1, FolderStill
<1>5. JobsProven' /\ BindingProven'
  BY <1>1, <1>2, <1>3, <1>4, JobsKept, BindingKept
<1>. QED BY <1>3, <1>4, <1>5 DEF PromotionInv

-----------------------------------------------------------------------------
(* The steps of a promotion.                                                 *)

(* The record a promotion steps from.                                        *)
LEMMA JobHeld ==
    ASSUME PromotionInv, NEW p \in Promoters, NEW j, j = promo[p]
    PROVE  JobTyped(j) /\ JobCompared(j) /\ JobAlone(j) /\ j \in PromotionRecords
BY DEF PromotionInv, JobsProven, JobTyped

LEMMA LoadKept ==
    ASSUME PromotionInv, NEW p \in Promoters, Promoting!LoadDocument(p)
    PROVE  PromotionInv'
<1>. DEFINE new == [Promoting!Finished EXCEPT !.at = "document", !.doc = report]
<1>1. /\ UNCHANGED <<recipe, onnx, report, trainer, build, artifacts, binding, overlapped, reverted, exports>>
      /\ promo' = [promo EXCEPT ![p] = new] /\ report # Promoting!NoModel
  BY DEF Promoting!LoadDocument, Promoting!Advance, Promoting!folder, Promoting!history
<1>2. report \in Models /\ FolderTyped /\ TrainersInOrder
  BY DEF PromotionInv, FolderTyped
<1>3. /\ new.at = "document" /\ new.doc = report /\ new.ready = <<>> /\ new.landed = 0 /\ new.version = 0
      /\ new.reported = Promoting!NoModel
  BY DEF Promoting!Finished
<1>4. new \in PromotionRecords
  <2>1. Promoting!Finished \in PromotionRecords
    BY FinishedHeld DEF JobTyped
  <2>. QED BY <1>2, <2>1 DEF PromotionRecords
<1>. HIDE DEF new
<1>5. JobTyped(new)
  BY <1>1, <1>3, <1>4 DEF JobTyped
<1>6. JobCompared(new)
  BY <1>3 DEF JobCompared, Compared, Proven
<1>7. JobAlone(new)
  BY <1>2, <1>3 DEF JobAlone, Proven, TrainersInOrder
<1>. QED BY <1>1, <1>5, <1>6, <1>7, StepKept

LEMMA IdentityKept ==
    ASSUME PromotionInv, NEW p \in Promoters, Promoting!PortableModelIdentity(p)
    PROVE  PromotionInv'
<1>1. CASE Promoting!Fails(p)
  BY <1>1, FailsKept
<1>2. CASE ~Promoting!Fails(p)
  <2>1. PICK j : j = promo[p]
    OBVIOUS
  <2>. DEFINE new == [j EXCEPT !.at = "identified"]
  <2>2. /\ UNCHANGED <<recipe, onnx, report, trainer, build, artifacts, binding, overlapped, reverted, exports>>
        /\ promo' = [promo EXCEPT ![p] = new] /\ j.at = "document"
    BY <1>2, <2>1 DEF Promoting!PortableModelIdentity, Promoting!Advance, Promoting!folder, Promoting!counts,
                      Promoting!history, Promoting!Job
  <2>3. JobTyped(j) /\ JobCompared(j) /\ JobAlone(j) /\ j \in PromotionRecords
    BY <2>1, JobHeld
  <2>4. /\ new \in PromotionRecords /\ new.at = "identified" /\ new.doc = j.doc /\ new.ready = j.ready
        /\ new.landed = j.landed /\ new.version = j.version /\ new.reported = j.reported
    BY <2>3 DEF PromotionRecords
  <2>. HIDE DEF new
  <2>5. JobTyped(new)
    BY <2>2, <2>3, <2>4 DEF JobTyped
  <2>6. JobCompared(new) /\ JobAlone(new)
    BY <2>2, <2>3, <2>4 DEF JobCompared, JobAlone, Compared, Proven
  <2>. QED BY <2>2, <2>5, <2>6, StepKept
<1>. QED BY <1>1, <1>2

LEMMA DigestKept ==
    ASSUME Promoting!OrderAssumption, PromotionInv, NEW p \in Promoters, Promoting!DigestReport(p)
    PROVE  PromotionInv'
<1>1. promo[p].at = "identified"
  BY DEF Promoting!DigestReport, Promoting!Job
<1>2. PICK chosen \in Promoting!Selections, v \in Versions :
        IF chosen # {} /\ Promoting!NumericContractOK(chosen)
        THEN /\ Promoting!Advance(p, [promo[p] EXCEPT !.at = "compile", !.reported = report, !.version = v,
                                                     !.todo = Promoting!ValidatedTargets(chosen)])
             /\ UNCHANGED <<recipe, Promoting!folder, trainer, build, artifacts, binding, Promoting!counts>>
        ELSE Promoting!Fails(p)
  BY DEF Promoting!DigestReport, Promoting!Job
<1>3. CASE Promoting!Fails(p)
  BY <1>3, FailsKept
<1>4. CASE ~Promoting!Fails(p)
  <2>1. PICK j, todo, digest : j = promo[p] /\ todo = Promoting!ValidatedTargets(chosen) /\ digest = report
    OBVIOUS
  <2>. DEFINE new == [j EXCEPT !.at = "compile", !.reported = digest, !.version = v, !.todo = todo]
  <2>2. /\ UNCHANGED <<recipe, onnx, report, trainer, build, artifacts, binding, overlapped, reverted, exports>>
        /\ promo' = [promo EXCEPT ![p] = new] /\ j.at = "identified" /\ chosen # {}
    BY <1>1, <1>2, <1>4, <2>1 DEF Promoting!Advance, Promoting!folder, Promoting!counts, Promoting!history
  <2>3. todo \in Seq(Lanes) /\ todo # <<>>
    BY <2>1, <2>2 DEF Promoting!OrderAssumption, Lanes
  <2>4. JobTyped(j) /\ JobCompared(j) /\ JobAlone(j) /\ j \in PromotionRecords /\ digest \in Models
    BY <2>1, JobHeld DEF PromotionInv, FolderTyped
  <2>5. /\ new \in PromotionRecords /\ new.at = "compile" /\ new.doc = j.doc /\ new.ready = j.ready
        /\ new.landed = j.landed /\ new.version = v /\ new.reported = report /\ new.todo = todo
    BY <2>1, <2>3, <2>4 DEF PromotionRecords
  <2>. HIDE DEF new
  <2>6. JobTyped(new)
    BY <2>2, <2>3, <2>4, <2>5 DEF JobTyped
  <2>7. j.ready = <<>> /\ j.landed \in Nat /\ j.landed <= 0
    BY <2>2, <2>4 DEF JobTyped, PromotionRecords
  <2>8. JobCompared(new)
    BY <2>5, <2>7 DEF JobCompared, Compared, Proven
  <2>9. JobAlone(new)
    BY <2>2, <2>4, <2>5, <2>7 DEF JobAlone, Proven
  <2>. QED BY <2>2, <2>6, <2>8, <2>9, StepKept
<1>. QED BY <1>3, <1>4

LEMMA CompileBeginsKept ==
    ASSUME PromotionInv, NEW p \in Promoters, Promoting!CompileBegins(p)
    PROVE  PromotionInv'
<1>1. CASE Promoting!Fails(p)
  BY <1>1, FailsKept
<1>2. CASE ~Promoting!Fails(p)
  <2>1. PICK j, source : j = promo[p] /\ source = onnx
    OBVIOUS
  <2>. DEFINE new == [j EXCEPT !.at = "compiling", !.source = source]
  <2>2. /\ UNCHANGED <<recipe, onnx, report, trainer, build, artifacts, binding, overlapped, reverted, exports>>
        /\ promo' = [promo EXCEPT ![p] = new] /\ j.at = "compile"
    BY <1>2, <2>1 DEF Promoting!CompileBegins, Promoting!Advance, Promoting!folder, Promoting!counts,
                      Promoting!history, Promoting!Job
  <2>3. JobTyped(j) /\ JobCompared(j) /\ JobAlone(j) /\ j \in PromotionRecords /\ source \in Models
    BY <2>1, JobHeld DEF PromotionInv, FolderTyped
  <2>4. /\ new \in PromotionRecords /\ new.at = "compiling" /\ new.doc = j.doc /\ new.ready = j.ready
        /\ new.landed = j.landed /\ new.version = j.version /\ new.reported = j.reported /\ new.todo = j.todo
    BY <2>3 DEF PromotionRecords
  <2>. HIDE DEF new
  <2>5. JobTyped(new)
    BY <2>2, <2>3, <2>4 DEF JobTyped
  <2>6. JobCompared(new) /\ JobAlone(new)
    BY <2>2, <2>3, <2>4 DEF JobCompared, JobAlone, Compared, Proven
  <2>. QED BY <2>2, <2>5, <2>6, StepKept
<1>. QED BY <1>1, <1>2

LEMMA CompileKept ==
    ASSUME PromotionInv, NEW p \in Promoters, Promoting!Compile(p)
    PROVE  PromotionInv'
<1>1. PICK j : j = promo[p]
  OBVIOUS
<1>. DEFINE new == [j EXCEPT !.at = "prepare", !.source = Promoting!NoModel]
<1>2. /\ UNCHANGED <<recipe, onnx, report, trainer, artifacts, binding, overlapped, exports>>
      /\ promo' = [promo EXCEPT ![p] = new] /\ j.at = "compiling"
  BY <1>1 DEF Promoting!Compile, Promoting!Advance, Promoting!folder, Promoting!Job
<1>3. PICK natives : /\ natives \in Promoting!RunConverter(Head(j.todo), j.source) /\ build' = natives
                     /\ reverted' = (reverted \/ Promoting!Reverts(natives))
  BY <1>1 DEF Promoting!Compile, Promoting!Job, Promoting!Lane
<1>4. JobTyped(j) /\ JobCompared(j) /\ JobAlone(j) /\ j \in PromotionRecords /\ FolderTyped
  BY <1>1, JobHeld DEF PromotionInv
<1>5. j.todo \in Seq(Lanes) /\ j.todo # <<>> /\ j.source \in Models
  BY <1>2, <1>4 DEF JobTyped, PromotionRecords
<1>6. Head(j.todo) \in Lanes
  BY <1>5
<1>7. build' \in [Lanes -> Natives] /\ reverted' \in BOOLEAN /\ FilesMove
  BY <1>2, <1>3, <1>4, <1>5, <1>6, FilesWritten
<1>8. FolderTyped'
  BY <1>2, <1>4, <1>7 DEF FolderTyped
<1>9. FolderMoves /\ recipe' = recipe
  BY <1>2, FolderStill
<1>10. JobCompared(j)' /\ JobAlone(j)'
  BY <1>4, <1>7, <1>8, <1>9, JobMoves
<1>11. /\ new \in PromotionRecords /\ new.at = "prepare" /\ new.doc = j.doc /\ new.ready = j.ready
       /\ new.landed = j.landed /\ new.version = j.version /\ new.reported = j.reported /\ new.todo = j.todo
  BY <1>4, PromotingNames DEF PromotionRecords
<1>. HIDE DEF new
<1>12. PICK n : n = new
  OBVIOUS
<1>13. /\ n \in PromotionRecords /\ n.at = "prepare" /\ n.doc = j.doc /\ n.ready = j.ready
       /\ n.landed = j.landed /\ n.version = j.version /\ n.reported = j.reported /\ n.todo = j.todo
  BY <1>11, <1>12
<1>14. JobTyped(n)
  BY <1>2, <1>4, <1>13 DEF JobTyped
<1>15. JobCompared(n)' /\ JobAlone(n)'
  BY <1>2, <1>10, <1>13 DEF JobCompared, JobAlone, Compared, Proven
<1>. QED BY <1>2, <1>7, <1>8, <1>12, <1>14, <1>15, PromotionKept

LEMMA PrepareKept ==
    ASSUME PromotionInv, NEW p \in Promoters, Promoting!PrepareArtifact(p)
    PROVE  PromotionInv'
<1>1. PICK j, entry : j = promo[p] /\ entry = [lane |-> Head(j.todo), native |-> build[Head(j.todo)]]
  OBVIOUS
<1>2. /\ UNCHANGED <<recipe, onnx, report, trainer, build, artifacts, binding, overlapped, reverted, exports>>
      /\ j.at = "prepare"
  BY <1>1 DEF Promoting!PrepareArtifact, Promoting!folder, Promoting!counts, Promoting!history, Promoting!Job
<1>3. JobTyped(j) /\ JobCompared(j) /\ JobAlone(j) /\ j \in PromotionRecords /\ FolderTyped
  BY <1>1, JobHeld DEF PromotionInv
<1>4. /\ j.todo \in Seq(Lanes) /\ j.todo # <<>> /\ j.ready \in Seq(LaneNatives) /\ j.version \in Versions
      /\ j.doc # Promoting!NoModel /\ j.landed \in Nat /\ ~(j.landed > 0)
  BY <1>2, <1>3 DEF JobTyped, PromotionRecords
<1>5. Head(j.todo) \in Lanes /\ Tail(j.todo) \in Seq(Lanes)
  BY <1>4
<1>6. build[Head(j.todo)] \in Natives /\ build[Head(j.todo)].weights \in Nat
  BY <1>3, <1>5 DEF FolderTyped, Natives
<1>7. entry \in LaneNatives /\ entry.lane = Head(j.todo) /\ entry.native = build[Head(j.todo)]
  BY <1>1, <1>5, <1>6 DEF LaneNatives
<1>8. PICK ready, rest : ready = Append(j.ready, entry) /\ rest = Tail(j.todo)
  OBVIOUS
<1>9. /\ ready \in Seq(LaneNatives) /\ ready # <<>> /\ Len(ready) = Len(j.ready) + 1 /\ rest \in Seq(Lanes)
      /\ ready[Len(ready)] = entry /\ Len(j.ready) \in Nat
  BY <1>4, <1>5, <1>7, <1>8
<1>10. \A k \in 1 .. Len(j.ready) : ready[k] = j.ready[k]
  BY <1>4, <1>7, <1>8
<1>11. CASE recipe = "forecast"
  <2>. DEFINE at == IF rest = <<>> THEN "install" ELSE "compile"
              new == [j EXCEPT !.at = at, !.todo = rest, !.ready = ready]
  <2>1. promo' = [promo EXCEPT ![p] = new]
    BY <1>1, <1>8, <1>11 DEF Promoting!PrepareArtifact, Promoting!Advance, Promoting!Prepared, Promoting!Job,
                             Promoting!Lane
  <2>2. at \in {"install", "compile"} /\ (at = "compile" => rest # <<>>)
    OBVIOUS
  <2>. HIDE DEF at
  <2>3. /\ new \in PromotionRecords /\ new.at = at /\ new.doc = j.doc /\ new.ready = ready
        /\ new.landed = j.landed /\ new.version = j.version /\ new.reported = j.reported /\ new.todo = rest
    BY <1>3, <1>9, <2>2 DEF PromotionRecords
  <2>. HIDE DEF new
  <2>4. JobTyped(new)
    <3>1. new.landed <= Len(new.ready) /\ ~(new.landed > 0)
      BY <1>4, <1>9, <2>3
    <3>. QED BY <1>4, <1>9, <2>2, <2>3, <3>1 DEF JobTyped
  <2>5. JobCompared(new)
    BY <1>11 DEF JobCompared
  <2>6. JobAlone(new)
    BY <1>2, <1>3, <1>11, <2>2, <2>3 DEF JobAlone
  <2>. QED BY <1>2, <2>1, <2>4, <2>5, <2>6, StepKept
<1>12. CASE recipe # "forecast"
  <2>. DEFINE new == [j EXCEPT !.at = "verify", !.ready = ready]
  <2>1. promo' = [promo EXCEPT ![p] = new]
    BY <1>1, <1>8, <1>12 DEF Promoting!PrepareArtifact, Promoting!Advance, Promoting!Job, Promoting!Lane
  <2>2. /\ new \in PromotionRecords /\ new.at = "verify" /\ new.doc = j.doc /\ new.ready = ready
        /\ new.landed = j.landed /\ new.version = j.version /\ new.reported = j.reported /\ new.todo = j.todo
    BY <1>3, <1>9 DEF PromotionRecords
  <2>. HIDE DEF new
  <2>3. JobTyped(new)
    <3>1. new.landed <= Len(new.ready) /\ ~(new.landed > 0)
      BY <1>4, <1>9, <2>2
    <3>. QED BY <1>4, <1>9, <2>2, <3>1 DEF JobTyped
  <2>4. Proven(new) = Len(j.ready) /\ Proven(j) = Len(j.ready)
    BY <1>2, <1>9, <2>2 DEF Proven
  <2>5. JobCompared(new)
    <3>1. recipe = "numeric" => Compared(j.doc, j.version, j.ready, Len(j.ready), j.landed)
      BY <1>3, <2>4 DEF JobCompared
    <3>2. recipe = "numeric" => Compared(j.doc, j.version, ready, Len(j.ready), j.landed)
      <4>1. \A k \in 1 .. j.landed : FALSE
        BY <1>4
      <4>. QED BY <1>10, <3>1, <4>1 DEF Compared
    <3>3. recipe = "numeric" => Compared(new.doc, new.version, new.ready, Proven(new), new.landed)
      BY <2>2, <2>4, <3>2
    <3>4. /\ new.ready[Len(new.ready)].lane = Head(new.todo)
          /\ new.ready[Len(new.ready)].native.weights <= build[Head(new.todo)].weights
      BY <1>6, <1>7, <1>9, <2>2
    <3>. QED BY <3>3, <3>4 DEF JobCompared
  <2>6. JobAlone(new)
    BY <1>2, <1>3, <2>2, <2>4 DEF JobAlone
  <2>. QED BY <1>2, <2>1, <2>3, <2>5, <2>6, StepKept
<1>. QED BY <1>11, <1>12

LEMMA VerifyKept ==
    ASSUME PromotionInv, NEW p \in Promoters, Promoting!Verify(p)
    PROVE  PromotionInv'
<1>1. CASE Promoting!Fails(p)
  BY <1>1, FailsKept
<1>2. CASE ~Promoting!Fails(p)
  <2>1. PICK j, rest, lane, last : /\ j = promo[p] /\ rest = Tail(j.todo) /\ lane = Head(j.todo)
                                   /\ last = j.ready[Len(j.ready)]
    OBVIOUS
  <2>. DEFINE at == IF Len(j.todo) = 1 THEN "install" ELSE "compile"
              new == [j EXCEPT !.at = at, !.todo = rest]
  <2>2. /\ UNCHANGED <<recipe, onnx, report, trainer, build, artifacts, binding, overlapped, reverted, exports>>
        /\ promo' = [promo EXCEPT ![p] = new] /\ j.at = "verify"
        /\ Promoting!ValidateParity(p, Promoting!Evidence(lane))
    BY <1>2, <2>1 DEF Promoting!Verify, Promoting!Advance, Promoting!folder, Promoting!counts,
                      Promoting!history, Promoting!Job, Promoting!Lane
  <2>3. build[lane] = Promoting!NativeOf(onnx) /\ onnx = j.doc /\ build[lane].graph = last.native.graph
    BY <2>1, <2>2 DEF Promoting!ValidateParity, Promoting!Evidence, Promoting!Job
  <2>4. JobTyped(j) /\ JobCompared(j) /\ JobAlone(j) /\ j \in PromotionRecords
    BY <2>1, JobHeld
  <2>5. /\ j.todo \in Seq(Lanes) /\ j.todo # <<>> /\ j.ready \in Seq(LaneNatives) /\ j.ready # <<>>
        /\ j.version \in Versions /\ j.doc # Promoting!NoModel /\ j.landed \in Nat /\ ~(j.landed > 0)
        /\ j.doc \in Models
    BY <2>2, <2>4 DEF JobTyped, PromotionRecords
  <2>6. rest \in Seq(Lanes) /\ (Len(j.todo) # 1 => rest # <<>>)
    <3>1. rest \in Seq(Lanes) /\ Len(rest) = Len(j.todo) - 1 /\ Len(j.todo) \in Nat
      BY <2>1, <2>5
    <3>2. rest = <<>> => Len(rest) = 0
      OBVIOUS
    <3>. QED BY <3>1, <3>2
  <2>7. at \in {"install", "compile"} /\ (at = "compile" => rest # <<>>)
    BY <2>6
  <2>. HIDE DEF at
  <2>8. /\ new \in PromotionRecords /\ new.at = at /\ new.doc = j.doc /\ new.ready = j.ready
        /\ new.landed = j.landed /\ new.version = j.version /\ new.reported = j.reported /\ new.todo = rest
    BY <2>4, <2>6, <2>7 DEF PromotionRecords
  <2>. HIDE DEF new
  <2>9. JobTyped(new)
    <3>1. new.landed <= Len(new.ready) /\ ~(new.landed > 0)
      BY <2>5, <2>8
    <3>. QED BY <2>5, <2>7, <2>8, <3>1 DEF JobTyped
  <2>10. Proven(new) = Len(j.ready) /\ Proven(j) = Len(j.ready) - 1
    BY <2>2, <2>7, <2>8 DEF Proven
  <2>11. JobCompared(new)
    <3>. SUFFICES ASSUME recipe = "numeric" PROVE JobCompared(new)
      BY DEF JobCompared
    <3>1. /\ Compared(j.doc, j.version, j.ready, Len(j.ready) - 1, j.landed)
          /\ last.lane = lane /\ (~reverted => last.native.weights <= build[lane].weights)
      BY <2>1, <2>2, <2>4, <2>10 DEF JobCompared
    <3>2. build[lane].graph = j.doc.width /\ build[lane].weights = j.doc.id
      BY <2>3, <2>5, PromotingNames
    <3>3. j.doc.id \in Nat
      BY <2>5, PromotingNames
    <3>4. /\ last.native.graph = j.doc.width
          /\ ~reverted => /\ last.native.weights <= j.doc.id
                          /\ j.doc.id <= build[last.lane].weights
      BY <2>3, <3>1, <3>2, <3>3
    <3>5. \A k \in 1 .. Len(j.ready) : k \in 1 .. Len(j.ready) - 1 \/ k = Len(j.ready)
      BY <2>5
    <3>6. \A k \in 1 .. j.landed : FALSE
      BY <2>5
    <3>7. Compared(j.doc, j.version, j.ready, Len(j.ready), j.landed)
      BY <2>1, <3>1, <3>4, <3>5, <3>6 DEF Compared
    <3>. QED BY <2>7, <2>8, <2>10, <3>7 DEF JobCompared
  <2>12. JobAlone(new)
    BY <2>2, <2>3, <2>4, <2>7, <2>8 DEF JobAlone
  <2>. QED BY <2>2, <2>9, <2>11, <2>12, StepKept
<1>. QED BY <1>1, <1>2

LEMMA InstallKept ==
    ASSUME PromotionInv, NEW p \in Promoters, NEW trusted \in BOOLEAN, Promoting!Install(p, trusted)
    PROVE  PromotionInv'
<1>1. CASE Promoting!Fails(p)
  BY <1>1, FailsKept
<1>2. CASE ~Promoting!Fails(p)
  <2>1. PICK j, lane, v : j = promo[p] /\ lane = j.ready[j.landed + 1].lane /\ v = j.version
    OBVIOUS
  <2>. DEFINE further == j.landed + 1
              new == [j EXCEPT !.landed = further]
  <2>2. /\ UNCHANGED <<recipe, onnx, report, trainer, build, binding, overlapped, reverted, exports>>
        /\ promo' = [promo EXCEPT ![p] = new] /\ j.at = "install" /\ j.landed < Len(j.ready)
        /\ artifacts' = [artifacts EXCEPT ![<<lane, v>>] = build[lane]]
    BY <1>2, <2>1 DEF Promoting!Install, Promoting!Advance, Promoting!folder, Promoting!counts,
                      Promoting!history, Promoting!Job
  <2>3. JobTyped(j) /\ JobCompared(j) /\ JobAlone(j) /\ j \in PromotionRecords /\ FolderTyped
    BY <2>1, JobHeld DEF PromotionInv
  <2>4. /\ j.ready \in Seq(LaneNatives) /\ j.ready # <<>> /\ v \in Versions /\ j.landed \in Nat
        /\ j.doc # Promoting!NoModel /\ j.doc \in Models
    BY <2>1, <2>2, <2>3 DEF JobTyped, PromotionRecords
  <2>5. j.landed + 1 \in 1 .. Len(j.ready) /\ j.ready[j.landed + 1] \in LaneNatives
    BY <2>2, <2>4
  <2>6. lane \in Lanes
    BY <2>1, <2>5 DEF LaneNatives
  <2>7. artifacts \in [Lanes \X Versions -> Natives] /\ build[lane] \in Natives
    BY <2>3, <2>6 DEF FolderTyped
  <2>8. artifacts' \in [Lanes \X Versions -> Natives] /\ artifacts'[<<lane, v>>] = build[lane]
    BY <2>2, <2>4, <2>6, <2>7
  <2>9. \A e \in Lanes \X Versions : artifacts'[e] = artifacts[e] \/ (e = <<lane, v>> /\ artifacts'[e] = build[lane])
    BY <2>2, <2>7
  <2>10. \A e \in Lanes \X Versions : artifacts'[e] \in {artifacts[e], build[e[1]]}
    BY <2>9
  <2>11. FilesMove
    <3>1. \A l \in Lanes : build[l].weights \in Nat
      BY <2>3 DEF FolderTyped, Natives
    <3>. QED BY <2>2, <2>10, <3>1 DEF FilesMove
  <2>12. FolderTyped'
    BY <2>2, <2>3, <2>8 DEF FolderTyped
  <2>13. FolderMoves /\ recipe' = recipe
    BY <2>2, FolderStill
  <2>14. JobCompared(j)' /\ JobAlone(j)'
    BY <2>3, <2>11, <2>12, <2>13, JobMoves
  <2>15. /\ new \in PromotionRecords /\ new.at = "install" /\ new.doc = j.doc /\ new.ready = j.ready
         /\ new.landed = j.landed + 1 /\ new.version = v /\ new.reported = j.reported /\ new.todo = j.todo
    <3>1. further \in Nat
      BY <2>4
    <3>. HIDE DEF further
    <3>2. /\ new \in PromotionRecords /\ new.at = j.at /\ new.doc = j.doc /\ new.ready = j.ready
          /\ new.landed = further /\ new.version = j.version /\ new.reported = j.reported /\ new.todo = j.todo
      BY <2>3, <3>1 DEF PromotionRecords
    <3>. QED BY <2>1, <2>2, <3>2 DEF further
  <2>. HIDE DEF new
  <2>16. PICK n : n = new
    OBVIOUS
  <2>17. /\ n \in PromotionRecords /\ n.at = "install" /\ n.doc = j.doc /\ n.ready = j.ready
         /\ n.landed = j.landed + 1 /\ n.version = v /\ n.reported = j.reported /\ n.todo = j.todo
    BY <2>15, <2>16
  <2>18. JobTyped(n)
    <3>1. n.landed <= Len(n.ready)
      BY <2>5, <2>17
    <3>. QED BY <2>4, <2>17, <3>1 DEF JobTyped
  <2>19. Proven(n) = Len(j.ready) /\ Proven(j) = Len(j.ready)
    BY <2>2, <2>17 DEF Proven
  <2>20. JobCompared(n)'
    <3>. SUFFICES ASSUME recipe = "numeric" PROVE JobCompared(n)'
      BY <2>13 DEF JobCompared
    <3>1. PICK size, landed : size = Len(j.ready) /\ landed = j.landed
      OBVIOUS
    <3>2. Compared(j.doc, v, j.ready, size, landed)'
      BY <2>1, <2>13, <2>14, <2>19, <3>1 DEF JobCompared, Proven
    <3>3. \A k \in 1 .. landed + 1 : k \in 1 .. landed \/ k = landed + 1
      BY <2>4, <3>1
    <3>4. ~reverted' => j.doc.id <= artifacts'[<<lane, v>>].weights
      BY <2>1, <2>2, <2>5, <2>8, <3>1, <3>2 DEF Compared
    <3>5. Compared(j.doc, v, j.ready, size, landed + 1)'
      BY <2>1, <3>1, <3>2, <3>3, <3>4 DEF Compared
    <3>6. Proven(n) = size /\ n.landed = landed + 1
      BY <2>17, <2>19, <3>1
    <3>. QED BY <2>17, <3>5, <3>6 DEF JobCompared, Compared, Proven
  <2>21. JobAlone(n)'
    BY <2>2, <2>14, <2>17 DEF JobAlone, Proven
  <2>. QED BY <2>2, <2>11, <2>12, <2>16, <2>18, <2>20, <2>21, PromotionKept
<1>. QED BY <1>1, <1>2

LEMMA PublishKept ==
    ASSUME PromotionInv, NEW p \in Promoters, Promoting!PublishBinding(p)
    PROVE  PromotionInv'
<1>1. PICK j, new, n : j = promo[p] /\ new = Promoting!Finished /\ n = Len(j.ready)
  OBVIOUS
<1>2. /\ UNCHANGED <<recipe, onnx, report, trainer, build, artifacts, overlapped, reverted, exports>>
      /\ promo' = [promo EXCEPT ![p] = new] /\ j.at = "install" /\ j.landed = n
      /\ binding' = [model |-> j.doc, report |-> j.reported, version |-> j.version, variants |-> j.ready]
  BY <1>1 DEF Promoting!PublishBinding, Promoting!NumericModelFragment, Promoting!Advance, Promoting!folder,
              Promoting!counts, Promoting!history, Promoting!Job
<1>3. JobTyped(j) /\ JobCompared(j) /\ JobAlone(j) /\ j \in PromotionRecords /\ FolderTyped /\ JobsProven
  BY <1>1, JobHeld DEF PromotionInv
<1>4. /\ j.ready \in Seq(LaneNatives) /\ j.ready # <<>> /\ j.version \in Versions /\ j.doc # Promoting!NoModel
      /\ j.doc \in Models /\ j.reported \in Models
  BY <1>2, <1>3 DEF JobTyped, PromotionRecords
<1>5. /\ binding' \in Bindings /\ binding'.model = j.doc /\ binding'.report = j.reported
      /\ binding'.version = j.version /\ binding'.variants = j.ready
  BY <1>2, <1>4 DEF Bindings
<1>6. FolderTyped'
  BY <1>2, <1>3, <1>5 DEF FolderTyped
<1>7. FilesMove
  <2>1. \A l \in Lanes : build[l].weights \in Nat
    BY <1>3 DEF FolderTyped, Natives
  <2>. QED BY <1>2, <2>1 DEF FilesMove
<1>8. FolderMoves /\ TrainersInOrder' /\ recipe' = recipe
  BY <1>2, FolderStill
<1>9. JobTyped(new) /\ new.at = "idle" /\ new.ready = <<>> /\ new.landed = 0
  BY <1>1, FinishedHeld DEF Promoting!Finished
<1>10. JobCompared(new)' /\ JobAlone(new)'
  BY <1>9 DEF JobCompared, JobAlone, Compared, Proven
<1>11. JobsProven'
  BY <1>2, <1>3, <1>6, <1>7, <1>8, <1>9, <1>10, JobKept
<1>12. n \in Nat /\ n >= 1 /\ Proven(j) = n
  BY <1>1, <1>2, <1>4 DEF Proven
<1>13. recipe = "numeric" => Compared(j.doc, j.version, j.ready, n, n)
  BY <1>2, <1>3, <1>12 DEF JobCompared
<1>14. recipe = "numeric" /\ ~overlapped => j.reported = j.doc
  BY <1>2, <1>3, <1>12 DEF JobAlone
<1>15. recipe' = "numeric" =>
           Compared(binding.model, binding.version, binding.variants, Len(binding.variants), Len(binding.variants))'
  BY <1>1, <1>2, <1>5, <1>13 DEF Compared
<1>16. BindingProven'
  BY <1>2, <1>4, <1>5, <1>14, <1>15 DEF BindingProven
<1>. QED BY <1>6, <1>8, <1>11, <1>16 DEF PromotionInv

LEMMA KilledKept ==
    ASSUME PromotionInv, NEW p \in Promoters, Promoting!Killed(p)
    PROVE  PromotionInv'
<1>1. /\ UNCHANGED <<recipe, onnx, report, trainer, build, artifacts, binding, overlapped, reverted, exports>>
      /\ promo' = [promo EXCEPT ![p] = Promoting!Finished]
  BY DEF Promoting!Killed, Promoting!Advance, Promoting!folder, Promoting!counts, Promoting!history
<1>. QED BY <1>1, FinishedHeld, StepKept

-----------------------------------------------------------------------------

LEMMA PromotionStep ==
    ASSUME Promoting!OrderAssumption, PromotionInv, [Promoting!Next]_Promoting!promotionVars
    PROVE  PromotionInv'
<1>1. CASE UNCHANGED Promoting!promotionVars
  BY <1>1 DEF Promoting!promotionVars, PromotionInv, FolderTyped, TrainersInOrder, JobsProven, JobTyped,
              JobCompared, JobAlone, BindingProven, Compared, Proven
<1>2. CASE Promoting!Next
  <2>1. ASSUME NEW t \in Trainers,
               \/ Promoting!TrainBegins(t)
               \/ Promoting!Export(t) \/ Promoting!DigestModel(t) \/ Promoting!WriteReport(t)
               \/ Promoting!TrainEnds(t)
        PROVE  PromotionInv'
    BY <2>1, TrainerKept
  <2>2. ASSUME NEW l \in Promoting!Targets,
               Promoting!ConvertCommand(l) \/ \E v \in Versions : Promoting!PrepareCommand(l, v)
        PROVE  PromotionInv'
    BY <2>2, CommandKept DEF Lanes
  <2>3. ASSUME NEW p \in Promoters,
               \/ Promoting!LoadDocument(p) \/ Promoting!PortableModelIdentity(p)
               \/ Promoting!DigestReport(p)
               \/ Promoting!CompileBegins(p) \/ Promoting!Compile(p) \/ Promoting!CompileFails(p)
               \/ Promoting!PrepareArtifact(p) \/ Promoting!Verify(p)
               \/ \E trusted \in BOOLEAN : Promoting!Install(p, trusted)
               \/ Promoting!PublishBinding(p) \/ Promoting!PublishFails(p) \/ Promoting!Killed(p)
        PROVE  PromotionInv'
    <3>1. CASE Promoting!LoadDocument(p) \/ Promoting!PortableModelIdentity(p)
      BY <3>1, LoadKept, IdentityKept
    <3>2. CASE Promoting!DigestReport(p)
      BY <3>2, DigestKept
    <3>3. CASE Promoting!CompileBegins(p) \/ Promoting!Compile(p)
      BY <3>3, CompileBeginsKept, CompileKept
    <3>4. CASE Promoting!CompileFails(p) \/ Promoting!PublishFails(p)
      BY <3>4, FailsKept DEF Promoting!CompileFails, Promoting!PublishFails
    <3>5. CASE Promoting!PrepareArtifact(p) \/ Promoting!Verify(p)
      BY <3>5, PrepareKept, VerifyKept
    <3>6. CASE \E trusted \in BOOLEAN : Promoting!Install(p, trusted)
      BY <3>6, InstallKept
    <3>7. CASE Promoting!PublishBinding(p) \/ Promoting!Killed(p)
      BY <3>7, PublishKept, KilledKept
    <3>. QED BY <2>3, <3>1, <3>2, <3>3, <3>4, <3>5, <3>6, <3>7
  <2>. QED BY <1>2, <2>1, <2>2, <2>3 DEF Promoting!Next
<1>. QED BY <1>1, <1>2

LEMMA ProvenIsBound == PromotionInv => Promoting!BoundIsProven
<1>. SUFFICES ASSUME PromotionInv, recipe = "numeric"
              PROVE  /\ overlapped \/ binding.report = binding.model
                     /\ \A i \in DOMAIN binding.variants :
                          /\ binding.variants[i].native.graph = Promoting!NativeOf(binding.model).graph
                          /\ Promoting!Served(binding.variants[i]) =>
                                 reverted \/ binding.variants[i].native = Promoting!NativeOf(binding.model)
  BY DEF Promoting!BoundIsProven
<1>1. FolderTyped /\ BindingProven
  BY DEF PromotionInv
<1>2. PICK n \in Nat : n = Len(binding.variants) /\ DOMAIN binding.variants = 1 .. n
  BY <1>1 DEF FolderTyped, Bindings
<1>3. ASSUME NEW i \in DOMAIN binding.variants
      PROVE  /\ binding.variants[i].native.graph = Promoting!NativeOf(binding.model).graph
             /\ Promoting!Served(binding.variants[i]) =>
                    reverted \/ binding.variants[i].native = Promoting!NativeOf(binding.model)
  <2>1. PICK native, model, kept : /\ native = binding.variants[i].native /\ model = binding.model
                                   /\ kept = artifacts[<<binding.variants[i].lane, binding.version>>]
    OBVIOUS
  <2>2. i \in 1 .. n /\ binding.variants \in Seq(LaneNatives) /\ binding.variants # <<>> /\ model \in Models
    BY <1>1, <1>2, <2>1 DEF FolderTyped, Bindings
  <2>3. binding.variants[i] \in LaneNatives
    BY <1>2, <2>2
  <2>4. native \in Natives
    BY <2>1, <2>3 DEF LaneNatives
  <2>5. model # Promoting!NoModel
    BY <1>1, <2>1, <2>2 DEF BindingProven
  <2>6. /\ native.graph = model.width
        /\ ~reverted => native.weights <= model.id
        /\ ~reverted => kept = Promoting!NoNative \/ model.id <= kept.weights
    BY <1>1, <1>2, <2>1, <2>2 DEF BindingProven, Compared
  <2>7. model.width \in Nat /\ model.width > 0 /\ model.id \in Nat
    BY <2>2, <2>5, PromotingNames
  <2>8. Promoting!NativeOf(model) = [graph |-> model.width, weights |-> model.id]
    BY <2>2, PromotingNames
  <2>9. ASSUME kept = native, ~reverted PROVE native = Promoting!NativeOf(model)
    <3>1. kept # Promoting!NoNative
      BY <2>6, <2>7, <2>9, PromotingNames
    <3>2. native.weights \in Nat /\ native = [graph |-> native.graph, weights |-> native.weights]
      BY <2>4 DEF Natives
    <3>3. native.weights = model.id
      BY <2>6, <2>7, <2>9, <3>1, <3>2
    <3>. QED BY <2>6, <2>8, <3>2, <3>3
  <2>10. native.graph = Promoting!NativeOf(model).graph
    BY <2>6, <2>8
  <2>11. Promoting!Served(binding.variants[i]) => kept = native
    BY <2>1 DEF Promoting!Served
  <2>. QED BY <2>1, <2>9, <2>10, <2>11
<1>. QED BY <1>1, <1>3 DEF BindingProven

(* However trainers, promotions, conversions and installs interleave on the  *)
(* unlocked output folder, and wherever they are killed, a numeric profile   *)
(* is bound to natives of the model its report names, the report it pins is  *)
(* of that model unless two trainers wrote at once, and what is served was   *)
(* compiled from that model unless older files came back                     *)
(* (promote_numeric_training, _validate_parity).                             *)
THEOREM BindingsAreProven == Promoting!Spec => []BoundIsProven
<1>. USE PromotionAssumption
<1>1. Promoting!Init => PromotionInv
  BY PromotingStart
<1>2. PromotionInv /\ [Promoting!Next]_Promoting!promotionVars => PromotionInv'
  BY PromotionStep
<1>3. PromotionInv => Promoting!BoundIsProven
  BY ProvenIsBound
<1>. QED BY <1>1, <1>2, <1>3, PTL DEF Promoting!Spec, BoundIsProven

-----------------------------------------------------------------------------
(* Media transcription: the finally clause clears what a job sampled, and a  *)
(* result that succeeded is whole.                                           *)

(* A set of numbers that is not empty has a least one: what stands in for    *)
(* induction over positions.                                                 *)
LEMMA LeastExists ==
    ASSUME NEW T \in SUBSET Nat, T # {}
    PROVE  \E x \in T : \A y \in T : x <= y
<1>. DEFINE R == {ss \in Nat \X Nat : ss[1] < ss[2]}
<1>1. IsWellFoundedOn(R, Nat)
  BY NatLessThanWellFounded DEF OpToRel
<1>. HIDE DEF R
<1>2. PICK x \in T : \A y \in T : ~(<<y, x>> \in R)
  BY <1>1, WFMin
<1>3. ASSUME NEW y \in T PROVE x <= y
  <2>1. ~(y < x)
    BY <1>2 DEF R
  <2>. QED BY <2>1
<1>. QED BY <1>3

Spoken == [from : Nat, to : Nat]
Utterances == Seq(Spoken)
BeforeFrames == {"idle", "inspect", "speech", "visuals", "sampling"}
WithFrames == {"frames", "conclude", "discarding"}

(* Speech that follows one segment after another never overlaps.             *)
Ordered(s) == \A i, k \in DOMAIN s : i < k => s[i].to <= s[k].from

(* What _validated_media says of the slides and pages of what it accepted.   *)
PartsOfKind == (media.slides > 0 => media.modality = "presentation")
               /\ (media.pages > 0 => media.modality = "document")

(* Whose a frame file is that the running job does not hold.                 *)
GivenUp(j) == [job |-> j, of |-> "frames"] \in uncleared
Tended(j) == \E t \in mediaThreads : t.job = j /\ t.does \in {"sample", "discard"}

ScratchHeld ==
    \A f \in scratch :
        GivenUp(f.job) \/ Tended(f.job) \/ (mediaStage \in WithFrames /\ f \in Range(sampled))

ModelGivenUp == \E l \in uncleared : l.of = "model"
ModelHeld == vision = "held" => mediaStage # "idle" \/ ModelGivenUp

Whole ==
    /\ media.slides > 0 => Len(visuals) = media.slides
    /\ media.pages > 0 => Len(visuals) = media.pages
    /\ sampled # <<>> => Len(visuals) = Len(sampled)

MediaInv ==
    /\ mediaStage \in BeforeFrames \cup WithFrames \cup {"releasing"}
    /\ media.slides \in Nat /\ media.pages \in Nat /\ PartsOfKind
    /\ ScratchHeld /\ ModelHeld /\ \A f \in Range(sampled) : f.job = mediaJob
    /\ mediaStage \in BeforeFrames => sampled = <<>> /\ visuals = <<>>
    /\ mediaStage = "conclude" /\ sampled # <<>> => Len(visuals) = Len(sampled)
    /\ mediaOutcome = "succeeded" => mediaStage \in {"discarding", "releasing"} /\ Whole
    /\ Ordered(heard)

LEMMA MediaStarts == Media!Init => MediaInv
<1>. SUFFICES ASSUME Media!Init PROVE MediaInv
  OBVIOUS
<1>1. DOMAIN heard = {} /\ Range(sampled) = {}
  BY DEF Media!Init, Range
<1>2. ModelHeld
  BY DEF Media!Init, ModelHeld
<1>. QED BY <1>1, <1>2 DEF Media!Init, MediaInv, Media!NoMedia, PartsOfKind, ScratchHeld, BeforeFrames, Ordered

(* _validated_speech compares neighbours; by least counterexample no two     *)
(* segments overlap.                                                         *)
LEMMA SpeechIsOrdered ==
    ASSUME NEW s \in Utterances, Media!ValidatedSpeech(s)
    PROVE  Ordered(s)
<1>. SUFFICES ASSUME NEW i \in DOMAIN s, NEW j \in DOMAIN s, i < j, ~(s[i].to <= s[j].from) PROVE FALSE
  BY DEF Ordered
<1>. DEFINE T == {k \in DOMAIN s : i < k /\ ~(s[i].to <= s[k].from)}
<1>1. DOMAIN s = 1 .. Len(s) /\ Len(s) \in Nat
  BY DEF Utterances
<1>2. T \in SUBSET Nat /\ T # {}
  BY <1>1
<1>3. PICK k \in T : \A y \in T : k <= y
  <2>. HIDE DEF T
  <2>. QED BY <1>2, LeastExists
<1>4. /\ i \in 1 .. Len(s) /\ k \in 1 .. Len(s) /\ i < k /\ ~(s[i].to <= s[k].from)
  BY <1>1, <1>3
<1>5. /\ i \in Nat /\ k \in Nat /\ k # 1 /\ k - 1 \in 1 .. Len(s) /\ i <= k - 1
  BY <1>1, <1>4
<1>6. /\ s[k].from >= s[k - 1].to /\ s[k - 1].from < s[k - 1].to
  BY <1>1, <1>4, <1>5 DEF Media!ValidatedSpeech
<1>7. /\ s[i].to \in Nat /\ s[k].from \in Nat /\ s[k - 1].to \in Nat /\ s[k - 1].from \in Nat
  <2>1. \A n \in 1 .. Len(s) : s[n] \in Spoken
    BY <1>1 DEF Utterances
  <2>. QED BY <1>4, <1>5, <2>1 DEF Spoken
<1>8. CASE i = k - 1
  BY <1>4, <1>6, <1>7, <1>8
<1>9. CASE i < k - 1
  <2>1. k - 1 \notin T
    BY <1>3, <1>5
  <2>2. s[i].to <= s[k - 1].from
    BY <1>1, <1>5, <1>9, <2>1
  <2>. QED BY <1>4, <1>6, <1>7, <2>2
<1>. QED BY <1>5, <1>8, <1>9

(* Steps that only move on, or end the job otherwise than by success, and    *)
(* leave at most one more thread behind.                                     *)
LEMMA MovesKeep ==
    ASSUME MediaInv, mediaStage' \in (BeforeFrames \ {"idle"}) \cup WithFrames,
           mediaOutcome' \in {mediaOutcome, "failed", "cancelled"},
           mediaStage \in BeforeFrames \cup {"frames", "conclude"},
           mediaStage' \in BeforeFrames => mediaStage \in BeforeFrames,
           mediaStage \in BeforeFrames \/ mediaStage' = "discarding",
           mediaThreads \subseteq mediaThreads',
           UNCHANGED <<media, heard, sampled, scratch, uncleared>>,
           UNCHANGED mediaJob \/ sampled = <<>>,
           UNCHANGED visuals \/ (mediaStage \in BeforeFrames /\ mediaStage' = "conclude")
    PROVE  MediaInv'
<1>1. Range(<<>>) = {}
  BY DEF Range
<1>2. /\ PartsOfKind' /\ Ordered(heard)' /\ \A f \in Range(sampled') : f.job = mediaJob'
  BY <1>1 DEF MediaInv, PartsOfKind, Ordered, Range
<1>3. ScratchHeld' /\ ModelHeld'
  <2>1. ASSUME NEW f \in scratch PROVE \/ GivenUp(f.job)
                                       \/ Tended(f.job)
                                       \/ mediaStage \in WithFrames /\ f \in Range(sampled)
    BY DEF MediaInv, ScratchHeld
  <2>2. mediaStage \in WithFrames /\ Range(sampled) # {} => mediaStage' \in WithFrames
    BY DEF BeforeFrames, WithFrames
  <2>3. ScratchHeld'
    BY <2>1, <2>2 DEF ScratchHeld, GivenUp, Tended, Range
  <2>. QED BY <2>3 DEF ModelHeld, BeforeFrames, WithFrames
<1>4. mediaOutcome # "succeeded" /\ mediaOutcome' # "succeeded"
  BY DEF MediaInv, BeforeFrames
<1>5. /\ mediaStage' \in BeforeFrames => sampled' = <<>> /\ visuals' = <<>>
      /\ mediaStage' = "conclude" /\ sampled' # <<>> => Len(visuals') = Len(sampled')
  BY DEF MediaInv, BeforeFrames, WithFrames
<1>. QED BY <1>2, <1>3, <1>4, <1>5 DEF MediaInv, BeforeFrames, WithFrames

LEMMA InspectKeeps ==
    ASSUME Media!PortsAssumption, MediaInv, NEW m \in Medias, Media!Inspect(m)
    PROVE  MediaInv'
<1>. USE DEF Media!Inspect
<1>1. CASE ~Media!ValidatedMedia(m)
  BY <1>1, MovesKeep DEF Media!Ends, BeforeFrames, WithFrames
<1>2. CASE Media!ValidatedMedia(m)
  <2>1. /\ media' = m /\ mediaStage = "inspect" /\ mediaStage' \in {"speech", "visuals"}
        /\ UNCHANGED <<heard, sampled, visuals, mediaOutcome, scratch, mediaThreads, uncleared, mediaJob>>
    BY <1>2
  <2>2. m.slides \in Nat /\ m.pages \in Nat
    BY DEF Media!PortsAssumption
  <2>3. /\ m.modality # "presentation" => m.slides = 0
        /\ m.modality # "document" => m.pages = 0
    BY <1>2 DEF Media!ValidatedMedia, Media!PositionsOK
  <2>4. PartsOfKind'
    BY <2>1, <2>2, <2>3 DEF PartsOfKind
  <2>5. ScratchHeld' /\ ModelHeld'
    BY <2>1 DEF MediaInv, ScratchHeld, GivenUp, Tended, WithFrames, ModelHeld
  <2>6. Ordered(heard)' /\ (\A f \in Range(sampled') : f.job = mediaJob') /\ mediaOutcome' # "succeeded"
    BY <2>1 DEF MediaInv, Ordered, Range
  <2>. QED BY <2>1, <2>2, <2>4, <2>5, <2>6 DEF MediaInv, BeforeFrames
<1>. QED BY <1>1, <1>2

LEMMA HearKeeps ==
    ASSUME Media!PortsAssumption, MediaInv, NEW said \in Speeches, Media!Hear(said)
    PROVE  MediaInv'
<1>. USE DEF Media!Hear
<1>1. CASE ~Media!ValidatedSpeech(said)
  BY <1>1, MovesKeep DEF Media!Ends, BeforeFrames, WithFrames
<1>2. CASE Media!ValidatedSpeech(said)
  <2>1. /\ heard' = said /\ mediaStage = "speech" /\ mediaStage' = "visuals"
        /\ UNCHANGED <<media, sampled, visuals, mediaOutcome, scratch, mediaThreads, uncleared, mediaJob>>
    BY <1>2
  <2>2. said \in Utterances
    BY DEF Media!PortsAssumption, Utterances, Spoken
  <2>3. Ordered(said)
    BY <1>2, <2>2, SpeechIsOrdered
  <2>4. Ordered(heard)'
    BY <2>1, <2>3 DEF Ordered
  <2>5. ScratchHeld' /\ ModelHeld' /\ PartsOfKind'
    BY <2>1 DEF MediaInv, ScratchHeld, GivenUp, Tended, WithFrames, ModelHeld, PartsOfKind
  <2>6. (\A f \in Range(sampled') : f.job = mediaJob') /\ mediaOutcome' # "succeeded"
    BY <2>1 DEF MediaInv, Range
  <2>. QED BY <2>1, <2>4, <2>5, <2>6 DEF MediaInv, BeforeFrames
<1>. QED BY <1>1, <1>2

LEMMA SampleSourceKeeps ==
    ASSUME MediaInv, Media!SampleSource
    PROVE  MediaInv'
<1>1. /\ sampled' = <<[job |-> mediaJob, frame |-> 0]>> /\ mediaStage = "visuals" /\ mediaStage' = "frames"
      /\ UNCHANGED <<media, heard, visuals, mediaOutcome, scratch, mediaThreads, uncleared, mediaJob>>
  BY DEF Media!SampleSource
<1>2. \A f \in Range(sampled') : f.job = mediaJob'
  BY <1>1 DEF Range
<1>3. ScratchHeld' /\ ModelHeld'
  BY <1>1 DEF MediaInv, ScratchHeld, GivenUp, Tended, WithFrames, ModelHeld
<1>4. PartsOfKind' /\ Ordered(heard)' /\ mediaOutcome' # "succeeded"
  BY <1>1 DEF MediaInv, PartsOfKind, Ordered
<1>. QED BY <1>1, <1>2, <1>3, <1>4 DEF MediaInv, BeforeFrames, WithFrames

(* A thread that writes, ends or removes its files without a task that waits *)
(* for it changes nothing but files, threads, marks and the model.           *)
LEMMA ThreadKeeps ==
    ASSUME MediaInv, ScratchHeld', ModelHeld',
           UNCHANGED <<mediaStage, media, heard, sampled, visuals, mediaOutcome, mediaJob>>
    PROVE  MediaInv'
<1>1. PartsOfKind' /\ Ordered(heard)' /\ Whole' = Whole /\ \A f \in Range(sampled') : f.job = mediaJob'
  BY DEF MediaInv, PartsOfKind, Ordered, Whole, Range
<1>. QED BY <1>1 DEF MediaInv

LEMMA SamplerWritesKeeps ==
    ASSUME MediaInv, NEW t, NEW i, Media!SamplerWrites(t, i)
    PROVE  MediaInv'
<1>1. /\ t \in mediaThreads /\ t.does = "sample"
      /\ scratch' = scratch \cup {[job |-> t.job, frame |-> i]}
      /\ UNCHANGED <<mediaStage, media, heard, sampled, visuals, mediaOutcome, mediaThreads, vision, uncleared, mediaJob>>
  BY DEF Media!SamplerWrites
<1>2. Tended(t.job)
  BY <1>1 DEF Tended
<1>3. ScratchHeld' /\ ModelHeld'
  BY <1>1, <1>2 DEF MediaInv, ScratchHeld, GivenUp, Tended, ModelHeld, ModelGivenUp, Range
<1>. QED BY <1>1, <1>3, ThreadKeeps

(* When a thread ends, the files of its job are gone, marked, or held by the *)
(* job that waited; those of the others are as they were.                    *)
LEMMA EndedThread ==
    ASSUME MediaInv, NEW t \in mediaThreads, mediaThreads' = mediaThreads \ {t},
           scratch' \subseteq scratch, uncleared \subseteq uncleared',
           \A f \in scratch' : f.job = t.job =>
               GivenUp(f.job)' \/ (mediaStage' \in WithFrames /\ f \in Range(sampled)'),
           mediaStage \in WithFrames => mediaStage' \in WithFrames /\ UNCHANGED sampled
    PROVE  ScratchHeld'
<1>1. SUFFICES ASSUME NEW f \in scratch', f.job # t.job
               PROVE  \/ GivenUp(f.job)'
                      \/ Tended(f.job)'
                      \/ mediaStage' \in WithFrames /\ f \in Range(sampled)'
  BY DEF ScratchHeld
<1>2. CASE GivenUp(f.job)
  BY <1>2 DEF GivenUp
<1>3. CASE Tended(f.job)
  BY <1>1, <1>3 DEF Tended
<1>4. CASE mediaStage \in WithFrames /\ f \in Range(sampled)
  BY <1>4 DEF Range
<1>. QED BY <1>1, <1>2, <1>3, <1>4 DEF MediaInv, ScratchHeld

LEMMA SamplerReturnsKeeps ==
    ASSUME MediaInv, NEW t, NEW n \in Nat, Media!SamplerReturns(t, n)
    PROVE  MediaInv'
<1>. DEFINE Files == {[job |-> t.job, frame |-> i] : i \in 1 .. n}
<1>1. /\ t \in mediaThreads /\ {f \in scratch : f.job = t.job} = Files
      /\ mediaThreads' = mediaThreads \ {t}
      /\ UNCHANGED <<media, heard, visuals, mediaOutcome, scratch, vision, mediaJob>>
  BY DEF Media!SamplerReturns, Media!FilesOf
<1>2. CASE mediaStage = "sampling" /\ t.job = mediaJob
  <2>1. /\ sampled' = [i \in 1 .. n |-> [job |-> t.job, frame |-> i]] /\ mediaStage' = "frames"
        /\ UNCHANGED uncleared
    BY <1>2 DEF Media!SamplerReturns, Media!Awaited
  <2>2. Range(sampled)' = Files
    BY <2>1 DEF Range
  <2>3. \A f \in Range(sampled)' : f.job = mediaJob'
    BY <1>1, <1>2, <2>2
  <2>4. ScratchHeld'
    <3>1. \A f \in scratch' : f.job = t.job => mediaStage' \in WithFrames /\ f \in Range(sampled)'
      BY <1>1, <2>1, <2>2 DEF WithFrames
    <3>. QED BY <1>1, <1>2, <2>1, <3>1, EndedThread DEF WithFrames
  <2>5. ModelHeld' /\ PartsOfKind' /\ Ordered(heard)' /\ mediaOutcome' # "succeeded"
    BY <1>1, <1>2, <2>1 DEF MediaInv, ModelHeld, PartsOfKind, Ordered
  <2>6. Range(sampled') = Range(sampled)'
    BY DEF Range
  <2>. QED BY <1>1, <1>2, <2>1, <2>3, <2>4, <2>5, <2>6 DEF MediaInv, BeforeFrames, WithFrames
<1>3. CASE ~(mediaStage = "sampling" /\ t.job = mediaJob)
  <2>1. /\ uncleared' = uncleared \cup {[job |-> t.job, of |-> "frames"]}
        /\ UNCHANGED <<sampled, mediaStage>>
    BY <1>3 DEF Media!SamplerReturns, Media!Awaited, Media!Lost
  <2>2. \A f \in scratch' : f.job = t.job => GivenUp(f.job)'
    BY <2>1 DEF GivenUp
  <2>3. ScratchHeld'
    BY <1>1, <2>1, <2>2, EndedThread
  <2>4. ModelHeld'
    BY <1>1, <2>1 DEF MediaInv, ModelHeld, ModelGivenUp
  <2>. QED BY <1>1, <2>1, <2>3, <2>4, ThreadKeeps
<1>. QED BY <1>2, <1>3

(* What a removal that works, or does not, leaves of a job's files.          *)
LEMMA RemovalKeeps ==
    ASSUME MediaInv, NEW t \in mediaThreads, NEW works \in BOOLEAN,
           mediaThreads' = mediaThreads \ {t},
           IF works THEN scratch' = scratch \ Media!FilesOf(t.job) /\ UNCHANGED uncleared
           ELSE uncleared' = Media!Lost(t.job) /\ UNCHANGED scratch,
           mediaStage \in WithFrames => mediaStage' \in WithFrames /\ UNCHANGED sampled,
           mediaStage' # "idle" \/ UNCHANGED mediaStage, UNCHANGED vision
    PROVE  ScratchHeld' /\ ModelHeld'
<1>1. scratch' \subseteq scratch /\ uncleared \subseteq uncleared'
  BY DEF Media!FilesOf, Media!Lost
<1>2. \A f \in scratch' : f.job = t.job => GivenUp(f.job)'
  BY DEF Media!FilesOf, Media!Lost, GivenUp
<1>3. ScratchHeld'
  BY <1>1, <1>2, EndedThread
<1>. QED BY <1>1, <1>3 DEF MediaInv, ModelHeld, ModelGivenUp

LEMMA SamplerFailsKeeps ==
    ASSUME MediaInv, NEW t, NEW how \in {"failed", "cancelled"}, NEW works \in BOOLEAN,
           Media!SamplerFails(t, how, works)
    PROVE  MediaInv'
<1>1. /\ t \in mediaThreads /\ mediaThreads' = mediaThreads \ {t}
      /\ IF works THEN scratch' = scratch \ Media!FilesOf(t.job) /\ UNCHANGED uncleared
         ELSE uncleared' = Media!Lost(t.job) /\ UNCHANGED scratch
      /\ UNCHANGED <<media, heard, sampled, visuals, vision, mediaJob>>
  BY DEF Media!SamplerFails
<1>2. CASE Media!Awaited(t)
  <2>1. mediaStage = "sampling" /\ mediaStage' = "discarding" /\ mediaOutcome' = how
    BY <1>2 DEF Media!SamplerFails, Media!Awaited, Media!Ends
  <2>2. ScratchHeld' /\ ModelHeld'
    BY <1>1, <2>1, RemovalKeeps DEF WithFrames
  <2>3. PartsOfKind' /\ Ordered(heard)' /\ mediaOutcome' # "succeeded"
    BY <1>1, <2>1 DEF MediaInv, PartsOfKind, Ordered
  <2>4. \A f \in Range(sampled') : f.job = mediaJob'
    BY <1>1 DEF MediaInv, Range
  <2>. QED BY <1>1, <2>1, <2>2, <2>3, <2>4 DEF MediaInv, BeforeFrames, WithFrames
<1>3. CASE ~Media!Awaited(t)
  <2>1. UNCHANGED <<mediaStage, mediaOutcome>>
    BY <1>3 DEF Media!SamplerFails
  <2>2. ScratchHeld' /\ ModelHeld'
    BY <1>1, <2>1, RemovalKeeps
  <2>. QED BY <1>1, <2>1, <2>2, ThreadKeeps
<1>. QED BY <1>2, <1>3

LEMMA RemovedKeeps ==
    ASSUME MediaInv, NEW t, NEW works \in BOOLEAN, Media!Removed(t, works)
    PROVE  MediaInv'
<1>1. /\ t \in mediaThreads /\ mediaThreads' = mediaThreads \ {t}
      /\ IF works THEN scratch' = scratch \ Media!FilesOf(t.job) /\ UNCHANGED uncleared
         ELSE uncleared' = Media!Lost(t.job) /\ UNCHANGED scratch
      /\ UNCHANGED <<mediaStage, media, heard, sampled, visuals, mediaOutcome, vision, mediaJob>>
  BY DEF Media!Removed
<1>2. ScratchHeld' /\ ModelHeld'
  BY <1>1, RemovalKeeps
<1>. QED BY <1>1, <1>2, ThreadKeeps

(* A mark of the model is one whoever sees it.                               *)
LEMMA ModelMarked ==
    ASSUME NEW j, [job |-> j, of |-> "model"] \in uncleared'
    PROVE  ModelGivenUp'
<1>1. PICK l \in uncleared' : l = [job |-> j, of |-> "model"]
  OBVIOUS
<1>2. l.of = "model"
  BY <1>1
<1>. QED BY <1>2 DEF ModelGivenUp

LEMMA SeeingEndsKeeps ==
    ASSUME MediaInv, NEW t, Media!SeeingEnds(t)
    PROVE  MediaInv'
<1>1. /\ t \in mediaThreads /\ t.does = "see" /\ mediaThreads' = mediaThreads \ {t}
      /\ \/ UNCHANGED <<vision, uncleared>>
         \/ vision' = "held" /\ uncleared' = uncleared \cup {[job |-> t.job, of |-> "model"]}
      /\ UNCHANGED <<mediaStage, media, heard, sampled, visuals, mediaOutcome, scratch, mediaJob>>
  BY DEF Media!SeeingEnds
<1>2. \A j : Tended(j) => Tended(j)'
  BY <1>1 DEF Tended
<1>3. \A j : GivenUp(j) => GivenUp(j)'
  BY <1>1 DEF GivenUp
<1>4. ScratchHeld'
  BY <1>1, <1>2, <1>3 DEF MediaInv, ScratchHeld, Range
<1>5. ModelHeld'
  <2>1. CASE UNCHANGED <<vision, uncleared>>
    BY <1>1, <2>1 DEF MediaInv, ModelHeld, ModelGivenUp
  <2>2. CASE uncleared' = uncleared \cup {[job |-> t.job, of |-> "model"]}
    <3>1. [job |-> t.job, of |-> "model"] \in uncleared'
      BY <2>2
    <3>. QED BY <3>1, ModelMarked DEF ModelHeld
  <2>. QED BY <1>1, <2>1, <2>2
<1>. QED BY <1>1, <1>4, <1>5, ThreadKeeps

LEMMA FrameKeeps ==
    ASSUME MediaInv, NEW place, Media!TranscribeFrame(place)
    PROVE  MediaInv'
<1>1. /\ mediaStage = "frames" /\ mediaStage' \in {"conclude", "frames"}
      /\ mediaStage' = "conclude" => Len(visuals') = Len(sampled')
      /\ UNCHANGED <<media, heard, sampled, mediaOutcome, scratch, mediaThreads, uncleared, mediaJob>>
  BY DEF Media!TranscribeFrame
<1>2. ScratchHeld' /\ ModelHeld' /\ PartsOfKind' /\ Ordered(heard)'
  BY <1>1 DEF MediaInv, ScratchHeld, GivenUp, Tended, ModelHeld, WithFrames, PartsOfKind, Ordered, Range
<1>3. (\A f \in Range(sampled') : f.job = mediaJob') /\ mediaOutcome' # "succeeded"
  BY <1>1 DEF MediaInv, Range
<1>. QED BY <1>1, <1>2, <1>3 DEF MediaInv, BeforeFrames, WithFrames

(* What _validated_visuals accepted of a presentation or a document is whole.*)
LEMMA ConcludeKeeps ==
    ASSUME MediaInv, NEW whole \in BOOLEAN, Media!Conclude(whole)
    PROVE  MediaInv'
<1>1. /\ mediaStage = "conclude" /\ mediaStage' = "discarding"
      /\ mediaOutcome' = "succeeded" => Media!ValidatedVisuals(visuals)
      /\ UNCHANGED <<media, heard, sampled, visuals, scratch, mediaThreads, uncleared, mediaJob>>
  BY DEF Media!Conclude, Media!Ends
<1>2. Media!ValidatedVisuals(visuals) => Whole
  <2>. SUFFICES ASSUME Media!ValidatedVisuals(visuals) PROVE Whole
    OBVIOUS
  <2>1. /\ media.modality = "presentation" => Media!PresentationVisualsOK(visuals)
        /\ media.modality = "document" => Media!DocumentVisualsOK(visuals)
    BY DEF Media!ValidatedVisuals
  <2>2. media.slides > 0 => Len(visuals) = media.slides
    BY <2>1 DEF MediaInv, PartsOfKind, Media!PresentationVisualsOK
  <2>3. media.pages > 0 => Len(visuals) = media.pages
    BY <2>1 DEF MediaInv, PartsOfKind, Media!DocumentVisualsOK
  <2>. QED BY <1>1, <2>2, <2>3 DEF MediaInv, Whole
<1>3. mediaOutcome' = "succeeded" => Whole'
  BY <1>1, <1>2 DEF Whole
<1>4. ScratchHeld' /\ ModelHeld' /\ PartsOfKind' /\ Ordered(heard)'
  BY <1>1 DEF MediaInv, ScratchHeld, GivenUp, Tended, ModelHeld, WithFrames, PartsOfKind, Ordered, Range
<1>5. \A f \in Range(sampled') : f.job = mediaJob'
  BY <1>1 DEF MediaInv, Range
<1>. QED BY <1>1, <1>3, <1>4, <1>5 DEF MediaInv, BeforeFrames, WithFrames

LEMMA DiscardKeeps ==
    ASSUME MediaInv, NEW works \in BOOLEAN, Media!Discard(works)
    PROVE  MediaInv'
<1>1. /\ mediaStage = "discarding" /\ mediaStage' = "releasing"
      /\ scratch' = IF works THEN scratch \ Range(sampled) ELSE scratch
      /\ uncleared' = IF works THEN uncleared ELSE uncleared \cup {[job |-> mediaJob, of |-> "frames"]}
      /\ UNCHANGED <<media, heard, sampled, visuals, mediaOutcome, mediaThreads, mediaJob>>
  BY DEF Media!Discard, Media!Discardable, Media!Range, Range, Media!Lost
<1>2. ScratchHeld' /\ ModelHeld'
  BY <1>1 DEF MediaInv, ScratchHeld, GivenUp, Tended, ModelHeld
<1>3. PartsOfKind' /\ Ordered(heard)' /\ \A f \in Range(sampled') : f.job = mediaJob'
  BY <1>1 DEF MediaInv, PartsOfKind, Ordered, Range
<1>4. mediaOutcome' = "succeeded" => Whole'
  BY <1>1 DEF MediaInv, Whole
<1>. QED BY <1>1, <1>2, <1>3, <1>4 DEF MediaInv, BeforeFrames, WithFrames

(* When the task is over: nothing is left of it but files and the model.     *)
LEMMA ForgottenKeeps ==
    ASSUME MediaInv, Media!Forgotten, mediaStage' = "idle", ScratchHeld', ModelHeld', UNCHANGED mediaJob
    PROVE  MediaInv'
<1>1. /\ media' = Media!NoMedia /\ heard' = <<>>
      /\ sampled' = <<>> /\ visuals' = <<>> /\ mediaOutcome' = "none"
  BY DEF Media!Forgotten
<1>2. DOMAIN heard' = {} /\ Range(sampled') = {}
  BY <1>1 DEF Range
<1>3. PartsOfKind' /\ Ordered(heard)' /\ media'.slides \in Nat /\ media'.pages \in Nat
  BY <1>1, <1>2 DEF PartsOfKind, Media!NoMedia, Ordered
<1>. QED BY <1>1, <1>2, <1>3 DEF MediaInv, BeforeFrames, WithFrames

LEMMA DiscardCancelledKeeps ==
    ASSUME MediaInv, Media!DiscardCancelled
    PROVE  MediaInv'
<1>1. /\ mediaStage = "discarding" /\ mediaStage' = "idle" /\ Media!Forgotten
      /\ mediaThreads' = mediaThreads \cup {[job |-> mediaJob, does |-> "discard"]}
      /\ uncleared' = IF vision = "held" THEN uncleared \cup {[job |-> mediaJob, of |-> "model"]}
                      ELSE uncleared
      /\ UNCHANGED <<scratch, vision, mediaJob>>
  BY DEF Media!DiscardCancelled, Media!ModelKept
<1>2. Tended(mediaJob)' /\ \A j : Tended(j) => Tended(j)'
  <2>1. PICK t \in mediaThreads' : t = [job |-> mediaJob, does |-> "discard"]
    BY <1>1
  <2>2. t.job = mediaJob' /\ t.does \in {"sample", "discard"}
    BY <1>1, <2>1
  <2>3. Tended(mediaJob)'
    BY <1>1, <2>2 DEF Tended
  <2>4. \A j : Tended(j) => Tended(j)'
    BY <1>1 DEF Tended
  <2>. QED BY <2>3, <2>4
<1>3. \A j : GivenUp(j) => GivenUp(j)'
  BY <1>1 DEF GivenUp
<1>4. ScratchHeld'
  BY <1>1, <1>2, <1>3 DEF MediaInv, ScratchHeld, Tended
<1>5. ModelHeld'
  <2>1. CASE vision = "held"
    <3>1. [job |-> mediaJob, of |-> "model"] \in uncleared'
      BY <1>1, <2>1
    <3>. QED BY <3>1, ModelMarked DEF ModelHeld
  <2>2. CASE vision # "held"
    BY <1>1, <2>2 DEF ModelHeld
  <2>. QED BY <2>1, <2>2
<1>. QED BY <1>1, <1>4, <1>5, ForgottenKeeps

LEMMA ReleaseKeeps ==
    ASSUME MediaInv, NEW works \in BOOLEAN, Media!Release(works)
    PROVE  MediaInv'
<1>1. /\ mediaStage = "releasing" /\ mediaStage' = "idle" /\ Media!Forgotten
      /\ UNCHANGED <<scratch, mediaThreads, mediaJob>>
  BY DEF Media!Release
<1>2. CASE works
  <2>1. vision' = "idle" /\ uncleared' = {l \in uncleared : l.of = "frames"}
    BY <1>2 DEF Media!Release, Media!Releasable
  <2>2. \A j : GivenUp(j) => GivenUp(j)'
    BY <2>1 DEF GivenUp
  <2>3. ScratchHeld'
    BY <1>1, <2>2 DEF MediaInv, ScratchHeld, Tended, WithFrames
  <2>. QED BY <1>1, <2>1, <2>3, ForgottenKeeps DEF ModelHeld
<1>3. CASE ~works
  <2>1. /\ uncleared' = IF vision = "held" THEN uncleared \cup {[job |-> mediaJob, of |-> "model"]}
                        ELSE uncleared
        /\ UNCHANGED vision
    BY <1>3 DEF Media!Release, Media!ModelKept
  <2>2. \A j : GivenUp(j) => GivenUp(j)'
    BY <2>1 DEF GivenUp
  <2>3. ScratchHeld'
    BY <1>1, <2>2 DEF MediaInv, ScratchHeld, Tended, WithFrames
  <2>4. ModelHeld'
    <3>1. CASE vision = "held"
      <4>1. [job |-> mediaJob, of |-> "model"] \in uncleared'
        BY <2>1, <3>1
      <4>. QED BY <4>1, ModelMarked DEF ModelHeld
    <3>2. CASE vision # "held"
      BY <2>1, <3>2 DEF ModelHeld
    <3>. QED BY <3>1, <3>2
  <2>. QED BY <1>1, <2>3, <2>4, ForgottenKeeps
<1>. QED BY <1>2, <1>3

LEMMA MediaStep ==
    ASSUME Media!PortsAssumption, MediaInv, [Media!Next]_Media!mediaVars
    PROVE  MediaInv'
<1>1. ASSUME UNCHANGED Media!mediaVars PROVE MediaInv'
  <2>1. UNCHANGED <<mediaStage, media, heard, sampled, visuals, mediaOutcome, scratch, mediaThreads, vision,
                    uncleared, mediaJob>>
    BY <1>1 DEF Media!mediaVars
  <2>2. ScratchHeld' /\ ModelHeld'
    BY <2>1 DEF MediaInv, ScratchHeld, GivenUp, Tended, ModelHeld, ModelGivenUp, Range
  <2>. QED BY <2>1, <2>2, ThreadKeeps
<1>2. ASSUME NEW usable \in BOOLEAN, Media!Execute(usable) PROVE MediaInv'
  <2>1. sampled = <<>>
    BY <1>2 DEF Media!Execute, MediaInv, BeforeFrames
  <2>. QED BY <1>2, <2>1, MovesKeep DEF Media!Execute, Media!Ends, BeforeFrames, WithFrames
<1>3. ASSUME Media!NothingToSee \/ Media!SamplerStarts \/ Media!SamplingCancelled PROVE MediaInv'
  BY <1>3, MovesKeep DEF Media!NothingToSee, Media!SamplerStarts, Media!SamplingCancelled, Media!Ends,
     BeforeFrames, WithFrames
<1>4. ASSUME Media!ReadParts PROVE MediaInv'
  BY <1>4, MovesKeep DEF Media!ReadParts, BeforeFrames, WithFrames
<1>5. ASSUME NEW t \in mediaThreads, NEW n \in 1 .. MaxParts, Media!SamplerWrites(t, n) \/ Media!SamplerReturns(t, n)
      PROVE  MediaInv'
  <2>1. n \in Nat
    BY DEF Media!PortsAssumption
  <2>. QED BY <1>5, <2>1, SamplerWritesKeeps, SamplerReturnsKeeps
<1>6. ASSUME NEW how \in {"failed", "cancelled"}, Media!Interrupted(how) PROVE MediaInv'
  <2>1. mediaThreads \subseteq mediaThreads'
    BY <1>6 DEF Media!Interrupted, Media!MaySee
  <2>2. /\ mediaStage \in {"inspect", "speech", "visuals", "frames", "conclude"} /\ mediaStage' = "discarding"
        /\ mediaOutcome' = how /\ UNCHANGED <<media, heard, sampled, visuals, scratch, uncleared, mediaJob>>
    BY <1>6 DEF Media!Interrupted, Media!Ends
  <2>. QED BY <2>1, <2>2, MovesKeep DEF BeforeFrames, WithFrames
<1>. QED BY <1>1, <1>2, <1>3, <1>4, <1>5, <1>6, InspectKeeps, HearKeeps, SampleSourceKeeps, SamplerFailsKeeps,
            RemovedKeeps, SeeingEndsKeeps, FrameKeeps, ConcludeKeeps, DiscardKeeps, DiscardCancelledKeeps,
            ReleaseKeeps DEF Media!Next

(* However a transcription ends, at whichever port it failed or was          *)
(* cancelled, between jobs every frame file is one whose removal failed, one *)
(* returned to a task that was cancelled, or one a thread still tends; the   *)
(* vision model is loaded only where its release failed or was skipped or a  *)
(* thread nobody awaits loaded it; and a result has every slide, page and    *)
(* frame and speech that never overlaps (_transcribe and its finally clause, *)
(* sample, discard, _validated_speech, _validated_visuals).                  *)
THEOREM FramesAreCleared == Media!Spec => []NoFrameRemains
<1>. USE MediaAssumption
<1>1. Media!Init => MediaInv
  BY MediaStarts
<1>2. MediaInv /\ [Media!Next]_Media!mediaVars => MediaInv'
  BY MediaStep
<1>3. MediaInv => Media!NoFrameRemains
  BY DEF MediaInv, ScratchHeld, GivenUp, Tended, ModelHeld, ModelGivenUp, WithFrames, Whole, Ordered,
     Media!NoFrameRemains
<1>. QED BY <1>1, <1>2, <1>3, PTL DEF Media!Spec, NoFrameRemains

-----------------------------------------------------------------------------
(* Pinned sources and produced models: what a command holds of a recipe, and *)
(* what the outputs are while one command produces.                          *)

(* A producer of a recipe: it opened the published version, which is the     *)
(* recipe's.                                                                 *)
Produces(r) ==
    /\ r.kind = producer /\ producer # "identity" /\ Sourcing!LoadsRecipe(r)
    /\ fetched # Sourcing!Absent /\ fetched.receipt = r

(* The sources staged so far are those the recipe pins, in order.            *)
StagedFrom(s, r) ==
    /\ s \in Seq(Seq(Chunks)) /\ Len(s) <= Len(r.sources)
    /\ \A k \in 1 .. Len(s) : s[k] = r.sources[k].bytes

Looks(x, r) == \E a \in {"look", "compare"} : x = [at |-> a, recipe |-> r]
Fetches(x, r) ==
    \E s, g : /\ x = [at |-> "fetch", recipe |-> r, stage |-> s, got |-> g]
              /\ StagedFrom(s, r) /\ g \in Seq(Chunks)
Publishes(x, r) == \E s : x = [at |-> "publish", recipe |-> r, stage |-> s] /\ s = Sourcing!PinnedFiles(r)
Exports(x, r) ==
    /\ Produces(r)
    /\ \E a \in {"outputs", "export", "gate", "clean", "clean report"} : x = [at |-> a, recipe |-> r]
Reports(x, r) ==
    /\ Produces(r)
    /\ \E a \in {"report", "clean", "clean report"} : \E m : x = [at |-> a, recipe |-> r, gated |-> m]

CommandOf(x, r) == Looks(x, r) \/ Fetches(x, r) \/ Publishes(x, r) \/ Exports(x, r) \/ Reports(x, r)

CommandOK(x) == x = Sourcing!Idle \/ \E r \in Recipes : CommandOf(x, r)

CommandsHold ==
    /\ cmd = [c \in Fetchers |-> cmd[c]]
    /\ \A c \in Fetchers : CommandOK(cmd[c])

(* What is published, and what was said of it.                               *)
VersionHolds ==
    /\ fetched = Sourcing!Absent \/ fetched = [receipt |-> fetched.receipt, files |-> fetched.files]
    /\ tampered \in BOOLEAN
    /\ Sourcing!InstalledWhole /\ Sourcing!ClaimsAgree

(* A model computed from the pinned files, of the shape that was promised.   *)
Made(m, r) == m.shape = r.output /\ (~tampered => m.files = Sourcing!PinnedFiles(r))

(* While two producers do not overlap, one has the outputs to itself.        *)
Alone ==
    /\ \A c, d \in Fetchers : Sourcing!Producing(c) /\ Sourcing!Producing(d) => c = d
    /\ \A c \in Fetchers :
         /\ Sourcing!Producing(c) => production = Sourcing!Absent
         /\ cmd[c].at = "gate" /\ produced # Sourcing!Absent => Made(produced, cmd[c].recipe)
         /\ cmd[c].at = "report" =>
              produced # Sourcing!Absent /\ cmd[c].gated = produced /\ Made(produced, cmd[c].recipe)

OutputsHold ==
    /\ crowded \in BOOLEAN
    /\ ~crowded => Alone
    /\ Sourcing!ReportTrue

SourcesInv == CommandsHold /\ VersionHolds /\ OutputsHold

LEMMA RecipesAre ==
    ASSUME NEW r \in Recipes
    PROVE  /\ r.kind \in Sourcing!Producers /\ r.source \in Seq(Nat)
           /\ r.sources \in Seq(Sourcing!SourceRecords)
           /\ DOMAIN r.sources = 1 .. Len(r.sources) /\ Len(r.sources) \in Nat
BY SourcesAssumption DEF Sourcing!RecipesAssumption

LEMMA PublishedIsThere ==
    ASSUME NEW a, NEW b
    PROVE  [receipt |-> a, files |-> b] # Sourcing!Absent
BY DEF Sourcing!Absent

(* What a command holds, by its step.                                        *)
LEMMA StepsOfCommands ==
    ASSUME NEW x, NEW r
    PROVE  /\ x = Sourcing!Idle => x.at = "idle"
           /\ Looks(x, r) => x.at \in {"look", "compare"}
           /\ Fetches(x, r) => x.at = "fetch"
           /\ Publishes(x, r) => x.at = "publish"
           /\ Exports(x, r) => x.at \in {"outputs", "export", "gate", "clean", "clean report"}
           /\ Reports(x, r) => x.at \in {"report", "clean", "clean report"}
<1>1. x = Sourcing!Idle => x.at = "idle"
  BY DEF Sourcing!Idle
<1>2. Looks(x, r) => x.at \in {"look", "compare"}
  BY DEF Looks
<1>3. Fetches(x, r) => x.at = "fetch"
  BY DEF Fetches
<1>4. Publishes(x, r) => x.at = "publish"
  BY DEF Publishes
<1>5. Exports(x, r) => x.at \in {"outputs", "export", "gate", "clean", "clean report"}
  <2>. SUFFICES ASSUME Exports(x, r) PROVE x.at \in {"outputs", "export", "gate", "clean", "clean report"}
    OBVIOUS
  <2>1. PICK a \in {"outputs", "export", "gate", "clean", "clean report"} : x = [at |-> a, recipe |-> r]
    BY DEF Exports
  <2>2. x.at = a
    BY <2>1
  <2>. QED BY <2>2
<1>6. Reports(x, r) => x.at \in {"report", "clean", "clean report"}
  <2>. SUFFICES ASSUME Reports(x, r) PROVE x.at \in {"report", "clean", "clean report"}
    OBVIOUS
  <2>1. PICK a \in {"report", "clean", "clean report"} : \E m : x = [at |-> a, recipe |-> r, gated |-> m]
    BY DEF Reports
  <2>2. PICK m : x = [at |-> a, recipe |-> r, gated |-> m]
    BY <2>1
  <2>3. x.at = a
    BY <2>2
  <2>. QED BY <2>3
<1>. QED BY <1>1, <1>2, <1>3, <1>4, <1>5, <1>6

LEMMA LookingHolds ==
    ASSUME NEW x, CommandOK(x), x.at \in {"look", "compare"}
    PROVE  \E r \in Recipes : x = [at |-> x.at, recipe |-> r]
<1>1. PICK r \in Recipes : x = Sourcing!Idle \/ CommandOf(x, r)
  BY StepsOfCommands DEF CommandOK
<1>2. Looks(x, r)
  BY <1>1, StepsOfCommands DEF CommandOf
<1>. QED BY <1>2 DEF Looks

LEMMA FetchingHolds ==
    ASSUME NEW x, CommandOK(x), x.at = "fetch"
    PROVE  \E r \in Recipes : \E s, g : /\ x = [at |-> "fetch", recipe |-> r, stage |-> s, got |-> g]
                                        /\ StagedFrom(s, r) /\ g \in Seq(Chunks)
<1>1. PICK r \in Recipes : x = Sourcing!Idle \/ CommandOf(x, r)
  BY StepsOfCommands DEF CommandOK
<1>2. Fetches(x, r)
  BY <1>1, StepsOfCommands DEF CommandOf
<1>. QED BY <1>2 DEF Fetches

LEMMA PublishingHolds ==
    ASSUME NEW x, CommandOK(x), x.at = "publish"
    PROVE  \E r \in Recipes : \E s :
              x = [at |-> "publish", recipe |-> r, stage |-> s] /\ s = Sourcing!PinnedFiles(r)
<1>1. PICK r \in Recipes : x = Sourcing!Idle \/ CommandOf(x, r)
  BY StepsOfCommands DEF CommandOK
<1>2. Publishes(x, r)
  BY <1>1, StepsOfCommands DEF CommandOf
<1>. QED BY <1>2 DEF Publishes

LEMMA ProducingHolds ==
    ASSUME NEW x, CommandOK(x), x.at \in {"outputs", "export", "gate"}
    PROVE  \E r \in Recipes : Produces(r) /\ x = [at |-> x.at, recipe |-> r]
<1>1. PICK r \in Recipes : x = Sourcing!Idle \/ CommandOf(x, r)
  BY StepsOfCommands DEF CommandOK
<1>2. Exports(x, r)
  BY <1>1, StepsOfCommands DEF CommandOf
<1>3. Produces(r) /\ \E a \in {"outputs", "export", "gate", "clean", "clean report"} : x = [at |-> a, recipe |-> r]
  BY <1>2 DEF Exports
<1>4. PICK a : x = [at |-> a, recipe |-> r]
  BY <1>3
<1>5. a = x.at
  BY <1>4
<1>. QED BY <1>3, <1>4, <1>5

LEMMA ReportingHolds ==
    ASSUME NEW x, CommandOK(x), x.at = "report"
    PROVE  \E r \in Recipes : \E m : Produces(r) /\ x = [at |-> "report", recipe |-> r, gated |-> m]
<1>1. PICK r \in Recipes : x = Sourcing!Idle \/ CommandOf(x, r)
  BY StepsOfCommands DEF CommandOK
<1>2. Reports(x, r)
  BY <1>1, StepsOfCommands DEF CommandOf
<1>. QED BY <1>2 DEF Reports

LEMMA CleaningHolds ==
    ASSUME NEW x, CommandOK(x), x.at \in {"clean", "clean report"}
    PROVE  \E r \in Recipes :
             /\ Produces(r)
             /\ x = [at |-> x.at, recipe |-> r] \/ \E m : x = [at |-> x.at, recipe |-> r, gated |-> m]
<1>1. PICK r \in Recipes : x = Sourcing!Idle \/ CommandOf(x, r)
  BY StepsOfCommands DEF CommandOK
<1>2. Exports(x, r) \/ Reports(x, r)
  BY <1>1, StepsOfCommands DEF CommandOf
<1>3. ASSUME Exports(x, r) PROVE Produces(r) /\ x = [at |-> x.at, recipe |-> r]
  <2>1. PICK a \in {"outputs", "export", "gate", "clean", "clean report"} : x = [at |-> a, recipe |-> r]
    BY <1>3 DEF Exports
  <2>2. a = x.at
    BY <2>1
  <2>. QED BY <1>3, <2>1, <2>2 DEF Exports
<1>4. ASSUME Reports(x, r) PROVE Produces(r) /\ \E m : x = [at |-> x.at, recipe |-> r, gated |-> m]
  <2>1. PICK a \in {"report", "clean", "clean report"} : \E m : x = [at |-> a, recipe |-> r, gated |-> m]
    BY <1>4 DEF Reports
  <2>2. PICK m : x = [at |-> a, recipe |-> r, gated |-> m]
    BY <2>1
  <2>3. a = x.at
    BY <2>2
  <2>. QED BY <1>4, <2>2, <2>3 DEF Reports
<1>. QED BY <1>2, <1>3, <1>4

(* The version that is published stays that recipe's.                        *)
ReceiptStays == fetched # Sourcing!Absent => fetched' # Sourcing!Absent /\ fetched'.receipt = fetched.receipt

LEMMA CommandKeeps ==
    ASSUME NEW x, CommandOK(x), producer' = producer, ReceiptStays
    PROVE  CommandOK(x)'
<1>1. ASSUME NEW r, Produces(r) PROVE Produces(r)'
  BY <1>1 DEF Produces, ReceiptStays
<1>2. ASSUME NEW r \in Recipes, CommandOf(x, r) PROVE CommandOf(x, r)'
  BY <1>1, <1>2 DEF CommandOf, Looks, Fetches, Publishes, Exports, Reports, StagedFrom
<1>. QED BY <1>2 DEF CommandOK

LEMMA OneCommandMoves ==
    ASSUME CommandsHold, NEW c \in Fetchers, NEW x, cmd' = [cmd EXCEPT ![c] = x], CommandOK(x)',
           producer' = producer, ReceiptStays
    PROVE  CommandsHold'
<1>1. cmd' = [d \in Fetchers |-> cmd'[d]] /\ cmd'[c] = x /\ \A d \in Fetchers \ {c} : cmd'[d] = cmd[d]
  BY DEF CommandsHold
<1>2. ASSUME NEW d \in Fetchers PROVE CommandOK(cmd[d])'
  <2>1. CASE d = c
    BY <1>1, <2>1
  <2>2. CASE d # c
    <3>1. PICK y : y = cmd[d]
      OBVIOUS
    <3>2. CommandOK(y)'
      BY <3>1, CommandKeeps DEF CommandsHold
    <3>. QED BY <1>1, <2>2, <3>1, <3>2
  <2>. QED BY <2>1, <2>2
<1>. QED BY <1>1, <1>2 DEF CommandsHold

LEMMA CommandEnds ==
    ASSUME CommandsHold, NEW c \in Fetchers, cmd' = [cmd EXCEPT ![c] = Sourcing!Idle],
           producer' = producer, ReceiptStays
    PROVE  CommandsHold'
<1>1. PICK x : x = Sourcing!Idle
  OBVIOUS
<1>2. CommandOK(x)'
  BY <1>1 DEF CommandOK
<1>. QED BY <1>1, <1>2, OneCommandMoves

LEMMA IdleDoesNothing ==
    ASSUME CommandsHold, NEW c \in Fetchers, cmd' = [cmd EXCEPT ![c] = Sourcing!Idle]
    PROVE  cmd'[c].at = "idle"
BY DEF CommandsHold, Sourcing!Idle

(* A command that does not produce, or leaves off, takes nothing from the    *)
(* one that does.                                                            *)
LEMMA OutputsKept ==
    ASSUME CommandsHold, OutputsHold, NEW c \in Fetchers, NEW x, cmd' = [cmd EXCEPT ![c] = x],
           x.at \notin {"export", "gate", "report", "clean", "clean report"},
           UNCHANGED <<produced, production, crowded>>, tampered \in BOOLEAN, tampered => tampered'
    PROVE  OutputsHold'
<1>1. cmd'[c] = x /\ \A d \in Fetchers \ {c} : cmd'[d] = cmd[d]
  BY DEF CommandsHold
<1>2. Sourcing!ReportTrue'
  BY DEF OutputsHold, Sourcing!ReportTrue
<1>3. ASSUME Alone PROVE Alone'
  <2>1. ~Sourcing!Producing(c)' /\ \A d \in Fetchers \ {c} : Sourcing!Producing(d)' = Sourcing!Producing(d)
    BY <1>1 DEF Sourcing!Producing
  <2>2. ASSUME NEW d \in Fetchers
        PROVE  /\ Sourcing!Producing(d)' => production' = Sourcing!Absent
               /\ cmd'[d].at = "gate" /\ produced' # Sourcing!Absent => Made(produced, cmd[d].recipe)'
               /\ cmd'[d].at = "report" =>
                    produced' # Sourcing!Absent /\ cmd'[d].gated = produced' /\ Made(produced, cmd[d].recipe)'
    BY <1>1, <1>3, <2>1 DEF Alone, Made
  <2>. QED BY <1>3, <2>1, <2>2 DEF Alone
<1>. QED BY <1>2, <1>3 DEF OutputsHold

(* The one producer moves on.                                                *)
LEMMA ProducerMoves ==
    ASSUME CommandsHold, Alone, NEW c \in Fetchers, Sourcing!Producing(c), NEW x, cmd' = [cmd EXCEPT ![c] = x],
           production' = Sourcing!Absent \/ x = Sourcing!Idle,
           x.at = "gate" /\ produced' # Sourcing!Absent => Made(produced, x.recipe)',
           x.at = "report" => produced' # Sourcing!Absent /\ x.gated = produced' /\ Made(produced, x.recipe)'
    PROVE  Alone'
<1>1. cmd'[c] = x /\ \A d \in Fetchers \ {c} : cmd'[d] = cmd[d]
  BY DEF CommandsHold
<1>2. \A d \in Fetchers \ {c} : ~Sourcing!Producing(d)' /\ cmd'[d].at \notin {"gate", "report"}
  BY <1>1 DEF Alone, Sourcing!Producing
<1>3. Sourcing!Producing(c)' => production' = Sourcing!Absent
  <2>1. x = Sourcing!Idle => x.at = "idle"
    BY DEF Sourcing!Idle
  <2>. QED BY <1>1, <2>1 DEF Sourcing!Producing
<1>. QED BY <1>1, <1>2, <1>3 DEF Alone

(* A recipe that loads promises the shape its exporter gives.                *)
LEMMA ExportGivesOutput ==
    ASSUME NEW r \in Recipes, Produces(r)
    PROVE  Sourcing!Exported(r) = r.output
<1>1. Sourcing!ProducerOK(r) /\ r.kind \in Sourcing!Producers /\ r.kind = producer /\ producer # "identity"
  BY RecipesAre DEF Produces, Sourcing!LoadsRecipe
<1>2. CASE producer = "sentence"
  <2>1. Sourcing!SentenceProducer(r)
    BY <1>1, <1>2 DEF Sourcing!ProducerOK
  <2>2. r.inputs[1] = SubSeq(r.source, 1, 2) /\ r.output = <<r.inputs[1][1], r.source[3]>> /\ Len(r.source) = 3
    BY <2>1 DEF Sourcing!SentenceProducer
  <2>3. SubSeq(r.source, 1, 2)[1] = r.source[1]
    BY <2>2, RecipesAre
  <2>. QED BY <1>2, <2>2, <2>3 DEF Sourcing!Exported, Sourcing!PoolingNodes
<1>3. CASE producer = "clip"
  BY <1>1, <1>3 DEF Sourcing!ProducerOK, Sourcing!ClipProducer, Sourcing!Exported, Sourcing!ImageOnlyWrapper
<1>4. CASE producer = "retinexformer"
  BY <1>1, <1>4 DEF Sourcing!ProducerOK, Sourcing!RetinexformerProducer, Sourcing!Exported,
                    Sourcing!ClampedRetinexformer
<1>5. CASE producer \in {"point", "quantile"}
  BY <1>1, <1>5 DEF Sourcing!ProducerOK, Sourcing!TimeseriesProducer, Sourcing!Exported,
                    Sourcing!ScalarForecastWrapper
<1>. QED BY <1>1, <1>2, <1>3, <1>4, <1>5 DEF Sourcing!Producers

(* Steps that leave the published version and the outputs alone.             *)
LEMMA VersionKept ==
    ASSUME VersionHolds, UNCHANGED <<fetched, tampered>>,
           claims' = claims \/ \E r \in Recipes : claims' = claims \cup {r} /\ fetched # Sourcing!Absent /\ fetched.receipt = r
    PROVE  VersionHolds'
BY DEF VersionHolds, Sourcing!InstalledWhole, Sourcing!ClaimsAgree

LEMMA StaysPut == UNCHANGED fetched => ReceiptStays
BY DEF ReceiptStays

(* A command that gives up, is refused, killed, or simply done.              *)
LEMMA EndsKeep ==
    ASSUME SourcesInv, NEW c \in Fetchers, cmd' = [cmd EXCEPT ![c] = Sourcing!Idle],
           UNCHANGED <<producer, fetched, tampered, produced, production, crowded>>,
           claims' = claims \/ \E r \in Recipes : claims' = claims \cup {r} /\ fetched # Sourcing!Absent /\ fetched.receipt = r
    PROVE  SourcesInv'
<1>1. PICK x : x = Sourcing!Idle
  OBVIOUS
<1>2. x.at \notin {"export", "gate", "report", "clean", "clean report"}
  BY <1>1 DEF Sourcing!Idle
<1>3. OutputsHold'
  BY <1>1, <1>2, OutputsKept DEF SourcesInv, VersionHolds
<1>. QED BY <1>3, CommandEnds, VersionKept, StaysPut DEF SourcesInv

(* A command that goes on to a step of fetching, or to its outputs.          *)
LEMMA GoesOnKeeps ==
    ASSUME SourcesInv, NEW c \in Fetchers, NEW x, cmd' = [cmd EXCEPT ![c] = x], CommandOK(x),
           x.at \notin {"export", "gate", "report", "clean", "clean report"},
           UNCHANGED <<producer, fetched, tampered, produced, production, crowded>>,
           claims' = claims \/ \E r \in Recipes : claims' = claims \cup {r} /\ fetched # Sourcing!Absent /\ fetched.receipt = r
    PROVE  SourcesInv'
<1>1. CommandOK(x)'
  BY CommandKeeps, StaysPut
<1>2. OutputsHold'
  BY OutputsKept DEF SourcesInv, VersionHolds
<1>. QED BY <1>1, <1>2, OneCommandMoves, VersionKept, StaysPut DEF SourcesInv

LEMMA NothingMoves ==
    ASSUME SourcesInv, UNCHANGED <<producer, fetched, tampered, produced, production, crowded, cmd, claims>>
    PROVE  SourcesInv'
<1>1. CommandsHold'
  <2>1. ASSUME NEW c \in Fetchers PROVE CommandOK(cmd[c])'
    <3>1. PICK y : y = cmd[c]
      OBVIOUS
    <3>2. CommandOK(y)'
      BY <3>1, CommandKeeps, StaysPut DEF SourcesInv, CommandsHold
    <3>. QED BY <3>1, <3>2
  <2>. QED BY <2>1 DEF SourcesInv, CommandsHold
<1>2. VersionHolds'
  BY DEF SourcesInv, VersionHolds, Sourcing!InstalledWhole, Sourcing!ClaimsAgree
<1>3. OutputsHold'
  BY DEF SourcesInv, OutputsHold, Alone, Made, Sourcing!Producing, Sourcing!ReportTrue
<1>. QED BY <1>1, <1>2, <1>3 DEF SourcesInv

LEMMA SourcesStart == Sourcing!Init => SourcesInv
<1>. SUFFICES ASSUME Sourcing!Init PROVE SourcesInv
  OBVIOUS
<1>1. cmd = [c \in Fetchers |-> Sourcing!Idle] /\ \A c \in Fetchers : cmd[c] = Sourcing!Idle
  BY DEF Sourcing!Init
<1>2. CommandsHold
  BY <1>1 DEF CommandsHold, CommandOK
<1>3. VersionHolds
  BY DEF Sourcing!Init, VersionHolds, Sourcing!InstalledWhole, Sourcing!ClaimsAgree
<1>4. \A c \in Fetchers : cmd[c].at = "idle"
  BY <1>1 DEF Sourcing!Idle
<1>5. OutputsHold
  BY <1>4 DEF Sourcing!Init, OutputsHold, Alone, Sourcing!Producing, Sourcing!ReportTrue
<1>. QED BY <1>2, <1>3, <1>5 DEF SourcesInv

LEMMA FetchBeginsKeeps ==
    ASSUME SourcesInv, NEW c \in Fetchers, NEW r \in Recipes, NEW l \in Licenses, Sourcing!FetchBegins(c, r, l)
    PROVE  SourcesInv'
<1>1. CASE UNCHANGED cmd
  BY <1>1, NothingMoves DEF Sourcing!FetchBegins, Sourcing!outputs
<1>2. CASE ~UNCHANGED cmd
  <2>1. PICK x : x = [at |-> "look", recipe |-> r]
    OBVIOUS
  <2>2. CommandOK(x) /\ x.at = "look"
    BY <2>1 DEF CommandOK, CommandOf, Looks
  <2>. QED BY <1>2, <2>1, <2>2, GoesOnKeeps DEF Sourcing!FetchBegins, Sourcing!Step, Sourcing!outputs
<1>. QED BY <1>1, <1>2

LEMMA FetchLooksKeeps ==
    ASSUME SourcesInv, NEW c \in Fetchers, Sourcing!FetchLooks(c)
    PROVE  SourcesInv'
<1>1. PICK y : y = cmd[c]
  OBVIOUS
<1>2. CommandOK(y) /\ y.at = "look"
  BY <1>1 DEF SourcesInv, CommandsHold, Sourcing!FetchLooks
<1>3. PICK r \in Recipes : y = [at |-> y.at, recipe |-> r]
  BY <1>2, LookingHolds
<1>4. cmd[c].recipe = r
  BY <1>1, <1>3
<1>5. CASE fetched = Sourcing!Absent
  <2>1. PICK x : x = [at |-> "fetch", recipe |-> r, stage |-> <<>>, got |-> <<>>]
    OBVIOUS
  <2>2. StagedFrom(<<>>, r) /\ <<>> \in Seq(Chunks)
    BY RecipesAre DEF StagedFrom
  <2>3. CommandOK(x) /\ x.at = "fetch"
    BY <2>1, <2>2 DEF CommandOK, CommandOf, Fetches
  <2>. QED BY <1>4, <1>5, <2>1, <2>3, GoesOnKeeps
           DEF Sourcing!FetchLooks, Sourcing!Step, Sourcing!outputs, Sourcing!ghosts
<1>6. CASE fetched # Sourcing!Absent
  BY <1>4, <1>6, EndsKeep
  DEF Sourcing!FetchLooks, Sourcing!Ends, Sourcing!Step, Sourcing!Returns, Sourcing!InstalledMatches,
      Sourcing!outputs, Sourcing!ghosts
<1>. QED BY <1>5, <1>6

LEMMA FetchFacts ==
    ASSUME SourcesInv, NEW c \in Fetchers, cmd[c].at = "fetch"
    PROVE  \E r \in Recipes : \E s, g :
              /\ cmd[c] = [at |-> "fetch", recipe |-> r, stage |-> s, got |-> g]
              /\ StagedFrom(s, r) /\ g \in Seq(Chunks)
<1>1. PICK y : y = cmd[c]
  OBVIOUS
<1>2. CommandOK(y) /\ y.at = "fetch"
  BY <1>1 DEF SourcesInv, CommandsHold
<1>. QED BY <1>1, <1>2, FetchingHolds

LEMMA ChunkKeeps ==
    ASSUME SourcesInv, NEW c \in Fetchers, NEW chunk \in Chunks, Sourcing!Chunk(c, chunk)
    PROVE  SourcesInv'
<1>1. PICK r \in Recipes : \E s, g :
         /\ cmd[c] = [at |-> "fetch", recipe |-> r, stage |-> s, got |-> g]
         /\ StagedFrom(s, r) /\ g \in Seq(Chunks)
  BY FetchFacts DEF Sourcing!Chunk, Sourcing!Fetching
<1>2. PICK s, g : /\ cmd[c] = [at |-> "fetch", recipe |-> r, stage |-> s, got |-> g]
                  /\ StagedFrom(s, r) /\ g \in Seq(Chunks)
  BY <1>1
<1>3. CASE Len(cmd[c].got) < Len(Sourcing!Source(c).bytes)
  <2>0. PICK h : h = Append(g, chunk)
    OBVIOUS
  <2>1. PICK x : x = [at |-> "fetch", recipe |-> r, stage |-> s, got |-> h]
    OBVIOUS
  <2>2. h \in Seq(Chunks)
    BY <1>2, <2>0
  <2>3. CommandOK(x) /\ x.at = "fetch"
    BY <1>2, <2>1, <2>2 DEF CommandOK, CommandOf, Fetches
  <2>4. [cmd[c] EXCEPT !.got = Append(@, chunk)] = x
    <3>1. PICK y : y = cmd[c]
      OBVIOUS
    <3>2. y = [at |-> "fetch", recipe |-> r, stage |-> s, got |-> g] /\ y.got = g
      BY <1>2, <3>1
    <3>3. [y EXCEPT !.got = h] = x
      BY <2>1, <3>2
    <3>. QED BY <2>0, <3>1, <3>2, <3>3
  <2>5. cmd' = [cmd EXCEPT ![c] = x]
    BY <1>3, <2>4 DEF Sourcing!Chunk, Sourcing!Step
  <2>. QED BY <2>3, <2>5, GoesOnKeeps DEF Sourcing!Chunk, Sourcing!outputs, Sourcing!ghosts
<1>4. CASE ~(Len(cmd[c].got) < Len(Sourcing!Source(c).bytes))
  BY <1>4, EndsKeep DEF Sourcing!Chunk, Sourcing!Ends, Sourcing!Step, Sourcing!outputs, Sourcing!ghosts
<1>. QED BY <1>3, <1>4

LEMMA FetchOneKeeps ==
    ASSUME SourcesInv, NEW c \in Fetchers, Sourcing!FetchOne(c)
    PROVE  SourcesInv'
<1>1. PICK r \in Recipes : \E s, g :
         /\ cmd[c] = [at |-> "fetch", recipe |-> r, stage |-> s, got |-> g]
         /\ StagedFrom(s, r) /\ g \in Seq(Chunks)
  BY FetchFacts DEF Sourcing!FetchOne, Sourcing!Fetching
<1>2. PICK s, g : /\ cmd[c] = [at |-> "fetch", recipe |-> r, stage |-> s, got |-> g]
                  /\ StagedFrom(s, r) /\ g \in Seq(Chunks)
  BY <1>1
<1>3. Len(s) < Len(r.sources) /\ Sourcing!Source(c) = r.sources[Len(s) + 1]
  BY <1>2 DEF Sourcing!FetchOne, Sourcing!Fetching, Sourcing!Source
<1>4. CASE Sourcing!SourceAccepted(cmd[c].got, Sourcing!Source(c))
  <2>1. g = r.sources[Len(s) + 1].bytes
    BY <1>2, <1>3, <1>4 DEF Sourcing!SourceAccepted
  <2>2. PICK q : q = Append(s, g)
    OBVIOUS
  <2>3. StagedFrom(q, r)
    <3>1. s \in Seq(Seq(Chunks)) /\ Len(s) \in Nat /\ Len(r.sources) \in Nat
      BY <1>2, RecipesAre DEF StagedFrom
    <3>2. q \in Seq(Seq(Chunks)) /\ Len(q) = Len(s) + 1 /\ q[Len(s) + 1] = g
          /\ \A k \in 1 .. Len(s) : q[k] = s[k]
      BY <1>2, <2>2, <3>1
    <3>3. \A k \in 1 .. Len(q) : k \in 1 .. Len(s) \/ k = Len(s) + 1
      BY <3>1, <3>2
    <3>4. \A k \in 1 .. Len(q) : q[k] = r.sources[k].bytes
      BY <1>2, <2>1, <3>2, <3>3 DEF StagedFrom
    <3>5. Len(q) <= Len(r.sources)
      BY <1>3, <3>1, <3>2
    <3>. QED BY <3>2, <3>4, <3>5 DEF StagedFrom
  <2>4. PICK x : x = [at |-> "fetch", recipe |-> r, stage |-> q, got |-> <<>>]
    OBVIOUS
  <2>5. <<>> \in Seq(Chunks)
    OBVIOUS
  <2>6. CommandOK(x) /\ x.at = "fetch"
    BY <2>3, <2>4, <2>5 DEF CommandOK, CommandOf, Fetches
  <2>7. [cmd[c] EXCEPT !.stage = Append(@, cmd[c].got), !.got = <<>>] = x
    <3>1. PICK y : y = cmd[c]
      OBVIOUS
    <3>2. y = [at |-> "fetch", recipe |-> r, stage |-> s, got |-> g] /\ y.stage = s /\ y.got = g
      BY <1>2, <3>1
    <3>3. [y EXCEPT !.stage = q] = [at |-> "fetch", recipe |-> r, stage |-> q, got |-> g]
      BY <3>2
    <3>4. PICK z : z = [at |-> "fetch", recipe |-> r, stage |-> q, got |-> g]
      OBVIOUS
    <3>5. [z EXCEPT !.got = <<>>] = x
      BY <2>4, <3>4
    <3>. QED BY <2>2, <3>1, <3>2, <3>3, <3>4, <3>5
  <2>8. cmd' = [cmd EXCEPT ![c] = x]
    BY <1>4, <2>7 DEF Sourcing!FetchOne, Sourcing!Step
  <2>. QED BY <2>6, <2>8, GoesOnKeeps DEF Sourcing!FetchOne, Sourcing!outputs, Sourcing!ghosts
<1>5. CASE ~Sourcing!SourceAccepted(cmd[c].got, Sourcing!Source(c))
  BY <1>5, EndsKeep DEF Sourcing!FetchOne, Sourcing!Ends, Sourcing!Step, Sourcing!outputs, Sourcing!ghosts
<1>. QED BY <1>4, <1>5

LEMMA WriteReceiptKeeps ==
    ASSUME SourcesInv, NEW c \in Fetchers, Sourcing!WriteReceipt(c)
    PROVE  SourcesInv'
<1>1. PICK r \in Recipes : \E s, g :
         /\ cmd[c] = [at |-> "fetch", recipe |-> r, stage |-> s, got |-> g]
         /\ StagedFrom(s, r) /\ g \in Seq(Chunks)
  BY FetchFacts DEF Sourcing!WriteReceipt
<1>2. PICK s, g : /\ cmd[c] = [at |-> "fetch", recipe |-> r, stage |-> s, got |-> g]
                  /\ StagedFrom(s, r) /\ g \in Seq(Chunks)
  BY <1>1
<1>3. Len(s) = Len(r.sources) /\ cmd[c].recipe = r /\ cmd[c].stage = s
  BY <1>2 DEF Sourcing!WriteReceipt
<1>4. s = Sourcing!PinnedFiles(r)
  <2>1. s = [k \in 1 .. Len(s) |-> s[k]] /\ Len(s) \in Nat
    BY <1>2 DEF StagedFrom
  <2>2. DOMAIN r.sources = 1 .. Len(s) /\ \A k \in 1 .. Len(s) : s[k] = r.sources[k].bytes
    BY <1>2, <1>3, RecipesAre DEF StagedFrom
  <2>. QED BY <2>1, <2>2 DEF Sourcing!PinnedFiles
<1>5. PICK x : x = [at |-> "publish", recipe |-> r, stage |-> s]
  OBVIOUS
<1>6. CommandOK(x) /\ x.at = "publish"
  BY <1>4, <1>5 DEF CommandOK, CommandOf, Publishes
<1>. QED BY <1>3, <1>5, <1>6, GoesOnKeeps
         DEF Sourcing!WriteReceipt, Sourcing!Step, Sourcing!outputs, Sourcing!ghosts

LEMMA PublishStageKeeps ==
    ASSUME SourcesInv, NEW c \in Fetchers, Sourcing!PublishStage(c)
    PROVE  SourcesInv'
<1>1. PICK y : y = cmd[c]
  OBVIOUS
<1>2. CommandOK(y) /\ y.at = "publish"
  BY <1>1 DEF SourcesInv, CommandsHold, Sourcing!PublishStage
<1>3. PICK r \in Recipes : \E s :
         y = [at |-> "publish", recipe |-> r, stage |-> s] /\ s = Sourcing!PinnedFiles(r)
  BY <1>2, PublishingHolds
<1>4. cmd[c].recipe = r /\ cmd[c].stage = Sourcing!PinnedFiles(r)
  BY <1>1, <1>3
<1>5. CASE fetched = Sourcing!Absent
  <2>1. /\ fetched' = [receipt |-> r, files |-> Sourcing!PinnedFiles(r)]
        /\ cmd' = [cmd EXCEPT ![c] = Sourcing!Idle] /\ claims' = claims \cup {r}
        /\ UNCHANGED <<producer, tampered, produced, production, crowded>>
    BY <1>4, <1>5 DEF Sourcing!PublishStage, Sourcing!Ends, Sourcing!Step, Sourcing!Returns,
                      Sourcing!outputs, Sourcing!ghosts
  <2>2. fetched' # Sourcing!Absent
    BY <2>1, PublishedIsThere
  <2>3. CommandsHold'
    BY <1>5, <2>1, CommandEnds DEF ReceiptStays, SourcesInv
  <2>4. claims = {}
    BY <1>5 DEF SourcesInv, VersionHolds, Sourcing!ClaimsAgree
  <2>5. VersionHolds'
    BY <2>1, <2>2, <2>4 DEF SourcesInv, VersionHolds, Sourcing!InstalledWhole, Sourcing!ClaimsAgree
  <2>6. PICK x : x = Sourcing!Idle
    OBVIOUS
  <2>7. x.at = "idle"
    BY <2>6 DEF Sourcing!Idle
  <2>8. OutputsHold'
    BY <2>1, <2>6, <2>7, OutputsKept DEF SourcesInv, VersionHolds
  <2>. QED BY <2>3, <2>5, <2>8 DEF SourcesInv
<1>6. CASE fetched # Sourcing!Absent
  <2>1. PICK x : x = [at |-> "compare", recipe |-> r]
    OBVIOUS
  <2>2. CommandOK(x) /\ x.at = "compare"
    BY <2>1 DEF CommandOK, CommandOf, Looks
  <2>. QED BY <1>4, <1>6, <2>1, <2>2, GoesOnKeeps
           DEF Sourcing!PublishStage, Sourcing!Step, Sourcing!outputs, Sourcing!ghosts
<1>. QED BY <1>5, <1>6

LEMMA PublishedFirstKeeps ==
    ASSUME SourcesInv, NEW c \in Fetchers, Sourcing!PublishedFirst(c)
    PROVE  SourcesInv'
<1>1. PICK y : y = cmd[c]
  OBVIOUS
<1>2. CommandOK(y) /\ y.at = "compare"
  BY <1>1 DEF SourcesInv, CommandsHold, Sourcing!PublishedFirst
<1>3. PICK r \in Recipes : y = [at |-> y.at, recipe |-> r]
  BY <1>2, LookingHolds
<1>4. cmd[c].recipe = r
  BY <1>1, <1>3
<1>. QED BY <1>4, EndsKeep
         DEF Sourcing!PublishedFirst, Sourcing!Ends, Sourcing!Step, Sourcing!Returns,
             Sourcing!InstalledMatches, Sourcing!outputs, Sourcing!ghosts

LEMMA OpensSourceKeeps ==
    ASSUME SourcesInv, NEW c \in Fetchers, NEW r \in Recipes, Sourcing!OpensSource(c, r)
    PROVE  SourcesInv'
<1>1. UNCHANGED <<producer, fetched, tampered, produced, production, crowded>>
  BY DEF Sourcing!OpensSource, Sourcing!outputs
<1>2. CASE ~(Sourcing!LoadsRecipe(r) /\ Sourcing!InstalledMatches(r))
  BY <1>1, <1>2, NothingMoves DEF Sourcing!OpensSource
<1>3. CASE Sourcing!LoadsRecipe(r) /\ Sourcing!InstalledMatches(r)
  <2>1. fetched # Sourcing!Absent /\ fetched.receipt = r /\ claims' = claims \cup {r} /\ r.kind = producer
    BY <1>3 DEF Sourcing!OpensSource, Sourcing!InstalledMatches, Sourcing!Returns
  <2>2. CASE producer = "identity"
    BY <1>1, <1>3, <2>1, <2>2, EndsKeep DEF Sourcing!OpensSource, Sourcing!Step
  <2>3. CASE producer # "identity"
    <3>1. PICK x : x = [at |-> "outputs", recipe |-> r]
      OBVIOUS
    <3>2. Produces(r)
      BY <1>3, <2>1, <2>3 DEF Produces
    <3>3. CommandOK(x) /\ x.at = "outputs"
      BY <3>1, <3>2 DEF CommandOK, CommandOf, Exports
    <3>. QED BY <1>1, <1>3, <2>1, <2>3, <3>1, <3>3, GoesOnKeeps DEF Sourcing!OpensSource, Sourcing!Step
  <2>. QED BY <2>2, <2>3
<1>. QED BY <1>2, <1>3

LEMMA EndingKeeps ==
    ASSUME SourcesInv, NEW c \in Fetchers,
           Sourcing!FetchFails(c) \/ Sourcing!Killed(c)
    PROVE  SourcesInv'
BY EndsKeep DEF Sourcing!FetchFails, Sourcing!Killed, Sourcing!Ends, Sourcing!Step, Sourcing!outputs,
                Sourcing!ghosts

(* The producer changes its step and nothing else that is held.              *)
LEMMA ProducerStepKeeps ==
    ASSUME SourcesInv, NEW c \in Fetchers, NEW x, cmd' = [cmd EXCEPT ![c] = x], CommandOK(x),
           UNCHANGED <<producer, fetched, tampered, claims, crowded>>,
           Sourcing!Producing(c), Sourcing!ReportTrue',
           ~crowded => production' = Sourcing!Absent \/ x = Sourcing!Idle,
           ~crowded => (x.at = "gate" /\ produced' # Sourcing!Absent => Made(produced, x.recipe)'),
           ~crowded => (x.at = "report" => /\ produced' # Sourcing!Absent /\ x.gated = produced'
                                           /\ Made(produced, x.recipe)')
    PROVE  SourcesInv'
<1>1. CommandOK(x)'
  BY CommandKeeps, StaysPut
<1>2. CommandsHold'
  BY <1>1, OneCommandMoves, StaysPut DEF SourcesInv
<1>3. ~crowded => Alone'
  BY ProducerMoves DEF SourcesInv, OutputsHold
<1>4. OutputsHold'
  BY <1>3 DEF OutputsHold, SourcesInv
<1>. QED BY <1>2, <1>4, VersionKept DEF SourcesInv

(* A recipe whose producer is at work is the published one.                  *)
LEMMA ProducerFacts ==
    ASSUME SourcesInv, NEW c \in Fetchers
    PROVE  /\ cmd[c].at \in {"outputs", "export", "gate"} =>
                \E r \in Recipes : Produces(r) /\ cmd[c] = [at |-> cmd[c].at, recipe |-> r]
           /\ cmd[c].at = "report" =>
                \E r \in Recipes : \E m : Produces(r) /\ cmd[c] = [at |-> "report", recipe |-> r, gated |-> m]
           /\ cmd[c].at \in {"clean", "clean report"} =>
                \E r \in Recipes :
                  /\ Produces(r)
                  /\ \/ cmd[c] = [at |-> cmd[c].at, recipe |-> r]
                     \/ \E m : cmd[c] = [at |-> cmd[c].at, recipe |-> r, gated |-> m]
<1>1. PICK y : y = cmd[c]
  OBVIOUS
<1>2. CommandOK(y)
  BY <1>1 DEF SourcesInv, CommandsHold
<1>3. y.at \in {"outputs", "export", "gate"} => \E r \in Recipes : Produces(r) /\ y = [at |-> y.at, recipe |-> r]
  BY <1>2, ProducingHolds
<1>4. y.at = "report" => \E r \in Recipes : \E m : Produces(r) /\ y = [at |-> "report", recipe |-> r, gated |-> m]
  BY <1>2, ReportingHolds
<1>5. y.at \in {"clean", "clean report"} =>
         \E r \in Recipes :
           /\ Produces(r)
           /\ y = [at |-> y.at, recipe |-> r] \/ \E m : y = [at |-> y.at, recipe |-> r, gated |-> m]
  BY <1>2, CleaningHolds
<1>. QED BY <1>1, <1>3, <1>4, <1>5

LEMMA OutputsFreeKeeps ==
    ASSUME SourcesInv, NEW c \in Fetchers, Sourcing!OutputsFree(c)
    PROVE  SourcesInv'
<1>1. PICK r \in Recipes : Produces(r) /\ cmd[c] = [at |-> cmd[c].at, recipe |-> r]
  BY ProducerFacts DEF Sourcing!OutputsFree
<1>2. CASE produced = Sourcing!Absent /\ production = Sourcing!Absent
  <2>1. PICK x : x = [at |-> "export", recipe |-> r]
    OBVIOUS
  <2>2. CommandOK(x) /\ x.at = "export"
    BY <1>1, <2>1 DEF CommandOK, CommandOf, Exports
  <2>3. [cmd[c] EXCEPT !.at = "export"] = x
    BY <1>1, <2>1
  <2>4. cmd' = [cmd EXCEPT ![c] = x]
    BY <1>2, <2>3 DEF Sourcing!OutputsFree, Sourcing!Step
  <2>5. UNCHANGED <<producer, fetched, tampered, claims, produced, production>>
    BY DEF Sourcing!OutputsFree, Sourcing!outputs
  <2>6. CommandsHold'
    BY <2>2, <2>4, <2>5, CommandKeeps, OneCommandMoves, StaysPut DEF SourcesInv
  <2>7. crowded' = (crowded \/ \E d \in Fetchers : Sourcing!Producing(d))
    BY <1>2 DEF Sourcing!OutputsFree
  <2>8. cmd'[c] = x /\ \A d \in Fetchers \ {c} : cmd'[d] = cmd[d]
    BY <2>4 DEF SourcesInv, CommandsHold
  <2>9. ~crowded' => Alone'
    <3>. SUFFICES ASSUME ~crowded' PROVE Alone'
      OBVIOUS
    <3>1. \A d \in Fetchers \ {c} : ~Sourcing!Producing(d)' /\ cmd'[d].at \notin {"gate", "report"}
      BY <2>7, <2>8 DEF Sourcing!Producing
    <3>. QED BY <1>2, <2>2, <2>5, <2>8, <3>1 DEF Alone
  <2>10. Sourcing!ReportTrue'
    BY <1>2, <2>5 DEF Sourcing!ReportTrue
  <2>11. OutputsHold'
    BY <2>7, <2>9, <2>10 DEF OutputsHold, SourcesInv
  <2>. QED BY <2>5, <2>6, <2>11, VersionKept DEF SourcesInv
<1>3. CASE ~(produced = Sourcing!Absent /\ production = Sourcing!Absent)
  BY <1>3, EndsKeep DEF Sourcing!OutputsFree, Sourcing!Ends, Sourcing!Step, Sourcing!outputs
<1>. QED BY <1>2, <1>3

(* The steps that end in a clean-up, from the one before the report.         *)
LEMMA CleanUpKeeps ==
    ASSUME SourcesInv, NEW c \in Fetchers, cmd[c].at \in {"export", "gate", "report"}, Sourcing!CleanUp(c),
           UNCHANGED <<producer, fetched, tampered, claims, crowded, produced, production>>
    PROVE  SourcesInv'
<1>1. PICK r \in Recipes :
         /\ Produces(r)
         /\ cmd[c] = [at |-> cmd[c].at, recipe |-> r] \/ \E m : cmd[c] = [at |-> cmd[c].at, recipe |-> r, gated |-> m]
  BY ProducerFacts
<1>2. PICK x : x = [cmd[c] EXCEPT !.at = "clean"]
  OBVIOUS
<1>3. x.at = "clean" /\ CommandOK(x)
  <2>1. CASE cmd[c] = [at |-> cmd[c].at, recipe |-> r]
    <3>1. x = [at |-> "clean", recipe |-> r]
      BY <1>2, <2>1
    <3>. QED BY <1>1, <3>1 DEF CommandOK, CommandOf, Exports
  <2>2. ASSUME NEW m, cmd[c] = [at |-> cmd[c].at, recipe |-> r, gated |-> m] PROVE x.at = "clean" /\ CommandOK(x)
    <3>1. x = [at |-> "clean", recipe |-> r, gated |-> m]
      BY <1>2, <2>2
    <3>. QED BY <1>1, <3>1 DEF CommandOK, CommandOf, Reports
  <2>. QED BY <1>1, <2>1, <2>2
<1>4. Sourcing!Producing(c) /\ cmd' = [cmd EXCEPT ![c] = x]
  BY <1>2 DEF Sourcing!Producing, Sourcing!CleanUp, Sourcing!Step
<1>5. Sourcing!ReportTrue' /\ (~crowded => production' = Sourcing!Absent)
  BY <1>4 DEF SourcesInv, OutputsHold, Alone, Sourcing!ReportTrue
<1>. QED BY <1>3, <1>4, <1>5, ProducerStepKeeps

LEMMA ExportKeeps ==
    ASSUME SourcesInv, NEW c \in Fetchers, Sourcing!Export(c)
    PROVE  SourcesInv'
<1>1. cmd[c].at = "export"
  BY DEF Sourcing!Export
<1>2. PICK r \in Recipes : Produces(r) /\ cmd[c] = [at |-> cmd[c].at, recipe |-> r]
  BY <1>1, ProducerFacts
<1>3. cmd[c].recipe = r /\ Sourcing!Exported(r) = r.output
  BY <1>2, ExportGivesOutput
<1>4. CASE Sourcing!GraphOK(Sourcing!Exported(cmd[c].recipe))
  <2>1. PICK x : x = [at |-> "gate", recipe |-> r]
    OBVIOUS
  <2>2. CommandOK(x) /\ x.at = "gate" /\ x.recipe = r
    BY <1>2, <2>1 DEF CommandOK, CommandOf, Exports
  <2>3. [cmd[c] EXCEPT !.at = "gate"] = x
    BY <1>2, <2>1
  <2>4. cmd' = [cmd EXCEPT ![c] = x]
    BY <1>4, <2>3 DEF Sourcing!Export, Sourcing!Step
  <2>5. produced' = [files |-> fetched.files, shape |-> r.output]
    BY <1>3, <1>4 DEF Sourcing!Export
  <2>6. UNCHANGED <<producer, fetched, tampered, claims, crowded, production>>
    BY DEF Sourcing!Export, Sourcing!ghosts
  <2>7. Sourcing!Producing(c) /\ (~crowded => production' = Sourcing!Absent)
    BY <1>1, <2>6 DEF SourcesInv, OutputsHold, Alone, Sourcing!Producing
  <2>8. Sourcing!ReportTrue'
    BY <2>6, <2>7 DEF Sourcing!ReportTrue
  <2>9. Made(produced, x.recipe)'
    BY <1>2, <2>2, <2>5, <2>6 DEF Made, SourcesInv, VersionHolds, Sourcing!InstalledWhole, Produces
  <2>. QED BY <2>2, <2>4, <2>6, <2>7, <2>8, <2>9, ProducerStepKeeps
<1>5. CASE ~Sourcing!GraphOK(Sourcing!Exported(cmd[c].recipe))
  BY <1>1, <1>5, CleanUpKeeps DEF Sourcing!Export, Sourcing!ghosts
<1>. QED BY <1>4, <1>5

LEMMA EvaluateKeeps ==
    ASSUME SourcesInv, NEW c \in Fetchers, NEW m \in Measurements, Sourcing!Evaluate(c, m)
    PROVE  SourcesInv'
<1>1. cmd[c].at = "gate" /\ UNCHANGED <<producer, fetched, tampered, claims, crowded, produced, production>>
  BY DEF Sourcing!Evaluate, Sourcing!ghosts, Sourcing!outputs
<1>2. PICK r \in Recipes : Produces(r) /\ cmd[c] = [at |-> cmd[c].at, recipe |-> r]
  BY <1>1, ProducerFacts
<1>3. cmd[c].recipe = r
  BY <1>2
<1>4. CASE produced # Sourcing!Absent /\ Sourcing!GateAccepts(m, produced.shape)
  <2>0. PICK p : p = produced
    OBVIOUS
  <2>1. PICK x : x = [at |-> "report", recipe |-> r, gated |-> p]
    OBVIOUS
  <2>2. CommandOK(x) /\ x.at = "report" /\ x.recipe = r /\ x.gated = p
    BY <1>2, <2>1 DEF CommandOK, CommandOf, Reports
  <2>3. cmd' = [cmd EXCEPT ![c] = x]
    BY <1>3, <1>4, <2>0, <2>1 DEF Sourcing!Evaluate, Sourcing!Step
  <2>4. Sourcing!Producing(c) /\ (~crowded => production' = Sourcing!Absent)
    BY <1>1 DEF SourcesInv, OutputsHold, Alone, Sourcing!Producing
  <2>5. Sourcing!ReportTrue'
    BY <1>1 DEF SourcesInv, OutputsHold, Sourcing!ReportTrue
  <2>6. ~crowded => produced' # Sourcing!Absent /\ x.gated = produced' /\ Made(produced, x.recipe)'
    BY <1>1, <1>3, <1>4, <2>0, <2>2 DEF SourcesInv, OutputsHold, Alone, Made
  <2>. QED BY <1>1, <2>2, <2>3, <2>4, <2>5, <2>6, ProducerStepKeeps
<1>5. CASE ~(produced # Sourcing!Absent /\ Sourcing!GateAccepts(m, produced.shape))
  BY <1>1, <1>5, CleanUpKeeps DEF Sourcing!Evaluate
<1>. QED BY <1>4, <1>5

LEMMA ProductionReportKeeps ==
    ASSUME SourcesInv, NEW c \in Fetchers, Sourcing!ProductionReport(c)
    PROVE  SourcesInv'
<1>1. cmd[c].at = "report" /\ UNCHANGED <<producer, fetched, tampered, claims, crowded, produced>>
  BY DEF Sourcing!ProductionReport, Sourcing!ghosts
<1>2. PICK r \in Recipes : \E m : Produces(r) /\ cmd[c] = [at |-> "report", recipe |-> r, gated |-> m]
  BY <1>1, ProducerFacts
<1>3. cmd[c].recipe = r /\ Produces(r)
  BY <1>2
<1>4. CASE produced # Sourcing!Absent
  <2>1. PICK x : x = Sourcing!Idle
    OBVIOUS
  <2>2. x.at = "idle" /\ CommandOK(x) /\ cmd' = [cmd EXCEPT ![c] = x] /\ Sourcing!Producing(c)
    BY <1>1, <1>4, <2>1 DEF CommandOK, Sourcing!Idle, Sourcing!ProductionReport, Sourcing!Ends, Sourcing!Step,
                            Sourcing!Producing
  <2>3. production' = [recipe |-> r, receipt |-> fetched.receipt, model |-> produced, gated |-> cmd[c].gated]
    BY <1>3, <1>4 DEF Sourcing!ProductionReport
  <2>4. ~crowded => cmd[c].gated = produced /\ Made(produced, r)
    BY <1>1, <1>3 DEF SourcesInv, OutputsHold, Alone
  <2>5. Sourcing!ReportTrue'
    BY <1>1, <1>3, <1>4, <2>3, <2>4 DEF Sourcing!ReportTrue, Made, Produces
  <2>. QED BY <1>1, <2>1, <2>2, <2>5, ProducerStepKeeps
<1>5. CASE produced = Sourcing!Absent
  BY <1>1, <1>5, CleanUpKeeps DEF Sourcing!ProductionReport
<1>. QED BY <1>4, <1>5

LEMMA ProductionFailsKeeps ==
    ASSUME SourcesInv, NEW c \in Fetchers, Sourcing!ProductionFails(c)
    PROVE  SourcesInv'
BY CleanUpKeeps DEF Sourcing!ProductionFails, Sourcing!ghosts, Sourcing!outputs

LEMMA StepChanges ==
    ASSUME NEW y, NEW v, NEW r
    PROVE  /\ y = [at |-> y.at, recipe |-> r] => [y EXCEPT !.at = v] = [at |-> v, recipe |-> r]
           /\ \A m : y = [at |-> y.at, recipe |-> r, gated |-> m] =>
                       [y EXCEPT !.at = v] = [at |-> v, recipe |-> r, gated |-> m]
<1>1. ASSUME y = [at |-> y.at, recipe |-> r] PROVE [y EXCEPT !.at = v] = [at |-> v, recipe |-> r]
  BY <1>1
<1>2. ASSUME NEW m, y = [at |-> y.at, recipe |-> r, gated |-> m]
      PROVE  [y EXCEPT !.at = v] = [at |-> v, recipe |-> r, gated |-> m]
  BY <1>2
<1>. QED BY <1>1, <1>2

LEMMA CleanModelKeeps ==
    ASSUME SourcesInv, NEW c \in Fetchers, Sourcing!CleanModel(c)
    PROVE  SourcesInv'
<1>0. cmd[c].at = "clean" /\ UNCHANGED <<producer, fetched, tampered, claims, crowded, production>>
  BY DEF Sourcing!CleanModel, Sourcing!ghosts
<1>1. PICK r \in Recipes :
         /\ Produces(r)
         /\ cmd[c] = [at |-> cmd[c].at, recipe |-> r] \/ \E m : cmd[c] = [at |-> cmd[c].at, recipe |-> r, gated |-> m]
  BY <1>0, ProducerFacts
<1>2. PICK v : v = "clean report"
  OBVIOUS
<1>3. PICK x : x = [cmd[c] EXCEPT !.at = v]
  OBVIOUS
<1>4. x.at = "clean report" /\ CommandOK(x)
  <2>1. CASE cmd[c] = [at |-> cmd[c].at, recipe |-> r]
    <3>1. x = [at |-> v, recipe |-> r]
      BY <1>3, <2>1, StepChanges
    <3>. QED BY <1>1, <1>2, <3>1 DEF CommandOK, CommandOf, Exports
  <2>2. ASSUME NEW m, cmd[c] = [at |-> cmd[c].at, recipe |-> r, gated |-> m]
        PROVE  x.at = "clean report" /\ CommandOK(x)
    <3>1. x = [at |-> v, recipe |-> r, gated |-> m]
      BY <1>3, <2>2, StepChanges
    <3>. QED BY <1>1, <1>2, <3>1 DEF CommandOK, CommandOf, Reports
  <2>. QED BY <1>1, <2>1, <2>2
<1>5. Sourcing!Producing(c) /\ cmd' = [cmd EXCEPT ![c] = x]
  BY <1>0, <1>2, <1>3 DEF Sourcing!Producing, Sourcing!CleanModel, Sourcing!Step
<1>6. ~crowded => production' = Sourcing!Absent
  BY <1>0, <1>5 DEF SourcesInv, OutputsHold, Alone
<1>7. Sourcing!ReportTrue'
  BY <1>0, <1>6 DEF Sourcing!ReportTrue
<1>. QED BY <1>0, <1>4, <1>5, <1>6, <1>7, ProducerStepKeeps

LEMMA CleanReportKeeps ==
    ASSUME SourcesInv, NEW c \in Fetchers, Sourcing!CleanReport(c)
    PROVE  SourcesInv'
<1>1. PICK x : x = Sourcing!Idle
  OBVIOUS
<1>2. /\ x.at = "idle" /\ CommandOK(x) /\ cmd' = [cmd EXCEPT ![c] = x] /\ Sourcing!Producing(c)
      /\ UNCHANGED <<producer, fetched, tampered, claims, crowded, produced>> /\ production' = Sourcing!Absent
  BY <1>1 DEF CommandOK, Sourcing!Idle, Sourcing!CleanReport, Sourcing!Ends, Sourcing!Step, Sourcing!Producing,
              Sourcing!ghosts
<1>3. Sourcing!ReportTrue'
  BY <1>2 DEF Sourcing!ReportTrue
<1>. QED BY <1>2, <1>3, ProducerStepKeeps

LEMMA TamperKeeps ==
    ASSUME SourcesInv, NEW chunk \in Chunks, Sourcing!Tamper(chunk)
    PROVE  SourcesInv'
<1>1. /\ fetched # Sourcing!Absent /\ tampered' = TRUE
      /\ UNCHANGED <<producer, produced, production, cmd, claims, crowded>>
  BY DEF Sourcing!Tamper, Sourcing!outputs
<1>2. PICK a, b : fetched = [receipt |-> a, files |-> b]
  BY <1>1 DEF SourcesInv, VersionHolds
<1>3. PICK f : fetched' = [receipt |-> a, files |-> f]
  <2>1. fetched' = [fetched EXCEPT !.files = [fetched.files EXCEPT ![1] = <<chunk>>]]
    BY DEF Sourcing!Tamper
  <2>2. PICK f : f = [fetched.files EXCEPT ![1] = <<chunk>>]
    OBVIOUS
  <2>. QED BY <1>2, <2>1, <2>2
<1>4. fetched' # Sourcing!Absent /\ fetched'.receipt = fetched.receipt
  BY <1>2, <1>3, PublishedIsThere
<1>5. CommandsHold'
  <2>1. ASSUME NEW c \in Fetchers PROVE CommandOK(cmd[c])'
    <3>1. PICK y : y = cmd[c]
      OBVIOUS
    <3>2. CommandOK(y)'
      BY <1>1, <1>4, <3>1, CommandKeeps DEF SourcesInv, CommandsHold, ReceiptStays
    <3>. QED BY <1>1, <3>1, <3>2
  <2>. QED BY <1>1, <2>1 DEF SourcesInv, CommandsHold
<1>6. VersionHolds'
  BY <1>1, <1>3, <1>4 DEF SourcesInv, VersionHolds, Sourcing!InstalledWhole, Sourcing!ClaimsAgree
<1>7. OutputsHold'
  BY <1>1 DEF SourcesInv, OutputsHold, Alone, Made, Sourcing!Producing, Sourcing!ReportTrue
<1>. QED BY <1>5, <1>6, <1>7 DEF SourcesInv

LEMMA SourcesStep == SourcesInv /\ [Sourcing!Next]_Sourcing!sourceVars => SourcesInv'
<1>. SUFFICES ASSUME SourcesInv, [Sourcing!Next]_Sourcing!sourceVars PROVE SourcesInv'
  OBVIOUS
<1>1. CASE UNCHANGED Sourcing!sourceVars
  BY <1>1, NothingMoves DEF Sourcing!sourceVars
<1>2. ASSUME NEW c \in Fetchers, NEW r \in Recipes,
             Sourcing!OpensSource(c, r) \/ \E l \in Licenses : Sourcing!FetchBegins(c, r, l)
      PROVE  SourcesInv'
  BY <1>2, OpensSourceKeeps, FetchBeginsKeeps
<1>3. ASSUME NEW c \in Fetchers,
             \/ Sourcing!FetchLooks(c) \/ \E chunk \in Chunks : Sourcing!Chunk(c, chunk)
             \/ Sourcing!FetchOne(c) \/ Sourcing!FetchFails(c) \/ Sourcing!WriteReceipt(c)
             \/ Sourcing!PublishStage(c) \/ Sourcing!PublishedFirst(c) \/ Sourcing!Killed(c)
      PROVE  SourcesInv'
  BY <1>3, FetchLooksKeeps, ChunkKeeps, FetchOneKeeps, EndingKeeps, WriteReceiptKeeps, PublishStageKeeps,
     PublishedFirstKeeps
<1>4. ASSUME NEW c \in Fetchers,
             \/ Sourcing!OutputsFree(c) \/ Sourcing!Export(c)
             \/ \E m \in Measurements : Sourcing!Evaluate(c, m)
             \/ Sourcing!ProductionReport(c) \/ Sourcing!ProductionFails(c)
             \/ Sourcing!CleanModel(c) \/ Sourcing!CleanReport(c)
      PROVE  SourcesInv'
  BY <1>4, OutputsFreeKeeps, ExportKeeps, EvaluateKeeps, ProductionReportKeeps, ProductionFailsKeeps,
     CleanModelKeeps, CleanReportKeeps
<1>5. ASSUME NEW chunk \in Chunks, Sourcing!Tamper(chunk) PROVE SourcesInv'
  BY <1>5, TamperKeeps
<1>. QED BY <1>1, <1>2, <1>3, <1>4, <1>5 DEF Sourcing!Next

(* A published version is the files its receipt pins and the recipe of       *)
(* everyone who was told so, and a production report describes the model     *)
(* beside it, whatever servers send, fetches race and commands are killed:   *)
(* unless somebody edits the version or two producers share the outputs      *)
(* (_publish_stage, installed_source_matches, run_production_pipeline).      *)
THEOREM SourcesStayPinned == Sourcing!Spec => []SourcesSound
<1>1. SourcesInv => SourcesSound
  BY DEF SourcesInv, VersionHolds, OutputsHold, SourcesSound, Sourcing!SourcesSound
<1>2. SourcesInv /\ [Sourcing!Next]_Sourcing!sourceVars => SourcesInv'
  BY SourcesStep
<1>. QED BY <1>1, <1>2, SourcesStart, PTL DEF Sourcing!Spec

-----------------------------------------------------------------------------
(* The library index: what was read holds when it is used.                   *)

Files == [path : Range(Walk), content : Contents, age : Nat]
Entry(e) == /\ e.id \in Contents /\ e.age \in Nat
            /\ e = [id |-> e.id, path |-> e.path, labels |-> e.labels, age |-> e.age]
Indexed(s) == /\ IsFiniteSet(s) /\ \A e \in s : Entry(e)
              /\ \A e, x \in s : e.id = x.id => e = x
Distinct(found) == \A j, k \in DOMAIN found : j # k => found[j].content # found[k].content

TreeHolds == tree \in [Range(Walk) -> [content : Contents \cup {0}, age : Nat]] /\ happened \in Nat
Scans == [at : {"idle", "scanning"}, ahead : Seq(Range(Walk)), found : Seq(Files)]
         \cup [at : {"judging", "scanned"}, ahead : Seq(Files), found : Seq(Files)]
ScansHold ==
    /\ scan \in [Indexers -> Scans]
    /\ \A i \in Indexers : scan[i].at \in {"scanning", "judging"} => scan[i].ahead # <<>>
IndexHolds ==
    /\ index = [state |-> index.state, revision |-> index.revision, model |-> index.model, entries |-> index.entries]
    /\ index.revision \in Nat /\ restarted \in Nat
    /\ index.state \in {"good", "unreadable", "bad-entry"}
    /\ Indexed(index.entries)
    /\ index.revision = 0 => index.entries = {}

(* Within one life of the index, a revision names its entries.               *)
Pages(shown, list) ==
    list \in Seq(Range(list)) /\ Len(shown) \in 0 .. Len(list) /\ shown = SubSeq(list, 1, Len(shown))
WalkHolds ==
    /\ walk = [at |-> walk.at, query |-> walk.query, revision |-> walk.revision, shown |-> walk.shown,
               list |-> walk.list, life |-> walk.life]
    /\ walk.at # "idle" =>
        /\ walk.life \in Nat /\ walk.life <= restarted
        /\ walk.life = restarted =>
            /\ walk.revision \in Nat /\ walk.revision <= index.revision
            /\ walk.revision = index.revision => walk.list = Library!Ranked(walk.query, index.entries)
            /\ Pages(walk.shown, walk.list)
LabelHolds ==
    labelling.at = "read" =>
        /\ labelling.life \in Nat /\ labelling.life <= restarted
        /\ labelling.revision \in Nat \ {0} /\ Entry(labelling.read[1])
        /\ labelling.life = restarted =>
            /\ labelling.revision <= index.revision
            /\ labelling.revision = index.revision => labelling.read[1] \in index.entries

(* What the last scan found is there, or did not fit and left no room.       *)
Held(e, s) == Library!Stored(e, s) \/ (Cardinality(s) >= MaxIndexed /\ \A x \in s : x.id # e.id)
LastHolds ==
    /\ lastFound \in Seq(Files)
    /\ Distinct(lastFound) => \A k \in DOMAIN lastFound : Held(Library!EntryOf(lastFound[k]), index.entries)

LibraryInv ==
    TreeHolds /\ ScansHold /\ IndexHolds /\ WalkHolds /\ LabelHolds /\ LastHolds /\ faults = {}

LEMMA LibraryNumbers ==
    Contents \subseteq Nat /\ 0 \notin Contents /\ MaxIndexed \in Nat /\ MaxIndexed > 0 /\ PageSize \in Nat /\ PageSize > 0
BY LibraryAssumption DEF Library!ContentsAssumption

LEMMA BeforeIsOrder ==
    ASSUME NEW a, Entry(a), NEW b, Entry(b)
    PROVE  /\ ~Library!Before(a, a)
           /\ Library!Before(a, b) => ~Library!Before(b, a)
           /\ a.id # b.id => Library!Before(a, b) \/ Library!Before(b, a)
           /\ \A c : Entry(c) /\ Library!Before(a, b) /\ Library!Before(b, c) => Library!Before(a, c)
<1>1. a.id \in Nat /\ b.id \in Nat /\ a.age \in Nat /\ b.age \in Nat
  BY LibraryNumbers DEF Entry
<1>2. ASSUME NEW c, Entry(c) PROVE c.id \in Nat /\ c.age \in Nat
  BY <1>2, LibraryNumbers DEF Entry
<1>. QED BY <1>1, <1>2 DEF Library!Before

LEMMA BoundIs ==
    ASSUME NEW s
    PROVE  Library!Bound(s) = {e \in s : Cardinality(Library!Ahead(s, e)) < MaxIndexed}
<1>1. \A S : Library!Cardinality(S) = Cardinality(S)
  BY DEF Library!Cardinality, Cardinality
<1>. QED BY <1>1 DEF Library!Bound

LEMMA AheadGrows ==
    ASSUME NEW s, Indexed(s), NEW a \in s, NEW b \in s, Library!Before(a, b)
    PROVE  /\ IsFiniteSet(Library!Ahead(s, a)) /\ IsFiniteSet(Library!Ahead(s, b))
           /\ Cardinality(Library!Ahead(s, a)) \in Nat /\ Cardinality(Library!Ahead(s, b)) \in Nat
           /\ Cardinality(Library!Ahead(s, a)) < Cardinality(Library!Ahead(s, b))
<1>1. IsFiniteSet(s) /\ \A e \in s : Entry(e)
  BY DEF Indexed
<1>2. Library!Ahead(s, a) \in SUBSET s /\ Library!Ahead(s, b) \in SUBSET s
  BY DEF Library!Ahead
<1>3. IsFiniteSet(Library!Ahead(s, a)) /\ IsFiniteSet(Library!Ahead(s, b))
  BY <1>1, <1>2, FS_Subset
<1>4. Cardinality(Library!Ahead(s, a)) \in Nat /\ Cardinality(Library!Ahead(s, b)) \in Nat
  BY <1>3, FS_CardinalityType
<1>5. Library!Ahead(s, a) \in SUBSET Library!Ahead(s, b)
  BY <1>1, BeforeIsOrder DEF Library!Ahead
<1>6. a \in Library!Ahead(s, b) /\ a \notin Library!Ahead(s, a)
  BY <1>1, BeforeIsOrder DEF Library!Ahead
<1>7. Cardinality(Library!Ahead(s, a)) <= Cardinality(Library!Ahead(s, b)) /\ Cardinality(Library!Ahead(s, a)) # Cardinality(Library!Ahead(s, b))
  BY <1>3, <1>5, <1>6, FS_Subset
<1>. QED BY <1>3, <1>4, <1>7

LEMMA AheadIsFinite ==
    ASSUME NEW s, Indexed(s), NEW e
    PROVE  IsFiniteSet(Library!Ahead(s, e)) /\ Cardinality(Library!Ahead(s, e)) \in Nat
<1>1. Library!Ahead(s, e) \in SUBSET s /\ IsFiniteSet(s)
  BY DEF Library!Ahead, Indexed
<1>2. IsFiniteSet(Library!Ahead(s, e))
  BY <1>1, FS_Subset
<1>. QED BY <1>2, FS_CardinalityType

LEMMA BoundIndexed ==
    ASSUME NEW s, Indexed(s)
    PROVE  Indexed(Library!Bound(s)) /\ Library!Bound(s) \subseteq s
<1>1. Library!Bound(s) \in SUBSET s /\ IsFiniteSet(s)
  BY DEF Library!Bound, Indexed
<1>2. IsFiniteSet(Library!Bound(s))
  BY <1>1, FS_Subset
<1>. QED BY <1>1, <1>2 DEF Indexed

(* What is bounded is full: those before the first entry that did not fit.   *)
LEMMA BoundIsFull ==
    ASSUME NEW s, Indexed(s), Library!Bound(s) # s
    PROVE  Cardinality(Library!Bound(s)) >= MaxIndexed
<1>. DEFINE out == {e \in s : ~(Cardinality(Library!Ahead(s, e)) < MaxIndexed)}
            sizes == {n \in Nat : \E e \in out : n = Cardinality(Library!Ahead(s, e))}
<1>1. PICK e \in s : ~(Cardinality(Library!Ahead(s, e)) < MaxIndexed)
  BY BoundIs
<1>2. Cardinality(Library!Ahead(s, e)) \in sizes
  BY <1>1, AheadIsFinite
<1>3. PICK n \in sizes : \A m \in sizes : n <= m
  BY <1>2, LeastExists
<1>4. PICK first \in out : n = Cardinality(Library!Ahead(s, first))
  BY <1>3
<1>5. ASSUME NEW x \in Library!Ahead(s, first) PROVE x \in Library!Bound(s)
  <2>1. x \in s /\ Library!Before(x, first)
    BY DEF Library!Ahead
  <2>2. Cardinality(Library!Ahead(s, x)) \in Nat /\ Cardinality(Library!Ahead(s, x)) < n
    BY <1>4, <2>1, AheadGrows
  <2>3. Cardinality(Library!Ahead(s, x)) \notin sizes
    BY <1>3, <2>2
  <2>4. x \notin out
    BY <2>2, <2>3
  <2>. QED BY <2>1, <2>4, BoundIs
<1>6. Indexed(Library!Bound(s))
  BY BoundIndexed
<1>7. Library!Ahead(s, first) \in SUBSET Library!Bound(s) /\ IsFiniteSet(Library!Bound(s))
  BY <1>5, <1>6 DEF Indexed
<1>8. Cardinality(Library!Ahead(s, first)) <= Cardinality(Library!Bound(s))
  BY <1>7, FS_Subset
<1>9. Cardinality(Library!Bound(s)) \in Nat /\ Cardinality(Library!Ahead(s, first)) \in Nat
  BY <1>7, AheadIsFinite, FS_CardinalityType
<1>10. ~(Cardinality(Library!Ahead(s, first)) < MaxIndexed)
  BY <1>4
<1>. QED BY <1>8, <1>9, <1>10, LibraryNumbers

(* More than fit are not all kept.                                           *)
LEMMA BoundEvicts ==
    ASSUME NEW s, Indexed(s), Cardinality(s) > MaxIndexed
    PROVE  Library!Bound(s) # s
<1>. SUFFICES ASSUME Library!Bound(s) = s PROVE FALSE
  OBVIOUS
<1>. DEFINE places == 0 .. (MaxIndexed - 1)
            f == [e \in s |-> Cardinality(Library!Ahead(s, e))]
<1>1. IsFiniteSet(places) /\ Cardinality(places) = MaxIndexed
  BY LibraryNumbers, FS_Interval
<1>2. ASSUME NEW e \in s PROVE f[e] \in places
  <2>1. Cardinality(Library!Ahead(s, e)) < MaxIndexed /\ Cardinality(Library!Ahead(s, e)) \in Nat
    BY BoundIs, AheadIsFinite
  <2>. QED BY <2>1, LibraryNumbers
<1>3. IsFiniteSet(s) /\ f \in [s -> places]
  BY <1>2 DEF Indexed
<1>4. Cardinality(places) < Cardinality(s)
  BY <1>1
<1>. HIDE DEF places, f
<1>5. PICK x, y \in s : x # y /\ f[x] = f[y]
  BY <1>1, <1>3, <1>4, FS_PigeonHole
<1>6. Library!Before(x, y) \/ Library!Before(y, x)
  <2>1. Entry(x) /\ Entry(y) /\ x.id # y.id
    BY <1>5 DEF Indexed
  <2>. QED BY <2>1, BeforeIsOrder
<1>7. Cardinality(Library!Ahead(s, x)) = Cardinality(Library!Ahead(s, y))
  BY <1>5 DEF f
<1>. QED BY <1>6, <1>7, AheadGrows

LEMMA PutIndexed ==
    ASSUME NEW s, Indexed(s), NEW new, Indexed(new)
    PROVE  Indexed(Library!Put(s, new))
<1>1. PICK rest : rest = {e \in s : \A n \in new : n.id # e.id}
  OBVIOUS
<1>2. Library!Put(s, new) = rest \cup new
  BY <1>1 DEF Library!Put
<1>3. IsFiniteSet(rest)
  <2>1. rest \in SUBSET s
    BY <1>1
  <2>. QED BY <2>1, FS_Subset DEF Indexed
<1>4. IsFiniteSet(rest \cup new)
  BY <1>3, FS_Union DEF Indexed
<1>5. \A e \in rest \cup new : Entry(e)
  BY <1>1 DEF Indexed
<1>6. ASSUME NEW e \in rest \cup new, NEW x \in rest \cup new, e.id = x.id PROVE e = x
  <2>1. CASE e \in rest /\ x \in rest
    BY <1>1, <1>6, <2>1 DEF Indexed
  <2>2. CASE e \in new /\ x \in new
    BY <1>6, <2>2 DEF Indexed
  <2>. QED BY <1>1, <1>6, <2>1, <2>2
<1>. QED BY <1>2, <1>4, <1>5, <1>6 DEF Indexed

LEMMA EntryOfIs ==
    ASSUME NEW f \in Files
    PROVE  /\ Entry(Library!EntryOf(f)) /\ Library!EntryOf(f).id = f.content
           /\ f.content \in Contents
<1>1. f.content \in Contents /\ f.age \in Nat
  BY DEF Files
<1>2. PICK c, a, p, l : c = f.content /\ a = f.age /\ p = f.path /\ l = LabelsOf[f.content]
  OBVIOUS
<1>3. PICK e : e = [id |-> c, path |-> p, labels |-> l, age |-> a]
  OBVIOUS
<1>4. Library!EntryOf(f) = e
  BY <1>2, <1>3 DEF Library!EntryOf
<1>5. e.id = c /\ e.age = a /\ e.path = p /\ e.labels = l
  BY <1>3
<1>6. Entry(e)
  BY <1>1, <1>2, <1>3, <1>5 DEF Entry
<1>. QED BY <1>1, <1>2, <1>4, <1>5, <1>6

LEMMA LatestIndexed ==
    ASSUME NEW found \in Seq(Files), NEW K \in SUBSET DOMAIN found
    PROVE  /\ Indexed(Library!Latest(found, K))
           /\ \A e \in Library!Latest(found, K) :
                 \E k \in K : e = Library!EntryOf(found[k]) /\ e.id = found[k].content
<1>. DEFINE L == {k \in K : Library!Standing(found, k)}
            F == [k \in L |-> Library!EntryOf(found[k])]
            new == Library!Latest(found, K)
<1>0. new = {Library!EntryOf(found[k]) : k \in L}
  BY DEF Library!Latest
<1>1. \A k \in DOMAIN found : found[k] \in Files
  OBVIOUS
<1>2. \A k \in L : Entry(Library!EntryOf(found[k])) /\ Library!EntryOf(found[k]).id = found[k].content
  BY <1>1, EntryOfIs
<1>3. IsFiniteSet(new)
  <2>1. DOMAIN found = 1 .. Len(found) /\ Len(found) \in Nat
    OBVIOUS
  <2>2. IsFiniteSet(DOMAIN found)
    BY <2>1, FS_Interval
  <2>3. L \in SUBSET DOMAIN found
    OBVIOUS
  <2>4. IsFiniteSet(L)
    BY <2>2, <2>3, FS_Subset
  <2>5. F \in Surjection(L, new)
    BY <1>0 DEF Surjection
  <2>. QED BY <2>4, <2>5, FS_Surjection
<1>4. \A e \in new : Entry(e) /\ \E k \in L : e = Library!EntryOf(found[k]) /\ e.id = found[k].content
  BY <1>0, <1>2
<1>5. ASSUME NEW e \in new, NEW x \in new, e.id = x.id PROVE e = x
  <2>1. PICK k \in L : e = Library!EntryOf(found[k]) /\ e.id = found[k].content
    BY <1>4
  <2>2. PICK j \in L : x = Library!EntryOf(found[j]) /\ x.id = found[j].content
    BY <1>4
  <2>3. j \in DOMAIN found /\ k \in DOMAIN found /\ j \in Nat /\ k \in Nat
    OBVIOUS
  <2>4. j <= k /\ k <= j
    BY <1>5, <2>1, <2>2, <2>3 DEF Library!Standing
  <2>5. j = k
    BY <2>3, <2>4
  <2>. QED BY <2>1, <2>2, <2>5
<1>. QED BY <1>3, <1>4, <1>5 DEF Indexed

-----------------------------------------------------------------------------
(* The merge of what a scan found.                                           *)

Merging(found, s) == Library!Put(s, Library!Latest(found, Library!Written(found, s)))

LEMMA MergingIndexed ==
    ASSUME NEW found \in Seq(Files), NEW s, Indexed(s)
    PROVE  Indexed(Merging(found, s))
<1>1. Library!Written(found, s) \in SUBSET DOMAIN found
  BY DEF Library!Written
<1>. QED BY <1>1, LatestIndexed, PutIndexed DEF Merging

LEMMA DistinctStands ==
    ASSUME NEW found \in Seq(Files), Distinct(found), NEW k \in DOMAIN found
    PROVE  Library!Alone(found, k) /\ Library!Standing(found, k)
<1>1. \A j \in DOMAIN found : found[j].content = found[k].content => j = k
  BY DEF Distinct
<1>2. k \in Nat
  OBVIOUS
<1>. QED BY <1>1, <1>2 DEF Library!Alone, Library!Standing

(* After the merge each different file that was found has its entry ...      *)
LEMMA MergeStores ==
    ASSUME NEW found \in Seq(Files), Distinct(found), NEW s, Indexed(s), NEW k \in DOMAIN found
    PROVE  Library!Stored(Library!EntryOf(found[k]), Merging(found, s))
<1>0. PICK e, W, new : e = Library!EntryOf(found[k]) /\ W = Library!Written(found, s) /\ new = Library!Latest(found, W)
  OBVIOUS
<1>1. found[k] \in Files /\ Entry(e) /\ e.id = found[k].content
  BY <1>0, EntryOfIs
<1>2. Merging(found, s) = {x \in s : \A n \in new : n.id # x.id} \cup new
  BY <1>0 DEF Merging, Library!Put
<1>3. W \in SUBSET DOMAIN found
  BY <1>0 DEF Library!Written
<1>4. CASE k \in W
  <2>1. e \in new
    BY <1>0, <1>4, DistinctStands DEF Library!Latest
  <2>. QED BY <1>0, <1>2, <2>1 DEF Library!Stored
<1>5. CASE k \notin W
  <2>1. PICK x \in s : Library!Comparable(x) = Library!Comparable(e)
    BY <1>0, <1>5 DEF Library!Written, Library!Stored
  <2>2. x.id = e.id
    BY <2>1 DEF Library!Comparable
  <2>3. ASSUME NEW n \in new PROVE n.id # x.id
    <3>1. PICK j \in W : n.id = found[j].content
      BY <1>0, <1>3, LatestIndexed
    <3>. QED BY <1>1, <1>3, <1>5, <2>2, <3>1 DEF Distinct
  <2>4. x \in Merging(found, s)
    BY <1>2, <2>1, <2>3
  <2>. QED BY <1>0, <2>1, <2>4 DEF Library!Stored
<1>. QED BY <1>4, <1>5

(* ... or is out, and then there is no room.                                 *)
LEMMA MergeHolds ==
    ASSUME NEW found \in Seq(Files), Distinct(found), NEW s, Indexed(s), NEW k \in DOMAIN found
    PROVE  Held(Library!EntryOf(found[k]), Library!Bound(Merging(found, s)))
<1>0. PICK e, m, b : e = Library!EntryOf(found[k]) /\ m = Merging(found, s) /\ b = Library!Bound(m)
  OBVIOUS
<1>1. Indexed(m) /\ b \subseteq m
  BY <1>0, MergingIndexed, BoundIndexed
<1>2. PICK x \in m : Library!Comparable(x) = Library!Comparable(e)
  BY <1>0, MergeStores DEF Library!Stored
<1>3. x.id = e.id
  BY <1>2 DEF Library!Comparable
<1>4. CASE x \in b
  BY <1>0, <1>2, <1>4 DEF Held, Library!Stored
<1>5. CASE x \notin b
  <2>1. b # m
    BY <1>2, <1>5
  <2>2. Cardinality(b) >= MaxIndexed
    BY <1>0, <1>1, <2>1, BoundIsFull
  <2>3. \A y \in b : y.id # e.id
    BY <1>1, <1>2, <1>3, <1>5 DEF Indexed
  <2>. QED BY <1>0, <2>2, <2>3 DEF Held
<1>. QED BY <1>4, <1>5

(* What was held already is written again only where another must go.        *)
LEMMA NoChurn ==
    ASSUME NEW found \in Seq(Files), Distinct(found), NEW s, Indexed(s),
           \A k \in DOMAIN found : Held(Library!EntryOf(found[k]), s), Library!Written(found, s) # {}
    PROVE  Library!Bound(Merging(found, s)) # Merging(found, s)
<1>0. PICK m, W, new : m = Merging(found, s) /\ W = Library!Written(found, s) /\ new = Library!Latest(found, W)
  OBVIOUS
<1>1. W \in SUBSET DOMAIN found
  BY <1>0 DEF Library!Written
<1>2. ASSUME NEW k \in W
      PROVE  Cardinality(s) >= MaxIndexed /\ \A x \in s : x.id # found[k].content
  <2>1. k \in DOMAIN found /\ Library!Alone(found, k)
    BY <1>1, DistinctStands
  <2>2. ~Library!Stored(Library!EntryOf(found[k]), s)
    BY <1>0, <2>1 DEF Library!Written
  <2>3. Held(Library!EntryOf(found[k]), s)
    BY <2>1
  <2>4. Library!EntryOf(found[k]).id = found[k].content
    BY <2>1, EntryOfIs
  <2>. QED BY <2>2, <2>3, <2>4 DEF Held
<1>3. PICK k \in W : TRUE
  BY <1>0
<1>4. PICK e : e = Library!EntryOf(found[k])
  OBVIOUS
<1>5. e \in new /\ e.id = found[k].content
  <2>1. k \in DOMAIN found /\ Library!Standing(found, k)
    BY <1>1, DistinctStands
  <2>. QED BY <1>0, <1>4, <2>1, EntryOfIs DEF Library!Latest
<1>6. m = {x \in s : \A n \in new : n.id # x.id} \cup new
  BY <1>0 DEF Merging, Library!Put
<1>7. ASSUME NEW x \in s PROVE x \in m
  <2>1. ASSUME NEW n \in new PROVE n.id # x.id
    <3>1. PICK j \in W : n.id = found[j].content
      BY <1>0, <1>1, LatestIndexed
    <3>. QED BY <1>2, <3>1
  <2>. QED BY <1>6, <2>1
<1>8. e \notin s /\ s \cup {e} \in SUBSET m
  BY <1>2, <1>5, <1>6, <1>7
<1>9. Indexed(m)
  BY <1>0, MergingIndexed
<1>10. IsFiniteSet(s) /\ Cardinality(s) \in Nat /\ IsFiniteSet(m) /\ Cardinality(m) \in Nat
  BY <1>9, FS_CardinalityType DEF Indexed
<1>11. Cardinality(s \cup {e}) = Cardinality(s) + 1
  BY <1>8, <1>10, FS_AddElement
<1>12. Cardinality(s \cup {e}) <= Cardinality(m)
  BY <1>8, <1>10, FS_Subset
<1>13. Cardinality(s) >= MaxIndexed
  BY <1>2, <1>3
<1>14. Cardinality(m) > MaxIndexed
  BY <1>10, <1>11, <1>12, <1>13, LibraryNumbers
<1>. QED BY <1>0, <1>9, <1>14, BoundEvicts

-----------------------------------------------------------------------------
(* Pages.                                                                    *)

LEMMA RankedIsSequence ==
    ASSUME NEW q, NEW s, IsFiniteSet(s)
    PROVE  Library!Ranked(q, s) \in Seq(Range(Library!Ranked(q, s)))
<1>. DEFINE m == Library!Matching(q, s)
<1>1. m \in SUBSET s
  BY DEF Library!Matching
<1>2. IsFiniteSet(m)
  BY <1>1, FS_Subset
<1>3. Library!Cardinality(m) = Cardinality(m)
  BY DEF Library!Cardinality, Cardinality
<1>4. PICK n : n = Cardinality(m)
  OBVIOUS
<1>5. n \in Nat
  BY <1>2, <1>4, FS_CardinalityType
<1>6. PICK f : f = Library!Ranked(q, s)
  OBVIOUS
<1>7. DOMAIN f = 1 .. n /\ f = [k \in 1 .. n |-> f[k]]
  BY <1>3, <1>4, <1>6 DEF Library!Ranked
<1>8. \A k \in 1 .. n : f[k] \in Range(f)
  BY <1>7 DEF Range
<1>9. f \in [1 .. n -> Range(f)]
  BY <1>7, <1>8
<1>10. f \in Seq(Range(f))
  BY <1>5, <1>9, SeqDef
<1>. QED BY <1>6, <1>10

LEMMA NextWindow ==
    ASSUME NEW T, NEW l \in Seq(T), NEW n \in 0 .. Len(l), NEW m \in n .. Len(l)
    PROVE  /\ SubSeq(l, 1, n) \o SubSeq(l, n + 1, m) = SubSeq(l, 1, m)
           /\ Len(SubSeq(l, 1, m)) = m
<1>. DEFINE a == SubSeq(l, 1, n)
            b == SubSeq(l, n + 1, m)
            c == SubSeq(l, 1, m)
<1>0. n \in Nat /\ m \in Nat /\ Len(l) \in Nat /\ n <= m /\ m <= Len(l)
  OBVIOUS
<1>1. a \in Seq(T) /\ Len(a) = n /\ \A i \in 1 .. n : a[i] = l[i]
  BY <1>0
<1>2. b \in Seq(T) /\ Len(b) = m - n /\ \A i \in 1 .. (m - n) : b[i] = l[n + i]
  BY <1>0
<1>3. c \in Seq(T) /\ Len(c) = m /\ \A i \in 1 .. m : c[i] = l[i]
  BY <1>0
<1>. HIDE DEF a, b, c
<1>4. a \o b \in Seq(T) /\ Len(a \o b) = m
  <2>1. a \in Seq(T) /\ b \in Seq(T)
    BY <1>1, <1>2
  <2>2. a \o b \in Seq(T) /\ Len(a \o b) = Len(a) + Len(b)
    BY <2>1, ConcatProperties
  <2>3. Len(a) = n /\ Len(b) = m - n
    BY <1>1, <1>2
  <2>. QED BY <1>0, <2>2, <2>3
<1>5. ASSUME NEW i \in 1 .. m PROVE (a \o b)[i] = c[i]
  <2>1. CASE i <= n
    BY <1>0, <1>1, <1>2, <1>3, <2>1
  <2>2. CASE i > n
    <3>1. i - n \in 1 .. (m - n) /\ n + (i - n) = i
      BY <1>0, <2>2
    <3>2. b[i - n] = l[i]
      BY <1>2, <3>1
    <3>3. (a \o b)[i] = b[i - n]
      BY <1>0, <1>1, <1>2, <2>2
    <3>. QED BY <1>3, <3>2, <3>3
  <2>3. i <= n \/ i > n
    BY <1>0
  <2>. QED BY <2>1, <2>2, <2>3
<1>6. a \o b = c
  BY <1>0, <1>3, <1>4, <1>5, SeqEqual
<1>. QED BY <1>3, <1>6 DEF a, b, c

LEMMA MinOfTwo ==
    ASSUME NEW a \in Nat, NEW b \in Nat
    PROVE  Library!Min({a, b}) \in {a, b} /\ Library!Min({a, b}) <= a /\ Library!Min({a, b}) <= b
<1>1. \E x \in {a, b} : \A y \in {a, b} : x <= y
  <2>1. CASE a <= b
    BY <2>1
  <2>2. CASE b <= a
    BY <2>2
  <2>. QED BY <2>1, <2>2
<1>. QED BY <1>1 DEF Library!Min

(* A page more of the ranking that the query saw.                            *)
LEMMA PageFollows ==
    ASSUME NEW w, NEW s, Indexed(s), s = Library!Entries, w.list = Library!Ranked(w.query, s), Pages(w.shown, w.list),
           NEW x, x = Library!Paged(w)
    PROVE  Pages(x.shown, x.list)
<1>1. PICK l, n, sh : l = w.list /\ sh = w.shown /\ n = Len(w.shown)
  OBVIOUS
<1>2. l \in Seq(Range(l)) /\ n \in 0 .. Len(l) /\ sh = SubSeq(l, 1, n) /\ Len(l) \in Nat
  BY <1>1 DEF Pages
<1>3. PICK m : m = Library!Min({n + PageSize, Len(l)})
  OBVIOUS
<1>4. m \in n .. Len(l)
  <2>1. n + PageSize \in Nat /\ n <= n + PageSize /\ n <= Len(l) /\ n \in Nat
    BY <1>2, LibraryNumbers
  <2>2. m \in {n + PageSize, Len(l)} /\ m <= Len(l)
    BY <1>2, <1>3, <2>1, MinOfTwo
  <2>. QED BY <1>2, <2>1, <2>2
<1>5. x.shown = sh \o SubSeq(l, n + 1, m) /\ x.list = l
  BY <1>1, <1>3 DEF Library!Paged
<1>6. x.shown = SubSeq(l, 1, m) /\ Len(x.shown) = m
  BY <1>2, <1>4, <1>5, NextWindow
<1>7. m \in 0 .. Len(l)
  BY <1>2, <1>4
<1>. QED BY <1>2, <1>5, <1>6, <1>7 DEF Pages

LEMMA PagedIs ==
    ASSUME NEW w, NEW x, x = Library!Paged(w)
    PROVE  /\ x = [at |-> x.at, query |-> x.query, revision |-> x.revision, shown |-> x.shown,
                   list |-> x.list, life |-> x.life]
           /\ x.at # "idle" /\ x.query = w.query /\ x.revision = w.revision /\ x.list = w.list /\ x.life = w.life
BY DEF Library!Paged

-----------------------------------------------------------------------------
(* What the file is read as, and what a commit makes of it.                  *)

LEMMA HealthIs ==
    ASSUME IndexHolds
    PROVE  /\ Indexed(Library!Entries)
           /\ Library!Entries # {} => Library!Health = "intact"
           /\ Library!Health = "intact" =>
                index.state = "good" /\ Library!Entries = index.entries /\ Library!Revision = index.revision
           /\ \/ index.state = "unreadable" /\ Library!Revision = 0
              \/ index.state # "unreadable" /\ Library!Revision = index.revision
           /\ Library!ResultState = "ready" => Library!Health = "intact"
<1>1. Indexed({})
  BY FS_EmptySet DEF Indexed
<1>2. Library!Health = "intact" => index.state = "good"
  BY DEF Library!Health, IndexHolds
<1>3. /\ Library!Entries # {} => Library!Health = "intact"
      /\ Library!Entries = index.entries \/ Library!Entries = {}
      /\ Library!Health = "intact" => Library!Entries = index.entries
  BY DEF Library!Entries
<1>4. /\ Library!Health = "intact" => Library!Revision = index.revision
      /\ \/ index.state = "unreadable" /\ Library!Revision = 0
         \/ index.state # "unreadable" /\ Library!Revision = index.revision
  BY <1>2 DEF Library!Revision
<1>5. Library!ResultState = "ready" => Library!Health = "intact"
  BY DEF Library!ResultState, Library!Health
<1>. QED BY <1>1, <1>2, <1>3, <1>4, <1>5 DEF IndexHolds

LEMMA StaysAsItIs ==
    ASSUME LibraryInv, UNCHANGED <<index, restarted>>
    PROVE  /\ IndexHolds'
           /\ UNCHANGED walk => WalkHolds'
           /\ UNCHANGED labelling => LabelHolds'
           /\ UNCHANGED lastFound => LastHolds'
<1>1. IndexHolds'
  BY DEF LibraryInv, IndexHolds
<1>2. UNCHANGED walk => WalkHolds'
  BY DEF LibraryInv, WalkHolds
<1>3. UNCHANGED labelling => LabelHolds'
  BY DEF LibraryInv, LabelHolds
<1>4. UNCHANGED lastFound => LastHolds'
  BY DEF LibraryInv, LastHolds
<1>. QED BY <1>1, <1>2, <1>3, <1>4

LEMMA NothingFound == ASSUME lastFound' = <<>> PROVE LastHolds'
<1>1. <<>> \in Seq(Files) /\ DOMAIN <<>> = {}
  OBVIOUS
<1>2. PICK f : f = <<>>
  OBVIOUS
<1>. QED BY <1>1 DEF LastHolds

LEMMA NoWalkHolds == ASSUME walk' = Library!NoWalk PROVE WalkHolds'
BY DEF WalkHolds, Library!NoWalk

LEMMA NoLabellingHolds == ASSUME labelling' = Library!NoLabelling PROVE LabelHolds'
BY DEF LabelHolds, Library!NoLabelling

LEMMA CommitHolds ==
    ASSUME LibraryInv, NEW E, Indexed(E), Library!Commit(E)
    PROVE  /\ IndexHolds' /\ index'.entries = E
           /\ UNCHANGED walk => WalkHolds'
           /\ UNCHANGED labelling => LabelHolds'
<1>1. PICK r : r = Library!Revision
  OBVIOUS
<1>2. r \in Nat /\ restarted \in Nat /\ index.revision \in Nat
  BY <1>1, HealthIs DEF LibraryInv, IndexHolds
<1>3. index' = [state |-> "good", revision |-> r + 1, model |-> embedder, entries |-> E]
  BY <1>1 DEF Library!Commit
<1>4. index'.state = "good" /\ index'.revision = r + 1 /\ index'.model = embedder /\ index'.entries = E
  BY <1>3
<1>5. restarted' \in Nat /\ restarted <= restarted' /\ (restarted' = restarted => index'.revision = index.revision + 1)
  <2>1. index.state = "unreadable" => restarted' = restarted + 1
    BY DEF Library!Commit
  <2>2. index.state # "unreadable" => restarted' = restarted /\ r = index.revision
    BY <1>1, HealthIs DEF Library!Commit, LibraryInv
  <2>. QED BY <1>2, <1>4, <2>1, <2>2
<1>6. index'.revision # 0 /\ index'.revision \in Nat
  BY <1>2, <1>4
<1>7. IndexHolds'
  BY <1>3, <1>4, <1>5, <1>6 DEF IndexHolds
<1>8. ASSUME UNCHANGED walk PROVE WalkHolds'
  <2>1. WalkHolds
    BY DEF LibraryInv
  <2>2. PICK w : w = walk
    OBVIOUS
  <2>3. /\ w = [at |-> w.at, query |-> w.query, revision |-> w.revision, shown |-> w.shown,
                list |-> w.list, life |-> w.life]
        /\ w.at # "idle" => /\ w.life \in Nat /\ w.life <= restarted
                            /\ w.life = restarted => /\ w.revision \in Nat /\ w.revision <= index.revision
                                                     /\ Pages(w.shown, w.list)
    BY <2>1, <2>2 DEF WalkHolds
  <2>4. w.at # "idle" => w.life \in Nat /\ w.life <= restarted'
    BY <1>2, <1>5, <2>3
  <2>5. w.at # "idle" /\ w.life = restarted' =>
          w.revision \in Nat /\ w.revision <= index'.revision /\ w.revision # index'.revision /\ Pages(w.shown, w.list)
    BY <1>2, <1>5, <2>3
  <2>6. walk' = w
    BY <1>8, <2>2
  <2>. QED BY <2>3, <2>4, <2>5, <2>6 DEF WalkHolds
<1>9. ASSUME UNCHANGED labelling PROVE LabelHolds'
  <2>1. LabelHolds
    BY DEF LibraryInv
  <2>2. PICK w : w = labelling
    OBVIOUS
  <2>3. w.at = "read" =>
        /\ w.life \in Nat /\ w.life <= restarted
        /\ w.revision \in Nat \ {0} /\ Entry(w.read[1])
        /\ w.life = restarted => w.revision <= index.revision
    BY <2>1, <2>2 DEF LabelHolds
  <2>4. w.at = "read" => w.life \in Nat /\ w.life <= restarted' /\ w.revision \in Nat \ {0} /\ Entry(w.read[1])
    BY <1>2, <1>5, <2>3
  <2>5. w.at = "read" /\ w.life = restarted' => w.revision <= index'.revision /\ w.revision # index'.revision
    BY <1>2, <1>5, <2>3
  <2>6. labelling' = w
    BY <1>9, <2>2
  <2>. QED BY <2>4, <2>5, <2>6 DEF LabelHolds
<1>. QED BY <1>4, <1>7, <1>8, <1>9

-----------------------------------------------------------------------------
(* The steps.                                                                *)

LEMMA LibraryStart == Library!Init => LibraryInv
<1>. SUFFICES ASSUME Library!Init PROVE LibraryInv
  OBVIOUS
<1>1. TreeHolds
  BY LibraryAssumption DEF Library!Init, Library!Range, Range, Library!ContentsAssumption, TreeHolds
<1>2. ScansHold
  <2>1. PICK x : x = [at |-> "idle", ahead |-> <<>>, found |-> <<>>]
    OBVIOUS
  <2>2. scan = [i \in Indexers |-> x]
    BY <2>1 DEF Library!Init, Library!NoScan
  <2>3. x \in Scans
    <3>1. <<>> \in Seq(Range(Walk)) /\ <<>> \in Seq(Files)
      OBVIOUS
    <3>. QED BY <2>1, <3>1 DEF Scans
  <2>4. x.at \notin {"scanning", "judging"}
    BY <2>1
  <2>. QED BY <2>2, <2>3, <2>4 DEF ScansHold
<1>3. IndexHolds
  <2>1. Indexed({})
    BY FS_EmptySet DEF Indexed
  <2>2. index = [state |-> "good", revision |-> 0, model |-> 1, entries |-> {}] /\ restarted = 0
    BY DEF Library!Init
  <2>. QED BY <2>1, <2>2 DEF IndexHolds
<1>4. WalkHolds /\ LabelHolds
  BY DEF Library!Init, Library!NoWalk, Library!NoLabelling, WalkHolds, LabelHolds
<1>5. LastHolds
  <2>1. lastFound = <<>> /\ <<>> \in Seq(Files) /\ DOMAIN <<>> = {}
    BY DEF Library!Init
  <2>. QED BY <2>1 DEF LastHolds
<1>. QED BY <1>1, <1>2, <1>3, <1>4, <1>5 DEF LibraryInv, Library!Init

LEMMA WalkPaths == Library!Range(Walk) = Range(Walk) /\ Walk \in Seq(Range(Walk)) /\ Walk # <<>>
BY LibraryAssumption DEF Library!ContentsAssumption, Library!Range, Range

LEMMA EditKeeps ==
    ASSUME LibraryInv, NEW p \in Library!Range(Walk), NEW c \in Edited, Library!Edit(p, c)
    PROVE  LibraryInv'
<1>1. UNCHANGED <<scan, index, walk, labelling, restarted, lastFound, faults>>
  BY DEF Library!Edit
<1>2. ScansHold'
  BY <1>1 DEF LibraryInv, ScansHold
<1>3. PICK x : x = [content |-> c, age |-> happened]
  OBVIOUS
<1>4. x \in [content : Contents \cup {0}, age : Nat]
  BY <1>3, LibraryAssumption DEF Library!ContentsAssumption, LibraryInv, TreeHolds
<1>5. tree' = [tree EXCEPT ![p] = x] /\ happened' = happened + 1
  BY <1>3 DEF Library!Edit, Library!Happens
<1>6. TreeHolds'
  <2>1. p \in Range(Walk)
    BY WalkPaths
  <2>. QED BY <1>4, <1>5, <2>1 DEF LibraryInv, TreeHolds
<1>. QED BY <1>1, <1>2, <1>6, StaysAsItIs DEF LibraryInv

LEMMA HappensKeeps == ASSUME LibraryInv, UNCHANGED tree, Library!Happens \/ UNCHANGED happened PROVE TreeHolds'
BY DEF LibraryInv, TreeHolds, Library!Happens

LEMMA ScanMoves ==
    ASSUME LibraryInv, NEW i \in Indexers, NEW x \in Scans, x.at \in {"scanning", "judging"} => x.ahead # <<>>,
           scan' = [scan EXCEPT ![i] = x]
    PROVE  ScansHold'
<1>1. scan \in [Indexers -> Scans] /\ \A j \in Indexers : scan[j].at \in {"scanning", "judging"} => scan[j].ahead # <<>>
  BY DEF LibraryInv, ScansHold
<1>2. scan' \in [Indexers -> Scans] /\ \A j \in Indexers : scan'[j] = IF j = i THEN x ELSE scan[j]
  BY <1>1
<1>3. \A j \in Indexers : scan'[j].at \in {"scanning", "judging"} => scan'[j].ahead # <<>>
  BY <1>1, <1>2
<1>. QED BY <1>2, <1>3 DEF ScansHold

LEMMA BeginScanKeeps == ASSUME LibraryInv, NEW i \in Indexers, Library!BeginScan(i) PROVE LibraryInv'
<1>1. PICK x : x = [at |-> "scanning", ahead |-> Walk, found |-> <<>>]
  OBVIOUS
<1>2. x \in Scans /\ x.ahead # <<>>
  <2>1. <<>> \in Seq(Files)
    OBVIOUS
  <2>. QED BY <1>1, <2>1, WalkPaths DEF Scans
<1>3. scan' = [scan EXCEPT ![i] = x] /\ UNCHANGED <<tree, index, walk, labelling, restarted, lastFound, faults>>
  BY <1>1 DEF Library!BeginScan
<1>4. ScansHold'
  BY <1>2, <1>3, ScanMoves
<1>5. TreeHolds'
  BY <1>3, HappensKeeps DEF Library!BeginScan
<1>. QED BY <1>3, <1>4, <1>5, StaysAsItIs DEF LibraryInv

LEMMA ScanStepKeeps == ASSUME LibraryInv, NEW i \in Indexers, Library!ScanStep(i) PROVE LibraryInv'
<1>1. UNCHANGED <<tree, index, walk, labelling, restarted, lastFound, faults, happened>>
  BY DEF Library!ScanStep
<1>2. PICK ah, fo, p, there : ah = scan[i].ahead /\ fo = scan[i].found /\ p = Head(ah) /\ there = tree[p]
  OBVIOUS
<1>3. ah \in Seq(Range(Walk)) /\ fo \in Seq(Files) /\ ah # <<>>
  <2>1. scan[i] \in Scans /\ scan[i].at = "scanning" /\ (scan[i].at \in {"scanning", "judging"} => ah # <<>>)
    BY <1>2 DEF LibraryInv, ScansHold, Library!ScanStep
  <2>. QED BY <1>2, <2>1 DEF Scans
<1>4. p \in Range(Walk) /\ Tail(ah) \in Seq(Range(Walk))
  BY <1>2, <1>3
<1>5. there.content \in Contents \cup {0} /\ there.age \in Nat
  BY <1>2, <1>4 DEF LibraryInv, TreeHolds
<1>6. PICK one : one = [path |-> p, content |-> there.content, age |-> there.age]
  OBVIOUS
<1>7. Library!Accepts(there) => one \in Files
  BY <1>4, <1>5, <1>6 DEF Library!Accepts, Files
<1>8. PICK found : found = IF Library!Accepts(there) /\ ~(Len(fo) >= MaxFiles) THEN Append(fo, one) ELSE fo
  OBVIOUS
<1>9. found \in Seq(Files)
  BY <1>3, <1>7, <1>8
<1>10. PICK x, y : x = Library!ToJudge(found) /\ y = [at |-> "scanning", ahead |-> Tail(ah), found |-> found]
  OBVIOUS
<1>11. \/ scan' = [scan EXCEPT ![i] = x]
       \/ Tail(ah) # <<>> /\ scan' = [scan EXCEPT ![i] = y]
  <2>1. scan' = [scan EXCEPT ![i] = IF Len(fo) >= MaxFiles \/ Tail(ah) = <<>> THEN x ELSE y]
    BY <1>2, <1>6, <1>8, <1>10 DEF Library!ScanStep
  <2>2. CASE Len(fo) >= MaxFiles \/ Tail(ah) = <<>>
    BY <2>1, <2>2
  <2>3. CASE ~(Len(fo) >= MaxFiles \/ Tail(ah) = <<>>)
    BY <2>1, <2>3
  <2>. QED BY <2>2, <2>3
<1>12. x \in Scans /\ (x.at \in {"scanning", "judging"} => x.ahead # <<>>)
  <2>1. PICK at : at = IF found = <<>> THEN "scanned" ELSE "judging"
    OBVIOUS
  <2>2. x = [at |-> at, ahead |-> found, found |-> <<>>]
    BY <1>10, <2>1 DEF Library!ToJudge
  <2>3. <<>> \in Seq(Files)
    OBVIOUS
  <2>. QED BY <1>9, <2>1, <2>2, <2>3 DEF Scans
<1>13. Tail(ah) # <<>> => y \in Scans /\ (y.at \in {"scanning", "judging"} => y.ahead # <<>>)
  BY <1>4, <1>9, <1>10 DEF Scans
<1>14. ScansHold'
  BY <1>11, <1>12, <1>13, ScanMoves
<1>15. TreeHolds'
  BY <1>1, HappensKeeps
<1>. QED BY <1>1, <1>14, <1>15, StaysAsItIs DEF LibraryInv

LEMMA JudgeStepKeeps == ASSUME LibraryInv, NEW i \in Indexers, Library!JudgeStep(i) PROVE LibraryInv'
<1>1. UNCHANGED <<tree, index, walk, labelling, restarted, lastFound, faults, happened>>
  BY DEF Library!JudgeStep
<1>2. PICK ah, fo, f : ah = scan[i].ahead /\ fo = scan[i].found /\ f = Head(ah)
  OBVIOUS
<1>3. ah \in Seq(Files) /\ fo \in Seq(Files) /\ ah # <<>>
  <2>1. scan[i] \in Scans /\ scan[i].at = "judging" /\ (scan[i].at \in {"scanning", "judging"} => ah # <<>>)
    BY <1>2 DEF LibraryInv, ScansHold, Library!JudgeStep
  <2>. QED BY <1>2, <2>1 DEF Scans
<1>4. f \in Files /\ Tail(ah) \in Seq(Files)
  BY <1>2, <1>3
<1>5. PICK found, at : /\ found = IF Library!Judges(tree[f.path]) THEN Append(fo, f) ELSE fo
                       /\ at = IF Tail(ah) = <<>> THEN "scanned" ELSE "judging"
  OBVIOUS
<1>6. PICK x : x = [at |-> at, ahead |-> Tail(ah), found |-> found]
  OBVIOUS
<1>7. scan' = [scan EXCEPT ![i] = x]
  BY <1>2, <1>5, <1>6 DEF Library!JudgeStep
<1>8. found \in Seq(Files)
  BY <1>3, <1>4, <1>5
<1>9. x \in Scans /\ (x.at \in {"scanning", "judging"} => x.ahead # <<>>)
  BY <1>4, <1>5, <1>6, <1>8 DEF Scans
<1>10. ScansHold'
  BY <1>7, <1>9, ScanMoves
<1>11. TreeHolds'
  BY <1>1, HappensKeeps
<1>. QED BY <1>1, <1>10, <1>11, StaysAsItIs DEF LibraryInv

LEMMA ScanEnds == ASSUME LibraryInv, NEW i \in Indexers, scan' = [scan EXCEPT ![i] = Library!NoScan] PROVE ScansHold'
<1>1. PICK x : x = [at |-> "idle", ahead |-> <<>>, found |-> <<>>]
  OBVIOUS
<1>2. x \in Scans /\ x.at \notin {"scanning", "judging"}
  <2>1. <<>> \in Seq(Range(Walk)) /\ <<>> \in Seq(Files)
    OBVIOUS
  <2>. QED BY <1>1, <2>1 DEF Scans
<1>3. scan' = [scan EXCEPT ![i] = x]
  BY <1>1 DEF Library!NoScan
<1>. QED BY <1>2, <1>3, ScanMoves

LEMMA UpsertKeeps == ASSUME LibraryInv, NEW i \in Indexers, Library!Upsert(i) PROVE LibraryInv'
<1>1. UNCHANGED <<tree, walk, labelling, happened>> /\ scan' = [scan EXCEPT ![i] = Library!NoScan]
  BY DEF Library!Upsert
<1>2. TreeHolds' /\ ScansHold'
  BY <1>1, HappensKeeps, ScanEnds
<1>3. PICK found, E, W, m, kept :
        /\ found = scan[i].found /\ E = Library!Entries /\ W = Library!Written(found, E)
        /\ m = Merging(found, E) /\ kept = Library!Bound(m)
  OBVIOUS
<1>4. found \in Seq(Files)
  BY <1>3 DEF LibraryInv, ScansHold, Scans
<1>5. Indexed(E) /\ Indexed(m) /\ Indexed(kept)
  BY <1>3, <1>4, HealthIs, MergingIndexed, BoundIndexed DEF LibraryInv
<1>6. PICK valid : valid \in BOOLEAN
             /\ valid = Library!Prepares({Library!EntryOf(found[k]) : k \in DOMAIN found})
  BY DEF Library!Prepares
<1>7. /\ IF valid /\ (W # {} \/ kept # m) THEN Library!Commit(kept) ELSE UNCHANGED <<index, restarted>>
      /\ lastFound' = IF valid THEN found ELSE lastFound
      /\ faults' = IF valid /\ Library!Rescan(found) /\ W # {} /\ ~(kept # m) THEN faults \cup {"churn"} ELSE faults
  BY <1>3, <1>6 DEF Library!Upsert, Merging
<1>8. faults' = faults
  <2>. SUFFICES ASSUME Library!Rescan(found), W # {}, kept = m PROVE FALSE
    BY <1>7
  <2>1. lastFound = found /\ E = index.entries /\ Distinct(found)
    BY <1>3, HealthIs DEF Library!Rescan, LibraryInv, Distinct
  <2>2. \A k \in DOMAIN found : Held(Library!EntryOf(found[k]), E)
    BY <2>1 DEF LibraryInv, LastHolds
  <2>. QED BY <1>3, <1>4, <1>5, <2>1, <2>2, NoChurn
<1>9. CASE valid /\ (W # {} \/ kept # m)
  <2>1. Library!Commit(kept) /\ lastFound' = found
    BY <1>7, <1>9
  <2>2. IndexHolds' /\ WalkHolds' /\ LabelHolds' /\ index'.entries = kept
    BY <1>1, <1>5, <2>1, CommitHolds
  <2>3. ASSUME Distinct(found), NEW k \in DOMAIN found PROVE Held(Library!EntryOf(found[k]), kept)
    BY <1>3, <1>4, <1>5, <2>3, MergeHolds
  <2>4. LastHolds'
    BY <1>4, <2>1, <2>2, <2>3 DEF LastHolds
  <2>. QED BY <1>2, <1>8, <2>2, <2>4 DEF LibraryInv
<1>10. CASE ~valid
  <2>1. UNCHANGED <<index, restarted, lastFound>>
    BY <1>7, <1>10
  <2>. QED BY <1>1, <1>2, <1>8, <2>1, StaysAsItIs DEF LibraryInv
<1>11. CASE valid /\ W = {} /\ kept = m
  <2>1. UNCHANGED <<index, restarted>> /\ lastFound' = found
    BY <1>7, <1>11
  <2>2. ASSUME NEW k \in DOMAIN found PROVE Held(Library!EntryOf(found[k]), index.entries)
    <3>1. Library!Stored(Library!EntryOf(found[k]), E)
      BY <1>3, <1>11 DEF Library!Written
    <3>2. E # {}
      BY <3>1 DEF Library!Stored
    <3>3. E = index.entries
      BY <1>3, <3>2, HealthIs DEF LibraryInv
    <3>. QED BY <3>1, <3>3 DEF Held
  <2>3. LastHolds'
    BY <1>4, <2>1, <2>2 DEF LastHolds
  <2>. QED BY <1>1, <1>2, <1>8, <2>1, <2>3, StaysAsItIs DEF LibraryInv
<1>. QED BY <1>6, <1>9, <1>10, <1>11

LEMMA ReindexKeeps == ASSUME LibraryInv, NEW i \in Indexers, Library!Reindex(i) PROVE LibraryInv'
<1>1. UNCHANGED <<tree, walk, labelling, faults, happened>> /\ scan' = [scan EXCEPT ![i] = Library!NoScan] /\ lastFound' = <<>>
  BY DEF Library!Reindex
<1>2. PICK found, m : found = scan[i].found /\ m = Library!Latest(found, DOMAIN found)
  OBVIOUS
<1>3. found \in Seq(Files)
  BY <1>2 DEF LibraryInv, ScansHold, Scans
<1>4. Indexed(Library!Bound(m))
  BY <1>2, <1>3, LatestIndexed, BoundIndexed
<1>5. Library!Commit(Library!Bound(m))
  BY <1>2 DEF Library!Reindex
<1>6. IndexHolds' /\ WalkHolds' /\ LabelHolds'
  BY <1>1, <1>4, <1>5, CommitHolds
<1>7. TreeHolds' /\ ScansHold' /\ LastHolds'
  BY <1>1, HappensKeeps, ScanEnds, NothingFound
<1>. QED BY <1>1, <1>6, <1>7 DEF LibraryInv

LEMMA DeleteKeeps == ASSUME LibraryInv, NEW id, Library!Delete(id) PROVE LibraryInv'
<1>1. UNCHANGED <<tree, scan, walk, labelling, faults>> /\ lastFound' = <<>>
  BY DEF Library!Delete
<1>2. PICK E, m : E = Library!Entries /\ m = {e \in E : e.id # id}
  OBVIOUS
<1>3. Indexed(m)
  <2>1. Indexed(E) /\ m \in SUBSET E
    BY <1>2, HealthIs DEF LibraryInv
  <2>2. IsFiniteSet(m)
    BY <2>1, FS_Subset DEF Indexed
  <2>. QED BY <2>1, <2>2 DEF Indexed
<1>4. Library!Commit(m)
  BY <1>2 DEF Library!Delete
<1>5. IndexHolds' /\ WalkHolds' /\ LabelHolds'
  BY <1>1, <1>3, <1>4, CommitHolds
<1>6. TreeHolds' /\ LastHolds'
  BY <1>1, HappensKeeps, NothingFound DEF Library!Delete
<1>7. ScansHold'
  BY <1>1 DEF LibraryInv, ScansHold
<1>. QED BY <1>1, <1>5, <1>6, <1>7 DEF LibraryInv

(* A damaged file is no commit: what was read stays behind the revision.     *)
LEMMA DamageKeeps == ASSUME LibraryInv, NEW state \in {"unreadable", "bad-entry"}, Library!Damage(state) PROVE LibraryInv'
<1>1. UNCHANGED <<tree, scan, walk, labelling, restarted, faults>> /\ lastFound' = <<>>
  BY DEF Library!Damage
<1>2. PICK r, m, es, o : r = index.revision /\ m = index.model /\ es = index.entries /\ o = index.state
  OBVIOUS
<1>3. index = [state |-> o, revision |-> r, model |-> m, entries |-> es]
  BY <1>2 DEF LibraryInv, IndexHolds
<1>4. PICK x : x = [state |-> state, revision |-> r, model |-> m, entries |-> es]
  OBVIOUS
<1>5. [index EXCEPT !.state = state] = x
  BY <1>3, <1>4
<1>6. index' = x
  BY <1>5 DEF Library!Damage
<1>7. index'.state = state /\ index'.revision = r /\ index'.model = m /\ index'.entries = es
  BY <1>4, <1>6
<1>8. IndexHolds'
  BY <1>1, <1>2, <1>4, <1>6, <1>7 DEF LibraryInv, IndexHolds
<1>9. WalkHolds'
  BY <1>1, <1>2, <1>7 DEF LibraryInv, WalkHolds
<1>10. LabelHolds'
  BY <1>1, <1>2, <1>7 DEF LibraryInv, LabelHolds
<1>11. TreeHolds' /\ LastHolds'
  BY <1>1, HappensKeeps, NothingFound DEF Library!Damage
<1>12. ScansHold'
  BY <1>1 DEF LibraryInv, ScansHold
<1>. QED BY <1>1, <1>8, <1>9, <1>10, <1>11, <1>12 DEF LibraryInv

LEMMA ModelChangesKeeps == ASSUME LibraryInv, Library!ModelChanges PROVE LibraryInv'
<1>1. UNCHANGED <<tree, scan, index, walk, labelling, restarted, faults>> /\ lastFound' = <<>>
  BY DEF Library!ModelChanges
<1>2. TreeHolds' /\ LastHolds'
  BY <1>1, HappensKeeps, NothingFound DEF Library!ModelChanges
<1>3. ScansHold'
  BY <1>1 DEF LibraryInv, ScansHold
<1>. QED BY <1>1, <1>2, <1>3, StaysAsItIs DEF LibraryInv

LEMMA SetIndexingKeeps == ASSUME LibraryInv, Library!SetIndexing PROVE LibraryInv'
<1>1. UNCHANGED <<tree, scan, index, walk, labelling, restarted, lastFound, faults>>
  BY DEF Library!SetIndexing
<1>2. TreeHolds'
  BY <1>1, HappensKeeps DEF Library!SetIndexing
<1>3. ScansHold'
  BY <1>1 DEF LibraryInv, ScansHold
<1>. QED BY <1>1, <1>2, <1>3, StaysAsItIs DEF LibraryInv

LEMMA QueryKeeps == ASSUME LibraryInv, NEW query, Library!Query(query) PROVE LibraryInv'
<1>1. UNCHANGED <<tree, scan, index, labelling, restarted, lastFound, faults>>
  BY DEF Library!Query
<1>2. PICK r, s, l, z : r = Library!Revision /\ s = Library!Entries /\ l = Library!Ranked(query, s) /\ z = restarted
  OBVIOUS
<1>3. r = index.revision /\ s = index.entries /\ Indexed(s)
  BY <1>2, HealthIs DEF LibraryInv, Library!Query
<1>4. PICK w : w = [at |-> "idle", query |-> query, revision |-> r, shown |-> <<>>, list |-> l, life |-> z]
  OBVIOUS
<1>5. PICK x : x = Library!Paged(w)
  OBVIOUS
<1>6. walk' = x
  BY <1>2, <1>4, <1>5 DEF Library!Query
<1>7. w.query = query /\ w.revision = r /\ w.shown = <<>> /\ w.list = l /\ w.life = z
  BY <1>4
<1>8. Pages(w.shown, w.list)
  <2>1. l \in Seq(Range(l))
    BY <1>2, <1>3, RankedIsSequence DEF Indexed
  <2>2. Len(<<>>) = 0 /\ <<>> = SubSeq(l, 1, 0) /\ Len(l) \in Nat
    BY <2>1
  <2>3. Len(<<>>) \in 0 .. Len(l) /\ <<>> = SubSeq(l, 1, Len(<<>>))
    BY <2>2
  <2>. QED BY <1>7, <2>1, <2>3 DEF Pages
<1>9. Pages(x.shown, x.list)
  BY <1>2, <1>3, <1>5, <1>7, <1>8, PageFollows
<1>10. /\ x = [at |-> x.at, query |-> x.query, revision |-> x.revision, shown |-> x.shown, list |-> x.list, life |-> x.life]
       /\ x.at # "idle" /\ x.query = query /\ x.revision = r /\ x.list = l /\ x.life = z
  BY <1>5, <1>7, PagedIs
<1>11. r \in Nat /\ z \in Nat /\ r <= index.revision /\ z <= restarted
  BY <1>2, <1>3 DEF LibraryInv, IndexHolds
<1>12. WalkHolds'
  BY <1>1, <1>2, <1>3, <1>6, <1>9, <1>10, <1>11 DEF WalkHolds
<1>13. TreeHolds'
  BY <1>1, HappensKeeps DEF Library!Query
<1>14. ScansHold'
  BY <1>1 DEF LibraryInv, ScansHold
<1>. QED BY <1>1, <1>12, <1>13, <1>14, StaysAsItIs DEF LibraryInv

(* A cursor of the same revision reads the ranking its query read.           *)
LEMMA NextPageKeeps == ASSUME LibraryInv, Library!NextPage PROVE LibraryInv'
<1>1. UNCHANGED <<tree, scan, index, labelling, restarted, lastFound, faults, happened>>
  BY DEF Library!NextPage
<1>2. TreeHolds' /\ ScansHold'
  BY <1>1, HappensKeeps DEF LibraryInv, ScansHold
<1>3. CASE Library!ResultState = "ready" /\ Library!CursorHolds(walk)
  <2>1. PICK w, s, x : w = walk /\ s = Library!Entries /\ x = Library!Paged(w)
    OBVIOUS
  <2>2. walk' = x /\ w.at = "paging"
    BY <1>3, <2>1 DEF Library!NextPage
  <2>3. s = index.entries /\ Indexed(s) /\ w.revision = index.revision
    BY <1>3, <2>1, HealthIs DEF LibraryInv, Library!CursorHolds
  <2>4. /\ w.life \in Nat /\ w.life <= restarted
        /\ w.life = restarted =>
            /\ w.revision \in Nat /\ w.revision <= index.revision
            /\ w.list = Library!Ranked(w.query, s) /\ Pages(w.shown, w.list)
    BY <2>1, <2>2, <2>3 DEF LibraryInv, WalkHolds
  <2>5. /\ x = [at |-> x.at, query |-> x.query, revision |-> x.revision, shown |-> x.shown, list |-> x.list, life |-> x.life]
        /\ x.at # "idle" /\ x.query = w.query /\ x.revision = w.revision /\ x.list = w.list /\ x.life = w.life
    BY <2>1, PagedIs
  <2>6. w.life = restarted => Pages(x.shown, x.list)
    BY <2>1, <2>3, <2>4, PageFollows
  <2>7. WalkHolds'
    BY <1>1, <2>2, <2>3, <2>4, <2>5, <2>6 DEF WalkHolds
  <2>. QED BY <1>1, <1>2, <2>7, StaysAsItIs DEF LibraryInv
<1>4. CASE ~(Library!ResultState = "ready" /\ Library!CursorHolds(walk))
  <2>1. WalkHolds'
    BY <1>4, NoWalkHolds DEF Library!NextPage
  <2>. QED BY <1>1, <1>2, <2>1, StaysAsItIs DEF LibraryInv
<1>. QED BY <1>3, <1>4

LEMMA StopReadingKeeps == ASSUME LibraryInv, Library!StopReading PROVE LibraryInv'
<1>1. UNCHANGED <<tree, scan, index, labelling, restarted, lastFound, faults, happened>> /\ WalkHolds'
  BY NoWalkHolds DEF Library!StopReading
<1>2. TreeHolds' /\ ScansHold'
  BY <1>1, HappensKeeps DEF LibraryInv, ScansHold
<1>. QED BY <1>1, <1>2, StaysAsItIs DEF LibraryInv

LEMMA LabelReadsKeeps == ASSUME LibraryInv, NEW id, Library!LabelReads(id) PROVE LibraryInv'
<1>1. UNCHANGED <<tree, scan, index, walk, restarted, lastFound, faults>>
  BY DEF Library!LabelReads
<1>2. PICK e \in Library!Entries :
        labelling' = [at |-> "read", id |-> id, revision |-> Library!Revision, read |-> <<e>>, life |-> restarted]
  BY DEF Library!LabelReads
<1>3. PICK r, z : r = Library!Revision /\ z = restarted
  OBVIOUS
<1>4. e \in index.entries /\ r = index.revision
  BY <1>2, <1>3, HealthIs DEF LibraryInv
<1>5. r \in Nat \ {0} /\ Entry(e) /\ z \in Nat
  BY <1>3, <1>4 DEF LibraryInv, IndexHolds, Indexed
<1>6. labelling' = [at |-> "read", id |-> id, revision |-> r, read |-> <<e>>, life |-> z]
  BY <1>2, <1>3
<1>7. labelling'.revision = r /\ labelling'.read[1] = e /\ labelling'.life = z
  BY <1>6
<1>8. z <= restarted /\ r <= index.revision
  BY <1>3, <1>4, <1>5
<1>9. LabelHolds'
  BY <1>1, <1>4, <1>5, <1>7, <1>8 DEF LabelHolds
<1>10. TreeHolds'
  BY <1>1, HappensKeeps DEF Library!LabelReads
<1>11. ScansHold'
  BY <1>1 DEF LibraryInv, ScansHold
<1>. QED BY <1>1, <1>9, <1>10, <1>11, StaysAsItIs DEF LibraryInv

(* The revision that was read still names the entry, or is not the index's.  *)
LEMMA LabelWritesKeeps == ASSUME LibraryInv, NEW labels, Library!LabelWrites(labels) PROVE LibraryInv'
<1>1. UNCHANGED <<tree, scan, walk, happened>> /\ labelling' = Library!NoLabelling /\ labelling.at = "read"
  BY DEF Library!LabelWrites
<1>2. TreeHolds' /\ ScansHold' /\ LabelHolds'
  BY <1>1, HappensKeeps, NoLabellingHolds DEF LibraryInv, ScansHold
<1>3. PICK old, a, b, c, d : old = labelling.read[1] /\ a = old.id /\ b = old.path /\ c = old.labels /\ d = old.age
  OBVIOUS
<1>4. Entry(old)
  BY <1>1, <1>3 DEF LibraryInv, LabelHolds
<1>5. old = [id |-> a, path |-> b, labels |-> c, age |-> d] /\ a \in Contents /\ d \in Nat
  BY <1>3, <1>4 DEF Entry
<1>6. PICK entry : entry = [id |-> a, path |-> b, labels |-> labels, age |-> d]
  OBVIOUS
<1>7. [old EXCEPT !.labels = labels] = entry
  BY <1>5, <1>6
<1>8. entry.id = a /\ entry.path = b /\ entry.labels = labels /\ entry.age = d
  BY <1>6
<1>9. Entry(entry)
  BY <1>5, <1>6, <1>8 DEF Entry
<1>10. Indexed({entry})
  <2>1. IsFiniteSet({entry})
    BY FS_Singleton
  <2>. QED BY <1>9, <2>1 DEF Indexed
<1>11. PICK m : m = Library!Bound(Library!Put(Library!Entries, {entry}))
  OBVIOUS
<1>12. Indexed(m)
  BY <1>10, <1>11, HealthIs, PutIndexed, BoundIndexed DEF LibraryInv
<1>13. CASE Library!RevisionHolds /\ lastFound' = <<>> /\ Library!Commit(m)
            /\ faults' = IF old \notin index.entries /\ labelling.life = restarted THEN faults \cup {"stale label"} ELSE faults
  <2>1. labelling.revision \in Nat \ {0} /\ labelling.revision = Library!Revision
    BY <1>1, <1>13 DEF LibraryInv, LabelHolds, Library!RevisionHolds
  <2>2. labelling.revision = index.revision
    BY <2>1, HealthIs DEF LibraryInv
  <2>3. labelling.life = restarted => old \in index.entries
    BY <1>1, <1>3, <2>2 DEF LibraryInv, LabelHolds
  <2>4. faults' = faults
    BY <1>13, <2>3
  <2>5. IndexHolds' /\ WalkHolds'
    BY <1>1, <1>12, <1>13, CommitHolds
  <2>6. LastHolds'
    BY <1>13, NothingFound
  <2>. QED BY <1>2, <2>4, <2>5, <2>6 DEF LibraryInv
<1>14. CASE UNCHANGED <<index, restarted, lastFound, faults>>
  BY <1>1, <1>2, <1>14, StaysAsItIs DEF LibraryInv
<1>15. \/ /\ Library!RevisionHolds /\ lastFound' = <<>> /\ Library!Commit(m)
          /\ faults' = IF old \notin index.entries /\ labelling.life = restarted THEN faults \cup {"stale label"} ELSE faults
       \/ UNCHANGED <<index, restarted, lastFound, faults>>
  BY <1>3, <1>7, <1>11 DEF Library!LabelWrites
<1>. QED BY <1>13, <1>14, <1>15

LEMMA LibraryStep == ASSUME LibraryInv, [Library!Next]_(Library!libraryVars) PROVE LibraryInv'
<1>1. CASE UNCHANGED Library!libraryVars
  <2>1. UNCHANGED <<tree, scan, index, walk, labelling, restarted, lastFound, faults, happened>>
    BY <1>1 DEF Library!libraryVars
  <2>2. TreeHolds' /\ ScansHold'
    BY <2>1, HappensKeeps DEF LibraryInv, ScansHold
  <2>. QED BY <2>1, <2>2, StaysAsItIs DEF LibraryInv
<1>2. ASSUME NEW p \in Library!Range(Walk), NEW c \in Edited, Library!Edit(p, c) PROVE LibraryInv'
  BY <1>2, EditKeeps
<1>3. ASSUME NEW i \in Indexers,
             Library!BeginScan(i) \/ Library!ScanStep(i) \/ Library!JudgeStep(i) \/ Library!Upsert(i) \/ Library!Reindex(i)
      PROVE  LibraryInv'
  BY <1>3, BeginScanKeeps, ScanStepKeeps, JudgeStepKeeps, UpsertKeeps, ReindexKeeps
<1>4. ASSUME NEW id \in Contents, Library!Delete(id) \/ Library!LabelReads(id) PROVE LibraryInv'
  BY <1>4, DeleteKeeps, LabelReadsKeeps
<1>5. ASSUME NEW state \in {"unreadable", "bad-entry"}, Library!Damage(state) PROVE LibraryInv'
  BY <1>5, DamageKeeps
<1>6. CASE Library!ModelChanges \/ Library!SetIndexing \/ Library!NextPage \/ Library!StopReading
  BY <1>6, ModelChangesKeeps, SetIndexingKeeps, NextPageKeeps, StopReadingKeeps
<1>7. ASSUME NEW query \in {"search", "browse", "similar"}, Library!Query(query) PROVE LibraryInv'
  BY <1>7, QueryKeeps
<1>8. ASSUME NEW labels \in Labels, Library!LabelWrites(labels) PROVE LibraryInv'
  BY <1>8, LabelWritesKeeps
<1>. QED BY <1>1, <1>2, <1>3, <1>4, <1>5, <1>6, <1>7, <1>8 DEF Library!Next

LEMMA LibraryIsRead == LibraryInv => ReadsHold
BY DEF LibraryInv, WalkHolds, Pages, ReadsHold, Library!ReadsHold

(* Whatever scans, rebuilds, deletions, labels, model changes and damage     *)
(* happen between two pages, the pages of one query within one life of the   *)
(* index are consecutive parts of one ranking; labels are put on the entry   *)
(* they were chosen for; and a rescan of an unchanged tree of different      *)
(* files that fit writes nothing (decode_cursor, _check_revision, upsert and  *)
(* _bound): for every walk, every contents and bounds, and any number of     *)
(* events.                                                                   *)
THEOREM ReadsStayTrue == Library!Spec => []ReadsHold
<1>1. Library!Init => LibraryInv
  BY LibraryStart
<1>2. LibraryInv /\ [Library!Next]_(Library!libraryVars) => LibraryInv'
  BY LibraryStep
<1>3. LibraryInv => ReadsHold
  BY LibraryIsRead
<1>. QED BY <1>1, <1>2, <1>3, PTL DEF Library!Spec

==============================================================================
