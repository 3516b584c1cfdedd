-------------------------- MODULE PolicyControlProofs --------------------------
(* PolicyControl for every set of clients, profiles, settings, choices and   *)
(* commands, every batch length and any number of revisions.                 *)
(*                                                                           *)
(* Two arguments meet.  A batch is applied change by change, so that its     *)
(* result is a policy within the limits is an induction over the batch; and  *)
(* what is on disk is related to what is in memory and to what was shown by  *)
(* the stage of the one save that the lock lets through.                     *)
(*                                                                           *)
(* Beside it, with constants and variables of their own: the job pipeline    *)
(* and the artifact store (ServiceParts).                                    *)
EXTENDS PolicyControl, ServiceParts, Sequences, FiniteSetTheorems, NaturalsInduction, WellFoundedInduction, TLAPS

(* A policy within its limits that has every catalog profile.                *)
Good == {s \in Policies : /\ Cardinality(Chosen(s)) <= MaxChoices
                          /\ \A p \in Catalog : s.profiles[p] # Absent}

SaveRecords == [stage : {"writing", "replaced", "synced", "failed"}, policy : Good]

(* The state is made of such policies.                                       *)
Shape ==
    /\ phase \in {"serving", "stopping", "exiting", "down"}
    /\ mem \in Good /\ visible \in Good /\ durable \in Good
    /\ lock \in Actors \cup {"free"}
    /\ pc \in [Actors -> {"idle", "waiting", "configuring", "saving"}]
    /\ saving \in [Actors -> SaveRecords \cup {NoSave}]
    /\ view \in [Clients -> Policies]
    /\ command \in [Clients -> [cmd : Commands \cup {NoCommand.cmd}, expected : Nat]]
    /\ \A c \in Clients : pc[c] = "waiting" => command[c].cmd \in Commands
    /\ offered \in SUBSET Choices
    /\ plugins \in SUBSET Profiles
    /\ orphaned \in BOOLEAN /\ unsynced \in BOOLEAN

(* Nobody acts in a process that is gone, and its saves end with it.         *)
PhasesAgree ==
    /\ ~Up => \A a \in Actors : pc[a] = "idle"
    /\ phase = "down" => \A a \in Actors : saving[a] = NoSave
    /\ phase # "serving" => pc[Adopter] = "idle"
    /\ pc[Adopter] \in {"idle", "saving"}

(* Whatever may become the policy file's content holds what was shown.       *)
FilesHoldViews ==
    /\ \A c \in Clients : /\ Holds(durable, view[c])
                          /\ Holds(visible, view[c])
                          /\ Up => Holds(mem, view[c])
    /\ \A a \in Actors, c \in Clients : Active(a) => Holds(saving[a].policy, view[c])

(* The file is behind a save only until that save has synced, and is never   *)
(* behind memory.                                                            *)
FilesHoldMemory ==
    /\ visible # durable => \E a \in Actors : saving[a].stage = "replaced"
    /\ Up => Holds(durable, mem) /\ Holds(visible, mem)

(* The only active save is the lock holder's, it writes a later revision,    *)
(* and once it is past its rename the file is what it wrote.                 *)
SavesInOrder ==
    Up => \A a \in Actors :
        /\ Active(a) => pc[a] = "saving"
        /\ pc[a] = "saving" /\ saving[a].stage \in {"writing", "replaced", "synced"} =>
               saving[a].policy.revision > mem.revision
        /\ pc[a] = "saving" /\ saving[a].stage \in {"replaced", "synced"} =>
               visible = saving[a].policy
        /\ pc[a] = "saving" /\ saving[a].stage = "synced" => durable = saving[a].policy

DiskInv == ~orphaned /\ ~unsynced => FilesHoldViews /\ FilesHoldMemory /\ SavesInOrder

PolicyInv == Shape /\ PhasesAgree /\ LockOwned /\ DiskInv

-----------------------------------------------------------------------------
(* A non-empty set of naturals has a least element: what the inductions over *)
(* a batch below rest on.                                                    *)
LEMMA LeastOf ==
    ASSUME NEW B \in SUBSET Nat, B # {}
    PROVE  \E m \in B : \A n \in B : m <= n
<1>1. PICK m \in B : \A n \in B : ~(<<n, m>> \in OpToRel(<, Nat))
  BY NatLessThanWellFounded, WFMin
<1>2. ASSUME NEW n \in B PROVE m <= n
  <2>1. SUFFICES ASSUME n < m PROVE FALSE
    OBVIOUS
  <2>2. <<n, m>> \in {ss \in Nat \X Nat : ss[1] < ss[2]}
    BY <2>1
  <2>. QED BY <2>2, <1>1 DEF OpToRel
<1>. QED BY <1>2

(* The fold of a batch is what its definition says: there is a function that *)
(* satisfies the recursion, for every length.                                *)
LEMMA AfterIsRecursive ==
    ASSUME NEW s, NEW changes, Len(changes) \in Nat
    PROVE  /\ After(s, changes)[0] = s
           /\ \A i \in 1..Len(changes) :
                  After(s, changes)[i] = Applied(After(s, changes)[i - 1], changes[i])
<1>. DEFINE Eq(g, k) == g = [i \in 0..k |-> IF i = 0 THEN s ELSE Applied(g[i - 1], changes[i])]
            B == {k \in Nat : ~ \E g : Eq(g, k)}
<1>1. B = {}
  <2>. SUFFICES ASSUME B # {} PROVE FALSE
    OBVIOUS
  <2>1. PICK m \in B : \A n \in B : m <= n
    BY LeastOf
  <2>2. CASE m = 0
    <3>. DEFINE g == [i \in 0..0 |-> s]
    <3>1. \A i \in 0..0 : i = 0
      OBVIOUS
    <3>2. Eq(g, 0)
      BY <3>1
    <3>. QED BY <2>1, <2>2, <3>2
  <2>3. CASE m # 0
    <3>1. m \in Nat /\ m - 1 \in Nat /\ m - 1 \notin B
      BY <2>1, <2>3
    <3>2. PICK g : Eq(g, m - 1)
      BY <3>1
    <3>. DEFINE h == [i \in 0..m |-> IF i < m THEN g[i] ELSE Applied(g[m - 1], changes[m])]
    <3>3. ASSUME NEW i \in 0..m
          PROVE  h[i] = IF i = 0 THEN s ELSE Applied(h[i - 1], changes[i])
      <4>1. CASE i = 0
        <5>1. h[0] = g[0] /\ 0 \in 0..m - 1
          BY <3>1, <2>3
        <5>. QED BY <4>1, <5>1, <3>2
      <4>2. CASE i # 0
        <5>1. i - 1 \in 0..m - 1 /\ i - 1 \in 0..m /\ i - 1 < m
          BY <4>2, <3>1
        <5>2. h[i - 1] = g[i - 1]
          BY <5>1
        <5>3. CASE i < m
          <6>1. i \in 0..m - 1
            BY <5>3, <3>1
          <6>2. g[i] = Applied(g[i - 1], changes[i])
            BY <6>1, <4>2, <3>2
          <6>. QED BY <5>2, <5>3, <6>2, <4>2
        <5>4. CASE i = m
          <6>1. h[i] = Applied(g[m - 1], changes[m])
            BY <5>4, <3>1
          <6>. QED BY <5>2, <5>4, <6>1, <4>2
        <5>. QED BY <5>3, <5>4, <3>1
      <4>. QED BY <4>1, <4>2
    <3>4. Eq(h, m)
      <4>1. h = [i \in 0..m |-> h[i]]
        OBVIOUS
      <4>. HIDE DEF h
      <4>. QED BY <3>3, <4>1
    <3>. QED BY <2>1, <3>4
  <2>. QED BY <2>2, <2>3
<1>2. PICK g : Eq(g, Len(changes))
  BY <1>1
<1>3. After(s, changes) = CHOOSE f : Eq(f, Len(changes))
  BY DEF After
<1>4. Eq(After(s, changes), Len(changes))
  <2>. HIDE DEF Eq
  <2>. QED BY <1>2, <1>3
<1>. DEFINE a == After(s, changes)
            l == Len(changes)
<1>5. a = [i \in 0..l |-> IF i = 0 THEN s ELSE Applied(a[i - 1], changes[i])] /\ l \in Nat
  BY <1>4
<1>. HIDE DEF a, l
<1>6. a[0] = s /\ \A i \in 1..l : a[i] = Applied(a[i - 1], changes[i])
  <2>1. 0 \in 0..l /\ \A i \in 1..l : i \in 0..l /\ i # 0
    BY <1>5
  <2>. QED BY <1>5, <2>1
<1>. QED BY <1>6 DEF a, l

-----------------------------------------------------------------------------
LEMMA Constants ==
    /\ Absent \notin Settings /\ DefaultSetting \in Settings /\ Catalog \subseteq Profiles
    /\ MaxChoices \in Nat
    /\ \A S \in SUBSET Profiles : IsFiniteSet(S) /\ Cardinality(S) \in Nat
<1>1. ASSUME NEW S \in SUBSET Profiles PROVE IsFiniteSet(S) /\ Cardinality(S) \in Nat
  BY ProfilesAssumption, FS_Subset, FS_CardinalityType
<1>. QED BY <1>1, DefaultAssumption, CatalogAssumption, MaxChoicesAssumption DEF Absent

LEMMA PolicyParts ==
    ASSUME NEW s \in Policies
    PROVE  /\ s.revision \in Nat /\ s.paused \in BOOLEAN
           /\ s.profiles \in [Profiles -> Settings \cup {Absent}]
           /\ s.choices \in [Profiles -> Choices \cup {None}]
           /\ Chosen(s) \in SUBSET Profiles
  BY DEF Policies, Chosen

(* One change of a batch keeps a policy within its limits, when it found a   *)
(* place for the choice it adds.                                             *)
LEMMA AppliedGood ==
    ASSUME NEW s \in Good, NEW change \in Changes,
           change.choice \in Choices => WithinLimit(s, change.profile)
    PROVE  Applied(s, change) \in Good /\ Applied(s, change).revision = s.revision
<1>. DEFINE p == change.profile
            r == Applied(s, change)
            x == IF change.setting = Keep THEN s.profiles[p] ELSE change.setting
            y == IF change.choice = Keep THEN s.choices[p] ELSE change.choice
<1>1. /\ p \in Profiles /\ change.setting \in Settings \cup {Keep}
      /\ change.choice \in Choices \cup {Keep, None} /\ s \in Policies
  BY DEF Changes, Good
<1>2. r = [s EXCEPT !.profiles = [s.profiles EXCEPT ![p] = x], !.choices = [s.choices EXCEPT ![p] = y]]
  BY <1>1 DEF Applied, Policies
<1>3. x \in Settings \cup {Absent} /\ (s.profiles[p] # Absent => x # Absent)
  BY <1>1, Constants, PolicyParts
<1>4. y \in Choices \cup {None}
  BY <1>1, PolicyParts
<1>. HIDE DEF x, y, r
<1>5. /\ r \in Policies /\ r.revision = s.revision
      /\ r.profiles = [s.profiles EXCEPT ![p] = x] /\ r.choices = [s.choices EXCEPT ![p] = y]
  BY <1>1, <1>2, <1>3, <1>4 DEF Policies
<1>6. \A q \in Catalog : r.profiles[q] # Absent
  BY <1>1, <1>3, <1>5, Constants, PolicyParts DEF Good
<1>7. Cardinality(Chosen(r)) <= MaxChoices
  <2>1. Chosen(r) \subseteq Chosen(s) \cup {p} /\ Chosen(s) \in SUBSET Profiles
        /\ Chosen(s) \cup {p} \in SUBSET Profiles /\ Chosen(r) \in SUBSET Profiles
    BY <1>1, <1>5, PolicyParts DEF Chosen
  <2>2. Cardinality(Chosen(s)) <= MaxChoices /\ Cardinality(Chosen(s)) \in Nat
        /\ Cardinality(Chosen(r)) \in Nat /\ IsFiniteSet(Chosen(s))
    BY <2>1, Constants DEF Good
  <2>3. CASE Chosen(r) \subseteq Chosen(s)
    <3>1. Cardinality(Chosen(r)) <= Cardinality(Chosen(s))
      BY <2>2, <2>3, FS_Subset
    <3>. QED BY <2>2, <3>1, Constants
  <2>4. CASE ~(Chosen(r) \subseteq Chosen(s))
    <3>1. p \notin Chosen(s) /\ p \in Chosen(r)
      BY <2>1, <2>4
    <3>2. y # None /\ s.choices[p] = None
      BY <3>1, <1>1, <1>5, PolicyParts DEF Chosen
    <3>3. change.choice \in Choices
      BY <3>2, <1>1 DEF y
    <3>4. Cardinality(Chosen(s)) < MaxChoices
      BY <3>2, <3>3 DEF WithinLimit
    <3>5. Cardinality(Chosen(s) \cup {p}) = Cardinality(Chosen(s)) + 1
          /\ IsFiniteSet(Chosen(s) \cup {p})
      BY <2>2, <3>1, FS_AddElement
    <3>6. Cardinality(Chosen(r)) <= Cardinality(Chosen(s) \cup {p})
      BY <2>1, <3>5, FS_Subset
    <3>. QED BY <2>2, <3>4, <3>5, <3>6, Constants
  <2>. QED BY <2>3, <2>4
<1>. QED BY <1>5, <1>6, <1>7 DEF Good, r

(* A batch that is allowed keeps a policy within its limits, however long it *)
(* is: no prefix of it is a least one that does not.                         *)
LEMMA BatchGood ==
    ASSUME NEW s \in Good, NEW changes \in Seq(Changes), BatchAllowed(s, changes)
    PROVE  /\ After(s, changes)[Len(changes)] \in Good
           /\ After(s, changes)[Len(changes)].revision = s.revision
<1>. DEFINE a == After(s, changes)
            l == Len(changes)
            B == {k \in 0..l : ~(a[k] \in Good /\ a[k].revision = s.revision)}
<1>1. l \in Nat /\ a[0] = s /\ \A i \in 1..l : a[i] = Applied(a[i - 1], changes[i])
  BY AfterIsRecursive
<1>2. \A i \in 1..l : /\ changes[i] \in Changes
                      /\ changes[i].choice \in Choices => WithinLimit(a[i - 1], changes[i].profile)
  BY DEF BatchAllowed
<1>. HIDE DEF a, l
<1>3. B = {}
  <2>. SUFFICES ASSUME B # {} PROVE FALSE
    OBVIOUS
  <2>1. PICK m \in B : \A n \in B : m <= n
    <3>1. B \in SUBSET Nat
      BY <1>1
    <3>. QED BY <3>1, LeastOf
  <2>2. m # 0
    BY <2>1, <1>1
  <2>3. m \in 1..l /\ m - 1 \in 0..l /\ ~(m <= m - 1)
    BY <2>1, <2>2, <1>1
  <2>4. a[m - 1] \in Good /\ a[m - 1].revision = s.revision
    BY <2>1, <2>3
  <2>5. a[m] \in Good /\ a[m].revision = a[m - 1].revision
    BY <2>3, <2>4, <1>1, <1>2, AppliedGood
  <2>. QED BY <2>1, <2>4, <2>5
<1>4. l \in 0..l
  BY <1>1
<1>5. a[l] \in Good /\ a[l].revision = s.revision
  BY <1>3, <1>4
<1>. QED BY <1>5 DEF a, l

(* Everything a command can make of a policy is a policy within its limits.  *)
LEMMA ExecutedGood ==
    ASSUME NEW s \in Good, NEW cmd \in Commands, Allowed(s, cmd)
    PROVE  Executed(s, cmd) \in Good /\ Executed(s, cmd).revision = s.revision
<1>1. CASE cmd.op = "batch"
  <2>1. cmd.changes \in Seq(Changes) /\ BatchAllowed(s, cmd.changes)
    BY <1>1, CommandsAssumption DEF Allowed
  <2>. QED BY <1>1, <2>1, BatchGood DEF Executed
<1>2. CASE cmd.op = "paused"
  <2>1. cmd.value \in BOOLEAN
    BY <1>2, CommandsAssumption
  <2>2. Executed(s, cmd) = [s EXCEPT !.paused = cmd.value]
    BY <1>2 DEF Executed
  <2>3. /\ [s EXCEPT !.paused = cmd.value] \in Policies
        /\ [s EXCEPT !.paused = cmd.value].revision = s.revision
        /\ [s EXCEPT !.paused = cmd.value].profiles = s.profiles
        /\ [s EXCEPT !.paused = cmd.value].choices = s.choices
    BY <2>1 DEF Good, Policies
  <2>. QED BY <2>2, <2>3 DEF Good, Chosen
<1>3. CASE cmd.op = "configure"
  BY <1>3 DEF Executed
<1>. QED BY <1>1, <1>2, <1>3, CommandsAssumption

LEMMA BumpedGood ==
    ASSUME NEW s \in Good
    PROVE  Bumped(s) \in Good /\ Bumped(s).revision = s.revision + 1
<1>1. /\ Bumped(s) \in Policies /\ Bumped(s).revision = s.revision + 1
      /\ Bumped(s).profiles = s.profiles /\ Bumped(s).choices = s.choices
  BY DEF Bumped, Good, Policies
<1>. QED BY <1>1 DEF Good, Chosen

LEMMA AdoptedGood ==
    ASSUME NEW s \in Good
    PROVE  Adopted(s) \in Good /\ Adopted(s).revision = s.revision + 1
<1>. DEFINE f == [p \in Profiles |-> IF p \in Unadopted(s) THEN DefaultSetting ELSE s.profiles[p]]
<1>1. /\ Bumped(s) \in Policies /\ Bumped(s).revision = s.revision + 1
      /\ Bumped(s).profiles = s.profiles /\ Bumped(s).choices = s.choices
  BY DEF Bumped, Good, Policies
<1>2. s.profiles \in [Profiles -> Settings \cup {Absent}]
  BY PolicyParts DEF Good
<1>3. f \in [Profiles -> Settings \cup {Absent}] /\ \A p \in Catalog : f[p] # Absent
  BY <1>2, Constants DEF Good
<1>4. Adopted(s) = [Bumped(s) EXCEPT !.profiles = f]
  BY <1>1 DEF Adopted, Policies
<1>. HIDE DEF f
<1>5. /\ Adopted(s) \in Policies /\ Adopted(s).revision = s.revision + 1
      /\ Adopted(s).profiles = f /\ Adopted(s).choices = s.choices
  BY <1>1, <1>3, <1>4 DEF Policies
<1>. QED BY <1>3, <1>5 DEF Good, Chosen

(* load() changes nothing in a policy that has every catalog profile.        *)
LEMMA LoadIsIdentity == ASSUME NEW s \in Good PROVE Load(s) = s
<1>. DEFINE f == [p \in Profiles |-> IF p \in Catalog /\ s.profiles[p] = Absent THEN DefaultSetting ELSE s.profiles[p]]
<1>1. s.profiles \in [Profiles -> Settings \cup {Absent}] /\ s \in Policies
  BY PolicyParts DEF Good
<1>2. f = s.profiles
  BY <1>1 DEF Good
<1>3. Load(s) = [s EXCEPT !.profiles = f]
  BY <1>1 DEF Load, Policies
<1>. QED BY <1>1, <1>2, <1>3 DEF Policies

(* What a snapshot shows of a policy is all that publishing it again shows.  *)
LEMMA PublishedTwice ==
    ASSUME NEW s \in Policies
    PROVE  /\ Published(s) \in Policies /\ Published(s).revision = s.revision
           /\ Published(Published(s)) = Published(s)
<1>. DEFINE f == [p \in Profiles |-> IF s.profiles[p] = Absent THEN None ELSE s.choices[p]]
            g == [p \in Profiles |-> IF s.profiles[p] = Absent THEN None ELSE f[p]]
<1>1. s.choices \in [Profiles -> Choices \cup {None}]
  BY PolicyParts
<1>2. f \in [Profiles -> Choices \cup {None}] /\ g = f
  BY <1>1
<1>3. Published(s) = [s EXCEPT !.choices = f]
  BY DEF Published, Policies
<1>4. /\ Published(s) \in Policies /\ Published(s).revision = s.revision
      /\ Published(s).profiles = s.profiles /\ Published(s).choices = f
  BY <1>2, <1>3 DEF Policies
<1>5. Published(Published(s)) = [Published(s) EXCEPT !.choices = g]
  BY <1>4 DEF Published, Policies
<1>. QED BY <1>2, <1>3, <1>4, <1>5 DEF Policies

LEMMA FreshGood == Fresh \in Good
<1>. DEFINE f == [p \in Profiles |-> IF p \in Catalog THEN DefaultSetting ELSE Absent]
            g == [p \in Profiles |-> None]
<1>1. f \in [Profiles -> Settings \cup {Absent}] /\ \A p \in Catalog : f[p] # Absent
  BY Constants
<1>2. g \in [Profiles -> Choices \cup {None}] /\ \A p \in Profiles : g[p] = None
  OBVIOUS
<1>3. Fresh = [revision |-> 0, paused |-> FALSE, profiles |-> f, choices |-> g]
  BY DEF Fresh
<1>. HIDE DEF f, g
<1>4. Fresh \in Policies /\ Fresh.profiles = f /\ Fresh.choices = g
  BY <1>1, <1>2, <1>3 DEF Policies
<1>5. Chosen(Fresh) = {}
  BY <1>2, <1>4 DEF Chosen
<1>6. Cardinality(Chosen(Fresh)) <= MaxChoices
  BY <1>5, FS_EmptySet, MaxChoicesAssumption
<1>. QED BY <1>1, <1>4, <1>6 DEF Good

-----------------------------------------------------------------------------
(* A policy holds itself, what it is a later revision of, what a policy it   *)
(* holds holds, and what is shown of it.                                     *)
LEMMA HoldsFacts ==
    /\ \A s \in Policies : Holds(s, s) /\ Holds(s, Published(s))
    /\ \A s, v \in Policies : s.revision > v.revision => Holds(s, v)
    /\ \A s, v, w \in Policies : Holds(s, v) /\ Holds(v, w) => Holds(s, w)
    /\ \A s, v, w \in Policies : s.revision > v.revision /\ Holds(v, w) => Holds(s, w)
<1>1. ASSUME NEW s \in Policies PROVE Holds(s, s) /\ Holds(s, Published(s))
  BY PublishedTwice, PolicyParts DEF Holds, Same
<1>2. ASSUME NEW s \in Policies, NEW v \in Policies, s.revision > v.revision PROVE Holds(s, v)
  BY <1>2, PolicyParts DEF Holds
<1>3. ASSUME NEW s \in Policies, NEW v \in Policies, NEW w \in Policies, Holds(s, v), Holds(v, w)
      PROVE  Holds(s, w)
  <2>1. s.revision \in Nat /\ v.revision \in Nat /\ w.revision \in Nat
    BY PolicyParts
  <2>2. /\ s.revision >= v.revision /\ v.revision >= w.revision
        /\ s.revision = v.revision => Published(s) = Published(v)
        /\ v.revision = w.revision => Published(v) = Published(w)
    BY <1>3 DEF Holds, Same
  <2>3. s.revision >= w.revision
    BY <2>1, <2>2
  <2>4. s.revision = w.revision => s.revision = v.revision /\ v.revision = w.revision
    BY <2>1, <2>2
  <2>. QED BY <2>2, <2>3, <2>4 DEF Holds, Same
<1>4. ASSUME NEW s \in Policies, NEW v \in Policies, NEW w \in Policies, s.revision > v.revision,
             Holds(v, w)
      PROVE  Holds(s, w)
  <2>1. s.revision > w.revision
    BY <1>4, PolicyParts DEF Holds
  <2>. QED BY <2>1, PolicyParts DEF Holds
<1>. QED BY <1>1, <1>2, <1>3, <1>4

LEMMA GoodPolicies == Good \subseteq Policies
  BY DEF Good


(* A save record has a policy, and there is none without a stage.            *)
LEMMA Types ==
    ASSUME Shape
    PROVE  /\ NoSave.stage = "none"
           /\ mem \in Policies /\ visible \in Policies /\ durable \in Policies
           /\ mem.revision \in Nat
           /\ \A c \in Clients : view[c] \in Policies /\ view[c].revision \in Nat
           /\ \A a \in Actors : saving[a].stage # "none" =>
                  /\ saving[a] \in SaveRecords /\ saving[a] # NoSave
                  /\ saving[a].policy \in Good /\ saving[a].policy \in Policies
<1>1. NoSave.stage = "none"
  BY DEF NoSave
<1>2. ASSUME NEW a \in Actors, saving[a].stage # "none"
      PROVE  /\ saving[a] \in SaveRecords /\ saving[a] # NoSave
             /\ saving[a].policy \in Good /\ saving[a].policy \in Policies
  <2>1. saving[a] \in SaveRecords /\ saving[a] # NoSave
    BY <1>1, <1>2 DEF Shape
  <2>2. saving[a].policy \in Good
    BY <2>1 DEF SaveRecords
  <2>. QED BY <2>1, <2>2, GoodPolicies
<1>3. mem \in Policies /\ visible \in Policies /\ durable \in Policies
  BY GoodPolicies DEF Shape
<1>4. \A c \in Clients : view[c] \in Policies
  BY DEF Shape
<1>. QED BY <1>1, <1>2, <1>3, <1>4, PolicyParts

(* What a step of a save leaves of it.                                       *)
LEMMA Staged ==
    ASSUME Shape, NEW a \in Actors, saving[a].stage # "none",
           NEW st \in {"writing", "replaced", "synced", "failed"},
           saving' = [saving EXCEPT ![a].stage = st]
    PROVE  /\ saving' \in [Actors -> SaveRecords \cup {NoSave}]
           /\ saving'[a].stage = st /\ saving'[a].policy = saving[a].policy
           /\ \A b \in Actors : b # a => saving'[b] = saving[b]
<1>1. saving[a] \in SaveRecords /\ saving \in [Actors -> SaveRecords \cup {NoSave}]
  BY Types DEF Shape
<1>. DEFINE r == [saving[a] EXCEPT !.stage = st]
<1>2. r \in SaveRecords /\ r.stage = st /\ r.policy = saving[a].policy
  BY <1>1 DEF SaveRecords
<1>3. saving' = [saving EXCEPT ![a] = r]
  BY <1>1
<1>. HIDE DEF r
<1>. QED BY <1>1, <1>2, <1>3

(* While the process runs, the only active save is the lock holder's.        *)
LEMMA OneActive ==
    ASSUME PolicyInv, Up, ~orphaned, ~unsynced
    PROVE  \A a \in Actors :
               /\ Active(a) => pc[a] = "saving" /\ lock = a
               /\ pc[a] \in {"configuring", "saving"} => lock = a
  BY DEF PolicyInv, LockOwned, DiskInv, SavesInOrder

(* Memory, and what is shown of it, is held by whatever may become the file. *)
LEMMA MemoryIsHeld ==
    ASSUME PolicyInv, Up, ~orphaned, ~unsynced, NEW s \in {mem, Published(mem)}
    PROVE  /\ s \in Policies
           /\ Holds(durable, s) /\ Holds(visible, s) /\ Holds(mem, s)
           /\ \A a \in Actors : Active(a) => Holds(saving[a].policy, s)
<1>1. Shape /\ FilesHoldMemory /\ SavesInOrder
  BY DEF PolicyInv, DiskInv
<1>2. mem \in Policies /\ visible \in Policies /\ durable \in Policies
  BY <1>1, Types
<1>3. s \in Policies /\ Holds(mem, s)
  BY <1>2, PublishedTwice, HoldsFacts
<1>4. Holds(durable, mem) /\ Holds(visible, mem)
  BY <1>1 DEF FilesHoldMemory
<1>5. Holds(durable, s) /\ Holds(visible, s)
  BY <1>2, <1>3, <1>4, HoldsFacts
<1>6. ASSUME NEW a \in Actors, Active(a) PROVE Holds(saving[a].policy, s)
  <2>1. saving[a].policy \in Policies /\ saving[a].policy.revision > mem.revision
    BY <1>1, <1>6, Types DEF SavesInOrder, Active
  <2>. QED BY <2>1, <1>2, <1>3, HoldsFacts
<1>. QED BY <1>3, <1>5, <1>6

(* A save begins under the lock, of the revision after memory's.             *)
LEMMA SaveBegins ==
    ASSUME PolicyInv, Up, NEW a \in Actors, NEW s \in Good, s.revision = mem.revision + 1,
           lock \in {"free", a}, pc[a] # "saving",
           saving' = [saving EXCEPT ![a] = [stage |-> "writing", policy |-> s]],
           pc' = [pc EXCEPT ![a] = "saving"],
           UNCHANGED <<phase, mem, visible, durable, view, orphaned, unsynced>>
    PROVE  saving' \in [Actors -> SaveRecords \cup {NoSave}] /\ DiskInv'
<1>. DEFINE r == [stage |-> "writing", policy |-> s]
<1>1. /\ r \in SaveRecords /\ r.stage = "writing" /\ r.policy = s
      /\ saving \in [Actors -> SaveRecords \cup {NoSave}]
      /\ pc \in [Actors -> {"idle", "waiting", "configuring", "saving"}] /\ Shape
  BY DEF SaveRecords, PolicyInv, Shape
<1>2. saving' = [saving EXCEPT ![a] = r]
  OBVIOUS
<1>. HIDE DEF r
<1>3. /\ saving' \in [Actors -> SaveRecords \cup {NoSave}]
      /\ saving'[a].stage = "writing" /\ saving'[a].policy = s
      /\ \A b \in Actors : b # a => saving'[b] = saving[b]
      /\ pc'[a] = "saving"
      /\ \A b \in Actors : b # a => pc'[b] = pc[b]
  BY <1>1, <1>2
<1>4. SUFFICES ASSUME ~orphaned, ~unsynced
               PROVE  FilesHoldViews' /\ FilesHoldMemory' /\ SavesInOrder'
  BY <1>3 DEF DiskInv
<1>5. FilesHoldViews /\ FilesHoldMemory /\ SavesInOrder
  BY <1>4 DEF PolicyInv, DiskInv
<1>6. \A b \in Actors : ~Active(b) /\ pc[b] # "saving"
  <2>1. ASSUME NEW b \in Actors, Active(b) \/ pc[b] = "saving" PROVE FALSE
    <3>1. lock = b /\ pc[b] = "saving"
      BY <2>1, <1>4, OneActive
    <3>. QED BY <3>1, AdopterAssumption DEF Actors
  <2>. QED BY <2>1
<1>7. \A b \in Actors : saving[b].stage # "replaced"
  BY <1>6 DEF Active
<1>8. s \in Policies /\ mem \in Policies /\ s.revision > mem.revision
  BY <1>1, Types, GoodPolicies
<1>9. \A c \in Clients : Holds(s, view[c])
  BY <1>1, <1>5, <1>8, HoldsFacts, Types DEF FilesHoldViews
<1>10. FilesHoldViews'
  BY <1>3, <1>5, <1>6, <1>9 DEF FilesHoldViews, Active, Up
<1>11. FilesHoldMemory'
  BY <1>5, <1>7 DEF FilesHoldMemory, Up
<1>12. SavesInOrder'
  BY <1>3, <1>6, <1>8 DEF SavesInOrder, Active, Up
<1>. QED BY <1>10, <1>11, <1>12


(* A command waits for the lock with the revision its client was shown.      *)
LEMMA SendStep ==
    ASSUME PolicyInv, NEW c \in Clients, NEW cmd \in Commands, Send(c, cmd)
    PROVE  PolicyInv'
<1>. USE AdopterAssumption DEF PolicyInv, files, world, history, Actors
<1>1. Shape'
  <2>1. view[c].revision \in Nat
    BY Types
  <2>2. [cmd |-> cmd, expected |-> view[c].revision] \in [cmd : Commands \cup {NoCommand.cmd}, expected : Nat]
    BY <2>1
  <2>. QED BY <2>2 DEF Send, Shape
<1>2. PhasesAgree'
  BY DEF Send, Shape, PhasesAgree, Up
<1>3. LockOwned'
  BY DEF Send, Shape, LockOwned, PhasesAgree, Up
<1>4. DiskInv'
  BY DEF Send, Shape, PhasesAgree, LockOwned, DiskInv, FilesHoldViews, FilesHoldMemory,
       SavesInOrder, Active, Up
<1>. QED BY <1>1, <1>2, <1>3, <1>4

(* A client is shown memory, which the file holds.                           *)
LEMMA RefreshStep ==
    ASSUME PolicyInv, NEW c \in Clients, Refresh(c)
    PROVE  PolicyInv'
<1>. USE AdopterAssumption DEF PolicyInv, files, world, history, Actors
<1>1. Shape'
  <2>1. Published(mem) \in Policies
    BY Types, PublishedTwice
  <2>. QED BY <2>1 DEF Refresh, Shape
<1>2. PhasesAgree'
  BY DEF Refresh, Shape, PhasesAgree, Up
<1>3. LockOwned'
  BY DEF Refresh, Shape, LockOwned, PhasesAgree, Up
<1>4. DiskInv'
  <2>. SUFFICES ASSUME ~orphaned, ~unsynced
               PROVE  FilesHoldViews' /\ FilesHoldMemory' /\ SavesInOrder'
    BY DEF DiskInv, Refresh
  <2>1. FilesHoldViews /\ FilesHoldMemory /\ SavesInOrder /\ Up
    BY DEF DiskInv, PhasesAgree, Refresh
  <2>2. /\ Holds(durable, Published(mem)) /\ Holds(visible, Published(mem)) /\ Holds(mem, Published(mem))
        /\ \A a \in Actors : Active(a) => Holds(saving[a].policy, Published(mem))
    BY <2>1, MemoryIsHeld
  <2>3. FilesHoldViews'
    BY <2>1, <2>2 DEF Refresh, Shape, FilesHoldViews, Active, Up
  <2>4. FilesHoldMemory'
    BY <2>1 DEF Refresh, Shape, FilesHoldMemory, Up
  <2>5. SavesInOrder'
    BY <2>1 DEF Refresh, Shape, SavesInOrder, LockOwned, Active, Up
  <2>. QED BY <2>3, <2>4, <2>5
<1>. QED BY <1>1, <1>2, <1>3, <1>4

(* A refusal shows its client memory, and takes nothing.                     *)
LEMMA RejectStep ==
    ASSUME PolicyInv, NEW c \in Clients, Reject(c)
    PROVE  PolicyInv'
<1>. USE AdopterAssumption DEF PolicyInv, files, world, history, Actors
<1>1. Shape'
  <2>1. NoCommand \in [cmd : Commands \cup {NoCommand.cmd}, expected : Nat]
    BY DEF NoCommand
  <2>. QED BY <2>1, Types DEF Reject, Acknowledge, Shape
<1>2. PhasesAgree'
  BY DEF Reject, Acknowledge, Shape, PhasesAgree, Up
<1>3. LockOwned'
  BY DEF Reject, Acknowledge, Shape, LockOwned, PhasesAgree, Up
<1>4. DiskInv'
  <2>. SUFFICES ASSUME ~orphaned, ~unsynced
               PROVE  FilesHoldViews' /\ FilesHoldMemory' /\ SavesInOrder'
    BY DEF DiskInv, Reject
  <2>1. FilesHoldViews /\ FilesHoldMemory /\ SavesInOrder /\ Up
    BY DEF DiskInv, PhasesAgree, Reject
  <2>2. /\ Holds(durable, mem) /\ Holds(visible, mem) /\ Holds(mem, mem)
        /\ \A a \in Actors : Active(a) => Holds(saving[a].policy, mem)
    BY <2>1, MemoryIsHeld
  <2>3. FilesHoldViews'
    BY <2>1, <2>2 DEF Reject, Acknowledge, Shape, FilesHoldViews, Active, Up
  <2>4. FilesHoldMemory'
    BY <2>1 DEF Reject, Acknowledge, Shape, FilesHoldMemory, Up
  <2>5. SavesInOrder'
    BY <2>1 DEF Reject, Acknowledge, Shape, SavesInOrder, LockOwned, Active, Up
  <2>. QED BY <2>3, <2>4, <2>5
<1>. QED BY <1>1, <1>2, <1>3, <1>4

(* A save begins of a later revision than memory's.                          *)
LEMMA CheckStep ==
    ASSUME PolicyInv, NEW c \in Clients, Check(c)
    PROVE  PolicyInv'
<1>. USE AdopterAssumption DEF PolicyInv, files, world, history, Actors
<1>0. /\ Bumped(Executed(mem, command[c].cmd)) \in Good /\ Bumped(Executed(mem, command[c].cmd)).revision = mem.revision + 1 /\ Up
      /\ c \in Actors
      /\ saving' \in [Actors -> SaveRecords \cup {NoSave}] /\ DiskInv'
  <2>1. mem \in Good /\ Up /\ c \in Actors /\ lock \in {"free", c} /\ pc[c] # "saving"
    BY DEF Shape, PhasesAgree, LockOwned, Check, Up
  <2>2. Bumped(Executed(mem, command[c].cmd)) \in Good /\ Bumped(Executed(mem, command[c].cmd)).revision = mem.revision + 1
    <3>1. command[c].cmd \in Commands /\ Allowed(mem, command[c].cmd)
      BY DEF Check, Shape
    <3>2. Executed(mem, command[c].cmd) \in Good
          /\ Executed(mem, command[c].cmd).revision = mem.revision
      BY <2>1, <3>1, ExecutedGood
    <3>. QED BY <3>2, BumpedGood
  <2>3. /\ saving' = [saving EXCEPT ![c] = [stage |-> "writing", policy |-> Bumped(Executed(mem, command[c].cmd))]]
        /\ pc' = [pc EXCEPT ![c] = "saving"]
        /\ UNCHANGED <<phase, mem, visible, durable, view, orphaned, unsynced>>
    BY DEF Check, Saves
  <2>. HIDE DEF PolicyInv, Actors
  <2>4. saving' \in [Actors -> SaveRecords \cup {NoSave}] /\ DiskInv'
    BY <2>1, <2>2, <2>3, SaveBegins
  <2>. QED BY <2>1, <2>2, <2>4
<1>1. Shape'
  BY <1>0 DEF Check, Shape
<1>2. PhasesAgree'
  BY DEF Check, Saves, Shape, PhasesAgree, Up
<1>3. LockOwned'
  BY DEF Check, Saves, Shape, LockOwned, PhasesAgree, Up
<1>4. DiskInv'
  BY <1>0
<1>. QED BY <1>1, <1>2, <1>3, <1>4

(* A configuration takes the lock.                                           *)
LEMMA ConfigureStep ==
    ASSUME PolicyInv, NEW c \in Clients, Configure(c)
    PROVE  PolicyInv'
<1>. USE AdopterAssumption DEF PolicyInv, files, world, history, Actors
<1>1. Shape'
  BY DEF Configure, Shape, NoCommand
<1>2. PhasesAgree'
  BY DEF Configure, Shape, PhasesAgree, Up
<1>3. LockOwned'
  BY DEF Configure, Shape, LockOwned, PhasesAgree, Up
<1>4. DiskInv'
  BY DEF Configure, Shape, PhasesAgree, LockOwned, DiskInv, FilesHoldViews,
       FilesHoldMemory, SavesInOrder, Active, Up
<1>. QED BY <1>1, <1>2, <1>3, <1>4

(* Its revision bump is saved.                                               *)
LEMMA ConfiguredStep ==
    ASSUME PolicyInv, NEW c \in Clients, Configured(c)
    PROVE  PolicyInv'
<1>. USE AdopterAssumption DEF PolicyInv, files, world, history, Actors
<1>0. /\ Bumped(mem) \in Good /\ Bumped(mem).revision = mem.revision + 1 /\ Up
      /\ c \in Actors
      /\ saving' \in [Actors -> SaveRecords \cup {NoSave}] /\ DiskInv'
  <2>1. mem \in Good /\ Up /\ c \in Actors /\ lock \in {"free", c} /\ pc[c] # "saving"
    BY DEF Shape, PhasesAgree, LockOwned, Configured, Up
  <2>2. Bumped(mem) \in Good /\ Bumped(mem).revision = mem.revision + 1
    BY <2>1, BumpedGood
  <2>3. /\ saving' = [saving EXCEPT ![c] = [stage |-> "writing", policy |-> Bumped(mem)]]
        /\ pc' = [pc EXCEPT ![c] = "saving"]
        /\ UNCHANGED <<phase, mem, visible, durable, view, orphaned, unsynced>>
    BY DEF Configured, Saves
  <2>. HIDE DEF PolicyInv, Actors
  <2>4. saving' \in [Actors -> SaveRecords \cup {NoSave}] /\ DiskInv'
    BY <2>1, <2>2, <2>3, SaveBegins
  <2>. QED BY <2>1, <2>2, <2>4
<1>1. Shape'
  BY <1>0 DEF Configured, Shape
<1>2. PhasesAgree'
  BY DEF Configured, Saves, Shape, PhasesAgree, Up
<1>3. LockOwned'
  BY DEF Configured, Saves, Shape, LockOwned, PhasesAgree, Up
<1>4. DiskInv'
  BY <1>0
<1>. QED BY <1>1, <1>2, <1>3, <1>4

(* A refused configuration leaves the lock.                                  *)
LEMMA ConfigurationRefusedStep ==
    ASSUME PolicyInv, NEW c \in Clients, ConfigurationRefused(c)
    PROVE  PolicyInv'
<1>. USE AdopterAssumption DEF PolicyInv, files, world, history, Actors
<1>1. Shape'
  <2>1. NoCommand \in [cmd : Commands \cup {NoCommand.cmd}, expected : Nat]
    BY DEF NoCommand
  <2>. QED BY <2>1, Types DEF ConfigurationRefused, Acknowledge, Shape
<1>2. PhasesAgree'
  BY DEF ConfigurationRefused, Acknowledge, Shape, PhasesAgree, Up
<1>3. LockOwned'
  BY DEF ConfigurationRefused, Acknowledge, Shape, LockOwned, PhasesAgree, Up
<1>4. DiskInv'
  <2>. SUFFICES ASSUME ~orphaned, ~unsynced
               PROVE  FilesHoldViews' /\ FilesHoldMemory' /\ SavesInOrder'
    BY DEF DiskInv, ConfigurationRefused
  <2>1. FilesHoldViews /\ FilesHoldMemory /\ SavesInOrder /\ Up
    BY DEF DiskInv, PhasesAgree, ConfigurationRefused
  <2>2. /\ Holds(durable, mem) /\ Holds(visible, mem) /\ Holds(mem, mem)
        /\ \A a \in Actors : Active(a) => Holds(saving[a].policy, mem)
    BY <2>1, MemoryIsHeld
  <2>3. FilesHoldViews'
    BY <2>1, <2>2 DEF ConfigurationRefused, Acknowledge, Shape, FilesHoldViews, Active, Up
  <2>4. FilesHoldMemory'
    BY <2>1 DEF ConfigurationRefused, Acknowledge, Shape, FilesHoldMemory, Up
  <2>5. SavesInOrder'
    BY <2>1 DEF ConfigurationRefused, Acknowledge, Shape, SavesInOrder, LockOwned,
         Active, Up
  <2>. QED BY <2>3, <2>4, <2>5
<1>. QED BY <1>1, <1>2, <1>3, <1>4

(* The rename makes a save visible, before it is durable.                    *)
LEMMA ReplaceStep ==
    ASSUME PolicyInv, NEW a \in Actors, Replace(a)
    PROVE  PolicyInv'
<1>. USE AdopterAssumption DEF PolicyInv, files, world, history, Actors
<1>0. /\ saving' \in [Actors -> SaveRecords \cup {NoSave}] /\ saving[a].stage # "none"
      /\ saving'[a].stage = "replaced" /\ saving'[a].policy = saving[a].policy
      /\ \A b \in Actors : b # a => saving'[b] = saving[b]
      /\ saving[a].policy \in Good
  <2>1. saving[a].stage # "none" /\ saving' = [saving EXCEPT ![a].stage = "replaced"]
    BY DEF Replace
  <2>. HIDE DEF Actors
  <2>. QED BY <2>1, Staged, Types
<1>1. Shape'
  BY <1>0 DEF Replace, Shape
<1>2. PhasesAgree'
  BY <1>0, Types DEF Replace, PhasesAgree, Up
<1>3. LockOwned'
  BY DEF Replace, Shape, LockOwned, PhasesAgree, Up
<1>4. DiskInv'
  <2>. SUFFICES ASSUME ~orphaned, ~unsynced
               PROVE  FilesHoldViews' /\ FilesHoldMemory' /\ SavesInOrder'
    BY DEF DiskInv, Replace
  <2>1. FilesHoldViews /\ FilesHoldMemory /\ SavesInOrder
    BY DEF DiskInv, Replace
  <2>2. /\ Active(a) /\ visible' = saving[a].policy
        /\ Up => pc[a] = "saving" /\ lock = a /\ \A b \in Actors : b # a => pc[b] # "saving"
    BY OneActive DEF Replace, Active, LockOwned
  <2>3. FilesHoldViews'
    BY <1>0, <2>1, <2>2 DEF Replace, FilesHoldViews, Active, Up
  <2>4. FilesHoldMemory'
    <3>1. Up => Holds(visible', mem)
      BY <2>2, MemoryIsHeld
    <3>. QED BY <1>0, <2>1, <3>1 DEF Replace, FilesHoldMemory, Up
  <2>5. SavesInOrder'
    BY <1>0, <2>1, <2>2 DEF Replace, SavesInOrder, Active, Up
  <2>. QED BY <2>3, <2>4, <2>5
<1>. QED BY <1>1, <1>2, <1>3, <1>4

(* A synced directory makes it durable.                                      *)
LEMMA SyncDirectoryStep ==
    ASSUME PolicyInv, NEW a \in Actors, NEW ok \in BOOLEAN, SyncDirectory(a, ok)
    PROVE  PolicyInv'
<1>. USE AdopterAssumption DEF PolicyInv, files, world, history, Actors
<1>0. /\ saving' \in [Actors -> SaveRecords \cup {NoSave}] /\ saving[a].stage # "none"
      /\ saving'[a].stage = "synced" /\ saving'[a].policy = saving[a].policy
      /\ \A b \in Actors : b # a => saving'[b] = saving[b]
      /\ saving[a].policy \in Good
  <2>1. saving[a].stage # "none" /\ saving' = [saving EXCEPT ![a].stage = "synced"]
    BY DEF SyncDirectory
  <2>. HIDE DEF Actors
  <2>. QED BY <2>1, Staged, Types
<1>1. Shape'
  BY <1>0 DEF SyncDirectory, Shape
<1>2. PhasesAgree'
  BY <1>0, Types DEF SyncDirectory, PhasesAgree, Up
<1>3. LockOwned'
  BY DEF SyncDirectory, Shape, LockOwned, PhasesAgree, Up
<1>4. DiskInv'
  <2>. SUFFICES ASSUME ~orphaned, ~unsynced, ok
               PROVE  FilesHoldViews' /\ FilesHoldMemory' /\ SavesInOrder'
    BY DEF DiskInv, SyncDirectory
  <2>1. FilesHoldViews /\ FilesHoldMemory /\ SavesInOrder
    BY DEF DiskInv, SyncDirectory
  <2>2. /\ Active(a) /\ durable' = visible /\ visible' = visible
        /\ Up => pc[a] = "saving" /\ lock = a /\ \A b \in Actors : b # a => pc[b] # "saving"
    BY OneActive DEF SyncDirectory, Active, LockOwned
  <2>3. FilesHoldViews'
    BY <1>0, <2>1, <2>2 DEF SyncDirectory, FilesHoldViews, Active, Up
  <2>4. FilesHoldMemory'
    BY <1>0, <2>1, <2>2 DEF SyncDirectory, FilesHoldMemory, Up
  <2>5. SavesInOrder'
    BY <1>0, <2>1, <2>2 DEF SyncDirectory, SavesInOrder, Active, Up
  <2>. QED BY <2>3, <2>4, <2>5
<1>. QED BY <1>1, <1>2, <1>3, <1>4

(* A save that fails leaves the file alone.                                  *)
LEMMA SaveFailsStep ==
    ASSUME PolicyInv, NEW a \in Actors, SaveFails(a)
    PROVE  PolicyInv'
<1>. USE AdopterAssumption DEF PolicyInv, files, world, history, Actors
<1>0. /\ saving' \in [Actors -> SaveRecords \cup {NoSave}] /\ saving[a].stage # "none"
      /\ saving'[a].stage = "failed" /\ saving'[a].policy = saving[a].policy
      /\ \A b \in Actors : b # a => saving'[b] = saving[b]
      /\ saving[a].policy \in Good
  <2>1. saving[a].stage # "none" /\ saving' = [saving EXCEPT ![a].stage = "failed"]
    BY DEF SaveFails
  <2>. HIDE DEF Actors
  <2>. QED BY <2>1, Staged, Types
<1>1. Shape'
  BY <1>0 DEF SaveFails, Shape
<1>2. PhasesAgree'
  BY <1>0, Types DEF SaveFails, PhasesAgree, Up
<1>3. LockOwned'
  BY DEF SaveFails, Shape, LockOwned, PhasesAgree, Up
<1>4. DiskInv'
  BY DEF SaveFails, Shape, PhasesAgree, LockOwned, DiskInv, FilesHoldViews,
       FilesHoldMemory, SavesInOrder, Active, Up
<1>. QED BY <1>1, <1>2, <1>3, <1>4

(* Memory becomes what is on disk, and is shown.                             *)
LEMMA CommitStep ==
    ASSUME PolicyInv, NEW c \in Clients, Commit(c)
    PROVE  PolicyInv'
<1>. USE AdopterAssumption DEF PolicyInv, files, world, history, Actors
<1>1. Shape'
  <2>1. NoCommand \in [cmd : Commands \cup {NoCommand.cmd}, expected : Nat]
    BY DEF NoCommand
  <2>2. saving[c].policy \in Good /\ saving[c].policy \in Policies
    BY Types DEF Commit, SaveDone
  <2>. QED BY <2>1, <2>2 DEF Commit, Acknowledge, Shape
<1>2. PhasesAgree'
  BY DEF Commit, Acknowledge, SaveDone, Shape, PhasesAgree, Up
<1>3. LockOwned'
  BY DEF Commit, Acknowledge, SaveDone, Shape, LockOwned, PhasesAgree, Up
<1>4. DiskInv'
  <2>. SUFFICES ASSUME ~orphaned, ~unsynced
               PROVE  FilesHoldViews' /\ FilesHoldMemory' /\ SavesInOrder'
    BY DEF DiskInv, Commit
  <2>1. FilesHoldViews /\ FilesHoldMemory /\ SavesInOrder
    BY DEF DiskInv, Commit
  <2>2. /\ Up /\ pc[c] = "saving" /\ lock = c /\ c \in Actors
        /\ mem' = visible /\ durable = visible /\ saving[c].policy = visible
        /\ \A b \in Actors : b # c => ~Active(b) /\ pc[b] # "saving"
    BY <2>1, OneActive DEF Commit, SaveDone, PhasesAgree, LockOwned, SavesInOrder
  <2>6. /\ Holds(visible, visible) /\ saving'[c].stage = "none"
        /\ \A b \in Actors : b # c => saving'[b] = saving[b]
        /\ \A b \in Actors : pc'[b] # "saving"
    BY <2>2, Types, HoldsFacts DEF Commit, Acknowledge, Shape
  <2>7. \A b \in Actors : saving'[b].stage \notin {"writing", "replaced"}
    BY <2>2, <2>6 DEF Active
  <2>3. FilesHoldViews'
    BY <2>1, <2>2, <2>6, <2>7 DEF Commit, Acknowledge, FilesHoldViews, Active, Shape
  <2>4. FilesHoldMemory'
    BY <2>2, <2>6 DEF Commit, FilesHoldMemory
  <2>5. SavesInOrder'
    BY <2>6, <2>7 DEF SavesInOrder, Active
  <2>. QED BY <2>3, <2>4, <2>5
<1>. QED BY <1>1, <1>2, <1>3, <1>4

(* A failed save changes nothing.                                            *)
LEMMA CommitFailsStep ==
    ASSUME PolicyInv, NEW c \in Clients, CommitFails(c)
    PROVE  PolicyInv'
<1>. USE AdopterAssumption DEF PolicyInv, files, world, history, Actors
<1>1. Shape'
  <2>1. NoCommand \in [cmd : Commands \cup {NoCommand.cmd}, expected : Nat]
    BY DEF NoCommand
  <2>. QED BY <2>1, Types DEF CommitFails, Acknowledge, Shape
<1>2. PhasesAgree'
  BY DEF CommitFails, Acknowledge, Shape, PhasesAgree, Up
<1>3. LockOwned'
  BY DEF CommitFails, Acknowledge, Shape, LockOwned, PhasesAgree, Up
<1>4. DiskInv'
  <2>. SUFFICES ASSUME ~orphaned, ~unsynced
               PROVE  FilesHoldViews' /\ FilesHoldMemory' /\ SavesInOrder'
    BY DEF DiskInv, CommitFails
  <2>1. FilesHoldViews /\ FilesHoldMemory /\ SavesInOrder /\ Up
    BY DEF DiskInv, PhasesAgree, CommitFails
  <2>2. /\ Holds(durable, mem) /\ Holds(visible, mem) /\ Holds(mem, mem)
        /\ \A a \in Actors : Active(a) => Holds(saving[a].policy, mem)
    BY <2>1, MemoryIsHeld
  <2>3. FilesHoldViews'
    BY <2>1, <2>2, Types DEF CommitFails, Acknowledge, Shape, FilesHoldViews, Active, Up
  <2>4. FilesHoldMemory'
    BY <2>1, Types DEF CommitFails, Acknowledge, Shape, FilesHoldMemory, Up
  <2>5. SavesInOrder'
    BY <2>1, Types DEF CommitFails, Acknowledge, Shape, SavesInOrder, LockOwned, Active,
         Up
  <2>. QED BY <2>3, <2>4, <2>5
<1>. QED BY <1>1, <1>2, <1>3, <1>4

(* An adoption takes the lock like a command.                                *)
LEMMA AdoptStep ==
    ASSUME PolicyInv, Adopt
    PROVE  PolicyInv'
<1>. USE AdopterAssumption DEF PolicyInv, files, world, history, Actors
<1>0. /\ Adopted(mem) \in Good /\ Adopted(mem).revision = mem.revision + 1 /\ Up
      /\ Adopter \in Actors
      /\ saving' \in [Actors -> SaveRecords \cup {NoSave}] /\ DiskInv'
  <2>1. mem \in Good /\ Up /\ Adopter \in Actors /\ lock \in {"free", Adopter} /\ pc[Adopter] # "saving"
    BY DEF Shape, PhasesAgree, LockOwned, Adopt, Up
  <2>2. Adopted(mem) \in Good /\ Adopted(mem).revision = mem.revision + 1
    BY <2>1, AdoptedGood
  <2>3. /\ saving' = [saving EXCEPT ![Adopter] = [stage |-> "writing", policy |-> Adopted(mem)]]
        /\ pc' = [pc EXCEPT ![Adopter] = "saving"]
        /\ UNCHANGED <<phase, mem, visible, durable, view, orphaned, unsynced>>
    BY DEF Adopt, Saves
  <2>. HIDE DEF PolicyInv, Actors
  <2>4. saving' \in [Actors -> SaveRecords \cup {NoSave}] /\ DiskInv'
    BY <2>1, <2>2, <2>3, SaveBegins
  <2>. QED BY <2>1, <2>2, <2>4
<1>1. Shape'
  BY <1>0 DEF Adopt, Shape
<1>2. PhasesAgree'
  BY DEF Adopt, Saves, Shape, PhasesAgree, Up
<1>3. LockOwned'
  BY DEF Adopt, Saves, Shape, LockOwned, PhasesAgree, Up
<1>4. DiskInv'
  BY <1>0
<1>. QED BY <1>1, <1>2, <1>3, <1>4

(* It ends like one.                                                         *)
LEMMA AdoptEndsStep ==
    ASSUME PolicyInv, AdoptEnds
    PROVE  PolicyInv'
<1>. USE AdopterAssumption DEF PolicyInv, files, world, history, Actors
<1>1. Shape'
  <2>1. SaveDone(Adopter) => saving[Adopter].policy \in Good
    BY Types DEF SaveDone
  <2>. QED BY <2>1 DEF AdoptEnds, Shape
<1>2. PhasesAgree'
  BY DEF AdoptEnds, SaveDone, Shape, PhasesAgree, Up
<1>3. LockOwned'
  BY DEF AdoptEnds, SaveDone, Shape, LockOwned, PhasesAgree, Up
<1>4. DiskInv'
  <2>. SUFFICES ASSUME ~orphaned, ~unsynced
               PROVE  FilesHoldViews' /\ FilesHoldMemory' /\ SavesInOrder'
    BY DEF DiskInv, AdoptEnds
  <2>1. FilesHoldViews /\ FilesHoldMemory /\ SavesInOrder
    BY DEF DiskInv, AdoptEnds
  <2>2. /\ Up /\ pc[Adopter] = "saving" /\ lock = Adopter
        /\ SaveDone(Adopter) => mem' = visible /\ durable = visible
        /\ ~SaveDone(Adopter) => mem' = mem
        /\ \A b \in Actors : ~Active(b) /\ (b # Adopter => pc[b] # "saving")
    BY <2>1, OneActive DEF AdoptEnds, SaveDone, PhasesAgree, LockOwned, SavesInOrder,
         Active
  <2>6. /\ Holds(visible, visible) /\ saving'[Adopter].stage = "none"
        /\ \A b \in Actors : b # Adopter => saving'[b] = saving[b]
        /\ \A b \in Actors : pc'[b] # "saving"
    BY <2>2, Types, HoldsFacts DEF AdoptEnds, Shape
  <2>7. \A b \in Actors : saving'[b].stage \notin {"writing", "replaced"}
    BY <2>2, <2>6 DEF Active
  <2>8. visible = durable
    BY <2>1, <2>2 DEF FilesHoldMemory, Active
  <2>3. FilesHoldViews'
    BY <2>1, <2>2, <2>7 DEF AdoptEnds, FilesHoldViews, Active
  <2>4. FilesHoldMemory'
    BY <2>1, <2>2, <2>6, <2>8 DEF AdoptEnds, FilesHoldMemory
  <2>5. SavesInOrder'
    BY <2>6, <2>7 DEF SavesInOrder, Active
  <2>. QED BY <2>3, <2>4, <2>5
<1>. QED BY <1>1, <1>2, <1>3, <1>4

(* Devices come and go.                                                      *)
LEMMA OfferChangesStep ==
    ASSUME PolicyInv, NEW o \in SUBSET Choices, OfferChanges(o)
    PROVE  PolicyInv'
<1>. USE AdopterAssumption DEF PolicyInv, files, world, history, Actors
<1>1. Shape'
  BY DEF OfferChanges, Shape, NoCommand
<1>2. PhasesAgree'
  BY DEF OfferChanges, Shape, PhasesAgree, Up
<1>3. LockOwned'
  BY DEF OfferChanges, Shape, LockOwned, PhasesAgree, Up
<1>4. DiskInv'
  BY DEF OfferChanges, Shape, PhasesAgree, LockOwned, DiskInv, FilesHoldViews,
       FilesHoldMemory, SavesInOrder, Active, Up
<1>. QED BY <1>1, <1>2, <1>3, <1>4

(* Plugins are discovered.                                                   *)
LEMMA PluginFoundStep ==
    ASSUME PolicyInv, NEW p \in Profiles, PluginFound(p)
    PROVE  PolicyInv'
<1>. USE AdopterAssumption DEF PolicyInv, files, world, history, Actors
<1>1. Shape'
  BY DEF PluginFound, Shape, NoCommand
<1>2. PhasesAgree'
  BY DEF PluginFound, Shape, PhasesAgree, Up
<1>3. LockOwned'
  BY DEF PluginFound, Shape, LockOwned, PhasesAgree, Up
<1>4. DiskInv'
  BY DEF PluginFound, Shape, PhasesAgree, LockOwned, DiskInv, FilesHoldViews,
       FilesHoldMemory, SavesInOrder, Active, Up
<1>. QED BY <1>1, <1>2, <1>3, <1>4

(* Cancelling an adoption leaves the lock; one whose save is under way is    *)
(* the orphan.                                                               *)
LEMMA ShutdownStep ==
    ASSUME PolicyInv, Shutdown
    PROVE  PolicyInv'
<1>. USE AdopterAssumption DEF PolicyInv, files, world, history, Actors
<1>1. Shape'
  BY DEF Shutdown, Shape, NoCommand
<1>2. PhasesAgree'
  BY DEF Shutdown, Shape, PhasesAgree, Up
<1>3. LockOwned'
  BY DEF Shutdown, Shape, LockOwned, PhasesAgree, Up
<1>4. DiskInv'
  BY DEF Shutdown, Shape, PhasesAgree, LockOwned, DiskInv, FilesHoldViews,
       FilesHoldMemory, SavesInOrder, Active, Up
<1>. QED BY <1>1, <1>2, <1>3, <1>4

(* Nobody acts while the pool threads are joined.                            *)
LEMMA ExitStep ==
    ASSUME PolicyInv, Exit
    PROVE  PolicyInv'
<1>. USE AdopterAssumption DEF PolicyInv, files, world, history, Actors
<1>1. Shape'
  <2>1. NoCommand \in [cmd : Commands \cup {NoCommand.cmd}, expected : Nat]
    BY DEF NoCommand
  <2>. QED BY <2>1, FreshGood DEF Exit, Gone, Shape
<1>2. PhasesAgree'
  BY DEF Exit, Gone, Shape, PhasesAgree, Up
<1>3. LockOwned'
  BY DEF Exit, Gone, Shape, LockOwned, PhasesAgree, Up
<1>4. DiskInv'
  BY DEF Exit, Gone, Shape, PhasesAgree, LockOwned, DiskInv, FilesHoldViews,
       FilesHoldMemory, SavesInOrder, Active, Up
<1>. QED BY <1>1, <1>2, <1>3, <1>4

(* Every save has ended.                                                     *)
LEMMA ExitedStep ==
    ASSUME PolicyInv, Exited
    PROVE  PolicyInv'
<1>. USE AdopterAssumption DEF PolicyInv, files, world, history, Actors
<1>1. Shape'
  BY DEF Exited, Shape, NoCommand
<1>2. PhasesAgree'
  BY DEF Exited, Shape, PhasesAgree, Up
<1>3. LockOwned'
  BY DEF Exited, Shape, LockOwned, PhasesAgree, Up
<1>4. DiskInv'
  <2>. SUFFICES ASSUME ~orphaned, ~unsynced
               PROVE  FilesHoldViews' /\ FilesHoldMemory' /\ SavesInOrder'
    BY DEF DiskInv, Exited
  <2>1. FilesHoldViews /\ FilesHoldMemory /\ SavesInOrder
    BY DEF DiskInv, Exited
  <2>2. visible = durable
    BY <2>1 DEF FilesHoldMemory, Active, Exited
  <2>6. \A a \in Actors : saving'[a].stage = "none"
    BY Types DEF Exited
  <2>3. FilesHoldViews'
    BY <2>1, <2>6 DEF Exited, FilesHoldViews, Active, Up
  <2>4. FilesHoldMemory'
    BY <2>2 DEF Exited, FilesHoldMemory, Up
  <2>5. SavesInOrder'
    BY DEF Exited, SavesInOrder, Up
  <2>. QED BY <2>3, <2>4, <2>5
<1>. QED BY <1>1, <1>2, <1>3, <1>4

(* The next process reads what the file holds.                               *)
LEMMA RestartStep ==
    ASSUME PolicyInv, Restart
    PROVE  PolicyInv'
<1>. USE AdopterAssumption DEF PolicyInv, files, world, history, Actors
<1>1. Shape'
  BY LoadIsIdentity DEF Restart, Shape
<1>2. PhasesAgree'
  BY DEF Restart, Shape, PhasesAgree, Up
<1>3. LockOwned'
  BY DEF Restart, Shape, LockOwned, PhasesAgree, Up
<1>4. DiskInv'
  <2>. SUFFICES ASSUME ~orphaned, ~unsynced
               PROVE  FilesHoldViews' /\ FilesHoldMemory' /\ SavesInOrder'
    BY DEF DiskInv, Restart
  <2>1. FilesHoldViews /\ FilesHoldMemory /\ SavesInOrder
    BY DEF DiskInv, Restart
  <2>2. \A a \in Actors : saving[a].stage = "none"
    BY Types DEF Restart, PhasesAgree
  <2>6. mem' = visible /\ visible = durable /\ Holds(visible, visible)
    BY <2>1, <2>2, LoadIsIdentity, Types, HoldsFacts DEF Restart, FilesHoldMemory, Shape
  <2>3. FilesHoldViews'
    BY <2>1, <2>2, <2>6 DEF Restart, FilesHoldViews, Active
  <2>4. FilesHoldMemory'
    BY <2>6 DEF Restart, FilesHoldMemory
  <2>5. SavesInOrder'
    BY <2>2, Types DEF Restart, SavesInOrder, Active, PhasesAgree, Up
  <2>. QED BY <2>3, <2>4, <2>5
<1>. QED BY <1>1, <1>2, <1>3, <1>4

(* A crash leaves one of the two contents of the file.                       *)
LEMMA CrashStep ==
    ASSUME PolicyInv, NEW power \in BOOLEAN, Crash(power)
    PROVE  PolicyInv'
<1>. USE AdopterAssumption DEF PolicyInv, files, world, history, Actors
<1>1. Shape'
  <2>1. NoCommand \in [cmd : Commands \cup {NoCommand.cmd}, expected : Nat]
    BY DEF NoCommand
  <2>. QED BY <2>1, FreshGood DEF Crash, Gone, Shape
<1>2. PhasesAgree'
  BY DEF Crash, Gone, Shape, PhasesAgree, Up
<1>3. LockOwned'
  BY DEF Crash, Gone, Shape, LockOwned, PhasesAgree, Up
<1>4. DiskInv'
  <2>. SUFFICES ASSUME ~orphaned, ~unsynced
               PROVE  FilesHoldViews' /\ FilesHoldMemory' /\ SavesInOrder'
    BY DEF DiskInv, Crash
  <2>1. FilesHoldViews /\ FilesHoldMemory /\ SavesInOrder
    BY DEF DiskInv, Crash
  <2>2. visible' = durable' /\ visible' \in {visible, durable} /\ phase' = "down"
    BY DEF Crash
  <2>6. \A a \in Actors : saving'[a].stage = "none"
    BY Types DEF Crash
  <2>3. FilesHoldViews'
    BY <2>1, <2>2, <2>6 DEF Crash, FilesHoldViews, Active, Up
  <2>4. FilesHoldMemory'
    BY <2>2 DEF FilesHoldMemory, Up
  <2>5. SavesInOrder'
    BY <2>2 DEF SavesInOrder, Up
  <2>. QED BY <2>3, <2>4, <2>5
<1>. QED BY <1>1, <1>2, <1>3, <1>4
-----------------------------------------------------------------------------
LEMMA PolicyInit == Init => PolicyInv
<1>. SUFFICES ASSUME Init PROVE PolicyInv
  OBVIOUS
<1>. USE AdopterAssumption DEF Init, Actors
<1>1. /\ NoCommand \in [cmd : Commands \cup {NoCommand.cmd}, expected : Nat]
      /\ Fresh \in Good /\ Fresh \in Policies /\ Holds(Fresh, Fresh) /\ NoSave.stage = "none"
  BY FreshGood, GoodPolicies, HoldsFacts DEF NoCommand, NoSave
<1>2. Shape
  BY <1>1 DEF Shape
<1>3. PhasesAgree
  BY DEF PhasesAgree, Up
<1>4. LockOwned
  BY DEF LockOwned
<1>5. DiskInv
  BY <1>1 DEF DiskInv, FilesHoldViews, FilesHoldMemory, SavesInOrder, Active
<1>. QED BY <1>2, <1>3, <1>4, <1>5 DEF PolicyInv

LEMMA PolicyNext == PolicyInv /\ [Next]_vars => PolicyInv'
<1>. SUFFICES ASSUME PolicyInv, [Next]_vars PROVE PolicyInv'
  OBVIOUS
<1>1. ASSUME NEW c \in Clients, ClientStep(c) PROVE PolicyInv'
  BY <1>1, RejectStep, CheckStep, ConfigureStep, ConfiguredStep, ConfigurationRefusedStep,
     CommitStep, CommitFailsStep DEF ClientStep
<1>2. ASSUME NEW c \in Clients, Refresh(c) PROVE PolicyInv'
  BY <1>2, RefreshStep
<1>3. ASSUME NEW c \in Clients, NEW cmd \in Commands, Send(c, cmd) PROVE PolicyInv'
  BY <1>3, SendStep
<1>4. ASSUME NEW a \in Actors, SaveStep(a) PROVE PolicyInv'
  BY <1>4, ReplaceStep, SyncDirectoryStep, SaveFailsStep DEF SaveStep
<1>5. ASSUME NEW o \in SUBSET Choices, OfferChanges(o) PROVE PolicyInv'
  BY <1>5, OfferChangesStep
<1>6. ASSUME NEW p \in Profiles, PluginFound(p) PROVE PolicyInv'
  BY <1>6, PluginFoundStep
<1>7. ASSUME NEW power \in BOOLEAN, Crash(power) PROVE PolicyInv'
  BY <1>7, CrashStep
<1>8. CASE Adopt \/ AdoptEnds \/ Shutdown \/ Exit \/ Exited \/ Restart
  BY <1>8, AdoptStep, AdoptEndsStep, ShutdownStep, ExitStep, ExitedStep, RestartStep
<1>9. CASE UNCHANGED vars
  <2>1. Shape' /\ PhasesAgree' /\ LockOwned' /\ DiskInv'
    BY <1>9 DEF PolicyInv, vars, files, world, history, Shape, PhasesAgree, LockOwned, DiskInv,
       FilesHoldViews, FilesHoldMemory, SavesInOrder, Active, Up
  <2>. QED BY <2>1 DEF PolicyInv
<1>. QED BY <1>1, <1>2, <1>3, <1>4, <1>5, <1>6, <1>7, <1>8, <1>9 DEF Next

LEMMA PolicyInvSound == PolicyInv => PolicySound
<1>. SUFFICES ASSUME PolicyInv PROVE PolicySound
  OBVIOUS
<1>1. Shape /\ LockOwned /\ DiskInv
  BY DEF PolicyInv
<1>2. TypeOK
  <2>1. \A a \in Actors : saving[a].stage \in {"none", "writing", "replaced", "synced", "failed"}
    BY <1>1, Types DEF SaveRecords
  <2>2. Cardinality(Chosen(mem)) <= MaxChoices
    BY <1>1 DEF Shape, Good
  <2>. QED BY <1>1, <2>1, <2>2, Types DEF Shape, TypeOK
<1>3. ShownSurvives
  BY <1>1 DEF ShownSurvives, DiskInv, FilesHoldViews
<1>4. RevisionNamesPolicy
  BY <1>1 DEF RevisionNamesPolicy, DiskInv, FilesHoldViews, Holds, Same
<1>. QED BY <1>1, <1>2, <1>3, <1>4 DEF PolicySound

(* PolicyIsSound: for any number of clients, profiles and commands, batches  *)
(* of any length, and crashes, power failures, failed saves and restarts at  *)
(* any moment, what a client was shown survives, a revision names one        *)
(* policy, choices stay within their limit and the lock is never left taken  *)
(* (ControlService, PolicyStore.save, write_bytes_atomic).                   *)
THEOREM PolicyIsSound == Spec => []PolicySound
<1>. QED BY PolicyInit, PolicyNext, PolicyInvSound, PTL DEF Spec

-----------------------------------------------------------------------------
(* The job pipeline: what the journal says of the jobs inside run(), whom a  *)
(* coalesced job waits on, and the lane an attempt carries.                  *)

Tracked == {j \in PipelineJobs : stand[j] \in {"leading", "following"}}
Lost == {j \in PipelineJobs : stand[j] = "lost"}

(* The registry tracks the jobs inside run(), its entries are those, and the *)
(* journal is behind the entries by what could not be written.               *)
JournalInv ==
    /\ daemon \in {"up", "down"}
    /\ stand \in [PipelineJobs -> {"new", "leading", "following", "done", "lost"}]
    /\ token \in [PipelineJobs -> {"none", "live", "cancelled"}]
    /\ \A j \in PipelineJobs : token[j] # "none" <=> j \in Tracked
    /\ daemon = "up" => /\ entries = Tracked /\ Lost \subseteq reported \cup excused
                        /\ journal \ excused = Tracked \ excused
    /\ daemon = "down" => /\ Tracked = {}
                          /\ journal \ excused = (Lost \ reported) \ excused
    /\ reported \ excused \subseteq Lost

(* A follower's leader leads, or its future is settled; what an attempt that *)
(* ended answers is an outcome.                                              *)
FlowInv ==
    /\ DOMAIN leader = PipelineJobs /\ DOMAIN future = PipelineJobs /\ DOMAIN answer = PipelineJobs
    /\ DOMAIN step = PipelineJobs
    /\ \A j \in PipelineJobs :
        /\ stand[j] = "following" => /\ leader[j] \in PipelineJobs
                                     /\ future[leader[j]] = "pending" => stand[leader[j]] = "leading"
        /\ step[j] = "ended" => /\ stand[j] = "leading"
                                /\ answer[j] \in {"succeeded", "failed", "cancelled"}

(* Nothing is queued on a device before RESOLVE prepared one.                *)
LaneInv ==
    /\ at \in [PipelineJobs -> 1 .. 6]
    /\ DOMAIN carried = PipelineJobs /\ DOMAIN ranOn = PipelineJobs
    /\ \A j \in PipelineJobs : /\ ranOn[j] \in {Pipeline!NoDevice, carried[j]}
                               /\ at[j] <= 3 => ranOn[j] = Pipeline!NoDevice

PipelineInv == JournalInv /\ FlowInv /\ LaneInv

LEMMA PipelineStarts == Pipeline!Init => PipelineInv
<1>. SUFFICES ASSUME Pipeline!Init PROVE PipelineInv
  OBVIOUS
<1>1. JournalInv
  BY DEF Pipeline!Init, JournalInv, Tracked, Lost
<1>2. FlowInv
  BY DEF Pipeline!Init, FlowInv
<1>3. LaneInv
  BY DEF Pipeline!Init, LaneInv
<1>. QED BY <1>1, <1>2, <1>3 DEF PipelineInv

-----------------------------------------------------------------------------
(* The journal.                                                              *)

(* A job enters run(): its entry is written, or the job is excused.          *)
LEMMA TrackKeeps ==
    ASSUME JournalInv, daemon = "up", NEW j \in PipelineJobs, stand[j] = "new", NEW s \in {"leading", "following"},
           NEW written \in BOOLEAN, Pipeline!Track(j, written), stand' = [stand EXCEPT ![j] = s],
           UNCHANGED <<daemon, reported>>
    PROVE  JournalInv'
<1>1. /\ token' = [token EXCEPT ![j] = "live"] /\ entries' = entries \cup {j}
      /\ journal' = IF written THEN entries \cup {j} ELSE journal
      /\ excused' = IF written THEN excused ELSE excused \cup {j}
  BY DEF Pipeline!Track, Pipeline!Persist
<1>2. Tracked' = Tracked \cup {j} /\ Lost' = Lost /\ j \notin Tracked /\ j \notin Lost
  BY DEF JournalInv, Tracked, Lost
<1>. QED BY <1>1, <1>2 DEF JournalInv

(* A job leaves run().                                                       *)
LEMMA ReleaseKeeps ==
    ASSUME JournalInv, NEW j \in PipelineJobs, stand[j] \in {"leading", "following"},
           NEW written \in BOOLEAN, Pipeline!Release(j, written), stand' = [stand EXCEPT ![j] = "done"],
           UNCHANGED <<daemon, reported>>
    PROVE  JournalInv'
<1>1. /\ token' = [token EXCEPT ![j] = "none"] /\ entries' = entries \ {j}
      /\ journal' = IF written THEN entries \ {j} ELSE journal
      /\ excused' = IF written THEN excused ELSE excused \cup {j}
  BY DEF Pipeline!Release, Pipeline!Persist
<1>2. Tracked' = Tracked \ {j} /\ Lost' = Lost /\ j \in Tracked /\ j \notin Lost
  BY DEF JournalInv, Tracked, Lost
<1>3. daemon = "up"
  BY <1>2 DEF JournalInv
<1>. QED BY <1>1, <1>2, <1>3 DEF JournalInv

(* A job that was never inside run() is answered, or nothing happens to any. *)
LEMMA ReturnKeeps ==
    ASSUME JournalInv, NEW j \in PipelineJobs, stand[j] = "new", stand' = [stand EXCEPT ![j] = "done"],
           UNCHANGED <<daemon, token, entries, journal, excused, reported>>
    PROVE  JournalInv'
<1>1. Tracked' = Tracked /\ Lost' = Lost
  BY DEF JournalInv, Tracked, Lost
<1>. QED BY <1>1 DEF JournalInv

LEMMA JournalFrame ==
    ASSUME JournalInv, UNCHANGED <<daemon, stand, token, entries, journal, excused, reported>>
    PROVE  JournalInv'
BY DEF JournalInv, Tracked, Lost

(* A kill loses the jobs inside run() and leaves their names in the journal; *)
(* the next start reports what it reads and excuses what it cannot.          *)
LEMMA CrashKeeps == JournalInv /\ Pipeline!Crash => JournalInv'
<1>. SUFFICES ASSUME JournalInv, Pipeline!Crash PROVE JournalInv'
  OBVIOUS
<1>1. /\ daemon = "up" /\ daemon' = "down" /\ UNCHANGED <<journal, excused, reported>>
      /\ stand' = [j \in PipelineJobs |-> IF token[j] # "none" THEN "lost" ELSE stand[j]]
      /\ token' = [j \in PipelineJobs |-> "none"]
  BY DEF Pipeline!Crash, Pipeline!Up
<1>2. Tracked' = {} /\ Lost' = Lost \cup Tracked /\ Tracked \cap Lost = {}
  BY <1>1 DEF JournalInv, Tracked, Lost
<1>3. stand' \in [PipelineJobs -> {"new", "leading", "following", "done", "lost"}]
  BY <1>1 DEF JournalInv
<1>. QED BY <1>1, <1>2, <1>3 DEF JournalInv

LEMMA ReconcileKeeps ==
    ASSUME JournalInv, NEW readable \in BOOLEAN, Pipeline!Reconcile(readable)
    PROVE  JournalInv'
<1>1. PICK read : read = IF readable THEN journal ELSE {}
  OBVIOUS
<1>2. /\ daemon = "down" /\ daemon' = "up" /\ entries' = {} /\ UNCHANGED <<stand, token>>
      /\ reported' = reported \cup read /\ journal' = IF read = {} THEN journal ELSE {}
      /\ excused' = excused \cup (journal \ read)
  BY <1>1 DEF Pipeline!Reconcile, Pipeline!Loaded
<1>3. Tracked' = Tracked /\ Lost' = Lost
  BY <1>2 DEF Tracked, Lost
<1>4. read \subseteq journal
  BY <1>1
<1>. QED BY <1>2, <1>3, <1>4 DEF JournalInv

-----------------------------------------------------------------------------
(* The flow.                                                                 *)

(* A primary ends and settles its future; nobody follows another one.        *)
LEMMA LeaderEnds ==
    ASSUME JournalInv, FlowInv, NEW j \in PipelineJobs, stand[j] = "leading",
           stand' = [stand EXCEPT ![j] = "done"], NEW r, r # "pending", future' = [future EXCEPT ![j] = r],
           step' = [step EXCEPT ![j] = "checking"], UNCHANGED leader,
           answer' = answer \/ \E o : answer' = [answer EXCEPT ![j] = o]
    PROVE  FlowInv'
BY DEF FlowInv, JournalInv

(* A job that does not lead is answered.                                     *)
LEMMA OtherEnds ==
    ASSUME JournalInv, FlowInv, NEW j \in PipelineJobs, stand[j] # "leading",
           stand' = [stand EXCEPT ![j] = "done"], UNCHANGED <<future, step, leader>>,
           NEW o, answer' = [answer EXCEPT ![j] = o]
    PROVE  FlowInv'
BY DEF FlowInv, JournalInv

(* An attempt goes on, or it ends with an outcome.                           *)
LEMMA AttemptGoesOn ==
    ASSUME JournalInv, FlowInv, NEW j \in PipelineJobs, stand[j] = "leading",
           UNCHANGED <<stand, future, leader>>, NEW s, step' = [step EXCEPT ![j] = s],
           \/ s # "ended" /\ UNCHANGED answer
           \/ \E o \in {"succeeded", "failed", "cancelled"} : answer' = [answer EXCEPT ![j] = o]
    PROVE  FlowInv'
BY DEF FlowInv

LEMMA FlowFrame ==
    ASSUME FlowInv, UNCHANGED <<stand, future, leader, step, answer>>
    PROVE  FlowInv'
BY DEF FlowInv

-----------------------------------------------------------------------------
(* The lane.                                                                 *)

LEMMA LaneFrame ==
    ASSUME LaneInv, UNCHANGED <<at, carried, ranOn>>
    PROVE  LaneInv'
BY DEF LaneInv

LEMMA LaneGone ==
    ASSUME LaneInv, NEW j \in PipelineJobs, at' = [at EXCEPT ![j] = 1],
           carried' = [carried EXCEPT ![j] = Pipeline!NoDevice], ranOn' = [ranOn EXCEPT ![j] = Pipeline!NoDevice]
    PROVE  LaneInv'
BY DEF LaneInv

LEMMA StagesAre ==
    /\ Len(Pipeline!Stages) = 6
    /\ \A n \in 1 .. 6 : (Pipeline!Stages[n] = "resolve" => n = 3) /\ (Pipeline!Stages[n] = "infer" => n = 4)
BY DEF Pipeline!Stages

(* The next stage begins; RESOLVE prepares a lane; INFER queues on it.       *)
LEMMA LaneBegins ==
    ASSUME LaneInv, NEW j \in PipelineJobs, Pipeline!BeginStage(j)
    PROVE  LaneInv'
<1>. USE DEF Pipeline!BeginStage, Pipeline!Ended
<1>1. CASE Pipeline!MayBegin(j)
  <2>1. PICK n : n = Pipeline!NextStage(j)
    OBVIOUS
  <2>2. n \in 1 .. 6 /\ at[j] <= n
    BY <2>1, StagesAre DEF Pipeline!NextStage, LaneInv
  <2>3. at' = [at EXCEPT ![j] = n] /\ UNCHANGED <<carried, ranOn>>
    BY <1>1, <2>1
  <2>. QED BY <2>2, <2>3 DEF LaneInv
<1>2. CASE ~Pipeline!MayBegin(j)
  BY <1>2, LaneFrame
<1>. QED BY <1>1, <1>2

LEMMA LaneResolves ==
    ASSUME LaneInv, NEW j \in PipelineJobs, Pipeline!Resolve(j)
    PROVE  LaneInv'
<1>1. at[j] = 3 /\ UNCHANGED <<at, ranOn>> /\ \E c : carried' = [carried EXCEPT ![j] = c]
  BY StagesAre DEF Pipeline!Resolve, LaneInv
<1>2. ranOn[j] = Pipeline!NoDevice
  BY <1>1 DEF LaneInv
<1>. QED BY <1>1, <1>2 DEF LaneInv

LEMMA LaneInfers ==
    ASSUME LaneInv, NEW j \in PipelineJobs, Pipeline!Infer(j)
    PROVE  LaneInv'
<1>1. /\ at[j] = 4 /\ UNCHANGED <<at, carried>>
      /\ ranOn' = [ranOn EXCEPT ![j] = carried[j]] \/ UNCHANGED ranOn
  BY StagesAre DEF Pipeline!Infer, Pipeline!InferDevice, LaneInv
<1>. QED BY <1>1 DEF LaneInv

-----------------------------------------------------------------------------
(* The steps.                                                                *)

LEMMA SubmitStep ==
    ASSUME PipelineInv, NEW j \in PipelineJobs, NEW written \in BOOLEAN,
           \/ Pipeline!SubmitRefused(j) \/ Pipeline!SubmitUntracked(j) \/ Pipeline!SubmitReplayed(j)
           \/ Pipeline!SubmitDropped(j) \/ Pipeline!SubmitCoalesced(j, written)
           \/ Pipeline!SubmitPrimary(j, written)
    PROVE  PipelineInv'
<1>. USE DEF PipelineInv, Pipeline!Up, Pipeline!Enters, Pipeline!registry, Pipeline!flow, Pipeline!attempt
<1>1. LaneInv'
  BY LaneFrame DEF Pipeline!SubmitRefused, Pipeline!SubmitUntracked, Pipeline!SubmitReplayed,
       Pipeline!SubmitDropped, Pipeline!SubmitCoalesced, Pipeline!SubmitPrimary
<1>2. ASSUME \/ Pipeline!SubmitRefused(j) \/ Pipeline!SubmitUntracked(j) \/ Pipeline!SubmitReplayed(j)
             \/ Pipeline!SubmitDropped(j)
      PROVE  JournalInv' /\ FlowInv'
  <2>1. /\ stand[j] = "new" /\ stand' = [stand EXCEPT ![j] = "done"]
        /\ UNCHANGED <<daemon, token, entries, journal, excused, reported, future, step, leader>>
        /\ \E o : answer' = [answer EXCEPT ![j] = o]
    BY <1>2 DEF Pipeline!SubmitRefused, Pipeline!SubmitUntracked, Pipeline!SubmitReplayed,
       Pipeline!SubmitDropped, Pipeline!Returns
  <2>. QED BY <2>1, ReturnKeeps, OtherEnds
<1>3. ASSUME Pipeline!SubmitCoalesced(j, written) PROVE JournalInv' /\ FlowInv'
  <2>1. PICK p \in PipelineJobs : stand[p] = "leading" /\ leader' = [leader EXCEPT ![j] = p]
    BY <1>3 DEF Pipeline!SubmitCoalesced, Pipeline!Primary, Pipeline!Leading
  <2>2. /\ daemon = "up" /\ stand[j] = "new" /\ stand' = [stand EXCEPT ![j] = "following"]
        /\ Pipeline!Track(j, written) /\ UNCHANGED <<daemon, reported, step, future, answer>>
    BY <1>3 DEF Pipeline!SubmitCoalesced
  <2>3. JournalInv'
    BY <2>2, TrackKeeps
  <2>4. FlowInv'
    BY <2>1, <2>2 DEF FlowInv, JournalInv
  <2>. QED BY <2>3, <2>4
<1>4. ASSUME Pipeline!SubmitPrimary(j, written) PROVE JournalInv' /\ FlowInv'
  <2>1. /\ daemon = "up" /\ stand[j] = "new" /\ stand' = [stand EXCEPT ![j] = "leading"]
        /\ future' = [future EXCEPT ![j] = "pending"]
        /\ Pipeline!Track(j, written) /\ UNCHANGED <<daemon, reported, step, leader, answer>>
    BY <1>4 DEF Pipeline!SubmitPrimary
  <2>2. JournalInv'
    BY <2>1, TrackKeeps
  <2>3. FlowInv'
    BY <2>1 DEF FlowInv, JournalInv
  <2>. QED BY <2>2, <2>3
<1>. QED BY <1>1, <1>2, <1>3, <1>4

LEMMA AttemptStep ==
    ASSUME PipelineInv, NEW j \in PipelineJobs,
           \/ Pipeline!BeginStage(j) \/ Pipeline!EndDelivered(j) \/ Pipeline!PlainStage(j)
           \/ Pipeline!Resolve(j) \/ Pipeline!Infer(j) \/ Pipeline!InferRefused(j) \/ Pipeline!Inferred(j)
           \/ Pipeline!EndFailed(j) \/ Pipeline!EndCancelled(j) \/ Pipeline!Beat(j)
           \/ Pipeline!DeadlinePasses(j)
    PROVE  PipelineInv'
<1>. USE DEF PipelineInv, Pipeline!registry, Pipeline!flow, Pipeline!Ended
<1>1. JournalInv'
  <2>1. UNCHANGED <<daemon, stand, token, entries, journal, excused, reported>>
    BY DEF Pipeline!BeginStage, Pipeline!EndDelivered, Pipeline!PlainStage, Pipeline!Resolve, Pipeline!Infer,
       Pipeline!InferRefused, Pipeline!Inferred, Pipeline!EndFailed, Pipeline!EndCancelled, Pipeline!Beat,
       Pipeline!DeadlinePasses
  <2>. QED BY <2>1, JournalFrame
<1>2. FlowInv'
  <2>1. stand[j] = "leading" /\ UNCHANGED <<stand, future, leader>>
    BY DEF Pipeline!Leading, Pipeline!BeginStage, Pipeline!EndDelivered, Pipeline!PlainStage, Pipeline!Resolve, Pipeline!Infer,
       Pipeline!InferRefused, Pipeline!Inferred, Pipeline!EndFailed, Pipeline!EndCancelled, Pipeline!Beat,
       Pipeline!DeadlinePasses
  <2>2. \/ UNCHANGED <<step, answer>>
        \/ \E s : /\ step' = [step EXCEPT ![j] = s]
                  /\ \/ s # "ended" /\ UNCHANGED answer
                     \/ \E o \in {"succeeded", "failed", "cancelled"} : answer' = [answer EXCEPT ![j] = o]
    BY DEF Pipeline!BeginStage, Pipeline!EndDelivered, Pipeline!PlainStage, Pipeline!Resolve, Pipeline!Infer,
       Pipeline!InferRefused, Pipeline!Inferred, Pipeline!EndFailed, Pipeline!EndCancelled, Pipeline!Beat,
       Pipeline!DeadlinePasses
  <2>. QED BY <2>1, <2>2, AttemptGoesOn, FlowFrame
<1>3. LaneInv'
  <2>1. ASSUME \/ Pipeline!EndDelivered(j) \/ Pipeline!PlainStage(j) \/ Pipeline!InferRefused(j)
               \/ Pipeline!Inferred(j) \/ Pipeline!EndFailed(j) \/ Pipeline!EndCancelled(j) \/ Pipeline!Beat(j)
        PROVE  LaneInv'
    BY <2>1, LaneFrame DEF Pipeline!EndDelivered, Pipeline!PlainStage, Pipeline!InferRefused,
       Pipeline!Inferred, Pipeline!EndFailed, Pipeline!EndCancelled, Pipeline!Beat
  <2>2. ASSUME Pipeline!DeadlinePasses(j) PROVE LaneInv'
    BY <2>2, LaneFrame, LaneGone DEF Pipeline!DeadlinePasses
  <2>. QED BY <2>1, <2>2, LaneBegins, LaneResolves, LaneInfers
<1>. QED BY <1>1, <1>2, <1>3

LEMMA EndStep ==
    ASSUME PipelineInv, NEW j \in PipelineJobs, NEW written \in BOOLEAN,
           \/ Pipeline!Settle(j, written) \/ Pipeline!Exhausted(j, written)
           \/ Pipeline!PrimaryCancelled(j, written) \/ Pipeline!FollowerEnds(j, written)
           \/ Pipeline!FollowerCancelled(j, written)
    PROVE  PipelineInv'
<1>. USE DEF PipelineInv, Pipeline!Leading
<1>1. ASSUME \/ Pipeline!Settle(j, written) \/ Pipeline!Exhausted(j, written)
             \/ Pipeline!PrimaryCancelled(j, written)
      PROVE  PipelineInv'
  <2>1. /\ stand[j] = "leading" /\ stand' = [stand EXCEPT ![j] = "done"]
        /\ Pipeline!Release(j, written) /\ Pipeline!AttemptGone(j) /\ UNCHANGED <<daemon, reported, leader>>
    BY <1>1 DEF Pipeline!Settle, Pipeline!Exhausted, Pipeline!PrimaryCancelled, Pipeline!PrimaryFails
  <2>2. JournalInv'
    BY <2>1, ReleaseKeeps
  <2>3. LaneInv'
    BY <2>1, LaneGone DEF Pipeline!AttemptGone
  <2>4. PICK r : r # "pending" /\ future' = [future EXCEPT ![j] = r]
    BY <1>1, <2>1 DEF Pipeline!Settle, Pipeline!Exhausted, Pipeline!PrimaryCancelled, Pipeline!PrimaryFails,
       FlowInv
  <2>5. answer' = answer \/ \E o : answer' = [answer EXCEPT ![j] = o]
    BY <1>1 DEF Pipeline!Settle, Pipeline!Exhausted, Pipeline!PrimaryCancelled, Pipeline!PrimaryFails
  <2>6. FlowInv'
    BY <2>1, <2>4, <2>5, LeaderEnds DEF Pipeline!AttemptGone
  <2>. QED BY <2>2, <2>3, <2>6
<1>2. ASSUME Pipeline!FollowerEnds(j, written) \/ Pipeline!FollowerCancelled(j, written)
      PROVE  PipelineInv'
  <2>1. /\ stand[j] = "following" /\ stand' = [stand EXCEPT ![j] = "done"]
        /\ \E o : answer' = [answer EXCEPT ![j] = o]
        /\ Pipeline!Release(j, written)
        /\ UNCHANGED <<daemon, reported, leader, future, step, at, carried, ranOn>>
    BY <1>2 DEF Pipeline!FollowerEnds, Pipeline!FollowerCancelled, Pipeline!Returns, Pipeline!attempt,
       Pipeline!flow
  <2>. QED BY <2>1, ReleaseKeeps, OtherEnds, LaneFrame
<1>. QED BY <1>1, <1>2

LEMMA PipelineStep ==
    ASSUME PipelineInv, [Pipeline!Next]_Pipeline!pipelineVars
    PROVE  PipelineInv'
<1>. USE DEF PipelineInv, Pipeline!attempt, Pipeline!flow, Pipeline!registry
<1>1. ASSUME UNCHANGED Pipeline!pipelineVars PROVE PipelineInv'
  BY <1>1, JournalFrame, FlowFrame, LaneFrame DEF Pipeline!pipelineVars
<1>2. ASSUME NEW j \in PipelineJobs, Pipeline!Cancel(j) PROVE PipelineInv'
  <2>1. /\ token[j] = "live" /\ token' = [token EXCEPT ![j] = "cancelled"]
        /\ UNCHANGED <<daemon, stand, entries, journal, excused, reported, future, leader, step, answer,
                       at, carried, ranOn>>
    BY <1>2 DEF Pipeline!Cancel
  <2>2. JournalInv'
    BY <2>1 DEF JournalInv, Tracked, Lost
  <2>. QED BY <2>1, <2>2, FlowFrame, LaneFrame
<1>3. ASSUME Pipeline!WorldChanges PROVE PipelineInv'
  BY <1>3, JournalFrame, FlowFrame, LaneFrame DEF Pipeline!WorldChanges
<1>4. ASSUME Pipeline!Crash PROVE PipelineInv'
  <2>1. JournalInv'
    BY <1>4, CrashKeeps
  <2>2. FlowInv'
    BY <1>4 DEF Pipeline!Crash, FlowInv, JournalInv, Tracked
  <2>3. LaneInv'
    BY <1>4 DEF Pipeline!Crash, LaneInv
  <2>. QED BY <2>1, <2>2, <2>3
<1>5. ASSUME NEW readable \in BOOLEAN, Pipeline!Reconcile(readable) PROVE PipelineInv'
  BY <1>5, ReconcileKeeps, FlowFrame, LaneFrame DEF Pipeline!Reconcile
<1>. QED BY <1>1, <1>2, <1>3, <1>4, <1>5, SubmitStep, AttemptStep, EndStep DEF Pipeline!Next

(* However jobs coalesce, retry, are cancelled or die with the service: the  *)
(* journal names those to report, a follower's future is settled by whatever *)
(* ends its leader, and inference runs on the device that RESOLVE prepared   *)
(* (cancellation.py: _persist, recover; flow.py: submit; dispatch.py:        *)
(* _queue_prepared).                                                         *)
THEOREM NoJobIsLost == Pipeline!Spec => []PipelineSound
<1>1. PipelineInv => PipelineSound
  <2>. SUFFICES ASSUME PipelineInv PROVE PipelineSound
    OBVIOUS
  <2>1. Pipeline!InterruptedReported
    <3>1. Pipeline!Tracked = Tracked
      BY DEF PipelineInv, JournalInv, Pipeline!Tracked, Tracked
    <3>. QED BY <3>1 DEF PipelineInv, JournalInv, Pipeline!InterruptedReported, Pipeline!Up, Lost
  <2>2. Pipeline!NoOrphanFollower
    BY DEF PipelineInv, FlowInv, Pipeline!NoOrphanFollower, Pipeline!Leading
  <2>3. Pipeline!InfersWherePrepared
    BY DEF PipelineInv, LaneInv, Pipeline!InfersWherePrepared
  <2>. QED BY <2>1, <2>2, <2>3 DEF PipelineSound, Pipeline!PipelineSound
<1>. QED BY <1>1, PipelineStarts, PipelineStep, PTL DEF Pipeline!Spec

-----------------------------------------------------------------------------
(* The artifact store: what the holder of its lock relies on, and what the   *)
(* service remembers of the files.                                           *)

NoFile == "none"
Contents == Bytes \cup {NoFile}
References == [id : Ids, v : Versions, comp : Contents, declares : Contents, needs : BOOLEAN,
               sound : BOOLEAN, trusted : BOOLEAN]
Compiled == [id : Ids, v : Versions, found : Contents]
Directories == {Artifacts!Absent} \cup [there : {TRUE}, primary : BOOLEAN, comp : Contents,
                                        noted : Contents \cup {"lost"}]
Pointers == [active : Versions \cup {0}, rollback : Versions \cup {0}]
UnderLock == {"staged", "renamed", "removing", "evict"}
Errands == [at : {"idle", "build", "gate", "next", "undo"} \cup UnderLock, todo : Seq(References),
            landed : Seq(References), binds : BOOLEAN, undoes : BOOLEAN, was : Pointers,
            evicting : SUBSET (Ids \X Versions)]
Answers == {Artifacts!Unknown} \cup [held : {TRUE}, fresh : BOOLEAN, ready : BOOLEAN]
Questions == {Artifacts!Unknown} \cup [held : {TRUE}, fresh : BOOLEAN, read : {"unread", "ready", "refused"}]

StoreTyped ==
    /\ version \in [Ids -> [Versions -> Directories]]
    /\ pointer \in [Ids -> Pointers]
    /\ errand \in [Processes -> Errands]
    /\ flock \in Processes \cup {"none"}
    /\ known \in [Ids -> Answers] /\ asking \in [Ids -> Questions]

Names(i) == {pointer[i].active, pointer[i].rollback}

(* What a process knows while it is between two steps under the lock.        *)
Stage(p) ==
    /\ errand[p].at \in UnderLock => flock = p
    /\ errand[p].at \in {"staged", "renamed"} =>
           errand[p].todo # <<>> /\ errand[p].was = pointer[errand[p].todo[1].id]
    /\ errand[p].at = "renamed" => version[errand[p].todo[1].id][errand[p].todo[1].v].there
    /\ errand[p].at = "removing" =>
           LET ref == errand[p].landed[Len(errand[p].landed)]
           IN  errand[p].landed # <<>> /\ (ref.v \in Names(ref.id) => <<ref.id, ref.v>> \in mislaid)
    /\ errand[p].at = "evict" => \A e \in errand[p].evicting : e[2] \notin Names(e[1])

Stages == \A p \in Processes : Stage(p)

(* What a remembered answer stands for, where it can stand for anything.     *)
Trusted(i) ==
    Artifacts!Stampable(i) /\ (version[i][Declared[i].v].comp # NoFile => Declared[i].declares # NoFile)
        => Artifacts!Resolves(i, Declared[i])
ReadyHeld ==
    \A i \in Ids : /\ known[i].held /\ known[i].fresh /\ known[i].ready => Trusted(i)
                   /\ asking[i].held /\ asking[i].fresh /\ asking[i].read = "ready" => Trusted(i)

StoreInv == StoreTyped /\ Stages /\ Artifacts!ActivationInstalled /\ ReadyHeld

LEMMA ReferencesAre ==
    /\ 0 \notin Versions /\ "none" \notin Bytes /\ "none" \notin Processes /\ Asked \subseteq Ids
    /\ Pinned \subseteq References /\ \A i \in Ids : Declared[i].v \in Versions
BY ArtifactsAssumption DEF Artifacts!ReferencesAssumption, References, Contents, NoFile

LEMMA IdleIsErrand == Artifacts!Idle \in Errands /\ Artifacts!Idle.at = "idle"
BY DEF Artifacts!Idle, Errands, Artifacts!NoPointer, Artifacts!NoVersion, Pointers, UnderLock

LEMMA HeldAre ==
    /\ \A d \in Directories : d.there => d \in [there : {TRUE}, primary : BOOLEAN, comp : Contents,
                                               noted : Contents \cup {"lost"}]
    /\ \A q \in Questions : q.held => q \in [held : {TRUE}, fresh : BOOLEAN,
                                            read : {"unread", "ready", "refused"}]
<1>1. ASSUME NEW d \in Directories, d.there
      PROVE  d \in [there : {TRUE}, primary : BOOLEAN, comp : Contents, noted : Contents \cup {"lost"}]
  <2>1. CASE d = Artifacts!Absent
    BY <1>1, <2>1 DEF Artifacts!Absent
  <2>. QED BY <1>1, <2>1 DEF Directories
<1>2. ASSUME NEW q \in Questions, q.held
      PROVE  q \in [held : {TRUE}, fresh : BOOLEAN, read : {"unread", "ready", "refused"}]
  <2>1. CASE q = Artifacts!Unknown
    BY <1>2, <2>1 DEF Artifacts!Unknown
  <2>. QED BY <1>2, <2>1 DEF Questions
<1>. QED BY <1>1, <1>2

LEMMA StoreStarts == Artifacts!Init => StoreInv
<1>. SUFFICES ASSUME Artifacts!Init PROVE StoreInv
  OBVIOUS
<1>. USE DEF Artifacts!Init
<1>1. /\ version \in [Ids -> [Versions -> Directories]] /\ pointer \in [Ids -> Pointers]
      /\ flock \in Processes \cup {"none"}
  BY DEF Directories, Pointers, Artifacts!NoPointer, Artifacts!NoVersion, Artifacts!Nothing
<1>2. errand \in [Processes -> Errands] /\ \A p \in Processes : errand[p].at = "idle"
  BY IdleIsErrand
<1>3. known \in [Ids -> Answers] /\ asking \in [Ids -> Questions]
      /\ \A i \in Ids : ~known[i].held /\ ~asking[i].held
  BY DEF Answers, Questions, Artifacts!Unknown
<1>4. Artifacts!ActivationInstalled
  BY DEF Artifacts!ActivationInstalled, Artifacts!NoPointer
<1>. QED BY <1>1, <1>2, <1>3, <1>4 DEF StoreInv, StoreTyped, Stages, Stage, ReadyHeld, UnderLock

-----------------------------------------------------------------------------
(* The readers.                                                              *)

LEMMA ReadyFrame ==
    ASSUME ReadyHeld, UNCHANGED <<version, known, asking>>
    PROVE  ReadyHeld'
BY DEF ReadyHeld, Trusted, Artifacts!Stampable, Artifacts!Resolves, Artifacts!Present,
       Artifacts!PrimaryMatches, Artifacts!RecordedMatches, Artifacts!DeclaredMatches

(* A version other than the one a question is about says nothing about it.   *)
LEMMA TrustedElsewhere ==
    ASSUME NEW i \in Ids, version'[i][Declared[i].v] = version[i][Declared[i].v]
    PROVE  Trusted(i)' <=> Trusted(i)
BY DEF Trusted, Artifacts!Stampable, Artifacts!Resolves, Artifacts!Present, Artifacts!PrimaryMatches,
       Artifacts!RecordedMatches, Artifacts!DeclaredMatches

(* One version changes and is restamped.                                     *)
LEMMA RestampKeeps ==
    ASSUME StoreTyped, ReadyHeld, NEW i \in Ids, NEW v \in Versions, NEW c \in BOOLEAN,
           Artifacts!Restamped(i, v, c),
           \A k \in Ids, w \in Versions : k # i \/ w # v => version'[k][w] = version[k][w],
           c /\ Declared[i].v = v /\ Declared[i].declares = NoFile => version'[i][v].comp # NoFile
    PROVE  ReadyHeld' /\ known' \in [Ids -> Answers] /\ asking' \in [Ids -> Questions]
<1>1. PICK moved : moved = (Declared[i].v = v /\ (c => Declared[i].declares # NoFile))
  OBVIOUS
<1>2. PICK a, b : /\ a = IF known[i].held /\ moved THEN [known[i] EXCEPT !.fresh = FALSE] ELSE known[i]
                  /\ b = IF asking[i].held /\ moved THEN [asking[i] EXCEPT !.fresh = FALSE] ELSE asking[i]
  OBVIOUS
<1>3. known' = [known EXCEPT ![i] = a] /\ asking' = [asking EXCEPT ![i] = b]
  BY <1>1, <1>2 DEF Artifacts!Restamped, Artifacts!Nothing, NoFile
<1>4. known[i] \in Answers /\ asking[i] \in Questions
  BY DEF StoreTyped
<1>5. a \in Answers /\ b \in Questions
  BY <1>2, <1>4 DEF Answers, Questions, Artifacts!Unknown
<1>6. known' \in [Ids -> Answers] /\ asking' \in [Ids -> Questions]
  BY <1>3, <1>5 DEF StoreTyped
<1>7. ASSUME NEW k \in Ids
      PROVE  /\ known'[k].held /\ known'[k].fresh /\ known'[k].ready => Trusted(k)'
             /\ asking'[k].held /\ asking'[k].fresh /\ asking'[k].read = "ready" => Trusted(k)'
  <2>1. CASE k # i \/ Declared[k].v # v
    <3>1. Declared[k].v \in Versions
      BY ReferencesAre
    <3>2. Trusted(k)' <=> Trusted(k)
      BY <2>1, <3>1, TrustedElsewhere
    <3>3. known'[k] = known[k] /\ asking'[k] = asking[k]
      BY <1>1, <1>2, <1>3, <2>1 DEF StoreTyped
    <3>. QED BY <3>2, <3>3 DEF ReadyHeld
  <2>2. CASE k = i /\ Declared[k].v = v /\ moved
    <3>1. known'[k] = a /\ asking'[k] = b
      BY <1>3, <2>2 DEF StoreTyped
    <3>2. (a.held => ~a.fresh) /\ (b.held => ~b.fresh)
      BY <1>2, <1>4, <2>2 DEF Answers, Questions, Artifacts!Unknown
    <3>. QED BY <3>1, <3>2
  <2>3. CASE k = i /\ Declared[k].v = v /\ ~moved
    BY <1>1, <2>3 DEF Trusted
  <2>. QED BY <1>1, <2>1, <2>2, <2>3
<1>. QED BY <1>6, <1>7 DEF ReadyHeld

-----------------------------------------------------------------------------
(* The lock.                                                                 *)

(* Whoever else holds nothing is between no two steps under the lock.        *)
LEMMA OthersRest ==
    ASSUME Stages, NEW p \in Processes, flock \in {p, "none"}, NEW q \in Processes, q # p,
           errand'[q] = errand[q]
    PROVE  Stage(q)'
<1>1. errand[q].at \notin UnderLock
  BY ReferencesAre DEF Stages, Stage
<1>2. errand'[q].at \notin UnderLock
  BY <1>1
<1>. QED BY <1>2 DEF Stage, UnderLock

(* What another process knows stays true while the store is left alone.      *)
LEMMA OthersStay ==
    ASSUME NEW q \in Processes, Stage(q), errand'[q] = errand[q], UNCHANGED <<pointer, mislaid, version>>,
           flock = q => flock' = q
    PROVE  Stage(q)'
BY DEF Stage, Names

LEMMA ActivationFrame ==
    ASSUME Artifacts!ActivationInstalled, UNCHANGED <<version, pointer, mislaid>>
    PROVE  Artifacts!ActivationInstalled'
BY DEF Artifacts!ActivationInstalled, Artifacts!Present

(* A process goes on outside the lock, or gives the lock up.                 *)
LEMMA QuietKeeps ==
    ASSUME StoreInv, NEW p \in Processes, NEW x \in Errands, x.at \notin UnderLock,
           errand' = [errand EXCEPT ![p] = x], UNCHANGED <<version, pointer, mislaid, known, asking>>,
           flock' = flock \/ (flock = p /\ flock' = "none")
    PROVE  StoreInv'
<1>1. StoreTyped'
  BY DEF StoreInv, StoreTyped
<1>2. ASSUME NEW q \in Processes PROVE Stage(q)'
  <2>1. CASE q = p
    <3>1. errand'[q].at \notin UnderLock
      BY <2>1 DEF StoreInv, StoreTyped
    <3>. QED BY <3>1 DEF Stage, UnderLock
  <2>2. CASE q # p
    <3>1. errand'[q] = errand[q] /\ (flock = q => flock' = q)
      BY <2>2 DEF StoreInv, StoreTyped
    <3>. QED BY <3>1, OthersStay DEF StoreInv, Stages
  <2>. QED BY <2>1, <2>2
<1>. QED BY <1>1, <1>2, ReadyFrame, ActivationFrame DEF StoreInv, Stages

(* The records a command goes through.                                       *)
LEMMA ErrandMoves ==
    ASSUME NEW x \in Errands, NEW a \in {"idle", "build", "gate", "next", "undo"} \cup UnderLock
    PROVE  [x EXCEPT !.at = a] \in Errands /\ [x EXCEPT !.at = a].at = a
BY DEF Errands

LEMMA Unwinds ==
    ASSUME StoreTyped, NEW p \in Processes
    PROVE  Artifacts!Unwinding(p) \in Errands /\ Artifacts!Unwinding(p).at \notin UnderLock
<1>1. PICK x : x = errand[p]
  OBVIOUS
<1>2. x \in Errands
  BY <1>1 DEF StoreTyped
<1>3. [x EXCEPT !.at = "undo"] \in Errands /\ [x EXCEPT !.at = "undo"].at = "undo"
  BY <1>2, ErrandMoves
<1>4. Artifacts!Unwinding(p) \in {[x EXCEPT !.at = "undo"], Artifacts!Idle}
  BY <1>1 DEF Artifacts!Unwinding, Artifacts!Job
<1>. QED BY <1>3, <1>4, IdleIsErrand DEF UnderLock

(* What an operator can order is a sequence of references.                   *)
LEMMA PlansAreReferences == \A plan \in Artifacts!Plans : /\ plan.refs \in Seq(References)
                                                          /\ plan.binds \in BOOLEAN /\ plan.undoes \in BOOLEAN
<1>1. PICK s : s = [k \in DOMAIN Variants |->
                        Artifacts!PrepareArtifact(Variants[k].id, Variants[k].v, Variants[k].found)]
  OBVIOUS
<1>2. s \in Seq(References)
  <2>1. Variants \in Seq(Compiled)
    BY ArtifactsAssumption DEF Artifacts!ReferencesAssumption, Compiled, Contents, NoFile
  <2>2. ASSUME NEW k \in DOMAIN Variants PROVE s[k] \in References
    <3>1. PICK e : e = Variants[k]
      OBVIOUS
    <3>2. e \in Compiled
      BY <2>1, <2>2, <3>1
    <3>3. s[k] = [id |-> e.id, v |-> e.v, comp |-> e.found, declares |-> e.found,
                  needs |-> e.found # Artifacts!Nothing, sound |-> TRUE, trusted |-> TRUE]
      BY <1>1, <3>1 DEF Artifacts!PrepareArtifact
    <3>. QED BY <3>2, <3>3 DEF Compiled, References
  <2>3. PICK n \in Nat : DOMAIN Variants = 1 .. n
    BY <2>1
  <2>. QED BY <1>1, <2>2, <2>3
<1>3. ASSUME NEW plan \in Artifacts!Plans
      PROVE  plan.refs \in Seq(References) /\ plan.binds \in BOOLEAN /\ plan.undoes \in BOOLEAN
  <2>1. CASE plan = Artifacts!InstallTraining(s)
    BY <1>2, <2>1 DEF Artifacts!InstallTraining
  <2>2. ASSUME NEW r \in Pinned,
               plan \in {Artifacts!InstallMedia(<<r>>), Artifacts!InstallDocumentModel(r)}
        PROVE  plan.refs \in Seq(References) /\ plan.binds \in BOOLEAN /\ plan.undoes \in BOOLEAN
    <3>1. <<r>> \in Seq(References)
      BY ReferencesAre
    <3>2. plan.refs = <<r>> /\ plan.binds \in BOOLEAN /\ plan.undoes \in BOOLEAN
      <4>1. plan = Artifacts!InstallMedia(<<r>>) \/ plan = Artifacts!InstallDocumentModel(r)
        BY <2>2
      <4>2. CASE plan = Artifacts!InstallMedia(<<r>>)
        BY <4>2 DEF Artifacts!InstallMedia
      <4>3. CASE plan = Artifacts!InstallDocumentModel(r)
        BY <4>3 DEF Artifacts!InstallDocumentModel
      <4>. QED BY <4>1, <4>2, <4>3
    <3>. QED BY <3>1, <3>2
  <2>3. \/ plan = Artifacts!InstallTraining(s)
        \/ \E r \in Pinned : plan \in {Artifacts!InstallMedia(<<r>>), Artifacts!InstallDocumentModel(r)}
    BY <1>1 DEF Artifacts!Plans, Artifacts!InstallGeneration, Artifacts!InstallHebrew
  <2>. QED BY <2>1, <2>2, <2>3
<1>. QED BY <1>3

LEMMA CommandKeeps ==
    ASSUME StoreInv, NEW p \in Processes, NEW plan \in Artifacts!Plans, Artifacts!Command(p, plan)
    PROVE  StoreInv'
<1>1. PICK x : x = [Artifacts!Idle EXCEPT !.at = IF plan.builds THEN "build" ELSE "next",
                                          !.todo = plan.refs, !.binds = plan.binds, !.undoes = plan.undoes]
  OBVIOUS
<1>2. x \in Errands /\ x.at \notin UnderLock
  <2>1. x \in Errands /\ x.at \in {"build", "next"}
    BY <1>1, IdleIsErrand, PlansAreReferences DEF Errands
  <2>. QED BY <2>1 DEF UnderLock
<1>3. /\ errand' = [errand EXCEPT ![p] = x]
      /\ UNCHANGED <<version, pointer, mislaid, known, asking, flock>>
  BY <1>1 DEF Artifacts!Command, Artifacts!disk, Artifacts!readers
<1>. QED BY <1>2, <1>3, QuietKeeps

(* The other steps outside the lock, and those that give it up.              *)
LEMMA QuietStep ==
    ASSUME StoreInv, NEW p \in Processes, NEW passed \in BOOLEAN,
           \/ Artifacts!ProducerExports(p) \/ Artifacts!ProducerGate(p, passed)
           \/ Artifacts!InstallRefused(p) \/ Artifacts!ActivationFails(p) \/ Artifacts!Publish(p)
           \/ Artifacts!PublishFails(p) \/ Artifacts!UndoDone(p) \/ Artifacts!EnforceDone(p)
           \/ Artifacts!Killed(p)
    PROVE  StoreInv'
<1>1. PICK x, y, z : x = errand[p] /\ y = [x EXCEPT !.at = "gate"] /\ z = [x EXCEPT !.at = "next"]
  OBVIOUS
<1>2. x \in Errands
  BY <1>1 DEF StoreInv, StoreTyped
<1>3. y \in Errands /\ y.at \notin UnderLock /\ z \in Errands /\ z.at \notin UnderLock
  <2>1. y \in Errands /\ y.at = "gate" /\ z \in Errands /\ z.at = "next"
    BY <1>1, <1>2, ErrandMoves
  <2>. QED BY <2>1 DEF UnderLock
<1>4. Artifacts!Idle \in Errands /\ Artifacts!Idle.at \notin UnderLock
  BY IdleIsErrand DEF UnderLock
<1>5. /\ \E w \in {Artifacts!Idle, Artifacts!Unwinding(p), y, z} : errand' = [errand EXCEPT ![p] = w]
      /\ UNCHANGED <<version, pointer, mislaid, known, asking>>
      /\ flock' = flock \/ (flock = p /\ flock' = "none")
  BY <1>1 DEF Artifacts!ProducerExports, Artifacts!ProducerGate, Artifacts!InstallRefused,
     Artifacts!ActivationFails, Artifacts!Publish, Artifacts!PublishFails, Artifacts!UndoDone,
     Artifacts!EnforceDone, Artifacts!Killed, Artifacts!disk, Artifacts!readers, Artifacts!Holds,
     Artifacts!Nothing
<1>6. PICK w \in {Artifacts!Idle, Artifacts!Unwinding(p), y, z} : errand' = [errand EXCEPT ![p] = w]
  BY <1>5
<1>7. w \in Errands /\ w.at \notin UnderLock
  BY <1>3, <1>4, <1>6, Unwinds DEF StoreInv
<1>. QED BY <1>5, <1>6, <1>7, QuietKeeps

-----------------------------------------------------------------------------
(* The steps under the lock.                                                 *)

LEMMA OneDirectory ==
    ASSUME version \in [Ids -> [Versions -> Directories]], NEW i \in Ids, NEW v \in Versions,
           NEW n \in Directories, version' = [version EXCEPT ![i][v] = n]
    PROVE  /\ version' \in [Ids -> [Versions -> Directories]] /\ version'[i][v] = n
           /\ \A k \in Ids, w \in Versions : k # i \/ w # v => version'[k][w] = version[k][w]
<1>1. PICK row, new : row = version[i] /\ new = [row EXCEPT ![v] = n]
  OBVIOUS
<1>2. row \in [Versions -> Directories]
  BY <1>1
<1>3. new \in [Versions -> Directories] /\ new[v] = n /\ \A w \in Versions : w # v => new[w] = row[w]
  BY <1>1, <1>2
<1>4. version' = [version EXCEPT ![i] = new]
  BY <1>1
<1>5. version'[i] = new /\ \A k \in Ids : k # i => version'[k] = version[k]
  BY <1>4
<1>. QED BY <1>1, <1>3, <1>4, <1>5

LEMMA InstallBeginsKeeps ==
    ASSUME StoreInv, NEW p \in Processes, Artifacts!InstallBegins(p)
    PROVE  StoreInv'
<1>1. PICK x, r, w, y : /\ x = errand[p] /\ r = x.todo[1] /\ w = pointer[r.id]
                        /\ y = [x EXCEPT !.at = "staged", !.was = w]
  OBVIOUS
<1>2. /\ flock = "none" /\ flock' = p /\ x.todo # <<>> /\ errand' = [errand EXCEPT ![p] = y]
      /\ UNCHANGED <<version, pointer, mislaid, known, asking>>
  <2>1. errand[p].todo # <<>> /\ Head(errand[p].todo) = errand[p].todo[1]
    BY DEF Artifacts!InstallBegins, Artifacts!Job, StoreInv, StoreTyped, Errands
  <2>. QED BY <1>1, <2>1 DEF Artifacts!InstallBegins, Artifacts!Job, Artifacts!Reference, Artifacts!Nothing,
              Artifacts!readers
<1>3. x \in Errands /\ r \in References /\ w \in Pointers
  <2>1. x \in Errands
    BY <1>1 DEF StoreInv, StoreTyped
  <2>2. r \in References
    BY <1>1, <1>2, <2>1 DEF Errands
  <2>3. r.id \in Ids
    BY <2>2 DEF References
  <2>. QED BY <1>1, <2>1, <2>2, <2>3 DEF StoreInv, StoreTyped
<1>4. y \in Errands /\ y.at = "staged" /\ y.was = w /\ y.todo = x.todo
  BY <1>1, <1>3 DEF Errands, UnderLock
<1>5. StoreTyped'
  BY <1>2, <1>4 DEF StoreInv, StoreTyped
<1>6. ASSUME NEW q \in Processes PROVE Stage(q)'
  <2>1. CASE q = p
    <3>1. errand'[q] = y
      BY <1>2, <2>1 DEF StoreInv, StoreTyped
    <3>. QED BY <1>1, <1>2, <1>4, <2>1, <3>1 DEF Stage
  <2>2. CASE q # p
    BY <1>2, <2>2, OthersRest DEF StoreInv, StoreTyped
  <2>. QED BY <2>1, <2>2
<1>. QED BY <1>2, <1>5, <1>6, ReadyFrame, ActivationFrame DEF StoreInv, Stages

(* What is installed now: a version that was there, and the one activated.   *)
LEMMA ActivateVersionKeeps ==
    ASSUME StoreInv, NEW p \in Processes, Artifacts!ActivateVersion(p)
    PROVE  StoreInv'
<1>1. PICK x, r, i, v, d, y : /\ x = errand[p] /\ r = x.todo[1] /\ i = r.id /\ v = r.v
                              /\ d = version[i][v] /\ y = [x EXCEPT !.at = "renamed"]
  OBVIOUS
<1>2. x \in Errands /\ x.at = "staged" /\ flock = p /\ x.todo # <<>> /\ x.was = pointer[i]
  BY <1>1 DEF StoreInv, StoreTyped, Stages, Stage, Artifacts!ActivateVersion, Artifacts!Job, Artifacts!Holds
<1>3. r \in References
  BY <1>1, <1>2 DEF Errands
<1>4. i \in Ids /\ v \in Versions /\ r.comp \in Contents
  BY <1>1, <1>3 DEF References
<1>5. Artifacts!Reference(p) = r
  BY <1>1, <1>2 DEF Artifacts!Reference, Artifacts!Job, Errands
<1>6. PICK n : n = [there |-> TRUE, primary |-> TRUE, comp |-> r.comp, noted |-> r.comp]
  OBVIOUS
<1>7. n \in Directories /\ n.there
  BY <1>4, <1>6 DEF Directories
<1>8. /\ errand' = [errand EXCEPT ![p] = y] /\ UNCHANGED <<pointer, flock, mislaid>>
      /\ \/ d.there /\ UNCHANGED <<version, known, asking>>
         \/ /\ ~d.there /\ version' = [version EXCEPT ![i][v] = n]
            /\ Artifacts!Restamped(i, v, FALSE)
  BY <1>1, <1>5, <1>6 DEF Artifacts!ActivateVersion, Artifacts!readers
<1>9. y \in Errands /\ y.at = "renamed" /\ y.todo = x.todo /\ y.was = x.was
  BY <1>1, <1>2 DEF Errands, UnderLock
<1>10. /\ version' \in [Ids -> [Versions -> Directories]]
       /\ version'[i][v].there
       /\ \A k \in Ids, w \in Versions : k # i \/ w # v => version'[k][w] = version[k][w]
  <2>1. CASE d.there /\ UNCHANGED version
    BY <1>1, <2>1 DEF StoreInv, StoreTyped
  <2>2. CASE version' = [version EXCEPT ![i][v] = n]
    BY <1>4, <1>7, <2>2, OneDirectory DEF StoreInv, StoreTyped
  <2>. QED BY <1>8, <2>1, <2>2
<1>11. ReadyHeld' /\ known' \in [Ids -> Answers] /\ asking' \in [Ids -> Questions]
  BY <1>4, <1>8, <1>10, ReadyFrame, RestampKeeps DEF StoreInv, StoreTyped
<1>12. StoreTyped'
  BY <1>8, <1>9, <1>10, <1>11 DEF StoreInv, StoreTyped
<1>13. ASSUME NEW q \in Processes PROVE Stage(q)'
  <2>1. CASE q = p
    <3>1. errand'[q] = y
      BY <1>8, <2>1 DEF StoreInv, StoreTyped
    <3>2. flock' = p /\ y.todo # <<>> /\ y.todo[1].id = i /\ y.todo[1].v = v /\ y.was = pointer'[i]
      BY <1>1, <1>2, <1>8, <1>9
    <3>. QED BY <1>9, <1>10, <2>1, <3>1, <3>2 DEF Stage
  <2>2. CASE q # p
    BY <1>2, <1>8, <2>2, OthersRest DEF StoreInv, StoreTyped
  <2>. QED BY <2>1, <2>2
<1>14. Artifacts!ActivationInstalled'
  <2>. SUFFICES ASSUME NEW k \in Ids, NEW w \in {pointer[k].active, pointer[k].rollback}, w # 0,
                       <<k, w>> \notin mislaid
                PROVE  version'[k][w].there
    BY <1>8 DEF Artifacts!ActivationInstalled, Artifacts!Present, Artifacts!NoVersion
  <2>1. version[k][w].there /\ w \in Versions
    BY DEF StoreInv, StoreTyped, Artifacts!ActivationInstalled, Artifacts!Present, Artifacts!NoVersion, Pointers
  <2>. QED BY <1>10, <2>1
<1>. QED BY <1>11, <1>12, <1>13, <1>14 DEF StoreInv, Stages

(* An activation names what is installed, or what is mislaid.                *)
LEMMA PointerMoves ==
    ASSUME StoreInv, NEW i \in Ids, NEW n \in Pointers, pointer' = [pointer EXCEPT ![i] = n],
           UNCHANGED version,
           \A w \in {n.active, n.rollback} : w # 0 /\ <<i, w>> \notin mislaid' => version[i][w].there,
           \A k \in Ids, w \in Versions : k # i /\ <<k, w>> \in mislaid => <<k, w>> \in mislaid'
    PROVE  Artifacts!ActivationInstalled' /\ pointer' \in [Ids -> Pointers]
<1>1. pointer'[i] = n /\ pointer' \in [Ids -> Pointers] /\ \A k \in Ids : k # i => pointer'[k] = pointer[k]
  BY DEF StoreInv, StoreTyped
<1>2. ASSUME NEW k \in Ids, NEW w \in {pointer'[k].active, pointer'[k].rollback}, w # 0,
             <<k, w>> \notin mislaid'
      PROVE  version'[k][w].there
  <2>1. CASE k = i
    BY <1>1, <1>2, <2>1
  <2>2. CASE k # i
    <3>1. w \in {pointer[k].active, pointer[k].rollback} /\ w \in Versions
      BY <1>1, <1>2, <2>2 DEF Pointers
    <3>2. <<k, w>> \notin mislaid
      BY <1>2, <2>2, <3>1
    <3>. QED BY <1>2, <3>1, <3>2 DEF StoreInv, Artifacts!ActivationInstalled, Artifacts!Present,
                Artifacts!NoVersion
  <2>. QED BY <2>1, <2>2
<1>. QED BY <1>1, <1>2 DEF Artifacts!ActivationInstalled, Artifacts!Present, Artifacts!NoVersion

LEMMA NamedIsInstalled ==
    ASSUME StoreInv, NEW i \in Ids, NEW w \in Names(i), w # 0, <<i, w>> \notin mislaid
    PROVE  version[i][w].there
BY DEF StoreInv, Names, Artifacts!ActivationInstalled, Artifacts!Present, Artifacts!NoVersion

LEMMA WriteActivationKeeps ==
    ASSUME StoreInv, NEW p \in Processes, Artifacts!WriteActivation(p)
    PROVE  StoreInv'
<1>1. PICK x, r, i, v, was : /\ x = errand[p] /\ r = x.todo[1] /\ i = r.id /\ v = r.v /\ was = x.was
  OBVIOUS
<1>2. /\ x \in Errands /\ x.at = "renamed" /\ flock = p /\ x.todo # <<>> /\ was = pointer[i]
      /\ version[i][v].there
  BY <1>1 DEF StoreInv, StoreTyped, Stages, Stage, Artifacts!WriteActivation, Artifacts!Job, Artifacts!Holds
<1>3. r \in References /\ was \in Pointers /\ x.todo \in Seq(References) /\ x.landed \in Seq(References)
  <2>1. x.was \in Pointers /\ x.todo \in Seq(References) /\ x.landed \in Seq(References)
    BY <1>2 DEF Errands
  <2>2. r \in References
    BY <1>1, <1>2, <2>1
  <2>. QED BY <1>1, <2>1, <2>2
<1>4. i \in Ids /\ v \in Versions
  BY <1>1, <1>3 DEF References
<1>5. Artifacts!Reference(p) = r
  BY <1>1, <1>2, <1>3 DEF Artifacts!Reference, Artifacts!Job
<1>6. PICK b, n : /\ b = IF Artifacts!SameReference(was.active, r) THEN was.rollback ELSE was.active
                  /\ n = [active |-> v, rollback |-> b]
  OBVIOUS
<1>7. PICK todo, landed, y : /\ todo = Tail(x.todo) /\ landed = Append(x.landed, r)
                             /\ y = [x EXCEPT !.at = "next", !.todo = todo, !.landed = landed]
  OBVIOUS
<1>8. /\ pointer' = [pointer EXCEPT ![i] = n] /\ flock' = "none" /\ errand' = [errand EXCEPT ![p] = y]
      /\ mislaid' = mislaid \ {<<i, v>>} /\ UNCHANGED <<version, known, asking>>
  <2>1. /\ pointer' = [pointer EXCEPT ![i] = n] /\ flock' = "none"
        /\ mislaid' = mislaid \ {<<i, v>>} /\ UNCHANGED <<version, known, asking>>
    BY <1>1, <1>5, <1>6 DEF Artifacts!WriteActivation, Artifacts!Job, Artifacts!readers, Artifacts!Nothing
  <2>2. errand' = [errand EXCEPT ![p].at = "next", ![p].todo = Tail(@), ![p].landed = Append(@, r)]
    BY <1>5 DEF Artifacts!WriteActivation
  <2>3. errand' = [errand EXCEPT ![p] = y]
    BY <1>1, <1>7, <2>2
  <2>. QED BY <2>1, <2>3
<1>9. todo \in Seq(References) /\ landed \in Seq(References)
  BY <1>2, <1>3, <1>7
<1>10. y \in Errands /\ y.at = "next"
  BY <1>2, <1>7, <1>9 DEF Errands
<1>11. n \in Pointers /\ n.active = v /\ n.rollback \in Names(i)
  BY <1>2, <1>3, <1>4, <1>6 DEF Pointers, Names
<1>12. \A w \in {n.active, n.rollback} : w # 0 /\ <<i, w>> \notin mislaid' => version[i][w].there
  <2>. SUFFICES ASSUME NEW w \in {n.active, n.rollback}, w # 0, <<i, w>> \notin mislaid', w # v
                PROVE  version[i][w].there
    BY <1>2
  <2>1. <<i, w>> \notin mislaid /\ w \in Names(i)
    BY <1>8, <1>11
  <2>. QED BY <1>4, <2>1, NamedIsInstalled
<1>13. \A k \in Ids, w \in Versions : k # i /\ <<k, w>> \in mislaid => <<k, w>> \in mislaid'
  BY <1>8
<1>14. Artifacts!ActivationInstalled' /\ pointer' \in [Ids -> Pointers]
  BY <1>4, <1>8, <1>11, <1>12, <1>13, PointerMoves
<1>15. StoreTyped'
  BY <1>8, <1>10, <1>14 DEF StoreInv, StoreTyped
<1>16. ASSUME NEW q \in Processes PROVE Stage(q)'
  <2>1. CASE q = p
    <3>1. errand'[q].at = "next"
      BY <1>8, <1>10, <2>1 DEF StoreInv, StoreTyped
    <3>. QED BY <3>1 DEF Stage, UnderLock
  <2>2. CASE q # p
    BY <1>2, <1>8, <2>2, OthersRest DEF StoreInv, StoreTyped
  <2>. QED BY <2>1, <2>2
<1>. QED BY <1>8, <1>14, <1>15, <1>16, ReadyFrame DEF StoreInv, Stages

LEMMA UninstallBeginsKeeps ==
    ASSUME StoreInv, NEW p \in Processes, Artifacts!UninstallBegins(p)
    PROVE  StoreInv'
<1>1. PICK x, r, i, v, was, n, y :
          /\ x = errand[p] /\ r = x.landed[Len(x.landed)] /\ i = r.id /\ v = r.v /\ was = pointer[i]
          /\ n = Artifacts!Undone(was, r) /\ y = [x EXCEPT !.at = "removing"]
  OBVIOUS
<1>2. /\ x \in Errands /\ flock = "none" /\ x.landed # <<>>
      /\ flock' = p /\ pointer' = [pointer EXCEPT ![i] = n] /\ errand' = [errand EXCEPT ![p] = y]
      /\ UNCHANGED <<version, known, asking>>
      /\ mislaid' = IF v \in {pointer'[i].active, pointer'[i].rollback} THEN mislaid \cup {<<i, v>>}
                                                                       ELSE mislaid
  BY <1>1 DEF StoreInv, StoreTyped, Artifacts!UninstallBegins, Artifacts!Job, Artifacts!Last,
     Artifacts!Nothing, Artifacts!readers
<1>3. r \in References
  <2>1. x.landed \in Seq(References)
    BY <1>2 DEF Errands
  <2>. QED BY <1>1, <1>2, <2>1
<1>4. i \in Ids /\ v \in Versions
  BY <1>1, <1>3 DEF References
<1>5. was \in Pointers
  BY <1>1, <1>4 DEF StoreInv, StoreTyped
<1>6. n \in Pointers /\ {n.active, n.rollback} \subseteq Names(i) \cup {0}
  BY <1>1, <1>5 DEF Artifacts!Undone, Artifacts!NoVersion, Pointers, Names
<1>7. y \in Errands /\ y.at = "removing" /\ y.landed = x.landed
  BY <1>1, <1>2 DEF Errands, UnderLock
<1>8. \A w \in {n.active, n.rollback} : w # 0 /\ <<i, w>> \notin mislaid' => version[i][w].there
  <2>. SUFFICES ASSUME NEW w \in {n.active, n.rollback}, w # 0, <<i, w>> \notin mislaid'
                PROVE  version[i][w].there
    OBVIOUS
  <2>1. <<i, w>> \notin mislaid /\ w \in Names(i)
    BY <1>2, <1>6
  <2>. QED BY <1>4, <2>1, NamedIsInstalled
<1>9. Artifacts!ActivationInstalled' /\ pointer' \in [Ids -> Pointers]
  BY <1>2, <1>4, <1>6, <1>8, PointerMoves
<1>10. StoreTyped'
  BY <1>2, <1>7, <1>9 DEF StoreInv, StoreTyped
<1>11. ASSUME NEW q \in Processes PROVE Stage(q)'
  <2>1. CASE q = p
    <3>1. errand'[q] = y
      BY <1>2, <2>1 DEF StoreInv, StoreTyped
    <3>2. /\ flock' = p /\ y.landed # <<>> /\ y.landed[Len(y.landed)] = r
          /\ r.v \in {pointer'[r.id].active, pointer'[r.id].rollback} => <<r.id, r.v>> \in mislaid'
      BY <1>1, <1>2, <1>7
    <3>. QED BY <1>7, <2>1, <3>1, <3>2 DEF Stage, Names
  <2>2. CASE q # p
    BY <1>2, <2>2, OthersRest DEF StoreInv, StoreTyped
  <2>. QED BY <2>1, <2>2
<1>. QED BY <1>2, <1>9, <1>10, <1>11, ReadyFrame DEF StoreInv, Stages

LEMMA RollbackKeeps ==
    ASSUME StoreInv, NEW p \in Processes, NEW i \in Ids, Artifacts!Rollback(p, i)
    PROVE  StoreInv'
<1>1. PICK was, n : was = pointer[i] /\ n = [active |-> was.rollback, rollback |-> was.active]
  OBVIOUS
<1>2. flock = "none" /\ pointer' = [pointer EXCEPT ![i] = n]
      /\ UNCHANGED <<version, flock, errand, known, asking, mislaid>>
  BY <1>1 DEF Artifacts!Rollback, Artifacts!Nothing, Artifacts!readers
<1>3. n \in Pointers /\ {n.active, n.rollback} \subseteq Names(i)
  BY <1>1 DEF StoreInv, StoreTyped, Pointers, Names
<1>4. \A w \in {n.active, n.rollback} : w # 0 /\ <<i, w>> \notin mislaid' => version[i][w].there
  BY <1>2, <1>3, NamedIsInstalled
<1>5. Artifacts!ActivationInstalled' /\ pointer' \in [Ids -> Pointers]
  BY <1>2, <1>3, <1>4, PointerMoves
<1>6. ASSUME NEW q \in Processes PROVE Stage(q)'
  <2>1. errand[q].at \notin UnderLock /\ errand'[q] = errand[q]
    BY <1>2, ReferencesAre DEF StoreInv, Stages, Stage
  <2>. QED BY <2>1 DEF Stage, UnderLock
<1>. QED BY <1>2, <1>5, <1>6, ReadyFrame DEF StoreInv, StoreTyped, Stages

(* A version no activation names, but a mislaid one, is taken away.          *)
LEMMA DirectoryGoes ==
    ASSUME StoreInv, NEW i \in Ids, NEW v \in Versions, version' = [version EXCEPT ![i][v] = Artifacts!Absent],
           Artifacts!Restamped(i, v, FALSE), UNCHANGED <<pointer, mislaid>>,
           v \in Names(i) => <<i, v>> \in mislaid
    PROVE  /\ version' \in [Ids -> [Versions -> Directories]] /\ Artifacts!ActivationInstalled' /\ ReadyHeld'
           /\ known' \in [Ids -> Answers] /\ asking' \in [Ids -> Questions]
<1>1. /\ version' \in [Ids -> [Versions -> Directories]]
      /\ \A k \in Ids, w \in Versions : k # i \/ w # v => version'[k][w] = version[k][w]
  <2>1. Artifacts!Absent \in Directories
    BY DEF Directories
  <2>. QED BY <2>1, OneDirectory DEF StoreInv, StoreTyped
<1>2. ReadyHeld' /\ known' \in [Ids -> Answers] /\ asking' \in [Ids -> Questions]
  <2>1. StoreTyped /\ ReadyHeld
    BY DEF StoreInv
  <2>2. PICK c \in BOOLEAN : c = FALSE
    OBVIOUS
  <2>3. Artifacts!Restamped(i, v, c)
    BY <2>2
  <2>4. c /\ Declared[i].v = v /\ Declared[i].declares = NoFile => version'[i][v].comp # NoFile
    BY <2>2
  <2>. QED BY <1>1, <2>1, <2>3, <2>4, RestampKeeps
<1>3. Artifacts!ActivationInstalled'
  <2>. SUFFICES ASSUME NEW k \in Ids, NEW w \in {pointer[k].active, pointer[k].rollback}, w # 0,
                       <<k, w>> \notin mislaid
                PROVE  version'[k][w].there
    BY DEF Artifacts!ActivationInstalled, Artifacts!Present, Artifacts!NoVersion
  <2>1. version[k][w].there /\ w \in Versions
    BY DEF StoreInv, StoreTyped, Artifacts!ActivationInstalled, Artifacts!Present, Artifacts!NoVersion, Pointers
  <2>2. k # i \/ w # v
    BY DEF Names
  <2>. QED BY <1>1, <2>1, <2>2
<1>. QED BY <1>1, <1>2, <1>3

LEMMA UninstallRemovesKeeps ==
    ASSUME StoreInv, NEW p \in Processes, Artifacts!UninstallRemoves(p)
    PROVE  StoreInv'
<1>1. PICK x, r, i, v : x = errand[p] /\ r = x.landed[Len(x.landed)] /\ i = r.id /\ v = r.v
  OBVIOUS
<1>2. /\ x \in Errands /\ x.at = "removing" /\ flock = p /\ x.landed # <<>>
      /\ v \in Names(i) => <<i, v>> \in mislaid
  BY <1>1 DEF StoreInv, StoreTyped, Stages, Stage, Artifacts!UninstallRemoves, Artifacts!Job, Artifacts!Holds,
     UnderLock
<1>3. x.landed \in Seq(References)
  BY <1>2 DEF Errands
<1>4. r \in References
  BY <1>1, <1>2, <1>3
<1>5. i \in Ids /\ v \in Versions
  BY <1>1, <1>4 DEF References
<1>6. PICK landed, y : landed = SubSeq(x.landed, 1, Len(x.landed) - 1)
                       /\ y = [x EXCEPT !.at = "undo", !.landed = landed]
  OBVIOUS
<1>7. /\ version' = [version EXCEPT ![i][v] = Artifacts!Absent] /\ Artifacts!Restamped(i, v, FALSE)
      /\ flock' = "none" /\ UNCHANGED <<pointer, mislaid>>
  BY <1>1 DEF Artifacts!UninstallRemoves, Artifacts!Job, Artifacts!Last, Artifacts!Nothing
<1>8. errand' = [errand EXCEPT ![p] = y]
  <2>1. errand' = [errand EXCEPT ![p].at = "undo", ![p].landed = SubSeq(@, 1, Len(@) - 1)]
    BY DEF Artifacts!UninstallRemoves
  <2>. QED BY <1>1, <1>6, <2>1
<1>9. y \in Errands /\ y.at = "undo"
  <2>1. landed \in Seq(References)
    BY <1>2, <1>3, <1>6
  <2>. QED BY <1>2, <1>6, <2>1 DEF Errands
<1>10. /\ version' \in [Ids -> [Versions -> Directories]] /\ Artifacts!ActivationInstalled' /\ ReadyHeld'
       /\ known' \in [Ids -> Answers] /\ asking' \in [Ids -> Questions]
  BY <1>2, <1>5, <1>7, DirectoryGoes
<1>11. StoreTyped'
  BY <1>7, <1>8, <1>9, <1>10 DEF StoreInv, StoreTyped
<1>12. ASSUME NEW q \in Processes PROVE Stage(q)'
  <2>1. CASE q = p
    <3>1. errand'[q].at = "undo"
      BY <1>8, <1>9, <2>1 DEF StoreInv, StoreTyped
    <3>. QED BY <3>1 DEF Stage, UnderLock
  <2>2. CASE q # p
    BY <1>2, <1>8, <2>2, OthersRest DEF StoreInv, StoreTyped
  <2>. QED BY <2>1, <2>2
<1>. QED BY <1>10, <1>11, <1>12 DEF StoreInv, Stages

(* The quota chooses among the versions no activation names.                 *)
LEMMA EnforceBeginsKeeps ==
    ASSUME StoreInv, NEW p \in Processes, Artifacts!EnforceBegins(p)
    PROVE  StoreInv'
<1>1. PICK E \in Artifacts!Evicted :
          errand' = [errand EXCEPT ![p] = [Artifacts!Idle EXCEPT !.at = "evict", !.evicting = E]]
  BY DEF Artifacts!EnforceBegins
<1>2. E \subseteq Ids \X Versions /\ \A e \in E : e[2] \notin Names(e[1])
  BY <1>1 DEF Artifacts!Evicted, Artifacts!Entries, Artifacts!Protected, Names
<1>3. PICK y : y = [Artifacts!Idle EXCEPT !.at = "evict", !.evicting = E]
  OBVIOUS
<1>4. y \in Errands /\ y.at = "evict" /\ y.evicting = E
  BY <1>2, <1>3, IdleIsErrand DEF Errands, UnderLock
<1>5. /\ flock = "none" /\ flock' = p /\ errand' = [errand EXCEPT ![p] = y]
      /\ UNCHANGED <<version, pointer, mislaid, known, asking>>
  BY <1>1, <1>3 DEF Artifacts!EnforceBegins, Artifacts!Nothing, Artifacts!readers
<1>6. StoreTyped'
  BY <1>4, <1>5 DEF StoreInv, StoreTyped
<1>7. ASSUME NEW q \in Processes PROVE Stage(q)'
  <2>1. CASE q = p
    <3>1. errand'[q] = y
      BY <1>5, <2>1 DEF StoreInv, StoreTyped
    <3>. QED BY <1>2, <1>4, <1>5, <2>1, <3>1 DEF Stage, Names
  <2>2. CASE q # p
    BY <1>5, <2>2, OthersRest DEF StoreInv, StoreTyped
  <2>. QED BY <2>1, <2>2
<1>. QED BY <1>5, <1>6, <1>7, ReadyFrame, ActivationFrame DEF StoreInv, Stages

(* The files of a version change under whoever reads them.                   *)
LEMMA FilesChange ==
    ASSUME StoreInv, NEW i \in Ids, NEW v \in Versions, NEW n \in Directories,
           version[i][v].there => n.there, version' = [version EXCEPT ![i][v] = n],
           UNCHANGED <<pointer, mislaid, errand, flock>>
    PROVE  /\ version' \in [Ids -> [Versions -> Directories]] /\ version'[i][v] = n
           /\ \A k \in Ids, w \in Versions : k # i \/ w # v => version'[k][w] = version[k][w]
           /\ Artifacts!ActivationInstalled' /\ Stages'
<1>1. /\ version' \in [Ids -> [Versions -> Directories]] /\ version'[i][v] = n
      /\ \A k \in Ids, w \in Versions : k # i \/ w # v => version'[k][w] = version[k][w]
  BY OneDirectory DEF StoreInv, StoreTyped
<1>2. \A k \in Ids, w \in Versions : version[k][w].there => version'[k][w].there
  BY <1>1
<1>3. Artifacts!ActivationInstalled'
  <2>. SUFFICES ASSUME NEW k \in Ids, NEW w \in {pointer[k].active, pointer[k].rollback}, w # 0,
                       <<k, w>> \notin mislaid
                PROVE  version'[k][w].there
    BY DEF Artifacts!ActivationInstalled, Artifacts!Present, Artifacts!NoVersion
  <2>1. version[k][w].there /\ w \in Versions
    BY DEF StoreInv, StoreTyped, Artifacts!ActivationInstalled, Artifacts!Present, Artifacts!NoVersion, Pointers
  <2>. QED BY <1>2, <2>1
<1>4. ASSUME NEW q \in Processes PROVE Stage(q)'
  <2>1. errand'[q] = errand[q] /\ flock' = flock /\ pointer' = pointer /\ mislaid' = mislaid /\ Stage(q)
    BY DEF StoreInv, Stages
  <2>2. errand[q].at = "renamed" => version'[errand[q].todo[1].id][errand[q].todo[1].v].there
    <3>. SUFFICES ASSUME errand[q].at = "renamed"
                  PROVE  version'[errand[q].todo[1].id][errand[q].todo[1].v].there
      OBVIOUS
    <3>1. PICK s, r : s = errand[q].todo /\ r = s[1]
      OBVIOUS
    <3>2. s \in Seq(References) /\ s # <<>> /\ version[r.id][r.v].there
      BY <2>1, <3>1 DEF StoreInv, StoreTyped, Errands, Stage
    <3>3. r \in References
      BY <3>1, <3>2
    <3>4. r.id \in Ids /\ r.v \in Versions
      BY <3>3 DEF References
    <3>. QED BY <1>2, <3>1, <3>2, <3>4
  <2>. QED BY <2>1, <2>2 DEF Stage, Names
<1>. QED BY <1>1, <1>3, <1>4 DEF Stages

LEMMA NothingToUnlink == [Artifacts!Absent EXCEPT !.noted = "lost"] = Artifacts!Absent
BY DEF Artifacts!Absent

LEMMA EvictUnlinksKeeps ==
    ASSUME StoreInv, NEW p \in Processes, NEW e \in Ids \X Versions, Artifacts!EvictUnlinks(p, e)
    PROVE  StoreInv'
<1>1. PICK i \in Ids, v \in Versions : e = <<i, v>>
  OBVIOUS
<1>2. PICK d, n : d = version[i][v] /\ n = [d EXCEPT !.noted = "lost"]
  OBVIOUS
<1>3. d \in Directories
  BY <1>1, <1>2 DEF StoreInv, StoreTyped
<1>4. n \in Directories /\ n.there = d.there
      /\ (d.there => n.primary = d.primary /\ n.comp = d.comp /\ n.noted = "lost")
  <2>1. CASE d = Artifacts!Absent
    <3>1. n = d
      BY <1>2, <2>1, NothingToUnlink
    <3>. QED BY <1>3, <2>1, <3>1 DEF Artifacts!Absent
  <2>2. CASE d \in [there : {TRUE}, primary : BOOLEAN, comp : Contents, noted : Contents \cup {"lost"}]
    BY <1>2, <2>2 DEF Directories
  <2>. QED BY <1>3, <2>1, <2>2 DEF Directories
<1>5. /\ version' = [version EXCEPT ![i][v] = n]
      /\ UNCHANGED <<pointer, mislaid, errand, flock, known, asking>>
  BY <1>1, <1>2 DEF Artifacts!EvictUnlinks, Artifacts!readers
<1>6. /\ version' \in [Ids -> [Versions -> Directories]] /\ version'[i][v] = n
      /\ \A k \in Ids, w \in Versions : k # i \/ w # v => version'[k][w] = version[k][w]
      /\ Artifacts!ActivationInstalled' /\ Stages'
  <2>1. version[i][v].there => n.there
    BY <1>2, <1>4
  <2>. QED BY <1>4, <1>5, <2>1, FilesChange
<1>7. ASSUME NEW k \in Ids, Trusted(k) PROVE Trusted(k)'
  <2>1. CASE k # i \/ Declared[k].v # v
    BY <1>6, <1>7, <2>1, ReferencesAre, TrustedElsewhere
  <2>2. CASE k = i /\ Declared[k].v = v
    <3>1. version[k][Declared[k].v] = d /\ version'[k][Declared[k].v] = n
      BY <1>2, <1>6, <2>2
    <3>2. CASE ~n.there
      BY <3>1, <3>2 DEF Trusted, Artifacts!Stampable, Artifacts!Present
    <3>3. CASE n.there
      <4>1. d.there /\ n.primary = d.primary /\ n.comp = d.comp /\ n.noted = "lost"
        BY <1>4, <3>3
      <4>. QED BY <1>7, <3>1, <3>3, <4>1 DEF Trusted, Artifacts!Stampable, Artifacts!Resolves,
                  Artifacts!Present, Artifacts!PrimaryMatches, Artifacts!RecordedMatches,
                  Artifacts!DeclaredMatches
    <3>. QED BY <3>2, <3>3
  <2>. QED BY <2>1, <2>2
<1>8. ReadyHeld'
  BY <1>5, <1>7 DEF StoreInv, ReadyHeld
<1>. QED BY <1>5, <1>6, <1>8 DEF StoreInv, StoreTyped

LEMMA EvictRemovesKeeps ==
    ASSUME StoreInv, NEW p \in Processes, NEW e \in Ids \X Versions, Artifacts!EvictRemoves(p, e)
    PROVE  StoreInv'
<1>1. PICK i \in Ids, v \in Versions : e = <<i, v>>
  OBVIOUS
<1>2. PICK x, E, y : x = errand[p] /\ E = x.evicting \ {e} /\ y = [x EXCEPT !.evicting = E]
  OBVIOUS
<1>3. /\ x \in Errands /\ x.at = "evict" /\ flock = p /\ v \notin Names(i)
      /\ \A f \in E : f[2] \notin Names(f[1])
  BY <1>1, <1>2 DEF StoreInv, StoreTyped, Stages, Stage, Artifacts!EvictRemoves, Artifacts!Job, Artifacts!Holds
<1>4. /\ version' = [version EXCEPT ![i][v] = Artifacts!Absent] /\ Artifacts!Restamped(i, v, FALSE)
      /\ UNCHANGED <<pointer, mislaid, flock>> /\ errand' = [errand EXCEPT ![p] = y]
  <2>1. errand' = [errand EXCEPT ![p].evicting = @ \ {e}]
    BY DEF Artifacts!EvictRemoves
  <2>2. errand' = [errand EXCEPT ![p] = y]
    BY <1>2, <2>1
  <2>. QED BY <1>1, <2>2 DEF Artifacts!EvictRemoves
<1>5. y \in Errands /\ y.at = "evict" /\ y.evicting = E
  BY <1>2, <1>3 DEF Errands
<1>6. /\ version' \in [Ids -> [Versions -> Directories]] /\ Artifacts!ActivationInstalled' /\ ReadyHeld'
      /\ known' \in [Ids -> Answers] /\ asking' \in [Ids -> Questions]
  BY <1>3, <1>4, DirectoryGoes
<1>7. StoreTyped'
  BY <1>4, <1>5, <1>6 DEF StoreInv, StoreTyped
<1>8. ASSUME NEW q \in Processes PROVE Stage(q)'
  <2>1. CASE q = p
    <3>1. errand'[q] = y
      BY <1>4, <2>1 DEF StoreInv, StoreTyped
    <3>. QED BY <1>3, <1>4, <1>5, <2>1, <3>1 DEF Stage, Names
  <2>2. CASE q # p
    BY <1>3, <1>4, <2>2, OthersRest DEF StoreInv, StoreTyped
  <2>. QED BY <2>1, <2>2
<1>. QED BY <1>6, <1>7, <1>8 DEF StoreInv, Stages

LEMMA ReplacedKeeps ==
    ASSUME StoreInv, NEW i \in Ids, NEW v \in Versions, NEW n \in Directories, NEW c \in BOOLEAN,
           n.there, version' = [version EXCEPT ![i][v] = n], Artifacts!Restamped(i, v, c),
           c => n.comp # NoFile, UNCHANGED <<pointer, mislaid, errand, flock>>
    PROVE  StoreInv'
<1>1. /\ version' \in [Ids -> [Versions -> Directories]] /\ version'[i][v] = n
      /\ \A k \in Ids, w \in Versions : k # i \/ w # v => version'[k][w] = version[k][w]
      /\ Artifacts!ActivationInstalled' /\ Stages'
  BY FilesChange
<1>2. ReadyHeld' /\ known' \in [Ids -> Answers] /\ asking' \in [Ids -> Questions]
  BY <1>1, RestampKeeps DEF StoreInv
<1>. QED BY <1>1, <1>2 DEF StoreInv, StoreTyped

LEMMA PrimaryReplacedKeeps ==
    ASSUME StoreInv, NEW i \in Ids, NEW v \in Versions, Artifacts!PrimaryReplaced(i, v)
    PROVE  StoreInv'
<1>1. PICK d, n : d = version[i][v] /\ n = [d EXCEPT !.primary = FALSE]
  OBVIOUS
<1>2. d \in Directories /\ d.there
  BY <1>1 DEF StoreInv, StoreTyped, Artifacts!PrimaryReplaced, Artifacts!Present
<1>3. n \in Directories /\ n.there
  BY <1>1, <1>2 DEF Directories, Artifacts!Absent
<1>4. /\ version' = [version EXCEPT ![i][v] = n] /\ Artifacts!Restamped(i, v, FALSE)
      /\ UNCHANGED <<pointer, mislaid, errand, flock>>
  BY <1>1 DEF Artifacts!PrimaryReplaced
<1>. QED BY <1>3, <1>4, ReplacedKeeps

LEMMA CompanionReplacedKeeps ==
    ASSUME StoreInv, NEW i \in Ids, NEW v \in Versions, NEW b \in Bytes, Artifacts!CompanionReplaced(i, v, b)
    PROVE  StoreInv'
<1>1. PICK d, n : d = version[i][v] /\ n = [d EXCEPT !.comp = b]
  OBVIOUS
<1>2. d \in Directories /\ d.there
  BY <1>1 DEF StoreInv, StoreTyped, Artifacts!CompanionReplaced, Artifacts!Present
<1>3. n \in Directories /\ n.there /\ n.comp = b
  <2>1. d \in [there : {TRUE}, primary : BOOLEAN, comp : Contents, noted : Contents \cup {"lost"}]
    BY <1>2, HeldAre
  <2>2. b \in Contents
    BY DEF Contents
  <2>. QED BY <1>1, <2>1, <2>2 DEF Directories
<1>4. /\ version' = [version EXCEPT ![i][v] = n] /\ Artifacts!Restamped(i, v, TRUE)
      /\ UNCHANGED <<pointer, mislaid, errand, flock>> /\ b # NoFile
  BY <1>1, ReferencesAre DEF Artifacts!CompanionReplaced, NoFile
<1>. QED BY <1>3, <1>4, ReplacedKeeps

-----------------------------------------------------------------------------
(* The service's questions.                                                  *)

LEMMA QuestionKeeps ==
    ASSUME StoreInv, NEW i \in Asked, Artifacts!Ask(i) \/ Artifacts!Resolve(i) \/ Artifacts!Answer(i)
    PROVE  StoreInv'
<1>1. i \in Ids
  BY ReferencesAre
<1>2. UNCHANGED <<version, pointer, mislaid, errand, flock>>
  BY DEF Artifacts!Ask, Artifacts!Resolve, Artifacts!Answer, Artifacts!disk
<1>3. known[i] \in Answers /\ asking[i] \in Questions
  BY <1>1 DEF StoreInv, StoreTyped
<1>4. PICK a \in Answers, b \in Questions :
          /\ known' = [known EXCEPT ![i] = a] /\ asking' = [asking EXCEPT ![i] = b]
          /\ a.held /\ a.fresh /\ a.ready => Trusted(i)
          /\ b.held /\ b.fresh /\ b.read = "ready" => Trusted(i)
  <2>1. /\ known[i].held /\ known[i].fresh /\ known[i].ready => Trusted(i)
        /\ asking[i].held /\ asking[i].fresh /\ asking[i].read = "ready" => Trusted(i)
        /\ known = [known EXCEPT ![i] = known[i]] /\ asking = [asking EXCEPT ![i] = asking[i]]
    BY <1>1 DEF StoreInv, StoreTyped, ReadyHeld
  <2>2. /\ Artifacts!Unknown \in Answers /\ Artifacts!Unknown \in Questions /\ ~Artifacts!Unknown.held
    BY DEF Artifacts!Unknown, Answers, Questions
  <2>3. CASE Artifacts!Ask(i)
    <3>1. PICK b : b = [held |-> TRUE, fresh |-> TRUE, read |-> "unread"]
      OBVIOUS
    <3>2. b \in Questions /\ b.read # "ready"
      BY <3>1 DEF Questions
    <3>3. \/ asking' = [asking EXCEPT ![i] = b] /\ UNCHANGED known
          \/ known' = [known EXCEPT ![i] = Artifacts!Unknown] /\ UNCHANGED asking
      BY <2>3, <3>1 DEF Artifacts!Ask
    <3>4. CASE asking' = [asking EXCEPT ![i] = b] /\ UNCHANGED known
      BY <1>3, <2>1, <3>2, <3>4
    <3>5. CASE known' = [known EXCEPT ![i] = Artifacts!Unknown] /\ UNCHANGED asking
      BY <1>3, <2>1, <2>2, <3>5
    <3>. QED BY <3>3, <3>4, <3>5
  <2>4. CASE Artifacts!Resolve(i)
    <3>1. PICK o, b : /\ o = IF Artifacts!Resolves(i, Declared[i]) THEN "ready" ELSE "refused"
                      /\ b = [asking[i] EXCEPT !.read = o]
      OBVIOUS
    <3>2. asking' = [asking EXCEPT ![i] = b] /\ UNCHANGED known /\ asking[i].held
      BY <2>4, <3>1 DEF Artifacts!Resolve
    <3>3. b \in Questions /\ b.read = o
      <4>1. o \in {"unread", "ready", "refused"}
        BY <3>1
      <4>2. asking[i] \in [held : {TRUE}, fresh : BOOLEAN, read : {"unread", "ready", "refused"}]
        BY <1>3, <3>2, HeldAre
      <4>. QED BY <3>1, <4>1, <4>2 DEF Questions
    <3>4. b.read = "ready" => Trusted(i)
      BY <3>1, <3>3 DEF Trusted
    <3>. QED BY <1>3, <2>1, <3>2, <3>3, <3>4
  <2>5. CASE Artifacts!Answer(i)
    <3>1. PICK o, a : /\ o = (asking[i].read = "ready")
                      /\ a = [held |-> TRUE, fresh |-> asking[i].fresh, ready |-> o]
      OBVIOUS
    <3>2. /\ known' = [known EXCEPT ![i] = a] /\ asking' = [asking EXCEPT ![i] = Artifacts!Unknown]
          /\ asking[i].held
      BY <2>5, <3>1 DEF Artifacts!Answer, Artifacts!Resolved
    <3>3. asking[i].fresh \in BOOLEAN
      <4>1. asking[i] \in [held : {TRUE}, fresh : BOOLEAN, read : {"unread", "ready", "refused"}]
        BY <1>3, <3>2, HeldAre
      <4>. QED BY <4>1
    <3>4. a \in Answers
      BY <3>1, <3>3 DEF Answers
    <3>5. a.held /\ a.fresh /\ a.ready => Trusted(i)
      BY <2>1, <3>1, <3>2
    <3>. QED BY <2>2, <3>2, <3>4, <3>5
  <2>. QED BY <2>3, <2>4, <2>5
<1>5. /\ known' \in [Ids -> Answers] /\ asking' \in [Ids -> Questions]
      /\ \A k \in Ids : IF k = i THEN known'[k] = a /\ asking'[k] = b
                         ELSE known'[k] = known[k] /\ asking'[k] = asking[k]
  BY <1>1, <1>4 DEF StoreInv, StoreTyped
<1>6. \A k \in Ids : Trusted(k)' <=> Trusted(k)
  BY <1>2, TrustedElsewhere
<1>7. ReadyHeld'
  BY <1>1, <1>4, <1>5, <1>6 DEF StoreInv, ReadyHeld
<1>8. Stages'
  BY <1>2, OthersStay DEF StoreInv, Stages
<1>. QED BY <1>2, <1>5, <1>7, <1>8, ActivationFrame DEF StoreInv, StoreTyped

LEMMA StoreStutters ==
    ASSUME StoreInv, UNCHANGED Artifacts!artifactVars
    PROVE  StoreInv'
<1>1. UNCHANGED <<version, pointer, mislaid, errand, flock, known, asking>>
  BY DEF Artifacts!artifactVars, Artifacts!disk, Artifacts!readers
<1>. QED BY <1>1, OthersStay, ActivationFrame, ReadyFrame DEF StoreInv, StoreTyped, Stages

LEMMA StoreStep ==
    ASSUME StoreInv, Artifacts!Next
    PROVE  StoreInv'
<1>1. ASSUME NEW p \in Processes,
             \/ \E plan \in Artifacts!Plans : Artifacts!Command(p, plan)
             \/ Artifacts!ProducerExports(p) \/ \E passed \in BOOLEAN : Artifacts!ProducerGate(p, passed)
             \/ Artifacts!InstallBegins(p) \/ Artifacts!InstallRefused(p) \/ Artifacts!ActivateVersion(p)
             \/ Artifacts!WriteActivation(p) \/ Artifacts!ActivationFails(p) \/ Artifacts!Publish(p)
             \/ Artifacts!PublishFails(p) \/ Artifacts!UninstallBegins(p) \/ Artifacts!UninstallRemoves(p)
             \/ Artifacts!UndoDone(p) \/ \E i \in Ids : Artifacts!Rollback(p, i)
             \/ Artifacts!EnforceBegins(p) \/ Artifacts!EnforceDone(p) \/ Artifacts!Killed(p)
             \/ \E e \in Ids \X Versions : Artifacts!EvictUnlinks(p, e) \/ Artifacts!EvictRemoves(p, e)
      PROVE  StoreInv'
  <2>1. CASE \E plan \in Artifacts!Plans : Artifacts!Command(p, plan)
    BY <2>1, CommandKeeps
  <2>2. CASE \/ Artifacts!ProducerExports(p) \/ \E passed \in BOOLEAN : Artifacts!ProducerGate(p, passed)
             \/ Artifacts!InstallRefused(p) \/ Artifacts!ActivationFails(p) \/ Artifacts!Publish(p)
             \/ Artifacts!PublishFails(p) \/ Artifacts!UndoDone(p) \/ Artifacts!EnforceDone(p)
             \/ Artifacts!Killed(p)
    BY <2>2, QuietStep
  <2>3. CASE Artifacts!InstallBegins(p) \/ Artifacts!ActivateVersion(p) \/ Artifacts!WriteActivation(p)
    BY <2>3, InstallBeginsKeeps, ActivateVersionKeeps, WriteActivationKeeps
  <2>4. CASE \/ Artifacts!UninstallBegins(p) \/ Artifacts!UninstallRemoves(p)
             \/ \E i \in Ids : Artifacts!Rollback(p, i)
    BY <2>4, UninstallBeginsKeeps, UninstallRemovesKeeps, RollbackKeeps
  <2>5. CASE \/ Artifacts!EnforceBegins(p)
             \/ \E e \in Ids \X Versions : Artifacts!EvictUnlinks(p, e) \/ Artifacts!EvictRemoves(p, e)
    BY <2>5, EnforceBeginsKeeps, EvictUnlinksKeeps, EvictRemovesKeeps
  <2>. QED BY <1>1, <2>1, <2>2, <2>3, <2>4, <2>5
<1>2. ASSUME NEW i \in Ids, NEW v \in Versions,
             Artifacts!PrimaryReplaced(i, v) \/ \E b \in Bytes : Artifacts!CompanionReplaced(i, v, b)
      PROVE  StoreInv'
  BY <1>2, PrimaryReplacedKeeps, CompanionReplacedKeeps
<1>3. ASSUME NEW i \in Asked, Artifacts!Ask(i) \/ Artifacts!Resolve(i) \/ Artifacts!Answer(i)
      PROVE  StoreInv'
  BY <1>3, QuestionKeeps
<1>. QED BY <1>1, <1>2, <1>3 DEF Artifacts!Next

(* Whatever is killed and whenever, an activation names only installed       *)
(* versions (but those an uninstall did not recognise), and a remembered     *)
(* "ready" whose stamp still matches is what resolving would answer now:     *)
(* ArtifactInstaller under its flock, ArtifactCache.enforce, the service's   *)
(* cached_resolution reading without it.                                     *)
THEOREM StoreIsHonest == Artifacts!Spec => []StoreSound
<1>1. StoreInv /\ [Artifacts!Next]_Artifacts!artifactVars => StoreInv'
  BY StoreStep, StoreStutters
<1>2. StoreInv => StoreSound
  <2>. SUFFICES ASSUME StoreInv PROVE Artifacts!ActivationInstalled /\ Artifacts!ReadyIsTrue
    BY DEF StoreSound, Artifacts!StoreSound
  <2>1. Artifacts!ReadyIsTrue
    BY DEF StoreInv, ReadyHeld, Trusted, Artifacts!ReadyIsTrue, Artifacts!Nothing, NoFile
  <2>. QED BY <2>1 DEF StoreInv
<1>. QED BY StoreStarts, <1>1, <1>2, PTL DEF Artifacts!Spec

=============================================================================
