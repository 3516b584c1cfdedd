--------------------------- MODULE SchedulerProofs ---------------------------
(* Scheduler for every set of jobs, backends and profiles, every queue bound *)
(* and set of weights.                                                       *)
(*                                                                           *)
(* The argument follows each job: it is in one queue, in one place of it, or *)
(* awaited by one worker, or unwinding, and never in two of these.  Every    *)
(* path that takes it out of all of them settles its future and gives back   *)
(* its count.                                                                *)
EXTENDS Scheduler, StrideQueueProofs, FiniteSetTheorems

(* A worker awaits a job exactly while it executes.                          *)
WorkersServe == \A l \in Lanes : worker[l] = "executing" <=> serving[l] # NoJob

(* Only a running service has workers, and only for the backends it has.     *)
WorkersBelong ==
    \A l \in Lanes : worker[l] # "none" => l \in lanes /\ phase = "running"

(* Items of a lane's queue, by profile.                                      *)
Items(l, p) == queue[l].items[p]

(* A queued job is in one place of one queue, under its own profile.         *)
QueuedOnce ==
    /\ \A l \in Lanes, p \in Profiles : \A i \in DOMAIN Items(l, p) : ProfileOf[Items(l, p)[i]] = p
    /\ \A l, m \in Lanes, p, q \in Profiles :
           \A i \in DOMAIN Items(l, p), k \in DOMAIN Items(m, q) :
               Items(l, p)[i] = Items(m, q)[k] => l = m /\ p = q /\ i = k

(* A queued job is not executing, and a job that executes is awaited by one  *)
(* worker or unwinds.                                                        *)
ServedOnce ==
    /\ \A j \in Jobs : Executing(j) =>
           \A l \in Lanes, p \in Profiles : \A i \in DOMAIN Items(l, p) : Items(l, p)[i] # j
    /\ \A l, m \in Lanes : serving[l] = serving[m] /\ serving[l] # NoJob => l = m
    /\ \A l \in Lanes : serving[l] \notin retiring

(* A job that was never submitted is nowhere.                                *)
NewIsNowhere ==
    \A j \in Jobs : future[j] = "none" =>
        /\ ~Executing(j)
        /\ \A l \in Lanes, p \in Profiles : \A i \in DOMAIN Items(l, p) : Items(l, p)[i] # j

QueuesFinite == \A l \in Lanes : IsFiniteSet(Cells(queue[l]))

SchedulerInv ==
    /\ TypeOK /\ QueuesFinite /\ WorkersServe /\ WorkersBelong /\ QueuedOnce /\ ServedOnce
    /\ NewIsNowhere /\ NoOrphanFuture /\ NoMissedWakeup /\ RunningIsTrue /\ EvidenceIsCurrent

-----------------------------------------------------------------------------
(* The places of a queue                                                     *)

LEMMA EmptyFacts ==
    /\ EmptyQueue(Profiles) \in Queues(Profiles, Jobs)
    /\ \A p \in Profiles : EmptyQueue(Profiles).items[p] = <<>>
    /\ Present(EmptyQueue(Profiles)) = {}
    /\ Cells(EmptyQueue(Profiles)) = {} /\ IsFiniteSet(Cells(EmptyQueue(Profiles)))
    /\ Depth(EmptyQueue(Profiles)) <= MaxDepth
<1>1. EmptyQueue(Profiles) \in Queues(Profiles, Jobs)
  BY EmptyQueueType
<1>2. /\ DOMAIN EmptyQueue(Profiles).items = Profiles
      /\ \A p \in Profiles : EmptyQueue(Profiles).items[p] = <<>>
  BY DEF EmptyQueue
<1>3. Present(EmptyQueue(Profiles)) = {}
  BY <1>2 DEF Present
<1>4. Cells(EmptyQueue(Profiles)) = {}
  <2>1. DOMAIN <<>> = {}
    OBVIOUS
  <2>. QED BY <1>2, <2>1 DEF Cells
<1>. QED BY <1>1, <1>2, <1>3, <1>4, FS_EmptySet, MaxDepthAssumption DEF Depth

LEMMA CellIs ==
    ASSUME NEW q \in Queues(Profiles, Jobs), NEW c
    PROVE  c \in Cells(q) <=> \E p \in Profiles : \E i \in 1..Len(q.items[p]) : c = <<p, i>>
<1>1. DOMAIN q.items = Profiles /\ \A p \in Profiles : q.items[p] \in Seq(Jobs)
  BY DEF Queues
<1>2. \A p \in Profiles : DOMAIN q.items[p] = 1..Len(q.items[p])
  BY <1>1
<1>. QED BY <1>1, <1>2 DEF Cells

(* A push adds one place.                                                    *)
LEMMA PushCells ==
    ASSUME NEW q \in Queues(Profiles, Jobs), NEW k \in Profiles, NEW x \in Jobs,
           IsFiniteSet(Cells(q))
    PROVE  IsFiniteSet(Cells(Push(q, k, x))) /\ Depth(Push(q, k, x)) = Depth(q) + 1
<1>. DEFINE r == Push(q, k, x)
            n == Len(q.items[k])
<1>1. r \in Queues(Profiles, Jobs) /\ r.items = [q.items EXCEPT ![k] = Append(q.items[k], x)]
  BY PushType, PushItems
<1>2. q.items \in [Profiles -> Seq(Jobs)] /\ q.items[k] \in Seq(Jobs) /\ n \in Nat
  BY DEF Queues
<1>3. /\ Len(r.items[k]) = n + 1
      /\ \A p \in Profiles : p # k => Len(r.items[p]) = Len(q.items[p])
  BY <1>1, <1>2
<1>4. \A i : i \in 1..(n + 1) <=> i \in 1..n \/ i = n + 1
  BY <1>2
<1>. HIDE DEF r, n
<1>5. ASSUME NEW c PROVE c \in Cells(r) <=> c \in Cells(q) \cup {<<k, n + 1>>}
  <2>1. c \in Cells(r) <=> \E p \in Profiles : \E i \in 1..Len(r.items[p]) : c = <<p, i>>
    <3>1. r \in Queues(Profiles, Jobs)
      BY <1>1
    <3>. QED BY <3>1, CellIs
  <2>2. c \in Cells(q) <=> \E p \in Profiles : \E i \in 1..Len(q.items[p]) : c = <<p, i>>
    BY CellIs
  <2>3. ASSUME NEW p \in Profiles, NEW i \in 1..Len(r.items[p]), c = <<p, i>>
        PROVE  c \in Cells(q) \cup {<<k, n + 1>>}
    BY <2>2, <2>3, <1>3, <1>4 DEF n
  <2>4. ASSUME NEW p \in Profiles, NEW i \in 1..Len(q.items[p]), c = <<p, i>>
        PROVE  c \in Cells(r)
    BY <2>1, <2>4, <1>3, <1>4 DEF n
  <2>5. <<k, n + 1>> \in Cells(r)
    BY <1>1, <1>2, <1>3, <1>4, CellIs
  <2>. QED BY <2>1, <2>2, <2>3, <2>4, <2>5
<1>6. Cells(r) = Cells(q) \cup {<<k, n + 1>>}
  BY <1>5
<1>7. <<k, n + 1>> \notin Cells(q)
  <2>. SUFFICES ASSUME NEW p \in Profiles, NEW i \in 1..Len(q.items[p]), <<k, n + 1>> = <<p, i>>
                PROVE  FALSE
    BY CellIs
  <2>1. p = k /\ i = n + 1 /\ i \in 1..n
    BY DEF n
  <2>. QED BY <2>1, <1>2
<1>8. Cardinality(Cells(r)) = Cardinality(Cells(q)) + 1 /\ IsFiniteSet(Cells(r))
  BY <1>6, <1>7, FS_AddElement
<1>. QED BY <1>8 DEF Depth, r

(* A pop leaves no new place.                                                *)
LEMMA PoppedCells ==
    ASSUME NEW q \in Queues(Profiles, Jobs), NEW A, NEW k \in Present(q), NEW w \in Int,
           IsFiniteSet(Cells(q))
    PROVE  /\ IsFiniteSet(Cells(Popped(q, A, k, w)))
           /\ Depth(Popped(q, A, k, w)) \in Nat /\ Depth(q) \in Nat
           /\ Depth(Popped(q, A, k, w)) <= Depth(q)
<1>. DEFINE r == Popped(q, A, k, w)
<1>1. r \in Queues(Profiles, Jobs) /\ r.items = [q.items EXCEPT ![k] = Tail(q.items[k])]
  BY PoppedType, PoppedItems
<1>2. q.items \in [Profiles -> Seq(Jobs)] /\ k \in Profiles /\ q.items[k] # <<>>
  BY DEF Queues, Present
<1>. HIDE DEF r
<1>3. \A p \in Profiles : 1..Len(r.items[p]) \subseteq 1..Len(q.items[p])
  <2>1. Len(Tail(q.items[k])) = Len(q.items[k]) - 1 /\ Len(q.items[k]) \in Nat
    BY <1>2
  <2>2. r.items[k] = Tail(q.items[k]) /\ \A p \in Profiles : p # k => r.items[p] = q.items[p]
    BY <1>1, <1>2
  <2>. DEFINE n == Len(q.items[k])
  <2>3. n \in Nat /\ Len(r.items[k]) = n - 1
    BY <2>1, <2>2
  <2>4. 1..(n - 1) \subseteq 1..n
    <3>. HIDE DEF n
    <3>. QED BY <2>3
  <2>. QED BY <2>2, <2>3, <2>4
<1>4. Cells(r) \subseteq Cells(q)
  <2>. SUFFICES ASSUME NEW c \in Cells(r) PROVE c \in Cells(q)
    OBVIOUS
  <2>1. PICK p \in Profiles : \E i \in 1..Len(r.items[p]) : c = <<p, i>>
    <3>1. r \in Queues(Profiles, Jobs)
      BY <1>1
    <3>. QED BY <3>1, CellIs
  <2>. QED BY <2>1, <1>3, CellIs
<1>5. /\ IsFiniteSet(Cells(r)) /\ Cardinality(Cells(r)) <= Cardinality(Cells(q))
      /\ Cardinality(Cells(r)) \in Nat /\ Cardinality(Cells(q)) \in Nat
  BY <1>4, FS_Subset, FS_CardinalityType
<1>. QED BY <1>5 DEF Depth, r

(* What is queued is what some place holds, before and after a step.         *)
LEMMA QueuedIs ==
    ASSUME NEW l, NEW j
    PROVE  /\ (j \in QueuedOn(l)) <=>
                  \E p \in Profiles : \E i \in DOMAIN Items(l, p) : Items(l, p)[i] = j
           /\ (j \in QueuedOn(l))' <=>
                  \E p \in Profiles : \E i \in DOMAIN Items(l, p)' : Items(l, p)'[i] = j
<1>1. (j \in QueuedOn(l)) <=>
          \E p \in Profiles : \E i \in DOMAIN queue[l].items[p] : queue[l].items[p][i] = j
  BY DEF QueuedOn, Range
<1>2. (j \in QueuedOn(l))' <=>
          \E p \in Profiles : \E i \in DOMAIN queue'[l].items[p] : queue'[l].items[p][i] = j
  BY DEF QueuedOn, Range
<1>. QED BY <1>1, <1>2 DEF Items

LEMMA ItemsType ==
    ASSUME TypeOK, NEW l \in Lanes, NEW p \in Profiles
    PROVE  /\ Items(l, p) \in Seq(Jobs) /\ Len(Items(l, p)) \in Nat
           /\ DOMAIN Items(l, p) = 1..Len(Items(l, p))
           /\ \A i \in DOMAIN Items(l, p) : Items(l, p)[i] \in Jobs
<1>1. queue[l].items[p] \in Seq(Jobs)
  BY DEF TypeOK, Queues
<1>2. Items(l, p) \in Seq(Jobs)
  BY <1>1 DEF Items
<1>. QED BY <1>2

(* When a step leaves of each profile's items everything, all but the first  *)
(* or nothing, each job it leaves is where it was, and in one place.         *)
LEMMA QueueShrinks ==
    ASSUME TypeOK, QueuedOnce,
           \A l \in Lanes, p \in Profiles :
               \/ Items(l, p)' = Items(l, p)
               \/ Items(l, p)' = <<>>
               \/ Items(l, p) # <<>> /\ Items(l, p)' = Tail(Items(l, p))
    PROVE  /\ QueuedOnce'
           /\ \A l \in Lanes, p \in Profiles : \A i \in DOMAIN Items(l, p)' :
                  \E k \in DOMAIN Items(l, p) : Items(l, p)'[i] = Items(l, p)[k]
<1>. DEFINE Moved(l, p, d) == \A i \in DOMAIN Items(l, p)' :
                                  /\ i \in Nat
                                  /\ i + d \in DOMAIN Items(l, p)
                                  /\ Items(l, p)'[i] = Items(l, p)[i + d]
<1>1. ASSUME NEW l \in Lanes, NEW p \in Profiles PROVE \E d \in {0, 1} : Moved(l, p, d)
  <2>1. /\ Items(l, p) \in Seq(Jobs) /\ Len(Items(l, p)) \in Nat
        /\ DOMAIN Items(l, p) = 1..Len(Items(l, p))
    BY ItemsType
  <2>2. CASE Items(l, p)' = Items(l, p)
    <3>1. Moved(l, p, 0)
      BY <2>1, <2>2
    <3>. QED BY <3>1
  <2>3. CASE Items(l, p)' = <<>>
    <3>1. DOMAIN Items(l, p)' = {}
      BY <2>3
    <3>2. Moved(l, p, 0)
      BY <3>1
    <3>. QED BY <3>2
  <2>4. CASE Items(l, p) # <<>> /\ Items(l, p)' = Tail(Items(l, p))
    <3>. DEFINE s == Items(l, p)
    <3>1. s \in Seq(Jobs) /\ s # <<>>
      BY <2>1, <2>4
    <3>. HIDE DEF s
    <3>2. /\ DOMAIN Tail(s) = 1..(Len(s) - 1) /\ Len(s) \in Nat
          /\ \A i \in 1..(Len(s) - 1) : Tail(s)[i] = s[i + 1] /\ i + 1 \in 1..Len(s) /\ i \in Nat
      BY <3>1
    <3>3. Moved(l, p, 1)
      BY <2>1, <2>4, <3>2 DEF s
    <3>. QED BY <3>3
  <2>. QED BY <2>2, <2>3, <2>4
<1>2. ASSUME NEW l \in Lanes, NEW p \in Profiles, NEW i \in DOMAIN Items(l, p)'
      PROVE  \E k \in DOMAIN Items(l, p) : Items(l, p)'[i] = Items(l, p)[k]
  <2>1. PICK d \in {0, 1} : Moved(l, p, d)
    BY <1>1
  <2>. QED BY <2>1
<1>3. ASSUME NEW l \in Lanes, NEW p \in Profiles, NEW i \in DOMAIN Items(l, p)'
      PROVE  ProfileOf[Items(l, p)'[i]] = p
  BY <1>2 DEF QueuedOnce
<1>4. ASSUME NEW l \in Lanes, NEW m \in Lanes, NEW p \in Profiles, NEW q \in Profiles,
             NEW i \in DOMAIN Items(l, p)', NEW k \in DOMAIN Items(m, q)',
             Items(l, p)'[i] = Items(m, q)'[k]
      PROVE  l = m /\ p = q /\ i = k
  <2>1. l = m /\ p = q
    <3>1. PICK a \in DOMAIN Items(l, p) : Items(l, p)'[i] = Items(l, p)[a]
      BY <1>2
    <3>2. PICK b \in DOMAIN Items(m, q) : Items(m, q)'[k] = Items(m, q)[b]
      BY <1>2
    <3>3. Items(l, p)[a] = Items(m, q)[b]
      BY <3>1, <3>2, <1>4
    <3>. QED BY <3>3 DEF QueuedOnce
  <2>2. PICK d \in {0, 1} : Moved(l, p, d)
    BY <1>1
  <2>3. /\ i \in Nat /\ k \in Nat /\ d \in Nat
        /\ i + d \in DOMAIN Items(l, p) /\ k + d \in DOMAIN Items(l, p)
        /\ Items(l, p)[i + d] = Items(l, p)[k + d]
    BY <1>4, <2>1, <2>2
  <2>4. i + d = k + d
    BY <2>3 DEF QueuedOnce
  <2>. QED BY <2>1, <2>3, <2>4
<1>5. QueuedOnce'
  BY <1>3, <1>4 DEF QueuedOnce
<1>. QED BY <1>2, <1>5

(* Counting                                                                  *)

LEMMA CountKept ==
    ASSUME RunningIsTrue, UNCHANGED running, \A j \in Jobs : Executing(j)' <=> Executing(j)
    PROVE  RunningIsTrue'
<1>1. ASSUME NEW p \in Profiles
      PROVE  {j \in Jobs : ProfileOf[j] = p /\ Executing(j)'}
             = {j \in Jobs : ProfileOf[j] = p /\ Executing(j)}
  OBVIOUS
<1>. QED BY <1>1 DEF RunningIsTrue

LEMMA CountUp ==
    ASSUME TypeOK, RunningIsTrue, NEW j \in Jobs, ~Executing(j),
           running' = [running EXCEPT ![ProfileOf[j]] = @ + 1],
           \A k \in Jobs : Executing(k)' <=> Executing(k) \/ k = j
    PROVE  RunningIsTrue'
<1>1. ASSUME NEW p \in Profiles
      PROVE  running'[p] = Cardinality({k \in Jobs : ProfileOf[k] = p /\ Executing(k)'})
  <2>. DEFINE S == {k \in Jobs : ProfileOf[k] = p /\ Executing(k)}
              T == {k \in Jobs : ProfileOf[k] = p /\ Executing(k)'}
  <2>1. running[p] = Cardinality(S)
    BY DEF RunningIsTrue
  <2>2. IsFiniteSet(S)
    BY JobsAssumption, FS_Subset
  <2>3. CASE p = ProfileOf[j]
    <3>1. T = S \cup {j} /\ j \notin S
      BY <2>3
    <3>2. Cardinality(T) = Cardinality(S) + 1
      BY <2>2, <3>1, FS_AddElement
    <3>3. running'[p] = running[p] + 1
      BY <2>3 DEF TypeOK
    <3>. QED BY <2>1, <3>2, <3>3
  <2>4. CASE p # ProfileOf[j]
    <3>1. T = S
      BY <2>4
    <3>. QED BY <2>1, <2>4, <3>1 DEF TypeOK
  <2>. QED BY <2>3, <2>4
<1>. QED BY <1>1 DEF RunningIsTrue

LEMMA CountDown ==
    ASSUME TypeOK, RunningIsTrue, NEW j \in Jobs, Executing(j), JobFinished(ProfileOf[j]),
           \A k \in Jobs : Executing(k)' <=> Executing(k) /\ k # j
    PROVE  RunningIsTrue'
<1>1. ASSUME NEW p \in Profiles
      PROVE  running'[p] = Cardinality({k \in Jobs : ProfileOf[k] = p /\ Executing(k)'})
  <2>. DEFINE S == {k \in Jobs : ProfileOf[k] = p /\ Executing(k)}
              T == {k \in Jobs : ProfileOf[k] = p /\ Executing(k)'}
  <2>1. running[p] = Cardinality(S)
    BY DEF RunningIsTrue
  <2>2. IsFiniteSet(S)
    BY JobsAssumption, FS_Subset
  <2>3. CASE p = ProfileOf[j]
    <3>1. T = S \ {j} /\ j \in S
      BY <2>3
    <3>2. Cardinality(T) = Cardinality(S) - 1 /\ IsFiniteSet(T)
      BY <2>2, <3>1, FS_RemoveElement
    <3>3. Cardinality(T) \in Nat /\ Cardinality(S) \in Nat
      BY <2>2, <3>2, FS_CardinalityType
    <3>4. running'[p] = IF running[p] > 1 THEN running[p] - 1 ELSE 0
      BY <2>3 DEF TypeOK, JobFinished
    <3>5. running'[p] = Cardinality(T)
      <4>. HIDE DEF S, T
      <4>. QED BY <2>1, <3>2, <3>3, <3>4
    <3>. QED BY <3>5
  <2>4. CASE p # ProfileOf[j]
    <3>1. T = S
      BY <2>4
    <3>. QED BY <2>1, <2>4, <3>1 DEF TypeOK, JobFinished
  <2>. QED BY <2>3, <2>4
<1>. QED BY <1>1 DEF RunningIsTrue

(* What leaves                                                               *)

LEMMA SettlingFacts ==
    ASSUME TypeOK, NEW S, NEW how \in {"result", "exception", "cancelled"},
           future' = Settling(S, how)
    PROVE  /\ future' \in [Jobs -> {"none", "pending", "result", "exception", "cancelled"}]
           /\ \A k \in Jobs : /\ future'[k] = "none" <=> future[k] = "none"
                              /\ future'[k] = "pending" <=> future[k] = "pending" /\ k \notin S
  BY DEF TypeOK, Settling

(* The queues of some lanes are emptied.                                     *)
LEMMA Emptied ==
    ASSUME TypeOK, QueuesFinite, QueuedOnce, NEW G \in SUBSET Lanes,
           queue' = [l \in Lanes |-> IF l \in G THEN EmptyQueue(Profiles) ELSE queue[l]]
    PROVE  /\ queue' \in [Lanes -> Queues(Profiles, Jobs)]
           /\ \A l \in Lanes : Depth(queue'[l]) <= MaxDepth
           /\ \A l \in Lanes : l \in G => Present(queue'[l]) = {}
           /\ \A l \in Lanes : l \notin G => queue'[l] = queue[l]
           /\ QueuesFinite' /\ QueuedOnce'
           /\ \A l \in Lanes, p \in Profiles : \A i \in DOMAIN Items(l, p)' :
                  i \in DOMAIN Items(l, p) /\ Items(l, p)'[i] = Items(l, p)[i]
           /\ \A l \in Lanes \ G : \A j : (j \in QueuedOn(l))' <=> j \in QueuedOn(l)
<1>1. \A l \in Lanes : queue'[l] = IF l \in G THEN EmptyQueue(Profiles) ELSE queue[l]
  OBVIOUS
<1>2. \A l \in Lanes : /\ queue[l] \in Queues(Profiles, Jobs) /\ Depth(queue[l]) <= MaxDepth
                       /\ IsFiniteSet(Cells(queue[l]))
  BY DEF TypeOK, QueuesFinite
<1>3. queue' \in [Lanes -> Queues(Profiles, Jobs)]
  BY <1>2, EmptyFacts
<1>4. \A l \in Lanes : /\ Depth(queue'[l]) <= MaxDepth /\ IsFiniteSet(Cells(queue'[l]))
                       /\ l \in G => Present(queue'[l]) = {}
  BY <1>1, <1>2, EmptyFacts
<1>5. QueuesFinite'
  BY <1>4 DEF QueuesFinite
<1>6. \A l \in Lanes, p \in Profiles : Items(l, p)' = IF l \in G THEN <<>> ELSE Items(l, p)
  BY <1>1, EmptyFacts DEF Items
<1>7. QueuedOnce'
  BY <1>6, QueueShrinks
<1>8. \A l \in Lanes, p \in Profiles : \A i \in DOMAIN Items(l, p)' :
          i \in DOMAIN Items(l, p) /\ Items(l, p)'[i] = Items(l, p)[i]
  <2>1. DOMAIN <<>> = {}
    OBVIOUS
  <2>. QED BY <1>6, <2>1
<1>9. ASSUME NEW l \in Lanes \ G, NEW j PROVE (j \in QueuedOn(l))' <=> j \in QueuedOn(l)
  BY <1>6, QueuedIs
<1>. QED BY <1>1, <1>3, <1>4, <1>5, <1>7, <1>8, <1>9

(* Queues are emptied and jobs cease to execute, and every one of these jobs *)
(* has been settled.                                                         *)
LEMMA JobsLeave ==
    ASSUME SchedulerInv, NEW G \in SUBSET Lanes, NEW gone,
           queue' = [l \in Lanes |-> IF l \in G THEN EmptyQueue(Profiles) ELSE queue[l]],
           \A k \in Jobs : Executing(k)' <=> Executing(k) /\ k \notin gone,
           \A k \in Jobs : future'[k] = "none" => future[k] = "none",
           \A k \in Jobs : future'[k] = "pending" =>
               /\ future[k] = "pending" /\ k \notin gone
               /\ \A l \in G : k \notin QueuedOn(l),
           lanes \ G \subseteq lanes'
    PROVE  /\ queue' \in [Lanes -> Queues(Profiles, Jobs)]
           /\ \A l \in Lanes : Depth(queue'[l]) <= MaxDepth
           /\ \A l \in Lanes : l \in G => Present(queue'[l]) = {}
           /\ \A l \in Lanes : l \notin G => queue'[l] = queue[l]
           /\ QueuesFinite' /\ QueuedOnce' /\ NewIsNowhere' /\ NoOrphanFuture'
           /\ \A j \in Jobs : Executing(j)' =>
                  \A l \in Lanes, p \in Profiles : \A i \in DOMAIN Items(l, p)' : Items(l, p)'[i] # j
<1>. USE DEF SchedulerInv
<1>1. /\ \A l \in Lanes, p \in Profiles : \A i \in DOMAIN Items(l, p)' :
             i \in DOMAIN Items(l, p) /\ Items(l, p)'[i] = Items(l, p)[i]
      /\ \A l \in Lanes \ G : \A j : (j \in QueuedOn(l))' <=> j \in QueuedOn(l)
  BY Emptied
<1>2. NewIsNowhere'
  BY <1>1 DEF NewIsNowhere
<1>3. ASSUME NEW j \in Jobs, future'[j] = "pending"
      PROVE  Executing(j)' \/ \E l \in lanes' : (j \in QueuedOn(l))'
  <2>1. /\ future[j] = "pending" /\ j \notin gone
        /\ \A l \in G : j \notin QueuedOn(l)
    BY <1>3
  <2>2. CASE Executing(j)
    BY <2>1, <2>2
  <2>3. CASE ~Executing(j)
    <3>1. PICK l \in lanes : j \in QueuedOn(l)
      BY <2>1, <2>3 DEF NoOrphanFuture
    <3>2. l \in Lanes \ G /\ l \in lanes'
      BY <2>1, <3>1 DEF TypeOK
    <3>. QED BY <3>1, <3>2, <1>1
  <2>. QED BY <2>2, <2>3
<1>4. NoOrphanFuture'
  BY <1>3 DEF NoOrphanFuture
<1>5. ASSUME NEW j \in Jobs, Executing(j)', NEW l \in Lanes, NEW p \in Profiles,
             NEW i \in DOMAIN Items(l, p)'
      PROVE  Items(l, p)'[i] # j
  BY <1>1, <1>5 DEF ServedOnce
<1>. QED BY <1>2, <1>4, <1>5, Emptied

(* Workers are cancelled: what they executed unwinds.                        *)
LEMMA Cancelled ==
    ASSUME SchedulerInv, NEW G \in SUBSET Lanes, CancelWorkers(G)
    PROVE  /\ \A l \in Lanes : serving'[l] = IF l \in G THEN NoJob ELSE serving[l]
           /\ serving' \in [Lanes -> Jobs \cup {NoJob}] /\ retiring' \in SUBSET Jobs
           /\ \A k \in Jobs : Executing(k)' <=> Executing(k)
           /\ \A l, m \in Lanes : serving'[l] = serving'[m] /\ serving'[l] # NoJob => l = m
           /\ \A l \in Lanes : serving'[l] \notin retiring'
<1>1. /\ serving \in [Lanes -> Jobs \cup {NoJob}] /\ retiring \in SUBSET Jobs
      /\ NoJob \notin Jobs
      /\ \A l, m \in Lanes : serving[l] = serving[m] /\ serving[l] # NoJob => l = m
      /\ \A l \in Lanes : serving[l] \notin retiring
  BY JobsAssumption DEF SchedulerInv, TypeOK, ServedOnce, NoJob
<1>2. \A l \in Lanes : serving'[l] = IF l \in G THEN NoJob ELSE serving[l]
  BY DEF CancelWorkers
<1>3. \A k : k \in retiring' <=> k \in retiring \/ (k # NoJob /\ \E l \in G : serving[l] = k)
  BY DEF CancelWorkers
<1>4. serving' \in [Lanes -> Jobs \cup {NoJob}] /\ retiring' \in SUBSET Jobs
  BY <1>1, <1>3 DEF CancelWorkers
<1>5. \A k \in Jobs : Executing(k)' <=> Executing(k)
  BY <1>1, <1>2, <1>3 DEF Executing
<1>6. \A l, m \in Lanes : serving'[l] = serving'[m] /\ serving'[l] # NoJob => l = m
  BY <1>1, <1>2
<1>7. \A l \in Lanes : serving'[l] \notin retiring'
  BY <1>1, <1>2, <1>3
<1>. QED BY <1>2, <1>4, <1>5, <1>6, <1>7

LEMMA FinishedType ==
    ASSUME TypeOK, NEW p \in Profiles, JobFinished(p)
    PROVE  running' \in [Profiles -> Nat]
<1>. DEFINE n == IF running[p] > 1 THEN running[p] - 1 ELSE 0
<1>1. running \in [Profiles -> Nat] /\ n \in Nat
  BY DEF TypeOK
<1>2. running' = [running EXCEPT ![p] = n]
  BY <1>1 DEF JobFinished
<1>. HIDE DEF n
<1>. QED BY <1>1, <1>2


-----------------------------------------------------------------------------
(* A started worker's lane had none.                                         *)
LEMMA StartStep ==
    ASSUME SchedulerInv, Start
    PROVE  SchedulerInv'
<1>. USE DEF SchedulerInv, lane, calls, policy
<1>1. TypeOK'
  BY DEF Start, TypeOK
<1>2. QueuesFinite'
  BY DEF Start, QueuesFinite
<1>3. WorkersServe'
  BY DEF Start, WorkersServe, WorkersBelong, TypeOK
<1>4. WorkersBelong'
  BY DEF Start, WorkersBelong, TypeOK
<1>5. QueuedOnce'
  BY DEF Start, QueuedOnce, Items
<1>6. ServedOnce'
  BY DEF Start, ServedOnce, Items, Executing
<1>7. NewIsNowhere'
  BY DEF Start, NewIsNowhere, Items, Executing, TypeOK
<1>8. NoOrphanFuture'
  BY DEF Start, NoOrphanFuture, QueuedOn, Executing
<1>9. NoMissedWakeup'
  BY DEF Start, NoMissedWakeup, TypeOK
<1>10. RunningIsTrue'
  <2>1. UNCHANGED running /\ \A k \in Jobs : Executing(k)' <=> Executing(k)
    BY DEF Start, Executing
  <2>. QED BY <2>1, CountKept
<1>11. EvidenceIsCurrent'
  BY DEF Start, EvidenceIsCurrent, WorkersBelong
<1>. QED BY <1>1, <1>2, <1>3, <1>4, <1>5, <1>6, <1>7, <1>8, <1>9, <1>10, <1>11

(* A new job takes the last place of its profile's items, and the lane's     *)
(* worker is woken.                                                          *)
LEMMA SubmitStep ==
    ASSUME SchedulerInv, NEW j \in Jobs, NEW l \in Lanes, Submit(j, l)
    PROVE  SchedulerInv'
<1>. USE DEF SchedulerInv, lane, calls, policy
<1>. DEFINE P == ProfileOf[j]
            n == Len(Items(l, P))
<1>a. /\ P \in Profiles /\ queue[l] \in Queues(Profiles, Jobs) /\ IsFiniteSet(Cells(queue[l]))
      /\ queue'[l] = Push(queue[l], P, j)
      /\ \A m \in Lanes : m # l => queue'[m] = queue[m]
      /\ queue \in [Lanes -> Queues(Profiles, Jobs)] /\ DOMAIN queue' = Lanes
  BY ProfileOfAssumption DEF Submit, TypeOK, QueuesFinite
<1>b. /\ Push(queue[l], P, j) \in Queues(Profiles, Jobs)
      /\ Push(queue[l], P, j).items = [queue[l].items EXCEPT ![P] = Append(queue[l].items[P], j)]
      /\ queue[l].items \in [Profiles -> Seq(Jobs)]
  <2>1. queue[l].items \in [Profiles -> Seq(Jobs)]
    BY <1>a DEF Queues
  <2>. DEFINE q == queue[l]
  <2>2. q \in Queues(Profiles, Jobs) /\ P \in Profiles
    BY <1>a
  <2>. HIDE DEF q, P
  <2>3. Push(q, P, j) \in Queues(Profiles, Jobs)
    BY <2>2, PushType
  <2>4. Push(q, P, j).items = [q.items EXCEPT ![P] = Append(q.items[P], j)]
    BY <2>2, PushItems
  <2>. QED BY <2>1, <2>3, <2>4 DEF q
<1>c. \A m \in Lanes, p \in Profiles :
          Items(m, p)' = IF m = l /\ p = P THEN Append(Items(m, p), j) ELSE Items(m, p)
  BY <1>a, <1>b DEF Items
<1>d. /\ Items(l, P) \in Seq(Jobs) /\ n \in Nat /\ DOMAIN Items(l, P) = 1..n
      /\ DOMAIN Append(Items(l, P), j) = 1..(n + 1)
      /\ Append(Items(l, P), j)[n + 1] = j
      /\ \A i \in 1..n : Append(Items(l, P), j)[i] = Items(l, P)[i]
  <2>. DEFINE s == Items(l, P)
  <2>1. s \in Seq(Jobs)
    BY <1>a, ItemsType
  <2>. HIDE DEF s
  <2>2. /\ Len(s) \in Nat /\ DOMAIN s = 1..Len(s)
        /\ DOMAIN Append(s, j) = 1..(Len(s) + 1)
        /\ Append(s, j)[Len(s) + 1] = j
        /\ \A i \in 1..Len(s) : Append(s, j)[i] = s[i]
    BY <2>1
  <2>. QED BY <2>1, <2>2 DEF s
<1>. HIDE DEF n
<1>e. /\ \A m \in Lanes, p \in Profiles : \A i \in DOMAIN Items(m, p)' :
             \/ i \in DOMAIN Items(m, p) /\ Items(m, p)'[i] = Items(m, p)[i]
             \/ m = l /\ p = P /\ i = n + 1 /\ Items(m, p)'[i] = j
      /\ \A m \in Lanes, p \in Profiles : \A i \in DOMAIN Items(m, p) :
             i \in DOMAIN Items(m, p)' /\ Items(m, p)'[i] = Items(m, p)[i]
      /\ n + 1 \in DOMAIN Items(l, P)' /\ Items(l, P)'[n + 1] = j
  <2>1. \A i : i \in 1..(n + 1) <=> i \in 1..n \/ i = n + 1
    BY <1>d
  <2>. QED BY <1>a, <1>c, <1>d, <2>1
<1>f. /\ ~Executing(j) /\ future'[j] = "pending" /\ (\A k \in Jobs : k # j => future'[k] = future[k])
      /\ \A m \in Lanes, p \in Profiles : \A i \in DOMAIN Items(m, p) : Items(m, p)[i] # j
      /\ \A k : Executing(k)' <=> Executing(k)
  BY DEF Submit, NewIsNowhere, Executing, TypeOK
<1>1. TypeOK'
  <2>1. queue' \in [Lanes -> Queues(Profiles, Jobs)]
    BY <1>a, <1>b DEF Submit
  <2>2. ASSUME NEW m \in Lanes PROVE Depth(queue'[m]) <= MaxDepth
    <3>1. CASE m = l
      <4>1. Depth(queue'[m]) = Depth(queue[l]) + 1
        BY <1>a, <3>1, PushCells
      <4>2. Depth(queue[l]) \in Nat /\ Depth(queue[l]) < MaxDepth
        BY <1>a, FS_CardinalityType DEF Submit, HasRoom, Depth
      <4>. QED BY <4>1, <4>2, MaxDepthAssumption
    <3>2. CASE m # l
      BY <1>a, <3>2 DEF TypeOK
    <3>. QED BY <3>1, <3>2
  <2>. QED BY <2>1, <2>2 DEF Submit, TypeOK
<1>2. QueuesFinite'
  BY <1>a, PushCells DEF QueuesFinite
<1>3. WorkersServe'
  BY DEF Submit, WorkersServe, TypeOK
<1>4. WorkersBelong'
  BY DEF Submit, WorkersBelong, TypeOK
<1>5. QueuedOnce'
  <2>1. ASSUME NEW m \in Lanes, NEW p \in Profiles, NEW i \in DOMAIN Items(m, p)'
        PROVE  ProfileOf[Items(m, p)'[i]] = p
    BY <1>e DEF QueuedOnce
  <2>2. ASSUME NEW m \in Lanes, NEW o \in Lanes, NEW p \in Profiles, NEW q \in Profiles,
               NEW i \in DOMAIN Items(m, p)', NEW k \in DOMAIN Items(o, q)',
               Items(m, p)'[i] = Items(o, q)'[k]
        PROVE  m = o /\ p = q /\ i = k
    <3>1. CASE Items(m, p)'[i] = j
      <4>1. m = l /\ p = P /\ i = n + 1
        BY <3>1, <1>e, <1>f
      <4>2. Items(o, q)'[k] = j
        BY <2>2, <3>1
      <4>3. o = l /\ q = P /\ k = n + 1
        BY <4>2, <1>e, <1>f
      <4>. QED BY <4>1, <4>3
    <3>2. CASE Items(m, p)'[i] # j
      <4>1. /\ i \in DOMAIN Items(m, p) /\ k \in DOMAIN Items(o, q)
            /\ Items(m, p)[i] = Items(o, q)[k]
        BY <2>2, <3>2, <1>e
      <4>. QED BY <4>1 DEF QueuedOnce
    <3>. QED BY <3>1, <3>2
  <2>. QED BY <2>1, <2>2 DEF QueuedOnce
<1>6. ServedOnce'
  <2>1. ASSUME NEW k \in Jobs, Executing(k)', NEW m \in Lanes, NEW p \in Profiles,
               NEW i \in DOMAIN Items(m, p)'
        PROVE  Items(m, p)'[i] # k
    BY <2>1, <1>e, <1>f DEF ServedOnce
  <2>. QED BY <2>1 DEF ServedOnce, Submit
<1>7. NewIsNowhere'
  BY <1>e, <1>f DEF NewIsNowhere
<1>8. NoOrphanFuture'
  <2>1. ASSUME NEW k \in Jobs, future'[k] = "pending"
        PROVE  Executing(k)' \/ \E m \in lanes' : (k \in QueuedOn(m))'
    <3>1. CASE k = j
      <4>1. (k \in QueuedOn(l))'
        BY <1>a, <1>e, <3>1, QueuedIs
      <4>. QED BY <4>1 DEF Submit
    <3>2. CASE k # j
      <4>1. Executing(k) \/ \E m \in lanes : k \in QueuedOn(m)
        BY <2>1, <3>2, <1>f DEF NoOrphanFuture
      <4>2. ASSUME NEW m \in lanes, k \in QueuedOn(m) PROVE (k \in QueuedOn(m))' /\ m \in lanes'
        <5>1. m \in Lanes /\ m \in lanes'
          BY DEF TypeOK, Submit
        <5>. QED BY <5>1, <4>2, <1>e, QueuedIs
      <4>. QED BY <4>1, <4>2, <1>f
    <3>. QED BY <3>1, <3>2
  <2>. QED BY <2>1 DEF NoOrphanFuture
<1>9. NoMissedWakeup'
  BY DEF Submit, NoMissedWakeup, TypeOK
<1>10. RunningIsTrue'
  <2>1. UNCHANGED running /\ \A k \in Jobs : Executing(k)' <=> Executing(k)
    BY DEF Submit, Executing
  <2>. QED BY <2>1, CountKept
<1>11. EvidenceIsCurrent'
  BY DEF Submit, EvidenceIsCurrent, WorkersBelong
<1>. QED BY <1>1, <1>2, <1>3, <1>4, <1>5, <1>6, <1>7, <1>8, <1>9, <1>10, <1>11

(* A caller that gives up leaves its job where it is.                        *)
LEMMA CallerCancelsStep ==
    ASSUME SchedulerInv, NEW j \in Jobs, CallerCancels(j)
    PROVE  SchedulerInv'
<1>. USE DEF SchedulerInv, lane, calls, policy
<1>1. TypeOK'
  BY DEF CallerCancels, TypeOK
<1>2. QueuesFinite'
  BY DEF CallerCancels, QueuesFinite
<1>3. WorkersServe'
  BY DEF CallerCancels, WorkersServe, TypeOK
<1>4. WorkersBelong'
  BY DEF CallerCancels, WorkersBelong, TypeOK
<1>5. QueuedOnce'
  BY DEF CallerCancels, QueuedOnce, Items
<1>6. ServedOnce'
  BY DEF CallerCancels, ServedOnce, Items, Executing
<1>7. NewIsNowhere'
  BY DEF CallerCancels, NewIsNowhere, Items, Executing, TypeOK
<1>8. NoOrphanFuture'
  BY DEF CallerCancels, NoOrphanFuture, QueuedOn, Executing
<1>9. NoMissedWakeup'
  BY DEF CallerCancels, NoMissedWakeup, TypeOK
<1>10. RunningIsTrue'
  <2>1. UNCHANGED running /\ \A k \in Jobs : Executing(k)' <=> Executing(k)
    BY DEF CallerCancels, Executing
  <2>. QED BY <2>1, CountKept
<1>11. EvidenceIsCurrent'
  BY DEF CallerCancels, EvidenceIsCurrent, WorkersBelong
<1>. QED BY <1>1, <1>2, <1>3, <1>4, <1>5, <1>6, <1>7, <1>8, <1>9, <1>10, <1>11

(* The job at the head of its queue moves into the worker's hands.           *)
LEMMA WorkerTakesStep ==
    ASSUME SchedulerInv, NEW l \in Lanes, NEW p \in Profiles, WorkerTakes(l, p)
    PROVE  SchedulerInv'
<1>. USE DEF SchedulerInv, lane, calls, policy
<1>. DEFINE s == Items(l, p)
            h == Head(queue[l].items[p])
<1>a. /\ p \in Present(queue[l]) /\ queue[l] \in Queues(Profiles, Jobs)
      /\ IsFiniteSet(Cells(queue[l])) /\ weight[p] \in Int
      /\ queue'[l] = Popped(queue[l], admitted, p, weight[p])
      /\ \A m \in Lanes : m # l => queue'[m] = queue[m]
      /\ queue \in [Lanes -> Queues(Profiles, Jobs)] /\ DOMAIN queue' = Lanes
  BY WeightsAssumption DEF WorkerTakes, IsNext, TypeOK, QueuesFinite
<1>b. /\ Popped(queue[l], admitted, p, weight[p]) \in Queues(Profiles, Jobs)
      /\ Popped(queue[l], admitted, p, weight[p]).items
           = [queue[l].items EXCEPT ![p] = Tail(queue[l].items[p])]
      /\ queue[l].items \in [Profiles -> Seq(Jobs)] /\ queue[l].items[p] # <<>>
  <2>1. queue[l].items \in [Profiles -> Seq(Jobs)] /\ queue[l].items[p] # <<>>
    BY <1>a DEF Queues, Present
  <2>. QED BY <2>1, <1>a, PoppedType, PoppedItems
<1>c. \A m \in Lanes, q \in Profiles :
          Items(m, q)' = IF m = l /\ q = p THEN Tail(Items(m, q)) ELSE Items(m, q)
  BY <1>a, <1>b DEF Items
<1>d. /\ s \in Seq(Jobs) /\ s # <<>> /\ Len(s) \in Nat /\ DOMAIN s = 1..Len(s)
      /\ DOMAIN Tail(s) = 1..(Len(s) - 1) /\ \A i \in 1..(Len(s) - 1) : Tail(s)[i] = s[i + 1]
      /\ h = s[1] /\ 1 \in DOMAIN s /\ h \in Jobs
  <2>1. s \in Seq(Jobs) /\ s # <<>> /\ h = Head(s)
    BY <1>b DEF Items
  <2>. HIDE DEF s, h
  <2>. QED BY <2>1
<1>. HIDE DEF s, h
<1>e. /\ \A m \in Lanes, q \in Profiles : \A i \in DOMAIN Items(m, q)' : Items(m, q)'[i] # h
      /\ \A m \in Lanes, q \in Profiles : \A i \in DOMAIN Items(m, q) : Items(m, q)[i] # h =>
             \E k \in DOMAIN Items(m, q)' : Items(m, q)'[k] = Items(m, q)[i]
  <2>1. \A m \in Lanes, q \in Profiles : \A i \in DOMAIN Items(m, q) :
            Items(m, q)[i] = h => m = l /\ q = p /\ i = 1
    BY <1>d DEF QueuedOnce, s
  <2>2. ASSUME NEW m \in Lanes, NEW q \in Profiles, NEW i \in DOMAIN Items(m, q)'
        PROVE  Items(m, q)'[i] # h
    <3>1. CASE m = l /\ q = p
      <4>1. i \in 1..(Len(s) - 1) /\ Items(m, q)'[i] = s[i + 1]
        BY <1>c, <1>d, <3>1 DEF s
      <4>2. i + 1 \in DOMAIN s /\ i + 1 # 1
        BY <4>1, <1>d
      <4>. QED BY <4>1, <4>2, <2>1 DEF s
    <3>2. CASE ~(m = l /\ q = p)
      BY <3>2, <1>c, <2>1
    <3>. QED BY <3>1, <3>2
  <2>3. ASSUME NEW m \in Lanes, NEW q \in Profiles, NEW i \in DOMAIN Items(m, q), Items(m, q)[i] # h
        PROVE  \E k \in DOMAIN Items(m, q)' : Items(m, q)'[k] = Items(m, q)[i]
    <3>1. CASE m = l /\ q = p
      <4>1. i \in 1..Len(s) /\ i # 1 /\ Len(s) \in Nat
        BY <2>3, <1>d, <3>1 DEF s
      <4>2. i - 1 \in 1..(Len(s) - 1) /\ i = (i - 1) + 1
        BY <4>1
      <4>3. i - 1 \in DOMAIN Items(m, q)' /\ Items(m, q)'[i - 1] = s[(i - 1) + 1]
        BY <4>2, <1>c, <1>d, <3>1 DEF s
      <4>. QED BY <4>2, <4>3, <3>1 DEF s
    <3>2. CASE ~(m = l /\ q = p)
      BY <3>2, <1>c
    <3>. QED BY <3>1, <3>2
  <2>. QED BY <2>2, <2>3
<1>f. /\ ~Executing(h) /\ ProfileOf[h] = p /\ future[h] # "none" /\ h # NoJob
      /\ serving[l] = NoJob /\ serving' = [serving EXCEPT ![l] = h] /\ h \notin retiring
  <2>1. ~Executing(h) /\ ProfileOf[h] = p /\ future[h] # "none"
    BY <1>d DEF ServedOnce, QueuedOnce, NewIsNowhere, s
  <2>2. h # NoJob /\ serving[l] = NoJob
    BY <1>d, JobsAssumption DEF NoJob, WorkersServe, WorkerTakes
  <2>3. serving' = [serving EXCEPT ![l] = h]
    BY DEF WorkerTakes, h
  <2>. QED BY <2>1, <2>2, <2>3 DEF Executing
<1>g. \A k : k # NoJob => (Executing(k)' <=> Executing(k) \/ k = h)
  BY <1>f DEF Executing, WorkerTakes, TypeOK
<1>h. /\ QueuedOnce'
      /\ \A m \in Lanes, q \in Profiles : \A i \in DOMAIN Items(m, q)' :
             \E k \in DOMAIN Items(m, q) : Items(m, q)'[i] = Items(m, q)[k]
  <2>1. \A m \in Lanes, q \in Profiles :
            \/ Items(m, q)' = Items(m, q)
            \/ Items(m, q)' = <<>>
            \/ Items(m, q) # <<>> /\ Items(m, q)' = Tail(Items(m, q))
    BY <1>c, <1>d DEF s
  <2>. QED BY <2>1, QueueShrinks
<1>1. TypeOK'
  <2>1. queue' \in [Lanes -> Queues(Profiles, Jobs)]
    BY <1>a, <1>b DEF WorkerTakes
  <2>2. ASSUME NEW m \in Lanes PROVE Depth(queue'[m]) <= MaxDepth
    <3>1. CASE m = l
      <4>1. /\ Depth(queue'[m]) <= Depth(queue[l]) /\ Depth(queue'[m]) \in Nat
            /\ Depth(queue[l]) \in Nat
        BY <1>a, <3>1, PoppedCells
      <4>. QED BY <4>1, MaxDepthAssumption DEF TypeOK
    <3>2. CASE m # l
      BY <1>a, <3>2 DEF TypeOK
    <3>. QED BY <3>1, <3>2
  <2>3. serving' \in [Lanes -> Jobs \cup {NoJob}]
    BY <1>d, <1>f DEF TypeOK
  <2>4. /\ thread' \in [Jobs -> {"none", "busy"} \cup Outcomes]
        /\ laneOf' \in [Jobs -> Lanes \cup {NoLane}] /\ running' \in [Profiles -> Nat]
    BY <1>d DEF TypeOK, WorkerTakes, h
  <2>. QED BY <2>1, <2>2, <2>3, <2>4 DEF WorkerTakes, TypeOK
<1>2. QueuesFinite'
  BY <1>a, PoppedCells DEF QueuesFinite
<1>3. WorkersServe'
  BY <1>f DEF WorkerTakes, WorkersServe, TypeOK
<1>4. WorkersBelong'
  BY DEF WorkerTakes, WorkersBelong, TypeOK
<1>5. QueuedOnce'
  BY <1>h
<1>6. ServedOnce'
  <2>1. ASSUME NEW k \in Jobs, Executing(k)', NEW m \in Lanes, NEW q \in Profiles,
               NEW i \in DOMAIN Items(m, q)'
        PROVE  Items(m, q)'[i] # k
    <3>1. Executing(k) \/ k = h
      BY <2>1, <1>g, JobsAssumption DEF NoJob
    <3>. QED BY <3>1, <1>e, <1>h DEF ServedOnce
  <2>2. \A m, n \in Lanes : serving'[m] = serving'[n] /\ serving'[m] # NoJob => m = n
    BY <1>f DEF ServedOnce, Executing, TypeOK
  <2>3. \A m \in Lanes : serving'[m] \notin retiring'
    BY <1>f DEF ServedOnce, WorkerTakes, TypeOK
  <2>. QED BY <2>1, <2>2, <2>3 DEF ServedOnce
<1>7. NewIsNowhere'
  <2>1. ASSUME NEW k \in Jobs, future[k] = "none"
        PROVE  /\ ~Executing(k)'
               /\ \A m \in Lanes, q \in Profiles : \A i \in DOMAIN Items(m, q)' : Items(m, q)'[i] # k
    <3>1. k # NoJob /\ k # h
      BY <2>1, <1>f, JobsAssumption DEF NoJob
    <3>. QED BY <2>1, <3>1, <1>g, <1>h DEF NewIsNowhere
  <2>. QED BY <2>1 DEF NewIsNowhere, WorkerTakes
<1>8. NoOrphanFuture'
  <2>1. ASSUME NEW k \in Jobs, future[k] = "pending", ~Executing(k)'
        PROVE  \E m \in lanes : (k \in QueuedOn(m))'
    <3>1. ~Executing(k) /\ k # h
      BY <2>1, <1>g, JobsAssumption DEF NoJob
    <3>2. PICK m \in lanes : k \in QueuedOn(m)
      BY <2>1, <3>1 DEF NoOrphanFuture
    <3>3. m \in Lanes
      BY DEF TypeOK
    <3>. QED BY <3>1, <3>2, <3>3, <1>e, QueuedIs
  <2>. QED BY <2>1 DEF NoOrphanFuture, WorkerTakes
<1>9. NoMissedWakeup'
  BY DEF WorkerTakes, NoMissedWakeup, TypeOK
<1>10. RunningIsTrue'
  <2>1. running' = [running EXCEPT ![ProfileOf[h]] = @ + 1]
    BY <1>f DEF WorkerTakes
  <2>2. \A k \in Jobs : Executing(k)' <=> Executing(k) \/ k = h
    BY <1>g, JobsAssumption DEF NoJob
  <2>. QED BY <2>1, <2>2, <1>d, <1>f, CountUp
<1>11. EvidenceIsCurrent'
  BY DEF WorkerTakes, EvidenceIsCurrent, WorkersBelong
<1>. QED BY <1>1, <1>2, <1>3, <1>4, <1>5, <1>6, <1>7, <1>8, <1>9, <1>10, <1>11

(* A worker waits when nothing it may serve is queued.                       *)
LEMMA WorkerWaitsStep ==
    ASSUME SchedulerInv, NEW l \in Lanes, WorkerWaits(l)
    PROVE  SchedulerInv'
<1>. USE DEF SchedulerInv, lane, calls, policy
<1>1. TypeOK'
  BY DEF WorkerWaits, TypeOK
<1>2. QueuesFinite'
  BY DEF WorkerWaits, QueuesFinite
<1>3. WorkersServe'
  BY DEF WorkerWaits, WorkersServe, TypeOK
<1>4. WorkersBelong'
  BY DEF WorkerWaits, WorkersBelong, TypeOK
<1>5. QueuedOnce'
  BY DEF WorkerWaits, QueuedOnce, Items
<1>6. ServedOnce'
  BY DEF WorkerWaits, ServedOnce, Items, Executing
<1>7. NewIsNowhere'
  BY DEF WorkerWaits, NewIsNowhere, Items, Executing, TypeOK
<1>8. NoOrphanFuture'
  BY DEF WorkerWaits, NoOrphanFuture, QueuedOn, Executing
<1>9. NoMissedWakeup'
  BY DEF WorkerWaits, NoMissedWakeup, TypeOK
<1>10. RunningIsTrue'
  <2>1. UNCHANGED running /\ \A k \in Jobs : Executing(k)' <=> Executing(k)
    BY DEF WorkerWaits, Executing
  <2>. QED BY <2>1, CountKept
<1>11. EvidenceIsCurrent'
  BY DEF WorkerWaits, EvidenceIsCurrent, WorkersBelong
<1>. QED BY <1>1, <1>2, <1>3, <1>4, <1>5, <1>6, <1>7, <1>8, <1>9, <1>10, <1>11

(* A worker of a stopped scheduler ends between two jobs.                    *)
LEMMA WorkerExitsStep ==
    ASSUME SchedulerInv, NEW l \in Lanes, WorkerExits(l)
    PROVE  SchedulerInv'
<1>. USE DEF SchedulerInv, lane, calls, policy
<1>1. TypeOK'
  BY DEF WorkerExits, TypeOK
<1>2. QueuesFinite'
  BY DEF WorkerExits, QueuesFinite
<1>3. WorkersServe'
  BY DEF WorkerExits, WorkersServe, TypeOK
<1>4. WorkersBelong'
  BY DEF WorkerExits, WorkersBelong, TypeOK
<1>5. QueuedOnce'
  BY DEF WorkerExits, QueuedOnce, Items
<1>6. ServedOnce'
  BY DEF WorkerExits, ServedOnce, Items, Executing
<1>7. NewIsNowhere'
  BY DEF WorkerExits, NewIsNowhere, Items, Executing, TypeOK
<1>8. NoOrphanFuture'
  BY DEF WorkerExits, NoOrphanFuture, QueuedOn, Executing
<1>9. NoMissedWakeup'
  BY DEF WorkerExits, NoMissedWakeup, TypeOK
<1>10. RunningIsTrue'
  <2>1. UNCHANGED running /\ \A k \in Jobs : Executing(k)' <=> Executing(k)
    BY DEF WorkerExits, Executing
  <2>. QED BY <2>1, CountKept
<1>11. EvidenceIsCurrent'
  BY DEF WorkerExits, EvidenceIsCurrent, WorkersBelong
<1>. QED BY <1>1, <1>2, <1>3, <1>4, <1>5, <1>6, <1>7, <1>8, <1>9, <1>10, <1>11

(* The end of an executor call is seen by its worker later.                  *)
LEMMA ThreadEndsStep ==
    ASSUME SchedulerInv, NEW j \in Jobs, NEW o \in Outcomes, ThreadEnds(j, o)
    PROVE  SchedulerInv'
<1>. USE DEF SchedulerInv, lane, calls, policy
<1>1. TypeOK'
  BY DEF ThreadEnds, TypeOK
<1>2. QueuesFinite'
  BY DEF ThreadEnds, QueuesFinite
<1>3. WorkersServe'
  BY DEF ThreadEnds, WorkersServe, TypeOK
<1>4. WorkersBelong'
  BY DEF ThreadEnds, WorkersBelong, TypeOK
<1>5. QueuedOnce'
  BY DEF ThreadEnds, QueuedOnce, Items
<1>6. ServedOnce'
  BY DEF ThreadEnds, ServedOnce, Items, Executing
<1>7. NewIsNowhere'
  BY DEF ThreadEnds, NewIsNowhere, Items, Executing, TypeOK
<1>8. NoOrphanFuture'
  BY DEF ThreadEnds, NoOrphanFuture, QueuedOn, Executing
<1>9. NoMissedWakeup'
  BY DEF ThreadEnds, NoMissedWakeup, TypeOK
<1>10. RunningIsTrue'
  <2>1. UNCHANGED running /\ \A k \in Jobs : Executing(k)' <=> Executing(k)
    BY DEF ThreadEnds, Executing
  <2>. QED BY <2>1, CountKept
<1>11. EvidenceIsCurrent'
  BY DEF ThreadEnds, EvidenceIsCurrent, WorkersBelong
<1>. QED BY <1>1, <1>2, <1>3, <1>4, <1>5, <1>6, <1>7, <1>8, <1>9, <1>10, <1>11

(* A job that ends is settled and counted off; a fatal end settles the       *)
(* lane's queue too.                                                         *)
LEMMA ExecuteReturnsStep ==
    ASSUME SchedulerInv, NEW l \in Lanes, NEW o \in Outcomes, ExecuteReturns(l, o)
    PROVE  SchedulerInv'
<1>. USE DEF SchedulerInv, lane, calls, policy
<1>. DEFINE j == serving[l]
            G == IF o = "fatal" THEN {l} ELSE {}
            D == {j} \cup (IF o = "fatal" THEN QueuedOn(l) ELSE {})
<1>a. /\ j \in Jobs /\ j # NoJob /\ Executing(j) /\ serving' = [serving EXCEPT ![l] = NoJob]
      /\ l \in lanes /\ phase = "running" /\ G \in SUBSET Lanes
      /\ NoJob \notin Jobs /\ JobFinished(ProfileOf[j]) /\ worker[l] = "executing"
      /\ worker' = [worker EXCEPT ![l] = "ready"]
  BY JobsAssumption DEF ExecuteReturns, WorkersServe, WorkersBelong, TypeOK, Executing,
       NoJob
<1>b. queue' = [m \in Lanes |-> IF m \in G THEN EmptyQueue(Profiles) ELSE queue[m]]
  BY DEF ExecuteReturns, TypeOK, Outcomes
<1>c. \A k \in Jobs : Executing(k)' <=> Executing(k) /\ k \notin {j}
  BY <1>a DEF ExecuteReturns, Executing, ServedOnce, TypeOK
<1>d. /\ future' \in [Jobs -> {"none", "pending", "result", "exception", "cancelled"}]
      /\ \A k \in Jobs : /\ future'[k] = "none" <=> future[k] = "none"
                         /\ future'[k] = "pending" <=> future[k] = "pending" /\ k \notin D
  <2>1. \E how \in {"result", "exception", "cancelled"} : future' = Settling(D, how)
    <3>1. CASE o = "ok"
      <4>1. D = {j} /\ future' = Settling({j}, "result")
        BY <3>1 DEF ExecuteReturns
      <4>. QED BY <4>1
    <3>2. CASE o = "error"
      <4>1. D = {j} /\ future' = Settling({j}, "exception")
        BY <3>2 DEF ExecuteReturns
      <4>. QED BY <4>1
    <3>3. CASE o = "fatal"
      <4>1. D = {j} \cup QueuedOn(l) /\ future' = Settling({j} \cup QueuedOn(l), "exception")
        BY <3>3 DEF ExecuteReturns
      <4>. QED BY <4>1
    <3>. QED BY <3>1, <3>2, <3>3 DEF Outcomes
  <2>. HIDE DEF D
  <2>. QED BY <2>1, SettlingFacts
<1>e. \A k \in Jobs : future'[k] = "pending" =>
          /\ future[k] = "pending" /\ k \notin {j}
          /\ \A m \in G : k \notin QueuedOn(m)
  BY <1>d
<1>z. /\ queue' \in [Lanes -> Queues(Profiles, Jobs)]
      /\ \A m \in Lanes : Depth(queue'[m]) <= MaxDepth
      /\ \A m \in Lanes : m \in G => Present(queue'[m]) = {}
      /\ \A m \in Lanes : m \notin G => queue'[m] = queue[m]
      /\ QueuesFinite' /\ QueuedOnce' /\ NewIsNowhere' /\ NoOrphanFuture'
      /\ \A k \in Jobs : Executing(k)' =>
             \A m \in Lanes, p \in Profiles : \A i \in DOMAIN Items(m, p)' : Items(m, p)'[i] # k
  <2>1. lanes \ G \subseteq lanes' /\ \A k \in Jobs : future'[k] = "none" => future[k] = "none"
    BY <1>d DEF ExecuteReturns
  <2>. HIDE DEF SchedulerInv, G, j
  <2>. QED BY <1>a, <1>b, <1>c, <1>e, <2>1, JobsLeave
<1>1. TypeOK'
  <2>1. running' \in [Profiles -> Nat]
    BY <1>a, FinishedType, ProfileOfAssumption
  <2>2. degraded' \in SUBSET Lanes /\ serving' \in [Lanes -> Jobs \cup {NoJob}]
    BY <1>a DEF ExecuteReturns, TypeOK
  <2>3. worker' \in [Lanes -> {"none", "ready", "waiting", "executing"}]
    BY <1>a DEF TypeOK
  <2>. QED BY <2>1, <2>2, <2>3, <1>d, <1>z DEF ExecuteReturns, TypeOK
<1>2. QueuesFinite'
  BY <1>z
<1>3. WorkersServe'
  BY <1>a DEF WorkersServe, TypeOK
<1>4. WorkersBelong'
  BY <1>a DEF ExecuteReturns, WorkersBelong, TypeOK
<1>5. QueuedOnce'
  BY <1>z
<1>6. ServedOnce'
  <2>1. \A m, n \in Lanes : serving'[m] = serving'[n] /\ serving'[m] # NoJob => m = n
    BY <1>a DEF ServedOnce, TypeOK
  <2>2. \A m \in Lanes : serving'[m] \notin retiring'
    BY <1>a DEF ServedOnce, ExecuteReturns, TypeOK
  <2>. QED BY <2>1, <2>2, <1>z DEF ServedOnce
<1>7. NewIsNowhere'
  BY <1>z
<1>8. NoOrphanFuture'
  BY <1>z
<1>9. NoMissedWakeup'
  BY <1>a, <1>z DEF ExecuteReturns, NoMissedWakeup, TypeOK
<1>10. RunningIsTrue'
  BY <1>a, <1>c, CountDown
<1>11. EvidenceIsCurrent'
  BY <1>a DEF ExecuteReturns, EvidenceIsCurrent
<1>. QED BY <1>1, <1>2, <1>3, <1>4, <1>5, <1>6, <1>7, <1>8, <1>9, <1>10, <1>11

(* A job of a cancelled worker is settled and counted off.                   *)
LEMMA RetiredUnwindsStep ==
    ASSUME SchedulerInv, NEW j \in Jobs, RetiredUnwinds(j)
    PROVE  SchedulerInv'
<1>. USE DEF SchedulerInv, lane, calls, policy
<1>. DEFINE G == {}
<1>a. /\ j \in Jobs /\ Executing(j) /\ retiring' = retiring \ {j}
      /\ JobFinished(ProfileOf[j]) /\ UNCHANGED <<lanes, queue, serving>>
  BY DEF RetiredUnwinds, Executing
<1>b. queue' = [m \in Lanes |-> IF m \in G THEN EmptyQueue(Profiles) ELSE queue[m]]
  BY <1>a DEF TypeOK
<1>c. \A k \in Jobs : Executing(k)' <=> Executing(k) /\ k \notin {j}
  BY <1>a DEF RetiredUnwinds, Executing, ServedOnce
<1>d. /\ future' \in [Jobs -> {"none", "pending", "result", "exception", "cancelled"}]
      /\ \A k \in Jobs : /\ future'[k] = "none" <=> future[k] = "none"
                         /\ future'[k] = "pending" <=> future[k] = "pending" /\ k \notin {j}
  BY SettlingFacts DEF RetiredUnwinds
<1>z. /\ queue' \in [Lanes -> Queues(Profiles, Jobs)]
      /\ \A m \in Lanes : Depth(queue'[m]) <= MaxDepth
      /\ \A m \in Lanes : m \in G => Present(queue'[m]) = {}
      /\ \A m \in Lanes : m \notin G => queue'[m] = queue[m]
      /\ QueuesFinite' /\ QueuedOnce' /\ NewIsNowhere' /\ NoOrphanFuture'
      /\ \A k \in Jobs : Executing(k)' =>
             \A m \in Lanes, p \in Profiles : \A i \in DOMAIN Items(m, p)' : Items(m, p)'[i] # k
  <2>1. lanes \ G \subseteq lanes' /\ G \in SUBSET Lanes
    BY <1>a
  <2>2. \A k \in Jobs : future'[k] = "none" => future[k] = "none"
    BY <1>d
  <2>3. \A k \in Jobs : future'[k] = "pending" =>
            /\ future[k] = "pending" /\ k \notin {j}
            /\ \A m \in G : k \notin QueuedOn(m)
    BY <1>d
  <2>. HIDE DEF SchedulerInv, G
  <2>. QED BY <1>b, <1>c, <2>1, <2>2, <2>3, JobsLeave
<1>1. TypeOK'
  <2>1. running' \in [Profiles -> Nat] /\ retiring' \in SUBSET Jobs
    BY <1>a, FinishedType, ProfileOfAssumption DEF TypeOK
  <2>. QED BY <2>1, <1>d, <1>z DEF RetiredUnwinds, TypeOK
<1>2. QueuesFinite'
  BY <1>z
<1>3. WorkersServe'
  BY DEF RetiredUnwinds, WorkersServe, TypeOK
<1>4. WorkersBelong'
  BY DEF RetiredUnwinds, WorkersBelong, TypeOK
<1>5. QueuedOnce'
  BY <1>z
<1>6. ServedOnce'
  BY <1>a, <1>z DEF ServedOnce
<1>7. NewIsNowhere'
  BY <1>z
<1>8. NoOrphanFuture'
  BY <1>z
<1>9. NoMissedWakeup'
  BY DEF RetiredUnwinds, NoMissedWakeup, TypeOK
<1>10. RunningIsTrue'
  BY <1>a, <1>c, CountDown
<1>11. EvidenceIsCurrent'
  BY DEF RetiredUnwinds, EvidenceIsCurrent, WorkersBelong
<1>. QED BY <1>1, <1>2, <1>3, <1>4, <1>5, <1>6, <1>7, <1>8, <1>9, <1>10, <1>11

(* A removed backend's queue is settled and its worker's job unwinds.        *)
LEMMA UpdateExecutorsStep ==
    ASSUME SchedulerInv, NEW found \in SUBSET Lanes, UpdateExecutors(found)
    PROVE  SchedulerInv'
<1>. USE DEF SchedulerInv, lane, calls, policy
<1>. DEFINE G == lanes \ found
            none == {}
<1>a. /\ G \in SUBSET Lanes /\ CancelWorkers(G)
      /\ queue' = [m \in Lanes |-> IF m \in G THEN EmptyQueue(Profiles) ELSE queue[m]]
      /\ lanes' = found /\ lanes \ G \subseteq lanes'
      /\ future' = Settling(UNION {QueuedOn(m) : m \in G}, "cancelled")
      /\ degraded' = degraded \ G /\ UNCHANGED <<phase, running>>
  BY DEF UpdateExecutors, TypeOK, CancelQueued, EvidenceLeft
<1>b. /\ \A m \in Lanes : serving'[m] = IF m \in G THEN NoJob ELSE serving[m]
      /\ serving' \in [Lanes -> Jobs \cup {NoJob}] /\ retiring' \in SUBSET Jobs
      /\ \A k \in Jobs : Executing(k)' <=> Executing(k)
      /\ \A m, n \in Lanes : serving'[m] = serving'[n] /\ serving'[m] # NoJob => m = n
      /\ \A m \in Lanes : serving'[m] \notin retiring'
  <2>. HIDE DEF G, SchedulerInv
  <2>. QED BY <1>a, Cancelled
<1>c. \A m \in Lanes :
          /\ m \in G => worker'[m] = "none"
          /\ worker'[m] # worker[m] /\ m \notin G =>
                 worker'[m] = "ready" /\ m \in found \ lanes /\ phase # "idle"
          /\ m \notin lanes => worker[m] = "none"
  BY DEF UpdateExecutors, WorkersBelong
<1>d. /\ future' \in [Jobs -> {"none", "pending", "result", "exception", "cancelled"}]
      /\ \A k \in Jobs : /\ future'[k] = "none" <=> future[k] = "none"
                         /\ future'[k] = "pending" <=>
                                future[k] = "pending" /\ k \notin UNION {QueuedOn(m) : m \in G}
  BY <1>a, SettlingFacts
<1>z. /\ queue' \in [Lanes -> Queues(Profiles, Jobs)]
      /\ \A m \in Lanes : Depth(queue'[m]) <= MaxDepth
      /\ \A m \in Lanes : m \in G => Present(queue'[m]) = {}
      /\ \A m \in Lanes : m \notin G => queue'[m] = queue[m]
      /\ QueuesFinite' /\ QueuedOnce' /\ NewIsNowhere' /\ NoOrphanFuture'
      /\ \A k \in Jobs : Executing(k)' =>
             \A m \in Lanes, p \in Profiles : \A i \in DOMAIN Items(m, p)' : Items(m, p)'[i] # k
  <2>1. \A k \in Jobs : future'[k] = "none" => future[k] = "none"
    BY <1>d
  <2>2. \A k \in Jobs : future'[k] = "pending" =>
            /\ future[k] = "pending" /\ k \notin none
            /\ \A m \in G : k \notin QueuedOn(m)
    BY <1>d
  <2>3. \A k \in Jobs : Executing(k)' <=> Executing(k) /\ k \notin none
    BY <1>b
  <2>. HIDE DEF SchedulerInv, G, none
  <2>. QED BY <1>a, <2>1, <2>2, <2>3, JobsLeave
<1>1. TypeOK'
  <2>1. worker' \in [Lanes -> {"none", "ready", "waiting", "executing"}]
    BY DEF UpdateExecutors, TypeOK
  <2>. QED BY <2>1, <1>a, <1>b, <1>d, <1>z DEF UpdateExecutors, TypeOK
<1>2. QueuesFinite'
  BY <1>z
<1>3. WorkersServe'
  BY <1>b, <1>c DEF WorkersServe
<1>4. WorkersBelong'
  BY <1>a, <1>c DEF UpdateExecutors, WorkersBelong
<1>5. QueuedOnce'
  BY <1>z
<1>6. ServedOnce'
  BY <1>b, <1>z DEF ServedOnce
<1>7. NewIsNowhere'
  BY <1>z
<1>8. NoOrphanFuture'
  BY <1>z
<1>9. NoMissedWakeup'
  BY <1>c, <1>z DEF UpdateExecutors, NoMissedWakeup
<1>10. RunningIsTrue'
  BY <1>a, <1>b, CountKept
<1>11. EvidenceIsCurrent'
  BY <1>a DEF UpdateExecutors, EvidenceIsCurrent
<1>. QED BY <1>1, <1>2, <1>3, <1>4, <1>5, <1>6, <1>7, <1>8, <1>9, <1>10, <1>11

(* A policy change wakes every worker.                                       *)
LEMMA PolicyChangedStep ==
    ASSUME SchedulerInv, NEW a \in SUBSET Profiles, NEW w \in [Profiles -> Weights], PolicyChanged(a, w)
    PROVE  SchedulerInv'
<1>. USE DEF SchedulerInv, lane, calls, policy
<1>1. TypeOK'
  BY DEF PolicyChanged, Woken, TypeOK, TypeOK
<1>2. QueuesFinite'
  BY DEF PolicyChanged, QueuesFinite
<1>3. WorkersServe'
  BY DEF PolicyChanged, Woken, WorkersServe, TypeOK
<1>4. WorkersBelong'
  BY DEF PolicyChanged, Woken, WorkersBelong, TypeOK
<1>5. QueuedOnce'
  BY DEF PolicyChanged, QueuedOnce, Items
<1>6. ServedOnce'
  BY DEF PolicyChanged, ServedOnce, Items, Executing
<1>7. NewIsNowhere'
  BY DEF PolicyChanged, NewIsNowhere, Items, Executing, TypeOK
<1>8. NoOrphanFuture'
  BY DEF PolicyChanged, NoOrphanFuture, QueuedOn, Executing
<1>9. NoMissedWakeup'
  BY DEF PolicyChanged, Woken, NoMissedWakeup, TypeOK
<1>10. RunningIsTrue'
  <2>1. UNCHANGED running /\ \A k \in Jobs : Executing(k)' <=> Executing(k)
    BY DEF PolicyChanged, Executing
  <2>. QED BY <2>1, CountKept
<1>11. EvidenceIsCurrent'
  BY DEF PolicyChanged, EvidenceIsCurrent, WorkersBelong
<1>. QED BY <1>1, <1>2, <1>3, <1>4, <1>5, <1>6, <1>7, <1>8, <1>9, <1>10, <1>11

(* Every worker's job unwinds.                                               *)
LEMMA StopStep ==
    ASSUME SchedulerInv, Stop
    PROVE  SchedulerInv'
<1>. USE DEF SchedulerInv, lane, calls, policy
<1>a. CancelWorkers(Lanes)
  BY DEF Stop
<1>b. /\ \A m \in Lanes : serving'[m] = NoJob
      /\ serving' \in [Lanes -> Jobs \cup {NoJob}] /\ retiring' \in SUBSET Jobs
      /\ \A k \in Jobs : Executing(k)' <=> Executing(k)
      /\ \A m \in Lanes : serving'[m] \notin retiring'
  <2>. HIDE DEF SchedulerInv
  <2>. QED BY <1>a, Cancelled
<1>1. TypeOK'
  BY <1>b DEF Stop, TypeOK
<1>2. QueuesFinite'
  BY DEF Stop, QueuesFinite
<1>3. WorkersServe'
  BY <1>b DEF Stop, WorkersServe
<1>4. WorkersBelong'
  BY DEF Stop, WorkersBelong, TypeOK
<1>5. QueuedOnce'
  BY DEF Stop, QueuedOnce, Items
<1>6. ServedOnce'
  <2>1. \A m \in Lanes, p \in Profiles : Items(m, p)' = Items(m, p)
    BY DEF Stop, Items
  <2>. QED BY <2>1, <1>b DEF ServedOnce
<1>7. NewIsNowhere'
  BY <1>b DEF Stop, NewIsNowhere, Items
<1>8. NoOrphanFuture'
  BY <1>b DEF Stop, NoOrphanFuture, QueuedOn
<1>9. NoMissedWakeup'
  BY DEF Stop, NoMissedWakeup, TypeOK
<1>10. RunningIsTrue'
  BY <1>b, CountKept DEF Stop
<1>11. EvidenceIsCurrent'
  BY DEF Stop, EvidenceIsCurrent, WorkersBelong
<1>. QED BY <1>1, <1>2, <1>3, <1>4, <1>5, <1>6, <1>7, <1>8, <1>9, <1>10, <1>11

(* Every queue is settled.                                                   *)
LEMMA StopEndsStep ==
    ASSUME SchedulerInv, StopEnds
    PROVE  SchedulerInv'
<1>. USE DEF SchedulerInv, lane, calls, policy
<1>. DEFINE G == Lanes
            none == {}
<1>a. /\ queue' = [m \in Lanes |-> IF m \in G THEN EmptyQueue(Profiles) ELSE queue[m]]
      /\ G \in SUBSET Lanes /\ lanes \ G \subseteq lanes'
      /\ future' = Settling(UNION {QueuedOn(m) : m \in G}, "cancelled")
  BY DEF StopEnds, TypeOK, CancelQueued
<1>b. \A k \in Jobs : Executing(k)' <=> Executing(k) /\ k \notin none
  BY DEF StopEnds, Executing
<1>d. /\ future' \in [Jobs -> {"none", "pending", "result", "exception", "cancelled"}]
      /\ \A k \in Jobs : /\ future'[k] = "none" <=> future[k] = "none"
                         /\ future'[k] = "pending" <=>
                                future[k] = "pending" /\ k \notin UNION {QueuedOn(m) : m \in G}
  BY <1>a, SettlingFacts
<1>z. /\ queue' \in [Lanes -> Queues(Profiles, Jobs)]
      /\ \A m \in Lanes : Depth(queue'[m]) <= MaxDepth
      /\ \A m \in Lanes : m \in G => Present(queue'[m]) = {}
      /\ \A m \in Lanes : m \notin G => queue'[m] = queue[m]
      /\ QueuesFinite' /\ QueuedOnce' /\ NewIsNowhere' /\ NoOrphanFuture'
      /\ \A k \in Jobs : Executing(k)' =>
             \A m \in Lanes, p \in Profiles : \A i \in DOMAIN Items(m, p)' : Items(m, p)'[i] # k
  <2>1. \A k \in Jobs : future'[k] = "none" => future[k] = "none"
    BY <1>d
  <2>2. \A k \in Jobs : future'[k] = "pending" =>
            /\ future[k] = "pending" /\ k \notin none
            /\ \A m \in G : k \notin QueuedOn(m)
    BY <1>d
  <2>. HIDE DEF SchedulerInv, G, none
  <2>. QED BY <1>a, <1>b, <2>1, <2>2, JobsLeave
<1>1. TypeOK'
  BY <1>z, <1>d DEF StopEnds, TypeOK
<1>2. QueuesFinite'
  BY <1>z
<1>3. WorkersServe'
  BY DEF StopEnds, WorkersServe, TypeOK
<1>4. WorkersBelong'
  BY DEF StopEnds, WorkersBelong, TypeOK
<1>5. QueuedOnce'
  BY <1>z
<1>6. ServedOnce'
  BY <1>z DEF ServedOnce, StopEnds
<1>7. NewIsNowhere'
  BY <1>z
<1>8. NoOrphanFuture'
  BY <1>z
<1>9. NoMissedWakeup'
  BY <1>z DEF NoMissedWakeup
<1>10. RunningIsTrue'
  <2>1. UNCHANGED running /\ \A k \in Jobs : Executing(k)' <=> Executing(k)
    BY DEF StopEnds, Executing
  <2>. QED BY <2>1, CountKept
<1>11. EvidenceIsCurrent'
  BY DEF StopEnds, EvidenceIsCurrent, WorkersBelong
<1>. QED BY <1>1, <1>2, <1>3, <1>4, <1>5, <1>6, <1>7, <1>8, <1>9, <1>10, <1>11

(* Closing the executors concerns no job.                                    *)
LEMMA CloseExecutorsStep ==
    ASSUME SchedulerInv, CloseExecutors
    PROVE  SchedulerInv'
<1>. USE DEF SchedulerInv, lane, calls, policy
<1>1. TypeOK'
  BY DEF CloseExecutors, TypeOK
<1>2. QueuesFinite'
  BY DEF CloseExecutors, QueuesFinite
<1>3. WorkersServe'
  BY DEF CloseExecutors, WorkersServe, TypeOK
<1>4. WorkersBelong'
  BY DEF CloseExecutors, WorkersBelong, TypeOK
<1>5. QueuedOnce'
  BY DEF CloseExecutors, QueuedOnce, Items
<1>6. ServedOnce'
  BY DEF CloseExecutors, ServedOnce, Items, Executing
<1>7. NewIsNowhere'
  BY DEF CloseExecutors, NewIsNowhere, Items, Executing, TypeOK
<1>8. NoOrphanFuture'
  BY DEF CloseExecutors, NoOrphanFuture, QueuedOn, Executing
<1>9. NoMissedWakeup'
  BY DEF CloseExecutors, NoMissedWakeup, TypeOK
<1>10. RunningIsTrue'
  <2>1. UNCHANGED running /\ \A k \in Jobs : Executing(k)' <=> Executing(k)
    BY DEF CloseExecutors, Executing
  <2>. QED BY <2>1, CountKept
<1>11. EvidenceIsCurrent'
  BY DEF CloseExecutors, EvidenceIsCurrent, WorkersBelong
<1>. QED BY <1>1, <1>2, <1>3, <1>4, <1>5, <1>6, <1>7, <1>8, <1>9, <1>10, <1>11
-----------------------------------------------------------------------------
LEMMA SchedulerInit == Init => SchedulerInv
<1>. SUFFICES ASSUME Init PROVE SchedulerInv
  OBVIOUS
<1>. USE DEF Init
<1>1. TypeOK
  BY EmptyFacts DEF TypeOK
<1>2. QueuesFinite
  BY EmptyFacts DEF QueuesFinite
<1>3. WorkersServe /\ WorkersBelong
  BY DEF WorkersServe, WorkersBelong
<1>4. \A l \in Lanes, p \in Profiles : Items(l, p) = <<>> /\ DOMAIN Items(l, p) = {}
  BY EmptyFacts DEF Items
<1>5. \A j \in Jobs : ~Executing(j)
  BY JobsAssumption DEF Executing, NoJob
<1>6. QueuedOnce /\ ServedOnce /\ NewIsNowhere
  BY <1>4, <1>5 DEF QueuedOnce, ServedOnce, NewIsNowhere
<1>7. NoOrphanFuture /\ NoMissedWakeup /\ EvidenceIsCurrent
  BY DEF NoOrphanFuture, NoMissedWakeup, EvidenceIsCurrent
<1>8. RunningIsTrue
  <2>1. \A p \in Profiles : {j \in Jobs : ProfileOf[j] = p /\ Executing(j)} = {}
    BY <1>5
  <2>. QED BY <2>1, FS_EmptySet DEF RunningIsTrue
<1>. QED BY <1>1, <1>2, <1>3, <1>6, <1>7, <1>8 DEF SchedulerInv

LEMMA SchedulerNext == SchedulerInv /\ [Next]_vars => SchedulerInv'
<1>. SUFFICES ASSUME SchedulerInv, [Next]_vars PROVE SchedulerInv'
  OBVIOUS
<1>1. CASE Start \/ Stop \/ StopEnds \/ CloseExecutors
  BY <1>1, StartStep, StopStep, StopEndsStep, CloseExecutorsStep
<1>2. ASSUME NEW l \in Lanes, LaneStep(l) PROVE SchedulerInv'
  BY <1>2, WorkerTakesStep, WorkerWaitsStep, WorkerExitsStep, ExecuteReturnsStep DEF LaneStep
<1>3. ASSUME NEW j \in Jobs, CallerCancels(j) \/ RetiredUnwinds(j) \/ \E l \in Lanes : Submit(j, l)
      PROVE  SchedulerInv'
  BY <1>3, CallerCancelsStep, RetiredUnwindsStep, SubmitStep
<1>4. ASSUME NEW j \in Jobs, NEW o \in Outcomes, ThreadEnds(j, o) PROVE SchedulerInv'
  BY <1>4, ThreadEndsStep
<1>5. ASSUME NEW found \in SUBSET Lanes, UpdateExecutors(found) PROVE SchedulerInv'
  BY <1>5, UpdateExecutorsStep
<1>6. ASSUME NEW a \in SUBSET Profiles, NEW w \in [Profiles -> Weights], PolicyChanged(a, w)
      PROVE  SchedulerInv'
  BY <1>6, PolicyChangedStep
<1>7. CASE UNCHANGED vars
  <2>. USE <1>7 DEF SchedulerInv, vars, lane, calls, policy
  <2>1. TypeOK' /\ QueuesFinite' /\ WorkersServe' /\ WorkersBelong'
    BY DEF TypeOK, QueuesFinite, WorkersServe, WorkersBelong
  <2>2. QueuedOnce' /\ ServedOnce' /\ NewIsNowhere'
    BY DEF QueuedOnce, ServedOnce, NewIsNowhere, Items, Executing
  <2>3. NoOrphanFuture' /\ NoMissedWakeup' /\ EvidenceIsCurrent'
    BY DEF NoOrphanFuture, NoMissedWakeup, EvidenceIsCurrent, QueuedOn, Executing
  <2>4. RunningIsTrue'
    <3>1. UNCHANGED running /\ \A k \in Jobs : Executing(k)' <=> Executing(k)
      BY DEF Executing
    <3>. QED BY <3>1, CountKept
  <2>. QED BY <2>1, <2>2, <2>3, <2>4
<1>. QED BY <1>1, <1>2, <1>3, <1>4, <1>5, <1>6, <1>7 DEF Next

(* NothingIsStranded: for any number of jobs, backends and profiles, through *)
(* cancellations, fatal errors, removed backends, policy changes and stops,  *)
(* no caller holds a pending future that nobody will settle, and no worker   *)
(* sleeps on work it may take (Scheduler.submit, _worker, _degrade,          *)
(* update_executors, stop).                                                  *)
THEOREM NothingIsStranded == Spec => []NothingStranded
<1>1. SchedulerInv => NothingStranded
  BY DEF SchedulerInv, NothingStranded
<1>. QED BY <1>1, SchedulerInit, SchedulerNext, PTL DEF Spec

(* ShownIsTrue: the counts that are published are the jobs that execute or   *)
(* unwind, and the failure evidence is of backends that are there            *)
(* (_job_finished, _clear_degradation).                                      *)
THEOREM ShownIsTrue == Spec => []PublishedIsTrue
<1>1. SchedulerInv => PublishedIsTrue
  BY DEF SchedulerInv, PublishedIsTrue
<1>. QED BY <1>1, SchedulerInit, SchedulerNext, PTL DEF Spec

=============================================================================
