------------------------ MODULE PluginAdmissionProofs ------------------------
(* The pool's safety properties, for every set of jobs and profiles, every   *)
(* pool width, waiting bound and set of weights; and those of the parts      *)
(* beside it, as instances over variables of their own: the worker channel,  *)
(* the control socket, grants and settings, and the published snapshot.      *)
EXTENDS PluginAdmission, AdmissionParts, StrideQueueProofs, FiniteSetTheorems

USE DEF Stages, Terminal

(* TypeCorrect: every step of the pool keeps its tables well formed.         *)
THEOREM TypeCorrect == Spec => []TypeOK
<1>1. Init => TypeOK
  <2>1. Init => queue \in Queues(Profiles, Jobs)
    BY EmptyQueueType DEF Init
  <2>2. Init => /\ pc \in [Jobs -> Stages]
                /\ waiter \in [Jobs -> {"none", "pending", "granted", "cancelled"}]
                /\ running \in [Profiles -> Nat]
    BY DEF Init
  <2>3. Init => /\ mustCancel \in SUBSET Jobs /\ admitted \in SUBSET Profiles
                /\ weight \in [Profiles -> Weights]
                /\ saturated \in BOOLEAN /\ pumping \in BOOLEAN /\ quiet \in BOOLEAN
    BY DEF Init
  <2>. QED BY <2>1, <2>2, <2>3 DEF TypeOK
<1>2. ASSUME TypeOK, [Next]_vars PROVE TypeOK'
  <2>. USE <1>2, ProfileOfAssumption, WeightsAssumption DEF TypeOK
  <2>1. ASSUME NEW j \in Jobs, Submit(j) PROVE TypeOK'
    BY <2>1 DEF Submit, policy
  <2>2. ASSUME NEW j \in Jobs, Acquire(j) PROVE TypeOK'
    <3>1. queue' \in Queues(Profiles, Jobs)
      BY <2>2, PushType DEF Acquire
    <3>. QED BY <2>2, <3>1 DEF Acquire, StartPump, policy
  <2>3. ASSUME NEW j \in Jobs, AcquireRefused(j) PROVE TypeOK'
    BY <2>3 DEF AcquireRefused, policy
  <2>4. ASSUME NEW p \in Profiles, PumpServe(p) PROVE TypeOK'
    <3>1. p \in Present(queue) /\ weight[p] \in Int
      BY <2>4 DEF PumpServe, IsNext
    <3>2. queue' \in Queues(Profiles, Jobs)
      BY <2>4, <3>1, PoppedType DEF PumpServe
    <3>3. /\ pc' = pc /\ mustCancel' = mustCancel /\ policy' = policy
          /\ saturated' = saturated /\ pumping' = pumping /\ quiet' = quiet
      BY <2>4 DEF PumpServe
    <3>4. running' \in [Profiles -> Nat]
      BY <2>4 DEF PumpServe
    <3>5. waiter' \in [Jobs -> {"none", "pending", "granted", "cancelled"}]
      BY <2>4 DEF PumpServe
    <3>. QED BY <3>2, <3>3, <3>4, <3>5 DEF policy
  <2>5. ASSUME PumpEnd PROVE TypeOK'
    BY <2>5 DEF PumpEnd, policy
  <2>6. ASSUME NEW j \in Jobs, Resume(j) PROVE TypeOK'
    BY <2>6 DEF Resume, policy
  <2>7. ASSUME NEW j \in Jobs, Finish(j) PROVE TypeOK'
    BY <2>7 DEF Finish, Release, StartPump, policy
  <2>8. ASSUME NEW j \in Jobs, Cancel(j) PROVE TypeOK'
    BY <2>8 DEF Cancel, policy
  <2>9. ASSUME NEW j \in Jobs, NeverStarted(j) PROVE TypeOK'
    BY <2>9 DEF NeverStarted, policy
  <2>10. ASSUME NEW j \in Jobs, Unwind(j) PROVE TypeOK'
    <3>1. queue' \in Queues(Profiles, Jobs)
      BY <2>10, DiscardType DEF Unwind
    <3>2. /\ pc' \in [Jobs -> Stages] /\ UNCHANGED <<waiter, mustCancel, policy>>
          /\ UNCHANGED <<saturated, quiet>>
      BY <2>10 DEF Unwind
    <3>3. running' \in [Profiles -> Nat] /\ pumping' \in BOOLEAN
      <4>1. CASE waiter[j] = "granted"
        BY <2>10, <4>1 DEF Unwind, Release, StartPump
      <4>2. CASE waiter[j] # "granted"
        BY <2>10, <4>2 DEF Unwind
      <4>. QED BY <4>1, <4>2
    <3>. QED BY <3>1, <3>2, <3>3 DEF policy
  <2>11. ASSUME KickAny PROVE TypeOK'
    BY <2>11 DEF KickAny, Kick, StartPump, tasks
  <2>12. ASSUME GateAny PROVE TypeOK'
    BY <2>12 DEF GateAny, Gate, tasks
  <2>13. ASSUME PressureChange PROVE TypeOK'
    BY <2>13 DEF PressureChange, tasks, policy
  <2>14. CASE UNCHANGED vars
    BY <2>14 DEF vars, tasks, policy
  <2>. QED
    BY <2>1, <2>2, <2>3, <2>4, <2>5, <2>6, <2>7, <2>8, <2>9, <2>10, <2>11, <2>12,
       <2>13, <2>14 DEF Next, TaskStep, Pump
<1>. QED BY <1>1, <1>2, PTL DEF Spec

(* The queue moves only by a push, a pop of the next key, or a discard.      *)
LEMMA QueueSteps ==
    ASSUME TypeOK, [Next]_vars
    PROVE  \/ queue' = queue
           \/ \E j \in Jobs : Acquire(j) /\ queue' = Push(queue, ProfileOf[j], j)
           \/ \E p \in Profiles :
                /\ PumpServe(p)
                /\ IsNext(queue, admitted, p)
                /\ queue' = Popped(queue, admitted, p, weight[p])
           \/ \E j \in Jobs : Unwind(j) /\ queue' = Discard(queue, ProfileOf[j], j)
BY DEF Next, vars, TaskStep, Pump, Submit, Acquire, AcquireRefused, PumpServe,
       PumpEnd, Resume, Finish, Cancel, NeverStarted, Unwind, KickAny, Kick,
       GateAny, Gate, PressureChange

(* LagBounded: no policy history, cancellation or weight change ever puts    *)
(* two waiting profiles more than one full stride apart.                     *)
THEOREM LagBounded == Spec => []BoundedLag
<1>1. Init => BoundedLag
  BY DEF Init, BoundedLag, Level, Present, EmptyQueue
<1>2. ASSUME TypeOK, BoundedLag, [Next]_vars PROVE BoundedLag'
  <2>. USE <1>2, ProfileOfAssumption, WeightsAssumption DEF TypeOK, BoundedLag
  <2>1. CASE queue' = queue
    BY <2>1 DEF Level, Present
  <2>2. ASSUME NEW j \in Jobs, queue' = Push(queue, ProfileOf[j], j)
        PROVE  BoundedLag'
    <3>1. Level(Push(queue, ProfileOf[j], j))
      BY PushLevel
    <3>. QED BY <2>2, <3>1
  <2>3. ASSUME NEW p \in Profiles, IsNext(queue, admitted, p),
               queue' = Popped(queue, admitted, p, weight[p])
        PROVE  BoundedLag'
    <3>1. weight[p] \in Int
      OBVIOUS
    <3>2. Level(Popped(queue, admitted, p, weight[p]))
      BY <2>3, <3>1, PoppedLevel
    <3>. QED BY <2>3, <3>2
  <2>4. ASSUME NEW j \in Jobs, queue' = Discard(queue, ProfileOf[j], j)
        PROVE  BoundedLag'
    <3>1. Level(Discard(queue, ProfileOf[j], j))
      BY DiscardLevel
    <3>. QED BY <2>4, <3>1
  <2>. QED BY <2>1, <2>2, <2>3, <2>4, QueueSteps
<1>. QED BY <1>1, <1>2, TypeCorrect, PTL DEF Spec

-----------------------------------------------------------------------------
(* NoLostWaiter as a relation between the queues' items, the tasks' stages   *)
(* and their futures, and what pushing, popping and discarding do to it.     *)

Parked(at) == at \in {"acquiring", "waiting"}
Unserved(future) == future \in {"pending", "cancelled"}

Matched(it, at, future) ==
    /\ \A p \in Profiles : \A i \in DOMAIN it[p] :
        /\ ProfileOf[it[p][i]] = p
        /\ Parked(at[it[p][i]])
        /\ Unserved(future[it[p][i]])
    /\ \A p \in Profiles : Distinct(it[p])
    /\ \A j \in Jobs : Parked(at[j]) /\ future[j] = "pending" =>
        \E i \in DOMAIN it[ProfileOf[j]] : it[ProfileOf[j]][i] = j

LEMMA MatchedIsNoLostWaiter == NoLostWaiter <=> Matched(queue.items, pc, waiter)
BY DEF NoLostWaiter, QueueSound, QueueDistinct, QueueComplete, Matched, Queued,
       Parked, Unserved, Distinct

\* Tasks that are not queued, or hold a slot, may move as they like.
LEMMA MatchedStays ==
    ASSUME NEW it \in [Profiles -> Seq(Jobs)], NEW c, NEW w, Matched(it, c, w),
           NEW c2, NEW w2,
           \A j \in Jobs :
            /\ Parked(c[j]) /\ Unserved(w[j]) => Parked(c2[j]) /\ Unserved(w2[j])
            /\ Parked(c2[j]) /\ w2[j] = "pending" => Parked(c[j]) /\ w[j] = "pending"
    PROVE  Matched(it, c2, w2)
<1>1. \A p \in Profiles : \A i \in DOMAIN it[p] : it[p][i] \in Jobs
  OBVIOUS
<1>. QED BY <1>1 DEF Matched

LEMMA MatchedPush ==
    ASSUME NEW it \in [Profiles -> Seq(Jobs)], NEW c, NEW w, Matched(it, c, w),
           NEW j \in Jobs, NEW p, p = ProfileOf[j], NEW c2, NEW w2,
           ~Parked(c[j]), Parked(c2[j]), w2[j] = "pending",
           \A k \in Jobs \ {j} : c2[k] = c[k] /\ w2[k] = w[k]
    PROVE  Matched([it EXCEPT ![p] = Append(it[p], j)], c2, w2)
<1>. DEFINE s == it[p]
            a == Append(s, j)
            it2 == [it EXCEPT ![p] = a]
<1>1. p \in Profiles /\ s \in Seq(Jobs)
  BY ProfileOfAssumption
<1>2. /\ DOMAIN a = DOMAIN s \cup {Len(s) + 1} /\ Len(s) + 1 \notin DOMAIN s
      /\ a[Len(s) + 1] = j
      /\ \A i \in DOMAIN s : a[i] = s[i]
  BY <1>1
<1>3. it2[p] = a /\ \A r \in Profiles \ {p} : it2[r] = it[r]
  BY <1>1
<1>4. \A r \in Profiles : \A i \in DOMAIN it[r] :
        /\ it[r][i] \in Jobs /\ ProfileOf[it[r][i]] = r
        /\ Parked(c[it[r][i]]) /\ Unserved(w[it[r][i]])
  BY DEF Matched
<1>5. \A r \in Profiles : \A i \in DOMAIN it[r] : it[r][i] # j
  BY <1>4
<1>6. Distinct(s)
  BY <1>1 DEF Matched
<1>. HIDE DEF a, it2
<1>7. ASSUME NEW r \in Profiles, NEW i \in DOMAIN it2[r]
      PROVE  ProfileOf[it2[r][i]] = r /\ Parked(c2[it2[r][i]]) /\ Unserved(w2[it2[r][i]])
  <2>1. CASE r # p
    BY <1>3, <1>4, <1>5, <2>1
  <2>2. CASE r = p /\ i = Len(s) + 1
    BY <1>2, <1>3, <2>2 DEF Unserved
  <2>3. CASE r = p /\ i \in DOMAIN s
    BY <1>1, <1>2, <1>3, <1>4, <1>5, <2>3
  <2>. QED BY <1>2, <1>3, <2>1, <2>2, <2>3
<1>8. ASSUME NEW r \in Profiles PROVE Distinct(it2[r])
  <2>1. CASE r # p
    BY <1>3, <2>1 DEF Matched
  <2>2. CASE r = p
    <3>1. \A i \in DOMAIN s : s[i] # j
      BY <1>1, <1>5
    <3>. QED BY <1>2, <1>3, <1>6, <2>2, <3>1 DEF Distinct
  <2>. QED BY <2>1, <2>2
<1>9. ASSUME NEW k \in Jobs, Parked(c2[k]), w2[k] = "pending"
      PROVE  \E i \in DOMAIN it2[ProfileOf[k]] : it2[ProfileOf[k]][i] = k
  <2>1. CASE k = j
    BY <1>2, <1>3, <2>1
  <2>2. CASE k # j
    <3>1. PICK i \in DOMAIN it[ProfileOf[k]] : it[ProfileOf[k]][i] = k
      BY <1>9, <2>2 DEF Matched
    <3>2. ProfileOf[k] \in Profiles
      BY ProfileOfAssumption
    <3>3. CASE ProfileOf[k] = p
      <4>1. i \in DOMAIN a /\ a[i] = k
        BY <1>2, <3>1, <3>3
      <4>. QED BY <1>3, <3>3, <4>1
    <3>4. CASE ProfileOf[k] # p
      BY <1>3, <3>1, <3>2, <3>4
    <3>. QED BY <3>3, <3>4
  <2>. QED BY <2>1, <2>2
<1>10. Matched(it2, c2, w2)
  BY <1>7, <1>8, <1>9 DEF Matched
<1>. QED BY <1>10 DEF it2, a

LEMMA MatchedPop ==
    ASSUME NEW it \in [Profiles -> Seq(Jobs)], NEW c, NEW w, Matched(it, c, w),
           NEW p \in Profiles, it[p] # <<>>, NEW j, j = Head(it[p]), NEW w2,
           w2[j] # "pending", \A k \in Jobs \ {j} : w2[k] = w[k]
    PROVE  Matched([it EXCEPT ![p] = Tail(it[p])], c, w2)
<1>. DEFINE s == it[p]
            t == Tail(s)
            it2 == [it EXCEPT ![p] = t]
<1>1. s \in Seq(Jobs)
  OBVIOUS
<1>2. /\ Len(s) \in Nat /\ Len(s) >= 1 /\ DOMAIN s = 1..Len(s)
      /\ DOMAIN t = 1..(Len(s) - 1)
      /\ s[1] = j
      /\ \A i \in DOMAIN t : t[i] = s[i + 1]
  BY <1>1
<1>3. it2[p] = t /\ \A r \in Profiles \ {p} : it2[r] = it[r]
  OBVIOUS
<1>4. \A r \in Profiles : \A i \in DOMAIN it[r] :
        /\ it[r][i] \in Jobs /\ ProfileOf[it[r][i]] = r
        /\ Parked(c[it[r][i]]) /\ Unserved(w[it[r][i]])
  BY DEF Matched
<1>5. Distinct(s) /\ j \in Jobs /\ ProfileOf[j] = p
  <2>1. 1 \in DOMAIN s
    BY <1>2
  <2>. QED BY <1>2, <1>4, <2>1 DEF Matched
<1>. HIDE DEF t, it2
<1>6. \A i \in DOMAIN t : i + 1 \in DOMAIN s /\ t[i] = s[i + 1] /\ s[i + 1] # j
  <2>1. ASSUME NEW i \in DOMAIN t PROVE i + 1 \in DOMAIN s /\ i + 1 # 1 /\ 1 \in DOMAIN s
    BY <1>2
  <2>. QED BY <1>2, <1>5, <2>1 DEF Distinct
<1>7. ASSUME NEW r \in Profiles, NEW i \in DOMAIN it2[r]
      PROVE  ProfileOf[it2[r][i]] = r /\ Parked(c[it2[r][i]]) /\ Unserved(w2[it2[r][i]])
  <2>1. CASE r # p
    BY <1>3, <1>4, <1>5, <2>1
  <2>2. CASE r = p
    BY <1>3, <1>4, <1>6, <2>2
  <2>. QED BY <2>1, <2>2
<1>8. ASSUME NEW r \in Profiles PROVE Distinct(it2[r])
  <2>1. CASE r # p
    BY <1>3, <2>1 DEF Matched
  <2>2. ASSUME NEW m \in DOMAIN t, NEW n \in DOMAIN t, m # n PROVE t[m] # t[n]
    <3>1. m + 1 # n + 1
      BY <1>2, <2>2
    <3>. QED BY <1>5, <1>6, <3>1 DEF Distinct
  <2>. QED BY <1>3, <2>1, <2>2 DEF Distinct
<1>9. ASSUME NEW k \in Jobs, Parked(c[k]), w2[k] = "pending"
      PROVE  \E i \in DOMAIN it2[ProfileOf[k]] : it2[ProfileOf[k]][i] = k
  <2>1. k # j /\ w[k] = "pending" /\ ProfileOf[k] \in Profiles
    BY <1>9, ProfileOfAssumption
  <2>2. PICK i \in DOMAIN it[ProfileOf[k]] : it[ProfileOf[k]][i] = k
    BY <1>9, <2>1 DEF Matched
  <2>3. CASE ProfileOf[k] # p
    BY <1>3, <2>1, <2>2, <2>3
  <2>4. CASE ProfileOf[k] = p
    <3>1. i \in 1..Len(s) /\ s[i] = k /\ i # 1
      BY <1>2, <2>1, <2>2, <2>4
    <3>2. i - 1 \in DOMAIN t /\ (i - 1) + 1 = i
      BY <1>2, <3>1
    <3>3. t[i - 1] = k
      BY <1>2, <3>1, <3>2
    <3>. QED BY <1>3, <2>4, <3>2, <3>3
  <2>. QED BY <2>3, <2>4
<1>10. Matched(it2, c, w2)
  BY <1>7, <1>8, <1>9 DEF Matched
<1>. QED BY <1>10 DEF it2, t

LEMMA MatchedDiscard ==
    ASSUME NEW it \in [Profiles -> Seq(Jobs)], NEW c, NEW w, Matched(it, c, w),
           NEW j \in Jobs, NEW p, p = ProfileOf[j], NEW c2, ~Parked(c2[j]),
           \A k \in Jobs \ {j} : c2[k] = c[k]
    PROVE  Matched([it EXCEPT ![p] = Without(it[p], j)], c2, w)
<1>. DEFINE s == it[p]
            t == Without(s, j)
            it2 == [it EXCEPT ![p] = t]
<1>1. p \in Profiles /\ s \in Seq(Jobs)
  BY ProfileOfAssumption
<1>2. Distinct(s)
  BY <1>1 DEF Matched
<1>. HIDE DEF s
<1>3. /\ \A m \in DOMAIN t : t[m] # j /\ \E k \in DOMAIN s : s[k] = t[m]
      /\ Distinct(t)
      /\ \A k \in DOMAIN s : s[k] # j => \E m \in DOMAIN t : t[m] = s[k]
  <2>1. \A m \in DOMAIN Without(s, j) :
            Without(s, j)[m] # j /\ \E k \in DOMAIN s : s[k] = Without(s, j)[m]
    BY <1>1, <1>2, WithoutElems
  <2>2. Distinct(Without(s, j))
    BY <1>1, <1>2, WithoutElems
  <2>3. ASSUME NEW k \in DOMAIN s, s[k] # j
        PROVE  \E m \in DOMAIN Without(s, j) : Without(s, j)[m] = s[k]
    BY <1>1, <1>2, <2>3, WithoutKeeps
  <2>. QED BY <2>1, <2>2, <2>3
<1>. USE DEF s
<1>4. it2[p] = t /\ \A r \in Profiles \ {p} : it2[r] = it[r]
  BY <1>1
<1>5. \A r \in Profiles : \A i \in DOMAIN it[r] :
        /\ it[r][i] \in Jobs /\ ProfileOf[it[r][i]] = r
        /\ Parked(c[it[r][i]]) /\ Unserved(w[it[r][i]])
  BY DEF Matched
<1>. HIDE DEF t, it2
<1>7. ASSUME NEW r \in Profiles, NEW i \in DOMAIN it2[r]
      PROVE  ProfileOf[it2[r][i]] = r /\ Parked(c2[it2[r][i]]) /\ Unserved(w[it2[r][i]])
  <2>1. CASE r # p
    BY <1>4, <1>5, <2>1
  <2>2. CASE r = p
    <3>1. PICK k \in DOMAIN s : s[k] = t[i] /\ t[i] # j
      BY <1>3, <1>4, <2>2
    <3>. QED BY <1>1, <1>4, <1>5, <2>2, <3>1
  <2>. QED BY <2>1, <2>2
<1>8. ASSUME NEW r \in Profiles PROVE Distinct(it2[r])
  BY <1>3, <1>4 DEF Matched
<1>9. ASSUME NEW k \in Jobs, Parked(c2[k]), w[k] = "pending"
      PROVE  \E i \in DOMAIN it2[ProfileOf[k]] : it2[ProfileOf[k]][i] = k
  <2>1. k # j /\ Parked(c[k]) /\ ProfileOf[k] \in Profiles
    BY <1>9, ProfileOfAssumption
  <2>2. PICK i \in DOMAIN it[ProfileOf[k]] : it[ProfileOf[k]][i] = k
    BY <1>9, <2>1 DEF Matched
  <2>3. CASE ProfileOf[k] # p
    BY <1>4, <2>1, <2>2, <2>3
  <2>4. CASE ProfileOf[k] = p
    BY <1>3, <1>4, <2>1, <2>2, <2>4
  <2>. QED BY <2>3, <2>4
<1>10. Matched(it2, c2, w)
  BY <1>7, <1>8, <1>9 DEF Matched
<1>. QED BY <1>10 DEF it2, t

(* WaitersKept: a job awaiting its future is always in its profile's queue,  *)
(* once, and no queue holds a job that finished, runs or never started,      *)
(* whatever cancellations, grants and releases interleave.                   *)
THEOREM WaitersKept == Spec => []NoLostWaiter
<1>1. Init => NoLostWaiter
  BY DEF Init, NoLostWaiter, QueueSound, QueueDistinct, QueueComplete, EmptyQueue, Queued
<1>2. ASSUME TypeOK, NoLostWaiter, [Next]_vars PROVE NoLostWaiter'
  <2>0. /\ queue \in Queues(Profiles, Jobs) /\ weight \in [Profiles -> Int]
        /\ pc \in [Jobs -> Stages]
        /\ waiter \in [Jobs -> {"none", "pending", "granted", "cancelled"}]
    BY <1>2, WeightsAssumption DEF TypeOK
  <2>1. SUFFICES Matched(queue'.items, pc', waiter')
    BY DEF NoLostWaiter, QueueSound, QueueDistinct, QueueComplete, Matched, Queued,
           Parked, Unserved, Distinct
  <2>2. Matched(queue.items, pc, waiter)
    BY <1>2, MatchedIsNoLostWaiter
  <2>3. queue.items \in [Profiles -> Seq(Jobs)]
    BY <2>0 DEF Queues
  <2>4. ASSUME NEW j \in Jobs, Acquire(j) PROVE Matched(queue'.items, pc', waiter')
    <3>. DEFINE p == ProfileOf[j]
    <3>0. p \in Profiles
      BY ProfileOfAssumption
    <3>. HIDE DEF p
    <3>1. queue'.items = [queue.items EXCEPT ![p] = Append(queue.items[p], j)]
      <4>1. Push(queue, p, j).items = [queue.items EXCEPT ![p] = Append(queue.items[p], j)]
        BY <2>0, <3>0, PushItems
      <4>. QED BY <2>4, <4>1 DEF Acquire, p
    <3>2. /\ ~Parked(pc[j]) /\ Parked(pc'[j]) /\ waiter'[j] = "pending"
          /\ \A k \in Jobs \ {j} : pc'[k] = pc[k] /\ waiter'[k] = waiter[k]
      BY <2>0, <2>4 DEF Acquire, Parked
    <3>3. Matched([queue.items EXCEPT ![p] = Append(queue.items[p], j)], pc', waiter')
      <4>1. p = ProfileOf[j]
        BY DEF p
      <4>. DEFINE it == queue.items
      <4>2. it \in [Profiles -> Seq(Jobs)] /\ Matched(it, pc, waiter)
        BY <2>2, <2>3
      <4>. HIDE DEF it
      <4>3. Matched([it EXCEPT ![p] = Append(it[p], j)], pc', waiter')
        BY <3>2, <4>1, <4>2, MatchedPush
      <4>. QED BY <4>3 DEF it
    <3>. QED BY <3>1, <3>3
  <2>5. ASSUME NEW p \in Profiles, PumpServe(p) PROVE Matched(queue'.items, pc', waiter')
    <3>. DEFINE j == Head(queue.items[p])
    <3>1. p \in Present(queue) /\ weight[p] \in Int
      BY <2>0, <2>5 DEF PumpServe, IsNext
    <3>2. queue.items[p] # <<>>
      BY <3>1 DEF Present
    <3>3. queue'.items = [queue.items EXCEPT ![p] = Tail(queue.items[p])]
      <4>1. Popped(queue, admitted, p, weight[p]).items =
                [queue.items EXCEPT ![p] = Tail(queue.items[p])]
        BY <2>0, <3>1, PoppedItems
      <4>. QED BY <2>5, <4>1 DEF PumpServe
    <3>4. j \in Jobs
      BY <2>3, <3>2
    <3>5. /\ pc' = pc /\ waiter'[j] # "pending"
          /\ \A k \in Jobs \ {j} : waiter'[k] = waiter[k]
      BY <2>0, <2>5, <3>4 DEF PumpServe
    <3>. HIDE DEF j
    <3>6. j = Head(queue.items[p])
      BY DEF j
    <3>7. Matched([queue.items EXCEPT ![p] = Tail(queue.items[p])], pc, waiter')
      BY <2>2, <2>3, <3>2, <3>5, <3>6, MatchedPop
    <3>. QED BY <3>3, <3>5, <3>7
  <2>6. ASSUME NEW j \in Jobs, Unwind(j) PROVE Matched(queue'.items, pc', waiter')
    <3>. DEFINE p == ProfileOf[j]
    <3>0. p \in Profiles
      BY ProfileOfAssumption
    <3>. HIDE DEF p
    <3>1. queue'.items = [queue.items EXCEPT ![p] = Without(queue.items[p], j)]
      <4>1. Discard(queue, p, j).items = [queue.items EXCEPT ![p] = Without(queue.items[p], j)]
        BY <2>0, <3>0, DiscardItems
      <4>. QED BY <2>6, <4>1 DEF Unwind, p
    <3>2. waiter' = waiter /\ ~Parked(pc'[j]) /\ \A k \in Jobs \ {j} : pc'[k] = pc[k]
      BY <2>0, <2>6 DEF Unwind, Parked
    <3>3. Matched([queue.items EXCEPT ![p] = Without(queue.items[p], j)], pc', waiter)
      BY <2>2, <2>3, <3>2, MatchedDiscard DEF p
    <3>. QED BY <3>1, <3>2, <3>3
  <2>7. ASSUME queue' = queue,
               \A j \in Jobs :
                /\ Parked(pc[j]) /\ Unserved(waiter[j]) => Parked(pc'[j]) /\ Unserved(waiter'[j])
                /\ Parked(pc'[j]) /\ waiter'[j] = "pending" => Parked(pc[j]) /\ waiter[j] = "pending"
        PROVE  Matched(queue'.items, pc', waiter')
    <3>1. Matched(queue.items, pc', waiter')
      BY <2>2, <2>3, <2>7, MatchedStays
    <3>. QED BY <2>7, <3>1
  <2>. USE <2>0 DEF Parked, Unserved
  <2>8. ASSUME NEW j \in Jobs, Submit(j) \/ AcquireRefused(j) \/ Resume(j) \/ Finish(j)
                                \/ NeverStarted(j)
        PROVE  Matched(queue'.items, pc', waiter')
    BY <2>7, <2>8 DEF Submit, AcquireRefused, Resume, Finish, NeverStarted
  <2>9. ASSUME NEW j \in Jobs, Cancel(j) PROVE Matched(queue'.items, pc', waiter')
    BY <2>7, <2>9 DEF Cancel
  <2>10. ASSUME PumpEnd PROVE Matched(queue'.items, pc', waiter')
    BY <2>7, <2>10 DEF PumpEnd
  <2>11. ASSUME UNCHANGED <<tasks, queue>> PROVE Matched(queue'.items, pc', waiter')
    BY <2>7, <2>11 DEF tasks
  <2>12. KickAny \/ GateAny \/ PressureChange \/ UNCHANGED vars => UNCHANGED <<tasks, queue>>
    BY DEF KickAny, Kick, GateAny, Gate, PressureChange, vars
  <2>. QED
    BY <1>2, <2>4, <2>5, <2>6, <2>8, <2>9, <2>10, <2>11, <2>12 DEF Next, TaskStep, Pump
<1>. QED BY <1>1, <1>2, TypeCorrect, PTL DEF Spec

(* SlotsUsed: outside a pump, with no silent change since the last one, a    *)
(* free slot means that no admitted profile is waiting.                      *)
THEOREM SlotsUsed == Spec => []WorkConserving
<1>1. Init => WorkConserving
  BY DEF Init, WorkConserving, Present, EmptyQueue
<1>2. ASSUME TypeOK, WorkConserving, [Next]_vars PROVE WorkConserving'
  <2>. USE <1>2 DEF TypeOK
  <2>1. CASE PumpEnd
    BY <2>1 DEF PumpEnd, WorkConserving, Slots, Width, policy
  <2>2. CASE pumping' \/ ~quiet'
    BY <2>2 DEF WorkConserving
  <2>3. CASE UNCHANGED <<queue, running, admitted, saturated, pumping, quiet>>
    BY <2>3 DEF WorkConserving, Slots, Width
  <2>4. CASE \E j \in Jobs : Unwind(j)
    <3>1. PICK j \in Jobs : Unwind(j)
      BY <2>4
    <3>2. CASE waiter[j] = "granted"
      BY <2>2, <3>1, <3>2 DEF Unwind, StartPump
    <3>3. CASE waiter[j] # "granted"
      <4>1. UNCHANGED <<running, policy, saturated, pumping, quiet>>
        BY <3>1, <3>3 DEF Unwind
      <4>2. queue' = Discard(queue, ProfileOf[j], j)
        BY <3>1 DEF Unwind
      <4>3. Present(queue') \subseteq Present(queue)
        BY <4>2, DiscardPresent, ProfileOfAssumption
      <4>. QED BY <4>1, <4>3 DEF WorkConserving, Slots, Width, policy
    <3>. QED BY <3>2, <3>3
  <2>5. ASSUME NEW j \in Jobs, TaskStep(j) PROVE WorkConserving'
    BY <2>2, <2>3, <2>4, <2>5 DEF TaskStep, Submit, Acquire, AcquireRefused, Resume,
       Finish, Cancel, NeverStarted, StartPump, policy
  <2>6. CASE (\E p \in Profiles : PumpServe(p)) \/ KickAny \/ GateAny \/ PressureChange
    BY <2>2, <2>6 DEF PumpServe, KickAny, Kick, GateAny, Gate, PressureChange, StartPump
  <2>7. CASE UNCHANGED vars
    BY <2>3, <2>7 DEF vars, policy
  <2>. QED BY <2>1, <2>5, <2>6, <2>7 DEF Next, Pump
<1>. QED BY <1>1, <1>2, TypeCorrect, PTL DEF Spec

-----------------------------------------------------------------------------
(* The slots a table of counts stands for, and what taking and giving back   *)
(* one does to their number.                                                 *)

SlotsOf(r) == UNION {{p} \X (1..r[p]) : p \in Profiles}

LEMMA SlotsTake ==
    ASSUME NEW r \in [Profiles -> Nat], NEW p \in Profiles, IsFiniteSet(SlotsOf(r))
    PROVE  /\ IsFiniteSet(SlotsOf([r EXCEPT ![p] = r[p] + 1]))
           /\ Cardinality(SlotsOf([r EXCEPT ![p] = r[p] + 1])) = Cardinality(SlotsOf(r)) + 1
<1>. DEFINE r2 == [r EXCEPT ![p] = r[p] + 1]
            new == <<p, r[p] + 1>>
<1>1. SlotsOf(r2) = SlotsOf(r) \cup {new}
  <2>1. ASSUME NEW e \in SlotsOf(r2) PROVE e \in SlotsOf(r) \cup {new}
    <3>0. PICK l \in Profiles : e \in {l} \X (1..r2[l])
      BY <2>1 DEF SlotsOf
    <3>1. PICK n \in 1..r2[l] : e = <<l, n>>
      BY <3>0
    <3>2. CASE n \in 1..r[l]
      BY <3>1, <3>2 DEF SlotsOf
    <3>3. CASE n \notin 1..r[l]
      <4>1. l = p /\ n = r[p] + 1
        BY <3>3
      <4>. QED BY <3>1, <4>1
    <3>. QED BY <3>2, <3>3
  <2>2. SlotsOf(r) \subseteq SlotsOf(r2)
    <3>1. \A l \in Profiles : 1..r[l] \subseteq 1..r2[l]
      OBVIOUS
    <3>. HIDE DEF r2
    <3>. QED BY <3>1 DEF SlotsOf
  <2>3. new \in SlotsOf(r2)
    <3>1. r[p] + 1 \in 1..r2[p]
      OBVIOUS
    <3>. HIDE DEF r2
    <3>. QED BY <3>1 DEF SlotsOf
  <2>. QED BY <2>1, <2>2, <2>3
<1>2. new \notin SlotsOf(r)
  BY DEF SlotsOf
<1>. HIDE DEF r2, new
<1>3. /\ IsFiniteSet(SlotsOf(r) \cup {new})
      /\ Cardinality(SlotsOf(r) \cup {new}) = Cardinality(SlotsOf(r)) + 1
  BY <1>2, FS_AddElement
<1>4. IsFiniteSet(SlotsOf(r2)) /\ Cardinality(SlotsOf(r2)) = Cardinality(SlotsOf(r)) + 1
  BY <1>1, <1>3
<1>. QED BY <1>4 DEF r2

LEMMA SlotsGive ==
    ASSUME NEW r \in [Profiles -> Nat], NEW p \in Profiles, IsFiniteSet(SlotsOf(r)),
           NEW n \in Nat, n <= r[p]
    PROVE  /\ IsFiniteSet(SlotsOf([r EXCEPT ![p] = n]))
           /\ Cardinality(SlotsOf([r EXCEPT ![p] = n])) <= Cardinality(SlotsOf(r))
<1>. DEFINE r2 == [r EXCEPT ![p] = n]
<1>1. \A l \in Profiles : 1..r2[l] \subseteq 1..r[l]
  OBVIOUS
<1>. HIDE DEF r2
<1>2. SlotsOf(r2) \subseteq SlotsOf(r)
  BY <1>1 DEF SlotsOf
<1>3. IsFiniteSet(SlotsOf(r2)) /\ Cardinality(SlotsOf(r2)) <= Cardinality(SlotsOf(r))
  BY <1>2, FS_Subset
<1>. QED BY <1>3 DEF r2

(* SlotsFinite is PoolBounded strengthened so that its cardinality means     *)
(* something: there are finitely many slots, whatever the set of profiles.   *)
SlotsFinite == IsFiniteSet(SlotsOf(running)) /\ Cardinality(SlotsOf(running)) <= MaxConcurrent

(* NeverOverWidth: the pool never runs more than MaxConcurrent worker calls, *)
(* however the host's pressure and the pump interleave.                      *)
THEOREM NeverOverWidth == Spec => []PoolBounded
<1>1. Init => SlotsFinite
  <2>1. SUFFICES ASSUME Init PROVE SlotsFinite
    OBVIOUS
  <2>2. SlotsOf(running) = {}
    <3>1. \A p \in Profiles : 1..running[p] = {}
      BY <2>1 DEF Init
    <3>. QED BY <3>1 DEF SlotsOf
  <2>. QED BY <2>2, FS_EmptySet, MaxConcurrentAssumption DEF SlotsFinite
<1>2. ASSUME TypeOK, SlotsFinite, [Next]_vars PROVE SlotsFinite'
  <2>0. running \in [Profiles -> Nat] /\ Cardinality(SlotsOf(running)) \in Nat
    BY <1>2, FS_CardinalityType DEF TypeOK, SlotsFinite
  <2>1. CASE running' = running
    BY <1>2, <2>1 DEF SlotsFinite, SlotsOf
  <2>2. ASSUME NEW p \in Profiles, running' = [running EXCEPT ![p] = @ + 1],
               Cardinality(Slots) < Width
        PROVE  SlotsFinite'
    <3>1. /\ IsFiniteSet(SlotsOf([running EXCEPT ![p] = running[p] + 1]))
          /\ Cardinality(SlotsOf([running EXCEPT ![p] = running[p] + 1])) =
                Cardinality(SlotsOf(running)) + 1
      BY <1>2, <2>0, SlotsTake DEF SlotsFinite
    <3>2. IsFiniteSet(SlotsOf(running')) /\ Cardinality(SlotsOf(running')) =
                Cardinality(SlotsOf(running)) + 1
      BY <2>2, <3>1
    <3>3. Cardinality(SlotsOf(running)) < Width /\ Width <= MaxConcurrent /\ Width \in Nat
      BY <2>2, MaxConcurrentAssumption DEF Width, Slots, SlotsOf
    <3>4. Cardinality(SlotsOf(running)) + 1 <= MaxConcurrent
      BY <2>0, <3>3, MaxConcurrentAssumption
    <3>. QED BY <3>2, <3>4 DEF SlotsFinite
  <2>3. ASSUME NEW p \in Profiles, Release(p) PROVE SlotsFinite'
    <3>. DEFINE n == IF running[p] > 1 THEN running[p] - 1 ELSE 0
    <3>1. n \in Nat /\ n <= running[p] /\ running' = [running EXCEPT ![p] = n]
      BY <2>0, <2>3 DEF Release
    <3>. HIDE DEF n
    <3>2. /\ IsFiniteSet(SlotsOf([running EXCEPT ![p] = n]))
          /\ Cardinality(SlotsOf([running EXCEPT ![p] = n])) <= Cardinality(SlotsOf(running))
      BY <1>2, <2>0, <3>1, SlotsGive DEF SlotsFinite
    <3>3. /\ IsFiniteSet(SlotsOf(running'))
          /\ Cardinality(SlotsOf(running')) <= Cardinality(SlotsOf(running))
      BY <3>1, <3>2
    <3>4. Cardinality(SlotsOf(running')) \in Nat
      BY <3>3, FS_CardinalityType
    <3>. QED BY <1>2, <2>0, <3>3, <3>4, MaxConcurrentAssumption DEF SlotsFinite
  <2>4. \/ running' = running
        \/ \E p \in Profiles : /\ running' = [running EXCEPT ![p] = @ + 1]
                               /\ Cardinality(Slots) < Width
        \/ \E p \in Profiles : Release(p)
    BY <1>2, ProfileOfAssumption DEF Next, vars, TaskStep, Pump, Submit, Acquire,
       AcquireRefused, PumpServe, PumpEnd, Resume, Finish, Cancel, NeverStarted, Unwind,
       KickAny, Kick, GateAny, Gate, PressureChange
  <2>. QED BY <2>1, <2>2, <2>3, <2>4
<1>3. SlotsFinite => PoolBounded
  BY DEF SlotsFinite, PoolBounded, Slots, SlotsOf
<1>. QED BY <1>1, <1>2, <1>3, TypeCorrect, PTL DEF Spec

-----------------------------------------------------------------------------
(* The jobs of profile p that hold a slot.                                   *)
HoldersOf(p) == {j \in Jobs : ProfileOf[j] = p /\ Holds(j)}

(* NoSlotLeaks: the pool's count of a profile is the number of its jobs that *)
(* hold a slot, in every reachable state.                                    *)
THEOREM NoSlotLeaks == Spec => []SlotsAccounted
<1>1. Init => SlotsAccounted
  <2>1. SUFFICES ASSUME Init, NEW p \in Profiles
                 PROVE  running[p] = Cardinality({j \in Jobs : ProfileOf[j] = p /\ Holds(j)})
    BY DEF SlotsAccounted
  <2>2. {j \in Jobs : ProfileOf[j] = p /\ Holds(j)} = {}
    BY <2>1 DEF Init, Holds, Queued
  <2>. QED BY <2>1, <2>2, FS_EmptySet DEF Init
<1>2. ASSUME TypeOK, NoLostWaiter, SlotsAccounted, [Next]_vars PROVE SlotsAccounted'
  <2>0. /\ queue \in Queues(Profiles, Jobs) /\ running \in [Profiles -> Nat]
        /\ pc \in [Jobs -> Stages]
        /\ waiter \in [Jobs -> {"none", "pending", "granted", "cancelled"}]
    BY <1>2 DEF TypeOK
  <2>1. \A p \in Profiles : /\ running[p] = Cardinality(HoldersOf(p))
                             /\ IsFiniteSet(HoldersOf(p))
    <3>1. ASSUME NEW p \in Profiles PROVE IsFiniteSet(HoldersOf(p))
      <4>1. HoldersOf(p) \in SUBSET Jobs
        BY DEF HoldersOf
      <4>. HIDE DEF HoldersOf
      <4>. QED BY <4>1, FS_Subset, JobsAssumption
    <3>. QED BY <1>2, <3>1 DEF SlotsAccounted, HoldersOf
  <2>2. SUFFICES ASSUME NEW p \in Profiles PROVE running'[p] = Cardinality(HoldersOf(p)')
    BY DEF SlotsAccounted, HoldersOf
  <2>3. ASSUME running'[p] = running[p], \A j \in Jobs : ProfileOf[j] = p => (Holds(j)' <=> Holds(j))
        PROVE  running'[p] = Cardinality(HoldersOf(p)')
    <3>1. HoldersOf(p)' = HoldersOf(p)
      BY <2>3 DEF HoldersOf
    <3>. HIDE DEF HoldersOf
    <3>. QED BY <2>1, <2>3, <3>1
  <2>4. ASSUME NEW j \in Jobs, running' = [running EXCEPT ![ProfileOf[j]] = @ + 1],
               ~Holds(j), Holds(j)', \A k \in Jobs \ {j} : Holds(k)' <=> Holds(k)
        PROVE  running'[p] = Cardinality(HoldersOf(p)')
    <3>1. CASE ProfileOf[j] = p
      <4>1. HoldersOf(p)' = HoldersOf(p) \cup {j} /\ j \notin HoldersOf(p)
        BY <2>4, <3>1 DEF HoldersOf
      <4>2. running'[p] = running[p] + 1
        BY <2>0, <2>4, <3>1
      <4>. HIDE DEF HoldersOf
      <4>3. Cardinality(HoldersOf(p) \cup {j}) = Cardinality(HoldersOf(p)) + 1
        BY <2>1, <4>1, FS_AddElement
      <4>. QED BY <2>1, <4>1, <4>2, <4>3
    <3>2. CASE ProfileOf[j] # p
      <4>1. running'[p] = running[p]
        BY <2>0, <2>4, <3>2
      <4>. QED BY <2>3, <2>4, <3>2, <4>1
    <3>. QED BY <3>1, <3>2
  <2>5. ASSUME NEW j \in Jobs, Release(ProfileOf[j]),
               Holds(j), ~Holds(j)', \A k \in Jobs \ {j} : Holds(k)' <=> Holds(k)
        PROVE  running'[p] = Cardinality(HoldersOf(p)')
    <3>1. CASE ProfileOf[j] = p
      <4>1. HoldersOf(p)' = HoldersOf(p) \ {j} /\ j \in HoldersOf(p)
        BY <2>5, <3>1 DEF HoldersOf
      <4>. HIDE DEF HoldersOf
      <4>2. Cardinality(HoldersOf(p) \ {j}) = Cardinality(HoldersOf(p)) - 1
        BY <2>1, <4>1, FS_RemoveElement
      <4>3. running[p] # 0
        BY <2>1, <4>1, FS_EmptySet
      <4>4. running'[p] = running[p] - 1
        BY <2>0, <2>5, <3>1, <4>3 DEF Release
      <4>. QED BY <2>1, <4>1, <4>2, <4>4
    <3>2. CASE ProfileOf[j] # p
      <4>1. running'[p] = running[p]
        BY <2>0, <2>5, <3>2 DEF Release
      <4>. QED BY <2>3, <2>5, <3>2, <4>1
    <3>. QED BY <3>1, <3>2
  <2>. USE <2>0 DEF Holds, Queued
  <2>6. ASSUME NEW j \in Jobs, Submit(j) \/ Acquire(j) \/ AcquireRefused(j) \/ Resume(j)
                                \/ NeverStarted(j)
        PROVE  running'[p] = Cardinality(HoldersOf(p)')
    BY <2>3, <2>6 DEF Submit, Acquire, AcquireRefused, Resume, NeverStarted
  <2>7. ASSUME NEW j \in Jobs, Cancel(j) PROVE running'[p] = Cardinality(HoldersOf(p)')
    BY <2>3, <2>7 DEF Cancel
  <2>8. ASSUME PumpEnd PROVE running'[p] = Cardinality(HoldersOf(p)')
    BY <2>3, <2>8 DEF PumpEnd
  <2>9. ASSUME NEW j \in Jobs, Finish(j) PROVE running'[p] = Cardinality(HoldersOf(p)')
    BY <2>5, <2>9 DEF Finish
  <2>10. ASSUME NEW j \in Jobs, Unwind(j) PROVE running'[p] = Cardinality(HoldersOf(p)')
    <3>1. CASE waiter[j] = "granted"
      BY <2>5, <2>10, <3>1 DEF Unwind
    <3>2. CASE waiter[j] # "granted"
      <4>1. running' = running /\ \A k \in Jobs : Holds(k)' <=> Holds(k)
        BY <2>10, <3>2 DEF Unwind
      <4>. QED BY <2>3, <4>1
    <3>. QED BY <3>1, <3>2
  <2>11. ASSUME NEW q \in Profiles, PumpServe(q) PROVE running'[p] = Cardinality(HoldersOf(p)')
    <3>1. queue.items[q] \in Seq(Jobs) /\ queue.items[q] # <<>>
      BY <2>11 DEF PumpServe, IsNext, Present, Queues
    <3>0. PICK j \in Jobs : j = Head(queue.items[q])
      BY <3>1
    <3>2. 1 \in DOMAIN queue.items[q] /\ j = queue.items[q][1] /\ j \in Jobs
      BY <3>0, <3>1
    <3>3. ProfileOf[j] = q /\ Queued(j) /\ waiter[j] \in {"pending", "cancelled"}
      BY <1>2, <3>2 DEF NoLostWaiter, QueueSound
    <3>4. pc' = pc
      BY <2>11 DEF PumpServe
    <3>5. CASE waiter[j] = "cancelled"
      <4>1. running' = running /\ waiter' = waiter
        BY <2>11, <3>0, <3>5 DEF PumpServe
      <4>. QED BY <2>3, <3>4, <4>1
    <3>6. CASE waiter[j] # "cancelled"
      <4>1. running' = [running EXCEPT ![q] = @ + 1] /\ waiter' = [waiter EXCEPT ![j] = "granted"]
        BY <2>11, <3>0, <3>6 DEF PumpServe
      <4>2. ~Holds(j) /\ Holds(j)' /\ \A k \in Jobs \ {j} : Holds(k)' <=> Holds(k)
        BY <3>2, <3>3, <3>4, <3>6, <4>1
      <4>3. running' = [running EXCEPT ![ProfileOf[j]] = @ + 1]
        BY <3>3, <4>1
      <4>. QED BY <2>4, <4>2, <4>3
    <3>. QED BY <3>5, <3>6
  <2>12. ASSUME UNCHANGED <<tasks, running>> PROVE running'[p] = Cardinality(HoldersOf(p)')
    BY <2>3, <2>12 DEF tasks
  <2>13. KickAny \/ GateAny \/ PressureChange \/ UNCHANGED vars => UNCHANGED <<tasks, running>>
    BY DEF KickAny, Kick, GateAny, Gate, PressureChange, vars
  <2>. QED
    BY <1>2, <2>6, <2>7, <2>8, <2>9, <2>10, <2>11, <2>12, <2>13 DEF Next, TaskStep, Pump
<1>. QED BY <1>1, <1>2, TypeCorrect, WaitersKept, PTL DEF Spec

(* PoolKept: the pool's tables, counts and width are sound at every moment,  *)
(* for any jobs, profiles, weights and widths.                               *)
THEOREM PoolKept == Spec => []SlotsSound
<1>1. TypeOK /\ SlotsAccounted /\ PoolBounded => SlotsSound
  BY DEF SlotsSound
<1>. QED BY <1>1, TypeCorrect, NoSlotLeaks, NeverOverWidth, PTL

HIDE DEF Stages, Terminal

-----------------------------------------------------------------------------
(* What the ends of a sequence leave of it.                                  *)

LEMMA TailOf ==
    ASSUME NEW S, NEW s \in Seq(S), s # <<>>
    PROVE  /\ Tail(s) \in Seq(S) /\ Head(s) = s[1] /\ s[1] \in S /\ 1 \in DOMAIN s
           /\ \A i \in DOMAIN Tail(s) : i \in Nat /\ i + 1 \in DOMAIN s /\ Tail(s)[i] = s[i + 1] /\ i + 1 # 1
OBVIOUS

LEMMA AppendOf ==
    ASSUME NEW S, NEW s \in Seq(S), NEW e \in S
    PROVE  /\ Append(s, e) \in Seq(S) /\ Len(s) \in Nat /\ Len(Append(s, e)) = Len(s) + 1
           /\ \A i \in DOMAIN Append(s, e) :
                  i \in Nat /\ (\/ i \in DOMAIN s /\ i <= Len(s) /\ Append(s, e)[i] = s[i]
                                \/ i \notin DOMAIN s /\ i = Len(s) + 1 /\ Append(s, e)[i] = e)
OBVIOUS

LEMMA ConcatOf ==
    ASSUME NEW S, NEW s \in Seq(S), NEW t \in Seq(S)
    PROVE  /\ s \o t \in Seq(S) /\ Len(s) \in Nat /\ Len(t) \in Nat
           /\ \A i \in DOMAIN (s \o t) :
                  i \in Nat /\ (\/ i \in DOMAIN s /\ i <= Len(s) /\ (s \o t)[i] = s[i]
                                \/ /\ i \notin DOMAIN s /\ i > Len(s) /\ i <= Len(s) + Len(t)
                                   /\ i - Len(s) \in DOMAIN t /\ (s \o t)[i] = t[i - Len(s)])
OBVIOUS

-----------------------------------------------------------------------------
(* The worker channel.                                                       *)

(* The frames of the negotiated version.                                     *)
FramesTo(names, kinds) ==
    [kind : kinds, req : names, seq : Nat, final : BOOLEAN, version : {agreed}]
Asking == FramesTo(Requests \cup {Channel!Nobody}, {"execute", "cancel"})
Telling == FramesTo(Requests, {"progress", "result", "error"})

(* Until the session is agreed there is nothing but the two hellos.          *)
Quiet ==
    /\ half = Channel!Nobody
    /\ \A r \in Requests : call[r] = "new" /\ task[r] = "none" /\ parts[r] = <<>>
Handshake ==
    /\ link \in Channel!Links
    /\ link \in {"launched", "offered", "replied", "starting"} => Quiet
    /\ link = "launched" => toWorker = <<>> /\ toService = <<>>
    /\ link = "offered" => toWorker = <<Channel!Hello(ServiceVersions)>> /\ toService = <<>>
    /\ link = "replied" => toWorker = <<>> /\ toService = <<Channel!Hello(WorkerVersions)>>
    /\ link = "starting" => toWorker = <<>> /\ toService = <<>>
    /\ link = "ready" \/ (\E r \in Requests : call[r] # "new") =>
           toWorker \in Seq(Asking) /\ toService \in Seq(Telling)

CallsTyped ==
    /\ call \in [Requests -> {"new", "entered", "reading", "draining", "answered", "failed", "cancelled"}]
    /\ task \in [Requests -> {"none", "running", "asked", "done"}]
    /\ parts \in [Requests -> Seq(Telling)]
    /\ charged \in Nat

(* What a call collected is its own, in the order it was sent.               *)
PartsOwn ==
    /\ \A r \in Requests : \A k \in DOMAIN parts[r] : parts[r][k].req = r /\ parts[r][k].seq = k - 1
    /\ \A r \in Requests : call[r] = "answered" => parts[r] # <<>> /\ parts[r][Len(parts[r])].final

(* The last frame the worker writes for a request.                           *)
LastFrame(f) == f.kind = "error" \/ (f.kind = "result" /\ f.final)

(* While the worker is kept, whatever it still has to do or has already said *)
(* is for a call that reads: a request is on its way to the worker, or being *)
(* served, or answered in full, and its last frame is the last of its.       *)
PipesOwed ==
    /\ \A i \in DOMAIN toService : Channel!Reading(toService[i].req)
    /\ \A r \in Requests : Channel!Serving(r) => Channel!Reading(r)
    /\ \A r \in Requests : task[r] # "none" => call[r] \notin {"new", "entered"}
    /\ half # Channel!Nobody => half \in Requests /\ Channel!Reading(half)
AskedOnce ==
    \A i \in DOMAIN toWorker : toWorker[i].kind = "execute" =>
        /\ toWorker[i].req \in Requests
        /\ Channel!Reading(toWorker[i].req) /\ task[toWorker[i].req] = "none"
        /\ \A k \in DOMAIN toService : toService[k].req # toWorker[i].req
        /\ \A k \in DOMAIN toWorker :
               toWorker[k].kind = "execute" /\ toWorker[k].req = toWorker[i].req => k = i
LastIsLast ==
    \A i \in DOMAIN toService : LastFrame(toService[i]) =>
        /\ ~Channel!Serving(toService[i].req)
        /\ \A k \in DOMAIN toService : toService[k].req = toService[i].req => k <= i
PipesInv == Channel!Alive => PipesOwed /\ AskedOnce /\ LastIsLast

ChannelInv == Handshake /\ CallsTyped /\ PartsOwn /\ PipesInv /\ Channel!ChargeReturned
-----------------------------------------------------------------------------

(* The instance counts as this module does.                                  *)
LEMMA ChannelCounts ==
    \A S : (Channel!IsFiniteSet(S) <=> IsFiniteSet(S)) /\ Channel!Cardinality(S) = Cardinality(S)
<1>1. \A S : Channel!IsFiniteSet(S) <=> IsFiniteSet(S)
  BY DEF Channel!IsFiniteSet, IsFiniteSet
<1>2. \A S : Channel!Cardinality(S) = Cardinality(S)
  BY <1>1 DEF Channel!Cardinality, Cardinality
<1>. QED BY <1>1, <1>2

LEMMA ChannelStart == Channel!RequestsAssumption /\ Channel!Init => ChannelInv
<1>. SUFFICES ASSUME Channel!RequestsAssumption, Channel!Init PROVE ChannelInv
  OBVIOUS
<1>. USE DEF Channel!Init, Channel!Nobody
<1>1. Handshake
  BY DEF Handshake, Quiet, Channel!Links
<1>2. CallsTyped
  BY DEF CallsTyped
<1>3. PartsOwn
  BY DEF PartsOwn
<1>4. PipesInv
  BY DEF PipesInv, Channel!Alive
<1>5. Channel!ChargeReturned
  <2>1. {r \in Requests : call[r] \in {"entered", "reading"}} = {}
    OBVIOUS
  <2>2. Channel!Cardinality({}) = 0
    BY ChannelCounts, FS_EmptySet
  <2>. QED BY <2>1, <2>2 DEF Channel!ChargeReturned
<1>. QED BY <1>1, <1>2, <1>3, <1>4, <1>5 DEF ChannelInv

(* The concurrency charge.                                                   *)
Charging == {r \in Requests : call[r] \in {"entered", "reading"}}

LEMMA ChargeKept ==
    ASSUME Channel!RequestsAssumption, CallsTyped, Channel!ChargeReturned, NEW r \in Requests,
           \/ Charging' = Charging /\ charged' = charged
           \/ Channel!Uncharge(r) /\ Charging' = Charging \ {r}
           \/ r \notin Charging /\ Charging' = Charging \cup {r} /\ charged' = charged + 1
    PROVE  Channel!ChargeReturned' /\ charged' \in Nat
<1>1. IsFiniteSet(Charging) /\ Cardinality(Charging) = charged
  <2>1. IsFiniteSet(Requests) /\ Charging \subseteq Requests
    BY ChannelCounts DEF Charging, Channel!RequestsAssumption
  <2>2. charged = Channel!Cardinality(Charging)
    BY DEF Charging, Channel!ChargeReturned
  <2>3. charged = Cardinality(Charging)
    BY <2>2, ChannelCounts
  <2>4. IsFiniteSet(Charging)
    BY <2>1, FS_Subset
  <2>. QED BY <2>3, <2>4
<1>2. Channel!ChargeReturned' <=> charged' = Cardinality(Charging')
  <2>1. Channel!ChargeReturned' <=> charged' = Channel!Cardinality(Charging')
    BY DEF Charging, Channel!ChargeReturned
  <2>2. Channel!Cardinality(Charging') = Cardinality(Charging')
    BY ChannelCounts
  <2>. QED BY <2>1, <2>2
<1>3. Cardinality(Charging \ {r}) = IF r \in Charging THEN charged - 1 ELSE charged
  BY <1>1, FS_RemoveElement
<1>4. r \notin Charging => Cardinality(Charging \cup {r}) = charged + 1
  BY <1>1, FS_AddElement
<1>5. Channel!Uncharge(r) => charged' = IF r \in Charging THEN charged - 1 ELSE charged
  BY DEF Channel!Uncharge, Charging
<1>6. IsFiniteSet(Charging \ {r})
  BY <1>1, FS_RemoveElement
<1>7. Cardinality(Charging \ {r}) \in Nat
  BY <1>6, FS_CardinalityType
<1>8. charged \in Nat
  BY DEF CallsTyped
<1>9. charged' = Cardinality(Charging') /\ charged' \in Nat
  <2>1. CASE Charging' = Charging /\ charged' = charged
    BY <2>1, <1>1, <1>8
  <2>2. CASE Channel!Uncharge(r) /\ Charging' = Charging \ {r}
    BY <2>2, <1>3, <1>5, <1>7
  <2>3. CASE r \notin Charging /\ Charging' = Charging \cup {r} /\ charged' = charged + 1
    BY <2>3, <1>4, <1>8
  <2>. QED BY <2>1, <2>2, <2>3
<1>. QED BY <1>2, <1>9

-----------------------------------------------------------------------------
(* The steps, by what they do to the pipes.                                  *)

Frames == toWorker \in Seq(Asking) /\ toService \in Seq(Telling)
Owed == PipesOwed /\ AskedOnce /\ LastIsLast

LEMMA FramesNamed == Frames => \A i \in DOMAIN toService : toService[i].req \in Requests
<1>. SUFFICES ASSUME Frames, NEW i \in DOMAIN toService PROVE toService[i].req \in Requests
  OBVIOUS
<1>1. toService[i] \in Telling
  BY DEF Frames
<1>. QED BY <1>1 DEF Telling, FramesTo

(* The worker says something of a request it serves.                         *)
LEMMA TellKept ==
    ASSUME CallsTyped, Frames, Owed, NEW r \in Requests, Channel!Serving(r),
           NEW said \in Seq(Telling), \A k \in DOMAIN said : said[k].req = r,
           NEW t \in {"running", "asked", "done"},
           \A k \in DOMAIN said : LastFrame(said[k]) => k = Len(said) /\ t = "done",
           toService' = toService \o said,
           task' = [task EXCEPT ![r] = t],
           UNCHANGED <<call, toWorker, half, agreed>>
    PROVE  CallsTyped => Owed'
<1>. DEFINE now == toService \o said
<1>1. /\ \A i \in DOMAIN now :
             i \in Nat /\ (\/ i \in DOMAIN toService /\ i <= Len(toService) /\ now[i] = toService[i]
                           \/ /\ i \notin DOMAIN toService /\ i > Len(toService)
                              /\ i <= Len(toService) + Len(said)
                              /\ i - Len(toService) \in DOMAIN said /\ now[i] = said[i - Len(toService)])
      /\ Len(toService) \in Nat /\ Len(said) \in Nat
  BY ConcatOf DEF Frames
<1>2. \A i \in DOMAIN now : \/ i \in DOMAIN toService /\ now[i] = toService[i]
                            \/ i \notin DOMAIN toService /\ now[i].req = r
  BY <1>1
<1>3. \A i \in DOMAIN now : i \notin DOMAIN toService /\ LastFrame(now[i]) => i = Len(toService) + Len(said) /\ t = "done"
  <2>. SUFFICES ASSUME NEW i \in DOMAIN now, i \notin DOMAIN toService, LastFrame(now[i])
                PROVE  i = Len(toService) + Len(said) /\ t = "done"
    OBVIOUS
  <2>1. i - Len(toService) \in DOMAIN said /\ now[i] = said[i - Len(toService)] /\ i \in Nat
    BY <1>1
  <2>2. LastFrame(said[i - Len(toService)])
    BY <2>1
  <2>3. i - Len(toService) = Len(said) /\ t = "done"
    BY <2>1, <2>2
  <2>. QED BY <1>1, <2>1, <2>3
<1>4. \A i \in DOMAIN now : i \in Nat /\ i <= Len(toService) + Len(said)
  BY <1>1
<1>. HIDE DEF now
<1>5. toService' = now /\ Channel!Reading(r) /\ task[r] # "none"
  BY DEF now, Owed, PipesOwed, Channel!Serving
<1>6. \A q \in Requests : task'[q] = IF q = r THEN t ELSE task[q]
  BY DEF CallsTyped
<1>7. PipesOwed'
  <2>1. \A i \in DOMAIN now : Channel!Reading(now[i].req)
    BY <1>2, <1>5 DEF Owed, PipesOwed
  <2>2. \A q \in Requests : Channel!Serving(q)' => Channel!Reading(q)
    BY <1>5, <1>6 DEF Owed, PipesOwed, Channel!Serving
  <2>3. \A q \in Requests : task'[q] # "none" => call[q] \notin {"new", "entered"}
    BY <1>5, <1>6 DEF Owed, PipesOwed
  <2>. QED BY <1>5, <2>1, <2>2, <2>3 DEF Owed, PipesOwed, Channel!Reading
<1>8. AskedOnce'
  <2>. SUFFICES ASSUME NEW i \in DOMAIN toWorker, toWorker[i].kind = "execute"
                PROVE  /\ toWorker[i].req \in Requests
                       /\ Channel!Reading(toWorker[i].req) /\ task'[toWorker[i].req] = "none"
                       /\ \A k \in DOMAIN now : now[k].req # toWorker[i].req
                       /\ \A k \in DOMAIN toWorker :
                              toWorker[k].kind = "execute" /\ toWorker[k].req = toWorker[i].req => k = i
    BY <1>5 DEF AskedOnce, Channel!Reading
  <2>1. toWorker[i].req # r /\ toWorker[i].req \in Requests
    BY <1>5 DEF Owed, AskedOnce
  <2>. QED BY <1>2, <1>6, <2>1 DEF Owed, AskedOnce
<1>9. LastIsLast'
  <2>. SUFFICES ASSUME NEW i \in DOMAIN now, LastFrame(now[i])
                PROVE  /\ task'[now[i].req] \notin {"running", "asked"}
                       /\ \A k \in DOMAIN now : now[k].req = now[i].req => k <= i
    <3>1. LastIsLast' <=> \A i \in DOMAIN now : LastFrame(now[i]) =>
                /\ task'[now[i].req] \notin {"running", "asked"}
                /\ \A k \in DOMAIN now : now[k].req = now[i].req => k <= i
      BY <1>5 DEF LastIsLast, LastFrame, Channel!Serving
    <3>. QED BY <3>1
  <2>1. CASE i \in DOMAIN toService
    <3>1. now[i] = toService[i] /\ ~Channel!Serving(toService[i].req) /\ toService[i].req \in Requests
      BY <1>2, <2>1, FramesNamed DEF Owed, LastIsLast
    <3>2. toService[i].req # r
      BY <3>1
    <3>3. \A k \in DOMAIN now : now[k].req = now[i].req => k \in DOMAIN toService /\ now[k] = toService[k]
      BY <1>2, <3>1, <3>2
    <3>4. \A k \in DOMAIN now : now[k].req = now[i].req => k <= i
      BY <2>1, <3>1, <3>3 DEF Owed, LastIsLast
    <3>. QED BY <1>6, <3>1, <3>2, <3>4 DEF Channel!Serving
  <2>2. CASE i \notin DOMAIN toService
    <3>1. i = Len(toService) + Len(said) /\ t = "done" /\ now[i].req = r
      BY <1>2, <1>3, <2>2
    <3>. QED BY <1>4, <1>6, <3>1 DEF Channel!Serving
  <2>. QED BY <2>1, <2>2
<1>. QED BY <1>7, <1>8, <1>9 DEF Owed

(* A reader takes a frame of its own, and stops reading only at the last.    *)
LEMMA ReadKept ==
    ASSUME CallsTyped, Frames, Owed, NEW r \in Requests, toService # <<>>, Head(toService).req = r,
           Channel!Consumed, UNCHANGED <<task, agreed>>,
           \/ UNCHANGED call
           \/ LastFrame(Head(toService)) /\ \E x \in {"answered", "failed", "cancelled"} : call' = [call EXCEPT ![r] = x]
    PROVE  Owed'
<1>. DEFINE now == Tail(toService)
<1>1. /\ toService[1] = Head(toService) /\ 1 \in DOMAIN toService
      /\ \A i \in DOMAIN now : i \in Nat /\ i + 1 \in DOMAIN toService /\ now[i] = toService[i + 1] /\ i + 1 # 1
  BY TailOf DEF Frames
<1>. HIDE DEF now
<1>2. toService' = now /\ half' = Channel!Nobody /\ toWorker' = toWorker /\ task' = task
  BY DEF now, Channel!Consumed
<1>3. \A q \in Requests : q # r \/ UNCHANGED call => call'[q] = call[q]
  BY DEF CallsTyped
<1>4. ASSUME ~UNCHANGED call
      PROVE  /\ ~Channel!Serving(r) /\ \A i \in DOMAIN now : now[i].req # r
             /\ call'[r] \notin {"new", "entered"}
             /\ \A i \in DOMAIN toWorker : toWorker[i].kind = "execute" => toWorker[i].req # r
  <2>1. LastFrame(toService[1]) /\ toService[1].req = r
    BY <1>1, <1>4
  <2>2. \A k \in DOMAIN toService : toService[k].req = r => k <= 1
    BY <1>1, <2>1 DEF Owed, LastIsLast
  <2>3. \A i \in DOMAIN now : now[i].req # r
    BY <1>1, <2>2
  <2>4. ~Channel!Serving(r)
    BY <1>1, <2>1 DEF Owed, LastIsLast
  <2>5. \A i \in DOMAIN toWorker : toWorker[i].kind = "execute" => toWorker[i].req # r
    BY <1>1, <2>1 DEF Owed, AskedOnce
  <2>. QED BY <1>4, <2>3, <2>4, <2>5 DEF CallsTyped
<1>5. \A i \in DOMAIN now : now[i].req \in Requests /\ Channel!Reading(now[i].req)
  BY <1>1, FramesNamed DEF Owed, PipesOwed
<1>7. PipesOwed'
  <2>1. \A i \in DOMAIN now : call'[now[i].req] \in {"reading", "draining"}
    BY <1>3, <1>4, <1>5 DEF Channel!Reading
  <2>2. \A q \in Requests : Channel!Serving(q) => Channel!Reading(q)'
    BY <1>3, <1>4 DEF Owed, PipesOwed, Channel!Reading
  <2>3. \A q \in Requests : task[q] # "none" => call'[q] \notin {"new", "entered"}
    BY <1>3, <1>4 DEF Owed, PipesOwed
  <2>. QED BY <1>2, <2>1, <2>2, <2>3 DEF PipesOwed, Channel!Serving, Channel!Reading
<1>8. AskedOnce'
  <2>. SUFFICES ASSUME NEW i \in DOMAIN toWorker, toWorker[i].kind = "execute"
                PROVE  /\ toWorker[i].req \in Requests
                       /\ call'[toWorker[i].req] \in {"reading", "draining"} /\ task[toWorker[i].req] = "none"
                       /\ \A k \in DOMAIN now : now[k].req # toWorker[i].req
                       /\ \A k \in DOMAIN toWorker :
                              toWorker[k].kind = "execute" /\ toWorker[k].req = toWorker[i].req => k = i
    BY <1>2 DEF AskedOnce, Channel!Reading
  <2>1. toWorker[i].req \in Requests /\ Channel!Reading(toWorker[i].req)
    BY DEF Owed, AskedOnce
  <2>2. call'[toWorker[i].req] \in {"reading", "draining"}
    BY <1>3, <1>4, <2>1 DEF Channel!Reading
  <2>3. \A k \in DOMAIN now : now[k].req # toWorker[i].req
    BY <1>1 DEF Owed, AskedOnce
  <2>. QED BY <2>1, <2>2, <2>3 DEF Owed, AskedOnce
<1>9. LastIsLast'
  <2>. SUFFICES ASSUME NEW i \in DOMAIN now, LastFrame(now[i])
                PROVE  /\ ~Channel!Serving(now[i].req)
                       /\ \A k \in DOMAIN now : now[k].req = now[i].req => k <= i
    BY <1>2 DEF LastIsLast, LastFrame, Channel!Serving
  <2>1. i + 1 \in DOMAIN toService /\ now[i] = toService[i + 1] /\ i \in Nat
    BY <1>1
  <2>2. /\ ~Channel!Serving(now[i].req)
        /\ \A k \in DOMAIN toService : toService[k].req = now[i].req => k <= i + 1
    BY <2>1 DEF Owed, LastIsLast
  <2>3. ASSUME NEW k \in DOMAIN now, now[k].req = now[i].req PROVE k <= i
    <3>1. k \in Nat /\ k + 1 \in DOMAIN toService /\ toService[k + 1].req = now[i].req
      BY <1>1, <2>3
    <3>2. k + 1 <= i + 1
      BY <2>2, <3>1
    <3>. QED BY <2>1, <3>1, <3>2
  <2>. QED BY <2>2, <2>3
<1>. QED BY <1>7, <1>8, <1>9 DEF Owed

(* A session goes on until it is gone.                                       *)
LEMMA SessionKept ==
    ASSUME Handshake, CallsTyped, Channel!Alive \/ (\E r \in Requests : call[r] # "new")
    PROVE  /\ link \in {"ready", "gone"} /\ Frames
           /\ link' \in {link, "gone"} /\ Frames' => Handshake'
<1>1. Frames
  BY DEF Handshake, Frames, Channel!Alive
<1>2. link \in {"ready", "gone"}
  BY DEF Handshake, Quiet, Channel!Links, Channel!Alive
<1>3. ASSUME link' \in {link, "gone"}, Frames' PROVE Handshake'
  BY <1>2, <1>3 DEF Handshake, Frames, Channel!Links
<1>. QED BY <1>1, <1>2, <1>3

(* A call ends without an answer.                                            *)
LEMMA EndsKept ==
    ASSUME Channel!RequestsAssumption, CallsTyped, PartsOwn, Channel!ChargeReturned, NEW r \in Requests,
           NEW outcome \in {"failed", "cancelled"}, Channel!Ends(r, outcome),
           UNCHANGED <<parts, task, agreed>>
    PROVE  CallsTyped' /\ PartsOwn' /\ Channel!ChargeReturned'
<1>1. call' = [call EXCEPT ![r] = outcome] /\ Channel!Uncharge(r)
  BY DEF Channel!Ends
<1>2. \A q \in Requests : call'[q] = IF q = r THEN outcome ELSE call[q]
  BY <1>1 DEF CallsTyped
<1>3. Charging' = Charging \ {r}
  BY <1>2 DEF Charging
<1>4. Channel!ChargeReturned' /\ charged' \in Nat
  BY <1>1, <1>3, ChargeKept
<1>5. CallsTyped'
  BY <1>1, <1>4 DEF CallsTyped, Telling, FramesTo
<1>6. PartsOwn'
  BY <1>2 DEF PartsOwn
<1>. QED BY <1>4, <1>5, <1>6

-----------------------------------------------------------------------------
(* The handshake.                                                            *)

LEMMA HandshakeKept ==
    ASSUME ChannelInv,
           \/ Channel!ServiceOffers \/ Channel!WorkerReplies \/ Channel!ServiceAgrees
           \/ Channel!WorkerReady \/ Channel!StartGivenUp
    PROVE  ChannelInv'
<1>. USE DEF ChannelInv, Channel!service, Channel!worker, Channel!channel
<1>1. /\ Quiet /\ UNCHANGED <<half, call, charged, parts, task>>
      /\ link \in {"launched", "offered", "replied", "starting"}
  BY DEF Handshake, Channel!ServiceOffers, Channel!WorkerReplies, Channel!ServiceAgrees,
     Channel!WorkerReady, Channel!StartGivenUp
<1>2. Quiet' /\ \A r \in Requests : call'[r] = "new"
  BY <1>1 DEF Quiet, Channel!Nobody
<1>3. CallsTyped'
  <2>1. parts' \in [Requests -> Seq(Telling')]
    BY <1>1 DEF Quiet, CallsTyped
  <2>. QED BY <1>1, <2>1 DEF CallsTyped
<1>4. PartsOwn' /\ Channel!ChargeReturned'
  BY <1>1 DEF PartsOwn, Channel!ChargeReturned
<1>5. Handshake'
  <2>1. CASE Channel!ServiceOffers
    BY <1>2, <2>1 DEF Handshake, Channel!ServiceOffers, Channel!Links
  <2>2. CASE Channel!WorkerReplies
    BY <1>2, <2>2 DEF Handshake, Channel!WorkerReplies, Channel!Links
  <2>3. CASE Channel!ServiceAgrees
    BY <1>2, <2>3 DEF Handshake, Channel!ServiceAgrees, Channel!Links
  <2>4. CASE Channel!WorkerReady
    BY <1>2, <2>4 DEF Handshake, Channel!WorkerReady, Channel!Links
  <2>5. CASE Channel!StartGivenUp
    BY <1>2, <2>5 DEF Handshake, Channel!StartGivenUp, Channel!Links
  <2>. QED BY <2>1, <2>2, <2>3, <2>4, <2>5
<1>6. PipesInv'
  <2>1. CASE link' # "ready"
    BY <2>1 DEF PipesInv, Channel!Alive
  <2>2. CASE link' = "ready"
    <3>1. link = "starting" /\ UNCHANGED <<toWorker, toService>>
      BY <1>1, <2>2 DEF Channel!ServiceOffers, Channel!WorkerReplies, Channel!ServiceAgrees,
         Channel!WorkerReady, Channel!StartGivenUp
    <3>2. toWorker' = <<>> /\ toService' = <<>>
      BY <3>1 DEF Handshake
    <3>. QED BY <1>2, <3>2 DEF PipesInv, PipesOwed, AskedOnce, LastIsLast, Quiet, Channel!Serving,
         Channel!Nobody
  <2>. QED BY <2>1, <2>2
<1>. QED BY <1>3, <1>4, <1>5, <1>6

-----------------------------------------------------------------------------
(* The service's side of a session.                                          *)

(* A frame of either side is one the pipe carries.                           *)
LEMMA FrameTyped ==
    /\ \A r \in Requests : Channel!Frame("execute", r) \in Asking /\ Channel!Frame("cancel", r) \in Asking
    /\ Channel!Frame("cancel", Channel!Nobody) \in Asking
    /\ \A r \in Requests : Channel!Frame("progress", r) \in Telling /\ Channel!Frame("error", r) \in Telling
BY DEF Channel!Frame, Asking, Telling, FramesTo

LEMMA EnterKept ==
    ASSUME Channel!RequestsAssumption, ChannelInv, NEW r \in Requests, Channel!Enter(r)
    PROVE  ChannelInv'
<1>. USE DEF ChannelInv
<1>1. /\ call[r] = "new" /\ Channel!Alive
      /\ UNCHANGED <<link, agreed, toWorker, toService, half, turn, beaten, parts, task>>
  BY DEF Channel!Enter, Channel!channel, Channel!worker
<1>2. PICK x \in {"failed", "entered"} :
          /\ call' = [call EXCEPT ![r] = x]
          /\ charged' = IF x = "entered" THEN charged + 1 ELSE charged
  BY DEF Channel!Enter
<1>3. \A q \in Requests : call'[q] = IF q = r THEN x ELSE call[q]
  BY <1>2 DEF CallsTyped
<1>4. Channel!ChargeReturned' /\ charged' \in Nat
  <2>1. r \notin Charging /\ (x = "failed" => Charging' = Charging)
        /\ (x = "entered" => Charging' = Charging \cup {r})
    BY <1>1, <1>3 DEF Charging
  <2>. QED BY <1>2, <2>1, ChargeKept
<1>5. CallsTyped'
  BY <1>1, <1>2, <1>4 DEF CallsTyped, Telling, FramesTo
<1>6. PartsOwn'
  BY <1>1, <1>3 DEF PartsOwn
<1>7. Handshake'
  BY <1>1, SessionKept DEF Frames, Asking, Telling, FramesTo
<1>8. PipesInv'
  <2>1. Owed /\ Frames
    BY <1>1, SessionKept DEF PipesInv, Owed
  <2>2. \A q \in Requests : call[q] \in {"reading", "draining"} => call'[q] \in {"reading", "draining"}
    BY <1>1, <1>3
  <2>3. task[r] = "none"
    BY <1>1, <2>1 DEF Owed, PipesOwed, CallsTyped
  <2>4. PipesOwed'
    BY <1>1, <1>3, <2>1, <2>2, <2>3, FramesNamed
    DEF Owed, PipesOwed, Channel!Reading, Channel!Serving
  <2>5. AskedOnce'
    BY <1>1, <2>1, <2>2 DEF Owed, AskedOnce, Channel!Reading
  <2>6. LastIsLast'
    BY <1>1, <2>1 DEF Owed, LastIsLast, LastFrame, Channel!Serving
  <2>. QED BY <2>4, <2>5, <2>6 DEF PipesInv
<1>. QED BY <1>4, <1>5, <1>6, <1>7, <1>8

(* Only what a call reads and what it may be asked changes.                  *)
LEMMA AskKept ==
    ASSUME CallsTyped, Frames, Owed, NEW r \in Requests, NEW f \in Asking,
           toWorker' = Append(toWorker, f),
           UNCHANGED <<toService, half, task, agreed>>,
           \/ f.kind = "cancel"
           \/ f.kind = "execute" /\ f.req = r /\ call[r] = "entered",
           NEW x \in {"reading", "draining"}, call[r] \in {"entered", "reading"},
           call' = [call EXCEPT ![r] = x]
    PROVE  Owed'
<1>. DEFINE now == Append(toWorker, f)
<1>1. \A i \in DOMAIN now : i \in Nat /\ (\/ i \in DOMAIN toWorker /\ now[i] = toWorker[i]
                                          \/ i = Len(toWorker) + 1 /\ now[i] = f)
  BY AppendOf DEF Frames
<1>. HIDE DEF now
<1>2. toWorker' = now
  BY DEF now
<1>3. \A q \in Requests : call'[q] = IF q = r THEN x ELSE call[q]
  BY DEF CallsTyped
<1>4. \A q \in Requests : call[q] \in {"reading", "draining"} => call'[q] \in {"reading", "draining"}
  BY <1>3
<1>5. PipesOwed'
  BY <1>3, <1>4, FramesNamed DEF Owed, PipesOwed, Channel!Reading, Channel!Serving
<1>6. LastIsLast'
  BY DEF Owed, LastIsLast, LastFrame, Channel!Serving
<1>7. AskedOnce'
  <2>. SUFFICES ASSUME NEW i \in DOMAIN now, now[i].kind = "execute"
                PROVE  /\ now[i].req \in Requests
                       /\ call'[now[i].req] \in {"reading", "draining"} /\ task[now[i].req] = "none"
                       /\ \A k \in DOMAIN toService : toService[k].req # now[i].req
                       /\ \A k \in DOMAIN now :
                              now[k].kind = "execute" /\ now[k].req = now[i].req => k = i
    BY <1>2 DEF AskedOnce, Channel!Reading
  <2>1. \A k \in DOMAIN toWorker : toWorker[k].kind = "execute" =>
            toWorker[k].req \in Requests /\ call[toWorker[k].req] \in {"reading", "draining"}
    BY DEF Owed, AskedOnce, Channel!Reading
  <2>2. CASE i \in DOMAIN toWorker /\ now[i] = toWorker[i]
    <3>1. toWorker[i].req \in Requests /\ call'[toWorker[i].req] \in {"reading", "draining"}
      BY <1>4, <2>1, <2>2
    <3>2. \A k \in DOMAIN now : now[k].kind = "execute" /\ now[k].req = now[i].req => k = i
      BY <1>1, <2>1, <2>2 DEF Owed, AskedOnce
    <3>. QED BY <2>2, <3>1, <3>2 DEF Owed, AskedOnce
  <2>3. CASE i = Len(toWorker) + 1 /\ now[i] = f
    <3>1. f.req = r /\ call[r] = "entered" /\ call'[r] \in {"reading", "draining"}
      BY <1>3, <2>3
    <3>2. task[r] = "none" /\ \A k \in DOMAIN toService : toService[k].req # r
      BY <3>1 DEF Owed, PipesOwed, CallsTyped, Channel!Reading
    <3>3. \A k \in DOMAIN now : now[k].kind = "execute" /\ now[k].req = r => k = i
      BY <1>1, <2>1, <2>3, <3>1
    <3>. QED BY <2>3, <3>1, <3>2, <3>3
  <2>. QED BY <1>1, <2>2, <2>3
<1>. QED BY <1>5, <1>6, <1>7 DEF Owed

LEMMA SendKept ==
    ASSUME Channel!RequestsAssumption, ChannelInv, NEW r \in Requests, Channel!Send(r)
    PROVE  ChannelInv'
<1>. USE DEF ChannelInv
<1>1. /\ call[r] = "entered" /\ call' = [call EXCEPT ![r] = "reading"]
      /\ UNCHANGED <<link, agreed, toService, half, charged, beaten, parts, task>>
      /\ toWorker' = Append(toWorker, Channel!Frame("execute", r))
  BY DEF Channel!Send, Channel!worker
<1>2. \A q \in Requests : call'[q] = IF q = r THEN "reading" ELSE call[q]
  BY <1>1 DEF CallsTyped
<1>3. Channel!ChargeReturned' /\ charged' \in Nat
  <2>1. Charging' = Charging
    BY <1>1, <1>2 DEF Charging
  <2>. QED BY <1>1, <2>1, ChargeKept
<1>4. CallsTyped'
  BY <1>1, <1>3 DEF CallsTyped, Telling, FramesTo
<1>5. PartsOwn'
  BY <1>1, <1>2 DEF PartsOwn
<1>6. Frames
  BY <1>1, SessionKept
<1>7. Frames'
  BY <1>1, <1>6, FrameTyped, AppendOf DEF Frames, Asking, Telling, FramesTo
<1>8. Handshake'
  BY <1>1, <1>7, SessionKept
<1>9. PipesInv'
  <2>1. CASE Channel!Alive
    <3>1. Channel!Frame("execute", r).kind = "execute" /\ Channel!Frame("execute", r).req = r
      BY DEF Channel!Frame
    <3>2. Owed'
      BY <1>1, <1>6, <2>1, <3>1, FrameTyped, AskKept DEF PipesInv, Owed
    <3>. QED BY <3>2 DEF PipesInv, Owed
  <2>2. CASE ~Channel!Alive
    BY <1>1, <2>2 DEF PipesInv, Channel!Alive
  <2>. QED BY <2>1, <2>2
<1>. QED BY <1>3, <1>4, <1>5, <1>8, <1>9

LEMMA CancelledKept ==
    ASSUME Channel!RequestsAssumption, ChannelInv, NEW r \in Requests, Channel!Cancelled(r)
    PROVE  ChannelInv'
<1>. USE DEF ChannelInv
<1>1. /\ call[r] \in {"entered", "reading"} /\ Channel!Uncharge(r)
      /\ parts' = [parts EXCEPT ![r] = <<>>]
      /\ UNCHANGED <<agreed, toService, half, beaten, task>>
      /\ toWorker' = Append(toWorker, Channel!Frame("cancel", r))
  BY DEF Channel!Cancelled, Channel!worker
<1>2. PICK x \in {"cancelled", "draining"} :
          /\ call' = [call EXCEPT ![r] = x]
          /\ x = "cancelled" => link' = "gone"
          /\ x = "draining" => link' = link
  BY DEF Channel!Cancelled, Channel!ForceStop
<1>3. \A q \in Requests : /\ call'[q] = IF q = r THEN x ELSE call[q]
                          /\ parts'[q] = IF q = r THEN <<>> ELSE parts[q]
  BY <1>1, <1>2 DEF CallsTyped
<1>4. Channel!ChargeReturned' /\ charged' \in Nat
  <2>1. Charging' = Charging \ {r}
    BY <1>3 DEF Charging
  <2>. QED BY <1>1, <2>1, ChargeKept
<1>5. CallsTyped'
  <2>1. Telling' = Telling
    BY <1>1 DEF Telling, FramesTo
  <2>2. parts' \in [Requests -> Seq(Telling)]
    BY <1>1 DEF CallsTyped
  <2>. QED BY <1>1, <1>2, <1>4, <2>1, <2>2 DEF CallsTyped
<1>6. PartsOwn'
  BY <1>3 DEF PartsOwn
<1>7. Frames /\ link \in {"ready", "gone"}
  BY <1>1, SessionKept
<1>8. Frames'
  BY <1>1, <1>7, FrameTyped, AppendOf DEF Frames, Asking, Telling, FramesTo
<1>9. Handshake'
  BY <1>1, <1>2, <1>8, SessionKept
<1>10. PipesInv'
  <2>1. CASE Channel!Alive /\ x = "draining"
    <3>1. Channel!Frame("cancel", r).kind = "cancel"
      BY DEF Channel!Frame
    <3>2. Owed'
      BY <1>1, <1>2, <1>7, <2>1, <3>1, FrameTyped, AskKept DEF PipesInv, Owed
    <3>. QED BY <3>2 DEF PipesInv, Owed
  <2>2. CASE ~(Channel!Alive /\ x = "draining")
    BY <1>2, <2>2 DEF PipesInv, Channel!Alive
  <2>. QED BY <2>1, <2>2
<1>. QED BY <1>4, <1>5, <1>6, <1>9, <1>10

(* The call of r ends without an answer, with the worker or with its pipe.   *)
LEMMA FailedKept ==
    ASSUME Channel!RequestsAssumption, ChannelInv, NEW r \in Requests,
           call[r] # "new", NEW outcome \in {"failed", "cancelled"}, Channel!Ends(r, outcome),
           UNCHANGED <<parts, task, agreed, toWorker>>,
           toService' = toService \/ (toService # <<>> /\ toService' = Tail(toService)),
           link' = "gone"
    PROVE  ChannelInv'
<1>1. CallsTyped' /\ PartsOwn' /\ Channel!ChargeReturned'
  BY EndsKept DEF ChannelInv
<1>2. Frames
  BY SessionKept DEF ChannelInv
<1>3. Frames'
  <2>1. Asking' = Asking /\ Telling' = Telling
    BY DEF Asking, Telling, FramesTo
  <2>2. toService # <<>> => Tail(toService) \in Seq(Telling)
    BY <1>2, TailOf DEF Frames
  <2>. QED BY <1>2, <2>1, <2>2 DEF Frames
<1>4. Handshake'
  BY <1>3, SessionKept DEF ChannelInv
<1>5. PipesInv'
  BY DEF PipesInv, Channel!Alive
<1>. QED BY <1>1, <1>4, <1>5 DEF ChannelInv

(* Nothing of the calls changes.                                             *)
LEMMA IdleKept ==
    ASSUME ChannelInv, Channel!Alive \/ (\E r \in Requests : call[r] # "new"),
           UNCHANGED <<parts, agreed, call, charged>>, CallsTyped', Frames', link' \in {link, "gone"},
           link' = "ready" => Owed'
    PROVE  ChannelInv'
<1>1. PartsOwn' /\ Channel!ChargeReturned'
  BY DEF ChannelInv, PartsOwn, Channel!ChargeReturned
<1>2. Handshake'
  BY SessionKept DEF ChannelInv
<1>3. PipesInv'
  BY DEF PipesInv, Owed, Channel!Alive
<1>. QED BY <1>1, <1>2, <1>3 DEF ChannelInv

LEMMA ReadHeaderKept ==
    ASSUME ChannelInv, NEW r \in Requests, Channel!ReadHeader(r)
    PROVE  ChannelInv'
<1>1. /\ Channel!Reading(r) /\ half' = r /\ call[r] # "new"
      /\ UNCHANGED <<link, agreed, toWorker, toService, call, charged, parts, task>>
  BY DEF Channel!ReadHeader, Channel!service, Channel!worker, Channel!Reading
<1>2. CallsTyped'
  BY <1>1 DEF ChannelInv, CallsTyped, Telling, FramesTo
<1>3. Frames'
  BY <1>1, SessionKept DEF ChannelInv, Frames, Asking, Telling, FramesTo
<1>4. link' = "ready" => Owed'
  BY <1>1 DEF ChannelInv, PipesInv, Channel!Alive, Owed, PipesOwed, AskedOnce, LastIsLast, LastFrame,
     Channel!Reading, Channel!Serving
<1>. QED BY <1>1, <1>2, <1>3, <1>4, IdleKept

LEMMA ReadFrameKept ==
    ASSUME Channel!RequestsAssumption, ChannelInv, NEW r \in Requests, toService # <<>>,
           NEW f, f = Head(toService),
           \/ Channel!ReadProgress(r, f) \/ Channel!ReadResult(r, f)
           \/ Channel!ReadError(r, f) \/ Channel!ReadRefused(r, f)
    PROVE  ChannelInv'
<1>1. /\ Channel!Reading(r) /\ Channel!Consumed /\ call[r] # "new" /\ f \in Telling /\ f = toService[1]
      /\ UNCHANGED <<agreed, task>>
      /\ toService' = Tail(toService) /\ toWorker' = toWorker
  <2>1. Channel!Reading(r) /\ Channel!Consumed /\ call[r] # "new" /\ UNCHANGED <<agreed, task>>
    BY DEF Channel!ReadProgress, Channel!ReadResult, Channel!ReadError, Channel!ReadRefused,
       Channel!Body, Channel!Reading, Channel!worker
  <2>2. f \in Telling /\ f = toService[1]
    BY <2>1, SessionKept, TailOf DEF ChannelInv, Frames
  <2>. QED BY <2>1, <2>2 DEF Channel!Consumed
<1>2. Frames /\ link \in {"ready", "gone"}
  BY <1>1, SessionKept DEF ChannelInv
<1>3. Frames'
  BY <1>1, <1>2, TailOf DEF Frames, Asking, Telling, FramesTo
<1>4. CASE Channel!ReadProgress(r, f)
  <2>1. f.req = r /\ UNCHANGED <<link, call, charged, parts>>
    BY <1>4 DEF Channel!ReadProgress, Channel!Correlated
  <2>2. CallsTyped'
    BY <1>1, <2>1 DEF ChannelInv, CallsTyped, Telling, FramesTo
  <2>3. link' = "ready" => Owed'
    BY <1>1, <1>2, <2>1, ReadKept DEF ChannelInv, PipesInv, Channel!Alive, Owed
  <2>. QED BY <1>1, <1>3, <2>1, <2>2, <2>3, IdleKept
<1>5. CASE Channel!ReadResult(r, f)
  <2>1. /\ f.req = r /\ f.seq = Len(parts[r]) /\ f.kind = "result" /\ link' = link
        /\ parts' = [parts EXCEPT ![r] = Append(@, f)]
    BY <1>5 DEF Channel!ReadResult, Channel!Correlated, Channel!InOrder
  <2>2. /\ parts[r] \in Seq(Telling) /\ Append(parts[r], f) \in Seq(Telling)
        /\ \A q \in Requests : parts'[q] = IF q = r THEN Append(parts[r], f) ELSE parts[q]
    BY <1>1, <2>1 DEF ChannelInv, CallsTyped
  <2>3. parts' \in [Requests -> Seq(Telling)] /\ Telling' = Telling
    BY <1>1, <2>1, <2>2 DEF ChannelInv, CallsTyped, Telling, FramesTo
  <2>4. \A q \in Requests : \A k \in DOMAIN parts'[q] : parts'[q][k].req = q /\ parts'[q][k].seq = k - 1
    <3>. SUFFICES ASSUME NEW q \in Requests, NEW k \in DOMAIN parts'[q]
                  PROVE  parts'[q][k].req = q /\ parts'[q][k].seq = k - 1
      OBVIOUS
    <3>1. CASE q # r
      BY <2>2, <3>1 DEF ChannelInv, PartsOwn
    <3>2. CASE q = r
      <4>. DEFINE old == parts[r]
      <4>3. old \in Seq(Telling) /\ parts'[r] = Append(old, f)
        BY <2>2
      <4>. HIDE DEF old
      <4>4. /\ k \in Nat /\ Len(old) \in Nat
            /\ \/ k \in DOMAIN old /\ parts'[r][k] = old[k]
               \/ k = Len(old) + 1 /\ parts'[r][k] = f
        BY <1>1, <3>2, <4>3, AppendOf
      <4>1. /\ k \in Nat /\ Len(parts[r]) \in Nat
            /\ \/ k \in DOMAIN parts[r] /\ parts'[r][k] = parts[r][k]
               \/ k = Len(parts[r]) + 1 /\ parts'[r][k] = f
        BY <4>4 DEF old
      <4>2. k \in DOMAIN parts[r] => parts[r][k].req = r /\ parts[r][k].seq = k - 1
        BY DEF ChannelInv, PartsOwn
      <4>. QED BY <2>1, <3>2, <4>1, <4>2
    <3>. QED BY <3>1, <3>2
  <2>5. parts'[r] # <<>> /\ parts'[r][Len(parts'[r])] = f
    <3>. DEFINE old == parts[r]
    <3>1. old \in Seq(Telling) /\ parts'[r] = Append(old, f)
      BY <2>2
    <3>. HIDE DEF old
    <3>. QED BY <1>1, <3>1
  <2>6. CASE f.final
    <3>1. PICK x \in {"answered", "cancelled"} : Channel!Ends(r, x)
      BY <1>5, <2>6 DEF Channel!ReadResult
    <3>2. call' = [call EXCEPT ![r] = x] /\ Channel!Uncharge(r)
      BY <3>1 DEF Channel!Ends
    <3>3. \A q \in Requests : call'[q] = IF q = r THEN x ELSE call[q]
      BY <3>2 DEF ChannelInv, CallsTyped
    <3>4. Charging' = Charging \ {r}
      BY <3>3 DEF Charging
    <3>5. Channel!ChargeReturned' /\ charged' \in Nat
      BY <3>2, <3>4, ChargeKept DEF ChannelInv
    <3>6. CallsTyped'
      BY <1>1, <2>3, <3>2, <3>5 DEF ChannelInv, CallsTyped
    <3>7. PartsOwn'
      <4>1. \A q \in Requests : call'[q] = "answered" => parts'[q] # <<>> /\ parts'[q][Len(parts'[q])].final
        BY <2>2, <2>5, <2>6, <3>3 DEF ChannelInv, PartsOwn
      <4>. QED BY <2>4, <4>1 DEF PartsOwn
    <3>8. Handshake'
      BY <1>1, <1>3, <2>1, SessionKept DEF ChannelInv
    <3>9. PipesInv'
      <4>1. CASE Channel!Alive
        <5>1. LastFrame(f)
          BY <2>1, <2>6 DEF LastFrame
        <5>2. Owed'
          BY <1>1, <1>2, <2>1, <3>2, <4>1, <5>1, ReadKept DEF ChannelInv, PipesInv, Owed
        <5>. QED BY <5>2 DEF PipesInv, Owed
      <4>2. CASE ~Channel!Alive
        BY <2>1, <4>2 DEF PipesInv, Channel!Alive
      <4>. QED BY <4>1, <4>2
    <3>. QED BY <3>5, <3>6, <3>7, <3>8, <3>9 DEF ChannelInv
  <2>7. CASE ~f.final
    <3>1. UNCHANGED <<call, charged>>
      BY <1>5, <2>7 DEF Channel!ReadResult
    <3>2. CallsTyped'
      BY <1>1, <2>3, <3>1 DEF ChannelInv, CallsTyped
    <3>3. PartsOwn'
      <4>1. \A q \in Requests : call'[q] = "answered" => parts'[q] # <<>> /\ parts'[q][Len(parts'[q])].final
        BY <1>1, <2>2, <3>1 DEF ChannelInv, PartsOwn, Channel!Reading
      <4>. QED BY <2>4, <4>1 DEF PartsOwn
    <3>4. Channel!ChargeReturned'
      BY <3>1 DEF ChannelInv, Channel!ChargeReturned
    <3>5. Handshake'
      BY <1>1, <1>3, <2>1, SessionKept DEF ChannelInv
    <3>6. PipesInv'
      <4>1. CASE Channel!Alive
        <5>1. Owed'
          BY <1>1, <1>2, <2>1, <3>1, <4>1, ReadKept DEF ChannelInv, PipesInv, Owed
        <5>. QED BY <5>1 DEF PipesInv, Owed
      <4>2. CASE ~Channel!Alive
        BY <2>1, <4>2 DEF PipesInv, Channel!Alive
      <4>. QED BY <4>1, <4>2
    <3>. QED BY <3>2, <3>3, <3>4, <3>5, <3>6 DEF ChannelInv
  <2>. QED BY <2>6, <2>7
<1>6. CASE Channel!ReadError(r, f)
  <2>1. f.req = r /\ f.kind = "error" /\ parts' = parts
    BY <1>6 DEF Channel!ReadError, Channel!Correlated
  <2>2. CASE call[r] = "reading"
    <3>1. Channel!Ends(r, "failed") /\ link' = link
      BY <1>6, <2>2 DEF Channel!ReadError
    <3>2. CallsTyped' /\ PartsOwn' /\ Channel!ChargeReturned'
      BY <1>1, <2>1, <3>1, EndsKept DEF ChannelInv
    <3>3. Handshake'
      BY <1>1, <1>3, <3>1, SessionKept DEF ChannelInv
    <3>4. PipesInv'
      <4>1. CASE Channel!Alive
        <5>1. LastFrame(f) /\ call' = [call EXCEPT ![r] = "failed"]
          BY <2>1, <3>1 DEF LastFrame, Channel!Ends
        <5>2. Owed'
          BY <1>1, <1>2, <2>1, <4>1, <5>1, ReadKept DEF ChannelInv, PipesInv, Owed
        <5>. QED BY <5>2 DEF PipesInv, Owed
      <4>2. CASE ~Channel!Alive
        BY <3>1, <4>2 DEF PipesInv, Channel!Alive
      <4>. QED BY <4>1, <4>2
    <3>. QED BY <3>2, <3>3, <3>4 DEF ChannelInv
  <2>3. CASE call[r] # "reading"
    BY <1>1, <1>6, <2>1, <2>3, FailedKept DEF Channel!ReadError, Channel!ForceStop
  <2>. QED BY <2>2, <2>3
<1>7. CASE Channel!ReadRefused(r, f)
  <2>1. PICK x \in {"failed", "cancelled"} : Channel!Ends(r, x)
    BY <1>7 DEF Channel!ReadRefused
  <2>. QED BY <1>1, <1>7, <2>1, FailedKept DEF Channel!ReadRefused, Channel!ForceStop
<1>. QED BY <1>4, <1>5, <1>6, <1>7

LEMMA EndingKept ==
    ASSUME Channel!RequestsAssumption, ChannelInv, NEW r \in Requests,
           \/ \E q \in Requests : Channel!ReadersCollide(r, q)
           \/ Channel!ReadEnds(r) \/ Channel!SilenceOver(r) \/ Channel!DrainGivenUp(r)
    PROVE  ChannelInv'
<1>1. call[r] # "new" /\ UNCHANGED <<agreed, toWorker, toService, half, parts, task>>
  BY DEF Channel!ReadersCollide, Channel!ReadEnds, Channel!SilenceOver, Channel!DrainGivenUp,
     Channel!Reading, Channel!channel, Channel!worker
<1>2. CASE (\E q \in Requests : Channel!ReadersCollide(r, q)) \/ Channel!ReadEnds(r)
           \/ Channel!DrainGivenUp(r) \/ (Channel!SilenceOver(r) /\ ~beaten[r])
  <2>1. link' = "gone" /\ \E x \in {"failed", "cancelled"} : Channel!Ends(r, x)
    BY <1>2 DEF Channel!ReadersCollide, Channel!ReadEnds, Channel!DrainGivenUp, Channel!SilenceOver,
       Channel!ForceStop
  <2>. QED BY <1>1, <2>1, FailedKept
<1>3. CASE Channel!SilenceOver(r) /\ beaten[r]
  <2>1. UNCHANGED <<link, call, charged>>
    BY <1>3 DEF Channel!SilenceOver
  <2>2. CallsTyped' /\ Frames'
    BY <1>1, <2>1, SessionKept DEF ChannelInv, CallsTyped, Frames, Asking, Telling, FramesTo
  <2>3. link' = "ready" => Owed'
    BY <1>1, <2>1 DEF ChannelInv, PipesInv, Channel!Alive, Owed, PipesOwed, AskedOnce, LastIsLast, LastFrame,
       Channel!Reading, Channel!Serving
  <2>. QED BY <1>1, <2>1, <2>2, <2>3, IdleKept
<1>. QED BY <1>2, <1>3

-----------------------------------------------------------------------------
(* The worker's side of a session.                                           *)

LEMMA WorkerTakesKept ==
    ASSUME ChannelInv, Channel!WorkerExecutes \/ Channel!WorkerCancels
    PROVE  ChannelInv'
<1>1. /\ Channel!Alive /\ toWorker # <<>> /\ toWorker' = Tail(toWorker)
      /\ UNCHANGED <<link, agreed, half, call, charged, parts>>
  BY DEF Channel!WorkerExecutes, Channel!WorkerCancels, Channel!service, Channel!Says
<1>2. Frames /\ Owed
  BY <1>1, SessionKept DEF ChannelInv, PipesInv, Owed
<1>. DEFINE now == Tail(toWorker)
            f == Head(toWorker)
<1>3. /\ now \in Seq(Asking) /\ f = toWorker[1] /\ f \in Asking /\ 1 \in DOMAIN toWorker
      /\ \A i \in DOMAIN now : i \in Nat /\ i + 1 \in DOMAIN toWorker /\ now[i] = toWorker[i + 1] /\ i + 1 # 1
  BY <1>1, <1>2, TailOf DEF Frames
<1>4. PICK t \in {"running", "asked"} :
          /\ toService' = toService
          /\ \/ task' = task
             \/ /\ f.req \in Requests /\ task' = [task EXCEPT ![f.req] = t]
                /\ (f.kind = "execute" /\ t = "running") \/ (task[f.req] = "running" /\ t = "asked")
  <2>1. CASE Channel!WorkerExecutes
    <3>1. f.kind = "execute"
      BY <2>1 DEF Channel!WorkerExecutes
    <3>2. f.req \in Requests /\ task[f.req] = "none"
      BY <1>2, <1>3, <3>1 DEF Owed, AskedOnce
    <3>3. f.version = agreed /\ ~Channel!Serving(f.req)
      BY <1>3, <3>2 DEF Asking, FramesTo, Channel!Serving
    <3>. QED BY <2>1, <3>1, <3>2, <3>3 DEF Channel!WorkerExecutes
  <2>2. CASE Channel!WorkerCancels
    BY <2>2 DEF Channel!WorkerCancels
  <2>. QED BY <2>1, <2>2
<1>. HIDE DEF now, f
<1>5. toWorker' = now
  BY <1>1 DEF now
<1>6. CallsTyped'
  <2>1. task' \in [Requests -> {"none", "running", "asked", "done"}]
    BY <1>4 DEF ChannelInv, CallsTyped
  <2>. QED BY <1>1, <2>1 DEF ChannelInv, CallsTyped, Telling, FramesTo
<1>7. Frames'
  BY <1>1, <1>2, <1>3, <1>4, <1>5 DEF Frames, Asking, Telling, FramesTo
<1>8. \A q \in Requests : task'[q] # task[q] => q = f.req /\ task'[q] = t
                              /\ ((f.kind = "execute" /\ t = "running") \/ (task[q] = "running" /\ t = "asked"))
  BY <1>4 DEF ChannelInv, CallsTyped
<1>9. f.kind = "execute" =>
          /\ f.req \in Requests /\ call[f.req] \in {"reading", "draining"}
          /\ \A k \in DOMAIN toService : toService[k].req # f.req
          /\ \A i \in DOMAIN now : now[i].kind = "execute" => now[i].req # f.req
  <2>. SUFFICES ASSUME f.kind = "execute"
                PROVE  /\ f.req \in Requests /\ call[f.req] \in {"reading", "draining"}
                       /\ \A k \in DOMAIN toService : toService[k].req # f.req
                       /\ \A i \in DOMAIN now : now[i].kind = "execute" => now[i].req # f.req
    OBVIOUS
  <2>1. /\ f.req \in Requests /\ Channel!Reading(f.req)
        /\ \A k \in DOMAIN toService : toService[k].req # f.req
        /\ \A k \in DOMAIN toWorker : toWorker[k].kind = "execute" /\ toWorker[k].req = f.req => k = 1
    BY <1>2, <1>3 DEF Owed, AskedOnce
  <2>. QED BY <1>3, <2>1 DEF Channel!Reading
<1>10. \A q \in Requests : task'[q] # task[q] =>
           /\ call[q] \in {"reading", "draining"}
           /\ \A i \in DOMAIN toService : LastFrame(toService[i]) => toService[i].req # q
           /\ \A i \in DOMAIN now : now[i].kind = "execute" => now[i].req # q
  <2>. SUFFICES ASSUME NEW q \in Requests, task'[q] # task[q]
                PROVE  /\ call[q] \in {"reading", "draining"}
                       /\ \A i \in DOMAIN toService : LastFrame(toService[i]) => toService[i].req # q
                       /\ \A i \in DOMAIN now : now[i].kind = "execute" => now[i].req # q
    OBVIOUS
  <2>1. CASE f.kind = "execute" /\ q = f.req
    BY <1>9, <2>1
  <2>2. CASE task[q] = "running"
    <3>1. Channel!Serving(q) /\ call[q] \in {"reading", "draining"}
      BY <1>2, <2>2 DEF Owed, PipesOwed, Channel!Serving, Channel!Reading
    <3>2. \A i \in DOMAIN toService : LastFrame(toService[i]) => toService[i].req # q
      BY <1>2, <3>1 DEF Owed, LastIsLast
    <3>3. \A i \in DOMAIN now : now[i].kind = "execute" => now[i].req # q
      BY <1>2, <1>3, <2>2 DEF Owed, AskedOnce
    <3>. QED BY <3>1, <3>2, <3>3
  <2>. QED BY <1>8, <2>1, <2>2
<1>11. PipesOwed'
  <2>1. \A q \in Requests : Channel!Serving(q)' => Channel!Reading(q)
    BY <1>2, <1>10 DEF Owed, PipesOwed, Channel!Serving, Channel!Reading
  <2>2. \A q \in Requests : task'[q] # "none" => call[q] \notin {"new", "entered"}
    BY <1>2, <1>10 DEF Owed, PipesOwed
  <2>. QED BY <1>1, <1>2, <1>4, <2>1, <2>2 DEF Owed, PipesOwed, Channel!Reading
<1>12. LastIsLast'
  <2>1. \A i \in DOMAIN toService : LastFrame(toService[i]) => task'[toService[i].req] = task[toService[i].req]
    BY <1>2, <1>10, FramesNamed
  <2>. QED BY <1>2, <1>4, <2>1 DEF Owed, LastIsLast, LastFrame, Channel!Serving
<1>13. AskedOnce'
  <2>. SUFFICES ASSUME NEW i \in DOMAIN now, now[i].kind = "execute"
                PROVE  /\ now[i].req \in Requests
                       /\ call[now[i].req] \in {"reading", "draining"} /\ task'[now[i].req] = "none"
                       /\ \A k \in DOMAIN toService : toService[k].req # now[i].req
                       /\ \A k \in DOMAIN now :
                              now[k].kind = "execute" /\ now[k].req = now[i].req => k = i
    BY <1>1, <1>4, <1>5 DEF AskedOnce, Channel!Reading
  <2>1. /\ i \in Nat /\ i + 1 \in DOMAIN toWorker /\ now[i] = toWorker[i + 1]
    BY <1>3
  <2>2. /\ now[i].req \in Requests
        /\ call[now[i].req] \in {"reading", "draining"} /\ task[now[i].req] = "none"
        /\ \A k \in DOMAIN toService : toService[k].req # now[i].req
        /\ \A k \in DOMAIN toWorker :
               toWorker[k].kind = "execute" /\ toWorker[k].req = now[i].req => k = i + 1
    BY <1>2, <2>1 DEF Owed, AskedOnce, Channel!Reading
  <2>3. task'[now[i].req] = "none"
    BY <1>10, <2>2
  <2>4. ASSUME NEW k \in DOMAIN now, now[k].kind = "execute", now[k].req = now[i].req PROVE k = i
    <3>1. k \in Nat /\ k + 1 = i + 1
      BY <1>3, <2>2, <2>4
    <3>. QED BY <2>1, <3>1
  <2>. QED BY <2>2, <2>3, <2>4
<1>14. Owed'
  BY <1>11, <1>12, <1>13 DEF Owed
<1>. QED BY <1>1, <1>6, <1>7, <1>14, IdleKept

LEMMA WorkerSaysKept ==
    ASSUME ChannelInv, NEW r \in Requests, Channel!Alive, Channel!Serving(r),
           NEW said \in Seq(Telling), \A k \in DOMAIN said : said[k].req = r,
           NEW t \in {"running", "asked", "done"},
           \A k \in DOMAIN said : LastFrame(said[k]) => k = Len(said) /\ t = "done",
           Channel!Says(said), task' = [task EXCEPT ![r] = t],
           UNCHANGED <<link, agreed, toWorker, call, charged, parts>>
    PROVE  ChannelInv'
<1>1. toService' = toService \o said /\ UNCHANGED half
  BY DEF Channel!Says
<1>2. Frames /\ Owed /\ CallsTyped
  BY SessionKept DEF ChannelInv, PipesInv, Owed
<1>3. CallsTyped'
  BY <1>2 DEF CallsTyped, Telling, FramesTo
<1>4. Frames'
  <2>1. Asking' = Asking /\ Telling' = Telling
    BY DEF Asking, Telling, FramesTo
  <2>2. toService \o said \in Seq(Telling)
    BY <1>2, ConcatOf DEF Frames
  <2>. QED BY <1>1, <1>2, <2>1, <2>2 DEF Frames
<1>5. Owed'
  BY <1>1, <1>2, TellKept
<1>. QED BY <1>3, <1>4, <1>5, IdleKept

LEMMA WorkerTellsKept ==
    ASSUME ChannelInv, NEW r \in Requests,
           \/ Channel!WorkerReports(r) \/ Channel!WorkerFails(r) \/ Channel!GraceOver(r)
           \/ \E n \in 1 .. MaxChunks : Channel!WorkerFinishes(r, n)
    PROVE  ChannelInv'
<1>1. /\ Channel!Alive /\ Channel!Serving(r) /\ task[r] \in {"running", "asked"}
      /\ UNCHANGED <<link, agreed, toWorker, call, charged, parts>>
  BY DEF Channel!WorkerReports, Channel!WorkerFails, Channel!GraceOver, Channel!WorkerFinishes,
     Channel!Serving, Channel!service
<1>2. \A kind \in {"progress", "error"} :
          LET said == <<Channel!Frame(kind, r)>>
          IN  /\ said \in Seq(Telling) /\ Len(said) = 1
              /\ \A k \in DOMAIN said : k = 1 /\ said[k].req = r /\ said[k].kind = kind
  <2>. SUFFICES ASSUME NEW kind \in {"progress", "error"}
                PROVE  LET said == <<Channel!Frame(kind, r)>>
                       IN  /\ said \in Seq(Telling) /\ Len(said) = 1
                           /\ \A k \in DOMAIN said : k = 1 /\ said[k].req = r /\ said[k].kind = kind
    OBVIOUS
  <2>. DEFINE f == Channel!Frame(kind, r)
  <2>1. f \in Telling /\ f.req = r /\ f.kind = kind
    BY DEF Channel!Frame, Telling, FramesTo
  <2>. HIDE DEF f
  <2>2. <<f>> \in Seq(Telling) /\ Len(<<f>>) = 1 /\ \A k \in DOMAIN <<f>> : k = 1 /\ <<f>>[k] = f
    BY <2>1
  <2>3. \A k \in DOMAIN <<f>> : k = 1 /\ <<f>>[k].req = r /\ <<f>>[k].kind = kind
    BY <2>1, <2>2
  <2>4. <<f>> = <<Channel!Frame(kind, r)>>
    BY DEF f
  <2>. QED BY <2>2, <2>3, <2>4
<1>3. ASSUME NEW n \in Nat, n >= 1
      PROVE  LET said == Channel!ResultFrames(r, n)
             IN  /\ said \in Seq(Telling) /\ Len(said) = n
                 /\ \A k \in DOMAIN said :
                        said[k].req = r /\ said[k].kind = "result" /\ (said[k].final => k = n)
  <2>. DEFINE part(k) == [Channel!Frame("result", r) EXCEPT !.seq = k - 1, !.final = (k = n)]
  <2>1. ASSUME NEW k \in 1 .. n
        PROVE  part(k) \in Telling /\ part(k).req = r /\ part(k).kind = "result" /\ (part(k).final => k = n)
    <3>. DEFINE base == Channel!Frame("result", r)
                last == (k = n)
    <3>1. base \in Telling /\ base.req = r /\ base.kind = "result"
      BY DEF Channel!Frame, Telling, FramesTo
    <3>2. last \in BOOLEAN /\ k - 1 \in Nat /\ (last => k = n)
      BY <1>3
    <3>. HIDE DEF base, last
    <3>3. /\ [base EXCEPT !.seq = k - 1, !.final = last] \in Telling
          /\ [base EXCEPT !.seq = k - 1, !.final = last].req = r
          /\ [base EXCEPT !.seq = k - 1, !.final = last].kind = "result"
          /\ [base EXCEPT !.seq = k - 1, !.final = last].final = last
      BY <3>1, <3>2 DEF Telling, FramesTo
    <3>4. part(k) = [base EXCEPT !.seq = k - 1, !.final = last]
      BY DEF base, last
    <3>. HIDE DEF part
    <3>. QED BY <3>2, <3>3, <3>4
  <2>. HIDE DEF part
  <2>2. Channel!ResultFrames(r, n) = [k \in 1 .. n |-> part(k)]
    BY DEF Channel!ResultFrames, part
  <2>. QED BY <1>3, <2>1, <2>2
<1>4. CASE Channel!WorkerReports(r)
  <2>1. task' = [task EXCEPT ![r] = task[r]]
    BY <1>4 DEF Channel!WorkerReports, ChannelInv, CallsTyped
  <2>. DEFINE said == <<Channel!Frame("progress", r)>>
  <2>2. /\ said \in Seq(Telling) /\ \A k \in DOMAIN said : said[k].req = r
        /\ \A k \in DOMAIN said : ~LastFrame(said[k])
    BY <1>2 DEF LastFrame
  <2>3. Channel!Says(said)
    BY <1>4 DEF Channel!WorkerReports
  <2>. HIDE DEF said
  <2>. QED BY <1>1, <2>1, <2>2, <2>3, WorkerSaysKept
<1>5. CASE Channel!WorkerFails(r)
  <2>. DEFINE said == <<Channel!Frame("error", r)>>
  <2>1. /\ said \in Seq(Telling) /\ \A k \in DOMAIN said : said[k].req = r
        /\ \A k \in DOMAIN said : k = Len(said)
    BY <1>2
  <2>2. Channel!Says(said) /\ task' = [task EXCEPT ![r] = "done"]
    BY <1>5 DEF Channel!WorkerFails
  <2>. HIDE DEF said
  <2>. QED BY <1>1, <2>1, <2>2, WorkerSaysKept
<1>6. CASE Channel!GraceOver(r) \/ \E n \in 1 .. MaxChunks : Channel!WorkerFinishes(r, n)
  <2>1. PICK n \in Nat : /\ n >= 1 /\ Channel!Says(Channel!ResultFrames(r, n))
                         /\ task' = [task EXCEPT ![r] = "done"]
    BY <1>6 DEF Channel!GraceOver, Channel!WorkerFinishes
  <2>. DEFINE said == Channel!ResultFrames(r, n)
  <2>2. /\ said \in Seq(Telling) /\ \A k \in DOMAIN said : said[k].req = r
        /\ \A k \in DOMAIN said : LastFrame(said[k]) => k = Len(said)
    BY <1>3, <2>1 DEF LastFrame
  <2>3. Channel!Says(said)
    BY <2>1
  <2>. HIDE DEF said
  <2>. QED BY <1>1, <2>1, <2>2, <2>3, WorkerSaysKept
<1>. QED BY <1>4, <1>5, <1>6

-----------------------------------------------------------------------------

LEMMA LeavingKept ==
    ASSUME ChannelInv, Channel!WorkerDies \/ Channel!StopProcess
    PROVE  ChannelInv'
<1>1. /\ Channel!Alive /\ link' = "gone"
      /\ UNCHANGED <<agreed, toService, half, call, charged, parts, task>>
      /\ toWorker' = toWorker \/ toWorker' = Append(toWorker, Channel!Frame("cancel", Channel!Nobody))
  BY DEF Channel!WorkerDies, Channel!StopProcess, Channel!ForceStop, Channel!channel, Channel!service,
     Channel!worker
<1>2. CallsTyped'
  BY <1>1 DEF ChannelInv, CallsTyped, Telling, FramesTo
<1>3. Frames
  BY <1>1, SessionKept DEF ChannelInv
<1>4. Frames'
  <2>1. Asking' = Asking /\ Telling' = Telling
    BY <1>1 DEF Asking, Telling, FramesTo
  <2>2. Append(toWorker, Channel!Frame("cancel", Channel!Nobody)) \in Seq(Asking)
    BY <1>3, FrameTyped, AppendOf DEF Frames
  <2>. QED BY <1>1, <1>3, <2>1, <2>2 DEF Frames
<1>. QED BY <1>1, <1>2, <1>4, IdleKept

(* ChannelIsSound: for every number of calls, chunks and reports, and all    *)
(* versions, a caller's answer is its own and whole, a worker that is kept   *)
(* owes nothing of a call that is over, and every charge comes back.         *)
THEOREM ChannelIsSound == Channel!Spec => []ChannelSound
<1>. USE ChannelAssumption
<1>1. Channel!Init => ChannelInv
  BY ChannelStart
<1>2. ChannelInv /\ [Channel!Next]_(Channel!channelVars) => ChannelInv'
  <2>1. ASSUME ChannelInv, Channel!Next PROVE ChannelInv'
    BY <2>1, HandshakeKept, EnterKept, SendKept, ReadHeaderKept, ReadFrameKept, EndingKept, CancelledKept,
       WorkerTellsKept, WorkerTakesKept, LeavingKept DEF Channel!Next
  <2>2. ASSUME ChannelInv, UNCHANGED Channel!channelVars PROVE ChannelInv'
    <3>1. UNCHANGED <<link, agreed, toWorker, toService, half, call, charged, parts, task>>
      BY <2>2 DEF Channel!channelVars, Channel!channel, Channel!service, Channel!worker
    <3>2. Asking' = Asking /\ Telling' = Telling
      BY <3>1 DEF Asking, Telling, FramesTo
    <3>3. Handshake' /\ CallsTyped'
      BY <2>2, <3>1, <3>2 DEF ChannelInv, Handshake, Quiet, CallsTyped
    <3>4. PartsOwn' /\ Channel!ChargeReturned'
      BY <2>2, <3>1 DEF ChannelInv, PartsOwn, Channel!ChargeReturned
    <3>5. PipesInv'
      BY <2>2, <3>1 DEF ChannelInv, PipesInv, PipesOwed, AskedOnce, LastIsLast, LastFrame, Channel!Alive,
         Channel!Reading, Channel!Serving
    <3>. QED BY <3>3, <3>4, <3>5 DEF ChannelInv
  <2>. QED BY <2>1, <2>2
<1>3. ChannelInv => Channel!ChannelSound
  <2>. SUFFICES ASSUME ChannelInv PROVE Channel!ChannelSound
    OBVIOUS
  <2>1. Channel!AnswerIsOwn
    BY DEF ChannelInv, PartsOwn, Channel!AnswerIsOwn
  <2>2. Channel!KeptWorkerIsClean
    <3>. SUFFICES ASSUME Channel!Alive,
                         \A r \in Requests : call[r] \in {"new", "answered", "failed", "cancelled"}
                  PROVE  toService = <<>> /\ half = Channel!Nobody /\ \A r \in Requests : ~Channel!Serving(r)
      BY DEF Channel!KeptWorkerIsClean
    <3>1. Owed /\ Frames
      BY SessionKept DEF ChannelInv, PipesInv, Owed
    <3>2. \A r \in Requests : ~Channel!Reading(r)
      BY DEF Channel!Reading
    <3>3. DOMAIN toService = {}
      BY <3>1, <3>2, FramesNamed DEF Owed, PipesOwed
    <3>4. toService = <<>>
      BY <3>1, <3>3 DEF Frames
    <3>. QED BY <3>1, <3>2, <3>4 DEF Owed, PipesOwed
  <2>. QED BY <2>1, <2>2 DEF Channel!ChannelSound, ChannelInv
<1>. QED BY <1>1, <1>2, <1>3, PTL DEF Channel!Spec, ChannelSound

-----------------------------------------------------------------------------
(* The control socket.                                                       *)

(* Who has the lock is the one process that starts, serves or stops; what it *)
(* bound is where the path leads until it removes it.                        *)
LockInv ==
    /\ stage \in [Services -> {"off", "probing", "binding", "serving", "unbinding"}]
    /\ bound \in [Services -> BOOLEAN]
    /\ \A s \in Services : stage[s] # "off" <=> lockOwner = s
    /\ \A s \in Services : bound[s] => path = s /\ stage[s] \in {"serving", "unbinding"}
    /\ \A s \in Services : stage[s] = "serving" <=> s \in listening
    /\ \A s \in Services : stage[s] = "serving" => bound[s]

AnswerCodes == {"none", "connection-closed", "timeout", "request-invalid", "method-unknown",
                "payload-too-large", "identity-asserted", "rate-limit-exceeded",
                "concurrency-limit-exceeded", "request-too-large", "invalid-request",
                "internal-error", "result-too-large", "result"}
CallRecords == [at : {"idle", "sent", "running", "replied"}, server : Services \cup {"none"},
                kind : Socket!RequestKinds, window : Nat, answer : AnswerCodes, performed : BOOLEAN]

(* Every call is of the process that has the lock, and only a reply to it    *)
(* tells of an effect.                                                       *)
CallsHeld ==
    /\ calls \in [Clients -> CallRecords]
    /\ \A c \in Clients : calls[c].at # "idle" =>
           calls[c].server \in Services /\ stage[calls[c].server] \in {"serving", "unbinding"}
    /\ \A c \in Clients : calls[c].performed =>
           calls[c].at = "replied" /\ calls[c].answer \in {"result", "result-too-large"}

(* Every window that was opened, tracked or not, counts the calls it         *)
(* admitted and that run.                                                    *)
Tallies == [calls : Nat, inFlight : Nat]
WindowRecords(n) == [owner : {OwnerOf[c] : c \in Clients}, id : 1 .. n]
Running(id) == {c \in Clients : calls[c].at = "running" /\ calls[c].window = id}
WindowsHeld ==
    /\ tally \in Seq(Tallies) /\ windows \in Seq(WindowRecords(Len(tally)))
    /\ \A c \in Clients : calls[c].at = "running" => calls[c].window \in DOMAIN tally
    /\ \A id \in DOMAIN tally : tally[id].inFlight = Cardinality(Running(id)) /\ tally[id].inFlight <= MaxCallsAtOnce

SocketInv == LockInv /\ CallsHeld /\ WindowsHeld

-----------------------------------------------------------------------------

LEMMA SocketCounts ==
    \A S : (Socket!IsFiniteSet(S) <=> IsFiniteSet(S)) /\ Socket!Cardinality(S) = Cardinality(S)
<1>1. \A S : Socket!IsFiniteSet(S) <=> IsFiniteSet(S)
  BY DEF Socket!IsFiniteSet, IsFiniteSet
<1>2. \A S : Socket!Cardinality(S) = Cardinality(S)
  BY <1>1 DEF Socket!Cardinality, Cardinality
<1>. QED BY <1>1, <1>2

LEMMA RunningFinite ==
    ASSUME Socket!ProcessesAssumption, NEW id
    PROVE  IsFiniteSet(Running(id)) /\ Cardinality(Running(id)) \in Nat
<1>1. IsFiniteSet(Clients) /\ Running(id) \subseteq Clients
  BY SocketCounts DEF Socket!ProcessesAssumption, Running
<1>2. IsFiniteSet(Running(id))
  BY <1>1, FS_Subset
<1>. QED BY <1>2, FS_CardinalityType

LEMMA SocketStart == Socket!ProcessesAssumption /\ Socket!Init => SocketInv
<1>. SUFFICES ASSUME Socket!ProcessesAssumption, Socket!Init PROVE SocketInv
  OBVIOUS
<1>1. LockInv
  BY DEF Socket!Init, LockInv, Socket!ProcessesAssumption
<1>2. Socket!NoCall \in CallRecords /\ Socket!NoCall.at = "idle" /\ Socket!NoCall.performed = FALSE
  BY DEF Socket!NoCall, CallRecords, Socket!RequestKinds, AnswerCodes
<1>3. calls = [c \in Clients |-> Socket!NoCall] /\ windows = <<>> /\ tally = <<>>
  BY DEF Socket!Init
<1>4. CallsHeld
  BY <1>2, <1>3 DEF CallsHeld
<1>5. WindowsHeld
  BY <1>2, <1>3 DEF WindowsHeld
<1>. QED BY <1>1, <1>4, <1>5 DEF SocketInv

(* Windows, when the calls that run are the same.                            *)
LEMMA WindowsSame ==
    ASSUME WindowsHeld, CallsHeld, UNCHANGED <<windows, tally>>,
           \A c \in Clients : /\ calls'[c].at = "running" <=> calls[c].at = "running"
                              /\ calls[c].at = "running" => calls'[c].window = calls[c].window
    PROVE  WindowsHeld'
<1>1. \A id : Running(id)' = Running(id)
  BY DEF Running
<1>. QED BY <1>1 DEF WindowsHeld

(* All windows are forgotten with the process.                               *)
LEMMA WindowsGone ==
    ASSUME windows' = <<>>, tally' = <<>>, \A c \in Clients : calls'[c].at = "idle"
    PROVE  WindowsHeld'
BY DEF WindowsHeld

-----------------------------------------------------------------------------
(* Starting, stopping and ending a service.                                  *)

LEMMA StartKept ==
    ASSUME Socket!ProcessesAssumption, SocketInv, NEW s \in Services,
           Socket!StartLocks(s) \/ Socket!StartProbes(s) \/ Socket!StartBinds(s) \/ Socket!StartFails(s)
    PROVE  SocketInv'
<1>. USE DEF SocketInv
<1>1. UNCHANGED <<calls, windows, tally>>
  BY DEF Socket!StartLocks, Socket!StartProbes, Socket!StartBinds, Socket!StartFails, Socket!callVars
<1>2. LockInv'
  <2>1. CASE Socket!StartLocks(s)
    BY <2>1 DEF Socket!StartLocks, LockInv, Socket!ProcessesAssumption
  <2>2. CASE Socket!StartProbes(s)
    <3>1. stage[s] = "probing" /\ lockOwner = s /\ \A t \in Services : ~bound[t]
      BY <2>2 DEF Socket!StartProbes, LockInv
    <3>. QED BY <2>2, <3>1 DEF Socket!StartProbes, LockInv, Socket!ProcessesAssumption
  <2>3. CASE Socket!StartBinds(s)
    <3>1. stage[s] = "binding" /\ lockOwner = s /\ \A t \in Services : ~bound[t]
      BY <2>3 DEF Socket!StartBinds, LockInv
    <3>. QED BY <2>3, <3>1 DEF Socket!StartBinds, LockInv
  <2>4. CASE Socket!StartFails(s)
    BY <2>4 DEF Socket!StartFails, LockInv
  <2>. QED BY <2>1, <2>2, <2>3, <2>4
<1>3. CallsHeld'
  <2>1. \A t \in Services : stage[t] \in {"serving", "unbinding"} => stage'[t] = stage[t]
    BY DEF Socket!StartLocks, Socket!StartProbes, Socket!StartBinds, Socket!StartFails, LockInv
  <2>. QED BY <1>1, <2>1 DEF CallsHeld
<1>4. WindowsHeld'
  BY <1>1, WindowsSame
<1>. QED BY <1>2, <1>3, <1>4

(* The connections of s are closed; the handlers run on unless s is gone.    *)
LEMMA DroppedCalls ==
    ASSUME Socket!ProcessesAssumption, LockInv, CallsHeld, NEW s \in Services, stage[s] # "off",
           NEW gone \in BOOLEAN, calls' = Socket!Dropped(s, gone)
    PROVE  /\ calls' \in [Clients -> CallRecords]
           /\ \A c \in Clients : ~calls'[c].performed
           /\ \A c \in Clients : calls'[c].at # "idle" =>
                  ~gone /\ calls[c].at = "running" /\ calls'[c].at = "running" /\ calls'[c].server = s
           /\ \A c \in Clients : ~gone =>
                  /\ calls'[c].at = "running" <=> calls[c].at = "running"
                  /\ calls[c].at = "running" => calls'[c].window = calls[c].window
<1>1. \A c \in Clients : calls[c].at # "idle" => calls[c].server = s
  BY DEF LockInv, CallsHeld
<1>2. /\ Socket!NoCall \in CallRecords /\ Socket!NoCall.at = "idle" /\ ~Socket!NoCall.performed
  BY DEF Socket!NoCall, CallRecords, Socket!RequestKinds, AnswerCodes
<1>3. ASSUME NEW c \in Clients
      PROVE  /\ calls'[c] \in CallRecords /\ ~calls'[c].performed
             /\ calls'[c].at # "idle" =>
                    ~gone /\ calls[c].at = "running" /\ calls'[c].at = "running" /\ calls'[c].server = s
             /\ ~gone /\ calls[c].at = "running" =>
                    calls'[c].at = "running" /\ calls'[c].window = calls[c].window
  <2>. DEFINE old == calls[c]
              left == [old EXCEPT !.answer = "connection-closed"]
  <2>1. old \in CallRecords /\ (old.performed => old.at = "replied") /\ (old.at # "idle" => old.server = s)
    BY <1>1 DEF CallsHeld
  <2>2. calls'[c] = IF old.server # s THEN old
                    ELSE IF old.at = "running" /\ ~gone THEN left ELSE Socket!NoCall
    BY DEF Socket!Dropped
  <2>. HIDE DEF old
  <2>3. /\ left \in CallRecords /\ left.at = old.at /\ left.server = old.server
        /\ left.window = old.window /\ left.performed = old.performed
    BY <2>1 DEF CallRecords, AnswerCodes
  <2>. HIDE DEF left
  <2>4. CASE old.server # s
    BY <2>1, <2>2, <2>4 DEF old
  <2>5. CASE old.server = s /\ old.at = "running" /\ ~gone
    BY <2>1, <2>2, <2>3, <2>5 DEF old
  <2>6. CASE old.server = s /\ ~(old.at = "running" /\ ~gone)
    BY <1>2, <2>1, <2>2, <2>6 DEF old
  <2>. QED BY <2>4, <2>5, <2>6
<1>4. calls' \in [Clients -> CallRecords]
  <2>1. calls' = [c \in Clients |-> calls'[c]]
    BY DEF Socket!Dropped
  <2>. QED BY <1>3, <2>1
<1>. QED BY <1>3, <1>4

LEMMA StopKept ==
    ASSUME Socket!ProcessesAssumption, SocketInv, NEW s \in Services,
           Socket!StopCloses(s) \/ Socket!StopUnbinds(s) \/ Socket!Killed(s)
    PROVE  SocketInv'
<1>. USE DEF SocketInv
<1>1. CASE Socket!StopCloses(s)
  <2>1. /\ calls' = Socket!Dropped(s, FALSE) /\ UNCHANGED <<windows, tally, lockOwner>> /\ stage[s] # "off"
        /\ stage' = [stage EXCEPT ![s] = "unbinding"]
    BY <1>1 DEF Socket!StopCloses
  <2>2. LockInv'
    BY <1>1 DEF Socket!StopCloses, LockInv
  <2>3. stage'[s] = "unbinding"
    BY <2>1 DEF LockInv
  <2>4. CallsHeld'
    BY <2>1, <2>3, DroppedCalls DEF CallsHeld
  <2>5. WindowsHeld'
    BY <2>1, DroppedCalls, WindowsSame
  <2>. QED BY <2>2, <2>4, <2>5
<1>2. CASE Socket!StopUnbinds(s) /\ bound[s]
  <2>1. /\ bound' = [bound EXCEPT ![s] = FALSE] /\ path' = "none" /\ stage[s] = "unbinding"
        /\ UNCHANGED <<stage, lockOwner, listening, calls, windows, tally>>
    BY <1>2 DEF Socket!StopUnbinds
  <2>2. \A t \in Services : bound[t] => t = s
    BY <2>1 DEF LockInv
  <2>3. LockInv'
    BY <2>1, <2>2 DEF LockInv
  <2>4. CallsHeld'
    BY <2>1 DEF CallsHeld
  <2>5. WindowsHeld'
    BY <2>1, WindowsSame
  <2>. QED BY <2>3, <2>4, <2>5
<1>3. CASE (Socket!StopUnbinds(s) /\ ~bound[s]) \/ Socket!Killed(s)
  <2>1. Socket!Ends(s) /\ stage[s] # "off"
    BY <1>3 DEF Socket!StopUnbinds, Socket!Killed
  <2>2. /\ stage' = [stage EXCEPT ![s] = "off"] /\ calls' = Socket!Dropped(s, TRUE)
        /\ windows' = <<>> /\ tally' = <<>>
    BY <2>1 DEF Socket!Ends
  <2>3. LockInv'
    <3>1. lockOwner' = "none" /\ "none" \notin Services /\ \A t \in Services : t # s => stage[t] = "off" /\ ~bound[t]
      BY <1>3, <2>1 DEF Socket!StopUnbinds, Socket!Killed, LockInv, Socket!ProcessesAssumption
    <3>2. CASE Socket!StopUnbinds(s) /\ ~bound[s]
      <4>1. UNCHANGED <<bound, path, listening>> /\ stage[s] = "unbinding"
        BY <3>2 DEF Socket!StopUnbinds
      <4>. QED BY <2>2, <3>1, <3>2, <4>1 DEF LockInv
    <3>3. CASE Socket!Killed(s)
      <4>1. bound' = [bound EXCEPT ![s] = FALSE] /\ listening' = listening \ {s} /\ path' = path
        BY <3>3 DEF Socket!Killed
      <4>. QED BY <2>2, <3>1, <4>1 DEF LockInv
    <3>. QED BY <1>3, <3>2, <3>3
  <2>4. /\ calls' \in [Clients -> CallRecords]
        /\ \A c \in Clients : ~calls'[c].performed /\ calls'[c].at = "idle"
    BY <2>1, <2>2, DroppedCalls
  <2>5. CallsHeld'
    BY <2>4 DEF CallsHeld, CallRecords
  <2>6. WindowsHeld'
    BY <2>2, <2>4, WindowsGone
  <2>. QED BY <2>3, <2>5, <2>6
<1>. QED BY <1>1, <1>2, <1>3

-----------------------------------------------------------------------------
(* One call.                                                                 *)

(* A call becomes another record of the same process.                        *)
LEMMA CallKept ==
    ASSUME CallsHeld, NEW c \in Clients, NEW new \in CallRecords, calls' = [calls EXCEPT ![c] = new],
           UNCHANGED stage,
           new.at # "idle" => new.server \in Services /\ stage[new.server] \in {"serving", "unbinding"},
           new.performed => new.at = "replied" /\ new.answer \in {"result", "result-too-large"}
    PROVE  CallsHeld' /\ \A d \in Clients : calls'[d] = IF d = c THEN new ELSE calls[d]
<1>1. \A d \in Clients : calls'[d] = IF d = c THEN new ELSE calls[d]
  BY DEF CallsHeld
<1>2. calls' \in [Clients -> CallRecords]
  BY DEF CallsHeld
<1>. QED BY <1>1, <1>2 DEF CallsHeld

LEMMA LockSame == LockInv /\ UNCHANGED Socket!socketVars => LockInv'
BY DEF LockInv, Socket!socketVars

LEMMA NoCallTyped ==
    Socket!NoCall \in CallRecords /\ Socket!NoCall.at = "idle" /\ ~Socket!NoCall.performed
BY DEF Socket!NoCall, CallRecords, Socket!RequestKinds, AnswerCodes

LEMMA ClientKept ==
    ASSUME Socket!ProcessesAssumption, SocketInv, NEW c \in Clients,
           \/ \E kind \in Socket!RequestKinds : Socket!Send(c, kind)
           \/ Socket!Receive(c) \/ Socket!ClientTimesOut(c)
    PROVE  SocketInv'
<1>. USE DEF SocketInv
<1>1. UNCHANGED <<Socket!socketVars, windows, tally>>
  BY DEF Socket!Send, Socket!Receive, Socket!ClientTimesOut
<1>2. LockInv' /\ stage' = stage
  BY <1>1, LockSame DEF Socket!socketVars
<1>. DEFINE old == calls[c]
<1>3. old \in CallRecords /\ (old.at # "idle" => old.server \in Services /\ stage[old.server] \in {"serving", "unbinding"})
      /\ (old.performed => old.at = "replied" /\ old.answer \in {"result", "result-too-large"})
  BY DEF CallsHeld
<1>4. PICK new \in CallRecords :
          /\ calls' = [calls EXCEPT ![c] = new]
          /\ new.at = "running" <=> old.at = "running"
          /\ new.window = old.window \/ old.at # "running"
          /\ new.at # "idle" => new.server \in Services /\ stage[new.server] \in {"serving", "unbinding"}
          /\ new.performed => new.at = "replied" /\ new.answer \in {"result", "result-too-large"}
  <2>1. ASSUME NEW kind \in Socket!RequestKinds, Socket!Send(c, kind)
        PROVE  \E new \in CallRecords :
                  /\ calls' = [calls EXCEPT ![c] = new]
                  /\ new.at = "sent" /\ old.at = "idle"
                  /\ new.server \in Services /\ stage[new.server] \in {"serving", "unbinding"}
                  /\ ~new.performed
    <3>. DEFINE new == [old EXCEPT !.at = "sent", !.server = path, !.kind = kind]
    <3>1. calls' = [calls EXCEPT ![c] = new] /\ old.at = "idle" /\ path \in Services /\ path \in listening
      BY <2>1 DEF Socket!Send
    <3>2. stage[path] = "serving"
      BY <3>1 DEF LockInv
    <3>. HIDE DEF old
    <3>3. /\ new \in CallRecords /\ new.at = "sent" /\ new.server = path /\ new.performed = old.performed
      BY <1>3, <3>1 DEF CallRecords
    <3>. HIDE DEF new
    <3>. QED BY <1>3, <3>1, <3>2, <3>3
  <2>2. ASSUME Socket!Receive(c)
        PROVE  calls' = [calls EXCEPT ![c] = Socket!NoCall] /\ old.at = "replied"
    BY <2>2 DEF Socket!Receive
  <2>3. ASSUME Socket!ClientTimesOut(c)
        PROVE  \E new \in CallRecords :
                  /\ calls' = [calls EXCEPT ![c] = new]
                  /\ new.at = "running" /\ old.at = "running" /\ new.window = old.window
                  /\ new.server = old.server /\ ~new.performed
    <3>. DEFINE new == [old EXCEPT !.answer = "timeout"]
    <3>1. calls' = [calls EXCEPT ![c] = new] /\ old.at = "running"
      BY <2>3 DEF Socket!ClientTimesOut, CallsHeld
    <3>. HIDE DEF old
    <3>2. /\ new \in CallRecords /\ new.at = old.at /\ new.server = old.server
          /\ new.performed = old.performed /\ new.window = old.window
      BY <1>3, <3>1 DEF CallRecords, AnswerCodes
    <3>. HIDE DEF new
    <3>. QED BY <1>3, <3>1, <3>2
  <2>. HIDE DEF old
  <2>4. CASE \E kind \in Socket!RequestKinds : Socket!Send(c, kind)
    BY <2>1, <2>4
  <2>5. CASE Socket!Receive(c)
    BY <2>2, <2>5, NoCallTyped
  <2>6. CASE Socket!ClientTimesOut(c)
    BY <1>3, <2>3, <2>6
  <2>. QED BY <2>4, <2>5, <2>6
<1>5. CallsHeld' /\ \A d \in Clients : calls'[d] = IF d = c THEN new ELSE calls[d]
  BY <1>2, <1>4, CallKept
<1>6. WindowsHeld'
  <2>1. \A d \in Clients : /\ calls'[d].at = "running" <=> calls[d].at = "running"
                           /\ calls[d].at = "running" => calls'[d].window = calls[d].window
    BY <1>4, <1>5
  <2>. QED BY <1>1, <2>1, WindowsSame
<1>. QED BY <1>2, <1>5, <1>6

(* The window that admits a call of this owner: tracked, or new.             *)
LEMMA WindowOf ==
    ASSUME Socket!ProcessesAssumption, CallsHeld, WindowsHeld, NEW c \in Clients
    PROVE  LET id == Socket!WindowId(OwnerOf[c])
               with == Socket!WithWindow(OwnerOf[c])
           IN  /\ with \in Seq(Tallies) /\ id \in DOMAIN with /\ id \in Nat
               /\ \A d \in Clients : calls[d].at = "running" => calls[d].window \in DOMAIN with
               /\ \A k \in DOMAIN with : /\ with[k].inFlight = Cardinality(Running(k))
                                         /\ with[k].inFlight <= MaxCallsAtOnce
               /\ Socket!Touched(OwnerOf[c]) \in Seq(WindowRecords(Len(with)))
<1>. DEFINE owner == OwnerOf[c]
            id == Socket!WindowId(owner)
            with == Socket!WithWindow(owner)
            n == Len(with)
<1>1. tally \in Seq(Tallies) /\ Len(tally) \in Nat /\ windows \in Seq(WindowRecords(Len(tally)))
  BY DEF WindowsHeld
<1>2. /\ with \in Seq(Tallies) /\ id \in DOMAIN with /\ id \in Nat
      /\ \A d \in Clients : calls[d].at = "running" => calls[d].window \in DOMAIN with
      /\ \A k \in DOMAIN with : /\ with[k].inFlight = Cardinality(Running(k))
                                /\ with[k].inFlight <= MaxCallsAtOnce
      /\ windows \in Seq(WindowRecords(n))
  <2>1. CASE Socket!TrackedOf(owner) = {}
    <3>1. id = Len(tally) + 1 /\ with = Append(tally, [calls |-> 0, inFlight |-> 0])
      BY <2>1 DEF Socket!WindowId, Socket!WithWindow
    <3>2. [calls |-> 0, inFlight |-> 0] \in Tallies /\ [calls |-> 0, inFlight |-> 0].inFlight = 0
      BY DEF Tallies
    <3>. DEFINE zero == [calls |-> 0, inFlight |-> 0]
    <3>. HIDE DEF zero
    <3>3. zero \in Tallies /\ zero.inFlight = 0 /\ with = Append(tally, zero)
      BY <3>1, <3>2 DEF zero
    <3>. HIDE DEF id, with
    <3>4. /\ with \in Seq(Tallies) /\ n = Len(tally) + 1 /\ DOMAIN with = 1 .. Len(tally) + 1
          /\ DOMAIN tally = 1 .. Len(tally)
      BY <1>1, <3>3
    <3>5. \A k \in DOMAIN with :
             \/ k \in DOMAIN tally /\ with[k] = tally[k]
             \/ k = Len(tally) + 1 /\ with[k] = zero
      <4>1. \A k \in DOMAIN Append(tally, zero) :
               \/ k \in DOMAIN tally /\ Append(tally, zero)[k] = tally[k]
               \/ k = Len(tally) + 1 /\ Append(tally, zero)[k] = zero
        BY <1>1, <3>3, AppendOf
      <4>. QED BY <3>3, <4>1
    <3>6. \A k \in DOMAIN tally : k \in DOMAIN with /\ k # Len(tally) + 1
      BY <1>1, <3>4
    <3>7. \A d \in Clients : calls[d].at = "running" => calls[d].window \in DOMAIN tally
      BY DEF WindowsHeld
    <3>8. Running(Len(tally) + 1) = {}
      BY <3>6, <3>7 DEF Running
    <3>9. Cardinality(Running(Len(tally) + 1)) = 0 /\ MaxCallsAtOnce \in Nat
      BY <3>8, FS_EmptySet DEF Socket!ProcessesAssumption
    <3>10. \A k \in DOMAIN with : /\ with[k].inFlight = Cardinality(Running(k))
                                 /\ with[k].inFlight <= MaxCallsAtOnce
      BY <3>3, <3>5, <3>9 DEF WindowsHeld
    <3>11. Len(tally) + 1 \in DOMAIN with /\ Len(tally) + 1 \in Nat
      BY <1>1, <3>4
    <3>12. windows \in Seq(WindowRecords(n))
      <4>1. WindowRecords(Len(tally)) \subseteq WindowRecords(n)
        BY <1>1, <3>4 DEF WindowRecords
      <4>. HIDE DEF n
      <4>. QED BY <1>1, <4>1
    <3>13. /\ with \in Seq(Tallies) /\ id \in DOMAIN with /\ id \in Nat
           /\ \A d \in Clients : calls[d].at = "running" => calls[d].window \in DOMAIN with
           /\ windows \in Seq(WindowRecords(n))
      BY <3>1, <3>4, <3>6, <3>7, <3>11, <3>12
    <3>. QED BY <3>10, <3>13
  <2>2. CASE Socket!TrackedOf(owner) # {}
    <3>1. id = windows[Socket!Position(owner)].id /\ with = tally
      BY <2>2 DEF Socket!WindowId, Socket!WithWindow
    <3>2. Socket!Position(owner) \in DOMAIN windows
      BY <2>2 DEF Socket!Position, Socket!TrackedOf
    <3>3. windows[Socket!Position(owner)] \in WindowRecords(Len(tally))
      BY <1>1, <3>2
    <3>4. id \in 1 .. Len(tally)
      BY <3>1, <3>3 DEF WindowRecords
    <3>5. id \in DOMAIN tally /\ id \in Nat
      BY <1>1, <3>4
    <3>. QED BY <1>1, <3>1, <3>5 DEF WindowsHeld
  <2>. QED BY <2>1, <2>2
<1>. HIDE DEF id, with
<1>3. Socket!Touched(owner) \in Seq(WindowRecords(n))
  <2>. DEFINE S == WindowRecords(n)
              others == IF Socket!TrackedOf(owner) = {} THEN windows
                        ELSE Socket!RemoveAt(windows, Socket!Position(owner))
              mine == [owner |-> owner, id |-> id]
              all == Append(others, mine)
  <2>1. mine \in S
    <3>1. id \in 1 .. n
      BY <1>2
    <3>. HIDE DEF n
    <3>. QED BY <3>1 DEF WindowRecords
  <2>2. windows \in Seq(S)
    BY <1>2
  <2>. HIDE DEF S, n
  <2>3. others \in Seq(S)
    <3>1. CASE Socket!TrackedOf(owner) = {}
      BY <2>2, <3>1
    <3>2. CASE Socket!TrackedOf(owner) # {}
      <4>. DEFINE i == Socket!Position(owner)
      <4>1. i \in DOMAIN windows
        BY <3>2 DEF Socket!Position, Socket!TrackedOf
      <4>2. others = SubSeq(windows, 1, i - 1) \o SubSeq(windows, i + 1, Len(windows))
        BY <3>2 DEF Socket!RemoveAt
      <4>. HIDE DEF i
      <4>3. Len(windows) \in Nat /\ i \in 1 .. Len(windows)
        BY <2>2, <4>1
      <4>4. \A k \in 1 .. i - 1 : windows[k] \in S
        BY <2>2, <4>3
      <4>5. \A k \in i + 1 .. Len(windows) : windows[k] \in S
        BY <2>2, <4>3
      <4>6. SubSeq(windows, 1, i - 1) \in Seq(S) /\ SubSeq(windows, i + 1, Len(windows)) \in Seq(S)
        BY <4>3, <4>4, <4>5, SubSeqProperties
      <4>7. \A u, v \in Seq(S) : u \o v \in Seq(S)
        BY ConcatProperties
      <4>. QED BY <4>2, <4>6, <4>7
    <3>. QED BY <3>1, <3>2
  <2>4. Socket!Touched(owner) = IF Len(all) > MaxTracked THEN Tail(all) ELSE all
    BY DEF Socket!Touched, id
  <2>. HIDE DEF others, mine
  <2>5. all \in Seq(S) /\ Tail(all) \in Seq(S)
    <3>1. all \in Seq(S) /\ all # <<>>
      BY <2>1, <2>3, AppendProperties
    <3>. HIDE DEF all
    <3>. QED BY <3>1, TailOf
  <2>. HIDE DEF all
  <2>6. Socket!Touched(owner) \in Seq(S)
    BY <2>4, <2>5
  <2>. QED BY <2>6 DEF S
<1>. QED BY <1>2, <1>3 DEF id, with

LEMMA HandleKept ==
    ASSUME Socket!ProcessesAssumption, SocketInv, NEW c \in Clients, Socket!Handle(c)
    PROVE  SocketInv'
<1>. USE DEF SocketInv
<1>. DEFINE owner == OwnerOf[c]
            id == Socket!WindowId(owner)
            with == Socket!WithWindow(owner)
            old == calls[c]
            RefusedAs(code) == calls' = Socket!Answered(c, code, FALSE)
<1>1. old.at = "sent" /\ UNCHANGED Socket!socketVars
  BY DEF Socket!Handle
<1>2. LockInv' /\ stage' = stage
  BY <1>1, LockSame DEF Socket!socketVars
<1>3. /\ old \in CallRecords /\ old.server \in Services /\ stage[old.server] \in {"serving", "unbinding"}
      /\ ~old.performed
  BY <1>1 DEF CallsHeld
<1>4. /\ with \in Seq(Tallies) /\ id \in DOMAIN with /\ id \in Nat
      /\ \A d \in Clients : calls[d].at = "running" => calls[d].window \in DOMAIN with
      /\ \A k \in DOMAIN with : /\ with[k].inFlight = Cardinality(Running(k))
                                /\ with[k].inFlight <= MaxCallsAtOnce
      /\ Socket!Touched(owner) \in Seq(WindowRecords(Len(with)))
  BY WindowOf
<1>5. ASSUME NEW code \in AnswerCodes, RefusedAs(code)
      PROVE  /\ CallsHeld'
             /\ \A d \in Clients : /\ calls'[d].at = "running" <=> calls[d].at = "running"
                                   /\ calls[d].at = "running" => calls'[d].window = calls[d].window
  <2>. DEFINE new == [Socket!NoCall EXCEPT !.at = "replied", !.server = old.server,
                                           !.answer = code, !.performed = FALSE]
  <2>1. calls' = [calls EXCEPT ![c] = new]
    BY <1>5 DEF Socket!Answered
  <2>. HIDE DEF old
  <2>2. new \in CallRecords /\ new.at = "replied" /\ new.server = old.server /\ ~new.performed
    BY <1>3 DEF Socket!NoCall, CallRecords, Socket!RequestKinds, AnswerCodes
  <2>. HIDE DEF new
  <2>3. CallsHeld' /\ \A d \in Clients : calls'[d] = IF d = c THEN new ELSE calls[d]
    BY <1>2, <1>3, <2>1, <2>2, CallKept
  <2>. QED BY <1>1, <2>2, <2>3 DEF old
<1>. DEFINE early == IF Socket!RefusalBefore(old.kind) # "none" THEN Socket!RefusalBefore(old.kind)
                     ELSE Socket!PayloadRefusal(old.kind)
            limit == Socket!LimitRefusal(with[id])
<1>6. early \in AnswerCodes /\ limit \in AnswerCodes
  BY DEF Socket!RefusalBefore, Socket!PayloadRefusal, Socket!LimitRefusal, AnswerCodes
<1>7. CASE early # "none"
  <2>1. RefusedAs(early) /\ UNCHANGED <<windows, tally>>
    BY <1>7 DEF Socket!Handle
  <2>. HIDE DEF early
  <2>. QED BY <1>2, <1>5, <1>6, <2>1, WindowsSame
<1>8. CASE early = "none" /\ limit # "none"
  <2>1. RefusedAs(limit) /\ windows' = Socket!Touched(owner) /\ tally' = with
    BY <1>8 DEF Socket!Handle
  <2>. HIDE DEF limit, with, id
  <2>2. CallsHeld' /\ \A d \in Clients : /\ calls'[d].at = "running" <=> calls[d].at = "running"
                                         /\ calls[d].at = "running" => calls'[d].window = calls[d].window
    BY <1>5, <1>6, <2>1
  <2>3. \A k : Running(k)' = Running(k)
    BY <2>2 DEF Running
  <2>4. WindowsHeld'
    BY <1>4, <2>1, <2>2, <2>3 DEF WindowsHeld
  <2>. QED BY <1>2, <2>2, <2>4
<1>9. CASE early = "none" /\ limit = "none"
  <2>. DEFINE new == [old EXCEPT !.at = "running", !.window = id]
              entry == [calls |-> with[id].calls + 1, inFlight |-> with[id].inFlight + 1]
  <2>1. calls' = [calls EXCEPT ![c] = new] /\ windows' = Socket!Touched(owner)
    BY <1>9 DEF Socket!Handle
  <2>2. tally' = [with EXCEPT ![id] = entry]
    BY <1>9 DEF Socket!Handle
  <2>3. ~(with[id].inFlight >= MaxCallsAtOnce)
    BY <1>9 DEF Socket!LimitRefusal
  <2>. HIDE DEF old, with, id, early, limit
  <2>4. new \in CallRecords /\ new.at = "running" /\ new.server = old.server /\ ~new.performed /\ new.window = id
    BY <1>3, <1>4 DEF CallRecords
  <2>. DEFINE held == with[id]
  <2>20. held \in Tallies /\ MaxCallsAtOnce \in Nat
    BY <1>4 DEF Socket!ProcessesAssumption
  <2>5. with[id].inFlight \in Nat /\ with[id].calls \in Nat /\ MaxCallsAtOnce \in Nat
    <3>. HIDE DEF held
    <3>1. held.inFlight \in Nat /\ held.calls \in Nat
      BY <2>20 DEF Tallies
    <3>. QED BY <2>20, <3>1 DEF held
  <2>6. entry \in Tallies /\ entry.inFlight = with[id].inFlight + 1
    BY <2>5 DEF Tallies
  <2>. HIDE DEF new, entry
  <2>7. CallsHeld' /\ \A d \in Clients : calls'[d] = IF d = c THEN new ELSE calls[d]
    BY <1>2, <1>3, <2>1, <2>4, CallKept
  <2>8. tally' \in Seq(Tallies) /\ Len(tally') = Len(with) /\ DOMAIN tally' = DOMAIN with
    BY <1>4, <2>2, <2>6
  <2>9. \A k \in DOMAIN with : tally'[k] = IF k = id THEN entry ELSE with[k]
    BY <1>4, <2>2
  <2>21. PICK w \in Nat : w = id
    BY <1>4
  <2>10. c \notin Running(w) /\ Running(w)' = Running(w) \cup {c}
    BY <1>1, <2>4, <2>7, <2>21 DEF Running, old
  <2>11. \A k : k # w => Running(k)' = Running(k)
    BY <1>1, <2>4, <2>7, <2>21 DEF Running, old
  <2>12. Cardinality(Running(w) \cup {c}) = Cardinality(Running(w)) + 1
    BY <2>10, RunningFinite, FS_AddElement
  <2>13. \A d \in Clients : calls'[d].at = "running" => calls'[d].window \in DOMAIN tally'
    BY <1>4, <2>4, <2>7, <2>8
  <2>14. entry.inFlight <= MaxCallsAtOnce /\ entry.inFlight = Cardinality(Running(w) \cup {c})
    BY <1>4, <2>3, <2>5, <2>6, <2>12, <2>21
  <2>15. \A k \in DOMAIN tally' : tally'[k].inFlight = Cardinality(Running(k)') /\ tally'[k].inFlight <= MaxCallsAtOnce
    <3>. SUFFICES ASSUME NEW k \in DOMAIN with
                  PROVE  tally'[k].inFlight = Cardinality(Running(k)') /\ tally'[k].inFlight <= MaxCallsAtOnce
      BY <2>8
    <3>1. CASE k = w
      <4>1. Running(k)' = Running(w) \cup {c}
        BY <2>10, <3>1
      <4>. QED BY <2>9, <2>14, <2>21, <3>1, <4>1
    <3>2. CASE k # w
      BY <1>4, <2>9, <2>11, <2>21, <3>2
    <3>. QED BY <3>1, <3>2
  <2>16. windows' \in Seq(WindowRecords(Len(tally')))
    BY <1>4, <2>1, <2>8
  <2>17. WindowsHeld'
    BY <2>8, <2>13, <2>15, <2>16 DEF WindowsHeld, WindowRecords
  <2>. QED BY <1>2, <2>7, <2>17
<1>. QED BY <1>7, <1>8, <1>9

(* Only good and huge answers have an effect, and both say so.               *)
LEMMA ReplyTyped ==
    ASSUME NEW kind \in Socket!RequestKinds
    PROVE  /\ Socket!ReplyOf(kind) \in AnswerCodes /\ Socket!Performed(kind) \in BOOLEAN
           /\ Socket!Performed(kind) => Socket!ReplyOf(kind) \in {"result", "result-too-large"}
<1>1. Socket!CodecRefusal(kind) \in {"none", "request-too-large", "invalid-request"}
  BY DEF Socket!CodecRefusal
<1>2. Socket!Performed(kind) => Socket!CodecRefusal(kind) = "none" /\ kind # "fails"
  BY DEF Socket!Performed, Socket!CodecRefusal
<1>3. Socket!ReplyOf(kind) \in {"request-too-large", "invalid-request", "internal-error", "result-too-large", "result"}
  BY <1>1 DEF Socket!ReplyOf
<1>4. Socket!Performed(kind) => Socket!ReplyOf(kind) \in {"result", "result-too-large"}
  BY <1>2 DEF Socket!ReplyOf
<1>5. Socket!Performed(kind) \in BOOLEAN
  BY DEF Socket!Performed
<1>. QED BY <1>3, <1>4, <1>5 DEF AnswerCodes

LEMMA FinishKept ==
    ASSUME Socket!ProcessesAssumption, SocketInv, NEW c \in Clients, Socket!Finish(c)
    PROVE  SocketInv'
<1>. USE DEF SocketInv
<1>. DEFINE old == calls[c]
<1>1. old.at = "running" /\ UNCHANGED Socket!socketVars /\ windows' = windows
  BY DEF Socket!Finish
<1>2. LockInv' /\ stage' = stage
  BY <1>1, LockSame DEF Socket!socketVars
<1>3. /\ old \in CallRecords /\ old.server \in Services /\ stage[old.server] \in {"serving", "unbinding"}
      /\ old.window \in DOMAIN tally
  BY <1>1 DEF CallsHeld, WindowsHeld
<1>4. PICK new \in CallRecords :
          /\ calls' = [calls EXCEPT ![c] = new] /\ new.at # "running"
          /\ new.at # "idle" => new.server = old.server
          /\ new.performed => new.at = "replied" /\ new.answer \in {"result", "result-too-large"}
  <2>1. CASE old.answer = "none"
    <3>. DEFINE code == Socket!ReplyOf(old.kind)
                done == Socket!Performed(old.kind)
                new == [Socket!NoCall EXCEPT !.at = "replied", !.server = old.server,
                                             !.answer = code, !.performed = done]
    <3>1. calls' = [calls EXCEPT ![c] = new]
      BY <2>1 DEF Socket!Finish, Socket!Answered
    <3>. HIDE DEF old
    <3>2. old.kind \in Socket!RequestKinds
      BY <1>3 DEF CallRecords
    <3>3. code \in AnswerCodes /\ done \in BOOLEAN /\ (done => code \in {"result", "result-too-large"})
      BY <3>2, ReplyTyped
    <3>. HIDE DEF code, done
    <3>4. /\ new \in CallRecords /\ new.at = "replied" /\ new.server = old.server
          /\ new.answer = code /\ new.performed = done
      <4>1. CASE done = TRUE
        BY <1>3, <3>3, <4>1 DEF Socket!NoCall, CallRecords, Socket!RequestKinds, AnswerCodes
      <4>2. CASE done = FALSE
        <5>. DEFINE refused == [Socket!NoCall EXCEPT !.at = "replied", !.server = old.server,
                                                     !.answer = code, !.performed = FALSE]
        <5>1. new = refused
          BY <4>2
        <5>. HIDE DEF new
        <5>2. refused.at = "replied" /\ refused.server = old.server
              /\ refused.answer = code /\ refused.performed = FALSE
          BY DEF Socket!NoCall
        <5>3. code \in AnswerCodes /\ old.server \in Services
          BY <1>3, <3>3
        <5>4. refused \in CallRecords
          BY <5>3 DEF Socket!NoCall, CallRecords, Socket!RequestKinds
        <5>. HIDE DEF refused
        <5>. QED BY <4>2, <5>1, <5>2, <5>4
      <4>. QED BY <3>3, <4>1, <4>2
    <3>. HIDE DEF new
    <3>. QED BY <3>1, <3>3, <3>4
  <2>2. CASE old.answer # "none"
    <3>1. calls' = [calls EXCEPT ![c] = Socket!NoCall]
      BY <2>2 DEF Socket!Finish
    <3>. QED BY <3>1, NoCallTyped
  <2>. QED BY <2>1, <2>2
<1>5. CallsHeld' /\ \A d \in Clients : calls'[d] = IF d = c THEN new ELSE calls[d]
  <2>. HIDE DEF old
  <2>. QED BY <1>2, <1>3, <1>4, CallKept
<1>6. PICK w \in DOMAIN tally : w = old.window
  BY <1>3
<1>7. /\ tally \in Seq(Tallies) /\ tally[w] \in Tallies
      /\ \A k \in DOMAIN tally : tally[k].inFlight = Cardinality(Running(k)) /\ tally[k].inFlight <= MaxCallsAtOnce
      /\ MaxCallsAtOnce \in Nat
  BY DEF WindowsHeld, Socket!ProcessesAssumption
<1>8. c \in Running(w) /\ Running(w)' = Running(w) \ {c}
  BY <1>1, <1>4, <1>5, <1>6 DEF Running
<1>9. \A k : k # w => Running(k)' = Running(k)
  BY <1>1, <1>4, <1>5, <1>6 DEF Running
<1>10. Cardinality(Running(w)) \in Nat /\ Cardinality(Running(w) \ {c}) = Cardinality(Running(w)) - 1
       /\ Cardinality(Running(w) \ {c}) \in Nat
  <2>1. IsFiniteSet(Running(w)) /\ Cardinality(Running(w)) \in Nat
    BY RunningFinite
  <2>2. IsFiniteSet(Running(w) \ {c}) /\ Cardinality(Running(w) \ {c}) = Cardinality(Running(w)) - 1
    BY <1>8, <2>1, FS_RemoveElement
  <2>. QED BY <2>1, <2>2, FS_CardinalityType
<1>. DEFINE held == tally[w]
            entry == [held EXCEPT !.inFlight = held.inFlight - 1]
<1>11. held.inFlight > 0 /\ held.inFlight - 1 \in Nat
  BY <1>7, <1>10
<1>12. tally' = [tally EXCEPT ![w] = entry]
  BY <1>6, <1>11 DEF Socket!Finish, Socket!ReleaseAdmitted
<1>13. entry \in Tallies /\ entry.inFlight = held.inFlight - 1
  <2>1. held \in Tallies
    BY <1>7
  <2>. HIDE DEF held
  <2>. QED BY <1>11, <2>1 DEF Tallies
<1>14. entry.inFlight = Cardinality(Running(w)') /\ entry.inFlight <= MaxCallsAtOnce
  <2>1. held.inFlight = Cardinality(Running(w)) /\ held.inFlight <= MaxCallsAtOnce
    BY <1>7
  <2>. HIDE DEF held, entry
  <2>2. entry.inFlight = Cardinality(Running(w) \ {c}) /\ entry.inFlight <= MaxCallsAtOnce
    BY <1>7, <1>10, <1>13, <2>1
  <2>. QED BY <1>8, <2>2
<1>. HIDE DEF held, entry
<1>15. tally' \in Seq(Tallies) /\ Len(tally') = Len(tally) /\ DOMAIN tally' = DOMAIN tally
  BY <1>7, <1>12, <1>13
<1>16. \A k \in DOMAIN tally : tally'[k] = IF k = w THEN entry ELSE tally[k]
  BY <1>7, <1>12
<1>17. \A k \in DOMAIN tally' : tally'[k].inFlight = Cardinality(Running(k)') /\ tally'[k].inFlight <= MaxCallsAtOnce
  <2>. SUFFICES ASSUME NEW k \in DOMAIN tally
                PROVE  tally'[k].inFlight = Cardinality(Running(k)') /\ tally'[k].inFlight <= MaxCallsAtOnce
    BY <1>15
  <2>1. CASE k = w
    BY <1>14, <1>16, <2>1
  <2>2. CASE k # w
    BY <1>7, <1>9, <1>16, <2>2
  <2>. QED BY <2>1, <2>2
<1>18. \A d \in Clients : calls'[d].at = "running" => calls'[d].window \in DOMAIN tally'
  BY <1>4, <1>5, <1>15 DEF WindowsHeld
<1>19. windows' \in Seq(WindowRecords(Len(tally')))
  BY <1>1, <1>15 DEF WindowsHeld
<1>20. WindowsHeld'
  BY <1>15, <1>17, <1>18, <1>19 DEF WindowsHeld, WindowRecords
<1>. QED BY <1>2, <1>5, <1>20

LEMMA AgesKept ==
    ASSUME SocketInv, Socket!WindowAges
    PROVE  SocketInv'
<1>. USE DEF SocketInv
<1>1. UNCHANGED <<Socket!socketVars, calls, windows>> /\ tally' = [k \in DOMAIN tally |-> [tally[k] EXCEPT !.calls = 0]]
  BY DEF Socket!WindowAges
<1>2. LockInv' /\ stage' = stage
  BY <1>1, LockSame DEF Socket!socketVars
<1>3. CallsHeld'
  BY <1>1, <1>2 DEF CallsHeld
<1>4. tally \in Seq(Tallies) /\ Len(tally) \in Nat /\ DOMAIN tally = 1 .. Len(tally)
  BY DEF WindowsHeld
<1>5. ASSUME NEW k \in DOMAIN tally
      PROVE  tally'[k] \in Tallies /\ tally'[k].inFlight = tally[k].inFlight
  <2>. DEFINE held == tally[k]
  <2>1. held \in Tallies /\ tally'[k] = [held EXCEPT !.calls = 0]
    BY <1>1, <1>4
  <2>. HIDE DEF held
  <2>2. [held EXCEPT !.calls = 0] \in Tallies /\ [held EXCEPT !.calls = 0].inFlight = held.inFlight
    BY <2>1 DEF Tallies
  <2>. QED BY <2>1, <2>2 DEF held
<1>6. tally' \in Seq(Tallies) /\ Len(tally') = Len(tally) /\ DOMAIN tally' = DOMAIN tally
  <2>1. tally' = [k \in 1 .. Len(tally) |-> tally'[k]]
    BY <1>1, <1>4
  <2>. QED BY <1>4, <1>5, <2>1
<1>7. \A k : Running(k)' = Running(k)
  BY <1>1 DEF Running
<1>8. WindowsHeld'
  BY <1>1, <1>5, <1>6, <1>7 DEF WindowsHeld, WindowRecords
<1>. QED BY <1>2, <1>3, <1>8

(* The one service that serves is the one clients reach, and the quota of a  *)
(* window counts exactly the calls that run, whatever starts, stops or is    *)
(* killed in between: for any services, clients, quotas and bounds           *)
(* (SocketControlTransport.start and stop, ControlGuard.admit and            *)
(* release_admitted).                                                        *)
THEOREM SocketIsSound == Socket!Spec => []SocketSound
<1>. USE SocketAssumption
<1>1. Socket!Init => SocketInv
  BY SocketStart
<1>2. SocketInv /\ [Socket!Next]_Socket!controlVars => SocketInv'
  <2>. SUFFICES ASSUME SocketInv, [Socket!Next]_Socket!controlVars PROVE SocketInv'
    OBVIOUS
  <2>1. CASE UNCHANGED Socket!controlVars
    <3>1. UNCHANGED <<stage, lockOwner, bound, path, listening, calls, windows, tally>>
      BY <2>1 DEF Socket!controlVars, Socket!socketVars, Socket!callVars
    <3>2. WindowsHeld'
      BY <3>1, WindowsSame DEF SocketInv
    <3>. QED BY <3>1, <3>2 DEF SocketInv, LockInv, CallsHeld
  <2>2. CASE Socket!Next
    <3>1. Socket!RequestsAfter(requests) \subseteq Socket!RequestKinds
      BY DEF Socket!RequestsAfter, Socket!RequestKinds
    <3>2. ASSUME NEW s \in Services,
                 \/ Socket!StartLocks(s) \/ Socket!StartProbes(s) \/ Socket!StartBinds(s)
                 \/ Socket!StartFails(s) \/ Socket!StopCloses(s) \/ Socket!StopUnbinds(s) \/ Socket!Killed(s)
          PROVE  SocketInv'
      BY <3>2, StartKept, StopKept
    <3>3. ASSUME NEW c \in Clients,
                 \/ \E kind \in Socket!RequestsAfter(requests) : Socket!Send(c, kind)
                 \/ Socket!Handle(c) \/ Socket!Finish(c) \/ Socket!Receive(c) \/ Socket!ClientTimesOut(c)
          PROVE  SocketInv'
      <4>1. CASE \E kind \in Socket!RequestsAfter(requests) : Socket!Send(c, kind)
        BY <3>1, <4>1, ClientKept
      <4>2. CASE Socket!Receive(c) \/ Socket!ClientTimesOut(c)
        BY <4>2, ClientKept
      <4>3. CASE Socket!Handle(c)
        BY <4>3, HandleKept
      <4>4. CASE Socket!Finish(c)
        BY <4>4, FinishKept
      <4>. QED BY <3>3, <4>1, <4>2, <4>3, <4>4
    <3>. QED BY <2>2, <3>2, <3>3, AgesKept DEF Socket!Next
  <2>. QED BY <2>1, <2>2
<1>3. SocketInv => Socket!SocketSound
  <2>. SUFFICES ASSUME SocketInv PROVE Socket!SocketSound
    OBVIOUS
  <2>1. Socket!ReachableServer
    BY DEF SocketInv, LockInv, Socket!ReachableServer
  <2>2. \A k : Socket!RunningOn(k) = Running(k)
    BY DEF Socket!RunningOn, Running
  <2>3. \A k \in DOMAIN tally : /\ tally[k].inFlight = Socket!Cardinality(Socket!RunningOn(k))
                                /\ Socket!Cardinality(Socket!RunningOn(k)) <= MaxCallsAtOnce
    BY <2>2, SocketCounts DEF SocketInv, WindowsHeld
  <2>4. \A i \in DOMAIN windows : windows[i].id \in DOMAIN tally
    <3>1. /\ windows \in Seq(WindowRecords(Len(tally))) /\ DOMAIN tally = 1 .. Len(tally)
      BY DEF SocketInv, WindowsHeld
    <3>2. \A i \in DOMAIN windows : windows[i] \in WindowRecords(Len(tally))
      BY <3>1
    <3>. QED BY <3>1, <3>2 DEF WindowRecords
  <2>5. \A c \in Clients : calls[c].performed => calls[c].answer \in {"result", "result-too-large"}
    BY DEF SocketInv, CallsHeld
  <2>6. Socket!QuotaIsTrue
    BY <2>3, <2>4, <2>5 DEF Socket!QuotaIsTrue
  <2>. QED BY <2>1, <2>6 DEF Socket!SocketSound
<1>. QED BY <1>1, <1>2, <1>3, PTL DEF Socket!Spec, SocketSound

-----------------------------------------------------------------------------
(* Grants and settings: the ledger is its history, and no editor overwrites  *)
(* a revision it has not seen.                                               *)

Changes == [permission : Permissions, granted : BOOLEAN]
Verbs == {"grant", "revoke"}
AnyPermission == CHOOSE p \in Permissions : TRUE
Ledgers == [at : {"closed", "open", "locked"}, verb : Verbs, permission : Permissions \cup {AnyPermission},
            expected : Nat, revision : Nat, grants : SUBSET Permissions]
LedgerFiles == [revision : Nat, grants : SUBSET Permissions, audit : Seq(Nat), stamp : Nat,
                legible : BOOLEAN]

(* A command line that holds the lock has the ledger as it is on the disk.   *)
LockSees ==
    \A d \in Desks : desk[d].at = "locked" =>
        lockedBy = d /\ desk[d].revision = disk.revision /\ desk[d].grants = disk.grants

EverGranted == {commits[i].permission : i \in DOMAIN commits}

(* The ledger on the disk is the whole history, what the service holds is    *)
(* its beginning.                                                            *)
DiskIsHistory == disk.revision = Len(commits) /\ disk.grants = Consents!Replay(Len(commits))
MemoryIsHistory ==
    /\ memory.revision \in Nat /\ memory.revision <= Len(commits)
    /\ memory.grants = Consents!Replay(memory.revision)

WorkerFields == {"at", "permissions", "declares", "value"}

LedgerInv ==
    /\ commits \in Seq(Changes) /\ desk \in [Desks -> Ledgers] /\ disk \in LedgerFiles
    /\ \A d \in Desks : desk[d].at # "closed" => desk[d].permission \in Permissions
    /\ DiskIsHistory /\ MemoryIsHistory /\ LockSees
    /\ WorkerFields \subseteq DOMAIN worker
    /\ worker.permissions \subseteq worker.declares \cap EverGranted

(* The permissions of the history, whatever its length.                      *)
LEMMA ReplayIsOfHistory ==
    ASSUME commits \in Seq(Changes), NEW n \in Nat, n <= Len(commits)
    PROVE  Consents!Replay(n) \subseteq Permissions \cap EverGranted
<1>1. \A i \in 1 .. n : i \in DOMAIN commits
  OBVIOUS
<1>. QED BY <1>1 DEF Consents!Replay, EverGranted

(* One more change grants or revokes its permission and touches no other;    *)
(* what was replayed before stays.                                           *)
LEMMA ReplayOneMore ==
    ASSUME commits \in Seq(Changes), NEW N \in Nat, N = Len(commits),
           NEW c \in Changes, commits' = Append(commits, c)
    PROVE  /\ commits' \in Seq(Changes) /\ Len(commits') = N + 1
           /\ \A n \in 0 .. N : Consents!Replay(n)' = Consents!Replay(n)
           /\ Consents!Replay(N + 1)' = IF c.granted THEN Consents!Replay(N) \cup {c.permission}
                                                     ELSE Consents!Replay(N) \ {c.permission}
           /\ EverGranted' = EverGranted \cup {c.permission}
<1>1. /\ commits' \in Seq(Changes) /\ Len(commits') = N + 1 /\ N \in Nat
      /\ \A i \in 1 .. N : commits'[i] = commits[i]
      /\ commits'[N + 1] = c
      /\ DOMAIN commits = 1 .. N /\ DOMAIN commits' = 1 .. N + 1
  OBVIOUS
<1>2. ASSUME NEW n \in 0 .. N PROVE Consents!Replay(n)' = Consents!Replay(n)
  <2>1. \A i \in 1 .. n : commits'[i] = commits[i]
    BY <1>1, <1>2
  <2>2. ASSUME NEW p \in Permissions
        PROVE  p \in Consents!Replay(n)' <=> p \in Consents!Replay(n)
    <3>1. \A i \in 1 .. n : \A j \in (i + 1) .. n : j \in 1 .. n
      BY <1>2
    <3>2. p \in Consents!Replay(n)' <=>
              \E i \in 1 .. n : /\ commits'[i].permission = p /\ commits'[i].granted
                                /\ \A j \in (i + 1) .. n : commits'[j].permission # p
      BY <2>2 DEF Consents!Replay
    <3>3. p \in Consents!Replay(n) <=>
              \E i \in 1 .. n : /\ commits[i].permission = p /\ commits[i].granted
                                /\ \A j \in (i + 1) .. n : commits[j].permission # p
      BY <2>2 DEF Consents!Replay
    <3>. QED BY <2>1, <3>1, <3>2, <3>3
  <2>. QED BY <2>2 DEF Consents!Replay
<1>3. c.permission \in Permissions /\ c.granted \in BOOLEAN
  BY DEF Changes
<1>4. ASSUME NEW p \in Permissions
      PROVE  p \in Consents!Replay(N + 1)' <=> IF p = c.permission THEN c.granted ELSE p \in Consents!Replay(N)
  <2>1. p \in Consents!Replay(N + 1)' <=>
            \E i \in 1 .. N + 1 : /\ commits'[i].permission = p /\ commits'[i].granted
                                  /\ \A j \in (i + 1) .. N + 1 : commits'[j].permission # p
    BY <1>4 DEF Consents!Replay
  <2>2. p \in Consents!Replay(N) <=>
            \E i \in 1 .. N : /\ commits[i].permission = p /\ commits[i].granted
                              /\ \A j \in (i + 1) .. N : commits[j].permission # p
    BY <1>4 DEF Consents!Replay
  <2>3. N + 1 \in 1 .. N + 1 /\ \A i \in 1 .. N : i \in 1 .. N + 1 /\ N + 1 \in (i + 1) .. N + 1
    BY <1>1
  <2>4. \A j : j \notin (N + 1 + 1) .. N + 1
    BY <1>1
  <2>5. CASE p = c.permission
    <3>1. ASSUME NEW i \in 1 .. N + 1, \A j \in (i + 1) .. N + 1 : commits'[j].permission # p
          PROVE  i = N + 1
      <4>1. i \in 1 .. N => N + 1 \in (i + 1) .. N + 1
        BY <2>3
      <4>2. i \notin 1 .. N
        BY <1>1, <2>5, <3>1, <4>1
      <4>. QED BY <1>1, <4>2
    <3>. QED BY <1>1, <2>1, <2>3, <2>4, <2>5, <3>1
  <2>6. CASE p # c.permission
    <3>1. ASSUME NEW i \in 1 .. N + 1, commits'[i].permission = p PROVE i \in 1 .. N
      <4>1. i # N + 1
        BY <1>1, <2>6, <3>1
      <4>. QED BY <1>1, <4>1
    <3>2. ASSUME NEW i \in 1 .. N
          PROVE  (\A j \in (i + 1) .. N + 1 : commits'[j].permission # p)
                 <=> (\A j \in (i + 1) .. N : commits[j].permission # p)
      <4>1. \A j \in (i + 1) .. N : j \in 1 .. N /\ j \in (i + 1) .. N + 1
        BY <1>1
      <4>2. \A j \in (i + 1) .. N + 1 : j \in (i + 1) .. N \/ j = N + 1
        BY <1>1
      <4>. QED BY <1>1, <2>6, <4>1, <4>2
    <3>. QED BY <1>1, <2>1, <2>2, <2>3, <2>6, <3>1, <3>2
  <2>. QED BY <2>5, <2>6
<1>5. Consents!Replay(N + 1)' \subseteq Permissions /\ Consents!Replay(N) \subseteq Permissions
  BY DEF Consents!Replay
<1>6. Consents!Replay(N + 1)' = IF c.granted THEN Consents!Replay(N) \cup {c.permission}
                                             ELSE Consents!Replay(N) \ {c.permission}
  BY <1>3, <1>4, <1>5
<1>7. EverGranted' = EverGranted \cup {c.permission}
  <2>1. EverGranted = {commits[i].permission : i \in 1 .. N}
    BY <1>1 DEF EverGranted
  <2>2. EverGranted' = {commits'[i].permission : i \in 1 .. N + 1}
    BY <1>1 DEF EverGranted
  <2>3. \A i : i \in 1 .. N + 1 <=> i \in 1 .. N \/ i = N + 1
    BY <1>1
  <2>. QED BY <1>1, <2>1, <2>2, <2>3
<1>. QED BY <1>1, <1>2, <1>6, <1>7

LEMMA NotOpenIsClosed == Consents!NotOpen \in Ledgers /\ Consents!NotOpen.at = "closed"
BY DEF Consents!NotOpen, Ledgers, AnyPermission, Verbs

LEMMA LedgerStarts == Consents!Init => LedgerInv
<1>. SUFFICES ASSUME Consents!Init PROVE LedgerInv
  OBVIOUS
<1>1. commits \in Seq(Changes) /\ Len(commits) = 0 /\ Consents!Replay(0) = {}
  BY DEF Consents!Init, Consents!Replay
<1>2. /\ desk = [d \in Desks |-> Consents!NotOpen] /\ worker.permissions = {} /\ WorkerFields \subseteq DOMAIN worker
      /\ disk = [revision |-> 0, grants |-> {}, audit |-> <<>>, stamp |-> 0, legible |-> TRUE]
      /\ memory.revision = 0 /\ memory.grants = {}
  BY DEF Consents!Init, Consents!NoWorker, WorkerFields
<1>3. disk \in LedgerFiles
  BY <1>2 DEF LedgerFiles
<1>4. /\ desk \in [Desks -> Ledgers]
      /\ \A d \in Desks : desk[d].at = "closed"
  BY <1>2, NotOpenIsClosed
<1>5. DiskIsHistory /\ MemoryIsHistory
  BY <1>1, <1>2 DEF DiskIsHistory, MemoryIsHistory
<1>. QED BY <1>1, <1>2, <1>3, <1>4, <1>5 DEF LedgerInv, LockSees

(* Steps that touch neither the ledger nor its history.                      *)
LEMMA LedgerFrame ==
    ASSUME LedgerInv, UNCHANGED <<disk, desk, lockedBy, commits>>,
           UNCHANGED memory \/ memory' = Consents!Reloaded,
           WorkerFields \subseteq DOMAIN worker',
           \/ UNCHANGED <<worker.permissions, worker.declares>>
           \/ worker'.permissions \subseteq worker'.declares \cap memory.grants
    PROVE  LedgerInv'
<1>1. LockSees' /\ EverGranted' = EverGranted
  BY DEF LedgerInv, LockSees, EverGranted
<1>2. PICK n, m : n = memory.revision /\ m = Len(commits)
  OBVIOUS
<1>3. n \in Nat /\ m \in Nat /\ n <= m /\ memory.grants = Consents!Replay(n) /\ disk.grants = Consents!Replay(m)
      /\ disk.revision = m
  BY <1>2 DEF LedgerInv, DiskIsHistory, MemoryIsHistory
<1>4. /\ \A k \in Nat : Consents!Replay(k)' = Consents!Replay(k)
      /\ Consents!Replay(0) = {}
  BY DEF Consents!Replay
<1>5. DiskIsHistory'
  BY <1>2, <1>3, <1>4 DEF DiskIsHistory, Consents!Replay
<1>6. MemoryIsHistory'
  <2>1. PICK k : k = memory'.revision
    OBVIOUS
  <2>2. k \in Nat /\ k <= m /\ memory'.grants = Consents!Replay(k)
    <3>1. CASE UNCHANGED memory
      BY <1>2, <1>3, <2>1, <3>1
    <3>2. CASE memory' = Consents!Reloaded
      <4>1. \/ memory'.revision = m /\ memory'.grants = disk.grants
            \/ memory'.revision = 0 /\ memory'.grants = {}
        BY <1>3, <3>2 DEF Consents!Reloaded
      <4>. QED BY <1>3, <1>4, <2>1, <4>1
    <3>. QED BY <3>1, <3>2
  <2>. QED BY <1>2, <2>1, <2>2 DEF MemoryIsHistory, Consents!Replay
<1>7. worker'.permissions \subseteq worker'.declares \cap EverGranted'
  <2>1. memory.grants \subseteq EverGranted
    BY <1>2, <1>3, ReplayIsOfHistory DEF LedgerInv
  <2>. QED BY <1>1, <2>1 DEF LedgerInv
<1>. QED BY <1>1, <1>2, <1>5, <1>6, <1>7 DEF LedgerInv

(* Steps of the command lines that write nothing.                            *)
LEMMA DeskFrame ==
    ASSUME LedgerInv, UNCHANGED <<memory, commits, worker>>,
           disk' \in LedgerFiles, disk'.revision = disk.revision, disk'.grants = disk.grants,
           desk' \in [Desks -> Ledgers], LockSees',
           \A d \in Desks : desk'[d].at # "closed" => desk'[d].permission \in Permissions
    PROVE  LedgerInv'
<1>1. EverGranted' = EverGranted
  BY DEF EverGranted
<1>2. DiskIsHistory' /\ MemoryIsHistory'
  BY DEF LedgerInv, DiskIsHistory, MemoryIsHistory, Consents!Replay
<1>. QED BY <1>1, <1>2 DEF LedgerInv

LEMMA DeskOpensKeeps ==
    ASSUME LedgerInv, NEW d \in Desks, NEW verb \in Verbs, NEW p \in Permissions,
           Consents!DeskOpens(d, verb, p)
    PROVE  LedgerInv'
<1>. DEFINE new == [at |-> "open", verb |-> verb, permission |-> p, expected |-> disk.revision,
                    revision |-> disk.revision, grants |-> disk.grants]
<1>1. /\ desk' = [desk EXCEPT ![d] = new] /\ UNCHANGED <<disk, memory, lockedBy, commits, worker>>
  BY DEF Consents!DeskOpens, Consents!workerVars
<1>2. disk \in LedgerFiles /\ desk \in [Desks -> Ledgers] /\ LockSees
  BY DEF LedgerInv
<1>3. new \in Ledgers /\ new.at = "open" /\ new.permission = p
  BY <1>2 DEF Ledgers, LedgerFiles
<1>. HIDE DEF new
<1>4. /\ desk' \in [Desks -> Ledgers]
      /\ \A e \in Desks : desk'[e] = IF e = d THEN new ELSE desk[e]
  BY <1>1, <1>2, <1>3
<1>5. LockSees'
  BY <1>1, <1>2, <1>3, <1>4 DEF LockSees
<1>6. \A e \in Desks : desk'[e].at # "closed" => desk'[e].permission \in Permissions
  BY <1>3, <1>4 DEF LedgerInv
<1>. QED BY <1>1, <1>2, <1>4, <1>5, <1>6, DeskFrame

(* A command line is closed, without the lock or giving it back.             *)
LEMMA DeskCloses ==
    ASSUME LedgerInv, NEW d \in Desks, desk' = [desk EXCEPT ![d] = Consents!NotOpen],
           lockedBy' = lockedBy \/ (lockedBy = d /\ lockedBy' = "none"),
           UNCHANGED <<disk, memory, commits, worker>>
    PROVE  LedgerInv'
<1>1. disk \in LedgerFiles /\ desk \in [Desks -> Ledgers] /\ LockSees
  BY DEF LedgerInv
<1>2. /\ desk' \in [Desks -> Ledgers]
      /\ \A e \in Desks : desk'[e] = IF e = d THEN Consents!NotOpen ELSE desk[e]
  BY <1>1, NotOpenIsClosed
<1>3. LockSees'
  BY <1>1, <1>2, NotOpenIsClosed DEF LockSees
<1>4. \A e \in Desks : desk'[e].at # "closed" => desk'[e].permission \in Permissions
  BY <1>2, NotOpenIsClosed DEF LedgerInv
<1>. QED BY <1>1, <1>2, <1>3, <1>4, DeskFrame

LEMMA DeskLocksKeeps ==
    ASSUME Consents!NamesAssumption, LedgerInv, NEW d \in Desks, Consents!DeskLocks(d)
    PROVE  LedgerInv'
<1>0. UNCHANGED <<disk, memory, commits, worker>>
  BY DEF Consents!DeskLocks, Consents!workerVars
<1>1. CASE ~Consents!Legible
  BY <1>0, <1>1, DeskCloses DEF Consents!DeskLocks
<1>2. CASE Consents!Legible
  <2>. DEFINE new == [[desk[d] EXCEPT !.revision = disk.revision, !.grants = disk.grants] EXCEPT !.at = "locked"]
  <2>1. /\ desk' = [desk EXCEPT ![d] = new] /\ lockedBy' = d /\ desk[d].at = "open" /\ lockedBy = "none"
    BY <1>2 DEF Consents!DeskLocks, Consents!Loaded
  <2>2. disk \in LedgerFiles /\ desk \in [Desks -> Ledgers] /\ LockSees /\ desk[d] \in Ledgers
    BY DEF LedgerInv
  <2>3. disk.revision \in Nat /\ disk.grants \in SUBSET Permissions
    BY <2>2 DEF LedgerFiles
  <2>4. /\ new \in Ledgers /\ new.at = "locked" /\ new.permission = desk[d].permission
        /\ new.revision = disk.revision /\ new.grants = disk.grants
    BY <2>2, <2>3 DEF Ledgers
  <2>. HIDE DEF new
  <2>5. /\ desk' \in [Desks -> Ledgers]
        /\ \A e \in Desks : desk'[e] = IF e = d THEN new ELSE desk[e]
    BY <2>1, <2>2, <2>4
  <2>6. \A e \in Desks : desk[e].at # "locked"
    BY <2>1, <2>2 DEF LockSees, Consents!NamesAssumption
  <2>7. LockSees'
    BY <1>0, <2>1, <2>4, <2>5, <2>6 DEF LockSees
  <2>8. \A e \in Desks : desk'[e].at # "closed" => desk'[e].permission \in Permissions
    BY <2>1, <2>4, <2>5 DEF LedgerInv
  <2>. QED BY <1>0, <2>2, <2>5, <2>7, <2>8, DeskFrame
<1>. QED BY <1>1, <1>2

(* A commit is one change of the history: the revision and grants were read  *)
(* under the lock that is still held.                                        *)
LEMMA DeskCommitsKeeps ==
    ASSUME Consents!NamesAssumption, LedgerInv, NEW d \in Desks, NEW fits \in BOOLEAN,
           Consents!DeskCommits(d, fits)
    PROVE  LedgerInv'
<1>0. /\ UNCHANGED <<memory, worker>> /\ desk' = [desk EXCEPT ![d] = Consents!NotOpen]
      /\ lockedBy' = "none" /\ desk[d].at = "locked"
  BY DEF Consents!DeskCommits, Consents!workerVars
<1>1. /\ disk \in LedgerFiles /\ desk \in [Desks -> Ledgers] /\ LockSees /\ desk[d] \in Ledgers
      /\ lockedBy = d /\ desk[d].revision = disk.revision /\ desk[d].grants = disk.grants
      /\ desk[d].permission \in Permissions
  BY <1>0 DEF LedgerInv, LockSees
<1>2. CASE UNCHANGED <<disk, commits>>
  BY <1>0, <1>1, <1>2, DeskCloses
<1>3. CASE /\ disk' = Consents!Committed(desk[d])
           /\ commits' = Append(commits, [permission |-> desk[d].permission,
                                          granted |-> desk[d].verb = "grant"])
  <2>1. PICK N \in Nat : N = Len(commits)
    BY DEF LedgerInv
  <2>2. PICK c : c = [permission |-> desk[d].permission, granted |-> desk[d].verb = "grant"]
    OBVIOUS
  <2>3. c \in Changes /\ c.permission = desk[d].permission /\ c.granted = (desk[d].verb = "grant")
    BY <1>1, <2>2 DEF Changes
  <2>4. /\ commits' \in Seq(Changes) /\ Len(commits') = N + 1
        /\ \A n \in 0 .. N : Consents!Replay(n)' = Consents!Replay(n)
        /\ Consents!Replay(N + 1)' = IF c.granted THEN Consents!Replay(N) \cup {c.permission}
                                                  ELSE Consents!Replay(N) \ {c.permission}
        /\ EverGranted' = EverGranted \cup {c.permission}
    BY <1>3, <2>1, <2>2, <2>3, ReplayOneMore DEF LedgerInv
  <2>5. disk.revision = N /\ disk.grants = Consents!Replay(N)
    BY <2>1 DEF LedgerInv, DiskIsHistory
  <2>6. /\ disk'.revision = N + 1
        /\ disk'.grants = IF c.granted THEN disk.grants \cup {c.permission} ELSE disk.grants \ {c.permission}
    BY <1>1, <1>3, <2>3, <2>5 DEF Consents!Committed
  <2>7. disk' \in LedgerFiles
    <3>1. /\ disk.audit \in Seq(Nat) /\ disk.stamp + 1 \in Nat /\ disk.revision + 1 \in Nat
          /\ disk'.grants \in SUBSET Permissions
      BY <1>1, <2>3, <2>6 DEF LedgerFiles
    <3>2. PICK audit : audit = Append(disk.audit, disk.revision + 1)
      OBVIOUS
    <3>3. audit \in Seq(Nat) /\ audit # <<>>
      BY <3>1, <3>2
    <3>4. Tail(audit) \in Seq(Nat)
      BY <3>3
    <3>5. PICK kept : kept \in Seq(Nat) /\ disk' = [revision |-> disk.revision + 1, grants |-> disk'.grants,
                                                    audit |-> kept, stamp |-> disk.stamp + 1, legible |-> TRUE]
      BY <1>1, <1>3, <3>2, <3>3, <3>4 DEF Consents!Committed
    <3>6. PICK next, held, stamp : /\ next = disk.revision + 1 /\ held = disk'.grants
                                   /\ stamp = disk.stamp + 1
      OBVIOUS
    <3>7. /\ next \in Nat /\ held \in SUBSET Permissions /\ stamp \in Nat /\ kept \in Seq(Nat)
          /\ disk' = [revision |-> next, grants |-> held, audit |-> kept, stamp |-> stamp, legible |-> TRUE]
      BY <3>1, <3>5, <3>6
    <3>. QED BY <3>7 DEF LedgerFiles
  <2>8. MemoryIsHistory'
    <3>1. PICK n : n = memory.revision
      OBVIOUS
    <3>2. n \in 0 .. N /\ memory.grants = Consents!Replay(n)
      BY <2>1, <3>1 DEF LedgerInv, MemoryIsHistory
    <3>3. Consents!Replay(n)' = Consents!Replay(n)
      BY <2>4, <3>2
    <3>4. memory'.grants = Consents!Replay(n)' /\ memory'.revision = n /\ n \in Nat /\ n <= Len(commits')
      BY <1>0, <2>4, <3>1, <3>2, <3>3
    <3>. QED BY <3>4 DEF MemoryIsHistory, Consents!Replay
  <2>9. DiskIsHistory'
    <3>1. PICK m : m = N + 1
      OBVIOUS
    <3>2. disk'.grants = Consents!Replay(m)' /\ disk'.revision = m /\ Len(commits') = m
      BY <2>4, <2>5, <2>6, <3>1
    <3>. QED BY <3>2 DEF DiskIsHistory, Consents!Replay
  <2>10. /\ desk' \in [Desks -> Ledgers]
         /\ \A e \in Desks : desk'[e] = IF e = d THEN Consents!NotOpen ELSE desk[e]
    BY <1>0, <1>1, NotOpenIsClosed
  <2>11. \A e \in Desks : desk'[e].at # "locked"
    BY <1>1, <2>10, NotOpenIsClosed DEF LockSees
  <2>12. LockSees' /\ \A e \in Desks : desk'[e].at # "closed" => desk'[e].permission \in Permissions
    BY <2>10, <2>11, NotOpenIsClosed DEF LockSees, LedgerInv
  <2>13. worker'.permissions \subseteq worker'.declares \cap EverGranted'
    BY <1>0, <2>4 DEF LedgerInv
  <2>. QED BY <1>0, <2>4, <2>7, <2>8, <2>9, <2>10, <2>12, <2>13 DEF LedgerInv
<1>. QED BY <1>2, <1>3 DEF Consents!DeskCommits

LEMMA LedgerStep ==
    ASSUME Consents!NamesAssumption, LedgerInv, [Consents!Next]_Consents!consentVars
    PROVE  LedgerInv'
<1>. USE DEF Consents!ledgerVars, Consents!settingVars, Consents!workerVars
<1>1. ASSUME UNCHANGED Consents!consentVars PROVE LedgerInv'
  BY <1>1, LedgerFrame DEF Consents!consentVars, LedgerInv
<1>2. ASSUME NEW cands, Consents!Install(cands) PROVE LedgerInv'
  BY <1>2, LedgerFrame DEF Consents!Install, LedgerInv
<1>3. ASSUME NEW d \in Desks, Consents!DeskKilled(d) PROVE LedgerInv'
  BY <1>3, DeskCloses DEF Consents!DeskKilled
<1>4. ASSUME Consents!Meddle PROVE LedgerInv'
  <2>1. disk \in LedgerFiles /\ desk \in [Desks -> Ledgers] /\ LockSees
        /\ \A d \in Desks : desk[d].at # "closed" => desk[d].permission \in Permissions
    BY DEF LedgerInv
  <2>2. disk' = [disk EXCEPT !.legible = ~disk.legible, !.stamp = disk.stamp + 1]
        /\ UNCHANGED <<memory, desk, lockedBy, commits, worker>>
    BY <1>4 DEF Consents!Meddle
  <2>3. disk.legible \in BOOLEAN /\ disk.stamp \in Nat
    BY <2>1 DEF LedgerFiles
  <2>4. disk' \in LedgerFiles /\ disk'.revision = disk.revision /\ disk'.grants = disk.grants
    <3>1. PICK legible, stamp : legible = ~disk.legible /\ stamp = disk.stamp + 1
      OBVIOUS
    <3>2. stamp \in Nat
      BY <2>3, <3>1
    <3>3. legible \in BOOLEAN
      BY <3>1
    <3>4. disk' = [disk EXCEPT !.legible = legible, !.stamp = stamp]
      BY <2>2, <3>1
    <3>. QED BY <2>1, <3>2, <3>3, <3>4 DEF LedgerFiles
  <2>5. LockSees'
    BY <2>1, <2>2, <2>4 DEF LockSees
  <2>. QED BY <2>1, <2>2, <2>4, <2>5, DeskFrame
<1>5. ASSUME \/ Consents!RefreshGrants \/ Consents!GuardPolls
             \/ \E p \in Permissions : Consents!GuardBegins(p)
      PROVE  LedgerInv'
  <2>1. /\ UNCHANGED <<disk, desk, lockedBy, commits, worker>>
        /\ UNCHANGED memory \/ memory' = Consents!Reloaded
    BY <1>5 DEF Consents!RefreshGrants, Consents!GuardPolls, Consents!GuardBegins, Consents!Live
  <2>. QED BY <2>1, LedgerFrame DEF LedgerInv
<1>6. ASSUME NEW e \in Editors,
             \/ Consents!EditorLoads(e) \/ \E value : Consents!EditorUpdates(e, value)
             \/ \E v : Consents!Upgrade(e, v)
      PROVE  LedgerInv'
  <2>1. UNCHANGED <<disk, memory, desk, lockedBy, commits, worker>>
    BY <1>6 DEF Consents!EditorLoads, Consents!EditorUpdates, Consents!Upgrade
  <2>. QED BY <2>1, LedgerFrame DEF LedgerInv
<1>7. ASSUME NEW e \in Editors, Consents!Launch(e) PROVE LedgerInv'
  <2>1. PICK c : worker' = [at |-> "starting", permissions |-> Consents!Active(memory.grants, c.declares),
                            declares |-> c.declares, value |-> "absent"]
    BY <1>7 DEF Consents!Launch
  <2>2. /\ worker'.permissions \subseteq worker'.declares \cap memory.grants
        /\ WorkerFields \subseteq DOMAIN worker'
    BY <2>1 DEF Consents!Active, WorkerFields
  <2>3. UNCHANGED <<disk, memory, desk, lockedBy, commits>>
    BY <1>7 DEF Consents!Launch
  <2>. QED BY <2>2, <2>3, LedgerFrame
<1>8. ASSUME Consents!WorkerReads \/ Consents!Close \/ \E given : Consents!Resolve(given) PROVE LedgerInv'
  <2>1. /\ UNCHANGED <<disk, memory, desk, lockedBy, commits>>
        /\ UNCHANGED worker \/ worker' = [worker EXCEPT !.at = "up", !.value = published]
    BY <1>8 DEF Consents!WorkerReads, Consents!Close, Consents!Resolve
  <2>2. UNCHANGED <<worker.permissions, worker.declares>> /\ WorkerFields \subseteq DOMAIN worker'
    BY <2>1 DEF LedgerInv, WorkerFields
  <2>. QED BY <2>1, <2>2, LedgerFrame
<1>9. ASSUME Consents!WorkerEnds PROVE LedgerInv'
  <2>1. /\ UNCHANGED <<disk, memory, desk, lockedBy, commits>> /\ worker'.permissions = {}
        /\ WorkerFields \subseteq DOMAIN worker'
    BY <1>9 DEF Consents!WorkerEnds, Consents!NoWorker, WorkerFields
  <2>. QED BY <2>1, LedgerFrame
<1>. QED BY <1>1, <1>2, <1>3, <1>4, <1>5, <1>6, <1>7, <1>8, <1>9, DeskOpensKeeps, DeskLocksKeeps,
            DeskCommitsKeeps DEF Consents!Next, Verbs

(* The settings: the version and revision of what is stored, and every       *)
(* accepted change of it.                                                    *)
Values == Configurations \cup {Consents!DeclaredDefaults}
Edits == [value : Values, over : Int]
Settings == [version : SpecVersions \cup {1}, revision : Nat, value : Values]

(* Each change of a sequence was made over the one before it.                *)
Linear(s) == \A i \in DOMAIN s : s[i].over = i - 1
Said(s) == {s[i].value : i \in DOMAIN s}
Known(v) == v \in {Consents!DeclaredDefaults, "absent"} \cup Said(edits)

SettingsInv ==
    /\ edits \in Seq(Edits) /\ stored \in Settings /\ builtFor \in [Editors -> SpecVersions \cup {1}]
    /\ edit \in [Editors -> Nat \cup {-1}]
    /\ stored.revision = Len(edits) /\ Linear(edits)
    /\ Known(stored.value) /\ Known(published) /\ Known(worker.value)
    /\ WorkerFields \subseteq DOMAIN worker

LEMMA EditLinear ==
    ASSUME NEW s \in Seq(Edits), Linear(s), NEW v \in Values, NEW t,
           t = Append(s, [value |-> v, over |-> Len(s)])
    PROVE  t \in Seq(Edits) /\ Linear(t) /\ Len(t) = Len(s) + 1 /\ Said(t) = Said(s) \cup {v}
<1>1. PICK N \in Nat : N = Len(s)
  OBVIOUS
<1>2. PICK e : e = [value |-> v, over |-> N]
  OBVIOUS
<1>3. e \in Edits /\ e.value = v /\ e.over = N
  BY <1>2 DEF Edits
<1>4. /\ t \in Seq(Edits) /\ Len(t) = N + 1 /\ t[N + 1] = e /\ \A i \in 1 .. N : t[i] = s[i]
      /\ DOMAIN t = 1 .. N + 1 /\ DOMAIN s = 1 .. N
  BY <1>1, <1>2, <1>3
<1>5. \A i : i \in 1 .. N + 1 <=> i \in 1 .. N \/ i = N + 1
  OBVIOUS
<1>6. Linear(t)
  BY <1>3, <1>4, <1>5 DEF Linear
<1>7. Said(t) = Said(s) \cup {v}
  BY <1>3, <1>4, <1>5 DEF Said
<1>. QED BY <1>1, <1>4, <1>6, <1>7

(* What a reader of the settings sees: their value, whatever the version.    *)
LEMMA CurrentIs ==
    ASSUME SettingsInv, NEW v \in SpecVersions \cup {1}
    PROVE  /\ Consents!Current(v) \in Settings /\ Consents!Current(v).value = stored.value
           /\ Consents!Migrates(v) => Consents!Current(v).revision = stored.revision + 1
           /\ ~Consents!Migrates(v) => Consents!Current(v).revision = stored.revision
<1>1. stored \in Settings
  BY DEF SettingsInv
<1>2. stored.revision + 1 \in Nat
  BY <1>1 DEF Settings
<1>3. CASE stored.revision = 0
  <2>1. Consents!Current(v) = [stored EXCEPT !.version = v] /\ ~Consents!Migrates(v)
    BY <1>3 DEF Consents!Current, Consents!Migrates
  <2>. QED BY <1>1, <1>3, <2>1 DEF Settings
<1>4. CASE stored.revision # 0 /\ Consents!Migrates(v)
  <2>1. Consents!Current(v) = [stored EXCEPT !.version = v, !.revision = stored.revision + 1]
    BY <1>4 DEF Consents!Current
  <2>. QED BY <1>1, <1>2, <1>4, <2>1 DEF Settings
<1>5. CASE stored.revision # 0 /\ ~Consents!Migrates(v)
  <2>1. Consents!Current(v) = stored
    BY <1>5 DEF Consents!Current
  <2>. QED BY <1>1, <1>5, <2>1
<1>. QED BY <1>3, <1>4, <1>5

(* A load leaves the settings, or migrates them: one more change.            *)
LEMMA LoadKeeps ==
    ASSUME SettingsInv, NEW v \in SpecVersions \cup {1}, Consents!LoadSettings(v)
    PROVE  /\ edits' \in Seq(Edits) /\ stored' \in Settings /\ stored'.revision = Len(edits')
           /\ Linear(edits') /\ stored'.value = stored.value /\ Said(edits) \subseteq Said(edits')
<1>1. /\ edits \in Seq(Edits) /\ stored \in Settings /\ stored.revision = Len(edits) /\ Linear(edits)
      /\ stored.value \in Values
  BY DEF SettingsInv, Settings
<1>2. CASE Consents!Migrates(v)
  <2>1. PICK u : u = stored.value
    OBVIOUS
  <2>2. edits' = Append(edits, [value |-> u, over |-> Len(edits)]) /\ stored' = Consents!Current(v)
    BY <1>1, <1>2, <2>1 DEF Consents!LoadSettings
  <2>3. u \in Values
    BY <1>1, <2>1
  <2>4. PICK s, t : s = edits /\ t = edits'
    OBVIOUS
  <2>5. s \in Seq(Edits) /\ Linear(s) /\ t = Append(s, [value |-> u, over |-> Len(s)])
    BY <1>1, <2>2, <2>4
  <2>6. t \in Seq(Edits) /\ Linear(t) /\ Len(t) = Len(s) + 1 /\ Said(t) = Said(s) \cup {u}
    BY <2>3, <2>5, EditLinear
  <2>. QED BY <1>1, <1>2, <2>2, <2>4, <2>6, CurrentIs
<1>3. CASE ~Consents!Migrates(v)
  BY <1>1, <1>3 DEF Consents!LoadSettings
<1>. QED BY <1>2, <1>3

(* Steps that leave the settings, and whatever they publish is known.        *)
LEMMA SettingsFrame ==
    ASSUME SettingsInv, UNCHANGED <<stored, edit, edits>>,
           builtFor' \in [Editors -> SpecVersions \cup {1}], Known(published'), Known(worker'.value),
           WorkerFields \subseteq DOMAIN worker'
    PROVE  SettingsInv'
BY DEF SettingsInv, Known, Said, Linear

LEMMA SettingsStart == Consents!Init => SettingsInv
<1>. SUFFICES ASSUME Consents!Init PROVE SettingsInv
  OBVIOUS
<1>1. /\ edits = <<>> /\ stored = [version |-> 1, revision |-> 0, value |-> Consents!DeclaredDefaults]
      /\ edit = [e \in Editors |-> -1] /\ builtFor = [e \in Editors |-> 1] /\ published = "absent"
      /\ worker = Consents!NoWorker
  BY DEF Consents!Init
<1>2. edits \in Seq(Edits) /\ Linear(edits) /\ Len(edits) = 0
  BY <1>1 DEF Linear
<1>3. stored \in Settings /\ stored.revision = 0
  BY <1>1 DEF Settings, Values
<1>4. Known(stored.value) /\ Known(published) /\ Known(worker.value) /\ WorkerFields \subseteq DOMAIN worker
  BY <1>1 DEF Known, Consents!NoWorker, WorkerFields
<1>. QED BY <1>1, <1>2, <1>3, <1>4 DEF SettingsInv

LEMMA EditorLoadsKeeps ==
    ASSUME SettingsInv, NEW e \in Editors, Consents!EditorLoads(e)
    PROVE  SettingsInv'
<1>1. /\ Consents!LoadSettings(builtFor[e]) /\ UNCHANGED <<builtFor, published, worker>>
      /\ edit' = [edit EXCEPT ![e] = Consents!Current(builtFor[e]).revision]
  BY DEF Consents!EditorLoads, Consents!workerVars
<1>2. PICK v : v = builtFor[e]
  OBVIOUS
<1>3. v \in SpecVersions \cup {1} /\ edit \in [Editors -> Nat \cup {-1}]
  BY <1>2 DEF SettingsInv
<1>4. /\ edits' \in Seq(Edits) /\ stored' \in Settings /\ stored'.revision = Len(edits')
      /\ Linear(edits') /\ stored'.value = stored.value /\ Said(edits) \subseteq Said(edits')
  BY <1>1, <1>2, <1>3, LoadKeeps
<1>5. Consents!Current(v) \in Settings
  BY <1>3, CurrentIs
<1>6. PICK n : n = Consents!Current(v).revision
  OBVIOUS
<1>7. n \in Nat /\ edit' = [edit EXCEPT ![e] = n]
  BY <1>1, <1>2, <1>5, <1>6 DEF Settings
<1>8. edit' \in [Editors -> Nat \cup {-1}]
  BY <1>3, <1>7
<1>9. (Known(stored.value) /\ Known(published) /\ Known(worker.value))'
  BY <1>1, <1>4 DEF SettingsInv, Known
<1>. QED BY <1>1, <1>4, <1>8, <1>9 DEF SettingsInv

LEMMA LaunchKeeps ==
    ASSUME SettingsInv, NEW e \in Editors, Consents!Launch(e)
    PROVE  SettingsInv'
<1>1. PICK v : v = builtFor[e]
  OBVIOUS
<1>2. v \in SpecVersions \cup {1}
  BY <1>1 DEF SettingsInv
<1>3. /\ IF Consents!Readable(v) THEN Consents!LoadSettings(v) ELSE UNCHANGED <<stored, edits>>
      /\ published' = Consents!ServiceSettings(v)
      /\ worker'.value = "absent" /\ WorkerFields \subseteq DOMAIN worker'
      /\ UNCHANGED <<edit, builtFor>>
  BY <1>1 DEF Consents!Launch, WorkerFields
<1>4. /\ edits' \in Seq(Edits) /\ stored' \in Settings /\ stored'.revision = Len(edits')
      /\ Linear(edits') /\ stored'.value = stored.value /\ Said(edits) \subseteq Said(edits')
  <2>1. CASE Consents!Readable(v)
    BY <1>2, <1>3, <2>1, LoadKeeps
  <2>2. CASE ~Consents!Readable(v)
    BY <1>3, <2>2 DEF SettingsInv
  <2>. QED BY <2>1, <2>2
<1>5. published' \in {stored.value, "absent"}
  BY <1>2, <1>3, CurrentIs DEF Consents!ServiceSettings
<1>6. (Known(stored.value) /\ Known(published) /\ Known(worker.value))'
  BY <1>3, <1>4, <1>5 DEF SettingsInv, Known
<1>. QED BY <1>3, <1>4, <1>6 DEF SettingsInv

(* An update is made over the revision that was loaded, which is still the   *)
(* current one; where it migrates first, the migration is a change before it.*)
LEMMA EditorUpdatesKeeps ==
    ASSUME SettingsInv, NEW e \in Editors, NEW value, Consents!EditorUpdates(e, value)
    PROVE  SettingsInv'
<1>1. PICK v, n : v = builtFor[e] /\ n = edit[e]
  OBVIOUS
<1>2. v \in SpecVersions \cup {1} /\ edit \in [Editors -> Nat \cup {-1}] /\ n \in Nat
  BY <1>1 DEF SettingsInv, Consents!EditorUpdates
<1>3. edit' = [edit EXCEPT ![e] = -1] /\ UNCHANGED <<builtFor, published, worker>>
  BY DEF Consents!EditorUpdates, Consents!workerVars
<1>4. edit' \in [Editors -> Nat \cup {-1}]
  BY <1>2, <1>3
<1>5. /\ edits \in Seq(Edits) /\ stored \in Settings /\ stored.revision = Len(edits) /\ Linear(edits)
      /\ stored.value \in Values
  BY DEF SettingsInv, Settings
<1>6. CASE Consents!Persistable(value) /\ Consents!Updates(e)
  <2>1. PICK u, s, t : /\ u = stored.value /\ s = IF Consents!Migrates(v)
                                                  THEN Append(edits, [value |-> u, over |-> Len(edits)])
                                                  ELSE edits
                       /\ t = edits'
    OBVIOUS
  <2>2. u \in Values /\ value \in Values
    BY <1>5, <1>6, <2>1 DEF Consents!Persistable, Values
  <2>3. s \in Seq(Edits) /\ Linear(s) /\ Said(edits) \subseteq Said(s)
        /\ Len(s) = IF Consents!Migrates(v) THEN Len(edits) + 1 ELSE Len(edits)
    <3>1. CASE Consents!Migrates(v)
      <4>1. PICK r : r = edits
        OBVIOUS
      <4>2. r \in Seq(Edits) /\ Linear(r) /\ s = Append(r, [value |-> u, over |-> Len(r)])
        BY <1>5, <2>1, <3>1, <4>1
      <4>3. s \in Seq(Edits) /\ Linear(s) /\ Len(s) = Len(r) + 1 /\ Said(s) = Said(r) \cup {u}
        BY <2>2, <4>2, EditLinear
      <4>. QED BY <3>1, <4>1, <4>3
    <3>2. CASE ~Consents!Migrates(v)
      BY <1>5, <2>1, <3>2
    <3>. QED BY <3>1, <3>2
  <2>4. Consents!Current(v).revision = n /\ Len(s) = n
    BY <1>1, <1>2, <1>5, <1>6, <2>3, CurrentIs DEF Consents!Updates
  <2>5. t = Append(s, [value |-> value, over |-> n])
    BY <1>1, <1>5, <1>6, <2>1 DEF Consents!EditorUpdates
  <2>6. t \in Seq(Edits) /\ Linear(t) /\ Len(t) = n + 1 /\ Said(t) = Said(s) \cup {value}
    BY <2>2, <2>3, <2>4, <2>5, EditLinear
  <2>7. stored' = [version |-> v, revision |-> n + 1, value |-> value]
    BY <1>1, <1>6, <2>4 DEF Consents!EditorUpdates
  <2>8. stored' \in Settings /\ stored'.revision = n + 1 /\ stored'.value = value
    BY <1>2, <2>2, <2>7 DEF Settings
  <2>9. (Known(stored.value) /\ Known(published) /\ Known(worker.value))'
    <3>1. Said(edits) \cup {value} \subseteq Said(edits')
      BY <2>1, <2>3, <2>6
    <3>. QED BY <1>3, <2>8, <3>1 DEF SettingsInv, Known
  <2>. QED BY <1>3, <1>4, <2>1, <2>6, <2>8, <2>9 DEF SettingsInv
<1>7. CASE ~(Consents!Persistable(value) /\ Consents!Updates(e))
  <2>1. Consents!LoadSettings(v) \/ UNCHANGED <<stored, edits>>
    BY <1>1, <1>7 DEF Consents!EditorUpdates
  <2>2. /\ edits' \in Seq(Edits) /\ stored' \in Settings /\ stored'.revision = Len(edits')
        /\ Linear(edits') /\ stored'.value = stored.value /\ Said(edits) \subseteq Said(edits')
    <3>1. CASE Consents!LoadSettings(v)
      BY <1>2, <3>1, LoadKeeps
    <3>2. CASE UNCHANGED <<stored, edits>>
      BY <1>5, <3>2
    <3>. QED BY <2>1, <3>1, <3>2
  <2>3. (Known(stored.value) /\ Known(published) /\ Known(worker.value))'
    BY <1>3, <2>2 DEF SettingsInv, Known
  <2>. QED BY <1>3, <1>4, <2>2, <2>3 DEF SettingsInv
<1>. QED BY <1>6, <1>7

LEMMA SettingsStep ==
    ASSUME SettingsInv, [Consents!Next]_Consents!consentVars
    PROVE  SettingsInv'
<1>. USE DEF Consents!ledgerVars, Consents!settingVars, Consents!workerVars
<1>1. ASSUME UNCHANGED <<stored, edit, builtFor, edits, published, worker>> PROVE SettingsInv'
  BY <1>1, SettingsFrame DEF SettingsInv
<1>2. ASSUME UNCHANGED Consents!consentVars PROVE SettingsInv'
  BY <1>1, <1>2 DEF Consents!consentVars
<1>3. ASSUME \/ \E cands : Consents!Install(cands)
             \/ \E d \in Desks : \/ \E verb, p : Consents!DeskOpens(d, verb, p)
                                 \/ Consents!DeskLocks(d) \/ Consents!DeskKilled(d)
                                 \/ \E fits \in BOOLEAN : Consents!DeskCommits(d, fits)
             \/ Consents!Meddle \/ Consents!RefreshGrants \/ Consents!GuardPolls
             \/ \E p \in Permissions : Consents!GuardBegins(p)
             \/ Consents!Close \/ \E given : Consents!Resolve(given)
      PROVE  SettingsInv'
  <2>1. UNCHANGED <<stored, edit, builtFor, edits, published, worker>>
    BY <1>3 DEF Consents!Install, Consents!DeskOpens, Consents!DeskLocks, Consents!DeskKilled,
                Consents!DeskCommits, Consents!Meddle, Consents!RefreshGrants, Consents!GuardPolls,
                Consents!GuardBegins, Consents!Close, Consents!Resolve
  <2>. QED BY <1>1, <2>1
<1>4. ASSUME NEW e \in Editors, NEW v \in SpecVersions, Consents!Upgrade(e, v) PROVE SettingsInv'
  <2>1. /\ UNCHANGED <<stored, edit, edits, published, worker>>
        /\ builtFor' = [builtFor EXCEPT ![e] = v]
    BY <1>4 DEF Consents!Upgrade
  <2>. QED BY <2>1, SettingsFrame DEF SettingsInv
<1>5. ASSUME Consents!WorkerReads PROVE SettingsInv'
  <2>1. /\ UNCHANGED <<stored, edit, builtFor, edits, published>>
        /\ worker' = [worker EXCEPT !.at = "up", !.value = published]
    BY <1>5 DEF Consents!WorkerReads
  <2>2. worker'.value = published /\ WorkerFields \subseteq DOMAIN worker'
    BY <2>1 DEF SettingsInv, WorkerFields
  <2>. QED BY <2>1, <2>2, SettingsFrame DEF SettingsInv
<1>6. ASSUME Consents!WorkerEnds PROVE SettingsInv'
  <2>1. /\ UNCHANGED <<stored, edit, builtFor, edits, published>>
        /\ worker'.value = "absent" /\ WorkerFields \subseteq DOMAIN worker'
    BY <1>6 DEF Consents!WorkerEnds, Consents!NoWorker, WorkerFields
  <2>. QED BY <2>1, SettingsFrame DEF SettingsInv, Known
<1>. QED BY <1>2, <1>3, <1>4, <1>5, <1>6, EditorLoadsKeeps, LaunchKeeps, EditorUpdatesKeeps
     DEF Consents!Next

(* Grants and settings have one history each: whatever command lines,        *)
(* editors, migrations, interruptions and damage come between, no commit     *)
(* undoes another's, the service and the worker hold nothing that was not    *)
(* granted, and every change of the settings was made over the revision it   *)
(* replaced (GrantLedger.grant, revoke, reload; PluginSettingsStore.update,  *)
(* load).                                                                    *)
THEOREM OneHistory == Consents!Spec => []ConsentSound
<1>. USE ConsentAssumption
<1>1. Consents!Init => LedgerInv /\ SettingsInv
  BY LedgerStarts, SettingsStart
<1>2. LedgerInv /\ SettingsInv /\ [Consents!Next]_Consents!consentVars => LedgerInv' /\ SettingsInv'
  BY LedgerStep, SettingsStep
<1>3. LedgerInv /\ SettingsInv => Consents!ConsentSound
  <2>. SUFFICES ASSUME LedgerInv, SettingsInv PROVE Consents!ConsentSound
    OBVIOUS
  <2>1. Consents!LedgerIsHistory
    BY DEF LedgerInv, DiskIsHistory, MemoryIsHistory, EverGranted, Consents!LedgerIsHistory
  <2>2. stored.value # "plain-secret"
    BY DEF SettingsInv, Settings, Values, Consents!DeclaredDefaults, Consents!NamesAssumption
  <2>3. Consents!SettingsAreLinear
    BY <2>2 DEF SettingsInv, Linear, Known, Said, Consents!SettingsAreLinear
  <2>. QED BY <2>1, <2>3 DEF Consents!ConsentSound
<1>. QED BY <1>1, <1>2, <1>3, PTL DEF Consents!Spec, ConsentSound

-----------------------------------------------------------------------------
(* The published snapshot: what feeds it asks for a publish, and what the    *)
(* publisher has in its hands is current unless something asked.             *)

Telemetry == [known : BOOLEAN, queued : {0}, active : Nat]
ProfilesShown == Publisher!ProfileIds
AskedFor == wake \/ waking

(* What is counted of the jobs, and what was detected of the devices.        *)
CountsInv ==
    /\ jobsOf \in [ProfilesShown -> Nat] /\ working \in [ProfilesShown -> Nat]
    /\ telemetry \in [ProfilesShown -> Telemetry]
    /\ \A p \in ProfilesShown :
          /\ telemetry[p].active <= jobsOf[p]
          /\ ~telemetry[p].known => telemetry[p].active = 0
          /\ p \in Workloads => telemetry[p].known /\ telemetry[p].active = jobsOf[p]
          /\ p \in Plugins => working[p] <= jobsOf[p]

DetectedInv == source = "events" /\ uevents = {} /\ ~detecting => registry = Publisher!Detect(nodes)

(* A snapshot shows what the service has.                                    *)
Shows(x) ==
    /\ x.present /\ x.devices = registry /\ x.onHold = onHold
    /\ \A p \in ProfilesShown : x.active[p] = telemetry[p].active
    /\ \A p \in ProfilesShown : Publisher!StatusIsRight(p, x.status[p])
    /\ jobsOf = [p \in ProfilesShown |-> 0] => x.alerts = alerts

LoopInv ==
    /\ wake \in BOOLEAN /\ waking \in BOOLEAN /\ failedTick \in BOOLEAN
    /\ ~doubt /\ lastPublished.present => snapshot = lastPublished
    /\ snapshot.present \in BOOLEAN
    /\ retracted => ~snapshot.present
    /\ publisher \in {"building", "reading", "built"} => ~retracted
    /\ publisher = "built" => view.present = TRUE
    /\ ~AskedFor =>
         /\ publisher \in {"building", "reading", "built"} => registry # {}
         /\ publisher = "reading" => view.devices = registry /\ view.onHold = onHold
         /\ publisher = "built" => Shows(view)
         /\ publisher = "retracting" => registry = {}
         /\ publisher = "waiting" /\ ~failedTick /\ ~doubt =>
               \/ registry = {} /\ ~snapshot.present
               \/ registry # {} /\ Shows(snapshot)

SnapshotInv == CountsInv /\ DetectedInv /\ LoopInv

LEMMA UnregisteredAre ==
    /\ Publisher!Unregistered \in Telemetry /\ Publisher!Unregistered.active = 0
    /\ ~Publisher!Unregistered.known
    /\ Publisher!Initial \in Telemetry /\ Publisher!Initial.active = 0 /\ Publisher!Initial.known
BY DEF Publisher!Unregistered, Publisher!Initial, Telemetry

LEMMA FreshCounts ==
    ASSUME jobsOf = Publisher!Idle, working = Publisher!Idle, telemetry = Publisher!NewTelemetry
    PROVE  CountsInv
<1>1. /\ jobsOf \in [ProfilesShown -> Nat] /\ working \in [ProfilesShown -> Nat]
      /\ \A p \in ProfilesShown : jobsOf[p] = 0 /\ working[p] = 0
  BY DEF Publisher!Idle, ProfilesShown
<1>2. /\ telemetry \in [ProfilesShown -> Telemetry]
      /\ \A p \in ProfilesShown : telemetry[p].active = 0 /\ (p \in Workloads => telemetry[p].known)
  BY UnregisteredAre DEF Publisher!NewTelemetry, ProfilesShown
<1>. QED BY <1>1, <1>2 DEF CountsInv

LEMMA SnapshotStarts == Publisher!Init => SnapshotInv
<1>. SUFFICES ASSUME Publisher!Init PROVE SnapshotInv
  OBVIOUS
<1>1. CountsInv
  BY FreshCounts DEF Publisher!Init
<1>2. DetectedInv
  BY DEF Publisher!Init, DetectedInv
<1>3. LoopInv
  BY DEF Publisher!Init, LoopInv, Publisher!NoSnapshot
<1>. QED BY <1>1, <1>2, <1>3 DEF SnapshotInv

LEMMA RestartKeeps ==
    ASSUME SnapshotInv, Publisher!Restart
    PROVE  SnapshotInv'
<1>1. jobsOf' = Publisher!Idle /\ working' = Publisher!Idle /\ telemetry' = Publisher!NewTelemetry
  BY DEF Publisher!Restart
<1>2. CountsInv'
  <2>1. /\ jobsOf' \in [ProfilesShown -> Nat] /\ working' \in [ProfilesShown -> Nat]
        /\ \A p \in ProfilesShown : jobsOf'[p] = 0 /\ working'[p] = 0
    BY <1>1 DEF Publisher!Idle, ProfilesShown
  <2>2. /\ telemetry' \in [ProfilesShown -> Telemetry]
        /\ \A p \in ProfilesShown : telemetry'[p].active = 0 /\ (p \in Workloads => telemetry'[p].known)
    BY <1>1, UnregisteredAre DEF Publisher!NewTelemetry, ProfilesShown
  <2>. QED BY <2>1, <2>2 DEF CountsInv
<1>3. DetectedInv'
  BY DEF Publisher!Restart, DetectedInv
<1>4. LoopInv'
  BY DEF Publisher!Restart, SnapshotInv, LoopInv, AskedFor, Publisher!NoSnapshot
<1>. QED BY <1>2, <1>3, <1>4 DEF SnapshotInv

-----------------------------------------------------------------------------
(* Frames.                                                                   *)

LEMMA CountsFrame == ASSUME CountsInv, UNCHANGED <<jobsOf, working, telemetry>> PROVE CountsInv'
BY DEF CountsInv

LEMMA DetectedFrame == ASSUME DetectedInv, UNCHANGED Publisher!discoveryVars PROVE DetectedInv'
BY DEF DetectedInv, Publisher!discoveryVars

(* Whatever changes, once a publish is asked for nothing has to be current.  *)
LEMMA AskingKeeps ==
    ASSUME LoopInv, Publisher!RequestPublish, UNCHANGED Publisher!loopButWake
    PROVE  LoopInv'
<1>1. wake' \in BOOLEAN /\ waking' \in BOOLEAN /\ AskedFor'
  BY DEF LoopInv, Publisher!RequestPublish, AskedFor
<1>. QED BY <1>1 DEF LoopInv, Publisher!loopButWake

LEMMA LoopFrame ==
    ASSUME LoopInv, UNCHANGED <<Publisher!loopVars, registry, onHold, jobsOf, alerts>>,
           \A p \in ProfilesShown : telemetry'[p].active = telemetry[p].active
    PROVE  LoopInv'
BY DEF LoopInv, Publisher!loopVars, AskedFor, Shows, Publisher!StatusIsRight

-----------------------------------------------------------------------------
(* The host.                                                                 *)

LEMMA HostStep ==
    ASSUME SnapshotInv, NEW now,
           \/ Publisher!HardwareChanges(now) \/ Publisher!UdevSettles \/ Publisher!WaitForChange
           \/ Publisher!SourceCloses \/ Publisher!PollInterval
    PROVE  SnapshotInv'
<1>1. UNCHANGED <<Publisher!feedVars, Publisher!loopVars, registry>>
  BY DEF Publisher!HardwareChanges, Publisher!UdevSettles, Publisher!WaitForChange, Publisher!SourceCloses,
     Publisher!PollInterval
<1>2. CountsInv' /\ LoopInv'
  BY <1>1, CountsFrame, LoopFrame DEF SnapshotInv, Publisher!feedVars, Publisher!workVars
<1>3. DetectedInv'
  BY DEF SnapshotInv, DetectedInv, Publisher!HardwareChanges, Publisher!UdevSettles, Publisher!WaitForChange,
     Publisher!SourceCloses, Publisher!PollInterval, Publisher!UdevGroup
<1>. QED BY <1>2, <1>3 DEF SnapshotInv

LEMMA ApplyDiscoveryKeeps ==
    ASSUME SnapshotInv, Publisher!ApplyDiscovery
    PROVE  SnapshotInv'
<1>1. DetectedInv'
  BY DEF DetectedInv, Publisher!ApplyDiscovery
<1>2. CountsInv'
  BY CountsFrame DEF SnapshotInv, Publisher!ApplyDiscovery, Publisher!feedVars, Publisher!workVars
<1>3. CASE registry' = registry
  <2>1. UNCHANGED <<wake, waking>>
    BY <1>3 DEF Publisher!ApplyDiscovery
  <2>2. UNCHANGED <<Publisher!loopVars, registry, onHold, jobsOf, alerts, telemetry>>
    BY <1>3, <2>1 DEF Publisher!ApplyDiscovery, Publisher!feedVars, Publisher!loopVars, Publisher!loopButWake
  <2>. QED BY <1>1, <1>2, <2>2, LoopFrame DEF SnapshotInv
<1>4. CASE registry' # registry
  <2>1. Publisher!RequestPublish /\ UNCHANGED Publisher!loopButWake
    BY <1>4 DEF Publisher!ApplyDiscovery
  <2>. QED BY <1>1, <1>2, <2>1, AskingKeeps DEF SnapshotInv
<1>. QED BY <1>3, <1>4

-----------------------------------------------------------------------------
(* What the snapshot shows.                                                  *)

LEMMA QuietFeedStep ==
    ASSUME SnapshotInv, NEW q,
           \/ Publisher!ConsentChanges \/ Publisher!LeasesReloaded(q) \/ Publisher!ArtifactChanges(q)
           \/ Publisher!LaneDegrades(q) \/ Publisher!LaneRecovers(q)
    PROVE  SnapshotInv'
<1>1. UNCHANGED <<Publisher!discoveryVars, Publisher!loopVars, onHold, jobsOf, working, alerts, telemetry>>
  BY DEF Publisher!ConsentChanges, Publisher!LeasesReloaded, Publisher!ArtifactChanges, Publisher!LaneDegrades,
     Publisher!LaneRecovers, Publisher!workVars
<1>2. UNCHANGED registry
  BY <1>1 DEF Publisher!discoveryVars
<1>. QED BY <1>1, <1>2, CountsFrame, DetectedFrame, LoopFrame DEF SnapshotInv

(* A slot or a lane is taken for a job that there is, or given back.         *)
LEMMA WorkKeeps ==
    ASSUME SnapshotInv, NEW p \in ProfilesShown, Publisher!WorkBegins(p) \/ Publisher!WorkEnds(p)
    PROVE  SnapshotInv'
<1>1. UNCHANGED <<Publisher!discoveryVars, Publisher!loopVars, onHold, jobsOf, alerts, telemetry>>
  BY DEF Publisher!WorkBegins, Publisher!WorkEnds
<1>2. UNCHANGED registry
  BY <1>1 DEF Publisher!discoveryVars
<1>3. PICK n : /\ working' = [working EXCEPT ![p] = n]
               /\ \/ n = working[p] + 1 /\ working[p] < jobsOf[p]
                  \/ n = working[p] - 1 /\ working[p] > 0
  <2>1. CASE Publisher!WorkBegins(p)
    BY <2>1 DEF Publisher!WorkBegins
  <2>2. CASE Publisher!WorkEnds(p)
    BY <2>2 DEF Publisher!WorkEnds
  <2>. QED BY <2>1, <2>2
<1>4. working[p] \in Nat /\ jobsOf[p] \in Nat /\ (p \in Plugins => working[p] <= jobsOf[p])
  BY DEF SnapshotInv, CountsInv
<1>5. n \in Nat /\ (p \in Plugins => n <= jobsOf[p])
  BY <1>3, <1>4
<1>6. CountsInv'
  BY <1>1, <1>3, <1>5 DEF SnapshotInv, CountsInv
<1>. QED BY <1>1, <1>2, <1>6, DetectedFrame, LoopFrame DEF SnapshotInv

LEMMA PolicyChangedKeeps ==
    ASSUME SnapshotInv, Publisher!PolicyChanged
    PROVE  SnapshotInv'
BY CountsFrame, DetectedFrame, AskingKeeps DEF SnapshotInv, Publisher!PolicyChanged, Publisher!workVars

LEMMA PluginsStartedKeeps ==
    ASSUME SnapshotInv, Publisher!PluginsStarted
    PROVE  SnapshotInv'
<1>1. ASSUME NEW p \in ProfilesShown
      PROVE  /\ telemetry'[p] \in Telemetry /\ telemetry'[p].active = telemetry[p].active
             /\ telemetry'[p].known
  <2>1. telemetry'[p] = Publisher!Registered(telemetry[p])
    BY <1>1 DEF Publisher!PluginsStarted, ProfilesShown
  <2>2. telemetry[p] \in Telemetry /\ (~telemetry[p].known => telemetry[p].active = 0)
    BY <1>1 DEF SnapshotInv, CountsInv
  <2>. QED BY <2>1, <2>2, UnregisteredAre DEF Publisher!Registered
<1>2. telemetry' = [p \in ProfilesShown |-> telemetry'[p]]
  BY DEF Publisher!PluginsStarted, ProfilesShown
<1>3. telemetry' \in [ProfilesShown -> Telemetry]
  BY <1>1, <1>2
<1>4. UNCHANGED <<Publisher!discoveryVars, Publisher!loopVars, onHold, jobsOf, working, alerts>>
  BY DEF Publisher!PluginsStarted, Publisher!workVars
<1>5. CountsInv'
  BY <1>1, <1>3, <1>4 DEF SnapshotInv, CountsInv
<1>6. UNCHANGED registry
  BY <1>4 DEF Publisher!discoveryVars
<1>. QED BY <1>1, <1>4, <1>5, <1>6, DetectedFrame, LoopFrame DEF SnapshotInv

LEMMA SummarizeKeeps ==
    ASSUME SnapshotInv, NEW p \in ProfilesShown, Publisher!Summarize(p)
    PROVE  SnapshotInv'
<1>1. UNCHANGED <<Publisher!discoveryVars, Publisher!loopVars, onHold, jobsOf, working, telemetry>>
  BY DEF Publisher!Summarize, Publisher!workVars
<1>2. jobsOf # [q \in ProfilesShown |-> 0]
  BY DEF Publisher!Summarize
<1>3. UNCHANGED registry
  BY <1>1 DEF Publisher!discoveryVars
<1>4. \A x : Shows(x)' <=> Shows(x)
  BY <1>1, <1>2, <1>3 DEF Shows, Publisher!StatusIsRight
<1>5. LoopInv'
  BY <1>1, <1>3, <1>4 DEF SnapshotInv, LoopInv, AskedFor, Publisher!loopVars, Shows, Publisher!StatusIsRight
<1>. QED BY <1>1, <1>5, CountsFrame, DetectedFrame DEF SnapshotInv

(* A job's start or end changes one profile's counts, and asks.              *)
LEMMA OneCount ==
    ASSUME CountsInv, NEW p \in ProfilesShown, NEW n \in Nat, NEW t \in Telemetry,
           jobsOf' = [jobsOf EXCEPT ![p] = n], telemetry' = [telemetry EXCEPT ![p] = t],
           t.active <= n, ~t.known => t.active = 0, p \in Workloads => t.known /\ t.active = n,
           UNCHANGED working, p \in Plugins => working[p] <= n
    PROVE  CountsInv'
BY DEF CountsInv

LEMMA JobStartedKeeps ==
    ASSUME SnapshotInv, NEW p \in ProfilesShown, Publisher!JobStarted(p)
    PROVE  SnapshotInv'
<1>1. PICK t, n, u : /\ t = telemetry[p] /\ n = jobsOf[p] + 1
                     /\ u = Publisher!StartJob(Publisher!QueueJob(t))
  OBVIOUS
<1>2. /\ t \in Telemetry /\ n \in Nat /\ t.active < n /\ (~t.known => t.active = 0)
      /\ (p \in Workloads => t.known /\ t.active + 1 = n)
  BY <1>1 DEF SnapshotInv, CountsInv, Telemetry
<1>3. u \in Telemetry /\ u.known = t.known /\ u.active = IF t.known THEN t.active + 1 ELSE t.active
  <2>1. CASE ~t.known
    BY <1>1, <1>2, <2>1 DEF Publisher!StartJob, Publisher!QueueJob
  <2>2. CASE t.known
    <3>1. PICK q : q = [t EXCEPT !.queued = 1]
      OBVIOUS
    <3>2. Publisher!QueueJob(t) = q
      BY <1>2, <2>2, <3>1 DEF Publisher!QueueJob, Telemetry
    <3>3. q.known /\ q.queued = 1 /\ q.active = t.active
      BY <1>2, <2>2, <3>1 DEF Telemetry
    <3>4. u = [q EXCEPT !.queued = 0, !.active = t.active + 1]
      BY <1>1, <3>2, <3>3 DEF Publisher!StartJob
    <3>5. u = [t EXCEPT !.queued = 0, !.active = t.active + 1]
      BY <1>2, <3>1, <3>4 DEF Telemetry
    <3>6. t.active + 1 \in Nat
      BY <1>2 DEF Telemetry
    <3>. QED BY <1>2, <2>2, <3>5, <3>6 DEF Telemetry
  <2>. QED BY <2>1, <2>2
<1>4. jobsOf' = [jobsOf EXCEPT ![p] = n] /\ telemetry' = [telemetry EXCEPT ![p] = u]
  BY <1>1 DEF Publisher!JobStarted
<1>5. u.active <= n /\ (~u.known => u.active = 0) /\ (p \in Workloads => u.known /\ u.active = n)
  <2>1. t.active \in Nat
    BY <1>2 DEF Telemetry
  <2>. QED BY <1>2, <1>3, <2>1
<1>8. UNCHANGED working /\ (p \in Plugins => working[p] <= n)
  <2>1. jobsOf[p] \in Nat /\ working[p] \in Nat /\ (p \in Plugins => working[p] <= jobsOf[p])
    BY DEF SnapshotInv, CountsInv
  <2>2. UNCHANGED working
    BY DEF Publisher!JobStarted, Publisher!workVars
  <2>. QED BY <1>1, <2>1, <2>2
<1>6. CountsInv'
  BY <1>2, <1>3, <1>4, <1>5, <1>8, OneCount DEF SnapshotInv
<1>7. LoopInv' /\ DetectedInv'
  BY AskingKeeps, DetectedFrame DEF SnapshotInv, Publisher!JobStarted
<1>. QED BY <1>6, <1>7 DEF SnapshotInv

LEMMA JobFinishedKeeps ==
    ASSUME SnapshotInv, NEW p \in ProfilesShown, NEW s \in {"succeeded", "failed", "cancelled"},
           Publisher!JobFinished(p, s)
    PROVE  SnapshotInv'
<1>1. PICK t, n, u : t = telemetry[p] /\ n = jobsOf[p] - 1 /\ u = Publisher!Finished(t, s)
  OBVIOUS
<1>2. /\ t \in Telemetry /\ n \in Nat /\ t.active <= n + 1 /\ (~t.known => t.active = 0)
      /\ (p \in Workloads => t.known /\ t.active = n + 1)
  <2>1. jobsOf[p] \in Nat /\ jobsOf[p] > 0
    BY DEF SnapshotInv, CountsInv, Publisher!JobFinished
  <2>. QED BY <1>1, <2>1 DEF SnapshotInv, CountsInv
<1>3. t.active \in Nat /\ t.queued = 0
  BY <1>2 DEF Telemetry
<1>4. /\ u \in Telemetry /\ u.known = t.known
      /\ u.active = IF t.known /\ t.active > 0 THEN t.active - 1 ELSE t.active
  <2>1. \/ u = t /\ ~(t.known /\ t.active > 0)
        \/ t.known /\ t.active > 0 /\ u = [t EXCEPT !.active = t.active - 1]
    BY <1>1, <1>3 DEF Publisher!Finished, Publisher!SucceedOrFail, Publisher!Cancel
  <2>2. CASE u = t /\ ~(t.known /\ t.active > 0)
    BY <1>2, <2>2
  <2>3. CASE t.known /\ t.active > 0
    <3>1. t.active - 1 \in Nat
      BY <1>3, <2>3
    <3>. QED BY <1>2, <2>1, <2>3, <3>1 DEF Telemetry
  <2>. QED BY <2>1, <2>2, <2>3
<1>5. jobsOf' = [jobsOf EXCEPT ![p] = n] /\ telemetry' = [telemetry EXCEPT ![p] = u]
  BY <1>1 DEF Publisher!JobFinished
<1>6. u.active <= n /\ (~u.known => u.active = 0) /\ (p \in Workloads => u.known /\ u.active = n)
  BY <1>2, <1>3, <1>4
<1>9. UNCHANGED working /\ (p \in Plugins => working[p] <= n)
  <2>1. /\ jobsOf[p] \in Nat /\ working[p] \in Nat /\ UNCHANGED working
        /\ (p \in Plugins => working[p] < jobsOf[p])
    BY DEF SnapshotInv, CountsInv, Publisher!JobFinished, Publisher!workVars
  <2>. QED BY <1>1, <2>1
<1>7. CountsInv'
  BY <1>2, <1>4, <1>5, <1>6, <1>9, OneCount DEF SnapshotInv
<1>8. LoopInv' /\ DetectedInv'
  BY AskingKeeps, DetectedFrame DEF SnapshotInv, Publisher!JobFinished
<1>. QED BY <1>7, <1>8 DEF SnapshotInv

-----------------------------------------------------------------------------
(* The publisher.                                                            *)

LEMMA WakeSetKeeps ==
    ASSUME SnapshotInv, Publisher!WakeSet
    PROVE  SnapshotInv'
<1>1. UNCHANGED <<Publisher!discoveryVars, Publisher!feedVars, publisher, view, retracted, lastPublished,
                  heartbeat, snapshot, doubt, failedTick>> /\ wake' = TRUE /\ waking' = FALSE
  BY DEF Publisher!WakeSet
<1>2. LoopInv'
  BY <1>1 DEF SnapshotInv, LoopInv, AskedFor
<1>3. CountsInv'
  BY <1>1, CountsFrame DEF SnapshotInv, Publisher!feedVars, Publisher!workVars
<1>. QED BY <1>1, <1>2, <1>3, DetectedFrame DEF SnapshotInv

LEMMA BeforeTickKeeps ==
    ASSUME SnapshotInv, Publisher!BeforeTick
    PROVE  SnapshotInv'
<1>1. UNCHANGED <<Publisher!discoveryVars, onHold, telemetry, jobsOf, working, alerts, view, wake, waking,
                  retracted, lastPublished, heartbeat, snapshot, doubt, failedTick>> /\ publisher' = "tick"
  BY DEF Publisher!BeforeTick, Publisher!workVars
<1>2. LoopInv'
  BY <1>1 DEF SnapshotInv, LoopInv, AskedFor
<1>. QED BY <1>1, <1>2, CountsFrame, DetectedFrame DEF SnapshotInv

(* What the publisher does leaves everything else as it is.                  *)
LEMMA PublisherRest ==
    ASSUME SnapshotInv, LoopInv', UNCHANGED <<Publisher!discoveryVars, Publisher!feedVars>>
    PROVE  SnapshotInv'
BY CountsFrame, DetectedFrame DEF SnapshotInv, Publisher!feedVars, Publisher!workVars

LEMMA TickKeeps ==
    ASSUME SnapshotInv, Publisher!Tick
    PROVE  SnapshotInv'
<1>1. UNCHANGED <<Publisher!discoveryVars, Publisher!feedVars, wake, waking, lastPublished, snapshot, doubt>>
      /\ failedTick' = FALSE
  BY DEF Publisher!Tick, Publisher!AwaitBegins
<1>2. UNCHANGED <<registry, jobsOf>>
  BY <1>1 DEF Publisher!discoveryVars, Publisher!feedVars, Publisher!workVars
<1>3. CASE registry # {}
  <2>1. publisher' = "building" /\ retracted' = FALSE
    BY <1>3 DEF Publisher!Tick
  <2>3. LoopInv'
    BY <1>1, <1>2, <1>3, <2>1 DEF SnapshotInv, LoopInv, AskedFor
  <2>. QED BY <1>1, <2>3, PublisherRest
<1>4. CASE registry = {}
  <2>1. UNCHANGED retracted /\ publisher' = IF retracted THEN "waiting" ELSE "retracting"
    BY <1>4 DEF Publisher!Tick, Publisher!AwaitBegins
  <2>2. LoopInv'
    BY <1>1, <1>2, <1>4, <2>1 DEF SnapshotInv, LoopInv, AskedFor
  <2>. QED BY <1>1, <2>2, PublisherRest
<1>. QED BY <1>3, <1>4

LEMMA BuildStartsKeeps ==
    ASSUME SnapshotInv, Publisher!BuildStarts
    PROVE  SnapshotInv'
<1>1. /\ UNCHANGED <<Publisher!discoveryVars, Publisher!feedVars, wake, waking, retracted, lastPublished,
                     snapshot, doubt, failedTick>>
      /\ publisher = "building" /\ publisher' = "reading"
      /\ view'.devices = registry /\ view'.onHold = onHold
  BY DEF Publisher!BuildStarts
<1>2. UNCHANGED <<registry, onHold>>
  BY <1>1 DEF Publisher!discoveryVars, Publisher!feedVars, Publisher!workVars
<1>3. LoopInv'
  BY <1>1, <1>2 DEF SnapshotInv, LoopInv, AskedFor
<1>. QED BY <1>1, <1>3, PublisherRest

LEMMA BuildEndsKeeps ==
    ASSUME SnapshotInv, Publisher!BuildEnds
    PROVE  SnapshotInv'
<1>1. /\ UNCHANGED <<Publisher!discoveryVars, Publisher!feedVars, wake, waking, retracted, lastPublished,
                     snapshot, doubt, failedTick>>
      /\ publisher = "reading" /\ publisher' = "built" /\ view' = Publisher!BuildSnapshot(view)
  BY DEF Publisher!BuildEnds
<1>2. UNCHANGED <<registry, jobsOf, onHold, telemetry, alerts>>
  BY <1>1 DEF Publisher!discoveryVars, Publisher!feedVars, Publisher!workVars
<1>3. PICK s, a : s = Publisher!ProfileStatuses(view) /\ a = [p \in ProfilesShown |-> telemetry[p].active]
  OBVIOUS
<1>4. view' = [present |-> TRUE, devices |-> view.devices, onHold |-> view.onHold, alerts |-> alerts,
               active |-> a, status |-> s]
  BY <1>1, <1>3 DEF Publisher!BuildSnapshot, ProfilesShown
<1>5. ASSUME ~AskedFor PROVE Shows(view')
  <2>1. view.devices = registry /\ view.onHold = onHold
    BY <1>1, <1>5 DEF SnapshotInv, LoopInv
  <2>2. ASSUME NEW p \in ProfilesShown PROVE Publisher!StatusIsRight(p, s[p])
    <3>1. (p \in Workloads) # (p \in Plugins)
      BY PublicationAssumption DEF Publisher!KindsAssumption, ProfilesShown, Publisher!ProfileIds
    <3>2. CASE p \in Workloads
      <4>1. s[p] = Publisher!WorkloadStatus(p, view)
        BY <1>3, <3>2 DEF Publisher!ProfileStatuses, ProfilesShown
      <4>2. (s[p] = "paused-by-policy") = (p \in onHold)
        BY <2>1, <4>1 DEF Publisher!WorkloadStatus, Publisher!PolicyHold
      <4>. QED BY <3>1, <3>2, <4>2 DEF Publisher!StatusIsRight
    <3>3. CASE p \in Plugins
      <4>1. s[p] = Publisher!PluginStatus(p, onHold)
        BY <1>3, <2>1, <3>1, <3>3 DEF Publisher!ProfileStatuses, ProfilesShown
      <4>2. working[p] > 0 => jobsOf[p] > 0
        BY <3>3 DEF SnapshotInv, CountsInv
      <4>. QED BY <3>3, <4>1, <4>2 DEF Publisher!StatusIsRight, Publisher!PluginStatus, Publisher!PolicyHold
    <3>. QED BY <3>1, <3>2, <3>3
  <2>. QED BY <1>3, <1>4, <2>1, <2>2 DEF Shows
<1>6. ASSUME ~AskedFor PROVE Shows(view)'
  BY <1>2, <1>5, <1>6 DEF Shows, Publisher!StatusIsRight
<1>7. view'.present = TRUE
  BY <1>4
<1>8. LoopInv'
  BY <1>1, <1>2, <1>6, <1>7 DEF SnapshotInv, LoopInv, AskedFor
<1>. QED BY <1>1, <1>8, PublisherRest

LEMMA PublishTickKeeps ==
    ASSUME SnapshotInv, Publisher!PublishTick
    PROVE  SnapshotInv'
<1>1. /\ UNCHANGED <<Publisher!discoveryVars, Publisher!feedVars, wake, waking, retracted, failedTick>>
      /\ publisher = "built" /\ publisher' = "waiting"
  BY DEF Publisher!PublishTick, Publisher!AwaitBegins
<1>2. UNCHANGED <<registry, jobsOf, onHold, telemetry, alerts>>
  BY <1>1 DEF Publisher!discoveryVars, Publisher!feedVars, Publisher!workVars
<1>3. \/ snapshot' = view /\ lastPublished' = view /\ doubt' = FALSE
      \/ view = lastPublished /\ UNCHANGED <<snapshot, lastPublished, doubt>>
  BY DEF Publisher!PublishTick, Publisher!Changed, Publisher!RecordPublished
<1>4. ~retracted /\ view.present = TRUE /\ (~AskedFor => registry # {} /\ Shows(view))
  BY <1>1 DEF SnapshotInv, LoopInv
<1>5. ~doubt' => snapshot' = view /\ lastPublished' = view
  BY <1>3, <1>4 DEF SnapshotInv, LoopInv
<1>6. \A x : Shows(x)' <=> Shows(x)
  BY <1>2 DEF Shows, Publisher!StatusIsRight
<1>7. ~AskedFor /\ ~doubt' => registry # {} /\ Shows(snapshot')
  BY <1>4, <1>5
<1>8. ~AskedFor' /\ ~doubt' => registry' # {} /\ Shows(snapshot)'
  BY <1>1, <1>2, <1>7 DEF AskedFor, Shows, Publisher!StatusIsRight
<1>9. snapshot'.present \in BOOLEAN
  BY <1>3, <1>4 DEF SnapshotInv, LoopInv
<1>10. LoopInv'
  BY <1>1, <1>4, <1>5, <1>8, <1>9 DEF SnapshotInv, LoopInv
<1>. QED BY <1>1, <1>10, PublisherRest

LEMMA RetractKeeps ==
    ASSUME SnapshotInv, Publisher!Retract
    PROVE  SnapshotInv'
<1>1. /\ UNCHANGED <<Publisher!discoveryVars, Publisher!feedVars, wake, waking, failedTick>>
      /\ publisher = "retracting" /\ publisher' = "waiting"
      /\ snapshot'.present = FALSE /\ ~lastPublished'.present
  BY DEF Publisher!Retract, Publisher!AwaitBegins, Publisher!NoSnapshot
<1>2. UNCHANGED registry
  BY <1>1 DEF Publisher!discoveryVars
<1>3. LoopInv'
  BY <1>1, <1>2 DEF SnapshotInv, LoopInv, AskedFor
<1>. QED BY <1>1, <1>3, PublisherRest

LEMMA TickFailsKeeps ==
    ASSUME SnapshotInv, Publisher!TickFails
    PROVE  SnapshotInv'
<1>1. /\ UNCHANGED <<Publisher!discoveryVars, Publisher!feedVars, wake, waking, retracted, lastPublished>>
      /\ publisher' = "waiting" /\ failedTick' = TRUE /\ doubt' = TRUE
  BY DEF Publisher!TickFails, Publisher!AwaitBegins
<1>2. snapshot'.present \in BOOLEAN /\ (retracted => ~snapshot'.present)
  <2>1. \/ publisher = "built" /\ snapshot' \in {snapshot, view}
        \/ snapshot' \in {snapshot, Publisher!NoSnapshot}
    BY DEF Publisher!TickFails
  <2>2. CASE publisher = "built" /\ snapshot' \in {snapshot, view}
    BY <2>2 DEF SnapshotInv, LoopInv
  <2>3. CASE snapshot' \in {snapshot, Publisher!NoSnapshot}
    <3>1. Publisher!NoSnapshot.present = FALSE
      BY DEF Publisher!NoSnapshot
    <3>. QED BY <2>3, <3>1 DEF SnapshotInv, LoopInv
  <2>. QED BY <2>1, <2>2, <2>3
<1>3. LoopInv'
  BY <1>1, <1>2 DEF SnapshotInv, LoopInv, AskedFor
<1>. QED BY <1>1, <1>3, PublisherRest

LEMMA AwaitNextKeeps ==
    ASSUME SnapshotInv, Publisher!AwaitNext
    PROVE  SnapshotInv'
<1>1. /\ UNCHANGED <<Publisher!discoveryVars, Publisher!feedVars, view, waking, retracted, lastPublished,
                     snapshot, doubt, failedTick>>
      /\ publisher' = "before" /\ wake' = FALSE
  BY DEF Publisher!AwaitNext
<1>2. LoopInv'
  BY <1>1 DEF SnapshotInv, LoopInv, AskedFor
<1>. QED BY <1>1, <1>2, PublisherRest

LEMMA HeartbeatDueKeeps ==
    ASSUME SnapshotInv, Publisher!HeartbeatDue
    PROVE  SnapshotInv'
<1>1. UNCHANGED <<Publisher!discoveryVars, Publisher!feedVars, publisher, view, wake, waking, retracted,
                  lastPublished, snapshot, doubt, failedTick>>
  BY DEF Publisher!HeartbeatDue
<1>2. UNCHANGED <<registry, jobsOf, onHold, telemetry, alerts>>
  BY <1>1 DEF Publisher!discoveryVars, Publisher!feedVars, Publisher!workVars
<1>3. LoopInv'
  BY <1>1, <1>2 DEF SnapshotInv, LoopInv, AskedFor, Shows, Publisher!StatusIsRight
<1>. QED BY <1>1, <1>3, PublisherRest

LEMMA SnapshotStutters ==
    ASSUME SnapshotInv, UNCHANGED Publisher!publicationVars
    PROVE  SnapshotInv'
<1>1. UNCHANGED <<Publisher!discoveryVars, Publisher!feedVars, Publisher!loopVars>>
  BY DEF Publisher!publicationVars
<1>2. UNCHANGED <<registry, onHold, jobsOf, working, alerts, telemetry>>
  BY <1>1 DEF Publisher!discoveryVars, Publisher!feedVars, Publisher!workVars
<1>. QED BY <1>1, <1>2, CountsFrame, DetectedFrame, LoopFrame DEF SnapshotInv

LEMMA SnapshotStep ==
    ASSUME SnapshotInv, Publisher!Next
    PROVE  SnapshotInv'
<1>1. CASE Publisher!Restart
  BY <1>1, RestartKeeps
<1>2. CASE \/ \E now \in SUBSET Nodes : Publisher!HardwareChanges(now)
           \/ Publisher!UdevSettles \/ Publisher!WaitForChange \/ Publisher!SourceCloses
           \/ Publisher!PollInterval
  BY <1>2, HostStep
<1>3. CASE Publisher!ApplyDiscovery \/ Publisher!PolicyChanged \/ Publisher!PluginsStarted
  BY <1>3, ApplyDiscoveryKeeps, PolicyChangedKeeps, PluginsStartedKeeps
<1>4. CASE \/ Publisher!ConsentChanges
           \/ \E affected \in SUBSET Plugins \ {{}} : Publisher!LeasesReloaded(affected)
           \/ \E n \in registry : Publisher!LaneDegrades(BackendOf[n])
           \/ \E b \in degraded : Publisher!LaneRecovers(b)
           \/ \E p \in WithModel : Publisher!ArtifactChanges(p)
  BY <1>4, QuietFeedStep
<1>5. ASSUME NEW p \in ProfilesShown,
             \/ Publisher!JobStarted(p) \/ Publisher!Summarize(p)
             \/ Publisher!WorkBegins(p) \/ Publisher!WorkEnds(p)
             \/ \E s \in {"succeeded", "failed", "cancelled"} : Publisher!JobFinished(p, s)
      PROVE  SnapshotInv'
  BY <1>5, JobStartedKeeps, SummarizeKeeps, WorkKeeps, JobFinishedKeeps
<1>6. CASE \/ Publisher!WakeSet \/ Publisher!BeforeTick \/ Publisher!Tick \/ Publisher!BuildStarts
           \/ Publisher!BuildEnds \/ Publisher!PublishTick \/ Publisher!Retract \/ Publisher!TickFails
           \/ Publisher!AwaitNext \/ Publisher!HeartbeatDue
  BY <1>6, WakeSetKeeps, BeforeTickKeeps, TickKeeps, BuildStartsKeeps, BuildEndsKeeps, PublishTickKeeps,
     RetractKeeps, TickFailsKeeps, AwaitNextKeeps, HeartbeatDueKeeps
<1>. QED BY <1>1, <1>2, <1>3, <1>4, <1>5, <1>6 DEF Publisher!Next, ProfilesShown

(* While the publisher waits with nothing asked for, the snapshot on disk    *)
(* shows the devices, the policy and the jobs as they are, and no status     *)
(* that contradicts policy or names a plugin running that has no job; with   *)
(* device events the devices are those udev shows; and the telemetry counts  *)
(* no job that does not run (publish_loop.py: run, request_publish;          *)
(* device_events; profile_selection.py; telemetry_observation.py).           *)
THEOREM SnapshotIsCurrent == Publisher!Spec => []PublicationSound
<1>1. SnapshotInv => PublicationSound
  <2>. SUFFICES ASSUME SnapshotInv PROVE PublicationSound
    OBVIOUS
  <2>1. Publisher!TelemetryAgrees
    <3>1. \A p \in ProfilesShown : telemetry[p].queued = 0
      BY DEF SnapshotInv, CountsInv, Telemetry
    <3>. QED BY <3>1 DEF SnapshotInv, CountsInv, Publisher!TelemetryAgrees, ProfilesShown
  <2>2. Publisher!Settled => \/ registry = {} /\ ~snapshot.present
                             \/ registry # {} /\ Shows(snapshot)
    BY DEF SnapshotInv, LoopInv, AskedFor, Publisher!Settled
  <2>3. Publisher!ShownIsCurrent
    <3>1. Publisher!Settled => snapshot.present = (registry # {})
      <4>1. CASE registry = {}
        BY <2>2, <4>1 DEF SnapshotInv, LoopInv
      <4>2. CASE registry # {}
        BY <2>2, <4>2 DEF Shows
      <4>. QED BY <4>1, <4>2
    <3>2. Publisher!Settled /\ snapshot.present =>
             /\ snapshot.devices = registry /\ snapshot.onHold = onHold
             /\ \A p \in Publisher!ProfileIds : snapshot.active[p] = telemetry[p].active
             /\ \A p \in Publisher!ProfileIds : Publisher!StatusIsRight(p, snapshot.status[p])
             /\ jobsOf = [p \in Publisher!ProfileIds |-> 0] => snapshot.alerts = alerts
      BY <2>2 DEF Shows, ProfilesShown
    <3>. QED BY <3>1, <3>2 DEF SnapshotInv, DetectedInv, Publisher!ShownIsCurrent
  <2>. QED BY <2>1, <2>3 DEF PublicationSound, Publisher!PublicationSound
<1>2. SnapshotInv /\ [Publisher!Next]_Publisher!publicationVars => SnapshotInv'
  BY SnapshotStep, SnapshotStutters
<1>. QED BY <1>1, <1>2, SnapshotStarts, PTL DEF Publisher!Spec

==============================================================================
