-------------------------- MODULE StrideQueueProofs --------------------------
(* What the operations of StrideQueue return and preserve, for every set of  *)
(* keys and items.                                                           *)
EXTENDS StrideQueue, SequenceTheorems, WellFoundedInduction, TLAPS

(* A stride is positive and never longer than a full one.                    *)
LEMMA StrideRange == ASSUME NEW w \in Int PROVE Stride(w) \in 1..FullStride
<1>1. StrideWeight(w) \in {1, 2, 3, 4, 5}
  BY DEF StrideWeight, MaxStrideWeight
<1>. QED BY <1>1 DEF Stride, FullStride

(* A non-empty set of naturals has the minimum that Min picks.               *)
LEMMA MinNat ==
    ASSUME NEW S \in SUBSET Nat, S # {}
    PROVE  Min(S) \in S /\ \A n \in S : Min(S) <= n
<1>1. PICK m \in S : \A n \in S : ~(<<n, m>> \in OpToRel(<, Nat))
  BY NatLessThanWellFounded, WFMin
<1>2. ASSUME NEW n \in S PROVE m <= n
  <2>1. SUFFICES ASSUME n < m PROVE FALSE
    OBVIOUS
  <2>2. <<n, m>> \in {ss \in Nat \X Nat : ss[1] < ss[2]}
    BY <2>1
  <2>. QED BY <2>2, <1>1 DEF OpToRel
<1>. QED BY <1>2 DEF Min

(* Removing an element keeps a sequence over the same set, without it, and   *)
(* with every other element, when it occurs at most once.                    *)
LEMMA WithoutType ==
    ASSUME NEW S, NEW s \in Seq(S), NEW x
    PROVE  Without(s, x) \in Seq(S)
<1>1. CASE ~ \E i \in DOMAIN s : s[i] = x
  BY <1>1 DEF Without
<1>2. CASE \E i \in DOMAIN s : s[i] = x
  <2>. DEFINE i == CHOOSE i \in DOMAIN s : s[i] = x
  <2>1. i \in DOMAIN s
    BY <1>2
  <2>2. i \in 1..Len(s) /\ Len(s) \in Nat
    BY <2>1, LenProperties
  <2>. HIDE DEF i
  <2>3. SubSeq(s, 1, i - 1) \in Seq(S) /\ SubSeq(s, i + 1, Len(s)) \in Seq(S)
    BY <2>2
  <2>4. RemoveAt(s, i) \in Seq(S)
    BY <2>3, ConcatProperties DEF RemoveAt
  <2>. QED BY <1>2, <2>4 DEF Without, i
<1>. QED BY <1>1, <1>2

\* Sequence s holds no value twice.
Distinct(s) == \A i, k \in DOMAIN s : i # k => s[i] # s[k]

LEMMA RemoveAtElems ==
    ASSUME NEW S, NEW s \in Seq(S), NEW i \in 1..Len(s)
    PROVE  /\ DOMAIN RemoveAt(s, i) = 1..(Len(s) - 1)
           /\ \A m \in 1..(Len(s) - 1) :
                RemoveAt(s, i)[m] = IF m < i THEN s[m] ELSE s[m + 1]
<1>. DEFINE l == SubSeq(s, 1, i - 1)
            r == SubSeq(s, i + 1, Len(s))
<1>1. Len(s) \in Nat /\ i \in Nat /\ DOMAIN s = 1..Len(s)
  OBVIOUS
<1>2. l \in Seq(S) /\ Len(l) = i - 1 /\ \A m \in 1..(i - 1) : l[m] = s[m]
  BY <1>1
<1>3. r \in Seq(S) /\ Len(r) = Len(s) - i
        /\ \A m \in 1..(Len(s) - i) : r[m] = s[m + i]
  <2>1. r \in Seq(S)
    BY <1>1
  <2>11. Len(r) = IF i + 1 <= Len(s) THEN Len(s) - (i + 1) + 1 ELSE 0
    BY <1>1, SubSeqProperties
  <2>2. ASSUME NEW m \in 1..(Len(s) - i) PROVE r[m] = s[m + i]
    BY <1>1
  <2>. HIDE DEF r
  <2>. DEFINE n == Len(s)
  <2>3. n \in Nat /\ i \in Nat /\ i <= n
    BY <1>1
  <2>4. Len(r) = IF i + 1 <= n THEN n - (i + 1) + 1 ELSE 0
    BY <2>11
  <2>. HIDE DEF n
  <2>5. Len(r) = n - i
    BY <2>3, <2>4
  <2>12. Len(r) = Len(s) - i
    BY <2>5 DEF n
  <2>. QED BY <2>1, <2>12, <2>2
<1>4. RemoveAt(s, i) = l \o r
  BY DEF RemoveAt
<1>. HIDE DEF l, r
<1>5. Len(l \o r) = Len(s) - 1 /\ DOMAIN (l \o r) = 1..(Len(s) - 1)
  <2>1. l \o r \in Seq(S) /\ Len(l \o r) = Len(l) + Len(r)
    BY <1>2, <1>3, ConcatProperties
  <2>2. Len(l \o r) = Len(s) - 1
    BY <1>1, <1>2, <1>3, <2>1
  <2>3. DOMAIN (l \o r) = 1..Len(l \o r)
    BY <2>1
  <2>. QED BY <2>2, <2>3
<1>6. ASSUME NEW m \in 1..(Len(s) - 1)
      PROVE  (l \o r)[m] = IF m < i THEN s[m] ELSE s[m + 1]
  <2>1. CASE m < i
    BY <1>1, <1>2, <1>3, <2>1
  <2>2. CASE ~(m < i)
    <3>1. (l \o r)[m] = r[m - (i - 1)]
      BY <1>1, <1>2, <1>3, <2>2
    <3>2. m - (i - 1) \in 1..(Len(s) - i) /\ (m - (i - 1)) + i = m + 1
      BY <1>1, <2>2
    <3>3. r[m - (i - 1)] = s[(m - (i - 1)) + i]
      BY <1>3, <3>2
    <3>. QED BY <2>2, <3>1, <3>2, <3>3
  <2>. QED BY <2>1, <2>2
<1>. QED BY <1>4, <1>5, <1>6

LEMMA WithoutElems ==
    ASSUME NEW S, NEW s \in Seq(S), NEW x, Distinct(s)
    PROVE  /\ \A m \in DOMAIN Without(s, x) :
                /\ Without(s, x)[m] # x
                /\ \E k \in DOMAIN s : s[k] = Without(s, x)[m]
           /\ Distinct(Without(s, x))
           /\ \A k \in DOMAIN s : s[k] # x =>
                \E m \in DOMAIN Without(s, x) : Without(s, x)[m] = s[k]
<1>1. CASE ~ \E i \in DOMAIN s : s[i] = x
  BY <1>1 DEF Without
<1>2. CASE \E i \in DOMAIN s : s[i] = x
  <2>. DEFINE i == CHOOSE i \in DOMAIN s : s[i] = x
              r == RemoveAt(s, i)
  <2>1. i \in DOMAIN s /\ s[i] = x
    BY <1>2
  <2>2. i \in 1..Len(s) /\ Len(s) \in Nat /\ DOMAIN s = 1..Len(s)
    BY <2>1
  <2>3. Without(s, x) = r
    BY <1>2 DEF Without
  <2>. HIDE DEF i
  <2>4. /\ DOMAIN r = 1..(Len(s) - 1)
        /\ \A m \in 1..(Len(s) - 1) : r[m] = IF m < i THEN s[m] ELSE s[m + 1]
    BY <2>2, RemoveAtElems
  <2>. HIDE DEF r
  <2>5. ASSUME NEW m \in DOMAIN r
        PROVE  r[m] # x /\ \E k \in DOMAIN s : s[k] = r[m]
    <3>1. CASE m < i
      BY <2>1, <2>2, <2>4, <3>1 DEF Distinct
    <3>2. CASE ~(m < i)
      BY <2>1, <2>2, <2>4, <3>2 DEF Distinct
    <3>. QED BY <3>1, <3>2
  <2>6. Distinct(r)
    <3>. DEFINE from(m) == IF m < i THEN m ELSE m + 1
    <3>1. \A m \in DOMAIN r : from(m) \in DOMAIN s /\ r[m] = s[from(m)]
      BY <2>2, <2>4
    <3>2. \A m, n \in DOMAIN r : m # n => from(m) # from(n)
      BY <2>2, <2>4
    <3>. HIDE DEF from
    <3>. QED BY <3>1, <3>2 DEF Distinct
  <2>7. ASSUME NEW k \in DOMAIN s, s[k] # x
        PROVE  \E m \in DOMAIN r : r[m] = s[k]
    <3>1. CASE k < i
      BY <2>2, <2>4, <3>1
    <3>2. CASE k > i
      <4>1. k - 1 \in DOMAIN r /\ ~(k - 1 < i) /\ (k - 1) + 1 = k
        BY <2>2, <2>4, <3>2
      <4>2. r[k - 1] = s[(k - 1) + 1]
        BY <2>4, <4>1
      <4>. QED BY <4>1, <4>2
    <3>. QED BY <2>1, <2>2, <2>7, <3>1, <3>2
  <2>. QED BY <2>3, <2>5, <2>6, <2>7
<1>. QED BY <1>1, <1>2

LEMMA WithoutKeeps ==
    ASSUME NEW S, NEW s \in Seq(S), NEW x, Distinct(s), NEW k \in DOMAIN s, s[k] # x
    PROVE  \E m \in DOMAIN Without(s, x) : Without(s, x)[m] = s[k]
BY WithoutElems

(* The tables stay tables over the same keys and items.                      *)
LEMMA EmptyQueueType ==
    ASSUME NEW K, NEW V PROVE EmptyQueue(K) \in Queues(K, V)
BY DEF EmptyQueue, Queues

LEMMA VirtualTimeType ==
    ASSUME NEW K, NEW V, NEW q \in Queues(K, V), NEW S \in SUBSET K
    PROVE  /\ VirtualTime(q, S) \in Nat
           /\ \A k \in S : VirtualTime(q, S) <= q.passes[k]
           /\ S # {} => \E k \in S : VirtualTime(q, S) = q.passes[k]
<1>. DEFINE T == {q.passes[k] : k \in S}
<1>1. T \in SUBSET Nat
  BY DEF Queues
<1>2. CASE S = {}
  BY <1>2 DEF VirtualTime
<1>3. CASE S # {}
  <2>1. T # {}
    BY <1>3
  <2>2. Min(T) \in T /\ \A n \in T : Min(T) <= n
    BY <1>1, <2>1, MinNat
  <2>3. VirtualTime(q, S) = Min(T)
    BY <1>3 DEF VirtualTime
  <2>. HIDE DEF T
  <2>4. VirtualTime(q, S) \in Nat
    BY <1>1, <2>2, <2>3
  <2>. QED BY <1>3, <2>2, <2>3, <2>4 DEF T
<1>. QED BY <1>2, <1>3

LEMMA PushType ==
    ASSUME NEW K, NEW V, NEW q \in Queues(K, V), NEW k \in K, NEW x \in V
    PROVE  /\ Push(q, k, x) \in Queues(K, V)
           /\ Push(q, k, x).items = [q.items EXCEPT ![k] = Append(@, x)]
<1>1. Present(q) \in SUBSET K
  BY DEF Present, Queues
<1>2. VirtualTime(q, Present(q)) \in Nat
  BY <1>1, VirtualTimeType
<1>3. CASE k \in Present(q)
  <2>1. Push(q, k, x) = [q EXCEPT !.items[k] = Append(@, x)]
    BY <1>3 DEF Push
  <2>2. Append(q.items[k], x) \in Seq(V)
    BY DEF Queues
  <2>. QED BY <2>1, <2>2 DEF Queues
<1>4. CASE k \notin Present(q)
  <2>1. q.items[k] = <<>>
    BY <1>4 DEF Present, Queues
  <2>2. Append(q.items[k], x) = <<x>>
    BY <2>1
  <2>3. <<x>> \in Seq(V) /\ Append(q.order, k) \in Seq(K)
    BY DEF Queues
  <2>. QED BY <1>2, <1>4, <2>2, <2>3 DEF Push, Queues
<1>. QED BY <1>3, <1>4

LEMMA PushItems ==
    ASSUME NEW K, NEW V, NEW q \in Queues(K, V), NEW k \in K, NEW x
    PROVE  Push(q, k, x).items = [q.items EXCEPT ![k] = Append(q.items[k], x)]
<1>1. CASE k \in Present(q)
  BY <1>1 DEF Push, Queues
<1>2. CASE k \notin Present(q)
  <2>1. q.items[k] = <<>>
    BY <1>2 DEF Present, Queues
  <2>2. Append(<<>>, x) = <<x>>
    OBVIOUS
  <2>. QED BY <1>2, <2>1, <2>2 DEF Push, Queues
<1>. QED BY <1>1, <1>2

LEMMA LeavingType ==
    ASSUME NEW K, NEW V, NEW q \in Queues(K, V), NEW k \in K, NEW s \in Seq(V)
    PROVE  Leaving(q, k, s) \in Queues(K, V)
<1>1. Without(q.order, k) \in Seq(K)
  BY WithoutType DEF Queues
<1>. QED BY <1>1 DEF Leaving, Prune, Queues

LEMMA LeavingItems ==
    ASSUME NEW K, NEW V, NEW q \in Queues(K, V), NEW k \in K, NEW s
    PROVE  Leaving(q, k, s).items = [q.items EXCEPT ![k] = s]
BY DEF Leaving, Prune, Queues

\* A key that still waits keeps its pass.
LEMMA LeavingPasses ==
    ASSUME NEW K, NEW V, NEW q \in Queues(K, V), NEW k \in K, NEW s,
           NEW l \in K, l # k \/ s # <<>>
    PROVE  Leaving(q, k, s).passes[l] = q.passes[l]
BY DEF Leaving, Prune, Queues

LEMMA DiscardType ==
    ASSUME NEW K, NEW V, NEW q \in Queues(K, V), NEW k \in K, NEW x
    PROVE  Discard(q, k, x) \in Queues(K, V)
<1>1. Without(q.items[k], x) \in Seq(V)
  BY WithoutType DEF Queues
<1>. QED BY <1>1, LeavingType DEF Discard

LEMMA DiscardItems ==
    ASSUME NEW K, NEW V, NEW q \in Queues(K, V), NEW k \in K, NEW x
    PROVE  Discard(q, k, x).items = [q.items EXCEPT ![k] = Without(q.items[k], x)]
<1>1. CASE k \in Present(q)
  BY <1>1, LeavingItems DEF Discard
<1>2. CASE k \notin Present(q)
  <2>1. q.items[k] = <<>>
    BY <1>2 DEF Present, Queues
  <2>2. Without(<<>>, x) = <<>>
    BY DEF Without
  <2>. QED BY <1>2, <2>1, <2>2 DEF Discard, Queues
<1>. QED BY <1>1, <1>2

LEMMA DiscardPresent ==
    ASSUME NEW K, NEW V, NEW q \in Queues(K, V), NEW k \in K, NEW x
    PROVE  Present(Discard(q, k, x)) \subseteq Present(q)
<1>1. Discard(q, k, x).items = [q.items EXCEPT ![k] = Without(q.items[k], x)]
  BY DiscardItems
<1>2. ASSUME NEW l \in Present(Discard(q, k, x)) PROVE l \in Present(q)
  <2>1. CASE l # k
    BY <1>1, <1>2, <2>1 DEF Present, Queues
  <2>2. CASE k \notin Present(q)
    BY <1>2, <2>2 DEF Discard
  <2>. QED BY <2>1, <2>2
<1>. QED BY <1>2

LEMMA DiscardPasses ==
    ASSUME NEW K, NEW V, NEW q \in Queues(K, V), NEW k \in K, NEW x,
           NEW l \in Present(Discard(q, k, x))
    PROVE  l \in Present(q) /\ Discard(q, k, x).passes[l] = q.passes[l]
<1>. DEFINE s == Without(q.items[k], x)
            r == Discard(q, k, x)
<1>1. r.items = [q.items EXCEPT ![k] = s]
  BY DiscardItems
<1>2. r \in Queues(K, V)
  BY DiscardType
<1>3. l \in K /\ r.items[l] # <<>>
  BY <1>2 DEF Present, Queues
<1>4. CASE k \in Present(q)
  <2>1. r = Leaving(q, k, s)
    BY <1>4 DEF Discard
  <2>. HIDE DEF s, r
  <2>2. l # k \/ s # <<>>
    BY <1>1, <1>3 DEF Queues
  <2>3. Leaving(q, k, s).passes[l] = q.passes[l]
    BY <1>3, <2>2, LeavingPasses
  <2>4. l \in Present(q)
    BY <1>1, <1>3, <1>4 DEF Present, Queues
  <2>. QED BY <2>1, <2>3, <2>4 DEF r
<1>5. CASE k \notin Present(q)
  BY <1>5 DEF Discard
<1>. QED BY <1>4, <1>5

(* Charging and clamping move passes only, within the type.                  *)
LEMMA ClampItems ==
    ASSUME NEW K, NEW V, NEW q \in Queues(K, V), NEW A
    PROVE  ClampHeldOut(q, A).items = q.items
BY DEF ClampHeldOut, Queues

LEMMA ClampPasses ==
    ASSUME NEW K, NEW V, NEW q \in Queues(K, V), NEW A,
           NEW P, P = Present(q) \cap A, NEW k \in K
    PROVE  ClampHeldOut(q, A).passes[k] =
                IF P # {} /\ k \in Present(q) \ A /\ q.passes[k] < VirtualTime(q, P)
                THEN VirtualTime(q, P) ELSE q.passes[k]
<1>. DEFINE Held(l) == P # {} /\ l \in Present(q) \ A /\ q.passes[l] < VirtualTime(q, P)
            clamped == [l \in DOMAIN q.passes |->
                            IF Held(l) THEN VirtualTime(q, P) ELSE q.passes[l]]
<1>1. ClampHeldOut(q, A) = [q EXCEPT !.passes = clamped]
  BY DEF ClampHeldOut
<1>2. DOMAIN q.passes = K
  BY DEF Queues
<1>. HIDE DEF clamped
<1>3. ClampHeldOut(q, A).passes = clamped
  BY <1>1 DEF Queues
<1>. QED BY <1>2, <1>3 DEF clamped

LEMMA ClampType ==
    ASSUME NEW K, NEW V, NEW q \in Queues(K, V), NEW A
    PROVE  ClampHeldOut(q, A) \in Queues(K, V)
<1>. DEFINE P == Present(q) \cap A
            Held(l) == P # {} /\ l \in Present(q) \ A /\ q.passes[l] < VirtualTime(q, P)
            clamped == [l \in DOMAIN q.passes |->
                            IF Held(l) THEN VirtualTime(q, P) ELSE q.passes[l]]
<1>1. ClampHeldOut(q, A) = [q EXCEPT !.passes = clamped]
  BY DEF ClampHeldOut
<1>2. P \in SUBSET K
  BY DEF Queues, Present
<1>3. VirtualTime(q, P) \in Nat
  BY <1>2, VirtualTimeType
<1>. HIDE DEF P
<1>4. clamped \in [K -> Nat]
  BY <1>3 DEF Queues
<1>. HIDE DEF clamped
<1>. QED BY <1>1, <1>4 DEF Queues

LEMMA ChargedType ==
    ASSUME NEW K, NEW V, NEW q \in Queues(K, V), NEW k \in K, NEW w \in Int
    PROVE  Charged(q, k, w) \in Queues(K, V)
<1>1. Stride(w) \in Nat
  BY StrideRange DEF FullStride
<1>. DEFINE n == q.passes[k] + Stride(w)
<1>2. n \in Nat
  BY <1>1 DEF Queues
<1>3. Charged(q, k, w) = [q EXCEPT !.passes[k] = n]
  BY DEF Charged
<1>. HIDE DEF n
<1>. QED BY <1>2, <1>3 DEF Queues

LEMMA ChargedItems ==
    ASSUME NEW K, NEW V, NEW q \in Queues(K, V), NEW k \in K, NEW w \in Int
    PROVE  Charged(q, k, w).items = q.items
BY DEF Charged, Queues

LEMMA ChargedPasses ==
    ASSUME NEW K, NEW V, NEW q \in Queues(K, V), NEW k \in K, NEW w \in Int
    PROVE  Charged(q, k, w).passes = [q.passes EXCEPT ![k] = q.passes[k] + Stride(w)]
BY DEF Charged, Queues

LEMMA PoppedType ==
    ASSUME NEW K, NEW V, NEW q \in Queues(K, V), NEW A,
           NEW k \in Present(q), NEW w \in Int
    PROVE  Popped(q, A, k, w) \in Queues(K, V)
<1>1. k \in K /\ q.items[k] \in Seq(V) /\ q.items[k] # <<>>
  BY DEF Present, Queues
<1>2. Tail(q.items[k]) \in Seq(V)
  BY <1>1
<1>3. Charged(q, k, w) \in Queues(K, V)
  BY <1>1, ChargedType
<1>4. ClampHeldOut(Charged(q, k, w), A) \in Queues(K, V)
  BY <1>3, ClampType
<1>. QED BY <1>1, <1>2, <1>4, LeavingType DEF Popped

LEMMA PoppedItems ==
    ASSUME NEW K, NEW V, NEW q \in Queues(K, V), NEW A,
           NEW k \in Present(q), NEW w \in Int
    PROVE  Popped(q, A, k, w).items = [q.items EXCEPT ![k] = Tail(q.items[k])]
<1>1. k \in K
  BY DEF Present, Queues
<1>. DEFINE c == Charged(q, k, w)
            r == ClampHeldOut(c, A)
            t == Tail(q.items[k])
<1>2. c \in Queues(K, V)
  BY <1>1, ChargedType
<1>3. c.items = q.items
  BY <1>1, ChargedItems
<1>. HIDE DEF c
<1>4. r \in Queues(K, V)
  BY <1>2, ClampType
<1>5. r.items = c.items
  BY <1>2, ClampItems
<1>. HIDE DEF r, t
<1>6. Leaving(r, k, t).items = [r.items EXCEPT ![k] = t]
  BY <1>1, <1>4, LeavingItems
<1>. QED BY <1>3, <1>5, <1>6 DEF Popped, c, r, t

(* Serving, joining and leaving all keep the waiting keys level.             *)
LEMMA PushLevel ==
    ASSUME NEW K, NEW V, NEW q \in Queues(K, V), NEW k \in K, NEW x \in V, Level(q)
    PROVE  Level(Push(q, k, x))
<1>. DEFINE r == Push(q, k, x)
            now == VirtualTime(q, Present(q))
<1>1. r \in Queues(K, V) /\ r.items = [q.items EXCEPT ![k] = Append(@, x)]
  BY PushType
<1>2. Present(q) \in SUBSET K
  BY DEF Present, Queues
<1>3. Present(r) \subseteq Present(q) \cup {k}
  BY <1>1 DEF Present, Queues
<1>4. CASE k \in Present(q)
  BY <1>3, <1>4 DEF Level, Push, Queues
<1>5. CASE k \notin Present(q)
  <2>1. /\ now \in Nat
        /\ \A l \in Present(q) : now <= q.passes[l]
        /\ Present(q) # {} => \E l \in Present(q) : now = q.passes[l]
    BY <1>2, VirtualTimeType
  <2>2. r.passes = [q.passes EXCEPT ![k] = now]
    BY <1>5 DEF Push
  <2>. HIDE DEF now, r
  <2>3. q.passes \in [K -> Nat]
    BY DEF Queues
  <2>4. ASSUME NEW a \in Present(r), NEW b \in Present(r)
        PROVE  r.passes[a] <= r.passes[b] + FullStride
    <3>1. CASE a \in Present(q) /\ b \in Present(q)
      BY <1>2, <1>5, <2>2, <2>3, <3>1 DEF Level
    <3>2. CASE a = k /\ b = k
      BY <2>1, <2>2, <2>3, <3>2 DEF FullStride
    <3>3. CASE a = k /\ b \in Present(q)
      <4>1. r.passes[a] = now /\ r.passes[b] = q.passes[b] /\ q.passes[b] \in Nat
        BY <1>2, <1>5, <2>2, <2>3, <3>3
      <4>. QED BY <2>1, <3>3, <4>1 DEF FullStride
    <3>4. CASE a \in Present(q) /\ b = k
      <4>1. PICK l \in Present(q) : now = q.passes[l]
        BY <2>1, <3>4
      <4>2. q.passes[a] <= q.passes[l] + FullStride
        BY <3>4 DEF Level
      <4>. QED BY <1>2, <1>5, <2>2, <2>3, <3>4, <4>1, <4>2
    <3>. QED BY <1>3, <3>1, <3>2, <3>3, <3>4
  <2>. QED BY <2>4 DEF Level, r
<1>. QED BY <1>4, <1>5

LEMMA DiscardLevel ==
    ASSUME NEW K, NEW V, NEW q \in Queues(K, V), NEW k \in K, NEW x, Level(q)
    PROVE  Level(Discard(q, k, x))
<1>1. ASSUME NEW l \in Present(Discard(q, k, x))
      PROVE  l \in Present(q) /\ Discard(q, k, x).passes[l] = q.passes[l]
  BY DiscardPasses
<1>. QED BY <1>1 DEF Level

LEMMA PoppedLevel ==
    ASSUME NEW K, NEW V, NEW q \in Queues(K, V), NEW A \in SUBSET K, NEW k,
           IsNext(q, A, k), NEW w \in Int, Level(q)
    PROVE  Level(Popped(q, A, k, w))
<1>1. k \in Present(q) /\ k \in A /\ k \in K
  BY DEF IsNext
<1>2. q.items[k] \in Seq(V) /\ q.items[k] # <<>> /\ Present(q) \in SUBSET K
      /\ q.passes \in [K -> Nat]
  BY <1>1 DEF Present, Queues
<1>3. Tail(q.items[k]) \in Seq(V)
  BY <1>2
<1>4. Stride(w) \in 1..FullStride
  BY StrideRange
<1>. DEFINE c == Charged(q, k, w)
            r == ClampHeldOut(c, A)
            now == VirtualTime(c, Present(c) \cap A)
            e == Popped(q, A, k, w)
<1>5. c \in Queues(K, V)
  BY <1>1, ChargedType
<1>6. c.items = q.items
  BY <1>1, ChargedItems
<1>7. c.passes = [q.passes EXCEPT ![k] = q.passes[k] + Stride(w)]
  BY <1>1, ChargedPasses
<1>. HIDE DEF c
<1>8. Present(c) = Present(q)
  BY <1>6 DEF Present
<1>. DEFINE P == Present(c) \cap A
<1>9. P \in SUBSET K /\ P # {}
  BY <1>1, <1>8
<1>. HIDE DEF P
<1>10. /\ now \in Nat
       /\ \A l \in P : now <= c.passes[l]
       /\ \E l \in P : now = c.passes[l]
  <2>1. /\ VirtualTime(c, P) \in Nat
        /\ \A l \in P : VirtualTime(c, P) <= c.passes[l]
        /\ P # {} => \E l \in P : VirtualTime(c, P) = c.passes[l]
    BY <1>5, <1>9, VirtualTimeType
  <2>. QED BY <1>9, <2>1 DEF P
<1>11. r \in Queues(K, V)
  BY <1>5, ClampType
<1>12. r.items = c.items
  BY <1>5, ClampItems
<1>13. ASSUME NEW l \in K
       PROVE  r.passes[l] = IF l \in Present(c) \ A /\ c.passes[l] < now
                            THEN now ELSE c.passes[l]
  BY <1>5, <1>9, ClampPasses DEF P
<1>14. e = Leaving(r, k, Tail(q.items[k]))
  BY DEF Popped, c, r
<1>. HIDE DEF r, now, e
<1>15. ASSUME NEW l \in Present(e)
       PROVE  l \in Present(q) /\ e.passes[l] = r.passes[l]
  <2>. DEFINE t == Tail(q.items[k])
  <2>1. t \in Seq(V) /\ e = Leaving(r, k, t)
    BY <1>3, <1>14
  <2>. HIDE DEF t
  <2>2. e \in Queues(K, V)
    BY <1>1, <1>11, <2>1, LeavingType
  <2>3. e.items = [r.items EXCEPT ![k] = t]
    BY <1>1, <1>11, <2>1, LeavingItems
  <2>4. l \in K /\ e.items[l] # <<>>
    BY <2>2 DEF Present, Queues
  <2>5. l # k \/ t # <<>>
    BY <1>1, <1>11, <2>3, <2>4 DEF Queues
  <2>6. e.passes[l] = r.passes[l]
    BY <1>1, <1>11, <2>1, <2>4, <2>5, LeavingPasses
  <2>7. CASE l = k
    BY <1>1, <2>6, <2>7
  <2>8. CASE l # k
    <3>1. e.items[l] = q.items[l]
      BY <1>6, <1>11, <1>12, <2>3, <2>4, <2>8 DEF Queues
    <3>. QED BY <2>4, <2>6, <3>1 DEF Present, Queues
  <2>. QED BY <2>7, <2>8
<1>16. \A l \in Present(q) \cap A : q.passes[k] <= q.passes[l]
  BY <1>1, <1>2 DEF IsNext
<1>17. /\ c.passes[k] = q.passes[k] + Stride(w)
       /\ \A l \in Present(q) \ {k} : c.passes[l] = q.passes[l]
  BY <1>1, <1>2, <1>7
<1>18. q.passes[k] <= now
  <2>1. PICK l \in P : now = c.passes[l]
    BY <1>10
  <2>2. l \in Present(q) \cap A
    BY <1>8 DEF P
  <2>. QED BY <1>1, <1>2, <1>4, <1>16, <1>17, <2>1, <2>2
<1>19. ASSUME NEW a \in Present(q), NEW b \in Present(q)
       PROVE  r.passes[a] <= r.passes[b] + FullStride
  <2>1. /\ q.passes[a] \in Nat /\ q.passes[k] \in Nat
        /\ q.passes[a] <= q.passes[k] + FullStride
        /\ a \in K /\ b \in K
    BY <1>1, <1>2 DEF Level
  <2>2. c.passes[a] <= now + FullStride /\ c.passes[a] \in Nat
    <3>1. CASE a = k
      BY <1>4, <1>10, <1>17, <1>18, <2>1, <3>1 DEF FullStride
    <3>2. CASE a # k
      BY <1>10, <1>17, <1>18, <2>1, <3>2 DEF FullStride
    <3>. QED BY <3>1, <3>2
  <2>3. r.passes[a] <= now + FullStride
    BY <1>10, <1>13, <2>1, <2>2 DEF FullStride
  <2>4. r.passes[b] >= now
    <3>1. c.passes[b] \in Nat
      BY <1>5, <2>1 DEF Queues
    <3>2. CASE b \in A
      <4>1. now <= c.passes[b]
        BY <1>8, <1>10, <3>2 DEF P
      <4>. QED BY <1>10, <1>13, <2>1, <3>1, <3>2, <4>1
    <3>3. CASE b \notin A
      BY <1>8, <1>10, <1>13, <2>1, <3>1, <3>3
    <3>. QED BY <3>2, <3>3
  <2>5. r.passes[a] \in Nat /\ r.passes[b] \in Nat
    BY <1>11, <2>1 DEF Queues
  <2>. QED BY <1>10, <2>3, <2>4, <2>5 DEF FullStride
<1>. QED BY <1>15, <1>19 DEF Level, e
=============================================================================
