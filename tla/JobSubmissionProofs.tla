-------------------------- MODULE JobSubmissionProofs --------------------------
(* JobSubmission for every set of jobs and callers and every bound: what a   *)
(* caller is told of a job is how its own job ended, for good, and no task   *)
(* runs that the service does not track.                                     *)
EXTENDS JobSubmission, FiniteSetTheorems, SequenceTheorems, TLAPS

(* One record per job, of the caller who submitted it; a terminal record is  *)
(* that of a job that is no longer active, and says how its task ended.      *)
RecordsTrue ==
    /\ \A i, k \in DOMAIN records : records[i].id = records[k].id => i = k
    /\ \A i \in DOMAIN records :
           /\ records[i].owner = owner[records[i].id]
           /\ task[records[i].id] # "none"
           /\ records[i].state \in Settled =>
                  records[i].state = task[records[i].id] /\ records[i].id \notin active

(* A job has a caller from the moment it has a task, and is active only then.*)
JobsOwned ==
    /\ \A j \in active : task[j] # "none"
    /\ \A j \in Ids : task[j] # "none" => owner[j] \in Owners

(* A cancellation was answered with how the task ended.                      *)
RepliesTrue == \A j \in Ids : reply[j] \in Settled => reply[j] = task[j]

JobInv == TypeOK /\ RecordsTrue /\ JobsOwned /\ RepliesTrue /\ NothingUnattended

-----------------------------------------------------------------------------
(* Removing one position keeps the others, in order.                         *)
LEMMA RemoveAtElements ==
    ASSUME NEW S, NEW s \in Seq(S), NEW i \in 1..Len(s)
    PROVE  /\ RemoveAt(s, i) \in Seq(S)
           /\ Len(RemoveAt(s, i)) = Len(s) - 1
           /\ \A k \in 1..Len(s) - 1 : RemoveAt(s, i)[k] = s[IF k < i THEN k ELSE k + 1]
<1>. DEFINE a == SubSeq(s, 1, i - 1)
            b == SubSeq(s, i + 1, Len(s))
<1>1. Len(s) \in Nat /\ i \in Nat
  OBVIOUS
<1>2. a \in Seq(S) /\ Len(a) = i - 1 /\ \A k \in 1..i - 1 : a[k] = s[k]
  BY <1>1, SubSeqProperties
<1>3. b \in Seq(S) /\ Len(b) = Len(s) - i /\ \A k \in 1..Len(s) - i : b[k] = s[i + k]
  <2>1. CASE i = Len(s)
    <3>1. b = <<>>
      BY <2>1, <1>1, SubSeqEmpty
    <3>. QED BY <2>1, <3>1, <1>1, EmptySeq
  <2>2. CASE i < Len(s)
    <3>1. b \in Seq(S) /\ Len(b) = Len(s) - (i + 1) + 1
          /\ \A k \in 1..Len(b) : b[k] = s[(i + 1) + k - 1]
      BY <2>2, <1>1, SubSeqProperties
    <3>. QED BY <3>1, <1>1
  <2>. QED BY <2>1, <2>2, <1>1
<1>. HIDE DEF a, b
<1>4. RemoveAt(s, i) = a \o b
  BY DEF RemoveAt, a, b
<1>5. /\ a \o b \in Seq(S)
      /\ Len(a \o b) = Len(a) + Len(b)
      /\ \A k \in 1..Len(a) + Len(b) : (a \o b)[k] = IF k <= Len(a) THEN a[k] ELSE b[k - Len(a)]
  BY <1>2, <1>3, ConcatProperties
<1>. DEFINE c == a \o b
            n == Len(s)
<1>6. /\ c \in Seq(S) /\ Len(c) = (i - 1) + (n - i) /\ n \in Nat /\ i \in 1..n
      /\ \A k \in 1..(i - 1) + (n - i) : c[k] = IF k <= i - 1 THEN a[k] ELSE b[k - (i - 1)]
      /\ \A k \in 1..i - 1 : a[k] = s[k]
      /\ \A k \in 1..n - i : b[k] = s[i + k]
  BY <1>1, <1>2, <1>3, <1>5
<1>7. RemoveAt(s, i) = c
  BY <1>4
<1>. HIDE DEF c, n
<1>8. Len(c) = n - 1
  BY <1>6
<1>9. ASSUME NEW k \in 1..n - 1
      PROVE  c[k] = s[IF k < i THEN k ELSE k + 1]
  <2>1. c[k] = IF k <= i - 1 THEN a[k] ELSE b[k - (i - 1)]
    BY <1>6
  <2>2. CASE k < i
    BY <1>6, <2>1, <2>2
  <2>3. CASE ~(k < i)
    <3>1. k - (i - 1) \in 1..n - i /\ i + (k - (i - 1)) = k + 1 /\ ~(k <= i - 1)
      BY <1>6, <2>3
    <3>. QED BY <1>6, <2>1, <2>3, <3>1
  <2>. QED BY <2>2, <2>3
<1>. QED BY <1>6, <1>7, <1>8, <1>9 DEF n


(* _store keeps unexpired records of other jobs, adds the new one, and stays *)
(* within its bound.                                                         *)
LEMMA StoreEffect ==
    ASSUME TypeOK, RecordsTrue, NEW r \in Record, Store(r)
    PROVE  /\ records' \in Seq(Record) /\ Len(records') <= MaxRetained /\ expired' = 0
           /\ \A i, k \in DOMAIN records' : records'[i].id = records'[k].id => i = k
           /\ \A i \in DOMAIN records' :
                  \/ records'[i] = r
                  \/ \E k \in DOMAIN records : records'[i] = records[k] /\ records[k].id # r.id
<1>. DEFINE u == Unexpired
            o == Others(u, r.id)
            g == Append(o, r)
            n == Len(records) - expired
            m == Len(o)
<1>1. records \in Seq(Record) /\ Len(records) \in Nat /\ expired \in 0..Len(records)
      /\ DOMAIN records = 1..Len(records)
  BY DEF TypeOK
<1>2. /\ u \in Seq(Record) /\ DOMAIN u = 1..n /\ Len(u) = n /\ n \in Nat
      /\ \A i \in 1..n : expired + i \in DOMAIN records /\ u[i] = records[expired + i]
  <2>1. \A i \in expired + 1..Len(records) : records[i] \in Record
    BY <1>1
  <2>2. /\ u \in Seq(Record)
        /\ Len(u) = IF expired + 1 <= Len(records) THEN Len(records) - (expired + 1) + 1 ELSE 0
        /\ \A i \in 1..Len(records) - (expired + 1) + 1 : u[i] = records[(expired + 1) + i - 1]
    BY <1>1, <2>1, SubSeqProperties DEF Unexpired
  <2>. HIDE DEF u
  <2>3. n \in Nat /\ Len(u) = n
    <3>. DEFINE l == Len(records)
    <3>1. l \in Nat /\ expired \in 0..l
          /\ Len(u) = IF expired + 1 <= l THEN l - (expired + 1) + 1 ELSE 0
      BY <1>1, <2>2
    <3>2. n = l - expired
      OBVIOUS
    <3>. HIDE DEF l, n
    <3>. QED BY <3>1, <3>2
  <2>4. ASSUME NEW i \in 1..n
        PROVE  expired + i \in DOMAIN records /\ u[i] = records[expired + i]
    <3>1. i \in 1..Len(records) - (expired + 1) + 1 /\ (expired + 1) + i - 1 = expired + i
      BY <1>1
    <3>2. expired + i \in DOMAIN records
      BY <1>1
    <3>. QED BY <2>2, <3>1, <3>2
  <2>. QED BY <2>2, <2>3, <2>4
<1>3. \A i, k \in 1..n : u[i].id = u[k].id => i = k
  <2>1. ASSUME NEW i \in 1..n, NEW k \in 1..n, u[i].id = u[k].id PROVE i = k
    <3>1. expired + i = expired + k
      BY <1>2, <2>1 DEF RecordsTrue
    <3>. QED BY <1>1, <3>1
  <2>. QED BY <2>1
<1>. HIDE DEF u, n
\* The records of other jobs.
<1>4. /\ o \in Seq(Record) /\ m \in Nat /\ DOMAIN o = 1..m
      /\ \A i \in 1..m : o[i].id # r.id /\ \E k \in DOMAIN records : o[i] = records[k]
      /\ \A i, k \in 1..m : o[i].id = o[k].id => i = k
  <2>1. CASE At(u, r.id) = {}
    <3>1. o = u
      BY <2>1 DEF Others
    <3>2. m = n /\ DOMAIN o = 1..m
      BY <3>1, <1>2
    <3>3. \A i \in 1..m : o[i].id # r.id /\ \E k \in DOMAIN records : o[i] = records[k]
      BY <2>1, <3>1, <3>2, <1>2 DEF At
    <3>. QED BY <3>1, <3>2, <3>3, <1>2, <1>3
  <2>2. CASE At(u, r.id) # {}
    <3>. DEFINE x == CHOOSE i \in At(u, r.id) : TRUE
    <3>1. x \in 1..n /\ u[x].id = r.id
      BY <2>2, <1>2 DEF At
    <3>2. o = RemoveAt(u, x)
      BY <2>2 DEF Others
    <3>. HIDE DEF x
    <3>3. /\ RemoveAt(u, x) \in Seq(Record) /\ Len(RemoveAt(u, x)) = n - 1
          /\ \A k \in 1..n - 1 : RemoveAt(u, x)[k] = u[IF k < x THEN k ELSE k + 1]
      BY <3>1, <1>2, RemoveAtElements
    <3>4. o \in Seq(Record) /\ m = n - 1
          /\ \A k \in 1..n - 1 : o[k] = u[IF k < x THEN k ELSE k + 1]
      BY <3>2, <3>3
    <3>. HIDE DEF o, m
    <3>5. ASSUME NEW k \in 1..n - 1
          PROVE  (IF k < x THEN k ELSE k + 1) \in 1..n /\ (IF k < x THEN k ELSE k + 1) # x
      BY <3>1, <1>2
    <3>6. ASSUME NEW k \in 1..n - 1
          PROVE  o[k].id # r.id /\ \E l \in DOMAIN records : o[k] = records[l]
      <4>. DEFINE y == IF k < x THEN k ELSE k + 1
      <4>1. y \in 1..n /\ y # x /\ o[k] = u[y]
        BY <3>4, <3>5
      <4>. HIDE DEF y
      <4>2. u[y].id # r.id
        BY <4>1, <3>1, <1>3
      <4>. QED BY <4>1, <4>2, <1>2
    <3>7. ASSUME NEW k \in 1..n - 1, NEW l \in 1..n - 1, o[k].id = o[l].id
          PROVE  k = l
      <4>. DEFINE y == IF k < x THEN k ELSE k + 1
                  z == IF l < x THEN l ELSE l + 1
      <4>1. y \in 1..n /\ z \in 1..n /\ o[k] = u[y] /\ o[l] = u[z]
        BY <3>4, <3>5
      <4>2. y = z => k = l
        BY <3>1, <1>2
      <4>. HIDE DEF y, z
      <4>3. y = z
        BY <4>1, <3>7, <1>3
      <4>. QED BY <4>2, <4>3
    <3>8. m \in Nat
      BY <3>1, <3>4, <1>2
    <3>9. DOMAIN o = 1..m
      BY <3>4 DEF m
    <3>. QED BY <3>4, <3>6, <3>7, <3>8, <3>9
  <2>. QED BY <2>1, <2>2
<1>5. records' = Newest(g, MaxRetained) /\ expired' = 0
  BY DEF Store, u
<1>. HIDE DEF o
<1>6. /\ g \in Seq(Record) /\ Len(g) = m + 1 /\ DOMAIN g = 1..m + 1
      /\ \A i \in 1..m : g[i] = o[i]
      /\ g[m + 1] = r
  BY <1>4, AppendProperties
<1>. HIDE DEF g, m
<1>7. \A i \in 1..m + 1 : i = m + 1 \/ i \in 1..m
  BY <1>4
<1>8. ASSUME NEW i \in 1..m + 1
      PROVE  \/ g[i] = r
             \/ \E k \in DOMAIN records : g[i] = records[k] /\ records[k].id # r.id
  <2>1. CASE i \in 1..m
    <3>1. PICK k \in DOMAIN records : o[i] = records[k]
      BY <2>1, <1>4
    <3>. QED BY <2>1, <3>1, <1>4, <1>6
  <2>. QED BY <2>1, <1>6, <1>7
<1>9. ASSUME NEW i \in 1..m + 1, NEW k \in 1..m + 1, g[i].id = g[k].id
      PROVE  i = k
  <2>1. \A l \in 1..m : g[l].id # g[m + 1].id
    BY <1>4, <1>6
  <2>2. i = m + 1 <=> k = m + 1
    BY <2>1, <1>7, <1>9
  <2>. QED BY <2>2, <1>4, <1>6, <1>7, <1>9
<1>10. CASE Len(g) > MaxRetained
  <2>. DEFINE d == (m + 1) - MaxRetained
  <2>1. MaxRetained \in Nat /\ MaxRetained >= 1 /\ d \in Nat /\ m \in Nat /\ d + MaxRetained = m + 1
    BY <1>4, <1>6, <1>10, MaxRetainedAssumption
  <2>2. records' = SubSeq(g, d + 1, m + 1)
    BY <1>5, <1>6, <1>10 DEF Newest
  <2>. HIDE DEF d
  <2>3. \A i \in d + 1..m + 1 : g[i] \in Record
    BY <2>1, <1>6
  <2>4. /\ SubSeq(g, d + 1, m + 1) \in Seq(Record)
        /\ Len(SubSeq(g, d + 1, m + 1)) = IF d + 1 <= m + 1 THEN (m + 1) - (d + 1) + 1 ELSE 0
        /\ \A i \in 1..(m + 1) - (d + 1) + 1 : SubSeq(g, d + 1, m + 1)[i] = g[(d + 1) + i - 1]
    BY <2>1, <2>3, SubSeqProperties
  <2>5. (m + 1) - (d + 1) + 1 = MaxRetained /\ d + 1 <= m + 1
    BY <2>1
  <2>6. records' \in Seq(Record) /\ Len(records') = MaxRetained /\ DOMAIN records' = 1..MaxRetained
    BY <2>2, <2>4, <2>5
  <2>7. ASSUME NEW i \in 1..MaxRetained PROVE d + i \in 1..m + 1 /\ records'[i] = g[d + i]
    <3>1. (d + 1) + i - 1 = d + i /\ d + i \in 1..m + 1
      BY <2>1
    <3>. QED BY <3>1, <2>2, <2>4, <2>5
  <2>8. ASSUME NEW i \in 1..MaxRetained, NEW k \in 1..MaxRetained, records'[i].id = records'[k].id
        PROVE  i = k
    <3>1. d + i = d + k
      BY <2>7, <2>8, <1>9
    <3>. QED BY <3>1, <2>1
  <2>9. MaxRetained <= MaxRetained
    BY <2>1
  <2>. QED BY <1>5, <1>8, <2>6, <2>7, <2>8, <2>9
<1>11. CASE ~(Len(g) > MaxRetained)
  <2>1. records' = g
    BY <1>5, <1>11 DEF Newest
  <2>2. Len(g) <= MaxRetained
    BY <1>4, <1>6, <1>11, MaxRetainedAssumption
  <2>3. DOMAIN records' = 1..m + 1
    BY <2>1, <1>6
  <2>4. \A i, k \in DOMAIN records' : records'[i].id = records'[k].id => i = k
    BY <2>1, <2>3, <1>9
  <2>5. \A i \in DOMAIN records' :
            \/ records'[i] = r
            \/ \E k \in DOMAIN records : records'[i] = records[k] /\ records[k].id # r.id
    BY <2>1, <2>3, <1>8
  <2>. QED BY <2>1, <2>2, <2>4, <2>5, <1>5, <1>6
<1>. QED BY <1>10, <1>11

(* A poll drops what has expired.                                            *)
LEMMA PollEffect ==
    ASSUME TypeOK, RecordsTrue, Poll
    PROVE  /\ records' \in Seq(Record) /\ Len(records') <= MaxRetained /\ expired' = 0
           /\ \A i, k \in DOMAIN records' : records'[i].id = records'[k].id => i = k
           /\ \A i \in DOMAIN records' : \E k \in DOMAIN records : records'[i] = records[k]
<1>. DEFINE l == Len(records)
            n == l - expired
<1>1. /\ records \in Seq(Record) /\ l \in Nat /\ expired \in 0..l /\ l <= MaxRetained
      /\ DOMAIN records = 1..l /\ expired > 0
      /\ records' = SubSeq(records, expired + 1, l) /\ expired' = 0 /\ MaxRetained \in Nat
  BY MaxRetainedAssumption DEF TypeOK, Poll, Unexpired
<1>. HIDE DEF l
<1>2. \A i \in expired + 1..l : records[i] \in Record
  BY <1>1
<1>3. /\ records' \in Seq(Record)
      /\ Len(records') = IF expired + 1 <= l THEN l - (expired + 1) + 1 ELSE 0
      /\ \A i \in 1..l - (expired + 1) + 1 : records'[i] = records[(expired + 1) + i - 1]
  BY <1>1, <1>2, SubSeqProperties
<1>4. l - (expired + 1) + 1 = n /\ n \in Nat /\ n <= MaxRetained
      /\ Len(records') = n
  BY <1>1, <1>3
<1>5. ASSUME NEW i \in 1..n PROVE expired + i \in DOMAIN records /\ records'[i] = records[expired + i]
  <2>1. (expired + 1) + i - 1 = expired + i /\ expired + i \in 1..l
    BY <1>1
  <2>. QED BY <2>1, <1>1, <1>3, <1>4
<1>. HIDE DEF n
<1>6. ASSUME NEW i \in 1..n, NEW k \in 1..n, records'[i].id = records'[k].id PROVE i = k
  <2>1. expired + i = expired + k
    BY <1>5, <1>6 DEF RecordsTrue
  <2>. QED BY <2>1, <1>1
<1>7. DOMAIN records' = 1..n
  BY <1>3, <1>4
<1>. QED BY <1>1, <1>3, <1>4, <1>5, <1>6, <1>7

(* The store stays in shape: typed, within its bound, one record per job.    *)
RecordsKept ==
    /\ records' \in Seq(Record) /\ Len(records') <= MaxRetained /\ expired' \in 0..Len(records')
    /\ \A i, k \in DOMAIN records' : records'[i].id = records'[k].id => i = k

(* What a store of r leaves, in the shape the steps below use.               *)
LEMMA StoreKept ==
    ASSUME TypeOK, RecordsTrue, NEW r \in Record, Store(r)
    PROVE  /\ RecordsKept
           /\ \A i \in DOMAIN records' :
                  \/ records'[i] = r
                  \/ \E k \in DOMAIN records : records'[i] = records[k] /\ records[k].id # r.id
<1>1. Len(records') \in Nat
  BY StoreEffect, LenProperties
<1>. QED BY <1>1, StoreEffect DEF RecordsKept

LEMMA RecordIds ==
    ASSUME TypeOK
    PROVE  \A i \in DOMAIN records : records[i].id \in Ids
<1>1. \A i \in DOMAIN records : records[i] \in Record
  BY DEF TypeOK
<1>. QED BY <1>1 DEF Record

-----------------------------------------------------------------------------
(* A job is registered with its caller, within the capacity.                 *)
LEMMA SubmitStep ==
    ASSUME JobInv, NEW j \in Ids, NEW o \in Owners, Submit(j, o)
    PROVE  JobInv'
<1>. USE DEF JobInv
<1>. DEFINE r == [id |-> j, owner |-> o, state |-> "running"]
<1>1. /\ task[j] = "none" /\ owner' = [owner EXCEPT ![j] = o]
      /\ task' = [task EXCEPT ![j] = "running"] /\ active' = active \cup {j} /\ accepting
      /\ Cardinality(active) < MaxActive /\ RecordProgress(j, o)
      /\ UNCHANGED <<accepting, stopping, reply>>
  BY DEF Submit, BeginJob
<1>2. r \in Record /\ r.id = j /\ r.owner = o /\ r.state \notin Settled
  BY DEF Record, Settled
<1>3. \A i \in DOMAIN records : records[i].id # j
  BY <1>1 DEF RecordsTrue
<1>4. Store(r)
  BY <1>1, <1>3 DEF RecordProgress, Terminal
<1>. HIDE DEF r
<1>5. /\ RecordsKept
      /\ \A i \in DOMAIN records' :
             records'[i] = r \/ \E k \in DOMAIN records : records'[i] = records[k] /\ records[k].id # r.id
  BY <1>2, <1>4, StoreKept
<1>6. TypeOK'
  BY <1>1, <1>5 DEF TypeOK, RecordsKept
<1>7. RecordsTrue'
  <2>1. ASSUME NEW i \in DOMAIN records'
        PROVE  /\ records'[i].owner = owner'[records'[i].id]
               /\ task'[records'[i].id] # "none"
               /\ records'[i].state \in Settled =>
                      records'[i].state = task'[records'[i].id] /\ records'[i].id \notin active'
    <3>1. CASE records'[i] = r
      BY <3>1, <1>1, <1>2 DEF TypeOK
    <3>2. ASSUME NEW k \in DOMAIN records, records'[i] = records[k] PROVE records[k].id \in Ids \ {j}
      BY <1>3, RecordIds
    <3>. QED BY <3>1, <3>2, <1>1, <1>5 DEF RecordsTrue, TypeOK
  <2>. QED BY <2>1, <1>5 DEF RecordsTrue, RecordsKept
<1>8. JobsOwned'
  BY <1>1 DEF JobsOwned, TypeOK
<1>9. RepliesTrue'
  BY <1>1 DEF RepliesTrue, TypeOK, Settled
<1>10. NothingUnattended'
  <2>1. IsFiniteSet(active)
    BY IdsAssumption, FS_Subset DEF TypeOK
  <2>2. Cardinality(active') <= MaxActive
    <3>1. Cardinality(active') <= Cardinality(active) + 1 /\ Cardinality(active) \in Nat
          /\ Cardinality(active') \in Nat
      <4>1. Cardinality(active) \in Nat
        BY <2>1, FS_CardinalityType
      <4>2. Cardinality(active') = IF j \in active THEN Cardinality(active) ELSE Cardinality(active) + 1
        BY <2>1, <1>1, FS_AddElement
      <4>. QED BY <4>1, <4>2
    <3>. QED BY <3>1, <1>1, MaxActiveAssumption
  <2>. QED BY <2>2, <1>1 DEF NothingUnattended, TypeOK
<1>. QED BY <1>6, <1>7, <1>8, <1>9, <1>10

(* A step that writes the record of an active job, as its caller's.          *)
LEMMA RecordStep ==
    ASSUME JobInv, NEW j \in active, NEW s \in {"running"} \cup Settled,
           Store([id |-> j, owner |-> owner[j], state |-> s]),
           UNCHANGED <<accepting, stopping, owner, task, reply>>,
           \/ s = "running" /\ active' = active
           \/ s \in Settled /\ s = task[j] /\ active' = active \ {j}
    PROVE  JobInv'
<1>. USE DEF JobInv
<1>. DEFINE r == [id |-> j, owner |-> owner[j], state |-> s]
<1>1. j \in Ids /\ owner[j] \in Owners /\ task[j] # "none"
  BY DEF TypeOK, JobsOwned
<1>2. r \in Record /\ r.id = j /\ r.owner = owner[j] /\ r.state = s
  BY <1>1 DEF Record
<1>3. Store(r)
  OBVIOUS
<1>. HIDE DEF r
<1>4. /\ RecordsKept
      /\ \A i \in DOMAIN records' :
             records'[i] = r \/ \E k \in DOMAIN records : records'[i] = records[k] /\ records[k].id # r.id
  BY <1>2, <1>3, StoreKept
<1>5. active' \subseteq active /\ active' \in SUBSET Ids
  BY DEF TypeOK
<1>6. TypeOK'
  BY <1>4, <1>5 DEF TypeOK, RecordsKept
<1>7. RecordsTrue'
  <2>1. ASSUME NEW i \in DOMAIN records'
        PROVE  /\ records'[i].owner = owner[records'[i].id]
               /\ task[records'[i].id] # "none"
               /\ records'[i].state \in Settled =>
                      records'[i].state = task[records'[i].id] /\ records'[i].id \notin active'
    <3>1. CASE records'[i] = r
      BY <3>1, <1>1, <1>2 DEF Settled
    <3>2. CASE \E k \in DOMAIN records : records'[i] = records[k]
      BY <3>2, <1>5 DEF RecordsTrue
    <3>. QED BY <3>1, <3>2, <1>4
  <2>. QED BY <2>1, <1>4 DEF RecordsTrue, RecordsKept
<1>8. JobsOwned' /\ RepliesTrue'
  BY <1>5 DEF JobsOwned, RepliesTrue
<1>9. NothingUnattended'
  <2>1. Cardinality(active') <= MaxActive
    <3>1. IsFiniteSet(active)
      BY IdsAssumption, FS_Subset DEF TypeOK
    <3>2. Cardinality(active') <= Cardinality(active) /\ Cardinality(active') \in Nat
          /\ Cardinality(active) \in Nat
      BY <3>1, <1>5, FS_Subset, FS_CardinalityType
    <3>. QED BY <3>2, MaxActiveAssumption DEF NothingUnattended
  <2>2. \A i \in Ids : task[i] \in {"running", "cancelling"} => i \in active'
    BY <1>1 DEF NothingUnattended, Settled
  <2>. QED BY <2>1, <2>2, <1>5 DEF NothingUnattended
<1>. QED BY <1>6, <1>7, <1>8, <1>9

(* A progress note is dropped or written as the job's caller's.              *)
LEMMA NoteProgressStep ==
    ASSUME JobInv, NEW j \in Ids, NoteProgress(j)
    PROVE  JobInv'
<1>1. CASE Terminal(j)
  BY <1>1 DEF NoteProgress, RecordProgress, JobInv, TypeOK, RecordsTrue, JobsOwned, RepliesTrue,
              NothingUnattended
<1>2. CASE ~Terminal(j)
  <2>1. /\ j \in active /\ Store([id |-> j, owner |-> owner[j], state |-> "running"])
        /\ UNCHANGED <<accepting, stopping, owner, task, active, reply>>
    BY <1>2 DEF NoteProgress, RecordProgress
  <2>. QED BY <2>1, RecordStep
<1>. QED BY <1>1, <1>2

(* The done-callback writes how the task ended and deregisters the job.      *)
LEMMA JobCompletedStep ==
    ASSUME JobInv, NEW j \in Ids, JobCompleted(j)
    PROVE  JobInv'
<1>1. /\ j \in active /\ task[j] \in Settled
      /\ Store([id |-> j, owner |-> owner[j], state |-> task[j]]) /\ active' = active \ {j}
      /\ UNCHANGED <<accepting, stopping, owner, task, reply>>
  BY DEF JobCompleted
<1>. QED BY <1>1, RecordStep

(* A task ends once: nothing that was said of it before can be wrong.        *)
LEMMA TaskSettlesStep ==
    ASSUME JobInv, NEW j \in Ids, NEW outcome \in Settled, TaskSettles(j, outcome)
    PROVE  JobInv'
<1>. USE DEF JobInv
<1>1. /\ task[j] \in {"running", "cancelling"} /\ task' = [task EXCEPT ![j] = outcome]
      /\ UNCHANGED <<accepting, stopping, owner, active, records, expired, reply>>
      /\ outcome \notin {"none", "running", "cancelling"} /\ task[j] \notin Settled
  BY DEF TaskSettles, Settled
<1>2. TypeOK'
  BY <1>1 DEF TypeOK
<1>3. RecordsTrue'
  <2>1. \A i \in DOMAIN records : records[i].id \in Ids
    BY RecordIds
  <2>. QED BY <2>1, <1>1 DEF RecordsTrue, TypeOK
<1>4. JobsOwned' /\ RepliesTrue'
  BY <1>1 DEF JobsOwned, RepliesTrue, TypeOK
<1>5. NothingUnattended'
  BY <1>1 DEF NothingUnattended, TypeOK
<1>. QED BY <1>2, <1>3, <1>4, <1>5

(* task.cancel() changes what runs, never what has ended.                    *)
LEMMA AskToStopKeeps ==
    ASSUME JobInv, NEW S, AskToStop(S)
    PROVE  /\ task' \in [Ids -> {"none", "running", "cancelling"} \cup Settled]
           /\ \A j \in Ids : /\ task'[j] = "none" <=> task[j] = "none"
                             /\ task'[j] \in Settled \/ task[j] \in Settled => task'[j] = task[j]
                             /\ task'[j] \in {"running", "cancelling"} =>
                                    task[j] \in {"running", "cancelling"}
                             /\ task'[j] = "running" => task[j] = "running" /\ j \notin S
  BY DEF JobInv, TypeOK, AskToStop, Settled

(* cancel_job_text asks and waits; stop() asks every job it still tracks.    *)
LEMMA CancelJobStep ==
    ASSUME JobInv, NEW j \in Ids, NEW o \in Owners, CancelJob(j, o)
    PROVE  JobInv'
<1>. USE DEF JobInv
<1>1. /\ AskToStop({j}) /\ reply' = [reply EXCEPT ![j] = "waiting"]
      /\ UNCHANGED <<accepting, stopping, owner, active, records, expired>>
  BY DEF CancelJob
<1>2. \A i \in DOMAIN records : records[i].id \in Ids
  BY RecordIds
<1>3. TypeOK' /\ JobsOwned'
  BY <1>1, AskToStopKeeps DEF TypeOK, JobsOwned
<1>4. RecordsTrue'
  BY <1>1, <1>2, AskToStopKeeps DEF RecordsTrue
<1>5. RepliesTrue'
  BY <1>1, AskToStopKeeps DEF RepliesTrue, TypeOK, Settled
<1>6. NothingUnattended'
  BY <1>1, AskToStopKeeps DEF NothingUnattended, TypeOK
<1>. QED BY <1>3, <1>4, <1>5, <1>6

LEMMA StopStep == ASSUME JobInv, Stop PROVE JobInv'
<1>. USE DEF JobInv
<1>1. /\ AskToStop(active) /\ accepting' = FALSE /\ stopping' = active
      /\ UNCHANGED <<owner, active, records, expired, reply>>
  BY DEF Stop
<1>2. \A i \in DOMAIN records : records[i].id \in Ids
  BY RecordIds
<1>3. TypeOK' /\ JobsOwned'
  BY <1>1, AskToStopKeeps DEF TypeOK, JobsOwned
<1>4. RecordsTrue'
  BY <1>1, <1>2, AskToStopKeeps DEF RecordsTrue
<1>5. RepliesTrue'
  BY <1>1, AskToStopKeeps DEF RepliesTrue, TypeOK, Settled
<1>6. NothingUnattended'
  BY <1>1, AskToStopKeeps DEF NothingUnattended, TypeOK
<1>. QED BY <1>3, <1>4, <1>5, <1>6

(* The answer to a cancellation is read off the task.                        *)
LEMMA CancelAnsweredStep ==
    ASSUME JobInv, NEW j \in Ids, CancelAnswered(j)
    PROVE  JobInv'
<1>. USE DEF JobInv
<1>1. /\ reply' = [reply EXCEPT ![j] = IF task[j] \in Settled THEN task[j] ELSE "cancel-timeout"]
      /\ UNCHANGED <<accepting, stopping, owner, task, active, records, expired>>
  BY DEF CancelAnswered, SettledOutcome
<1>2. TypeOK' /\ RepliesTrue'
  BY <1>1 DEF TypeOK, RepliesTrue, Settled
<1>3. RecordsTrue' /\ JobsOwned' /\ NothingUnattended'
  BY <1>1 DEF RecordsTrue, JobsOwned, NothingUnattended
<1>. QED BY <1>2, <1>3

(* Expiry forgets; it never rewrites.                                        *)
LEMMA PollStep == ASSUME JobInv, Poll PROVE JobInv'
<1>. USE DEF JobInv
<1>1. UNCHANGED <<accepting, stopping, owner, task, active, reply>>
  BY DEF Poll
<1>2. Len(records') \in Nat
  BY PollEffect, LenProperties
<1>3. TypeOK'
  BY <1>1, <1>2, PollEffect DEF TypeOK
<1>4. RecordsTrue'
  BY <1>1, PollEffect DEF RecordsTrue
<1>5. JobsOwned' /\ RepliesTrue' /\ NothingUnattended'
  BY <1>1 DEF JobsOwned, RepliesTrue, NothingUnattended
<1>. QED BY <1>3, <1>4, <1>5

LEMMA AgeStep == ASSUME JobInv, Age PROVE JobInv'
<1>. USE DEF JobInv
<1>1. expired' \in 0..Len(records)
  BY DEF Age, TypeOK
<1>. QED BY <1>1 DEF Age, TypeOK, RecordsTrue, JobsOwned, RepliesTrue, NothingUnattended

LEMMA StopReturnsStep == ASSUME JobInv, StopReturns \/ Start PROVE JobInv'
  BY DEF JobInv, StopReturns, Start, TypeOK, RecordsTrue, JobsOwned, RepliesTrue, NothingUnattended

-----------------------------------------------------------------------------
LEMMA JobInit == Init => JobInv
<1>. SUFFICES ASSUME Init PROVE JobInv
  OBVIOUS
<1>1. Cardinality(active) = 0 /\ MaxActive \in Nat
  BY FS_EmptySet, MaxActiveAssumption DEF Init
<1>2. records \in Seq(Record) /\ Len(records) = 0 /\ DOMAIN records = {}
  BY DEF Init
<1>3. TypeOK
  BY <1>2, MaxRetainedAssumption DEF Init, TypeOK
<1>4. RecordsTrue /\ JobsOwned /\ RepliesTrue
  BY <1>2 DEF Init, RecordsTrue, JobsOwned, RepliesTrue, Settled
<1>5. NothingUnattended
  BY <1>1 DEF Init, NothingUnattended
<1>. QED BY <1>3, <1>4, <1>5 DEF JobInv

LEMMA JobNext == JobInv /\ [Next]_vars => JobInv'
<1>. SUFFICES ASSUME JobInv, [Next]_vars PROVE JobInv'
  OBVIOUS
<1>1. ASSUME NEW j \in Ids, JobStep(j) PROVE JobInv'
  BY <1>1, SubmitStep, CancelJobStep, NoteProgressStep, TaskSettlesStep, JobCompletedStep,
     CancelAnsweredStep DEF JobStep
<1>2. CASE Poll \/ Age \/ Stop \/ StopReturns \/ Start
  BY <1>2, PollStep, AgeStep, StopStep, StopReturnsStep
<1>3. CASE UNCHANGED vars
  BY <1>3 DEF vars, JobInv, TypeOK, RecordsTrue, JobsOwned, RepliesTrue, NothingUnattended
<1>. QED BY <1>1, <1>2, <1>3 DEF Next

(* A record of a job is that of the caller who submitted it, so nobody else  *)
(* is answered from it.                                                      *)
LEMMA JobInvSound == JobInv => JobsSound
<1>. SUFFICES ASSUME JobInv PROVE JobsSound
  OBVIOUS
<1>. USE DEF JobInv
<1>1. OutcomeIsTrue
  BY DEF OutcomeIsTrue, RecordsTrue, RepliesTrue
<1>2. ForeignIsUnknown
  <2>1. SUFFICES ASSUME NEW j \in Ids, NEW o \in Owners, owner[j] # o PROVE Answer(j, o) = "unknown"
    BY DEF ForeignIsUnknown
  <2>2. \A k \in expired + 1..Len(records) : k \in DOMAIN records
    BY DEF TypeOK
  <2>3. Stored(j, o) = {}
    BY <2>1, <2>2 DEF Stored, RecordsTrue
  <2>. QED BY <2>1, <2>3 DEF Answer
<1>. QED BY <1>1, <1>2 DEF JobsSound

(* For every set of jobs and callers and every bound: a stored outcome and a *)
(* cancellation answer is how the task ended, a task that runs is tracked    *)
(* within the capacity and told to stop by stop(), and a foreign caller      *)
(* learns nothing (JobSubmissionService, JobResultStore).                    *)
THEOREM JobsAreSound == Spec => []JobsSound
<1>1. Init => JobInv
  BY JobInit
<1>2. JobInv /\ [Next]_vars => JobInv'
  BY JobNext
<1>3. JobInv => JobsSound
  BY JobInvSound
<1>. QED BY <1>1, <1>2, <1>3, PTL DEF Spec

-----------------------------------------------------------------------------
(* A step writes records only of jobs that are active or not yet begun, and  *)
(* activates only jobs not yet begun.                                        *)
LEMMA WritesOnlyLiveJobs ==
    ASSUME JobInv, [Next]_vars
    PROVE  /\ \A i \in DOMAIN records' :
                  \/ \E k \in DOMAIN records : records'[i] = records[k]
                  \/ records'[i].id \in active
                  \/ task[records'[i].id] = "none"
           /\ \A j \in active' : j \in active \/ task[j] = "none"
           /\ records' \in Seq(Record) /\ expired' \in Nat
<1>. DEFINE G == /\ \A i \in DOMAIN records' :
                        \/ \E k \in DOMAIN records : records'[i] = records[k]
                        \/ records'[i].id \in active
                        \/ task[records'[i].id] = "none"
                 /\ \A j \in active' : j \in active \/ task[j] = "none"
<1>. USE DEF JobInv
<1>1. ASSUME records' = records, active' = active PROVE G
  BY <1>1
<1>2. ASSUME NEW r \in Record, Store(r), r.id \in active \/ task[r.id] = "none",
             \A j \in active' : j \in active \/ task[j] = "none"
      PROVE  G
  <2>1. \A i \in DOMAIN records' :
            records'[i] = r \/ \E k \in DOMAIN records : records'[i] = records[k] /\ records[k].id # r.id
    BY <1>2, StoreKept
  <2>. QED BY <2>1, <1>2
<1>3. ASSUME NEW j \in Ids, NEW o \in Owners, RecordProgress(j, o), j \in active \/ task[j] = "none",
             \A i \in active' : i \in active \/ task[i] = "none"
      PROVE  G
  <2>1. CASE Terminal(j)
    BY <1>3, <2>1 DEF RecordProgress
  <2>2. CASE ~Terminal(j)
    <3>. DEFINE r == [id |-> j, owner |-> o, state |-> "running"]
    <3>1. r \in Record /\ r.id = j /\ Store(r)
      BY <1>3, <2>2 DEF RecordProgress, Record
    <3>. HIDE DEF r
    <3>. QED BY <1>2, <1>3, <3>1
  <2>. QED BY <2>1, <2>2
<1>4. ASSUME NEW j \in Ids, NEW o \in Owners, Submit(j, o) PROVE G
  <2>1. RecordProgress(j, o) /\ task[j] = "none" /\ active' = active \cup {j}
    BY <1>4 DEF Submit, BeginJob
  <2>. HIDE DEF G
  <2>. QED BY <2>1, <1>3
<1>5. ASSUME NEW j \in Ids, NoteProgress(j) PROVE G
  <2>1. RecordProgress(j, owner[j]) /\ j \in active /\ active' = active /\ owner[j] \in Owners
    BY <1>5 DEF NoteProgress, JobsOwned
  <2>. HIDE DEF G
  <2>. QED BY <2>1, <1>3
<1>6. ASSUME NEW j \in Ids, JobCompleted(j) PROVE G
  <2>. DEFINE r == [id |-> j, owner |-> owner[j], state |-> task[j]]
  <2>1. r \in Record /\ r.id = j /\ Store(r) /\ j \in active /\ active' = active \ {j}
    BY <1>6 DEF JobCompleted, Record, JobsOwned
  <2>. HIDE DEF r, G
  <2>. QED BY <2>1, <1>2
<1>7. ASSUME Poll PROVE G
  BY <1>7, PollEffect DEF Poll
<1>8. ASSUME NEW j \in Ids,
             \/ \E o \in Owners : CancelJob(j, o)
             \/ \E outcome \in Settled : TaskSettles(j, outcome)
             \/ CancelAnswered(j)
      PROVE  G
  <2>1. records' = records /\ active' = active
    BY <1>8 DEF CancelJob, TaskSettles, CancelAnswered
  <2>. HIDE DEF G
  <2>. QED BY <2>1, <1>1
<1>9. ASSUME Age \/ Stop \/ StopReturns \/ Start \/ UNCHANGED vars PROVE G
  <2>1. records' = records /\ active' = active
    BY <1>9 DEF Age, Stop, StopReturns, Start, vars
  <2>. HIDE DEF G
  <2>. QED BY <2>1, <1>1
<1>10. records' \in Seq(Record) /\ expired' \in Nat
  <2>1. TypeOK'
    BY JobNext
  <2>2. Len(records') \in Nat
    BY <2>1, LenProperties DEF TypeOK
  <2>. QED BY <2>1, <2>2 DEF TypeOK
<1>11. G
  <2>. HIDE DEF G
  <2>. QED BY <1>4, <1>5, <1>6, <1>7, <1>8, <1>9 DEF Next, JobStep
<1>. QED BY <1>10, <1>11

(* Once the owner of a job is told how it ended, a later poll says the same  *)
(* or that the job is forgotten: its record is the job's only one, the job   *)
(* is not active, and no step writes the record of such a job                *)
(* (JobResultStore.record_progress, _job_completed, _lookup).                *)
THEOREM AnswersAreFinal == Spec => AnswerIsFinal
<1>. DEFINE Final == \A j \in Ids, o \in Owners :
                Answer(j, o) \in Settled => Answer(j, o)' \in {Answer(j, o), "unknown"}
<1>1. JobInv /\ [Next]_vars => Final
  <2>. SUFFICES ASSUME JobInv, [Next]_vars, NEW j \in Ids, NEW o \in Owners, Answer(j, o) \in Settled
                PROVE  Answer(j, o)' \in {Answer(j, o), "unknown"}
    OBVIOUS
  <2>. USE DEF JobInv
  <2>. DEFINE r == CHOOSE x \in Stored(j, o) : TRUE
  <2>1. Stored(j, o) # {} /\ Answer(j, o) = r.state
    BY DEF Answer, Settled
  <2>2. r \in Stored(j, o)
    BY <2>1
  <2>3. PICK k \in DOMAIN records : r = records[k] /\ records[k].id = j /\ records[k].owner = o
    <3>1. \A k \in expired + 1..Len(records) : k \in DOMAIN records
      BY DEF TypeOK
    <3>. HIDE DEF r
    <3>. QED BY <2>2, <3>1 DEF Stored
  <2>. HIDE DEF r
  <2>4. j \notin active /\ task[j] # "none" /\ records[k].state = Answer(j, o)
    BY <2>1, <2>3 DEF RecordsTrue
  <2>5. j \notin active'
    BY <2>4, WritesOnlyLiveJobs
  <2>6. ASSUME NEW x \in Stored(j, o)' PROVE x.state = Answer(j, o)
    <3>1. \A l \in expired' + 1..Len(records') : l \in DOMAIN records'
      BY WritesOnlyLiveJobs
    <3>2. PICK l \in DOMAIN records' : x = records'[l] /\ records'[l].id = j
      BY <2>6, <3>1 DEF Stored
    <3>3. PICK m \in DOMAIN records : records'[l] = records[m]
      BY <3>2, <2>4, WritesOnlyLiveJobs
    <3>4. m = k
      BY <2>3, <3>2, <3>3 DEF RecordsTrue
    <3>. QED BY <2>4, <3>2, <3>3, <3>4
  <2>7. CASE Stored(j, o)' = {}
    BY <2>5, <2>7 DEF Answer
  <2>8. CASE Stored(j, o)' # {}
    <3>1. (CHOOSE x \in Stored(j, o)' : TRUE) \in Stored(j, o)'
      BY <2>8
    <3>2. Answer(j, o)' = (CHOOSE x \in Stored(j, o)' : TRUE).state
      BY <2>8 DEF Answer
    <3>. QED BY <3>1, <3>2, <2>6
  <2>. QED BY <2>7, <2>8
<1>2. Init => JobInv
  BY JobInit
<1>3. JobInv /\ [Next]_vars => JobInv'
  BY JobNext
<1>. QED BY <1>1, <1>2, <1>3, PTL DEF Spec, AnswerIsFinal
=============================================================================
