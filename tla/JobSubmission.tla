---------------------------- MODULE JobSubmission ----------------------------
(***************************************************************************)
(* job_lifecycle.JobSubmissionService over job_results.JobResultStore: the *)
(* table of active job tasks, the bounded and expiring store of what is    *)
(* known about each job, and the callers that cancel and poll.             *)
(*                                                                         *)
(* The service's methods are synchronous up to their one await, the wait   *)
(* for a cancelled task.  A task settles in one step of the loop and its   *)
(* done-callback runs in a later one, so every method may see a task that  *)
(* has ended while its job is still active.                                *)
(***************************************************************************)
EXTENDS Integers, FiniteSets, Sequences, SequencesExt

CONSTANTS
    Ids,            \* job ids, each minted at most once
    Owners,         \* callers
    MaxActive,      \* max_active_jobs
    MaxRetained     \* max_retained_jobs

ASSUME IdsAssumption == IsFiniteSet(Ids)
ASSUME MaxActiveAssumption == MaxActive \in Nat \ {0}
ASSUME MaxRetainedAssumption == MaxRetained \in Nat \ {0}

VARIABLES
    accepting,  \* _accepting
    stopping,   \* the tasks stop() waits for, while it waits
    owner,      \* the caller a minted id belongs to
    task,       \* the job's asyncio task
    active,     \* _active
    records,    \* _records, least recently updated first
    expired,    \* how many of them, from the front, are past their TTL
    reply       \* what the last cancel_job_text for the job answered

vars == <<accepting, stopping, owner, task, active, records, expired, reply>>

NoOwner == "no owner"
Settled == {"succeeded", "failed", "cancelled"}
Record == [id : Ids, owner : Owners, state : {"running"} \cup Settled]

(* The shape of the state.                                                   *)
TypeOK ==
    /\ accepting \in BOOLEAN
    /\ stopping \in SUBSET Ids
    /\ owner \in [Ids -> Owners \cup {NoOwner}]
    /\ task \in [Ids -> {"none", "running", "cancelling"} \cup Settled]
    /\ active \in SUBSET Ids
    /\ records \in Seq(Record) /\ Len(records) <= MaxRetained
    /\ expired \in 0..Len(records)
    /\ reply \in [Ids -> {"none", "waiting", "cancel-timeout"} \cup Settled]

Init ==
    /\ accepting = TRUE
    /\ stopping = {}
    /\ owner = [j \in Ids |-> NoOwner]
    /\ task = [j \in Ids |-> "none"]
    /\ active = {}
    /\ records = <<>>
    /\ expired = 0
    /\ reply = [j \in Ids |-> "none"]

-----------------------------------------------------------------------------
(* JobResultStore                                                            *)

\* The records without the job's own, of which there is at most one.
At(recs, j) == {i \in DOMAIN recs : recs[i].id = j}
Others(recs, j) == IF At(recs, j) = {} THEN recs ELSE RemoveAt(recs, CHOOSE i \in At(recs, j) : TRUE)
Unexpired == SubSeq(records, expired + 1, Len(records))

\* Mutant: one record too many is kept.
NewestOffByOne(recs, bound) ==
    IF Len(recs) > bound + 1 THEN SubSeq(recs, Len(recs) - bound, Len(recs)) ELSE recs

\* The newest `bound` records: the rest are evicted, oldest first.
Newest(recs, bound) ==
    IF Len(recs) > bound THEN SubSeq(recs, Len(recs) - bound + 1, Len(recs)) ELSE recs

(* _store: drop what has expired, put the record last, evict from the front. *)
Store(r) ==
    /\ records' = Newest(Append(Others(Unexpired, r.id), r), MaxRetained)
    /\ expired' = 0

Terminal(j) == \E i \in DOMAIN records : records[i].id = j /\ records[i].state \in Settled

(* record_progress: a terminal result is final.                              *)
RecordProgress(j, o) ==
    IF Terminal(j) THEN UNCHANGED <<records, expired>>
    ELSE Store([id |-> j, owner |-> o, state |-> "running"])

\* The unexpired record of a job that the caller owns, if there is one.
Stored(j, o) ==
    {records[i] : i \in {k \in expired + 1 .. Len(records) : records[k].id = j /\ records[k].owner = o}}

\* Mutant: an active job answers whoever asks.
AnswerUnscoped(j, o) ==
    IF Stored(j, o) # {} THEN (CHOOSE r \in Stored(j, o) : TRUE).state
    ELSE IF j \in active THEN "running" ELSE "unknown"

(* get() through _lookup: the stored record, or `running` for an active job. *)
Answer(j, o) ==
    IF Stored(j, o) # {} THEN (CHOOSE r \in Stored(j, o) : TRUE).state
    ELSE IF j \in active /\ owner[j] = o THEN "running" ELSE "unknown"

-----------------------------------------------------------------------------
(* JobSubmissionService                                                      *)

\* The registration of an accepted job, _begin_job.
BeginJob(j, o) ==
    /\ task[j] = "none"
    /\ owner' = [owner EXCEPT ![j] = o]
    /\ task' = [task EXCEPT ![j] = "running"]
    /\ active' = active \cup {j}
    /\ RecordProgress(j, o)
    /\ UNCHANGED <<accepting, stopping, reply>>

\* Mutant: a submission racing stop() is let in.
SubmitWhileStopping(j, o) == Cardinality(active) < MaxActive /\ BeginJob(j, o)

(* submit_job_text, accepted: mint the id, start the task, register it,      *)
(* record it as queued.  Every refusal before that leaves no trace; writing   *)
(* the reply of an accepted job does not fail, so _abandon_job never runs.    *)
Submit(j, o) ==
    /\ accepting
    /\ Cardinality(active) < MaxActive
    /\ BeginJob(j, o)

(* note_progress: only an active job has an owner to record it against.      *)
NoteProgress(j) ==
    /\ j \in active
    /\ RecordProgress(j, owner[j])
    /\ UNCHANGED <<accepting, stopping, owner, task, active, reply>>

\* The dispatched operation ends; a cancelled one may still end otherwise.
TaskSettles(j, outcome) ==
    /\ task[j] \in {"running", "cancelling"}
    /\ task' = [task EXCEPT ![j] = outcome]
    /\ UNCHANGED <<accepting, stopping, owner, active, records, expired, reply>>

\* Mutants: the job stays in the table; a cancelled job is not recorded.
JobCompletedKeepsActive(j) ==
    /\ j \in active
    /\ task[j] \in Settled
    /\ Store([id |-> j, owner |-> owner[j], state |-> task[j]])
    /\ UNCHANGED <<accepting, stopping, owner, task, active, reply>>

JobCompletedSkipsCancelled(j) ==
    /\ j \in active
    /\ task[j] \in Settled \ {"cancelled"}
    /\ Store([id |-> j, owner |-> owner[j], state |-> task[j]])
    /\ active' = active \ {j}
    /\ UNCHANGED <<accepting, stopping, owner, task, reply>>

(* _job_completed, the task's done-callback: record the outcome, deregister. *)
JobCompleted(j) ==
    /\ j \in active
    /\ task[j] \in Settled
    /\ Store([id |-> j, owner |-> owner[j], state |-> task[j]])
    /\ active' = active \ {j}
    /\ UNCHANGED <<accepting, stopping, owner, task, reply>>

\* task.cancel(): asks a running task to stop, does nothing to a settled one.
AskToStop(jobs) ==
    task' = [j \in Ids |-> IF j \in jobs /\ task[j] = "running" THEN "cancelling" ELSE task[j]]

(* cancel_job_text up to its wait.  A foreign or ended job is "not found".   *)
CancelJob(j, o) ==
    /\ j \in active
    /\ owner[j] = o
    /\ reply[j] # "waiting"
    /\ AskToStop({j})
    /\ reply' = [reply EXCEPT ![j] = "waiting"]
    /\ UNCHANGED <<accepting, stopping, owner, active, records, expired>>

\* Mutant: whoever asked for a cancellation is told it happened.
SettledOutcomeAsAsked(j) == "cancelled"

(* _settled_outcome: how the task ended, not how it was asked to end.        *)
SettledOutcome(j) == task[j]

CancelAnswered(j) ==
    /\ reply[j] = "waiting"
    /\ reply' = [reply EXCEPT ![j] =
                    IF task[j] \in Settled THEN SettledOutcome(j) ELSE "cancel-timeout"]
    /\ UNCHANGED <<accepting, stopping, owner, task, active, records, expired>>

\* job_result_text: the poll itself only expires records.
Poll ==
    /\ expired > 0
    /\ records' = Unexpired
    /\ expired' = 0
    /\ UNCHANGED <<accepting, stopping, owner, task, active, reply>>

\* Time passes the TTL of one more record.
Age ==
    /\ expired < Len(records)
    /\ expired' = expired + 1
    /\ UNCHANGED <<accepting, stopping, owner, task, active, records, reply>>

(* stop(): refuse submissions, cancel every active task, wait for them.      *)
Stop ==
    /\ accepting' = FALSE
    /\ stopping' = active
    /\ AskToStop(active)
    /\ UNCHANGED <<owner, active, records, expired, reply>>

StopReturns ==
    /\ stopping # {}
    /\ stopping' = {}
    /\ UNCHANGED <<accepting, owner, task, active, records, expired, reply>>

\* start(), for a runtime that is started twice
Start ==
    /\ stopping = {}
    /\ accepting' = TRUE
    /\ UNCHANGED <<stopping, owner, task, active, records, expired, reply>>

JobStep(j) ==
    \/ \E o \in Owners : Submit(j, o) \/ CancelJob(j, o)
    \/ NoteProgress(j)
    \/ \E outcome \in Settled : TaskSettles(j, outcome)
    \/ JobCompleted(j)
    \/ CancelAnswered(j)

Next == (\E j \in Ids : JobStep(j)) \/ Poll \/ Age \/ Stop \/ StopReturns \/ Start

Spec == Init /\ [][Next]_vars

-----------------------------------------------------------------------------
(* AnswerIsFinal: once the owner of a job is told how it ended, a later poll *)
(* says the same or that the job is forgotten, never that it is running: the *)
(* store's terminal rule, eviction, expiry and the active table agree.       *)
AnswerIsFinal ==
    [][\A j \in Ids, o \in Owners :
        Answer(j, o) \in Settled => Answer(j, o)' \in {Answer(j, o), "unknown"}]_vars

(* OutcomeIsTrue: every stored outcome and every cancellation answer is how  *)
(* the task really ended, though a cancellation may race its end.            *)
OutcomeIsTrue ==
    /\ \A i \in DOMAIN records :
        records[i].state \in Settled => records[i].state = task[records[i].id]
    /\ \A j \in Ids : reply[j] \in Settled => reply[j] = task[j]

(* NothingUnattended: a task the service no longer tracks has ended, and one *)
(* it tracks was accepted: no job runs outside the capacity that bounds it,  *)
(* and what a closed service still tracks has been told to stop.             *)
NothingUnattended ==
    /\ \A j \in Ids : task[j] \in {"running", "cancelling"} => j \in active
    /\ Cardinality(active) <= MaxActive
    /\ ~accepting => \A j \in active : task[j] # "running"

(* ForeignIsUnknown: a caller that does not own a job is answered as for a   *)
(* job that never existed, from the store and from the active table alike.   *)
ForeignIsUnknown ==
    \A j \in Ids, o \in Owners : owner[j] # o => Answer(j, o) = "unknown"

-----------------------------------------------------------------------------
(* The loop runs what is scheduled: a task's done-callback, and the waiter of *)
(* asyncio.wait when the task ends or the timeout passes.  Nothing is assumed *)
(* of the operation itself: a job may wait in the plugin pool for as long as  *)
(* its profile is held, and a worker call is extended by every progress.      *)
Fairness == \A j \in Ids : WF_vars(JobCompleted(j)) /\ WF_vars(CancelAnswered(j))

LiveSpec == Spec /\ Fairness

(* CapacityReturns: a job whose operation has ended, however and whenever it  *)
(* did, leaves the active table, so ended jobs never exhaust the capacity;    *)
(* and every cancellation is answered, even of a job that does not end.       *)
CapacityReturns ==
    \A j \in Ids :
        /\ task[j] \in Settled ~> j \notin active
        /\ reply[j] = "waiting" ~> reply[j] # "waiting"

(* JobsSound: what callers are told is how their own jobs ended, and every   *)
(* task that runs is supervised (JobSubmissionService, JobResultStore).      *)
JobsSound == TypeOK /\ OutcomeIsTrue /\ NothingUnattended /\ ForeignIsUnknown

=============================================================================
