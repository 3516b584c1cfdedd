---------------------------- MODULE WorkerChannel ----------------------------
(***************************************************************************)
(* The framed channel between the service and one plugin worker:           *)
(* plugins/ipc.py, the worker's loop (plugins/worker.py), the service's    *)
(* side of a call (supervisor_session.py, PluginWorkerSupervisor.execute)  *)
(* and the call budget around it (plugins/budgets.py).                     *)
(*                                                                         *)
(* Each pipe is a FIFO of frames.  The service reads a frame in two waits, *)
(* header and body, and a cancellation can arrive between them.            *)
(***************************************************************************)
EXTENDS Sequences, Integers, FiniteSets

CONSTANTS
    Requests,           \* jobs sent to the worker
    MaxConcurrency,     \* WorkerBudgetLimits.max_concurrency
    ServiceVersions,    \* the protocol versions the service offers
    WorkerVersions,     \* the protocol versions the worker offers
    MaxChunks,          \* bound: frames of one split result
    MaxProgress         \* bound: progress frames of one request

VARIABLES
    link,       \* how far the session is: see Links
    agreed,     \* the negotiated protocol version
    toWorker,   \* the worker's stdin
    toService,  \* the worker's stdout
    half,       \* the reader that consumed a header and waits for its body
    call,       \* where each request is on the service's side
    charged,    \* WorkerBudgetEnforcer._active
    turn,       \* who holds slot.request_lock
    beaten,     \* CallHeartbeat._beaten of each call
    parts,      \* the frames each call collected as its answer
    task,       \* where each request is in the worker
    reported    \* progress frames each request has sent

channel == <<toWorker, toService, half>>
service == <<call, charged, turn, beaten, parts>>
worker == <<task, reported>>
channelVars == <<link, agreed, channel, service, worker>>

Links == {"launched", "offered", "replied", "starting", "ready", "gone"}
NoVersion == 0
Nobody == "nobody"
Reading(r) == call[r] \in {"reading", "draining"}
Serving(r) == task[r] \in {"running", "asked"}
Alive == link = "ready"

\* The requests in flight are finitely many, and "nobody" is none of them.
RequestsAssumption == IsFiniteSet(Requests) /\ Nobody \notin Requests

Init ==
    /\ link = "launched" /\ agreed = NoVersion
    /\ toWorker = <<>> /\ toService = <<>> /\ half = Nobody
    /\ call = [r \in Requests |-> "new"]
    /\ charged = 0 /\ turn = Nobody
    /\ beaten = [r \in Requests |-> FALSE]
    /\ parts = [r \in Requests |-> <<>>]
    /\ task = [r \in Requests |-> "none"]
    /\ reported = [r \in Requests |-> 0]

\* One frame: its version is the one in force when it is written.
Frame(kind, r) == [kind |-> kind, req |-> r, seq |-> 0, final |-> TRUE, version |-> agreed]

-----------------------------------------------------------------------------
(* perform_service_handshake, perform_worker_handshake, await_worker_ready   *)
Hello(versions) == [kind |-> "hello", versions |-> versions]

ServiceOffers ==
    /\ link = "launched"
    /\ link' = "offered"
    /\ toWorker' = Append(toWorker, Hello(ServiceVersions))
    /\ UNCHANGED <<agreed, toService, half, service, worker>>

\* negotiate_handshake: the highest version both speak, if there is one.
Negotiated(a, b) ==
    LET common == a \cap b
    IN  IF common = {} THEN NoVersion ELSE CHOOSE v \in common : \A w \in common : w <= v

\* The worker verifies the offer before it returns its own identity.
WorkerReplies ==
    /\ link = "offered" /\ toWorker # <<>>
    /\ toWorker' = Tail(toWorker)
    /\ IF Negotiated(Head(toWorker).versions, WorkerVersions) = NoVersion
       THEN link' = "gone" /\ UNCHANGED toService
       ELSE link' = "replied" /\ toService' = Append(toService, Hello(WorkerVersions))
    /\ UNCHANGED <<agreed, half, service, worker>>

ServiceAgrees ==
    /\ link = "replied" /\ toService # <<>>
    /\ agreed' = Negotiated(ServiceVersions, Head(toService).versions)
    /\ toService' = Tail(toService)
    /\ link' = "starting"
    /\ UNCHANGED <<toWorker, half, service, worker>>

\* plugin.start returned; the slot is installed.
WorkerReady ==
    /\ link = "starting"
    /\ link' = "ready"
    /\ UNCHANGED <<agreed, channel, service, worker>>

\* A deadline of the handshake or the start-up, or the worker died in it.
StartGivenUp ==
    /\ link \in {"offered", "replied", "starting"}
    /\ link' = "gone"
    /\ UNCHANGED <<agreed, channel, service, worker>>

-----------------------------------------------------------------------------
(* force_stop: the pipe is closed and the process terminated, whoever else   *)
(* is using it.                                                              *)
ForceStop == link' = "gone"

\* Mutant: only a call that has its turn gives its charge back.
UnchargeReading(r) ==
    /\ charged' = IF call[r] = "reading" THEN charged - 1 ELSE charged
    /\ turn' = IF turn = r THEN Nobody ELSE turn

\* A call leaves WorkerBudgetEnforcer.run: the charge goes before any await.
Uncharge(r) ==
    /\ charged' = IF call[r] \in {"entered", "reading"} THEN charged - 1 ELSE charged
    /\ turn' = IF turn = r THEN Nobody ELSE turn

\* The call ends on the service's side.
Ends(r, outcome) ==
    /\ Uncharge(r)
    /\ call' = [call EXCEPT ![r] = outcome]

\* execute(): a ready worker, and WorkerBudgetEnforcer._enter.
Enter(r) ==
    /\ call[r] = "new" /\ Alive
    /\ IF charged >= MaxConcurrency
       THEN call' = [call EXCEPT ![r] = "failed"] /\ UNCHANGED charged
       ELSE call' = [call EXCEPT ![r] = "entered"] /\ charged' = charged + 1
    /\ UNCHANGED <<link, agreed, channel, turn, beaten, parts, worker>>

\* The operation's task starts, and takes its turn on the channel.
Send(r) ==
    /\ call[r] = "entered" /\ turn = Nobody
    /\ turn' = r
    /\ call' = [call EXCEPT ![r] = "reading"]
    /\ toWorker' = Append(toWorker, Frame("execute", r))
    /\ UNCHANGED <<link, agreed, toService, half, charged, beaten, parts, worker>>

\* read_frame waits for the header ...
ReadHeader(r) ==
    /\ Reading(r) /\ half = Nobody /\ toService # <<>>
    /\ half' = r
    /\ UNCHANGED <<link, agreed, toWorker, toService, service, worker>>

\* Mutant: a frame is taken whoever it names.
CorrelatedLoosely(f, r) == f.version = agreed

\* _correlated: the negotiated version, the request that is being read.
Correlated(f, r) == f.version = agreed /\ f.req = r

\* parse_result_chunk: in the order the worker sent them.
InOrder(f, r) == f.seq = Len(parts[r])

\* ... then for the body.
Body(r, f) == Reading(r) /\ half = r /\ toService # <<>> /\ f = Head(toService)

Consumed == toService' = Tail(toService) /\ half' = Nobody /\ UNCHANGED toWorker

\* read_result: a progress frame is a sign of life.
ReadProgress(r, f) ==
    /\ Body(r, f) /\ Correlated(f, r) /\ f.kind = "progress"
    /\ Consumed
    /\ beaten' = [beaten EXCEPT ![r] = (call[r] = "reading")]
    /\ UNCHANGED <<link, agreed, call, charged, turn, parts, worker>>

\* One frame of the answer; the last one is handed to the caller.
ReadResult(r, f) ==
    /\ Body(r, f) /\ Correlated(f, r) /\ f.kind = "result" /\ InOrder(f, r)
    /\ Consumed
    /\ parts' = [parts EXCEPT ![r] = Append(@, f)]
    /\ IF f.final
       THEN Ends(r, IF call[r] = "reading" THEN "answered" ELSE "cancelled")
       ELSE UNCHANGED <<call, charged, turn>>
    /\ UNCHANGED <<link, agreed, beaten, worker>>

\* The worker's own refusal: the worker stays, unless it was being drained.
ReadError(r, f) ==
    /\ Body(r, f) /\ Correlated(f, r) /\ f.kind = "error"
    /\ Consumed
    /\ IF call[r] = "reading"
       THEN Ends(r, "failed") /\ UNCHANGED link
       ELSE Ends(r, "cancelled") /\ ForceStop
    /\ UNCHANGED <<agreed, beaten, parts, worker>>

\* Anything else the reader cannot place ends the worker.
ReadRefused(r, f) ==
    /\ Body(r, f)
    /\ ~Correlated(f, r) \/ (f.kind = "result" /\ ~InOrder(f, r))
    /\ Consumed
    /\ Ends(r, IF call[r] = "reading" THEN "failed" ELSE "cancelled")
    /\ ForceStop
    /\ UNCHANGED <<agreed, beaten, parts, worker>>

\* A stream has one reader: a second one that has to wait gets an error.
ReadersCollide(r, q) ==
    /\ r # q /\ Reading(r) /\ Reading(q)
    /\ Ends(r, IF call[r] = "reading" THEN "failed" ELSE "cancelled")
    /\ ForceStop
    /\ UNCHANGED <<agreed, channel, beaten, parts, worker>>

\* The pipe is closed under the reader: the process is gone.
ReadEnds(r) ==
    /\ Reading(r) /\ link = "gone"
    /\ Ends(r, IF call[r] = "reading" THEN "failed" ELSE "cancelled")
    /\ UNCHANGED <<link, agreed, channel, beaten, parts, worker>>

-----------------------------------------------------------------------------
(* WorkerBudgetEnforcer._wait: a stretch of call_timeout_seconds is over.    *)
SilenceOver(r) ==
    /\ call[r] \in {"entered", "reading"}
    /\ IF beaten[r]
       THEN /\ beaten' = [beaten EXCEPT ![r] = FALSE]      \* heartbeat.consume()
            /\ UNCHANGED <<link, call, charged, turn>>
       ELSE Ends(r, "failed") /\ ForceStop /\ UNCHANGED beaten
    /\ UNCHANGED <<agreed, channel, parts, worker>>

\* Mutant: the cancelled call does not wait for the worker's answer.
CancelledUndrained(r) ==
    /\ call[r] \in {"entered", "reading"}
    /\ Ends(r, "cancelled")
    /\ half' = Nobody
    /\ toWorker' = Append(toWorker, Frame("cancel", r))
    /\ UNCHANGED <<link, agreed, toService, beaten, parts, worker>>

\* The job is cancelled: its task gives the channel back, then cancel_request
\* tells the worker and reads until the worker's last frame of the request.
\* What a body that was half read leaves is not a header.
Cancelled(r) ==
    /\ call[r] \in {"entered", "reading"}
    /\ Uncharge(r)
    /\ parts' = [parts EXCEPT ![r] = <<>>]
    /\ IF half = r
       THEN call' = [call EXCEPT ![r] = "cancelled"] /\ ForceStop
       ELSE call' = [call EXCEPT ![r] = "draining"] /\ UNCHANGED link
    /\ toWorker' = Append(toWorker, Frame("cancel", r))
    /\ UNCHANGED <<agreed, toService, half, beaten, worker>>

\* cancel_timeout, or a second cancellation while it drains.
DrainGivenUp(r) ==
    /\ call[r] = "draining"
    /\ Ends(r, "cancelled") /\ ForceStop
    /\ UNCHANGED <<agreed, channel, beaten, parts, worker>>

\* stop_process: the worker is asked to leave, the pipe closed.
StopProcess ==
    /\ Alive
    /\ toWorker' = Append(toWorker, Frame("cancel", Nobody))
    /\ ForceStop
    /\ UNCHANGED <<agreed, toService, half, service, worker>>

-----------------------------------------------------------------------------
(* serve_worker_requests                                                     *)
Says(frames) == toService' = toService \o frames /\ UNCHANGED half

\* _handle_request_frame: execute.  A request that is active is refused.
WorkerExecutes ==
    /\ Alive /\ toWorker # <<>> /\ Head(toWorker).kind = "execute"
    /\ toWorker' = Tail(toWorker)
    /\ LET f == Head(toWorker)
       IN  IF f.version # agreed \/ Serving(f.req)
           THEN Says(<<Frame("error", f.req)>>) /\ UNCHANGED task
           ELSE task' = [task EXCEPT ![f.req] = "running"] /\ UNCHANGED <<toService, half>>
    /\ UNCHANGED <<link, agreed, service, reported>>

\* A cancel sets the token and arms the grace timer; late ones find nothing.
WorkerCancels ==
    /\ Alive /\ toWorker # <<>> /\ Head(toWorker).kind = "cancel"
    /\ toWorker' = Tail(toWorker)
    /\ LET r == Head(toWorker).req
       IN  task' = IF r \in Requests /\ task[r] = "running"
                   THEN [task EXCEPT ![r] = "asked"] ELSE task
    /\ UNCHANGED <<link, agreed, toService, half, service, reported>>

\* _WorkerProgress.report
WorkerReports(r) ==
    /\ Alive /\ Serving(r) /\ reported[r] < MaxProgress
    /\ reported' = [reported EXCEPT ![r] = @ + 1]
    /\ Says(<<Frame("progress", r)>>)
    /\ UNCHANGED <<link, agreed, toWorker, service, task>>

\* result_frames: one frame, or the chunks of one that does not fit.
ResultFrames(r, n) ==
    [k \in 1 .. n |-> [Frame("result", r) EXCEPT !.seq = k - 1, !.final = (k = n)]]

\* _execute_request: the plugin returned.
WorkerFinishes(r, n) ==
    /\ Alive /\ Serving(r)
    /\ task' = [task EXCEPT ![r] = "done"]
    /\ Says(ResultFrames(r, n))
    /\ UNCHANGED <<link, agreed, toWorker, service, reported>>

\* It raised.
WorkerFails(r) ==
    /\ Alive /\ Serving(r)
    /\ task' = [task EXCEPT ![r] = "done"]
    /\ Says(<<Frame("error", r)>>)
    /\ UNCHANGED <<link, agreed, toWorker, service, reported>>

\* _cancel_after_grace: the task is cancelled and answers "cancelled".
GraceOver(r) ==
    /\ Alive /\ task[r] = "asked"
    /\ task' = [task EXCEPT ![r] = "done"]
    /\ Says(ResultFrames(r, 1))
    /\ UNCHANGED <<link, agreed, toWorker, service, reported>>

WorkerDies ==
    /\ Alive
    /\ link' = "gone"
    /\ UNCHANGED <<agreed, channel, service, worker>>

Next ==
    \/ ServiceOffers \/ WorkerReplies \/ ServiceAgrees \/ WorkerReady \/ StartGivenUp
    \/ \E r \in Requests :
           \/ Enter(r) \/ Send(r) \/ ReadHeader(r)
           \/ toService # <<>> /\ LET f == Head(toService) IN
                  ReadProgress(r, f) \/ ReadResult(r, f) \/ ReadError(r, f) \/ ReadRefused(r, f)
           \/ \E q \in Requests : ReadersCollide(r, q)
           \/ ReadEnds(r) \/ SilenceOver(r) \/ Cancelled(r) \/ DrainGivenUp(r)
           \/ WorkerReports(r) \/ WorkerFails(r) \/ GraceOver(r)
           \/ \E n \in 1 .. MaxChunks : WorkerFinishes(r, n)
    \/ WorkerExecutes \/ WorkerCancels \/ WorkerDies \/ StopProcess

Spec == Init /\ [][Next]_channelVars

-----------------------------------------------------------------------------
(* An answer handed to a caller is the whole of one answer the worker gave   *)
(* to that request: its own frames, every one of them, in order.             *)
AnswerIsOwn ==
    \A r \in Requests :
        call[r] = "answered" =>
            /\ \A k \in DOMAIN parts[r] : parts[r][k].req = r /\ parts[r][k].seq = k - 1
            /\ parts[r] # <<>> /\ parts[r][Len(parts[r])].final

(* A worker that is kept when no call is in progress owes nothing: nothing   *)
(* of an earlier request is in its pipes or still runs in it, so the next    *)
(* call does not meet what an earlier one left.                              *)
KeptWorkerIsClean ==
    Alive /\ (\A r \in Requests : call[r] \in {"new", "answered", "failed", "cancelled"}) =>
        /\ toService = <<>> /\ half = Nobody
        /\ \A r \in Requests : ~Serving(r)

(* The concurrency budget is charged for exactly the calls that run, however *)
(* they end: none is locked out by a charge nobody gives back.               *)
ChargeReturned ==
    charged = Cardinality({r \in Requests : call[r] \in {"entered", "reading"}})

\* One pipe carries many calls without mixing them: an answer is the caller's own, a worker kept
\* after a cancellation has nothing of the cancelled call on the pipe, and the place a call was
\* charged comes back (invoke, cancel_request, the concurrency charge).
ChannelSound == AnswerIsOwn /\ KeptWorkerIsClean /\ ChargeReturned

=============================================================================
