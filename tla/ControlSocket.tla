--------------------------- MODULE ControlSocket ----------------------------
(***************************************************************************)
(* The control socket: how one of several service processes comes to serve *)
(* the socket path (socket_transport.py start, stop), and what becomes of  *)
(* a call from a client (call_control) through the frame, the request      *)
(* schema, the caller's identity (callers.py) and the quota of its method  *)
(* (guard.py, runtime_api.py) to the request codec (job_codec.py) and back.*)
(***************************************************************************)
EXTENDS Integers, Sequences, SequencesExt, FiniteSets, FiniteSetsExt, TLC

CONSTANTS
    Services,       \* processes that try to serve the path
    Clients,        \* client processes, one call each at a time
    OwnerOf,        \* by client: the owner token of its uid
    MaxCalls,       \* MethodQuota.max_calls
    MaxConcurrent,  \* MethodQuota.max_concurrent
    MaxTracked,     \* DEFAULT_MAX_TRACKED_CALLERS
    MaxRequests,    \* bound: calls of the clients
    MaxStops        \* bound: stops, kills and failures of services

\* What a request can be, in the order in which it is found out.
RequestKinds == {"not-a-frame", "off-schema", "no-such-method", "over-quota-bytes",
                 "asserts-identity", "over-codec-bytes", "breaks-contract", "fails", "huge-answer",
                 "good"}

VARIABLES
    stage,      \* by service: where start or stop is
    lockOwner,  \* who holds the flock beside the socket
    bound,      \* by service: SocketControlTransport._bound
    path,       \* the service whose socket the path names, "none", or "older": an
                \* instance that runs without the lock
    listening,  \* services whose server accepts
    call,       \* by client: its call
    windows,    \* the tracked windows of the serving process, oldest first
    tally,      \* by window: its recent calls and the calls in flight
    requests, stops

socketVars == <<stage, lockOwner, bound, path, listening>>
callVars == <<call, windows, tally, requests>>
controlVars == <<socketVars, callVars, stops>>

\* The processes are named, and "none" and "older" are none of them; the clients
\* are finitely many.
ProcessesAssumption ==
    IsFiniteSet(Clients) /\ Services \cap {"none", "older"} = {} /\ MaxConcurrent \in Nat

NoCall == [at |-> "idle", server |-> "none", kind |-> "good", window |-> 0, answer |-> "none",
           performed |-> FALSE]

Init ==
    /\ stage = [s \in Services |-> "off"] /\ lockOwner = "none"
    /\ bound = [s \in Services |-> FALSE]
    /\ \/ path = "none" /\ listening = {}
       \/ path = "older" /\ listening = {"older"}
    /\ call = [c \in Clients |-> NoCall]
    /\ windows = <<>> /\ tally = <<>>
    /\ requests = 0 /\ stops = 0

-----------------------------------------------------------------------------
(* start.                                                                    *)

\* The lock is taken, or another instance runs.
StartLocks(s) ==
    /\ stage[s] = "off" /\ lockOwner = "none"
    /\ lockOwner' = s /\ stage' = [stage EXCEPT ![s] = "probing"]
    /\ UNCHANGED <<bound, path, listening, callVars, stops>>

\* _is_served: somebody answers on the path; else the old path is removed.
StartProbes(s) ==
    /\ stage[s] = "probing"
    /\ IF path \in listening
       THEN /\ lockOwner' = "none" /\ stage' = [stage EXCEPT ![s] = "off"]
            /\ UNCHANGED path
       ELSE /\ path' = "none" /\ stage' = [stage EXCEPT ![s] = "binding"]
            /\ UNCHANGED lockOwner
    /\ UNCHANGED <<bound, listening, callVars, stops>>

\* start_unix_server.
StartBinds(s) ==
    /\ stage[s] = "binding"
    /\ path' = s /\ listening' = listening \cup {s}
    /\ bound' = [bound EXCEPT ![s] = TRUE]
    /\ stage' = [stage EXCEPT ![s] = "serving"]
    /\ UNCHANGED <<lockOwner, callVars, stops>>

\* Binding fails, or start is cancelled: OmniTensorService.run stops the transport.
StartFails(s) ==
    /\ stops < MaxStops /\ stops' = stops + 1
    /\ stage[s] \in {"probing", "binding"}
    /\ stage' = [stage EXCEPT ![s] = "unbinding"]
    /\ UNCHANGED <<lockOwner, bound, path, listening, callVars>>

\* The connections of a server are closed; a handler that runs goes on until
\* its process is gone.
Dropped(s, gone) ==
    [c \in Clients |->
        IF call[c].server # s THEN call[c]
        ELSE IF call[c].at = "running" /\ ~gone THEN [call[c] EXCEPT !.answer = "connection-closed"]
        ELSE NoCall]

\* stop: the server is closed and its connections with it ...
StopCloses(s) ==
    /\ stops < MaxStops /\ stops' = stops + 1
    /\ stage[s] = "serving"
    /\ listening' = listening \ {s}
    /\ stage' = [stage EXCEPT ![s] = "unbinding"]
    /\ call' = Dropped(s, FALSE)
    /\ UNCHANGED <<lockOwner, bound, path, windows, tally, requests>>

\* The process is gone, and its calls and windows with it.
Ends(s) ==
    /\ stage' = [stage EXCEPT ![s] = "off"]
    /\ call' = Dropped(s, TRUE)
    /\ windows' = <<>> /\ tally' = <<>>

\* Mutant: the lock is given back before the path is removed.
StopUnbindsUnlocked(s) ==
    /\ stage[s] = "unbinding"
    /\ IF lockOwner = s
       THEN lockOwner' = "none" /\ UNCHANGED <<bound, path, stage, call, windows, tally>>
       ELSE /\ bound' = [bound EXCEPT ![s] = FALSE]
            /\ path' = IF bound[s] THEN "none" ELSE path
            /\ Ends(s)
            /\ UNCHANGED lockOwner
    /\ UNCHANGED <<listening, requests, stops>>

\* ... and when it has closed, what it bound is removed, and last the lock is
\* given back and the process ends, with the handlers that still ran.
StopUnbinds(s) ==
    /\ stage[s] = "unbinding"
    /\ IF bound[s]
       THEN /\ bound' = [bound EXCEPT ![s] = FALSE] /\ path' = "none"
            /\ UNCHANGED <<lockOwner, stage>>
            /\ UNCHANGED <<call, windows, tally>>
       ELSE /\ lockOwner' = "none" /\ Ends(s)
            /\ UNCHANGED <<bound, path>>
    /\ UNCHANGED <<listening, requests, stops>>

\* The process is killed: the kernel gives its lock back, the path stays.
Killed(s) ==
    /\ stops < MaxStops /\ stops' = stops + 1
    /\ stage[s] # "off"
    /\ Ends(s) /\ bound' = [bound EXCEPT ![s] = FALSE]
    /\ listening' = listening \ {s}
    /\ lockOwner' = IF lockOwner = s THEN "none" ELSE lockOwner
    /\ UNCHANGED <<path, requests>>

-----------------------------------------------------------------------------
(* A call.                                                                   *)

\* call_control connects and sends (when nobody listens it fails).
Send(c, kind) ==
    /\ call[c].at = "idle" /\ requests < MaxRequests /\ path \in listening \cap Services
    /\ requests' = requests + 1
    /\ call' = [call EXCEPT ![c] = [@ EXCEPT !.at = "sent", !.server = path, !.kind = kind]]
    /\ UNCHANGED <<socketVars, windows, tally, stops>>

Answered(c, code, performed) ==
    [call EXCEPT ![c] = [NoCall EXCEPT !.at = "replied", !.server = call[c].server,
                                       !.answer = code, !.performed = performed]]

\* read_frame, the request schema, the method: refused before any quota.
RefusalBefore(kind) ==
    CASE kind = "not-a-frame" -> "connection-closed"
      [] kind = "off-schema" -> "request-invalid"
      [] kind = "no-such-method" -> "method-unknown"
      [] OTHER -> "none"

\* _check_payload: bytes, and an identity the caller asserts for itself.
PayloadRefusal(kind) ==
    CASE kind = "over-quota-bytes" -> "payload-too-large"
      [] kind = "asserts-identity" -> "identity-asserted"
      [] OTHER -> "none"

\* ControlGuard._window: the owner's window or a new one, now the youngest; the
\* oldest is forgotten when there are too many.
TrackedOf(owner) == {i \in DOMAIN windows : windows[i].owner = owner}
Position(owner) == CHOOSE i \in TrackedOf(owner) : TRUE
WindowId(owner) ==
    IF TrackedOf(owner) = {} THEN Len(tally) + 1 ELSE windows[Position(owner)].id
Touched(owner) ==
    LET others == IF TrackedOf(owner) = {} THEN windows ELSE RemoveAt(windows, Position(owner))
        all == Append(others, [owner |-> owner, id |-> WindowId(owner)])
    IN  IF Len(all) > MaxTracked THEN Tail(all) ELSE all
WithWindow(owner) ==
    IF TrackedOf(owner) = {} THEN Append(tally, [calls |-> 0, inFlight |-> 0]) ELSE tally

\* ControlGuard.admit's limits.
LimitRefusal(t) ==
    IF t.calls >= MaxCalls THEN "rate-limit-exceeded"
    ELSE IF t.inFlight >= MaxConcurrent THEN "concurrency-limit-exceeded" ELSE "none"

\* The handler runs with the quota held: the codec first, then what was asked.
Handle(c) ==
    LET kind == call[c].kind
        owner == OwnerOf[c]
        early == IF RefusalBefore(kind) # "none" THEN RefusalBefore(kind) ELSE PayloadRefusal(kind)
        id == WindowId(owner)
        limit == LimitRefusal(WithWindow(owner)[id])
    IN  /\ call[c].at = "sent"
        /\ IF early # "none"
           THEN call' = Answered(c, early, FALSE) /\ UNCHANGED <<windows, tally>>
           ELSE /\ windows' = Touched(owner)
                /\ IF limit # "none"
                   THEN call' = Answered(c, limit, FALSE) /\ tally' = WithWindow(owner)
                   ELSE /\ call' = [call EXCEPT ![c] = [@ EXCEPT !.at = "running", !.window = id]]
                        /\ tally' = [WithWindow(owner) EXCEPT
                                        ![id] = [calls |-> @.calls + 1, inFlight |-> @.inFlight + 1]]
        /\ UNCHANGED <<socketVars, requests, stops>>

\* Mutant: the call is released by its owner's name.
ReleaseAdmittedByName(c) == WindowId(OwnerOf[c])

\* release_admitted: the window that admitted the call.
ReleaseAdmitted(c) == call[c].window

\* _parse_request: what the codec refuses has no effect.
CodecRefusal(kind) ==
    CASE kind = "over-codec-bytes" -> "request-too-large"
      [] kind = "breaks-contract" -> "invalid-request"
      [] OTHER -> "none"

\* _encoded_reply: an answer no frame can carry is replaced, not the effect.
ReplyOf(kind) ==
    CASE CodecRefusal(kind) # "none" -> CodecRefusal(kind)
      [] kind = "fails" -> "internal-error"
      [] kind = "huge-answer" -> "result-too-large"
      [] OTHER -> "result"

\* What was asked is done, whatever the reply then says.
Performed(kind) == kind \in {"good", "huge-answer"}

\* The call ends, guarded.__exit__ runs; its effect is there even if the client
\* has gone.
Finish(c) ==
    /\ call[c].at = "running"
    /\ LET w == ReleaseAdmitted(c)
       IN  tally' = IF w \in DOMAIN tally /\ tally[w].inFlight > 0
                    THEN [tally EXCEPT ![w].inFlight = @ - 1] ELSE tally
    /\ IF call[c].answer = "none"
       THEN call' = Answered(c, ReplyOf(call[c].kind), Performed(call[c].kind))
       ELSE call' = [call EXCEPT ![c] = NoCall]
    /\ UNCHANGED <<socketVars, windows, requests, stops>>

\* The client reads its reply (a refusal before the frame was read is a close).
Receive(c) ==
    /\ call[c].at = "replied"
    /\ call' = [call EXCEPT ![c] = NoCall]
    /\ UNCHANGED <<socketVars, windows, tally, requests, stops>>

\* call_control's timeout: the client leaves, the server goes on.
ClientTimesOut(c) ==
    /\ call[c].at = "running" /\ call[c].answer = "none"
    /\ call' = [call EXCEPT ![c].answer = "timeout"]
    /\ UNCHANGED <<socketVars, windows, tally, requests, stops>>

\* _expire: the calls of a window grow old.
WindowAges ==
    /\ \E id \in DOMAIN tally : tally[id].calls > 0
    /\ tally' = [id \in DOMAIN tally |-> [tally[id] EXCEPT !.calls = 0]]
    /\ UNCHANGED <<socketVars, call, windows, requests, stops>>

\* A bound on the inputs: the first request is of any kind, a later one reaches a handler.
RequestsAfter(n) == IF n = 0 THEN RequestKinds ELSE {"good", "fails"}

Next ==
    \/ \E s \in Services :
          StartLocks(s) \/ StartProbes(s) \/ StartBinds(s) \/ StartFails(s)
          \/ StopCloses(s) \/ StopUnbinds(s) \/ Killed(s)
    \/ \E c \in Clients :
          \/ \E kind \in RequestsAfter(requests) : Send(c, kind)
          \/ Handle(c) \/ Finish(c) \/ Receive(c) \/ ClientTimesOut(c)
    \/ WindowAges

Spec == Init /\ [][Next]_controlVars

-----------------------------------------------------------------------------
\* One service serves, and it is the one clients reach (start, stop): whatever
\* starts, fails, stops or is killed in between, no process removes the socket
\* another one bound, and no two serve at once.
ReachableServer ==
    \A s \in Services : stage[s] = "serving" =>
        /\ path = s /\ lockOwner = s
        /\ \A t \in Services : stage[t] = "serving" => t = s

RunningOn(id) == {c \in Clients : call[c].at = "running" /\ call[c].window = id}

\* The quota counts the calls that run (ControlGuard.admit, release_admitted): a
\* tracked window has exactly its own calls in flight, also after another window
\* of the same owner was forgotten with calls of its own; so an owner never has
\* more calls at once than the quota, but for those; and nothing that was
\* refused has an effect.
QuotaIsTrue ==
    /\ \A i \in DOMAIN windows :
          tally[windows[i].id].inFlight = Cardinality(RunningOn(windows[i].id))
    /\ \A id \in DOMAIN tally : Cardinality(RunningOn(id)) <= MaxConcurrent
    /\ \A c \in Clients : call[c].performed => call[c].answer \in {"result", "result-too-large"}

\* Clients reach the one service that serves, and the calls in flight a quota counts are the calls
\* that run (SocketControlTransport, ControlGuard).
SocketSound == ReachableServer /\ QuotaIsTrue

=============================================================================
