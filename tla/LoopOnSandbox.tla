--------------------------- MODULE LoopOnSandbox ---------------------------
(***************************************************************************)
(* The decision loop (AgentLoop) working on the Sandbox API (SandboxApi):  *)
(* what execute_api_request and inspect_server_logs                        *)
(* (src/agent_service/tools) make of the server's answers, and what they   *)
(* leave behind.                                                           *)
(*                                                                         *)
(* Every attempt of an HTTP call is a request of its own; the k-th one the *)
(* session sends is request k.  Client and server share nothing but the  *)
(* connection: a client that gives up (its timeout, the session's        *)
(* deadline, a cancellation, a broken connection) does not stop the      *)
(* server, which may receive the request, commit its order and answer it *)
(* afterwards, or die.  Other clients use the same database, and the logs *)
(* may be inspected for any request id: one of the session's own, one the *)
(* user's report quotes, or one the server never gave out.               *)
(*                                                                         *)
(* Abstracted further: inspect_api_spec and                                *)
(* inspect_endpoint_implementation, which leave nothing behind.            *)
(***************************************************************************)
EXTENDS AgentLoop

CONSTANTS
  Slots,           \* request numbers of the session: 1..n, the ids they are given
  Others,          \* requests of other clients
  OperationOf,     \* what an HTTP call asks the Sandbox API for
  InspectedId,     \* the request id whose logs a call of inspect_server_logs asks for
  Products, Stocked, Unknown, SilentUnknown, Quantities, Requested, InitialStock

ASSUME CompositionAssumption ==
  /\ Slots = 1..MaxToolCalls
  /\ Slots \cup Others \subseteq RequestIds
  /\ Others \cap Slots = {}
  /\ DOMAIN OperationOf = {c \in Calls : ToolName[c] \in HttpTools}
  /\ InspectedId \in [{c \in Calls : ToolName[c] \notin HttpTools} -> RequestIds]

VARIABLES
  stock, orders, payments, uncommitted, logs, writer, at, op, row, result, reply,
  supplied,
  sent    \* the HTTP calls sent, in order: sent[k] went out as request k

Sandbox == INSTANCE SandboxApi WITH
  Requests <- Slots \cup Others,
  None <- NoCall,
  answer <- reply

sandbox == <<stock, orders, payments, uncommitted, logs, writer, at, op, row, result, reply,
             supplied>>

\* What the server is told of: requests of the session and of others, which ask for
\* what the Sandbox API offers.
ASSUME ServerAssumption ==
  /\ Stocked \subseteq Products
  /\ {Unknown, SilentUnknown} \cap Products = {}
  /\ Quantities \subseteq Nat \ {0}
  /\ InitialStock \in [Stocked -> Nat]
  /\ NoCall \notin Slots \cup Others /\ NoCall # 201
  /\ Requested \subseteq Sandbox!Operations

OverHttp(c) == ToolName[c] \in HttpTools

SandboxInit == Init /\ Sandbox!Init /\ sent = <<>>

-----------------------------------------------------------------------------
(* The client *)

\* A call is on the wire as soon as its tool is awaited.
Sends(c) == sent' = IF OverHttp(c) THEN Append(sent, c) ELSE sent

\* execute_api_request: whatever status the server answers is an observation, with the
\* id of the response's header; a timeout or a broken connection may happen at any time.
HttpResults(k) ==
  LET tool == ToolName[sent[k]]
  IN  {Failure(tool, "TOOL_TIMEOUT"), Failure(tool, "TOOL_ERROR")}
        \cup {o \in [tool : {tool}, outcome : {"OK"}, request_id : {k, NoId}] :
                /\ at[k] = "answered"
                /\ o.request_id = IF reply[k].request_id THEN k ELSE NoId}

\* inspect_server_logs takes any UUID, whoever's request it is: LOG_NOT_FOUND without
\* rows, and TOOL_DATABASE_ERROR at any time.
LogResults(c) ==
  LET tool == ToolName[c]
      id == InspectedId[c]
  IN  {Failure(tool, "TOOL_ERROR")}
        \cup {o \in [tool : {tool}, outcome : {"OK"}, request_id : {id}] :
                id \in DOMAIN logs /\ logs[id] # <<>>}

ToolResults(c) == IF OverHttp(c) THEN HttpResults(Len(sent)) ELSE LogResults(c)

MakeCall(r) == Dispatch(r) /\ Sends(Normal[r])

TakeResult ==
  /\ pending_call # NoCall
  /\ \E o \in ToolResults(pending_call) :
       \/ RecordResult(o) /\ UNCHANGED sent
       \/ RetryTimeout(o) /\ Sends(pending_call)

WithoutCall ==
  /\ \/ Local
     \/ \E a \in Answers : AcceptFinalAnswer(a)
     \/ ProviderFails
     \/ \E r \in Requests : RejectRequest(r) \/ RefuseOverBudget(r) \/ RefuseIdentical(r)
     \/ RaiseTimeoutError
     \/ RaiseException
     \/ TimerFires
     \/ Cancel
  /\ UNCHANGED sent

Client ==
  /\ (\E r \in Requests : MakeCall(r)) \/ TakeResult \/ WithoutCall
  /\ UNCHANGED sandbox

-----------------------------------------------------------------------------
(* The server, which hears of the session's requests only *)

OnTheWire == Others \cup 1..Len(sent)

Server ==
  /\ \/ \E k \in 1..Len(sent) : Sandbox!Receive(k) /\ op'[k] = OperationOf[sent[k]]
     \/ \E k \in Others : Sandbox!Receive(k)
     \/ \E k \in OnTheWire :
          Sandbox!Handle(k) \/ Sandbox!Answer(k) \/ Sandbox!LogFails(k)
     \/ Sandbox!Crash
  /\ UNCHANGED <<vars, sent>>

SandboxNext == Client \/ Server

SandboxSpec == SandboxInit /\ [][SandboxNext]_<<vars, sandbox, sent>>

-----------------------------------------------------------------------------
(* Properties *)

\* The calls that go over HTTP.
HttpCalls == {c \in Calls : OverHttp(c)}

\* The results of the HTTP attempts, in order: the k-th is that of request k.
HttpObservations == Selected(observations, {o \in OfTools : o.tool \in HttpTools})

Told(k) ==
  /\ k <= Len(HttpObservations)
  /\ HttpObservations[k].outcome = "OK"

Ordered(k) == \E i \in 1..Len(orders) : orders[i].by = k

\* What a session leaves behind is what its history accounts for: every request that
\* went out is a call of the history, in order; one that the session saw answered 201
\* has its order; an order it did not see belongs to an attempt it knows it lost (timed
\* out, cut off or disconnected) or that was answered without an id; and there are no
\* more orders than decisions and timeouts, so that a duplicate is a retried timeout's
\* (loop.py 292-334, whose retry does not ask whether the call was a POST).
EffectsAccountedFor ==
  /\ sent = Selected(CallsMade, HttpCalls)
  /\ \A k \in 1..Len(sent) :
       Told(k) /\ OperationOf[sent[k]].kind = "create_order" =>
         IF reply[k].request_id THEN Ordered(k) <=> reply[k].status = 201
         ELSE reply[k].status = 500
  /\ Cardinality({k \in Slots : Ordered(k)}) <= step_count + TimeoutsSeen

\* The session has the id from the answer to its own request.
SeenAnswered(id) ==
  /\ id \in 1..Len(HttpObservations)
  /\ HttpObservations[id].outcome = "OK"
  /\ HttpObservations[id].request_id = id

\* The results of the calls, in order: the i-th is that of call i of the history.
ToolObservations == Selected(observations, OfTools)

\* The session has the id from its own request to see the logs.
LookedUp(id) ==
  \E i \in 1..Len(tool_history) :
    /\ ~OverHttp(tool_history[i])
    /\ InspectedId[tool_history[i]] = id
    /\ ToolObservations[i].outcome = "OK"

LoggedStatuses(id) == [i \in 1..Len(logs[id]) |-> logs[id][i].status_code]

\* A request id in the session's state leads to evidence.  It is that of a request of its
\* own which the session saw answered, or one it looked up, such as an id quoted in the
\* user's report.  Either way the server knows the request, whosever it is: the logs hold
\* the status it was answered with, and of a request not answered under this id (yet, or
\* ever) that it arrived.  For an answer the session saw, they hold the whole of it
\* (state.py 43-44, dispatch.py 327-336, main.py 41-78).
EvidenceOnRecord ==
  \A id \in Kept(request_ids) :
    /\ SeenAnswered(id) \/ LookedUp(id)
    /\ id \in Slots \cup Others
    /\ LoggedStatuses(id) = IF at[id] = "answered" /\ reply[id].request_id
                             THEN <<NoCall, reply[id].status>>
                             ELSE <<NoCall>>
    /\ SeenAnswered(id) => at[id] = "answered" /\ reply[id].request_id
=============================================================================
