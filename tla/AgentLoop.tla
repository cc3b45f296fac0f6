----------------------------- MODULE AgentLoop -----------------------------
(***************************************************************************)
(* The bounded decision loop of one debug session                          *)
(* (src/agent_service/agent/loop.py, state.py and the admission part of    *)
(* dispatch.py).                                                           *)
(*                                                                         *)
(* The loop is one asyncio task.  It is suspended at two places only: while *)
(* the decision provider works (pc = "deciding") and while a tool works    *)
(* (pc = "calling").  Everything between two suspensions is atomic, and the *)
(* session timer and an external cancellation can act only at them.  The   *)
(* provider and the tools are the environment: they answer what they like, *)
(* or never.                                                               *)
(*                                                                         *)
(* Abstracted: the wording of messages, tracing spans and logging, the     *)
(* contents of arguments, data and diagnoses.                              *)
(***************************************************************************)
EXTENDS Naturals, Sequences, FiniteSets, SequenceFolds

CONSTANTS
  Requests,        \* tool calls a provider may ask for: a name with arguments
  Normal,          \* [Requests -> Requests \cup {Rejected}]: what validation makes of each
  ToolName,        \* [Requests -> Tools]
  Tools,           \* the tool names a request can carry
  HttpTools,       \* the tools that go over HTTP, hence may time out on their own
  Rejected,        \* an unregistered tool or arguments its model refuses
  NoCall,          \* the None of pending_call
  RequestIds,      \* the x-request-id values responses may carry
  NoId,            \* an observation without one
  Answers,         \* the statuses of a provider's final diagnosis
  MaxDecisions,    \* AgentLimits.max_agent_decisions
  MaxToolCalls,    \* AgentLimits.max_tool_calls
  MaxIdentical     \* AgentLimits.max_identical_tool_calls

\* What the validated models (PositiveInt limits, Pydantic arguments) promise:
\* a normal form validates to itself and keeps its tool.
ASSUME LimitsAssumption ==
  /\ MaxDecisions \in Nat \ {0}
  /\ MaxToolCalls \in Nat \ {0}
  /\ MaxIdentical \in Nat \ {0}

ASSUME RequestsAssumption ==
  /\ Rejected \notin Requests
  /\ NoCall \notin Requests
  /\ NoId \notin RequestIds
  /\ HttpTools \subseteq Tools
  /\ Normal \in [Requests -> Requests \cup {Rejected}]
  /\ ToolName \in [Requests -> Tools]
  /\ \A r \in Requests : Normal[r] # Rejected =>
        /\ Normal[Normal[r]] = Normal[r]
        /\ ToolName[Normal[r]] = ToolName[r]

\* LIMIT_REACHED is the application's own status: the schema offered to the model has
\* only the other three.
ASSUME AnswersAssumption == {"NONE", "LIMIT_REACHED"} \cap Answers = {}

\* The normalised records, the only ones that are executed and counted.
Calls == {r \in Requests : Normal[r] = r}

VARIABLES
  pc,               \* where the task is: "loop", "deciding", "calling" or how it ended
  step_count,       \* DebugSessionState.step_count
  tool_call_count,  \* DebugSessionState.tool_call_count
  tool_history,     \* DebugSessionState.tool_history
  observations,     \* DebugSessionState.observations
  request_ids,      \* DebugSessionState.request_ids
  status,           \* DebugSessionState.status
  pending_call,     \* the call in flight, or NoCall
  attempt,          \* the index of `for attempt in range(2)`
  expired,          \* asyncio.timeout has fired and requested the task's cancellation
  cancelled,        \* somebody else has requested it
  diagnosis         \* what the run returned

session == <<step_count, tool_call_count, tool_history, observations,
             request_ids, status>>
vars == <<pc, session, pending_call, attempt, expired, cancelled, diagnosis>>

-----------------------------------------------------------------------------
(* Values *)

LoopErrors == {"TOOL_CALL_LIMIT_REACHED", "IDENTICAL_TOOL_CALL_LIMIT_REACHED",
               "SESSION_TIMEOUT"}

\* "TOOL_ERROR" stands for every typed tool failure but TOOL_TIMEOUT, "REJECTED"
\* for the two dispatch errors, "PROVIDER_ERROR" for every DecisionProviderError.
Outcomes == {"OK", "TOOL_TIMEOUT", "TOOL_ERROR", "REJECTED", "PROVIDER_ERROR"}
              \cup LoopErrors

Provider == "decision_provider"

Observation == [tool : Tools \cup {Provider}, outcome : Outcomes,
                request_id : RequestIds \cup {NoId}]

Failure(tool, error) == [tool |-> tool, outcome |-> error, request_id |-> NoId]

\* What the executor of call c may return.  A failed result carries no request id.
Results(c) ==
  LET t == ToolName[c]
  IN  [tool : {t}, outcome : {"OK"}, request_id : RequestIds \cup {NoId}]
        \cup {Failure(t, "TOOL_ERROR")}
        \cup (IF t \in HttpTools THEN {Failure(t, "TOOL_TIMEOUT")} ELSE {})

NoDiagnosis == [status |-> "NONE"]

Succeeded(o) == o.outcome = "OK"

\* One evidence item per successful observation, in order.
CollectedEvidence(obs) ==
  LET found == SelectSeq(obs, Succeeded)
  IN  [i \in 1..Len(found) |->
         [source |-> found[i].tool, reference |-> found[i].request_id]]

LimitReached(reason, obs) ==
  [status |-> "LIMIT_REACHED", missing_evidence |-> reason,
   evidence |-> CollectedEvidence(obs)]

-----------------------------------------------------------------------------
(* DebugSessionState's methods, as relations on its fields *)

IdenticalCalls(c, history) ==
  Cardinality({i \in 1..Len(history) : history[i] = c})

CallBudgetSpent(count) == count >= MaxToolCalls
IdenticalBudgetSpent(c, history) == IdenticalCalls(c, history) >= MaxIdentical

RecordDecision == step_count' = step_count + 1

RecordFeedback(o) ==
  /\ observations' = Append(observations, o)
  /\ UNCHANGED <<tool_call_count, tool_history, request_ids>>

Known(id) == \E i \in 1..Len(request_ids) : request_ids[i] = id

\* Faulty variants of operators carry the suffix of what they get wrong; the runs
\* must notice each of them.
RecordToolResult_WithoutIdTest(c, o) ==
  /\ tool_call_count' = tool_call_count + 1
  /\ tool_history' = Append(tool_history, c)
  /\ observations' = Append(observations, o)
  /\ request_ids' = IF Known(o.request_id) THEN request_ids
                    ELSE Append(request_ids, o.request_id)

RecordToolResult(c, o) ==
  /\ tool_call_count' = tool_call_count + 1
  /\ tool_history' = Append(tool_history, c)
  /\ observations' = Append(observations, o)
  /\ request_ids' = IF o.request_id = NoId \/ Known(o.request_id)
                    THEN request_ids
                    ELSE Append(request_ids, o.request_id)

\* mark_completed, with the return statement that follows it everywhere.
Return(d) ==
  /\ pc' = "returned"
  /\ status' = "COMPLETED"
  /\ diagnosis' = d

-----------------------------------------------------------------------------
Init ==
  /\ pc = "loop"
  /\ step_count = 0
  /\ tool_call_count = 0
  /\ tool_history = <<>>
  /\ observations = <<>>
  /\ request_ids = <<>>
  /\ status = "RUNNING"
  /\ pending_call = NoCall
  /\ attempt = 0
  /\ expired = FALSE
  /\ cancelled = FALSE
  /\ diagnosis = NoDiagnosis

Suspended == pc \in {"deciding", "calling"}
Interrupted == expired \/ cancelled

-----------------------------------------------------------------------------
(* The head of the while loop *)

StartDecision ==
  /\ pc = "loop"
  /\ step_count < MaxDecisions
  /\ pc' = "deciding"
  /\ UNCHANGED <<session, pending_call, attempt, expired, cancelled, diagnosis>>

ReachDecisionLimit ==
  /\ pc = "loop"
  /\ step_count >= MaxDecisions
  /\ Return(LimitReached("DECISION_LIMIT", observations))
  /\ UNCHANGED <<step_count, tool_call_count, tool_history, observations,
                 request_ids, pending_call, attempt, expired, cancelled>>

-----------------------------------------------------------------------------
(* The provider's answer reaches a task nobody has interrupted.  An answer   *)
(* that arrives after the cancellation was requested is lost.                *)

DecisionArrives ==
  /\ pc = "deciding"
  /\ ~Interrupted
  /\ UNCHANGED <<expired, cancelled>>

AcceptFinalAnswer(answer) ==
  /\ DecisionArrives
  /\ RecordDecision
  /\ Return([status |-> answer])
  /\ UNCHANGED <<tool_call_count, tool_history, observations, request_ids,
                 pending_call, attempt>>

\* DecisionProviderError: the decision is not counted.
ProviderFails ==
  /\ DecisionArrives
  /\ RecordFeedback(Failure(Provider, "PROVIDER_ERROR"))
  /\ Return([status |-> "INCONCLUSIVE"])
  /\ UNCHANGED <<step_count, pending_call, attempt>>

\* A decision that is answered with feedback and sends the loop round again.
Refuse(tool, error) ==
  /\ DecisionArrives
  /\ RecordDecision
  /\ RecordFeedback(Failure(tool, error))
  /\ pc' = "loop"
  /\ UNCHANGED <<status, pending_call, attempt, diagnosis>>

RejectRequest(r) ==
  /\ Normal[r] = Rejected
  /\ Refuse(ToolName[r], "REJECTED")

RefuseOverBudget(r) ==
  /\ Normal[r] # Rejected
  /\ CallBudgetSpent(tool_call_count)
  /\ Refuse(ToolName[r], "TOOL_CALL_LIMIT_REACHED")

RefuseIdentical(r) ==
  /\ Normal[r] # Rejected
  /\ ~CallBudgetSpent(tool_call_count)
  /\ IdenticalBudgetSpent(Normal[r], tool_history)
  /\ Refuse(ToolName[r], "IDENTICAL_TOOL_CALL_LIMIT_REACHED")

Dispatch(r) ==
  /\ DecisionArrives
  /\ Normal[r] # Rejected
  /\ ~CallBudgetSpent(tool_call_count)
  /\ ~IdenticalBudgetSpent(Normal[r], tool_history)
  /\ RecordDecision
  /\ pc' = "calling"
  /\ pending_call' = Normal[r]
  /\ attempt' = 0
  /\ UNCHANGED <<tool_call_count, tool_history, observations, request_ids,
                 status, diagnosis>>

-----------------------------------------------------------------------------
(* The tool's result reaches a task nobody has interrupted *)

ToolAnswers ==
  /\ pc = "calling"
  /\ ~Interrupted
  /\ UNCHANGED <<step_count, status, expired, cancelled, diagnosis>>

RetryAllowed_Unbudgeted(c, o) ==
  /\ o.outcome = "TOOL_TIMEOUT"
  /\ attempt = 0

RetryAllowed_AnyFailure(c, o) ==
  /\ o.outcome # "OK"
  /\ attempt = 0
  /\ ~CallBudgetSpent(tool_call_count')
  /\ ~IdenticalBudgetSpent(c, tool_history')

\* The tests of the loop after a result, on the counters that include it.
RetryAllowed(c, o) ==
  /\ o.outcome = "TOOL_TIMEOUT"
  /\ attempt = 0
  /\ ~CallBudgetSpent(tool_call_count')
  /\ ~IdenticalBudgetSpent(c, tool_history')

RecordResult(o) ==
  /\ ToolAnswers
  /\ RecordToolResult(pending_call, o)
  /\ ~RetryAllowed(pending_call, o)
  /\ pc' = "loop"
  /\ pending_call' = NoCall
  /\ UNCHANGED attempt

RetryTimeout(o) ==
  /\ ToolAnswers
  /\ RecordToolResult(pending_call, o)
  /\ RetryAllowed(pending_call, o)
  /\ attempt' = 1
  /\ UNCHANGED <<pc, pending_call>>

-----------------------------------------------------------------------------
(* Exceptions.  `except TimeoutError` sits outside `asyncio.timeout`: a      *)
(* TimeoutError of the provider's or the tool's own ends the session as the  *)
(* deadline does.                                                            *)

ReturnTimedOut_AsFeedback ==
  /\ IF pending_call = NoCall
     THEN UNCHANGED <<tool_call_count, tool_history, observations, request_ids>>
     ELSE RecordFeedback(Failure(ToolName[pending_call], "SESSION_TIMEOUT"))
  /\ Return(LimitReached("SESSION_TIMEOUT", observations'))
  /\ pending_call' = NoCall
  /\ UNCHANGED <<step_count, attempt, expired, cancelled>>

ReturnTimedOut_CallForgotten ==
  /\ Return(LimitReached("SESSION_TIMEOUT", observations))
  /\ pending_call' = NoCall
  /\ UNCHANGED <<step_count, tool_call_count, tool_history, observations,
                 request_ids, attempt, expired, cancelled>>

\* The body of that handler; the call in flight is charged to the session.
ReturnTimedOut ==
  /\ IF pending_call = NoCall
     THEN UNCHANGED <<tool_call_count, tool_history, observations, request_ids>>
     ELSE RecordToolResult(pending_call,
                           Failure(ToolName[pending_call], "SESSION_TIMEOUT"))
  /\ Return(LimitReached("SESSION_TIMEOUT", observations'))
  /\ pending_call' = NoCall
  /\ UNCHANGED <<step_count, attempt, expired, cancelled>>

\* The answer is a TimeoutError.
RaiseTimeoutError ==
  /\ Suspended
  /\ ~Interrupted
  /\ ReturnTimedOut

\* The answer is any other exception: it leaves the run, and the state RUNNING.
RaiseException ==
  /\ Suspended
  /\ ~Interrupted
  /\ pc' = "raised"
  /\ UNCHANGED <<session, pending_call, attempt, expired, cancelled, diagnosis>>

-----------------------------------------------------------------------------
(* Interruptions *)

TimerFires_DecisionsOnly ==
  /\ pc = "deciding"
  /\ ~expired
  /\ expired' = TRUE
  /\ UNCHANGED <<pc, session, pending_call, attempt, cancelled, diagnosis>>

TimerFires ==
  /\ Suspended
  /\ ~expired
  /\ expired' = TRUE
  /\ UNCHANGED <<pc, session, pending_call, attempt, cancelled, diagnosis>>

Cancel ==
  /\ Suspended
  /\ ~cancelled
  /\ cancelled' = TRUE
  /\ UNCHANGED <<pc, session, pending_call, attempt, expired, diagnosis>>

ResumeTimedOut_OverCancel ==
  /\ Suspended
  /\ expired
  /\ ReturnTimedOut

\* CancelledError is thrown in.  asyncio.timeout turns it into TimeoutError only
\* when the timer's is the only cancellation requested.
ResumeTimedOut ==
  /\ Suspended
  /\ expired
  /\ ~cancelled
  /\ ReturnTimedOut

ResumeCancelled ==
  /\ Suspended
  /\ cancelled
  /\ pc' = "cancelled"
  /\ UNCHANGED <<session, pending_call, attempt, expired, cancelled, diagnosis>>

-----------------------------------------------------------------------------
Ended == pc \in {"returned", "raised", "cancelled"}

\* The run is over; the caller drops the task.
Rest == Ended /\ UNCHANGED vars

Local == StartDecision \/ ReachDecisionLimit \/ ResumeTimedOut \/ ResumeCancelled

ProviderAnswers ==
  \/ \E answer \in Answers : AcceptFinalAnswer(answer)
  \/ ProviderFails
  \/ \E r \in Requests : \/ RejectRequest(r)
                         \/ RefuseOverBudget(r)
                         \/ RefuseIdentical(r)
                         \/ Dispatch(r)

ToolReturns ==
  /\ pending_call # NoCall
  /\ \E o \in Results(pending_call) : RecordResult(o) \/ RetryTimeout(o)

Next ==
  \/ Local
  \/ ProviderAnswers
  \/ ToolReturns
  \/ RaiseTimeoutError
  \/ RaiseException
  \/ TimerFires
  \/ Cancel
  \/ Rest

\* The event loop runs a ready task and fires a due timer.  Providers, tools and
\* whoever may cancel owe nothing.
Fairness == WF_vars(Local) /\ WF_vars(TimerFires)

Spec == Init /\ [][Next]_vars /\ Fairness

-----------------------------------------------------------------------------
(* Properties *)

\* Every variable has its type.
TypeOK ==
  /\ pc \in {"loop", "deciding", "calling", "returned", "raised", "cancelled"}
  /\ step_count \in Nat
  /\ tool_call_count \in Nat
  /\ tool_history \in Seq(Calls)
  /\ observations \in Seq(Observation)
  /\ request_ids \in Seq(RequestIds)
  /\ status \in {"RUNNING", "COMPLETED"}
  /\ pending_call \in Calls \cup {NoCall}
  /\ attempt \in 0..1
  /\ expired \in BOOLEAN
  /\ cancelled \in BOOLEAN

\* The calls made so far, the one in flight (or in flight when the run ended) included.
CallsMade ==
  IF pending_call = NoCall THEN tool_history ELSE Append(tool_history, pending_call)

\* The three budgets hold in every state and count the call in flight, so that the
\* deadline can always charge it: whatever mix of retries, refusals, spellings of one
\* call and calls cut off by the deadline led there (loop.py 154, 249, 267, 325-353).
BudgetsRespected ==
  /\ step_count <= MaxDecisions
  /\ Len(CallsMade) <= MaxToolCalls
  /\ \A c \in Calls : IdenticalCalls(c, CallsMade) <= MaxIdentical

\* Calls are retried for no reason but a TOOL_TIMEOUT of their own, and once: the
\* calls made exceed the decisions taken by no more than the timeouts seen, and
\* never reach three for one decision (loop.py 292, 320-334).
TimeoutsSeen ==
  Cardinality({i \in 1..Len(observations) : observations[i].outcome = "TOOL_TIMEOUT"})
RetriesExplained ==
  /\ Len(CallsMade) <= step_count + TimeoutsSeen
  /\ Len(CallsMade) <= 2 * step_count

\* The history and the observations tell the same story: the observations that
\* are not feedback are, in order, one for each call of the history, from its tool.
IsToolResult(o) == o.outcome \in {"OK", "TOOL_TIMEOUT", "TOOL_ERROR", "SESSION_TIMEOUT"}
OfTools == {o \in Observation : IsToolResult(o)}
HistoryMatchesObservations ==
  LET results == Selected(observations, OfTools)
  IN  /\ tool_call_count = Len(tool_history)
      /\ Len(results) = Len(tool_history)
      /\ \A i \in 1..Len(results) : results[i].tool = ToolName[tool_history[i]]

\* The request ids kept for the session are those its observations carry, each once
\* (state.py 43-44).
Carried(obs) == {obs[i].request_id : i \in 1..Len(obs)} \ {NoId}
Kept(ids) == {ids[i] : i \in 1..Len(ids)}
Distinct(ids) == \A i, j \in 1..Len(ids) : ids[i] = ids[j] => i = j
RequestIdsCollected ==
  /\ Distinct(request_ids)
  /\ Kept(request_ids) = Carried(observations)

\* A session that ends at a limit reports everything it found, and names the limit
\* it really met; only a TimeoutError raised by a collaborator is taken for the
\* deadline.  A session is COMPLETED exactly when it returned a diagnosis, so a
\* failed or cancelled one can be told from a finished one.
LimitsReportedFaithfully ==
  /\ (status = "COMPLETED") <=> (pc = "returned")
  /\ (diagnosis # NoDiagnosis) <=> (pc = "returned")
  /\ diagnosis.status = "LIMIT_REACHED" =>
       /\ diagnosis.evidence = CollectedEvidence(observations)
       /\ diagnosis.missing_evidence = "DECISION_LIMIT" => step_count = MaxDecisions
       /\ cancelled = FALSE

\* What the control points of the loop guarantee about its locals and counters: a
\* call is in flight exactly while one is awaited or was interrupted, a decision is
\* only awaited with budget left, and a first attempt leaves room for its retry.
\* With the invariants above it is inductive.
TaskConsistent ==
  /\ tool_call_count = Len(tool_history)
  /\ pc = "calling" => pending_call # NoCall
  /\ pc \in {"loop", "deciding", "returned"} => pending_call = NoCall
  /\ pc = "deciding" => step_count < MaxDecisions
  /\ pc = "calling" /\ attempt = 0 => Len(CallsMade) < 2 * step_count

\* The session keeps its promises (BoundedSession): every step of the loop takes at
\* most one decision and makes at most one call, within the budgets; a call made is
\* never forgotten, though its answer, a retry or the deadline rewrites the
\* bookkeeping around it; and the session closes once.
Bounded == INSTANCE BoundedSession WITH
  decisions <- step_count,
  calls <- CallsMade,
  end <- IF Ended THEN pc ELSE "open"
BoundedSpec == Bounded!Spec

\* Every session ends, whatever its provider and its tools do or fail to do: the
\* timer or the decision budget stops it.
EverySessionEnds == <>Ended
=============================================================================
