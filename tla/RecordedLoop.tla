---------------------------- MODULE RecordedLoop ----------------------------
(***************************************************************************)
(* AgentLoop with the hooks of its SessionRecorder                         *)
(* (src/agent_service/agent/recording.py; the calls are in loop.py).  The  *)
(* variable hooks holds the hook calls of the last step, in the order the  *)
(* loop makes them; a recorder is a state machine that consumes them.      *)
(***************************************************************************)
EXTENDS AgentLoop

VARIABLE hooks

rvars == <<vars, hooks>>

\* The hooks, with what their arguments denote at the time of the call.
DecisionStarted == [hook |-> "decision_started", observations |-> observations]
DecisionReturned(d) == [hook |-> "decision_returned", decision |-> d]
ToolStarted(c, retry) == [hook |-> "tool_started", call |-> c, retry |-> retry]
ToolFinished(o) == [hook |-> "tool_finished", observation |-> o]
Error(scope, type) == [hook |-> "error", scope |-> scope, error_type |-> type]

\* run_agent's finally clause: the state and the diagnosis the step leaves behind.
Finish == [hook |-> "finish", observations |-> observations', diagnosis |-> diagnosis']

FinalAnswer == "FINAL_ANSWER"

\* A decision is a call or a final answer (schemas.py 78-96).
ASSUME DecisionsAssumption == FinalAnswer \notin Requests

\* A step of the loop, with the hooks it calls.
Hooked(step, called) == step /\ hooks' = called

\* What an exception or an interruption tells the recorder before the run ends.
RaisedAt(type) ==
  IF pc = "deciding" THEN <<Error("decision", type)>> ELSE <<Error("tool", type)>>
TimedOutCall == ToolFinished(Failure(ToolName[pending_call], "SESSION_TIMEOUT"))

\* loop.py 175-181 and 302-305: a tool's cancellation is not reported when the timer
\* has fired as well, since its handler is expected to finish the call.
CancellationHooks ==
  IF pc = "deciding"
  THEN <<Error("decision", IF expired THEN "SESSION_TIMEOUT" ELSE "CANCELLED")>>
  ELSE IF expired THEN <<>> ELSE <<Error("tool", "CANCELLED")>>

\* The handler of TimeoutError finishes the call in flight.
HandlerHooks == IF pending_call = NoCall THEN <<>> ELSE <<TimedOutCall>>

RInit == Init /\ hooks = <<>>

RLocal ==
  \/ Hooked(StartDecision, <<DecisionStarted>>)
  \/ Hooked(ReachDecisionLimit, <<Finish>>)
  \/ Hooked(ResumeTimedOut, CancellationHooks \o HandlerHooks \o <<Finish>>)
  \/ Hooked(ResumeCancelled, CancellationHooks \o <<Finish>>)

RProviderAnswers ==
  \/ \E answer \in Answers :
       Hooked(AcceptFinalAnswer(answer), <<DecisionReturned(FinalAnswer), Finish>>)
  \/ Hooked(ProviderFails, <<Error("decision", "PROVIDER_ERROR"), Finish>>)
  \/ \E r \in Requests :
       \/ Hooked(RejectRequest(r),
                 <<DecisionReturned(r), Error("decision", "REJECTED")>>)
       \/ Hooked(RefuseOverBudget(r),
                 <<DecisionReturned(r), Error("decision", "TOOL_CALL_LIMIT_REACHED")>>)
       \/ Hooked(RefuseIdentical(r),
                 <<DecisionReturned(r),
                   Error("decision", "IDENTICAL_TOOL_CALL_LIMIT_REACHED")>>)
       \/ Hooked(Dispatch(r), <<DecisionReturned(r), ToolStarted(Normal[r], FALSE)>>)

RToolReturns ==
  /\ pending_call # NoCall
  /\ \E o \in Results(pending_call) :
       \/ Hooked(RecordResult(o), <<ToolFinished(o)>>)
       \/ Hooked(RetryTimeout(o), <<ToolFinished(o), ToolStarted(pending_call, TRUE)>>)

RRaise ==
  \/ Hooked(RaiseTimeoutError, RaisedAt("TimeoutError") \o HandlerHooks \o <<Finish>>)
  \/ Hooked(RaiseException, RaisedAt("Exception") \o <<Finish>>)

RInterrupt == Hooked(TimerFires \/ Cancel, <<>>)

RNext ==
  \/ RLocal
  \/ RProviderAnswers
  \/ RToolReturns
  \/ RRaise
  \/ RInterrupt
  \/ Hooked(Rest, <<>>)

RSpec == RInit /\ [][RNext]_rvars
=============================================================================
