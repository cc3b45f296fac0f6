------------------------ MODULE ProviderConversation ------------------------
(***************************************************************************)
(* The model provider inside the loop                                      *)
(* (src/agent_service/agent/openai_provider.py).  While the loop awaits a   *)
(* decision, the provider makes one request to the model and, when the     *)
(* answer is not one valid decision, one corrective request.               *)
(*                                                                         *)
(* The remote conversation is modelled from how the provider uses it: every *)
(* answer is stored, and a request continues the stored answer it names.   *)
(* A response, and the call in it, is denoted by its position among the     *)
(* answers.  Prompts, schemas, argument decoding, token usage and the      *)
(* truncation of long outputs are left out.                                *)
(***************************************************************************)
EXTENDS AgentLoop, SequencesExt

CONSTANT None

\* An id is never mistaken for the absence of one.
ASSUME ConversationAssumption == None \notin Nat

VARIABLES
  response_id,         \* _response_id
  pending_call_id,     \* _pending_call_id
  observation_cursor,  \* _observation_cursor
  request,             \* the request in flight, or the last one made
  answers,             \* the remote side: the stored answers, in order
  model_calls          \* EvaluationRun.model_calls

conversation == <<response_id, pending_call_id, observation_cursor, request, answers>>
pvars == <<vars, conversation, model_calls>>

Issue == [kind |-> "issue"]
\* _function_output(state, start): the observations after the first `start`.
FunctionOutput(call, start, obs) ==
  [kind |-> "function_call_output", call |-> call, first |-> start + 1, last |-> Len(obs)]

Valid(answer) == answer.valid

PInit ==
  /\ Init
  /\ response_id = None
  /\ pending_call_id = None
  /\ observation_cursor = 0
  /\ request = None
  /\ answers = <<>>
  /\ model_calls = <<>>

-----------------------------------------------------------------------------
(* EvaluationRecorder.model_started and model_finished *)

ModelStarted(calls, decision) ==
  Append(calls, [decision |-> decision, finished |-> FALSE, error |-> FALSE])
ModelFinished(calls, error) ==
  [calls EXCEPT ![Len(calls)].finished = TRUE, ![Len(calls)].error = error]

\* A step that leaves no request in flight; raised says whether the request raised.
RequestEnds(raised) == model_calls' = ModelFinished(model_calls, raised)

-----------------------------------------------------------------------------
(* next_decision *)

\* The input of the next request (lines 244-252).  With no observation to answer a
\* pending call there is none and MODEL_CONTEXT_ERROR is raised; as this does not happen
\* (CallsAnsweredOnce), no action follows it.
NextInput ==
  IF pending_call_id = None THEN Issue
  ELSE IF Len(observations) <= observation_cursor THEN [kind |-> "none"]
  ELSE FunctionOutput(pending_call_id, observation_cursor, observations)

ContextMissing == pc = "deciding" /\ request.input.kind = "none"

\* Awaiting the decision and making the first request are one step.
Ask ==
  /\ StartDecision
  /\ request' = [previous |-> response_id, input |-> NextInput, correction |-> FALSE]
  /\ model_calls' = IF NextInput.kind = "none" THEN model_calls
                    ELSE ModelStarted(model_calls, step_count + 1)
  /\ UNCHANGED <<response_id, pending_call_id, observation_cursor, answers>>

Stored(valid, call) ==
  answers' = Append(answers, [previous |-> request.previous, input |-> request.input,
                              valid |-> valid, call |-> call])

\* The model answers with something that is not one decision; the SDK may already
\* have refused to parse it (raised).
InvalidOutput(raised) ==
  /\ ~ContextMissing
  /\ DecisionArrives
  /\ Stored(FALSE, FALSE)
  /\ pending_call_id' = None
  /\ UNCHANGED <<response_id, observation_cursor>>

Correct(raised) ==
  /\ InvalidOutput(raised)
  /\ ~request.correction
  /\ request' = [request EXCEPT !.correction = TRUE]
  /\ model_calls' = ModelStarted(ModelFinished(model_calls, raised), step_count + 1)
  /\ UNCHANGED <<pc, session, pending_call, attempt, diagnosis>>

FailAfterCorrection(raised) ==
  /\ InvalidOutput(raised)
  /\ request.correction
  /\ ProviderFails
  /\ RequestEnds(raised)
  /\ UNCHANGED request

\* APIError: nothing is answered.
FailOnApiError ==
  /\ ~ContextMissing
  /\ ProviderFails
  /\ RequestEnds(TRUE)
  /\ UNCHANGED conversation

\* Lines 285 and 307-314 for a valid answer; the cursor is taken from the copy of the
\* state next_decision was given.
DecideFinal(answer) ==
  /\ ~ContextMissing
  /\ AcceptFinalAnswer(answer)
  /\ Stored(TRUE, FALSE)
  /\ response_id' = Len(answers) + 1
  /\ pending_call_id' = None
  /\ RequestEnds(FALSE)
  /\ UNCHANGED <<request, observation_cursor>>

DecideCall_CursorKept(r) ==
  /\ ~ContextMissing
  /\ RejectRequest(r) \/ RefuseOverBudget(r) \/ RefuseIdentical(r) \/ Dispatch(r)
  /\ Stored(TRUE, TRUE)
  /\ response_id' = Len(answers) + 1
  /\ pending_call_id' = Len(answers) + 1
  /\ RequestEnds(FALSE)
  /\ UNCHANGED <<request, observation_cursor>>

DecideCall(r) ==
  /\ ~ContextMissing
  /\ RejectRequest(r) \/ RefuseOverBudget(r) \/ RefuseIdentical(r) \/ Dispatch(r)
  /\ Stored(TRUE, TRUE)
  /\ response_id' = Len(answers) + 1
  /\ pending_call_id' = Len(answers) + 1
  /\ observation_cursor' = Len(observations)
  /\ RequestEnds(FALSE)
  /\ UNCHANGED request

-----------------------------------------------------------------------------
(* The rest of the loop.  An exception or a cancellation thrown into the      *)
(* provider passes through _request, whose finally clause finishes the call.  *)

Interrupts_CallLeftOpen(step) ==
  /\ step
  /\ UNCHANGED <<conversation, model_calls>>

Interrupts(step) ==
  /\ step
  /\ IF pc = "deciding" THEN RequestEnds(TRUE) ELSE UNCHANGED model_calls
  /\ UNCHANGED conversation

Elsewhere ==
  /\ ReachDecisionLimit \/ ToolReturns \/ TimerFires \/ Cancel \/ Rest
  /\ UNCHANGED <<conversation, model_calls>>

PNext ==
  \/ Ask
  \/ \E raised \in BOOLEAN : Correct(raised) \/ FailAfterCorrection(raised)
  \/ FailOnApiError
  \/ \E answer \in Answers : DecideFinal(answer)
  \/ \E r \in Requests : DecideCall(r)
  \/ Interrupts(ResumeTimedOut)
  \/ Interrupts(ResumeCancelled)
  \/ Interrupts(RaiseTimeoutError)
  \/ Interrupts(RaiseException)
  \/ Elsewhere

PSpec == PInit /\ [][PNext]_pvars

-----------------------------------------------------------------------------
(* Properties *)

\* The conversation the model sees when a request continues answer n: the answers
\* before it, each with the input it answered.
Position(id) == IF id = None THEN 0 ELSE id
Thread ==
  LET thread[n \in 0..Len(answers)] ==
        IF n = 0 THEN <<>> ELSE Append(thread[Position(answers[n].previous)], answers[n])
  IN  thread[Position(response_id)]

Asking == pc = "deciding" /\ ~ContextMissing

\* The inputs of that conversation, with the request in flight.
Inputs ==
  [i \in 1..Len(Thread) |-> Thread[i].input] \o (IF Asking THEN <<request.input>> ELSE <<>>)

\* The issue opens the conversation once, every accepted call is answered by the
\* very next input and by no other, and an invalid answer never becomes part of it
\* although the request that got it is repeated.  Refusals and results alike leave an
\* observation to answer with, so MODEL_CONTEXT_ERROR (line 148) is never raised.
CallsAnsweredOnce ==
  /\ ~ContextMissing
  /\ \A i \in 1..Len(Thread) : Valid(Thread[i])
  /\ Asking => request.previous = response_id
  /\ \A i \in 1..Len(Inputs) :
       IF i = 1 THEN Inputs[i] = Issue
       ELSE /\ Thread[i - 1].call
            /\ Inputs[i].kind = "function_call_output"
            /\ \E n \in 1..Len(answers) :
                 answers[n] = Thread[i - 1] /\ Inputs[i].call = n

\* The model is told every observation exactly once and in order: the outputs of the
\* conversation follow on from one another without a gap or an overlap, and the request
\* in flight ends with the newest.
ObservationsDeliveredOnce ==
  /\ \A i \in 2..Len(Inputs) :
       /\ Inputs[i].first = IF i = 2 THEN 1 ELSE Inputs[i - 1].last + 1
       /\ Inputs[i].first <= Inputs[i].last
  /\ Asking /\ Len(Inputs) > 1 => Inputs[Len(Inputs)].last = Len(observations)
  /\ Asking /\ Len(Inputs) = 1 => observations = <<>>

\* The model and the loop are in one conversation, whatever answers are invalid, fail
\* or come too late: neither a call nor an observation is lost, repeated or mismatched.
OneConversation == CallsAnsweredOnce /\ ObservationsDeliveredOnce

\* "Including corrective requests, failures and unfinished calls": a run that ended has
\* no model call left open, each decision took at most two, and a second one only
\* because the first was answered in vain.
ModelCallsAccounted ==
  /\ Ended => \A i \in 1..Len(model_calls) : model_calls[i].finished
  /\ \A i \in 1..Len(model_calls) :
       /\ i < Len(model_calls) => model_calls[i].finished
       /\ i > 2 => model_calls[i].decision > model_calls[i - 2].decision
  /\ Cardinality({i \in 2..Len(model_calls) :
                    model_calls[i].decision = model_calls[i - 1].decision})
       <= Cardinality({n \in 1..Len(answers) : ~Valid(answers[n])})
=============================================================================
