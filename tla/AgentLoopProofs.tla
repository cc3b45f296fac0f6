-------------------------- MODULE AgentLoopProofs --------------------------
(***************************************************************************)
(* What holds of AgentLoop for every set of requests, every normalisation  *)
(* and every limit.                                                        *)
(***************************************************************************)
EXTENDS AgentLoop, SequenceFacts, FiniteSetTheorems, TLAPS

-----------------------------------------------------------------------------
(* Counting the positions of a sequence *)

\* The positions of s that hold an element of T.
Hits(s, T) == {i \in 1..Len(s) : s[i] \in T}

LEMMA HitsFinite ==
  ASSUME NEW S, NEW h \in Seq(S), NEW T
  PROVE  IsFiniteSet(Hits(h, T)) /\ Cardinality(Hits(h, T)) \in Nat
<1>1. Len(h) \in Nat /\ Hits(h, T) \in SUBSET (1..Len(h))
  BY DEF Hits
<1>2. IsFiniteSet(1..Len(h))
  BY <1>1, FS_Interval
<1>3. IsFiniteSet(Hits(h, T))
  BY <1>1, <1>2, FS_Subset
<1> QED
  BY <1>3, FS_CardinalityType

\* Appending an element adds one position to them if it is in T, and none otherwise.
LEMMA CountAppend ==
  ASSUME NEW S, NEW h \in Seq(S), NEW e \in S, NEW T
  PROVE  Cardinality(Hits(Append(h, e), T))
           = Cardinality(Hits(h, T)) + IF e \in T THEN 1 ELSE 0
<1>1. CASE e \in T
  <2>1. Hits(Append(h, e), T) = Hits(h, T) \cup {Len(h) + 1}
    BY <1>1 DEF Hits
  <2>2. Len(h) + 1 \notin Hits(h, T)
    BY DEF Hits
  <2> QED
    BY <1>1, <2>1, <2>2, HitsFinite, FS_AddElement
<1>2. CASE e \notin T
  <2>1. Hits(Append(h, e), T) = Hits(h, T)
    BY <1>2 DEF Hits
  <2> QED
    BY <1>2, <2>1, HitsFinite
<1> QED
  BY <1>1, <1>2

LEMMA IdenticalAppend ==
  ASSUME NEW h \in Seq(Calls), NEW c \in Calls, NEW d \in Calls
  PROVE  /\ IdenticalCalls(c, h) \in Nat
         /\ IdenticalCalls(c, Append(h, d))
              = IdenticalCalls(c, h) + IF c = d THEN 1 ELSE 0
<1>1. \A s : IdenticalCalls(c, s) = Cardinality(Hits(s, {c}))
  BY DEF IdenticalCalls, Hits
<1>2. d \in {c} <=> c = d
  OBVIOUS
<1> QED
  BY <1>1, <1>2, HitsFinite, CountAppend

LEMMA IdenticalEmpty ==
  ASSUME NEW c
  PROVE  IdenticalCalls(c, <<>>) = 0
<1>1. {i \in 1..Len(<<>>) : <<>>[i] = c} = {}
  OBVIOUS
<1> QED
  BY <1>1, FS_EmptySet DEF IdenticalCalls

-----------------------------------------------------------------------------
(* Types *)

LEMMA CallFacts ==
  /\ \A r \in Requests : Normal[r] # Rejected => Normal[r] \in Calls
  /\ \A c \in Calls : ToolName[c] \in Tools
  /\ NoCall \notin Calls
  BY RequestsAssumption DEF Calls

LEMMA FailureType ==
  ASSUME NEW t \in Tools \cup {Provider}, NEW e \in Outcomes
  PROVE  Failure(t, e) \in Observation
  BY DEF Failure, Observation

LEMMA ResultsType ==
  ASSUME NEW c \in Calls, NEW o \in Results(c)
  PROVE  /\ o \in Observation
         /\ o.tool = ToolName[c]
         /\ o.outcome \in {"OK", "TOOL_TIMEOUT", "TOOL_ERROR"}
  BY CallFacts DEF Results, Failure, Observation, Outcomes

\* record_tool_result keeps the types of what it writes.
LEMMA RecordToolResultType ==
  ASSUME TypeOK, NEW c \in Calls, NEW o \in Observation, RecordToolResult(c, o)
  PROVE  /\ tool_call_count' \in Nat
         /\ tool_history' \in Seq(Calls)
         /\ observations' \in Seq(Observation)
         /\ request_ids' \in Seq(RequestIds)
<1>1. o.request_id # NoId => o.request_id \in RequestIds
  BY DEF Observation
<1> QED
  BY <1>1 DEF TypeOK, RecordToolResult

\* The handler of TimeoutError keeps the types.
LEMMA ReturnTimedOutType ==
  ASSUME TypeOK, ReturnTimedOut
  PROVE  TypeOK'
<1>1. CASE pending_call = NoCall
  BY <1>1 DEF TypeOK, ReturnTimedOut, Return
<1>2. CASE pending_call # NoCall
  <2>1. pending_call \in Calls
    BY <1>2 DEF TypeOK
  <2>2. Failure(ToolName[pending_call], "SESSION_TIMEOUT") \in Observation
    BY <2>1, CallFacts, FailureType DEF Outcomes, LoopErrors
  <2>3. RecordToolResult(pending_call, Failure(ToolName[pending_call], "SESSION_TIMEOUT"))
    BY <1>2 DEF ReturnTimedOut
  <2> QED
    BY <2>1, <2>2, <2>3, RecordToolResultType DEF TypeOK, ReturnTimedOut, Return
<1> QED
  BY <1>1, <1>2

LEMMA TypeStep ==
  ASSUME TypeOK, [Next]_vars
  PROVE  TypeOK'
<1> USE DEF TypeOK
<1>1. CASE StartDecision
  BY <1>1 DEF StartDecision, session
<1>2. CASE ReachDecisionLimit
  BY <1>2 DEF ReachDecisionLimit, Return
<1>3. CASE ResumeTimedOut \/ RaiseTimeoutError
  BY <1>3, ReturnTimedOutType DEF ResumeTimedOut, RaiseTimeoutError
<1>4. CASE ResumeCancelled \/ RaiseException
  BY <1>4 DEF ResumeCancelled, RaiseException, session
<1>5. ASSUME NEW answer \in Answers, AcceptFinalAnswer(answer)
      PROVE  TypeOK'
  BY <1>5 DEF AcceptFinalAnswer, DecisionArrives, RecordDecision, Return
<1>6. CASE ProviderFails
  <2>1. Failure(Provider, "PROVIDER_ERROR") \in Observation
    BY FailureType DEF Outcomes
  <2> QED
    BY <1>6, <2>1 DEF ProviderFails, DecisionArrives, RecordFeedback, Return
<1>7. ASSUME NEW t \in Tools, NEW e \in Outcomes, Refuse(t, e)
      PROVE  TypeOK'
  <2>1. Failure(t, e) \in Observation
    BY FailureType
  <2> QED
    BY <1>7, <2>1 DEF Refuse, DecisionArrives, RecordDecision, RecordFeedback
<1>8. ASSUME NEW r \in Requests, RejectRequest(r) \/ RefuseOverBudget(r) \/ RefuseIdentical(r)
      PROVE  TypeOK'
  BY <1>7, <1>8, RequestsAssumption
     DEF RejectRequest, RefuseOverBudget, RefuseIdentical, Outcomes, LoopErrors
<1>9. ASSUME NEW r \in Requests, Dispatch(r)
      PROVE  TypeOK'
  BY <1>9, CallFacts DEF Dispatch, DecisionArrives, RecordDecision
<1>10. ASSUME NEW o \in Results(pending_call), pending_call # NoCall,
              RecordResult(o) \/ RetryTimeout(o)
       PROVE  TypeOK'
  <2>1. pending_call \in Calls /\ o \in Observation
    BY <1>10, ResultsType
  <2>2. RecordToolResult(pending_call, o)
    BY <1>10 DEF RecordResult, RetryTimeout
  <2> QED
    BY <1>10, <2>1, <2>2, RecordToolResultType DEF RecordResult, RetryTimeout, ToolAnswers
<1>11. CASE TimerFires \/ Cancel
  BY <1>11 DEF TimerFires, Cancel, session
<1>12. CASE UNCHANGED vars
  BY <1>12 DEF vars, session
<1> QED
  BY <1>1, <1>2, <1>3, <1>4, <1>5, <1>6, <1>8, <1>9, <1>10, <1>11, <1>12
     DEF Next, Local, ProviderAnswers, ToolReturns, Rest

LEMMA TypeInit ==
  ASSUME Init
  PROVE  TypeOK
<1>1. /\ tool_history \in Seq(Calls)
      /\ observations \in Seq(Observation)
      /\ request_ids \in Seq(RequestIds)
  BY DEF Init
<1>2. expired \in BOOLEAN /\ cancelled \in BOOLEAN
  BY Zenon DEF Init
<1> QED
  BY <1>1, <1>2 DEF Init, TypeOK

\* TypeOK holds in every state of every session.
THEOREM TypeCorrect == Spec => []TypeOK
<1>1. Init => TypeOK
  BY TypeInit
<1>2. TypeOK /\ [Next]_vars => TypeOK'
  BY TypeStep
<1> QED
  BY <1>1, <1>2, PTL DEF Spec

-----------------------------------------------------------------------------
(* The budgets.  CallsMade does not change when a result is recorded, grows by *)
(* the call in flight when one is dispatched or retried, and both are guarded  *)
(* by the room for it.                                                         *)

BudgetInv == TypeOK /\ TaskConsistent /\ BudgetsRespected /\ RetriesExplained

TimedOut == {o \in Observation : o.outcome = "TOOL_TIMEOUT"}

LEMMA TimeoutsNat ==
  ASSUME TypeOK
  PROVE  /\ TimeoutsSeen = Cardinality(Hits(observations, TimedOut))
         /\ TimeoutsSeen \in Nat
<1>1. observations \in Seq(Observation)
  BY DEF TypeOK
<1>2. Hits(observations, TimedOut)
        = {i \in 1..Len(observations) : observations[i].outcome = "TOOL_TIMEOUT"}
  BY <1>1 DEF Hits, TimedOut
<1> QED
  BY <1>1, <1>2, HitsFinite DEF TimeoutsSeen

LEMMA TimeoutsAppend ==
  ASSUME TypeOK, TypeOK', NEW o \in Observation, observations' = Append(observations, o)
  PROVE  TimeoutsSeen' = TimeoutsSeen + IF o.outcome = "TOOL_TIMEOUT" THEN 1 ELSE 0
<1>1. observations \in Seq(Observation)
  BY DEF TypeOK
<1>2. observations' \in Seq(Observation)
  BY DEF TypeOK
<1>3. Hits(observations', TimedOut)
        = {i \in 1..Len(observations') : observations'[i].outcome = "TOOL_TIMEOUT"}
  BY <1>2 DEF Hits, TimedOut
<1>4. o \in TimedOut <=> o.outcome = "TOOL_TIMEOUT"
  BY DEF TimedOut
<1>5. TimeoutsSeen' = Cardinality(Hits(observations', TimedOut))
  BY <1>3 DEF TimeoutsSeen
<1>6. Cardinality(Hits(Append(observations, o), TimedOut))
        = Cardinality(Hits(observations, TimedOut)) + IF o \in TimedOut THEN 1 ELSE 0
  BY <1>1, CountAppend
<1> QED
  BY <1>4, <1>5, <1>6, TimeoutsNat

\* Recording the answer of the call in flight leaves the calls made as they are.
LEMMA RecordingKeepsCalls ==
  ASSUME BudgetInv, TypeOK', pending_call # NoCall, NEW o \in Observation,
         RecordToolResult(pending_call, o)
  PROVE  /\ tool_history' = CallsMade
         /\ tool_call_count' = Len(tool_history')
         /\ TimeoutsSeen \in Nat
         /\ TimeoutsSeen' = TimeoutsSeen + IF o.outcome = "TOOL_TIMEOUT" THEN 1 ELSE 0
<1>1. TypeOK /\ observations' = Append(observations, o)
  BY DEF BudgetInv, RecordToolResult
<1>2. pending_call \in Calls /\ tool_history \in Seq(Calls)
  BY DEF BudgetInv, TypeOK
<1>3. /\ tool_history' = CallsMade
      /\ tool_call_count' = Len(tool_history')
  BY <1>2 DEF BudgetInv, TaskConsistent, RecordToolResult, CallsMade
<1> QED
  BY <1>1, <1>3, TimeoutsAppend, TimeoutsNat

LEMMA ReturnTimedOutBudgets ==
  ASSUME BudgetInv, ReturnTimedOut
  PROVE  BudgetInv'
<1>1. TypeOK'
  BY ReturnTimedOutType DEF BudgetInv
<1>2. pc' = "returned" /\ pending_call' = NoCall /\ step_count' = step_count
  BY DEF ReturnTimedOut, Return
<1>3. CASE pending_call = NoCall
  BY <1>1, <1>2, <1>3
     DEF BudgetInv, ReturnTimedOut, TaskConsistent, BudgetsRespected, RetriesExplained,
         CallsMade, TimeoutsSeen, IdenticalCalls
<1>4. CASE pending_call # NoCall
  <2> DEFINE o == Failure(ToolName[pending_call], "SESSION_TIMEOUT")
  <2>1. pending_call \in Calls
    BY <1>4 DEF BudgetInv, TypeOK
  <2>2. o \in Observation /\ o.outcome = "SESSION_TIMEOUT"
    BY <2>1, CallFacts, FailureType DEF Outcomes, LoopErrors, Failure
  <2>3. RecordToolResult(pending_call, o)
    BY <1>4 DEF ReturnTimedOut
  <2> HIDE DEF o
  <2>4. /\ tool_history' = CallsMade
        /\ tool_call_count' = Len(tool_history')
        /\ TimeoutsSeen' = TimeoutsSeen
    BY <1>1, <1>4, <2>2, <2>3, RecordingKeepsCalls
  <2>5. CallsMade' = CallsMade
    BY <1>2, <2>4 DEF CallsMade
  <2>6. TaskConsistent'
    BY <1>2, <2>4 DEF TaskConsistent
  <2>7. BudgetsRespected'
    BY <1>2, <2>5 DEF BudgetInv, BudgetsRespected, IdenticalCalls
  <2>8. RetriesExplained'
    BY <1>2, <2>4, <2>5 DEF BudgetInv, RetriesExplained
  <2> QED
    BY <1>1, <2>6, <2>7, <2>8 DEF BudgetInv
<1> QED
  BY <1>3, <1>4

\* The steps that make no call and record no answer.
LEMMA NoCallBudgets ==
  ASSUME BudgetInv, TypeOK', UNCHANGED <<tool_call_count, tool_history, pending_call>>,
         TimeoutsSeen' = TimeoutsSeen,
         step_count' \in {step_count, step_count + 1},
         pc' = "deciding" => step_count' < MaxDecisions,
         step_count' <= MaxDecisions,
         pc' \in {"loop", "deciding", "returned"} => pending_call = NoCall,
         pc' = "calling" => /\ pc = "calling"
                            /\ UNCHANGED <<attempt, step_count>>
  PROVE  BudgetInv'
<1>1. CallsMade' = CallsMade
  BY DEF CallsMade
<1>2. Len(CallsMade) \in Nat
  BY CallFacts DEF BudgetInv, TypeOK, CallsMade
<1>3. TimeoutsSeen \in Nat /\ step_count \in Nat
  BY TimeoutsNat DEF BudgetInv, TypeOK
<1>4. TaskConsistent'
  BY <1>1 DEF BudgetInv, TaskConsistent
<1>5. BudgetsRespected'
  BY <1>1 DEF BudgetInv, BudgetsRespected, IdenticalCalls
<1>6. RetriesExplained'
  BY <1>1, <1>2, <1>3 DEF BudgetInv, RetriesExplained
<1> QED
  BY <1>4, <1>5, <1>6 DEF BudgetInv

LEMMA SameObservations ==
  ASSUME UNCHANGED observations
  PROVE  TimeoutsSeen' = TimeoutsSeen
  BY DEF TimeoutsSeen

\* Answering a decision with feedback, which is never a TOOL_TIMEOUT.
LEMMA FeedbackBudgets ==
  ASSUME BudgetInv, TypeOK', pc = "deciding",
         NEW o \in Observation, o.outcome # "TOOL_TIMEOUT", RecordFeedback(o),
         step_count' \in {step_count, step_count + 1},
         UNCHANGED pending_call, pc' \in {"loop", "returned"}
  PROVE  BudgetInv'
<1>1. TimeoutsSeen' = TimeoutsSeen
  BY TimeoutsAppend, TimeoutsNat DEF RecordFeedback, BudgetInv
<1>2. /\ step_count \in Nat /\ step_count < MaxDecisions
      /\ pending_call = NoCall
      /\ step_count' <= MaxDecisions
  BY LimitsAssumption DEF BudgetInv, TypeOK, TaskConsistent
<1> QED
  BY <1>1, <1>2, NoCallBudgets DEF RecordFeedback

\* A dispatched call has passed both budget tests.
LEMMA DispatchBudgets ==
  ASSUME BudgetInv, TypeOK', NEW r \in Requests, Dispatch(r)
  PROVE  BudgetInv'
<1> DEFINE c == Normal[r]
<1>1. /\ c \in Calls
      /\ pc = "deciding" /\ pc' = "calling"
      /\ step_count' = step_count + 1
      /\ pending_call' = c
      /\ attempt' = 0
      /\ UNCHANGED <<tool_call_count, tool_history, observations>>
      /\ ~CallBudgetSpent(tool_call_count)
      /\ ~IdenticalBudgetSpent(c, tool_history)
  BY CallFacts DEF Dispatch, DecisionArrives, RecordDecision
<1> HIDE DEF c
<1>2. /\ tool_history \in Seq(Calls)
      /\ step_count \in Nat /\ step_count < MaxDecisions
      /\ tool_call_count = Len(tool_history)
      /\ pending_call = NoCall
      /\ TimeoutsSeen \in Nat /\ TimeoutsSeen' = TimeoutsSeen
  BY <1>1, TimeoutsNat, SameObservations DEF BudgetInv, TypeOK, TaskConsistent
<1>3. /\ CallsMade = tool_history
      /\ CallsMade' = Append(tool_history, c)
      /\ Len(CallsMade') = Len(tool_history) + 1
  BY <1>1, <1>2, CallFacts DEF CallsMade
<1>4. TaskConsistent'
  BY <1>1, <1>2, <1>3, CallFacts DEF TaskConsistent, BudgetInv, RetriesExplained
<1>5. BudgetsRespected'
  <2>1. Len(CallsMade') <= MaxToolCalls /\ step_count' <= MaxDecisions
    BY <1>1, <1>2, <1>3, LimitsAssumption DEF CallBudgetSpent
  <2>2. ASSUME NEW d \in Calls
        PROVE  IdenticalCalls(d, Append(tool_history, c)) <= MaxIdentical
    <3>1. /\ IdenticalCalls(d, tool_history) \in Nat
          /\ IdenticalCalls(d, Append(tool_history, c))
               = IdenticalCalls(d, tool_history) + IF d = c THEN 1 ELSE 0
      BY <1>1, <1>2, IdenticalAppend
    <3>2. IdenticalCalls(d, tool_history) <= MaxIdentical
      BY <1>3 DEF BudgetInv, BudgetsRespected
    <3>3. d = c => IdenticalCalls(d, tool_history) < MaxIdentical
      BY <1>1, <3>1, LimitsAssumption DEF IdenticalBudgetSpent
    <3> QED
      BY <3>1, <3>2, <3>3, LimitsAssumption
  <2>3. \A d \in Calls : IdenticalCalls(d, CallsMade') <= MaxIdentical
    BY <1>3, <2>2
  <2> QED
    BY <2>1, <2>3 DEF BudgetsRespected, IdenticalCalls
<1>6. RetriesExplained'
  BY <1>1, <1>2, <1>3 DEF BudgetInv, RetriesExplained
<1> QED
  BY <1>4, <1>5, <1>6 DEF BudgetInv

LEMMA RecordResultBudgets ==
  ASSUME BudgetInv, TypeOK', pending_call # NoCall, NEW o \in Results(pending_call),
         RecordResult(o)
  PROVE  BudgetInv'
<1>1. pending_call \in Calls
  BY DEF BudgetInv, TypeOK
<1>2. o \in Observation
  BY <1>1, ResultsType
<1>3. /\ RecordToolResult(pending_call, o)
      /\ pc' = "loop" /\ pending_call' = NoCall
      /\ UNCHANGED step_count
  BY DEF RecordResult, ToolAnswers
<1>4. /\ CallsMade' = CallsMade
      /\ tool_call_count' = Len(tool_history')
      /\ TimeoutsSeen \in Nat /\ TimeoutsSeen' \in Nat /\ TimeoutsSeen' >= TimeoutsSeen
  BY <1>2, <1>3, RecordingKeepsCalls DEF CallsMade
<1>5. Len(CallsMade) \in Nat /\ step_count \in Nat
  BY <1>1 DEF BudgetInv, TypeOK, CallsMade
<1>6. TaskConsistent'
  BY <1>3, <1>4 DEF TaskConsistent
<1>7. BudgetsRespected' /\ RetriesExplained'
  BY <1>3, <1>4, <1>5 DEF BudgetInv, BudgetsRespected, RetriesExplained, IdenticalCalls
<1> QED
  BY <1>6, <1>7 DEF BudgetInv

\* A retry passes the budget tests again, on the counters that include the attempt
\* that timed out, and the timeout it answers pays for it.
LEMMA RetryBudgets ==
  ASSUME BudgetInv, TypeOK', pending_call # NoCall, NEW o \in Results(pending_call),
         RetryTimeout(o)
  PROVE  BudgetInv'
<1> DEFINE c == pending_call
<1>1. /\ c \in Calls
      /\ o \in Observation
      /\ RecordToolResult(c, o)
  BY ResultsType DEF BudgetInv, TypeOK, RetryTimeout
<1>2. /\ pc = "calling" /\ attempt = 0 /\ attempt' = 1
      /\ UNCHANGED <<pc, step_count, pending_call>>
      /\ o.outcome = "TOOL_TIMEOUT"
      /\ ~CallBudgetSpent(tool_call_count')
      /\ ~IdenticalBudgetSpent(c, tool_history')
  BY DEF RetryTimeout, ToolAnswers, RetryAllowed
<1>3. /\ tool_history' = CallsMade
      /\ tool_call_count' = Len(tool_history')
      /\ TimeoutsSeen \in Nat /\ TimeoutsSeen' = TimeoutsSeen + 1
  BY <1>1, <1>2, RecordingKeepsCalls
<1>4. /\ tool_history' \in Seq(Calls)
      /\ CallsMade' = Append(tool_history', c)
      /\ Len(CallsMade') = Len(CallsMade) + 1
      /\ Len(CallsMade) \in Nat
      /\ step_count \in Nat
  BY <1>1, <1>2, <1>3, CallFacts DEF TypeOK, BudgetInv, CallsMade
<1>5. TaskConsistent'
  BY <1>2, <1>3 DEF BudgetInv, TaskConsistent
<1>6. BudgetsRespected'
  <2>1. Len(CallsMade') <= MaxToolCalls /\ step_count' <= MaxDecisions
    BY <1>2, <1>3, <1>4, LimitsAssumption DEF CallBudgetSpent, BudgetInv, BudgetsRespected
  <2>2. ASSUME NEW d \in Calls
        PROVE  IdenticalCalls(d, Append(tool_history', c)) <= MaxIdentical
    <3>1. /\ IdenticalCalls(d, tool_history') \in Nat
          /\ IdenticalCalls(d, Append(tool_history', c))
               = IdenticalCalls(d, tool_history') + IF d = c THEN 1 ELSE 0
      BY <1>1, <1>4, IdenticalAppend
    <3>2. IdenticalCalls(d, tool_history') <= MaxIdentical
      BY <1>3 DEF BudgetInv, BudgetsRespected
    <3>3. d = c => IdenticalCalls(d, tool_history') < MaxIdentical
      BY <1>2, <3>1, LimitsAssumption DEF IdenticalBudgetSpent
    <3> QED
      BY <3>1, <3>2, <3>3, LimitsAssumption
  <2>3. \A d \in Calls : IdenticalCalls(d, CallsMade') <= MaxIdentical
    BY <1>4, <2>2
  <2> QED
    BY <2>1, <2>3 DEF BudgetsRespected, IdenticalCalls
<1>7. RetriesExplained'
  BY <1>2, <1>3, <1>4 DEF BudgetInv, TaskConsistent, RetriesExplained
<1> QED
  BY <1>5, <1>6, <1>7 DEF BudgetInv

LEMMA BudgetStep ==
  ASSUME BudgetInv, [Next]_vars
  PROVE  BudgetInv'
<1>0. TypeOK'
  BY TypeStep DEF BudgetInv
<1> USE <1>0
<1>a. /\ step_count \in Nat /\ step_count <= MaxDecisions
      /\ MaxDecisions \in Nat
  BY LimitsAssumption DEF BudgetInv, TypeOK, BudgetsRespected
<1>1. CASE StartDecision
  BY <1>1, <1>a, NoCallBudgets, SameObservations
     DEF StartDecision, session, BudgetInv, TaskConsistent
<1>2. CASE ReachDecisionLimit
  BY <1>2, <1>a, NoCallBudgets, SameObservations
     DEF ReachDecisionLimit, Return, BudgetInv, TaskConsistent
<1>3. CASE ResumeTimedOut \/ RaiseTimeoutError
  BY <1>3, ReturnTimedOutBudgets DEF ResumeTimedOut, RaiseTimeoutError
<1>4. CASE ResumeCancelled \/ RaiseException
  BY <1>4, <1>a, NoCallBudgets, SameObservations DEF ResumeCancelled, RaiseException, session
<1>5. ASSUME NEW answer \in Answers, AcceptFinalAnswer(answer)
      PROVE  BudgetInv'
  BY <1>5, <1>a, NoCallBudgets, SameObservations
     DEF AcceptFinalAnswer, DecisionArrives, RecordDecision, Return, BudgetInv, TaskConsistent
<1>6. CASE ProviderFails
  <2>1. /\ Failure(Provider, "PROVIDER_ERROR") \in Observation
        /\ Failure(Provider, "PROVIDER_ERROR").outcome # "TOOL_TIMEOUT"
    BY FailureType DEF Outcomes, Failure
  <2> QED
    BY <1>6, <2>1, FeedbackBudgets DEF ProviderFails, DecisionArrives, Return
<1>7. ASSUME NEW t \in Tools, NEW e \in Outcomes \ {"TOOL_TIMEOUT"}, Refuse(t, e)
      PROVE  BudgetInv'
  <2>1. Failure(t, e) \in Observation /\ Failure(t, e).outcome # "TOOL_TIMEOUT"
    BY FailureType DEF Failure
  <2> QED
    BY <1>7, <2>1, FeedbackBudgets DEF Refuse, DecisionArrives, RecordDecision
<1>8. ASSUME NEW r \in Requests, RejectRequest(r) \/ RefuseOverBudget(r) \/ RefuseIdentical(r)
      PROVE  BudgetInv'
  BY <1>7, <1>8, RequestsAssumption
     DEF RejectRequest, RefuseOverBudget, RefuseIdentical, Outcomes, LoopErrors
<1>9. ASSUME NEW r \in Requests, Dispatch(r)
      PROVE  BudgetInv'
  BY <1>9, DispatchBudgets
<1>10. ASSUME NEW o \in Results(pending_call), pending_call # NoCall,
              RecordResult(o) \/ RetryTimeout(o)
       PROVE  BudgetInv'
  BY <1>10, RecordResultBudgets, RetryBudgets
<1>11. CASE TimerFires \/ Cancel
  BY <1>11, <1>a, NoCallBudgets, SameObservations
     DEF TimerFires, Cancel, session, Suspended, BudgetInv, TaskConsistent
<1>12. CASE UNCHANGED vars
  BY <1>12 DEF vars, session, BudgetInv, TaskConsistent, BudgetsRespected,
               RetriesExplained, CallsMade, TimeoutsSeen, IdenticalCalls
<1> QED
  BY <1>1, <1>2, <1>3, <1>4, <1>5, <1>6, <1>8, <1>9, <1>10, <1>11, <1>12
     DEF Next, Local, ProviderAnswers, ToolReturns, Rest

LEMMA BudgetInit ==
  ASSUME Init
  PROVE  BudgetInv
<1>1. TypeOK
  BY TypeInit
<1>2. CallsMade = <<>> /\ TimeoutsSeen \in Nat
  BY <1>1, TimeoutsNat DEF Init, CallsMade
<1>3. TaskConsistent
  BY DEF Init, TaskConsistent
<1>4. BudgetsRespected
  BY <1>2, IdenticalEmpty, LimitsAssumption DEF Init, BudgetsRespected
<1>5. RetriesExplained
  BY <1>2 DEF Init, RetriesExplained
<1> QED
  BY <1>1, <1>3, <1>4, <1>5 DEF BudgetInv

\* No session exceeds its decisions, its tool calls or its identical calls, the
\* call in flight included, for any limits and any normalisation of the requests.
THEOREM BudgetsHold == Spec => []BudgetsRespected
<1>1. Init => BudgetInv
  BY BudgetInit
<1>2. BudgetInv /\ [Next]_vars => BudgetInv'
  BY BudgetStep
<1>3. BudgetInv => BudgetsRespected
  BY DEF BudgetInv
<1> QED
  BY <1>1, <1>2, <1>3, PTL DEF Spec

\* A session makes at most two calls for one decision, the second only after a
\* TOOL_TIMEOUT of the first.
THEOREM RetriesAreExplained == Spec => []RetriesExplained
<1>1. Init => BudgetInv
  BY BudgetInit
<1>2. BudgetInv /\ [Next]_vars => BudgetInv'
  BY BudgetStep
<1>3. BudgetInv => RetriesExplained
  BY DEF BudgetInv
<1> QED
  BY <1>1, <1>2, <1>3, PTL DEF Spec

-----------------------------------------------------------------------------
(* Request ids.  Only record_tool_result writes them, next to the observation  *)
(* that carries one; feedback carries none.                                    *)

LEMMA IdsAppend ==
  ASSUME NEW obs \in Seq(Observation), NEW o \in Observation
  PROVE  Carried(Append(obs, o)) = Carried(obs) \cup ({o.request_id} \ {NoId})
  BY DEF Carried

LEMMA IdsOfFeedback ==
  ASSUME TypeOK, RequestIdsCollected, NEW o \in Observation, o.request_id = NoId,
         observations' = Append(observations, o), UNCHANGED request_ids
  PROVE  RequestIdsCollected'
<1>1. Carried(observations') = Carried(observations)
  <2>1. observations \in Seq(Observation)
    BY DEF TypeOK
  <2>2. Carried(Append(observations, o)) = Carried(observations) \cup ({o.request_id} \ {NoId})
    BY <2>1, IdsAppend
  <2>3. {o.request_id} \ {NoId} = {}
    OBVIOUS
  <2> QED
    BY <2>2, <2>3
<1>2. Kept(request_ids') = Carried(observations')
  BY <1>1 DEF RequestIdsCollected
<1>3. Distinct(request_ids')
  BY DEF RequestIdsCollected
<1> QED
  BY <1>2, <1>3 DEF RequestIdsCollected, Kept, Carried, Distinct

LEMMA IdsOfResult ==
  ASSUME TypeOK, RequestIdsCollected, NEW c, NEW o \in Observation,
         RecordToolResult(c, o)
  PROVE  RequestIdsCollected'
<1>1. /\ request_ids \in Seq(RequestIds)
      /\ Carried(observations') = Carried(observations) \cup ({o.request_id} \ {NoId})
  BY IdsAppend DEF TypeOK, RecordToolResult
<1>2. CASE o.request_id = NoId \/ Known(o.request_id)
  <2>1. request_ids' = request_ids
    BY <1>2 DEF RecordToolResult
  <2>2. o.request_id # NoId => o.request_id \in Kept(request_ids)
    BY <1>2 DEF Known, Kept
  <2>3. Kept(request_ids') = Carried(observations') /\ Distinct(request_ids')
    BY <1>1, <2>1, <2>2 DEF RequestIdsCollected
  <2> QED
    BY <2>3 DEF RequestIdsCollected, Kept, Carried, Distinct
<1>3. CASE o.request_id # NoId /\ ~Known(o.request_id)
  <2>1. request_ids' = Append(request_ids, o.request_id)
    BY <1>3 DEF RecordToolResult
  <2>2. o.request_id \in RequestIds
    BY <1>3 DEF Observation
  <2>3. Kept(request_ids') = Kept(request_ids) \cup {o.request_id}
    BY <1>1, <2>1, <2>2 DEF Kept
  <2>4. \A i \in 1..Len(request_ids) : request_ids[i] # o.request_id
    BY <1>3 DEF Known
  <2>5. Distinct(request_ids')
    BY <1>1, <2>1, <2>2, <2>4 DEF RequestIdsCollected, Distinct
  <2>6. Kept(request_ids') = Carried(observations')
    BY <1>1, <1>3, <2>3 DEF RequestIdsCollected
  <2> QED
    BY <2>5, <2>6 DEF RequestIdsCollected, Kept, Carried, Distinct
<1> QED
  BY <1>2, <1>3

LEMMA IdsStep ==
  ASSUME TypeOK, RequestIdsCollected, [Next]_vars
  PROVE  RequestIdsCollected'
<1>1. CASE UNCHANGED <<observations, request_ids>>
  <2>1. Carried(observations)' = Carried(observations)
    BY <1>1 DEF Carried
  <2>2. Kept(request_ids)' = Kept(request_ids)
    BY <1>1 DEF Kept
  <2>3. Distinct(request_ids)'
    BY <1>1 DEF RequestIdsCollected, Distinct
  <2> QED
    BY <2>1, <2>2, <2>3 DEF RequestIdsCollected
<1>2. ASSUME NEW t \in Tools \cup {Provider}, NEW e \in Outcomes,
             RecordFeedback(Failure(t, e))
      PROVE  RequestIdsCollected'
  <2>1. Failure(t, e) \in Observation /\ Failure(t, e).request_id = NoId
    BY FailureType DEF Failure
  <2> QED
    BY <1>2, <2>1, IdsOfFeedback DEF RecordFeedback
<1>3. ASSUME ReturnTimedOut, pending_call # NoCall
      PROVE  RequestIdsCollected'
  <2>1. pending_call \in Calls
    BY <1>3 DEF TypeOK
  <2>2. Failure(ToolName[pending_call], "SESSION_TIMEOUT") \in Observation
    BY <2>1, CallFacts, FailureType DEF Outcomes, LoopErrors
  <2> QED
    BY <1>3, <2>2, IdsOfResult DEF ReturnTimedOut
<1>4. ASSUME NEW o \in Results(pending_call), pending_call # NoCall,
             RecordToolResult(pending_call, o)
      PROVE  RequestIdsCollected'
  BY <1>4, ResultsType, IdsOfResult DEF TypeOK
<1>5. CASE Local \/ RaiseTimeoutError
  BY <1>1, <1>3, <1>5
     DEF Local, StartDecision, ReachDecisionLimit, ResumeTimedOut, ResumeCancelled,
         RaiseTimeoutError, ReturnTimedOut, session
<1>6. CASE ProviderAnswers
  BY <1>1, <1>2, <1>6, RequestsAssumption
     DEF ProviderAnswers, AcceptFinalAnswer, ProviderFails, RejectRequest, RefuseOverBudget,
         RefuseIdentical, Refuse, Dispatch, Outcomes, LoopErrors
<1>7. CASE ToolReturns
  BY <1>4, <1>7 DEF ToolReturns, RecordResult, RetryTimeout
<1>8. CASE RaiseException \/ TimerFires \/ Cancel \/ Rest \/ UNCHANGED vars
  BY <1>1, <1>8 DEF RaiseException, TimerFires, Cancel, Rest, vars, session
<1> QED
  BY <1>5, <1>6, <1>7, <1>8 DEF Next

\* The request ids of a session are exactly those its observations carry, each once.
THEOREM RequestIdsAreCollected == Spec => []RequestIdsCollected
<1>1. Init => RequestIdsCollected
  BY DEF Init, RequestIdsCollected, Kept, Carried, Distinct
<1>2. TypeOK /\ RequestIdsCollected /\ [Next]_vars => RequestIdsCollected'
  BY IdsStep
<1> QED
  BY <1>1, <1>2, TypeCorrect, PTL DEF Spec

-----------------------------------------------------------------------------
(* The history.  Whatever records a call appends its result as well, and what  *)
(* is recorded without a call is never a tool's result.                        *)

\* A step that records nothing, or feedback only.
LEMMA HistoryUntouched ==
  ASSUME TypeOK, HistoryMatchesObservations, UNCHANGED <<tool_call_count, tool_history>>,
         \/ UNCHANGED observations
         \/ \E o \in Observation : /\ ~IsToolResult(o)
                                  /\ observations' = Append(observations, o)
  PROVE  HistoryMatchesObservations'
<1>1. Selected(observations', OfTools) = Selected(observations, OfTools)
  <2>1. CASE UNCHANGED observations
    BY <2>1
  <2>2. ASSUME NEW o \in Observation, ~IsToolResult(o), observations' = Append(observations, o)
        PROVE  Selected(observations', OfTools) = Selected(observations, OfTools)
    <3>1. observations \in Seq(Observation) /\ o \notin OfTools
      BY <2>2 DEF TypeOK, OfTools
    <3> QED
      BY <2>2, <3>1, SelectedAppend
  <2> QED
    BY <2>1, <2>2
<1> QED
  BY <1>1 DEF HistoryMatchesObservations

LEMMA HistoryRecorded ==
  ASSUME TypeOK, HistoryMatchesObservations, NEW c \in Calls, NEW o \in Observation,
         o.tool = ToolName[c], IsToolResult(o), RecordToolResult(c, o)
  PROVE  HistoryMatchesObservations'
<1> DEFINE results == Selected(observations, OfTools)
           next == Selected(observations', OfTools)
<1>1. /\ observations \in Seq(Observation)
      /\ o \in OfTools
      /\ tool_history \in Seq(Calls)
  BY DEF TypeOK, OfTools
<1>2. results \in Seq(Observation \cap OfTools)
  BY <1>1, SelectedType
<1>3. next = Append(results, o)
  BY <1>1, SelectedAppend DEF RecordToolResult
<1>4. /\ tool_call_count = Len(tool_history)
      /\ Len(results) = Len(tool_history)
      /\ \A i \in 1..Len(results) : results[i].tool = ToolName[tool_history[i]]
  BY DEF HistoryMatchesObservations
<1> HIDE DEF results, next
<1>5. tool_history' = Append(tool_history, c) /\ tool_call_count' = tool_call_count + 1
  BY DEF RecordToolResult
<1>6. /\ Len(next) = Len(results) + 1 /\ next[Len(next)] = o
      /\ \A i \in 1..Len(results) : next[i] = results[i]
      /\ Len(results) \in Nat
  BY <1>2, <1>3, <1>1 DEF OfTools
<1>7. /\ Len(tool_history') = Len(tool_history) + 1
      /\ tool_history'[Len(tool_history')] = c
      /\ \A i \in 1..Len(tool_history) : tool_history'[i] = tool_history[i]
  BY <1>1, <1>5
<1>8. \A i \in 1..Len(next) : next[i].tool = ToolName[tool_history'[i]]
  BY <1>4, <1>6, <1>7
<1> QED
  BY <1>4, <1>5, <1>6, <1>7, <1>8 DEF HistoryMatchesObservations, next

LEMMA HistoryStep ==
  ASSUME TypeOK, HistoryMatchesObservations, [Next]_vars
  PROVE  HistoryMatchesObservations'
<1>1. CASE UNCHANGED <<observations, tool_call_count, tool_history>>
  BY <1>1, HistoryUntouched
<1>2. ASSUME NEW t \in Tools \cup {Provider}, NEW e \in Outcomes,
             e \in {"REJECTED", "PROVIDER_ERROR", "TOOL_CALL_LIMIT_REACHED",
                   "IDENTICAL_TOOL_CALL_LIMIT_REACHED"},
             RecordFeedback(Failure(t, e))
      PROVE  HistoryMatchesObservations'
  <2>1. Failure(t, e) \in Observation /\ ~IsToolResult(Failure(t, e))
    BY <1>2, FailureType DEF Failure, IsToolResult
  <2> QED
    BY <1>2, <2>1, HistoryUntouched DEF RecordFeedback
<1>3. ASSUME ReturnTimedOut, pending_call # NoCall
      PROVE  HistoryMatchesObservations'
  <2> DEFINE o == Failure(ToolName[pending_call], "SESSION_TIMEOUT")
  <2>1. pending_call \in Calls
    BY <1>3 DEF TypeOK
  <2>2. o \in Observation /\ o.tool = ToolName[pending_call] /\ IsToolResult(o)
    BY <2>1, CallFacts, FailureType DEF Outcomes, LoopErrors, Failure, IsToolResult
  <2>3. RecordToolResult(pending_call, o)
    BY <1>3 DEF ReturnTimedOut
  <2> QED
    BY <2>1, <2>2, <2>3, HistoryRecorded
<1>4. ASSUME NEW o \in Results(pending_call), pending_call # NoCall,
             RecordToolResult(pending_call, o)
      PROVE  HistoryMatchesObservations'
  <2>1. pending_call \in Calls
    BY <1>4 DEF TypeOK
  <2>2. IsToolResult(o) /\ o \in Observation /\ o.tool = ToolName[pending_call]
    BY <2>1, ResultsType DEF IsToolResult
  <2> QED
    BY <1>4, <2>1, <2>2, HistoryRecorded
<1>5. CASE Local \/ RaiseTimeoutError
  BY <1>1, <1>3, <1>5
     DEF Local, StartDecision, ReachDecisionLimit, ResumeTimedOut, ResumeCancelled,
         RaiseTimeoutError, ReturnTimedOut, session
<1>6. CASE ProviderAnswers
  BY <1>1, <1>2, <1>6, RequestsAssumption
     DEF ProviderAnswers, AcceptFinalAnswer, ProviderFails, RejectRequest, RefuseOverBudget,
         RefuseIdentical, Refuse, Dispatch, Outcomes, LoopErrors
<1>7. CASE ToolReturns
  BY <1>4, <1>7 DEF ToolReturns, RecordResult, RetryTimeout
<1>8. CASE RaiseException \/ TimerFires \/ Cancel \/ Rest \/ UNCHANGED vars
  BY <1>1, <1>8 DEF RaiseException, TimerFires, Cancel, Rest, vars, session
<1> QED
  BY <1>5, <1>6, <1>7, <1>8 DEF Next

LEMMA HistoryInit == Init => HistoryMatchesObservations
<1> SUFFICES ASSUME Init PROVE HistoryMatchesObservations
  OBVIOUS
<1>1. Selected(observations, OfTools) = <<>>
  BY SelectedEmpty DEF Init
<1> QED
  BY <1>1 DEF Init, HistoryMatchesObservations

\* The calls of the history and the results among the observations are one list: as
\* many, in the same order, each result from its call's tool.
THEOREM HistoryMatches == Spec => []HistoryMatchesObservations
<1>1. Init => HistoryMatchesObservations
  BY HistoryInit
<1>2. TypeOK /\ HistoryMatchesObservations /\ [Next]_vars => HistoryMatchesObservations'
  BY HistoryStep
<1> QED
  BY <1>1, <1>2, TypeCorrect, PTL DEF Spec

-----------------------------------------------------------------------------
(* The reported limit *)

\* The loop is never entered with a cancellation outstanding, so the decision limit
\* is not mistaken for an interruption.
Uninterrupted == pc \in {"loop", "returned"} => ~cancelled

LimitsInv == BudgetInv /\ LimitsReportedFaithfully /\ Uninterrupted

LEMMA LimitsKept ==
  ASSUME LimitsReportedFaithfully, Uninterrupted, pc # "returned", pc' # "returned",
         UNCHANGED <<status, diagnosis>>, pc' = "loop" => ~cancelled'
  PROVE  LimitsReportedFaithfully' /\ Uninterrupted'
<1>1. diagnosis = NoDiagnosis
  BY DEF LimitsReportedFaithfully
<1>2. diagnosis'.status # "LIMIT_REACHED"
  BY <1>1 DEF NoDiagnosis
<1> QED
  BY <1>1, <1>2 DEF LimitsReportedFaithfully, Uninterrupted

LEMMA LimitsReturned ==
  ASSUME BudgetInv', ~cancelled', NEW d, Return(d), d # NoDiagnosis,
         d.status = "LIMIT_REACHED" =>
           /\ d.evidence = CollectedEvidence(observations')
           /\ d.missing_evidence = "DECISION_LIMIT" => step_count' = MaxDecisions
  PROVE  LimitsReportedFaithfully' /\ Uninterrupted'
<1>1. CollectedEvidence(observations)' = CollectedEvidence(observations')
  BY DEF CollectedEvidence
<1> QED
  BY <1>1 DEF LimitsReportedFaithfully, Uninterrupted, Return

LEMMA LimitReachedFields ==
  ASSUME NEW reason, NEW obs
  PROVE  LET d == LimitReached(reason, obs)
         IN  /\ d # NoDiagnosis
             /\ d.evidence = CollectedEvidence(obs)
             /\ d.missing_evidence = reason
  BY DEF LimitReached, NoDiagnosis

LEMMA LimitsStep ==
  ASSUME LimitsInv, [Next]_vars
  PROVE  LimitsInv'
<1> USE DEF LimitsInv
<1>0. BudgetInv /\ BudgetInv'
  BY BudgetStep
<1>1. CASE StartDecision \/ ResumeCancelled \/ RaiseException \/ TimerFires \/ Cancel
  BY <1>0, <1>1, LimitsKept
     DEF StartDecision, ResumeCancelled, RaiseException, TimerFires, Cancel, session, Suspended
<1>2. CASE ReachDecisionLimit
  <2>1. step_count' = MaxDecisions
    BY <1>0, <1>2, LimitsAssumption DEF ReachDecisionLimit, BudgetInv, TypeOK, BudgetsRespected
  <2>2. /\ Return(LimitReached("DECISION_LIMIT", observations'))
        /\ ~cancelled'
    BY <1>2 DEF ReachDecisionLimit, Uninterrupted
  <2> QED
    BY <1>0, <2>1, <2>2, LimitsReturned, LimitReachedFields
<1>3. CASE ResumeTimedOut \/ RaiseTimeoutError
  <2>1. /\ Return(LimitReached("SESSION_TIMEOUT", observations'))
        /\ ~cancelled'
    BY <1>3 DEF ResumeTimedOut, RaiseTimeoutError, ReturnTimedOut, Interrupted
  <2>2. LimitReached("SESSION_TIMEOUT", observations').missing_evidence # "DECISION_LIMIT"
    BY LimitReachedFields
  <2> QED
    BY <1>0, <2>1, <2>2, LimitsReturned, LimitReachedFields
<1>4. ASSUME NEW answer, answer \notin {"NONE", "LIMIT_REACHED"},
             Return([status |-> answer]), DecisionArrives
      PROVE  LimitsInv'
  <2>1. /\ [status |-> answer] # NoDiagnosis
        /\ [status |-> answer].status # "LIMIT_REACHED"
        /\ ~cancelled'
    BY <1>4 DEF NoDiagnosis, DecisionArrives, Interrupted
  <2> QED
    BY <1>0, <1>4, <2>1, LimitsReturned
<1>5. ASSUME NEW t, NEW e, Refuse(t, e)
      PROVE  LimitsInv'
  BY <1>0, <1>5, LimitsKept DEF Refuse, DecisionArrives, Interrupted
<1>6. CASE ProviderAnswers
  <2>1. ASSUME NEW answer \in Answers, AcceptFinalAnswer(answer) PROVE LimitsInv'
    BY <1>4, <2>1, AnswersAssumption DEF AcceptFinalAnswer
  <2>2. CASE ProviderFails
    BY <1>4, <2>2 DEF ProviderFails
  <2>3. ASSUME NEW r \in Requests, RejectRequest(r) \/ RefuseOverBudget(r) \/ RefuseIdentical(r)
        PROVE  LimitsInv'
    BY <1>5, <2>3 DEF RejectRequest, RefuseOverBudget, RefuseIdentical
  <2>4. ASSUME NEW r \in Requests, Dispatch(r) PROVE LimitsInv'
    BY <1>0, <2>4, LimitsKept DEF Dispatch, DecisionArrives
  <2> QED
    BY <1>6, <2>1, <2>2, <2>3, <2>4 DEF ProviderAnswers
<1>7. ASSUME NEW o, RecordResult(o) \/ RetryTimeout(o) PROVE LimitsInv'
  BY <1>0, <1>7, LimitsKept DEF RecordResult, RetryTimeout, ToolAnswers, Interrupted
<1>8. CASE UNCHANGED vars
  BY <1>0, <1>8 DEF vars, session, LimitsReportedFaithfully, Uninterrupted, CollectedEvidence
<1> QED
  BY <1>1, <1>2, <1>3, <1>6, <1>7, <1>8 DEF Next, Local, ToolReturns, Rest

LEMMA LimitsInit ==
  ASSUME Init
  PROVE  LimitsInv
<1>1. BudgetInv
  BY BudgetInit
<1>2. /\ pc = "loop" /\ status = "RUNNING"
      /\ diagnosis = NoDiagnosis
      /\ diagnosis.status # "LIMIT_REACHED"
  BY DEF Init, NoDiagnosis
<1>3. Uninterrupted
  BY DEF Init, Uninterrupted
<1> QED
  BY <1>1, <1>2, <1>3 DEF LimitsInv, LimitsReportedFaithfully

\* A session that stops at a limit returns every success as evidence and names the
\* decision limit only when it was met; it is COMPLETED exactly when it returned.
THEOREM LimitsAreReportedFaithfully == Spec => []LimitsReportedFaithfully
<1>1. Init => LimitsInv
  BY LimitsInit
<1>2. LimitsInv /\ [Next]_vars => LimitsInv'
  BY LimitsStep
<1>3. LimitsInv => LimitsReportedFaithfully
  BY DEF LimitsInv
<1> QED
  BY <1>1, <1>2, <1>3, PTL DEF Spec

-----------------------------------------------------------------------------
(* Refinement *)

LEMMA MadeIsIdentical ==
  ASSUME NEW c
  PROVE  Bounded!Made(c) = IdenticalCalls(c, CallsMade)
<1>1. ASSUME NEW S PROVE Bounded!Cardinality(S) = Cardinality(S)
  BY DEF Bounded!Cardinality, Cardinality
<1> QED
  BY <1>1 DEF Bounded!Made, IdenticalCalls

LEMMA RefinementInit == Init => Bounded!Init
  BY DEF Init, Bounded!Init, CallsMade, Ended

\* A step that leaves the calls made alone is a stutter, a decision or a closing.
LEMMA RefinementQuiet ==
  ASSUME BudgetInv, CallsMade' = CallsMade, ~Ended,
         \/ step_count' = step_count
         \/ /\ pc = "deciding"
            /\ step_count' = step_count + 1
            /\ ~Ended' \/ pc' = "returned"
  PROVE  [Bounded!Next]_(Bounded!billing)
<1>1. CASE step_count' = step_count
  BY <1>1 DEF Ended, Bounded!Next, Bounded!Close, Bounded!Ends, Bounded!billing
<1>2. CASE pc = "deciding" /\ step_count' = step_count + 1 /\ (~Ended' \/ pc' = "returned")
  BY <1>2 DEF Ended, BudgetInv, TaskConsistent, Bounded!Next, Bounded!Decide
<1> QED
  BY <1>1, <1>2

LEMMA RefinementStep ==
  ASSUME BudgetInv, [Next]_vars
  PROVE  [Bounded!Next]_(Bounded!billing)
<1>0. BudgetInv' /\ TypeOK'
  BY BudgetStep DEF BudgetInv
<1>1. CASE \/ StartDecision \/ ReachDecisionLimit \/ ResumeCancelled \/ RaiseException
           \/ TimerFires \/ Cancel
  BY <1>1, RefinementQuiet
     DEF StartDecision, ReachDecisionLimit, ResumeCancelled, RaiseException, TimerFires,
         Cancel, session, Return, Suspended, Ended, CallsMade
<1>2. CASE ResumeTimedOut \/ RaiseTimeoutError
  <2>1. ReturnTimedOut /\ ~Ended
    BY <1>2 DEF ResumeTimedOut, RaiseTimeoutError, Suspended, Ended
  <2>2. CallsMade' = CallsMade /\ step_count' = step_count
    BY <2>1 DEF ReturnTimedOut, RecordToolResult, CallsMade
  <2> QED
    BY <2>1, <2>2, RefinementQuiet
<1>3. ASSUME NEW answer \in Answers, AcceptFinalAnswer(answer)
      PROVE  [Bounded!Next]_(Bounded!billing)
  BY <1>3, RefinementQuiet
     DEF AcceptFinalAnswer, DecisionArrives, RecordDecision, Return, Ended, CallsMade
<1>4. CASE ProviderFails
  BY <1>4, RefinementQuiet
     DEF ProviderFails, DecisionArrives, RecordFeedback, Return, Ended, CallsMade
<1>5. ASSUME NEW r \in Requests, RejectRequest(r) \/ RefuseOverBudget(r) \/ RefuseIdentical(r)
      PROVE  [Bounded!Next]_(Bounded!billing)
  BY <1>5, RefinementQuiet
     DEF RejectRequest, RefuseOverBudget, RefuseIdentical, Refuse, DecisionArrives,
         RecordDecision, RecordFeedback, Ended, CallsMade
<1>6. ASSUME NEW r \in Requests, Dispatch(r)
      PROVE  [Bounded!Next]_(Bounded!billing)
  <2>1. /\ pc = "deciding" /\ pc' = "calling"
        /\ Normal[r] \in Calls
        /\ step_count' = step_count + 1
        /\ ~CallBudgetSpent(tool_call_count)
        /\ ~IdenticalBudgetSpent(Normal[r], tool_history)
        /\ CallsMade' = Append(tool_history, Normal[r])
    BY <1>6, CallFacts DEF Dispatch, DecisionArrives, RecordDecision, CallsMade
  <2>2. /\ CallsMade = tool_history
        /\ tool_call_count = Len(tool_history)
        /\ Len(tool_history) \in Nat
        /\ IdenticalCalls(Normal[r], tool_history) \in Nat
        /\ step_count < MaxDecisions
    BY <2>1, IdenticalAppend DEF BudgetInv, TypeOK, TaskConsistent, CallsMade
  <2>3. Bounded!Call(Normal[r])
    BY <2>1, <2>2, MadeIsIdentical, LimitsAssumption
       DEF Bounded!Call, CallBudgetSpent, IdenticalBudgetSpent
  <2> QED
    BY <2>1, <2>2, <2>3 DEF Bounded!Next, Bounded!Decide, Ended
<1>7. ASSUME NEW o \in Results(pending_call), pending_call # NoCall, RecordResult(o)
      PROVE  [Bounded!Next]_(Bounded!billing)
  <2>1. CallsMade' = CallsMade /\ step_count' = step_count /\ ~Ended
    BY <1>7 DEF RecordResult, ToolAnswers, RecordToolResult, CallsMade, Ended
  <2> QED
    BY <2>1, RefinementQuiet
<1>8. ASSUME NEW o \in Results(pending_call), pending_call # NoCall, RetryTimeout(o)
      PROVE  [Bounded!Next]_(Bounded!billing)
  <2>1. /\ ~Ended /\ ~Ended'
        /\ UNCHANGED step_count
        /\ tool_history' = CallsMade
        /\ CallsMade' = Append(CallsMade, pending_call)
        /\ tool_call_count' = Len(CallsMade)
        /\ ~CallBudgetSpent(tool_call_count')
        /\ ~IdenticalBudgetSpent(pending_call, tool_history')
    BY <1>0, <1>8 DEF RetryTimeout, ToolAnswers, RetryAllowed, RecordToolResult, CallsMade,
                      Ended, BudgetInv, TaskConsistent
  <2>2. /\ pending_call \in Calls
        /\ CallsMade = Append(tool_history, pending_call)
        /\ tool_history \in Seq(Calls)
        /\ CallsMade \in Seq(Calls)
        /\ IdenticalCalls(pending_call, CallsMade) \in Nat
    BY <1>8, IdenticalAppend DEF BudgetInv, TypeOK, CallsMade
  <2>3. CallsMade # <<>> /\ CallsMade[Len(CallsMade)] = pending_call
    BY <2>2
  <2>4. Bounded!Call(pending_call)
    BY <2>1, <2>2, MadeIsIdentical, LimitsAssumption
       DEF Bounded!Call, CallBudgetSpent, IdenticalBudgetSpent
  <2> QED
    BY <2>1, <2>3, <2>4 DEF Bounded!Next, Bounded!Retry
<1>9. CASE UNCHANGED vars
  BY <1>9 DEF vars, session, Bounded!billing, CallsMade, Ended
<1> QED
  BY <1>1, <1>2, <1>3, <1>4, <1>5, <1>6, <1>7, <1>8, <1>9
     DEF Next, Local, ProviderAnswers, ToolReturns, Rest

\* The loop implements the bounded session.
THEOREM LoopImplementsBoundedSession == Spec => BoundedSpec
<1>1. Init => BudgetInv /\ Bounded!Init
  BY BudgetInit, RefinementInit
<1>2. BudgetInv /\ [Next]_vars => BudgetInv' /\ [Bounded!Next]_(Bounded!billing)
  BY BudgetStep, RefinementStep
<1> QED
  BY <1>1, <1>2, PTL DEF Spec, BoundedSpec, Bounded!Spec
=============================================================================
