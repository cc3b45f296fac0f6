------------------------- MODULE CollaboratorProofs -------------------------
(***************************************************************************)
(* What the loop and its collaborators keep true between them, however long *)
(* a session runs.                                                         *)
(*                                                                         *)
(* The first part is about the model provider.  Its invariant speaks of    *)
(* the answers one by one: each continues the answer it names, which was a *)
(* valid call, with the observations that followed those the call was      *)
(* asked with (Continues); and it says where the loop stands in that       *)
(* (ConversationInv).  What the whole thread looks like follows from it by *)
(* an induction over the answers.                                          *)
(*                                                                         *)
(* The second part is about the loop and the Sandbox API.  Each of them    *)
(* keeps its own invariant, because beside the other it still takes only   *)
(* its own steps (ClientIsLoop, ServerIsSandbox); what relates them is     *)
(* TraceInv: the k-th HTTP call of the history is the k-th sent, is        *)
(* request k of the server, and its result the k-th HTTP observation.      *)
(***************************************************************************)
EXTENDS ProviderConversation, LoopOnSandbox, AgentLoopProofs

InputType ==
  {Issue} \cup [kind : {"function_call_output"}, call : Nat, first : Nat, last : Nat]
AnswerType ==
  [previous : Nat \cup {None}, input : InputType, valid : BOOLEAN, call : BOOLEAN]

\* The first observation an input that follows this one is to tell.
NextFirst(input) == IF input = Issue THEN 1 ELSE input.last + 1

\* An input that goes to the model after answer m, or opens the conversation.
Continues(input, m) ==
  IF m = 0 THEN input = Issue
  ELSE /\ answers[m].valid = TRUE /\ answers[m].call = TRUE
       /\ input.kind = "function_call_output"
       /\ input.call = m
       /\ input.first = NextFirst(answers[m].input)
       /\ input.first <= input.last

Linked(n) ==
  LET m == Position(answers[n].previous)
  IN  m \in 0..(n - 1) /\ Continues(answers[n].input, m)

\* The stored answers, and the one the conversation has come to.
Remote ==
  /\ answers \in Seq(AnswerType)
  /\ \A n \in 1..Len(answers) : Linked(n)
  /\ response_id = None \/ response_id \in 1..Len(answers)
  /\ response_id # None => answers[response_id].valid = TRUE

\* The loop owes the model the observations after the cursor.
Owing ==
  IF response_id = None
  THEN pending_call_id = None /\ observations = <<>> /\ pc # "calling"
  ELSE /\ pending_call_id = response_id
       /\ answers[response_id].call = TRUE
       /\ observation_cursor \in Nat
       /\ observation_cursor + 1 = NextFirst(answers[response_id].input)
       /\ observation_cursor <= Len(observations)
       /\ pc = "loop" => observation_cursor < Len(observations)

\* It has asked with all of them.
Asked ==
  /\ request = [previous |-> request.previous, input |-> request.input,
                correction |-> request.correction]
  /\ request.previous = response_id
  /\ request.input \in InputType
  /\ request.correction \in BOOLEAN
  /\ Continues(request.input, Position(response_id))
  /\ NextFirst(request.input) = Len(observations) + 1

ConversationInv ==
  /\ Remote
  /\ pc \in {"loop", "calling"} => Owing
  /\ pc = "deciding" => Asked

-----------------------------------------------------------------------------
(* Inputs and answers *)

LEMMA InputFacts ==
  /\ Issue \in InputType /\ Issue.kind = "issue"
  /\ \A i \in InputType :
       i # Issue => /\ i.kind = "function_call_output"
                    /\ i.call \in Nat /\ i.first \in Nat /\ i.last \in Nat
  /\ \A i \in InputType : NextFirst(i) \in Nat
  BY DEF InputType, Issue, NextFirst

\* What was answered before stays as it is when one more answer is stored.
LEMMA AnswersGrow ==
  ASSUME Remote, NEW a \in AnswerType, answers' = Append(answers, a),
         NEW m, m = Position(a.previous), m \in 0..Len(answers), Continues(a.input, m)
  PROVE  /\ answers' \in Seq(AnswerType)
         /\ Len(answers') = Len(answers) + 1
         /\ answers'[Len(answers')] = a
         /\ \A n \in 1..Len(answers) : answers'[n] = answers[n]
         /\ \A n \in 1..Len(answers') : Linked(n)'
         /\ \A i, n : n \in 0..Len(answers) /\ Continues(i, n) => Continues(i, n)'
<1>1. /\ answers \in Seq(AnswerType) /\ Len(answers) \in Nat
      /\ \A n \in 1..Len(answers) : Linked(n)
  BY DEF Remote
<1>2. /\ answers' \in Seq(AnswerType)
      /\ Len(answers') = Len(answers) + 1
      /\ answers'[Len(answers')] = a
      /\ \A n \in 1..Len(answers) : answers'[n] = answers[n]
  BY <1>1
<1>3. ASSUME NEW i, NEW n, n \in 0..Len(answers), Continues(i, n)
      PROVE  Continues(i, n)'
  <2>1. n # 0 => n \in 1..Len(answers)
    BY <1>1, <1>3
  <2> QED
    BY <1>2, <1>3, <2>1 DEF Continues
<1>4. ASSUME NEW n \in 1..Len(answers')
      PROVE  Linked(n)'
  <2>1. CASE n \in 1..Len(answers)
    <3>1. answers'[n] = answers[n] /\ Linked(n)
      BY <1>1, <1>2, <2>1
    <3>2. PICK k : k = Position(answers[n].previous)
      OBVIOUS
    <3>3. k \in 0..(n - 1) /\ k \in 0..Len(answers) /\ Continues(answers[n].input, k)
      BY <1>1, <2>1, <3>1, <3>2 DEF Linked
    <3>4. Continues(answers[n].input, k)'
      <4>1. PICK i : i = answers[n].input
        OBVIOUS
      <4>2. Continues(i, k)'
        BY <1>3, <3>3, <4>1
      <4>3. answers'[n].input = i
        BY <3>1, <4>1
      <4> QED
        BY <4>2, <4>3 DEF Continues
    <3> QED
      BY <3>1, <3>2, <3>3, <3>4 DEF Linked, Position
  <2>2. CASE n = Len(answers')
    <3>1. answers'[n] = a /\ n - 1 = Len(answers)
      BY <1>1, <1>2, <2>2
    <3>2. PICK i : i = a.input
      OBVIOUS
    <3>3. Continues(i, m)'
      BY <1>3, <3>2
    <3> QED
      BY <3>1, <3>2, <3>3 DEF Linked, Position, Continues
  <2> QED
    BY <1>1, <1>2, <2>1, <2>2
<1> QED
  BY <1>2, <1>3, <1>4
-----------------------------------------------------------------------------
(* The loop inside the conversation *)

LEMMA StepsOfTheLoop ==
  ASSUME [PNext]_pvars
  PROVE  [Next]_vars
<1>1. Ask => StartDecision
  BY DEF Ask
<1>2. \A raised \in BOOLEAN : Correct(raised) => UNCHANGED vars
  BY DEF Correct, InvalidOutput, DecisionArrives, vars, session
<1>3. \A raised \in BOOLEAN : FailAfterCorrection(raised) => ProviderFails
  BY DEF FailAfterCorrection
<1>4. FailOnApiError => ProviderFails
  BY DEF FailOnApiError
<1>5. \A answer \in Answers : DecideFinal(answer) => AcceptFinalAnswer(answer)
  BY DEF DecideFinal
<1>6. \A r \in Requests :
        DecideCall(r) => RejectRequest(r) \/ RefuseOverBudget(r) \/ RefuseIdentical(r)
                           \/ Dispatch(r)
  BY DEF DecideCall
<1>7. Interrupts(ResumeTimedOut) => ResumeTimedOut
  BY DEF Interrupts
<1>8. Interrupts(ResumeCancelled) => ResumeCancelled
  BY DEF Interrupts
<1>9. Interrupts(RaiseTimeoutError) => RaiseTimeoutError
  BY DEF Interrupts
<1>10. Interrupts(RaiseException) => RaiseException
  BY DEF Interrupts
<1>11. Elsewhere => ReachDecisionLimit \/ ToolReturns \/ TimerFires \/ Cancel \/ Rest
  BY DEF Elsewhere
<1>12. UNCHANGED pvars => UNCHANGED vars
  BY DEF pvars
<1> QED
  BY <1>1, <1>2, <1>3, <1>4, <1>5, <1>6, <1>7, <1>8, <1>9, <1>10, <1>11, <1>12
     DEF PNext, Next, Local, ProviderAnswers

-----------------------------------------------------------------------------
(* The steps of the conversation *)

LEMMA ConversationInit ==
  ASSUME PInit
  PROVE  ConversationInv
<1>1. Remote
  BY DEF PInit, Remote
<1>2. Owing /\ pc = "loop"
  BY DEF PInit, Init, Owing
<1> QED
  BY <1>1, <1>2 DEF ConversationInv

\* A step that leaves the conversation and the observations where they are.
LEMMA Untouched ==
  ASSUME ConversationInv, UNCHANGED conversation, UNCHANGED observations,
         pc' = pc \/ pc' \notin {"loop", "calling", "deciding"}
  PROVE  ConversationInv'
<1>1. UNCHANGED <<answers, response_id, pending_call_id, observation_cursor, request>>
  BY DEF conversation
<1>2. Remote'
  BY <1>1 DEF ConversationInv, Remote, Linked, Continues
<1>3. CASE pc' = pc
  <2>1. Owing => Owing'
    BY <1>1, <1>3 DEF Owing
  <2>2. Asked => Asked'
    BY <1>1 DEF Asked, Continues
  <2> QED
    BY <1>2, <1>3, <2>1, <2>2 DEF ConversationInv
<1>4. CASE pc' \notin {"loop", "calling", "deciding"}
  BY <1>2, <1>4 DEF ConversationInv
<1> QED
  BY <1>3, <1>4

\* A step that ends the session.
LEMMA SessionCloses ==
  ASSUME ConversationInv, UNCHANGED conversation,
         pc' \notin {"loop", "calling", "deciding"}
  PROVE  ConversationInv'
<1>1. UNCHANGED <<answers, response_id>>
  BY DEF conversation
<1>2. Remote'
  BY <1>1 DEF ConversationInv, Remote, Linked, Continues
<1> QED
  BY <1>2 DEF ConversationInv

\* The result of a call is one more observation to tell.
LEMMA CallReturns ==
  ASSUME ConversationInv, UNCHANGED conversation, TypeOK, pc = "calling",
         NEW o \in Observation, observations' = Append(observations, o),
         pc' \in {"loop", "calling"}
  PROVE  ConversationInv'
<1>1. UNCHANGED <<answers, response_id, pending_call_id, observation_cursor, request>>
  BY DEF conversation
<1>2. Remote'
  BY <1>1 DEF ConversationInv, Remote, Linked, Continues
<1>3. Len(observations') = Len(observations) + 1 /\ Len(observations) \in Nat
  BY DEF TypeOK
<1>4. Owing
  BY DEF ConversationInv
<1>5. Owing'
  BY <1>1, <1>3, <1>4 DEF Owing
<1> QED
  BY <1>2, <1>5 DEF ConversationInv

\* The next input is the issue, or tells all that is owed.
LEMMA NextInputContinues ==
  ASSUME TypeOK, Remote, Owing, pc = "loop"
  PROVE  /\ NextInput \in InputType
         /\ NextInput.kind # "none"
         /\ Continues(NextInput, Position(response_id))
         /\ NextFirst(NextInput) = Len(observations) + 1
<1>1. CASE response_id = None
  <2>1. NextInput = Issue /\ Position(response_id) = 0 /\ Len(observations) = 0
    BY <1>1 DEF Owing, NextInput, Position
  <2>2. NextInput \in InputType /\ NextInput.kind = "issue"
    BY <2>1, InputFacts
  <2> QED
    BY <2>1, <2>2 DEF Continues, NextFirst
<1>2. CASE response_id # None
  <2>1. /\ pending_call_id = response_id /\ pending_call_id # None
        /\ observation_cursor < Len(observations) /\ observation_cursor \in Nat
        /\ observation_cursor + 1 = NextFirst(answers[response_id].input)
        /\ answers[response_id].call = TRUE
    BY <1>2 DEF Owing
  <2>2. /\ response_id \in 1..Len(answers) /\ answers[response_id].valid = TRUE
        /\ response_id \in Nat
        /\ Len(observations) \in Nat
    BY <1>2 DEF Remote, TypeOK
  <2>3. PICK n \in Nat : n = Len(observations)
    BY <2>2
  <2>4. NextInput = FunctionOutput(response_id, observation_cursor, observations)
    BY <2>1, <2>2 DEF NextInput
  <2>5. NextInput = [kind |-> "function_call_output", call |-> response_id,
                     first |-> observation_cursor + 1, last |-> n]
    BY <2>3, <2>4 DEF FunctionOutput
  <2>6. NextInput # Issue
    BY <2>5 DEF Issue
  <2>7. NextInput \in InputType
    BY <2>1, <2>2, <2>5 DEF InputType
  <2>8. Position(response_id) = response_id /\ response_id # 0
    BY <1>2, <2>2 DEF Position
  <2>9. Continues(NextInput, response_id)
    BY <2>1, <2>2, <2>3, <2>5, <2>8 DEF Continues
  <2> QED
    BY <2>3, <2>5, <2>6, <2>7, <2>8, <2>9 DEF NextFirst
<1> QED
  BY <1>1, <1>2

LEMMA Asks ==
  ASSUME ConversationInv, TypeOK, Ask
  PROVE  ConversationInv'
<1>1. /\ pc = "loop" /\ pc' = "deciding"
      /\ UNCHANGED <<answers, response_id, observations>>
  BY DEF Ask, StartDecision, session
<1>2. Remote /\ Owing
  BY <1>1 DEF ConversationInv
<1>3. PICK i : i = NextInput
  OBVIOUS
<1>4. /\ i \in InputType /\ Continues(i, Position(response_id))
      /\ NextFirst(i) = Len(observations) + 1
  BY <1>1, <1>2, <1>3, NextInputContinues
<1>5. request' = [previous |-> response_id, input |-> i, correction |-> FALSE]
  BY <1>3 DEF Ask
<1>6. Asked'
  BY <1>1, <1>4, <1>5 DEF Asked, Continues
<1>7. Remote'
  BY <1>1, <1>2 DEF Remote, Linked, Continues
<1> QED
  BY <1>1, <1>6, <1>7 DEF ConversationInv

\* What is stored is an answer to the request in flight.
LEMMA AnswerStored ==
  ASSUME Remote, Asked, NEW valid \in BOOLEAN, NEW call \in BOOLEAN, Stored(valid, call)
  PROVE  /\ answers' \in Seq(AnswerType)
         /\ Len(answers) \in Nat
         /\ Len(answers') = Len(answers) + 1
         /\ answers'[Len(answers')] = [previous |-> response_id, input |-> request.input,
                                       valid |-> valid, call |-> call]
         /\ \A n \in 1..Len(answers) : answers'[n] = answers[n]
         /\ \A n \in 1..Len(answers') : Linked(n)'
         /\ \A i, n : n \in 0..Len(answers) /\ Continues(i, n) => Continues(i, n)'
<1>1. PICK a : a = [previous |-> response_id, input |-> request.input,
                    valid |-> valid, call |-> call]
  OBVIOUS
<1>2. /\ Len(answers) \in Nat
      /\ response_id \in Nat \cup {None}
      /\ Position(response_id) \in 0..Len(answers)
  BY DEF Remote, Position
<1>3. a \in AnswerType /\ a.previous = response_id /\ a.input = request.input
  BY <1>1, <1>2 DEF AnswerType, Asked
<1>4. Continues(a.input, Position(a.previous))
  BY <1>3 DEF Asked
<1>5. answers' = Append(answers, a)
  BY <1>1 DEF Stored, Asked
<1>6. PICK m : m = Position(a.previous)
  OBVIOUS
<1>7. m \in 0..Len(answers) /\ Continues(a.input, m)
  BY <1>2, <1>3, <1>4, <1>6
<1> QED
  BY <1>1, <1>2, <1>3, <1>5, <1>6, <1>7, AnswersGrow
LEMMA Corrects ==
  ASSUME ConversationInv, NEW raised \in BOOLEAN, Correct(raised)
  PROVE  ConversationInv'
<1>1. /\ pc = "deciding" /\ pc' = "deciding"
      /\ UNCHANGED <<response_id, observations>>
  BY DEF Correct, InvalidOutput, DecisionArrives, session
<1>2. Remote /\ Asked
  BY <1>1 DEF ConversationInv
<1>3. PICK no \in BOOLEAN : Stored(no, no) /\ no = FALSE
  BY DEF Correct, InvalidOutput
<1>4. /\ answers' \in Seq(AnswerType)
      /\ Len(answers) \in Nat /\ Len(answers') = Len(answers) + 1
      /\ \A n \in 1..Len(answers) : answers'[n] = answers[n]
      /\ \A n \in 1..Len(answers') : Linked(n)'
      /\ \A i, n : n \in 0..Len(answers) /\ Continues(i, n) => Continues(i, n)'
  BY <1>2, <1>3, AnswerStored
<1>5. Remote'
  BY <1>1, <1>2, <1>4 DEF Remote
<1>6. request' = [request EXCEPT !.correction = TRUE]
  BY DEF Correct
<1>7. /\ request' = [previous |-> request'.previous, input |-> request'.input,
                     correction |-> request'.correction]
      /\ request'.previous = request.previous /\ request'.input = request.input
      /\ request'.correction \in BOOLEAN
  BY <1>2, <1>6 DEF Asked
<1>8. PICK i, m : i = request.input /\ m = Position(response_id)
  OBVIOUS
<1>9. m \in 0..Len(answers) /\ Continues(i, m)
  BY <1>2, <1>4, <1>8 DEF Asked, Remote, Position
<1>10. Continues(i, m)'
  BY <1>4, <1>9
<1>11. m = Position(response_id)'
  BY <1>1, <1>8 DEF Position
<1>12. Asked'
  BY <1>1, <1>2, <1>7, <1>8, <1>10, <1>11 DEF Asked, NextFirst, Continues
<1> QED
  BY <1>1, <1>5, <1>12 DEF ConversationInv

\* Storing an answer on the way out of the session.
LEMMA AnswersLast ==
  ASSUME ConversationInv, pc = "deciding", NEW valid \in BOOLEAN, NEW call \in BOOLEAN,
         Stored(valid, call), pc' \notin {"loop", "calling", "deciding"},
         \/ UNCHANGED response_id
         \/ valid = TRUE /\ response_id' = Len(answers) + 1
  PROVE  ConversationInv'
<1>1. Remote /\ Asked
  BY DEF ConversationInv
<1>2. /\ answers' \in Seq(AnswerType)
      /\ Len(answers) \in Nat /\ Len(answers') = Len(answers) + 1
      /\ answers'[Len(answers')] = [previous |-> response_id, input |-> request.input,
                                    valid |-> valid, call |-> call]
      /\ \A n \in 1..Len(answers) : answers'[n] = answers[n]
      /\ \A n \in 1..Len(answers') : Linked(n)'
  BY <1>1, AnswerStored
<1>3. answers'[Len(answers')].valid = valid
  BY <1>2
<1>4. Remote'
  BY <1>1, <1>2, <1>3 DEF Remote
<1> QED
  BY <1>4 DEF ConversationInv

LEMMA Decides ==
  ASSUME ConversationInv, TypeOK, NEW r \in Requests, DecideCall(r)
  PROVE  ConversationInv'
<1>1. /\ pc = "deciding" /\ Len(observations) \in Nat
      /\ observation_cursor' = Len(observations)
      /\ response_id' = Len(answers) + 1 /\ pending_call_id' = Len(answers) + 1
  BY DEF DecideCall, RejectRequest, RefuseOverBudget, RefuseIdentical, Refuse, Dispatch,
         DecisionArrives, TypeOK
<1>2. \/ pc' = "calling" /\ UNCHANGED observations
      \/ pc' = "loop" /\ Len(observations') = Len(observations) + 1
  <2>1. CASE Dispatch(r)
    BY <2>1 DEF Dispatch
  <2>2. ASSUME NEW tool, NEW error, Refuse(tool, error)
        PROVE  pc' = "loop" /\ Len(observations') = Len(observations) + 1
    <3>1. observations' = Append(observations, Failure(tool, error)) /\ pc' = "loop"
      BY <2>2 DEF Refuse, RecordFeedback
    <3> QED
      BY <3>1 DEF TypeOK
  <2> QED
    BY <2>1, <2>2 DEF DecideCall, RejectRequest, RefuseOverBudget, RefuseIdentical
<1>3. Remote /\ Asked
  BY <1>1 DEF ConversationInv
<1>4. PICK yes \in BOOLEAN : Stored(yes, yes) /\ yes = TRUE
  BY DEF DecideCall
<1>5. PICK n : n = Len(answers')
  OBVIOUS
<1>6. /\ answers' \in Seq(AnswerType)
      /\ Len(answers) \in Nat /\ n = Len(answers) + 1
      /\ answers'[n].input = request.input
      /\ answers'[n].valid = TRUE /\ answers'[n].call = TRUE
      /\ \A k \in 1..Len(answers') : Linked(k)'
  <2>1. /\ answers' \in Seq(AnswerType)
        /\ Len(answers) \in Nat /\ Len(answers') = Len(answers) + 1
        /\ answers'[Len(answers')] = [previous |-> response_id, input |-> request.input,
                                      valid |-> yes, call |-> yes]
        /\ \A k \in 1..Len(answers') : Linked(k)'
    BY <1>3, <1>4, AnswerStored
  <2> QED
    BY <1>4, <1>5, <2>1
<1>7. response_id' = n /\ pending_call_id' = n /\ n \in 1..Len(answers')
  BY <1>1, <1>5, <1>6
<1>8. Remote'
  BY <1>6, <1>7 DEF Remote
<1>9. NextFirst(answers'[n].input) = Len(observations) + 1
  BY <1>3, <1>6 DEF Asked
<1>10. n # None
  BY <1>6, ConversationAssumption
<1>11. Owing'
  BY <1>1, <1>2, <1>6, <1>7, <1>9, <1>10 DEF Owing, NextFirst
<1> QED
  BY <1>2, <1>8, <1>11 DEF ConversationInv

LEMMA ConversationStep ==
  ASSUME ConversationInv, TypeOK, [PNext]_pvars
  PROVE  ConversationInv'
<1>1. CASE Ask
  BY <1>1, Asks
<1>2. ASSUME NEW raised \in BOOLEAN, Correct(raised) PROVE ConversationInv'
  BY <1>2, Corrects
<1>3. ASSUME NEW raised \in BOOLEAN, FailAfterCorrection(raised) PROVE ConversationInv'
  <2>1. pc = "deciding" /\ pc' = "returned" /\ UNCHANGED response_id
    BY <1>3 DEF FailAfterCorrection, InvalidOutput, DecisionArrives, ProviderFails, Return
  <2>2. PICK no \in BOOLEAN : Stored(no, no)
    BY <1>3 DEF FailAfterCorrection, InvalidOutput
  <2> QED
    BY <2>1, <2>2, AnswersLast
<1>4. CASE FailOnApiError
  BY <1>4, SessionCloses DEF FailOnApiError, ProviderFails, Return
<1>5. ASSUME NEW answer \in Answers, DecideFinal(answer) PROVE ConversationInv'
  <2>1. pc = "deciding" /\ pc' = "returned" /\ response_id' = Len(answers) + 1
    BY <1>5 DEF DecideFinal, AcceptFinalAnswer, DecisionArrives, Return
  <2>2. PICK yes \in BOOLEAN, no \in BOOLEAN : Stored(yes, no) /\ yes = TRUE
    BY <1>5 DEF DecideFinal
  <2> QED
    BY <2>1, <2>2, AnswersLast
<1>6. ASSUME NEW r \in Requests, DecideCall(r) PROVE ConversationInv'
  BY <1>6, Decides
<1>7. CASE Interrupts(ResumeTimedOut) \/ Interrupts(RaiseTimeoutError)
  BY <1>7, SessionCloses
     DEF Interrupts, ResumeTimedOut, RaiseTimeoutError, ReturnTimedOut, Return
<1>8. CASE Interrupts(ResumeCancelled) \/ Interrupts(RaiseException)
  BY <1>8, SessionCloses DEF Interrupts, ResumeCancelled, RaiseException
<1>9. CASE Elsewhere
  <2>1. UNCHANGED conversation
    BY <1>9 DEF Elsewhere
  <2>2. CASE ReachDecisionLimit
    BY <2>1, <2>2, SessionCloses DEF ReachDecisionLimit, Return
  <2>3. CASE ToolReturns
    <3>1. PICK o \in Results(pending_call) :
             pending_call # NoCall /\ (RecordResult(o) \/ RetryTimeout(o))
      BY <2>3 DEF ToolReturns
    <3>2. o \in Observation
      BY <3>1, ResultsType DEF TypeOK
    <3>3. /\ pc = "calling" /\ pc' \in {"loop", "calling"}
          /\ observations' = Append(observations, o)
      BY <3>1 DEF RecordResult, RetryTimeout, ToolAnswers, RecordToolResult
    <3> QED
      BY <2>1, <3>2, <3>3, CallReturns
  <2>4. CASE TimerFires \/ Cancel \/ Rest
    BY <2>1, <2>4, Untouched DEF TimerFires, Cancel, Rest, session, vars
  <2> QED
    BY <1>9, <2>2, <2>3, <2>4 DEF Elsewhere
<1>10. CASE UNCHANGED pvars
  <2>1. UNCHANGED conversation /\ UNCHANGED observations /\ UNCHANGED pc
    BY <1>10 DEF pvars, vars, session
  <2> QED
    BY <2>1, Untouched
<1> QED
  BY <1>1, <1>2, <1>3, <1>4, <1>5, <1>6, <1>7, <1>8, <1>9, <1>10 DEF PNext

LEMMA ConversationInvariant == PSpec => [](TypeOK /\ ConversationInv)
<1>1. PInit => TypeOK /\ ConversationInv
  BY TypeInit, ConversationInit DEF PInit
<1>2. TypeOK /\ ConversationInv /\ [PNext]_pvars => (TypeOK /\ ConversationInv)'
  BY TypeStep, StepsOfTheLoop, ConversationStep
<1> QED
  BY <1>1, <1>2, PTL DEF PSpec

-----------------------------------------------------------------------------
(* The thread of the conversation *)

\* f is the recursion of Thread up to answer m.
Threads(f, m) ==
  f = [n \in 0..m |-> IF n = 0 THEN <<>>
                      ELSE Append(f[Position(answers[n].previous)], answers[n])]

LEMMA ThreadsExist ==
  ASSUME Remote, NEW last \in Nat, last <= Len(answers)
  PROVE  \E f : Threads(f, last)
<1> DEFINE N == {k \in Nat : k <= last => \E f : Threads(f, k)}
<1>1. 0 \in N
  <2>1. Threads([n \in 0..0 |-> <<>>], 0)
    BY DEF Threads
  <2> QED
    BY <2>1
<1>2. ASSUME NEW k \in Nat, k \in N PROVE k + 1 \in N
  <2> SUFFICES ASSUME k + 1 <= last PROVE \E f : Threads(f, k + 1)
    OBVIOUS
  <2>1. PICK f : Threads(f, k)
    BY <1>2
  <2>2. PICK e : e = Append(f[Position(answers[k + 1].previous)], answers[k + 1])
    OBVIOUS
  <2> DEFINE g == [n \in 0..(k + 1) |-> IF n = k + 1 THEN e ELSE f[n]]
  <2>3. \A n \in 0..k : f[n] = IF n = 0 THEN <<>>
                               ELSE Append(f[Position(answers[n].previous)], answers[n])
    BY <2>1 DEF Threads
  <2>4. (\A n \in 0..k : g[n] = f[n]) /\ g[k + 1] = e /\ g = [n \in 0..(k + 1) |-> g[n]]
    OBVIOUS
  <2> HIDE DEF g
  <2>5. ASSUME NEW n \in 0..(k + 1)
        PROVE  g[n] = IF n = 0 THEN <<>>
                      ELSE Append(g[Position(answers[n].previous)], answers[n])
    <3>1. PICK m : m = Position(answers[n].previous)
      OBVIOUS
    <3>2. n # 0 => m \in 0..(n - 1)
      <4>1. Len(answers) \in Nat
        BY DEF Remote
      <4>2. n # 0 => n \in 1..Len(answers)
        BY <4>1
      <4> QED
        BY <3>1, <4>2 DEF Remote, Linked
    <3>3. n # 0 => g[m] = f[m]
      <4>1. n # 0 => m \in 0..k
        BY <3>2
      <4> QED
        BY <2>4, <4>1
    <3>4. CASE n = k + 1
      <4>1. n # 0 /\ g[n] = e /\ e = Append(f[m], answers[n])
        BY <2>2, <2>4, <3>1, <3>4
      <4> QED
        BY <3>1, <3>3, <4>1
    <3>5. CASE n # k + 1
      <4>1. n \in 0..k
        BY <3>5
      <4> QED
        BY <2>3, <2>4, <3>1, <3>3, <4>1
    <3> QED
      BY <3>4, <3>5
  <2>6. Threads(g, k + 1)
    BY <2>4, <2>5 DEF Threads
  <2> QED
    BY <2>6
<1> HIDE DEF N
<1>3. Nat \subseteq N
  BY <1>1, <1>2, NatInd
<1> QED
  BY <1>3 DEF N

LEMMA ThreadEnds ==
  ASSUME Remote
  PROVE  \E f : Threads(f, Len(answers)) /\ Thread = f[Position(response_id)]
<1>1. Len(answers) \in Nat
  BY DEF Remote
<1>2. \E f : Threads(f, Len(answers))
  BY <1>1, ThreadsExist
<1> QED
  BY <1>2 DEF Thread, Threads

\* t leads to answer n: through valid answers, each with the input that follows the
\* call before it.
LeadsTo(t, n) ==
  /\ t \in Seq(AnswerType)
  /\ n = 0 => t = <<>>
  /\ n # 0 => Len(t) > 0 /\ t[Len(t)] = answers[n]
  /\ \A i \in 1..Len(t) : t[i].valid = TRUE
  /\ \A i \in 1..Len(t) :
       IF i = 1 THEN t[i].input = Issue
       ELSE \E m \in 1..Len(answers) : answers[m] = t[i - 1] /\ Continues(t[i].input, m)

LEMMA OneMoreAnswer ==
  ASSUME Remote, NEW n \in 1..Len(answers), answers[n].valid = TRUE,
         NEW m, m = Position(answers[n].previous), NEW t, LeadsTo(t, m)
  PROVE  LeadsTo(Append(t, answers[n]), n)
<1>1. PICK a, more : a = answers[n] /\ more = Append(t, a)
  OBVIOUS
<1>2. /\ a \in AnswerType /\ t \in Seq(AnswerType) /\ Len(t) \in Nat
      /\ m \in 0..(n - 1) /\ Continues(a.input, m)
      /\ Len(answers) \in Nat
  BY <1>1 DEF Remote, Linked, LeadsTo
<1>3. /\ more \in Seq(AnswerType) /\ Len(more) = Len(t) + 1 /\ more[Len(more)] = a
      /\ \A i \in 1..Len(t) : more[i] = t[i]
  BY <1>1, <1>2
<1>4. \A i \in 1..Len(more) : more[i].valid = TRUE
  <2>1. \A i \in 1..Len(t) : t[i].valid = TRUE
    BY DEF LeadsTo
  <2>2. a.valid = TRUE
    BY <1>1
  <2> QED
    BY <1>2, <1>3, <2>1, <2>2
<1>5. ASSUME NEW i \in 1..Len(more)
      PROVE  IF i = 1 THEN more[i].input = Issue
             ELSE \E k \in 1..Len(answers) :
                    answers[k] = more[i - 1] /\ Continues(more[i].input, k)
  <2>1. CASE i \in 1..Len(t)
    <3>1. more[i] = t[i]
      BY <1>3, <2>1
    <3>2. i # 1 => i - 1 \in 1..Len(t)
      BY <1>2, <2>1
    <3>3. i # 1 => more[i - 1] = t[i - 1]
      BY <1>3, <3>2
    <3> QED
      BY <2>1, <3>1, <3>3 DEF LeadsTo
  <2>2. CASE i = Len(more) /\ m = 0
    <3>1. t = <<>> /\ a.input = Issue
      BY <1>2, <2>2 DEF LeadsTo, Continues
    <3>2. i = 1
      BY <1>3, <2>2, <3>1
    <3> QED
      BY <1>3, <2>2, <3>1, <3>2
  <2>3. CASE i = Len(more) /\ m # 0
    <3>1. Len(t) > 0 /\ t[Len(t)] = answers[m] /\ m \in 1..Len(answers)
      BY <1>2, <2>3 DEF LeadsTo
    <3>2. i # 1 /\ i - 1 = Len(t) /\ more[i - 1] = t[Len(t)]
      BY <1>2, <1>3, <2>3, <3>1
    <3> QED
      BY <1>2, <1>3, <2>3, <3>1, <3>2
  <2> QED
    BY <1>2, <1>3, <2>1, <2>2, <2>3
<1>6. LeadsTo(more, n)
  <2>1. n # 0 /\ Len(more) > 0
    BY <1>2, <1>3
  <2> QED
    BY <1>1, <1>3, <1>4, <1>5, <2>1 DEF LeadsTo
<1> QED
  BY <1>1, <1>6

LEMMA ThreadsLead ==
  ASSUME Remote, NEW f, Threads(f, Len(answers)), NEW n \in 0..Len(answers),
         n = 0 \/ answers[n].valid = TRUE
  PROVE  LeadsTo(f[n], n)
<1> DEFINE Sound(k) == k = 0 \/ answers[k].valid = TRUE => LeadsTo(f[k], k)
           N == {k \in Nat : k <= Len(answers) => \A j \in 0..k : Sound(j)}
<1>1. Len(answers) \in Nat
  BY DEF Remote
<1>2. \A j \in 0..Len(answers) :
        f[j] = IF j = 0 THEN <<>>
               ELSE Append(f[Position(answers[j].previous)], answers[j])
  BY DEF Threads
<1>3. Sound(0)
  <2>1. f[0] = <<>>
    BY <1>1, <1>2
  <2>2. LeadsTo(<<>>, 0)
    BY DEF LeadsTo
  <2> QED
    BY <2>1, <2>2
<1>a. \A k \in 0..Len(answers) :
        Sound(k) <=> (k = 0 \/ answers[k].valid = TRUE => LeadsTo(f[k], k))
  OBVIOUS
<1> HIDE DEF Sound
<1>4. 0 \in N
  BY <1>3
<1>5. ASSUME NEW k \in Nat, k \in N PROVE k + 1 \in N
  <2> SUFFICES ASSUME k + 1 <= Len(answers) PROVE \A j \in 0..(k + 1) : Sound(j)
    OBVIOUS
  <2>1. \A j \in 0..k : Sound(j)
    BY <1>1, <1>5
  <2>2. ASSUME answers[k + 1].valid = TRUE PROVE LeadsTo(f[k + 1], k + 1)
    <3>1. PICK m : m = Position(answers[k + 1].previous)
      OBVIOUS
    <3>2. PICK j \in 1..Len(answers) : j = k + 1
      BY <1>1
    <3>3. Linked(j)
      BY DEF Remote
    <3>4. m \in 0..k /\ (m = 0 \/ answers[m].valid = TRUE)
      BY <3>1, <3>2, <3>3 DEF Linked, Continues
    <3>5. LeadsTo(f[m], m)
      <4>1. m \in 0..Len(answers) /\ Sound(m)
        BY <1>1, <2>1, <3>4
      <4> QED
        BY <1>a, <3>4, <4>1
    <3>6. LeadsTo(Append(f[m], answers[j]), j)
      BY <2>2, <3>1, <3>2, <3>5, OneMoreAnswer
    <3>7. f[j] = Append(f[m], answers[j])
      <4>1. j \in 0..Len(answers) /\ j # 0 /\ m = Position(answers[j].previous)
        BY <1>1, <3>1, <3>2
      <4> QED
        BY <1>2, <4>1
    <3> QED
      BY <3>2, <3>6, <3>7
  <2>3. Sound(k + 1)
    <3>1. k + 1 \in 0..Len(answers) /\ k + 1 # 0
      BY <1>1
    <3> QED
      BY <1>a, <2>2, <3>1
  <2> QED
    BY <2>1, <2>3
<1> HIDE DEF N
<1>6. Nat \subseteq N
  BY <1>4, <1>5, NatInd
<1>7. Len(answers) \in N
  BY <1>1, <1>6
<1>8. Sound(n)
  BY <1>1, <1>7 DEF N
<1> QED
  BY <1>a, <1>8

-----------------------------------------------------------------------------
(* One conversation *)

\* The n inputs of the conversation follow its answers t.
Followed(t, inputs, n) ==
  /\ t \in Seq(AnswerType) /\ Len(t) \in Nat /\ n \in Nat
  /\ n = IF Asking THEN Len(t) + 1 ELSE Len(t)
  /\ Asking => inputs[n] = request.input
  /\ \A i \in 1..Len(t) : t[i].valid = TRUE
  /\ \A i \in 1..n : inputs[i] \in InputType
  /\ \A i \in 1..n :
       IF i = 1 THEN inputs[i] = Issue
       ELSE \E m \in 1..Len(answers) :
              /\ answers[m] = t[i - 1]
              /\ t[i - 1].input = inputs[i - 1]
              /\ Continues(inputs[i], m)

LEMMA InputsJoined ==
  ASSUME NEW S, NEW a \in Seq(S), NEW b \in Seq(S), NEW c, c = a \o b
  PROVE  /\ c \in Seq(S) /\ Len(c) = Len(a) + Len(b)
         /\ Len(a) \in Nat /\ Len(b) \in Nat
         /\ \A i \in 1..Len(a) : c[i] = a[i]
         /\ \A i \in 1..Len(b) : c[Len(a) + i] = b[i]
  OBVIOUS

LEMMA InputsFollow ==
  ASSUME ConversationInv, NEW t, t = Thread,
         NEW inputs, inputs = Inputs, NEW n, n = Len(inputs)
  PROVE  Followed(t, inputs, n)
<1>0. Remote
  BY DEF ConversationInv
<1>1. PICK p : p = Position(response_id)
  OBVIOUS
<1>2. Len(answers) \in Nat /\ p \in 0..Len(answers) /\ (p = 0 \/ answers[p].valid = TRUE)
  BY <1>0, <1>1 DEF Remote, Position
<1>3. LeadsTo(t, p)
  BY <1>0, <1>1, <1>2, ThreadEnds, ThreadsLead
<1>4. PICK told : told = [i \in 1..Len(t) |-> t[i].input]
  OBVIOUS
<1>5. PICK tail : tail = IF Asking THEN <<request.input>> ELSE <<>>
  OBVIOUS
<1>6. t \in Seq(AnswerType) /\ Len(t) \in Nat
  BY <1>3 DEF LeadsTo
<1>7. /\ told \in Seq(InputType) /\ Len(told) = Len(t)
      /\ \A i \in 1..Len(t) : told[i] = t[i].input
  <2>1. PICK k \in Nat : k = Len(t)
    BY <1>6
  <2>2. \A i \in 1..k : t[i] \in AnswerType
    BY <1>6, <2>1
  <2>3. \A a \in AnswerType : a.input \in InputType
    BY DEF AnswerType
  <2>4. told = [i \in 1..k |-> t[i].input]
    BY <1>4, <2>1
  <2> QED
    BY <2>1, <2>2, <2>3, <2>4
<1>8. Asking => Asked
  BY DEF Asking, ConversationInv
<1>9. /\ tail \in Seq(InputType)
      /\ Asking => Len(tail) = 1 /\ tail[1] = request.input
      /\ ~Asking => Len(tail) = 0
  BY <1>5, <1>8 DEF Asked
<1>a. n = Len(inputs)
  OBVIOUS
<1>10. inputs = told \o tail
  BY <1>4, <1>5 DEF Inputs
<1>11. /\ inputs \in Seq(InputType) /\ n \in Nat
       /\ n = IF Asking THEN Len(t) + 1 ELSE Len(t)
       /\ \A i \in 1..Len(t) : inputs[i] = t[i].input
       /\ Asking => inputs[n] = request.input
  <2>1. PICK k, l : k = Len(told) /\ l = Len(tail)
    OBVIOUS
  <2>2. /\ k \in Nat /\ l \in Nat /\ inputs \in Seq(InputType) /\ n = k + l
        /\ \A i \in 1..k : inputs[i] = told[i]
        /\ \A i \in 1..l : inputs[k + i] = tail[i]
    <3>1. told \in Seq(InputType) /\ tail \in Seq(InputType) /\ inputs = told \o tail
      BY <1>7, <1>9, <1>10
    <3> QED
      BY <1>a, <2>1, <3>1, InputsJoined
  <2>3. l = IF Asking THEN 1 ELSE 0
    BY <1>9, <2>1
  <2>4. \A i \in 1..Len(t) : inputs[i] = t[i].input
    BY <1>7, <2>1, <2>2
  <2>5. n = IF Asking THEN Len(t) + 1 ELSE Len(t)
    BY <1>7, <2>1, <2>2, <2>3
  <2>6. ASSUME Asking PROVE inputs[n] = request.input
    <3>1. l = 1 /\ tail[1] = request.input /\ n = k + 1
      BY <1>9, <2>2, <2>3, <2>6
    <3> QED
      BY <2>2, <3>1
  <2> QED
    BY <2>2, <2>4, <2>5, <2>6
<1>12. \A i \in 1..n : inputs[i] \in InputType
  <2>1. PICK seq \in Seq(InputType) : seq = inputs /\ n = Len(seq)
    BY <1>a, <1>11
  <2>2. \A i \in 1..Len(seq) : seq[i] \in InputType
    OBVIOUS
  <2> QED
    BY <2>1, <2>2
<1>13. ASSUME NEW i \in 1..n
       PROVE  IF i = 1 THEN inputs[i] = Issue
              ELSE \E m \in 1..Len(answers) :
                     /\ answers[m] = t[i - 1]
                     /\ t[i - 1].input = inputs[i - 1]
                     /\ Continues(inputs[i], m)
  <2>1. CASE i \in 1..Len(t)
    <3>1. inputs[i] = t[i].input /\ (i # 1 => i - 1 \in 1..Len(t))
      BY <1>6, <1>11, <2>1
    <3>2. i # 1 => inputs[i - 1] = t[i - 1].input
      BY <1>11, <3>1
    <3> QED
      BY <1>3, <2>1, <3>1, <3>2 DEF LeadsTo
  <2>2. CASE i \notin 1..Len(t)
    <3>1. Asking /\ i = n /\ i = Len(t) + 1 /\ inputs[i] = request.input
      BY <1>6, <1>11, <2>2
    <3>2. Continues(inputs[i], p)
      BY <1>1, <1>8, <3>1 DEF Asked
    <3>3. CASE p = 0
      <4>1. i = 1
        BY <1>3, <3>1, <3>3 DEF LeadsTo
      <4> QED
        BY <3>2, <3>3, <4>1 DEF Continues
    <3>4. CASE p # 0
      <4>1. Len(t) > 0 /\ t[Len(t)] = answers[p]
        BY <1>3, <3>4 DEF LeadsTo
      <4>2. i # 1 /\ i - 1 = Len(t) /\ i - 1 \in 1..Len(t) /\ p \in 1..Len(answers)
        BY <1>2, <1>6, <3>1, <3>4, <4>1
      <4> QED
        BY <1>11, <3>2, <4>1, <4>2
    <3> QED
      BY <3>3, <3>4
  <2> QED
    BY <2>1, <2>2
<1> QED
  BY <1>3, <1>6, <1>11, <1>12, <1>13 DEF LeadsTo, Followed

\* "The model and the loop are in one conversation": no call of the model's stays without
\* its answer, and no observation is lost, repeated or told out of order.
THEOREM TheConversationIsOne == PSpec => []OneConversation
<1>1. ASSUME TypeOK, ConversationInv PROVE OneConversation
  <2>1. PICK t, inputs, n : t = Thread /\ inputs = Inputs /\ n = Len(inputs)
    OBVIOUS
  <2>2. Remote /\ (pc = "deciding" => Asked) /\ Len(observations) \in Nat
    BY <1>1 DEF ConversationInv, TypeOK
  <2>3. /\ t \in Seq(AnswerType) /\ Len(t) \in Nat /\ n \in Nat
        /\ n = IF Asking THEN Len(t) + 1 ELSE Len(t)
        /\ Asking => inputs[n] = request.input
        /\ \A i \in 1..Len(t) : t[i].valid = TRUE
        /\ \A i \in 1..n : inputs[i] \in InputType
        /\ \A i \in 1..n :
             IF i = 1 THEN inputs[i] = Issue
             ELSE \E m \in 1..Len(answers) :
                    /\ answers[m] = t[i - 1]
                    /\ t[i - 1].input = inputs[i - 1]
                    /\ Continues(inputs[i], m)
    <3>1. Followed(t, inputs, n)
      BY <1>1, <2>1, InputsFollow
    <3> QED
      BY <3>1 DEF Followed
  <2>4. Asking => Asked
    BY <2>2 DEF Asking
  <2>5. ~ContextMissing
    <3>1. Asked => request.input.kind # "none"
      BY DEF Asked, InputType, Issue
    <3> QED
      BY <2>2, <3>1 DEF ContextMissing
  <2>6. \A i \in 1..Len(t) : Valid(t[i])
    BY <2>3 DEF Valid
  <2>7. Asking => request.previous = response_id
    BY <2>4 DEF Asked
  <2>8. ASSUME NEW i \in 1..n, i # 1
        PROVE  /\ t[i - 1].call = TRUE
               /\ inputs[i].kind = "function_call_output"
               /\ \E m \in 1..Len(answers) : answers[m] = t[i - 1] /\ inputs[i].call = m
               /\ inputs[i].first = NextFirst(inputs[i - 1])
               /\ inputs[i].first <= inputs[i].last
               /\ inputs[i] # Issue
    <3>1. PICK m \in 1..Len(answers) :
            /\ answers[m] = t[i - 1]
            /\ t[i - 1].input = inputs[i - 1]
            /\ Continues(inputs[i], m)
      BY <2>3, <2>8
    <3>2. m # 0
      BY <2>2 DEF Remote
    <3>3. /\ t[i - 1].call = TRUE
          /\ inputs[i].kind = "function_call_output" /\ inputs[i].call = m
          /\ inputs[i].first = NextFirst(inputs[i - 1])
          /\ inputs[i].first <= inputs[i].last
      BY <3>1, <3>2 DEF Continues
    <3>4. inputs[i] # Issue
      BY <3>3, InputFacts
    <3> QED
      BY <3>1, <3>3, <3>4
  <2>9. CallsAnsweredOnce
    <3>1. ASSUME NEW i \in 1..n
          PROVE  IF i = 1 THEN inputs[i] = Issue
                 ELSE /\ t[i - 1].call
                      /\ inputs[i].kind = "function_call_output"
                      /\ \E m \in 1..Len(answers) :
                           answers[m] = t[i - 1] /\ inputs[i].call = m
      BY <2>3, <2>8
    <3> QED
      BY <2>1, <2>5, <2>6, <2>7, <3>1 DEF CallsAnsweredOnce
  <2>10. ObservationsDeliveredOnce
    <3>1. ASSUME NEW i \in 2..n
          PROVE  /\ inputs[i].first = IF i = 2 THEN 1 ELSE inputs[i - 1].last + 1
                 /\ inputs[i].first <= inputs[i].last
      <4>1. i \in 1..n /\ i # 1 /\ i - 1 \in 1..n /\ 1 \in 1..n
        BY <2>3
      <4>2. inputs[i].first = NextFirst(inputs[i - 1]) /\ inputs[i].first <= inputs[i].last
        BY <2>8, <4>1
      <4>3. CASE i = 2
        <5>1. inputs[i - 1] = Issue
          BY <2>3, <4>1, <4>3
        <5> QED
          BY <4>2, <4>3, <5>1 DEF NextFirst
      <4>4. CASE i # 2
        <5>1. i - 1 # 1
          BY <4>4
        <5>2. inputs[i - 1] # Issue
          BY <2>8, <4>1, <5>1
        <5> QED
          BY <4>2, <4>4, <5>2 DEF NextFirst
      <4> QED
        BY <4>3, <4>4
    <3>2. Asking /\ n > 1 => inputs[n].last = Len(observations)
      <4> SUFFICES ASSUME Asking, n > 1 PROVE inputs[n].last = Len(observations)
        OBVIOUS
      <4>1. n \in 1..n /\ n # 1
        BY <2>3
      <4>2. inputs[n] # Issue /\ inputs[n] = request.input /\ inputs[n] \in InputType
        BY <2>3, <2>8, <4>1
      <4>3. NextFirst(inputs[n]) = Len(observations) + 1 /\ inputs[n].last \in Nat
        BY <2>4, <4>2, InputFacts DEF Asked
      <4> QED
        BY <2>2, <4>2, <4>3 DEF NextFirst
    <3>3. Asking /\ n = 1 => observations = <<>>
      <4> SUFFICES ASSUME Asking, n = 1 PROVE observations = <<>>
        OBVIOUS
      <4>1. inputs[1] = Issue /\ inputs[1] = request.input
        BY <2>3
      <4>2. Len(observations) = 0
        BY <2>2, <2>4, <4>1 DEF Asked, NextFirst
      <4> QED
        BY <1>1, <4>2 DEF TypeOK
    <3> QED
      BY <2>1, <3>1, <3>2, <3>3 DEF ObservationsDeliveredOnce
  <2> QED
    BY <2>9, <2>10 DEF OneConversation
<1> QED
  BY <1>1, ConversationInvariant, PTL

-----------------------------------------------------------------------------
(* The calls to the model *)

ModelCall == [decision : Nat, finished : BOOLEAN, error : BOOLEAN]

\* The calls made for the same decision as the one before, and the answers in vain.
Repeats(calls) == {i \in 2..Len(calls) : calls[i].decision = calls[i - 1].decision}
Vain(given) == {n \in 1..Len(given) : ~Valid(given[n])}

\* The first n calls are for decisions up to d.
UpTo(calls, n, d) == \A i \in 1..n : calls[i].decision <= d

Strict(calls) == \A i \in 3..Len(calls) : calls[i].decision > calls[i - 2].decision

CallsInv ==
  /\ model_calls \in Seq(ModelCall)
  /\ \A i \in 1..(Len(model_calls) - 1) : model_calls[i].finished = TRUE
  /\ Strict(model_calls)
  /\ Cardinality(Repeats(model_calls)) <= Cardinality(Vain(answers))
  /\ pc # "deciding" => \A i \in 1..Len(model_calls) : model_calls[i].finished = TRUE
  /\ pc \in {"loop", "calling"} => UpTo(model_calls, Len(model_calls), step_count)
  /\ pc = "deciding" =>
       /\ Len(model_calls) > 0
       /\ model_calls[Len(model_calls)].decision = step_count + 1
       /\ request.correction = FALSE => UpTo(model_calls, Len(model_calls) - 1, step_count)
       /\ UpTo(model_calls, Len(model_calls) - 2, step_count)
       /\ UpTo(model_calls, Len(model_calls), step_count + 1)

LEMMA CountsAreNumbers ==
  ASSUME NEW calls \in Seq(ModelCall), NEW given \in Seq(AnswerType)
  PROVE  /\ IsFiniteSet(Repeats(calls)) /\ Cardinality(Repeats(calls)) \in Nat
         /\ IsFiniteSet(Vain(given)) /\ Cardinality(Vain(given)) \in Nat
<1>1. /\ Len(calls) \in Nat /\ Repeats(calls) \in SUBSET (2..Len(calls))
      /\ Len(given) \in Nat /\ Vain(given) \in SUBSET (1..Len(given))
  BY DEF Repeats, Vain
<1>2. IsFiniteSet(2..Len(calls)) /\ IsFiniteSet(1..Len(given))
  BY <1>1, FS_Interval
<1>3. IsFiniteSet(Repeats(calls)) /\ IsFiniteSet(Vain(given))
  BY <1>1, <1>2, FS_Subset
<1> QED
  BY <1>3, FS_CardinalityType

\* model_finished closes the last call and touches nothing else.
LEMMA FinishedCalls ==
  ASSUME NEW calls \in Seq(ModelCall), Len(calls) > 0, NEW raised \in BOOLEAN,
         NEW more, more = ModelFinished(calls, raised)
  PROVE  /\ more \in Seq(ModelCall) /\ Len(more) = Len(calls)
         /\ \A i \in 1..Len(calls) : more[i].decision = calls[i].decision
         /\ \A i \in 1..Len(calls) : calls[i].finished = TRUE => more[i].finished = TRUE
         /\ more[Len(calls)].finished = TRUE
<1>1. PICK n \in Nat : n = Len(calls)
  OBVIOUS
<1>2. calls[n] \in ModelCall /\ n \in 1..n
  BY <1>1
<1>3. PICK e : e = [calls[n] EXCEPT !.finished = TRUE, !.error = raised]
  OBVIOUS
<1>4. e \in ModelCall /\ e.decision = calls[n].decision /\ e.finished = TRUE
  BY <1>2, <1>3 DEF ModelCall
<1>5. more = [calls EXCEPT ![n] = e]
  BY <1>1, <1>2, <1>3 DEF ModelFinished
<1>6. /\ more \in Seq(ModelCall) /\ Len(more) = n /\ more[n] = e
      /\ \A i \in 1..n : i # n => more[i] = calls[i]
  BY <1>1, <1>2, <1>4, <1>5
<1> QED
  BY <1>1, <1>4, <1>6

\* model_started opens one more.
LEMMA StartedCalls ==
  ASSUME NEW calls \in Seq(ModelCall), step_count \in Nat,
         NEW more, more = ModelStarted(calls, step_count + 1)
  PROVE  /\ more \in Seq(ModelCall) /\ Len(more) = Len(calls) + 1
         /\ \A i \in 1..Len(calls) : more[i] = calls[i]
         /\ more[Len(calls) + 1].decision = step_count + 1
<1>1. PICK e : e = [decision |-> step_count + 1, finished |-> FALSE, error |-> FALSE]
  OBVIOUS
<1>2. e \in ModelCall /\ e.decision = step_count + 1
  BY <1>1 DEF ModelCall
<1>3. more = Append(calls, e)
  BY <1>1 DEF ModelStarted
<1> QED
  BY <1>2, <1>3

LEMMA SameDecisions ==
  ASSUME NEW calls \in Seq(ModelCall), NEW more \in Seq(ModelCall),
         Len(more) = Len(calls), \A i \in 1..Len(calls) : more[i].decision = calls[i].decision
  PROVE  /\ Repeats(more) = Repeats(calls)
         /\ Strict(calls) => Strict(more)
         /\ \A n \in Int : \A d : n <= Len(calls) /\ UpTo(calls, n, d)
              => UpTo(more, n, d)
<1>1. PICK n \in Nat : n = Len(calls) /\ n = Len(more)
  OBVIOUS
<1>2. \A i \in 2..n : i \in 1..n /\ i - 1 \in 1..n
  BY <1>1
<1>3. \A i \in 3..n : i \in 1..n /\ i - 2 \in 1..n
  BY <1>1
<1>4. Repeats(more) = Repeats(calls)
  BY <1>1, <1>2 DEF Repeats
<1>5. Strict(calls) => Strict(more)
  BY <1>1, <1>3 DEF Strict
<1>6. ASSUME NEW k \in Int, NEW d, k <= Len(calls), UpTo(calls, k, d) PROVE UpTo(more, k, d)
  BY <1>6 DEF UpTo
<1> QED
  BY <1>4, <1>5, <1>6

\* A step that ends the request in flight, or makes none.
LEMMA RequestAnswered ==
  ASSUME CallsInv, Remote, TypeOK, pc = "deciding", NEW raised \in BOOLEAN,
         RequestEnds(raised), pc' # "deciding",
         pc' \in {"loop", "calling"} => step_count' = step_count + 1,
         Remote', Cardinality(Vain(answers)) <= Cardinality(Vain(answers'))
  PROVE  CallsInv'
<1>1. PICK calls, more : calls = model_calls /\ more = model_calls'
  OBVIOUS
<1>2. /\ calls \in Seq(ModelCall) /\ Len(calls) > 0 /\ Len(calls) \in Nat
      /\ step_count \in Nat
      /\ calls[Len(calls)].decision = step_count + 1
      /\ UpTo(calls, Len(calls) - 2, step_count)
      /\ Strict(calls)
  BY <1>1 DEF CallsInv, TypeOK
<1>3. more = ModelFinished(calls, raised)
  BY <1>1 DEF RequestEnds
<1>4. /\ more \in Seq(ModelCall) /\ Len(more) = Len(calls)
      /\ \A i \in 1..Len(calls) : more[i].decision = calls[i].decision
      /\ \A i \in 1..Len(calls) : calls[i].finished = TRUE => more[i].finished = TRUE
      /\ more[Len(calls)].finished = TRUE
  BY <1>2, <1>3, FinishedCalls
<1>5. Repeats(more) = Repeats(calls) /\ Strict(more)
  BY <1>2, <1>4, SameDecisions
<1>6. \A i \in 1..Len(more) : more[i].finished = TRUE
  <2>1. \A i \in 1..(Len(calls) - 1) : calls[i].finished = TRUE
    BY <1>1 DEF CallsInv
  <2> QED
    BY <1>2, <1>4, <2>1
<1>7. Cardinality(Repeats(more)) <= Cardinality(Vain(answers'))
  <2>1. PICK given, after : given = answers /\ after = answers'
    OBVIOUS
  <2>2. given \in Seq(AnswerType) /\ after \in Seq(AnswerType)
    BY <2>1 DEF Remote
  <2>3. /\ Cardinality(Repeats(calls)) \in Nat /\ Cardinality(Vain(given)) \in Nat
        /\ Cardinality(Vain(after)) \in Nat
    BY <1>2, <2>2, CountsAreNumbers
  <2>4. Cardinality(Repeats(calls)) <= Cardinality(Vain(given))
    BY <1>1, <2>1 DEF CallsInv
  <2> QED
    BY <1>5, <2>1, <2>3, <2>4
<1>8. pc' \in {"loop", "calling"} => UpTo(more, Len(more), step_count')
  <2>1. Len(calls) \in Int /\ UpTo(calls, Len(calls), step_count + 1)
    BY <1>1, <1>2 DEF CallsInv
  <2>2. UpTo(more, Len(calls), step_count + 1)
    BY <1>2, <1>4, <2>1, SameDecisions
  <2> QED
    BY <1>4, <2>2
<1> QED
  BY <1>1, <1>4, <1>5, <1>6, <1>7, <1>8 DEF CallsInv

\* One more answer is in vain unless it is valid.
LEMMA VainGrows ==
  ASSUME NEW given \in Seq(AnswerType), NEW a \in AnswerType,
         NEW more, more = Append(given, a)
  PROVE  /\ Cardinality(Vain(given)) \in Nat
         /\ Cardinality(Vain(more)) = Cardinality(Vain(given))
                                      + IF a.valid = FALSE THEN 1 ELSE 0
<1>1. PICK T : T = {b \in AnswerType : b.valid = FALSE}
  OBVIOUS
<1>2. ASSUME NEW b \in AnswerType PROVE ~Valid(b) <=> b \in T
  <2>1. b.valid \in BOOLEAN
    BY DEF AnswerType
  <2>2. CASE b.valid = TRUE
    BY <1>1, <2>2 DEF Valid
  <2>3. CASE b.valid = FALSE
    BY <1>1, <2>3 DEF Valid
  <2> QED
    BY <2>1, <2>2, <2>3
<1>3. more \in Seq(AnswerType)
  OBVIOUS
<1>4. ASSUME NEW s \in Seq(AnswerType) PROVE Vain(s) = Hits(s, T)
  <2>1. \A n \in 1..Len(s) : s[n] \in AnswerType
    OBVIOUS
  <2> QED
    BY <1>2, <2>1 DEF Vain, Hits
<1>5. /\ Cardinality(Hits(given, T)) \in Nat
      /\ Cardinality(Hits(more, T)) = Cardinality(Hits(given, T)) + IF a \in T THEN 1 ELSE 0
  BY HitsFinite, CountAppend
<1>6. a \in T <=> a.valid = FALSE
  BY <1>1
<1> QED
  BY <1>3, <1>4, <1>5, <1>6

\* A corrective request is for the same decision as the one it corrects, whose answer
\* was in vain; no more than that one came between it and an earlier decision.
LEMMA RequestCorrected ==
  ASSUME CallsInv, ConversationInv, TypeOK, NEW raised \in BOOLEAN, Correct(raised)
  PROVE  CallsInv'
<1>1. /\ pc = "deciding" /\ pc' = "deciding" /\ UNCHANGED step_count
      /\ step_count \in Nat
      /\ request' = [request EXCEPT !.correction = TRUE] /\ ~request.correction
  BY DEF Correct, InvalidOutput, DecisionArrives, session, TypeOK
<1>2. Remote /\ Asked
  BY <1>1 DEF ConversationInv
<1>3. request'.correction = TRUE /\ request.correction = FALSE
  BY <1>1, <1>2 DEF Asked
<1>4. PICK calls, closed, more :
        /\ calls = model_calls
        /\ closed = ModelFinished(calls, raised)
        /\ more = ModelStarted(closed, step_count + 1)
  OBVIOUS
<1>5. model_calls' = more
  BY <1>4 DEF Correct
<1>6. PICK n \in Nat : n = Len(calls)
  BY <1>4 DEF CallsInv
<1>7. /\ calls \in Seq(ModelCall) /\ n > 0
      /\ calls[n].decision = step_count + 1
      /\ UpTo(calls, n - 1, step_count)
      /\ \A i \in 1..(n - 1) : calls[i].finished = TRUE
      /\ Strict(calls)
      /\ Cardinality(Repeats(calls)) <= Cardinality(Vain(answers))
  BY <1>1, <1>3, <1>4, <1>6 DEF CallsInv
<1>8. /\ closed \in Seq(ModelCall) /\ Len(closed) = n
      /\ \A i \in 1..n : closed[i].decision = calls[i].decision
      /\ \A i \in 1..n : calls[i].finished = TRUE => closed[i].finished = TRUE
      /\ closed[n].finished = TRUE
  <2>1. Len(calls) > 0 /\ closed = ModelFinished(calls, raised)
    BY <1>4, <1>6, <1>7
  <2>2. /\ closed \in Seq(ModelCall) /\ Len(closed) = Len(calls)
        /\ \A i \in 1..Len(calls) : closed[i].decision = calls[i].decision
        /\ \A i \in 1..Len(calls) : calls[i].finished = TRUE => closed[i].finished = TRUE
        /\ closed[Len(calls)].finished = TRUE
    BY <1>7, <2>1, FinishedCalls
  <2> QED
    BY <1>6, <2>2
<1>9. /\ more \in Seq(ModelCall) /\ Len(more) = n + 1
      /\ \A i \in 1..n : more[i] = closed[i]
      /\ more[n + 1].decision = step_count + 1
  <2>1. /\ more \in Seq(ModelCall) /\ Len(more) = Len(closed) + 1
        /\ \A i \in 1..Len(closed) : more[i] = closed[i]
        /\ more[Len(closed) + 1].decision = step_count + 1
    BY <1>1, <1>4, <1>8, StartedCalls
  <2> QED
    BY <1>8, <2>1
<1>10. \A i \in 1..n : more[i].finished = TRUE
  <2>1. \A i \in 1..n : closed[i].finished = TRUE
    BY <1>7, <1>8
  <2> QED
    BY <1>9, <2>1
<1>11. \A i \in 1..n : more[i].decision = calls[i].decision
  BY <1>8, <1>9
<1>12. UpTo(more, n - 1, step_count) /\ UpTo(more, n + 1, step_count + 1)
  <2>1. \A i \in 1..(n - 1) : i \in 1..n /\ more[i].decision <= step_count
    BY <1>6, <1>7, <1>11 DEF UpTo
  <2>2. \A i \in 1..n : more[i].decision \in Nat
    <3>1. \A i \in 1..(n + 1) : more[i] \in ModelCall
      BY <1>9
    <3>2. \A c \in ModelCall : c.decision \in Nat
      BY DEF ModelCall
    <3> QED
      BY <1>6, <3>1, <3>2
  <2>3. more[n].decision = step_count + 1
    BY <1>6, <1>7, <1>11
  <2>4. ASSUME NEW i \in 1..(n + 1) PROVE more[i].decision <= step_count + 1
    <3>1. CASE i \in 1..(n - 1)
      <4>1. i \in 1..n /\ more[i].decision <= step_count /\ more[i].decision \in Nat
        BY <2>1, <2>2, <3>1
      <4> QED
        BY <1>1, <4>1
    <3>2. CASE i = n
      BY <1>1, <2>3, <3>2
    <3>3. CASE i = n + 1
      BY <1>1, <1>9, <3>3
    <3> QED
      BY <1>6, <3>1, <3>2, <3>3
  <2> QED
    BY <2>1, <2>4 DEF UpTo
<1>13. Strict(more)
  <2>1. ASSUME NEW i \in 3..(n + 1)
        PROVE  more[i].decision > more[i - 2].decision
    <3>1. CASE i = n + 1
      <4>1. i - 2 \in 1..(n - 1) /\ i - 2 \in 1..n
        BY <3>1
      <4>2. calls[i - 2].decision <= step_count /\ calls[i - 2] \in ModelCall
        BY <1>6, <1>7, <4>1 DEF UpTo
      <4>3. calls[i - 2].decision \in Nat
        BY <4>2 DEF ModelCall
      <4> QED
        BY <1>1, <1>9, <1>11, <3>1, <4>1, <4>2, <4>3
    <3>2. CASE i # n + 1
      <4>1. i \in 3..n /\ i \in 1..n /\ i - 2 \in 1..n
        BY <3>2
      <4> QED
        BY <1>6, <1>7, <1>11, <4>1 DEF Strict
    <3> QED
      BY <3>1, <3>2
  <2> QED
    BY <1>9, <2>1 DEF Strict
<1>14. Repeats(more) \subseteq Repeats(calls) \cup {n + 1}
  BY <1>6, <1>9, <1>11 DEF Repeats
<1>15. Cardinality(Repeats(more)) <= Cardinality(Repeats(calls)) + 1
  <2>1. IsFiniteSet(Repeats(calls)) /\ Cardinality(Repeats(calls)) \in Nat
    BY <1>2, <1>7, CountsAreNumbers DEF Remote
  <2>2. PICK R : R = Repeats(calls) \cup {n + 1}
    OBVIOUS
  <2>3. /\ IsFiniteSet(R)
        /\ Cardinality(R) = IF n + 1 \in Repeats(calls) THEN Cardinality(Repeats(calls))
                            ELSE Cardinality(Repeats(calls)) + 1
    BY <2>1, <2>2, FS_AddElement
  <2>4. Repeats(more) \subseteq R
    BY <1>14, <2>2
  <2>5. Cardinality(Repeats(more)) <= Cardinality(R) /\ Cardinality(Repeats(more)) \in Nat
    BY <2>3, <2>4, FS_Subset, FS_CardinalityType
  <2> QED
    BY <2>1, <2>3, <2>5
<1>16. Cardinality(Vain(answers')) = Cardinality(Vain(answers)) + 1
       /\ Cardinality(Vain(answers)) \in Nat
  <2>1. PICK a : a = [previous |-> response_id, input |-> request.input,
                     valid |-> FALSE, call |-> FALSE]
    OBVIOUS
  <2>2. response_id \in Nat \cup {None} /\ answers \in Seq(AnswerType)
    BY <1>2 DEF Remote
  <2>3. a \in AnswerType /\ a.valid = FALSE
    BY <1>2, <2>1, <2>2 DEF AnswerType, Asked
  <2>4. answers' = Append(answers, a)
    BY <1>2, <2>1 DEF Correct, InvalidOutput, Stored, Asked
  <2> QED
    BY <2>2, <2>3, <2>4, VainGrows
<1>17. Cardinality(Repeats(more)) <= Cardinality(Vain(answers'))
  <2>1. Cardinality(Repeats(calls)) \in Nat /\ Cardinality(Repeats(more)) \in Nat
    BY <1>2, <1>7, <1>9, CountsAreNumbers DEF Remote
  <2> QED
    BY <1>7, <1>15, <1>16, <2>1
<1>18. /\ n + 1 - 1 = n /\ n + 1 - 2 = n - 1
       /\ Len(model_calls') = n + 1
  BY <1>5, <1>9
<1> QED
  BY <1>1, <1>3, <1>5, <1>9, <1>10, <1>12, <1>13, <1>17, <1>18 DEF CallsInv

LEMMA RequestMade ==
  ASSUME CallsInv, ConversationInv, TypeOK, Ask
  PROVE  CallsInv'
<1>1. /\ pc = "loop" /\ pc' = "deciding" /\ UNCHANGED <<step_count, answers>>
      /\ step_count \in Nat
  BY DEF Ask, StartDecision, session, TypeOK
<1>2. Remote /\ Owing
  BY <1>1 DEF ConversationInv
<1>3. NextInput.kind # "none"
  BY <1>1, <1>2, NextInputContinues
<1>4. PICK calls, more : calls = model_calls /\ more = ModelStarted(calls, step_count + 1)
  OBVIOUS
<1>5. model_calls' = more
  BY <1>3, <1>4 DEF Ask
<1>6. PICK n \in Nat : n = Len(calls)
  BY <1>4 DEF CallsInv
<1>7. /\ calls \in Seq(ModelCall)
      /\ \A i \in 1..n : calls[i].finished = TRUE
      /\ UpTo(calls, n, step_count)
      /\ Strict(calls)
      /\ Cardinality(Repeats(calls)) <= Cardinality(Vain(answers))
  BY <1>1, <1>4, <1>6 DEF CallsInv
<1>8. /\ more \in Seq(ModelCall) /\ Len(more) = n + 1
      /\ \A i \in 1..n : more[i] = calls[i]
      /\ more[n + 1].decision = step_count + 1
  <2>1. /\ more \in Seq(ModelCall) /\ Len(more) = Len(calls) + 1
        /\ \A i \in 1..Len(calls) : more[i] = calls[i]
        /\ more[Len(calls) + 1].decision = step_count + 1
    BY <1>1, <1>4, <1>7, StartedCalls
  <2> QED
    BY <1>6, <2>1
<1>9. \A i \in 1..n : more[i].decision <= step_count /\ more[i].decision \in Nat
  <2>1. \A i \in 1..n : calls[i] \in ModelCall /\ calls[i].decision <= step_count
    BY <1>6, <1>7 DEF UpTo
  <2>2. \A c \in ModelCall : c.decision \in Nat
    BY DEF ModelCall
  <2> QED
    BY <1>8, <2>1, <2>2
<1>10. UpTo(more, n, step_count) /\ UpTo(more, n - 1, step_count)
  BY <1>6, <1>9 DEF UpTo
<1>11. UpTo(more, n + 1, step_count + 1)
  <2>1. ASSUME NEW i \in 1..(n + 1) PROVE more[i].decision <= step_count + 1
    <3>1. CASE i \in 1..n
      <4>1. more[i].decision <= step_count /\ more[i].decision \in Nat
        BY <1>9, <3>1
      <4> QED
        BY <1>1, <4>1
    <3>2. CASE i = n + 1
      BY <1>1, <1>8, <3>2
    <3> QED
      BY <1>6, <3>1, <3>2
  <2> QED
    BY <2>1 DEF UpTo
<1>12. Strict(more)
  <2>1. ASSUME NEW i \in 3..(n + 1) PROVE more[i].decision > more[i - 2].decision
    <3>1. i - 2 \in 1..n
      BY <1>6
    <3>2. CASE i = n + 1
      <4>1. more[i - 2].decision <= step_count /\ more[i - 2].decision \in Nat
        BY <1>9, <3>1
      <4> QED
        BY <1>1, <1>8, <3>2, <4>1
    <3>3. CASE i # n + 1
      <4>1. i \in 3..Len(calls) /\ i \in 1..n
        BY <1>6, <3>3
      <4>2. calls[i].decision > calls[i - 2].decision
        BY <1>7, <4>1 DEF Strict
      <4> QED
        BY <1>8, <3>1, <4>1, <4>2
    <3> QED
      BY <3>2, <3>3
  <2> QED
    BY <1>8, <2>1 DEF Strict
<1>13. Repeats(more) = Repeats(calls)
  <2>1. ASSUME NEW i \in 2..(n + 1)
        PROVE  /\ i - 1 \in 1..n
               /\ more[i].decision = more[i - 1].decision =>
                    i \in 2..n /\ calls[i].decision = calls[i - 1].decision
    <3>1. i - 1 \in 1..n /\ (i # n + 1 => i \in 2..n /\ i \in 1..n)
      BY <1>6
    <3>2. more[i - 1].decision <= step_count /\ more[i - 1].decision \in Nat
      BY <1>9, <3>1
    <3>3. i = n + 1 => more[i].decision # more[i - 1].decision
      BY <1>1, <1>8, <3>2
    <3> QED
      BY <1>8, <3>1, <3>3
  <2>2. \A i \in 2..n : /\ i \in 2..(n + 1) /\ i \in 1..n /\ i - 1 \in 1..n
                        /\ more[i] = calls[i] /\ more[i - 1] = calls[i - 1]
    <3>1. ASSUME NEW i \in 2..n
          PROVE  i \in 2..(n + 1) /\ i \in 1..n /\ i - 1 \in 1..n
      BY <1>6
    <3> QED
      BY <1>8, <3>1
  <2> QED
    BY <1>6, <1>8, <2>1, <2>2 DEF Repeats
<1>14. /\ n + 1 - 1 = n /\ n + 1 - 2 = n - 1
       /\ Len(model_calls') = n + 1
  BY <1>5, <1>8
<1> QED
  BY <1>1, <1>5, <1>7, <1>8, <1>10, <1>11, <1>12, <1>13, <1>14 DEF CallsInv

\* A step in which the provider takes no part.
LEMMA NoRequest ==
  ASSUME CallsInv, UNCHANGED <<model_calls, answers, request, step_count>>,
         \/ pc' = pc
         \/ pc = "calling" /\ pc' \in {"loop", "calling"}
         \/ pc # "deciding" /\ pc' \notin {"loop", "calling", "deciding"}
  PROVE  CallsInv'
<1>1. CASE pc' = pc
  BY <1>1 DEF CallsInv, UpTo, Strict, Repeats
<1>2. CASE pc = "calling" /\ pc' \in {"loop", "calling"}
  BY <1>2 DEF CallsInv, UpTo, Strict, Repeats
<1>3. CASE pc # "deciding" /\ pc' \notin {"loop", "calling", "deciding"}
  BY <1>3 DEF CallsInv, UpTo, Strict, Repeats
<1> QED
  BY <1>1, <1>2, <1>3

LEMMA CallsInit ==
  ASSUME PInit
  PROVE  CallsInv
<1>1. model_calls = <<>> /\ answers = <<>> /\ pc = "loop"
  BY DEF PInit, Init
<1>2. Repeats(model_calls) = {} /\ Vain(answers) = {}
  BY <1>1 DEF Repeats, Vain
<1>3. Cardinality(Repeats(model_calls)) <= Cardinality(Vain(answers))
  BY <1>2, FS_EmptySet
<1> QED
  BY <1>1, <1>3 DEF CallsInv, Strict, UpTo

LEMMA CallsStep ==
  ASSUME CallsInv, ConversationInv, ConversationInv', TypeOK, [PNext]_pvars
  PROVE  CallsInv'
<1>a. Remote /\ Remote'
  BY DEF ConversationInv
<1>b. ASSUME UNCHANGED answers
      PROVE  Cardinality(Vain(answers)) <= Cardinality(Vain(answers'))
  <2>1. Cardinality(Vain(answers)) \in Nat
    BY <1>a, CountsAreNumbers DEF Remote, CallsInv
  <2> QED
    BY <1>b, <2>1
<1>c. ASSUME pc = "deciding", NEW valid \in BOOLEAN, NEW call \in BOOLEAN,
             Stored(valid, call)
      PROVE  Cardinality(Vain(answers)) <= Cardinality(Vain(answers'))
  <2>1. Asked
    BY <1>c DEF ConversationInv
  <2>2. PICK a : a = [previous |-> request.previous, input |-> request.input,
                     valid |-> valid, call |-> call]
    OBVIOUS
  <2>3. response_id \in Nat \cup {None} /\ answers \in Seq(AnswerType)
    BY <1>a DEF Remote
  <2>4. a \in AnswerType
    BY <2>1, <2>2, <2>3 DEF AnswerType, Asked
  <2>5. answers' = Append(answers, a)
    BY <1>c, <2>2 DEF Stored
  <2>6. PICK given, more : given = answers /\ more = answers'
    OBVIOUS
  <2>7. given \in Seq(AnswerType) /\ more = Append(given, a)
    BY <2>3, <2>5, <2>6
  <2>8. /\ Cardinality(Vain(given)) \in Nat
        /\ Cardinality(Vain(more)) = Cardinality(Vain(given))
                                      + IF a.valid = FALSE THEN 1 ELSE 0
    BY <2>4, <2>7, VainGrows
  <2>9. PICK old, new : old = Cardinality(Vain(given)) /\ new = Cardinality(Vain(more))
    OBVIOUS
  <2>10. old \in Nat /\ (new = old \/ new = old + 1)
    BY <2>8, <2>9
  <2>11. old <= new
    BY <2>10
  <2> QED
    BY <2>6, <2>9, <2>11
<1>1. CASE Ask
  BY <1>1, RequestMade
<1>2. ASSUME NEW raised \in BOOLEAN, Correct(raised) PROVE CallsInv'
  BY <1>2, RequestCorrected
<1>3. ASSUME NEW raised \in BOOLEAN, FailAfterCorrection(raised) PROVE CallsInv'
  <2>1. pc = "deciding" /\ pc' = "returned" /\ RequestEnds(raised)
    BY <1>3 DEF FailAfterCorrection, InvalidOutput, DecisionArrives, ProviderFails, Return
  <2>2. PICK no \in BOOLEAN : Stored(no, no)
    BY <1>3 DEF FailAfterCorrection, InvalidOutput
  <2> QED
    BY <1>a, <1>c, <2>1, <2>2, RequestAnswered
<1>4. CASE FailOnApiError
  <2>1. pc = "deciding" /\ pc' = "returned" /\ UNCHANGED answers
    BY <1>4 DEF FailOnApiError, ProviderFails, DecisionArrives, Return, conversation
  <2>2. PICK yes \in BOOLEAN : RequestEnds(yes)
    BY <1>4 DEF FailOnApiError
  <2> QED
    BY <1>a, <1>b, <2>1, <2>2, RequestAnswered
<1>5. ASSUME NEW answer \in Answers, DecideFinal(answer) PROVE CallsInv'
  <2>1. pc = "deciding" /\ pc' = "returned"
    BY <1>5 DEF DecideFinal, AcceptFinalAnswer, DecisionArrives, Return
  <2>2. PICK yes \in BOOLEAN, no \in BOOLEAN : Stored(yes, no) /\ RequestEnds(no)
    BY <1>5 DEF DecideFinal
  <2> QED
    BY <1>a, <1>c, <2>1, <2>2, RequestAnswered
<1>6. ASSUME NEW r \in Requests, DecideCall(r) PROVE CallsInv'
  <2>1. pc = "deciding" /\ pc' # "deciding" /\ step_count' = step_count + 1
    BY <1>6 DEF DecideCall, RejectRequest, RefuseOverBudget, RefuseIdentical, Refuse,
                Dispatch, DecisionArrives, RecordDecision
  <2>2. PICK yes \in BOOLEAN, no \in BOOLEAN : Stored(yes, yes) /\ RequestEnds(no)
    BY <1>6 DEF DecideCall
  <2> QED
    BY <1>a, <1>c, <2>1, <2>2, RequestAnswered
<1>7. ASSUME pc' \notin {"loop", "calling", "deciding"}, UNCHANGED step_count,
             UNCHANGED conversation,
             pc = "deciding" => \E yes \in BOOLEAN : RequestEnds(yes),
             pc # "deciding" => UNCHANGED model_calls
      PROVE  CallsInv'
  <2>1. UNCHANGED <<answers, request>>
    BY <1>7 DEF conversation
  <2>2. CASE pc = "deciding"
    <3>1. PICK yes \in BOOLEAN : RequestEnds(yes)
      BY <1>7, <2>2
    <3> QED
      BY <1>a, <1>b, <1>7, <2>1, <2>2, <3>1, RequestAnswered
  <2>3. CASE pc # "deciding"
    BY <1>7, <2>1, <2>3, NoRequest
  <2> QED
    BY <2>2, <2>3
<1>8. CASE Interrupts(ResumeTimedOut) \/ Interrupts(RaiseTimeoutError)
  <2>1. pc' = "returned" /\ UNCHANGED step_count
    BY <1>8 DEF Interrupts, ResumeTimedOut, RaiseTimeoutError, ReturnTimedOut, Return
  <2>2. /\ UNCHANGED conversation /\ (pc # "deciding" => UNCHANGED model_calls)
        /\ pc = "deciding" => RequestEnds(TRUE)
    BY <1>8 DEF Interrupts
  <2>3. pc = "deciding" => \E yes \in BOOLEAN : RequestEnds(yes)
    BY <2>2
  <2>4. pc' \notin {"loop", "calling", "deciding"}
    BY <2>1
  <2> QED
    BY <1>7, <2>1, <2>2, <2>3, <2>4
<1>9. CASE Interrupts(ResumeCancelled) \/ Interrupts(RaiseException)
  <2>1. pc' \in {"cancelled", "raised"} /\ UNCHANGED step_count
    BY <1>9 DEF Interrupts, ResumeCancelled, RaiseException, session
  <2>2. /\ UNCHANGED conversation /\ (pc # "deciding" => UNCHANGED model_calls)
        /\ pc = "deciding" => RequestEnds(TRUE)
    BY <1>9 DEF Interrupts
  <2>3. pc = "deciding" => \E yes \in BOOLEAN : RequestEnds(yes)
    BY <2>2
  <2>4. pc' \notin {"loop", "calling", "deciding"}
    BY <2>1
  <2> QED
    BY <1>7, <2>1, <2>2, <2>3, <2>4
<1>10. CASE Elsewhere
  <2>1. UNCHANGED <<model_calls, answers, request>>
    BY <1>10 DEF Elsewhere, conversation
  <2>2. CASE ReachDecisionLimit
    BY <2>1, <2>2, NoRequest DEF ReachDecisionLimit, Return
  <2>3. CASE ToolReturns
    BY <2>1, <2>3, NoRequest DEF ToolReturns, RecordResult, RetryTimeout, ToolAnswers
  <2>4. CASE TimerFires \/ Cancel \/ Rest
    BY <2>1, <2>4, NoRequest DEF TimerFires, Cancel, Rest, session, vars
  <2> QED
    BY <1>10, <2>2, <2>3, <2>4 DEF Elsewhere
<1>11. CASE UNCHANGED pvars
  BY <1>11, NoRequest DEF pvars, vars, session, conversation
<1> QED
  BY <1>1, <1>2, <1>3, <1>4, <1>5, <1>6, <1>8, <1>9, <1>10, <1>11 DEF PNext

\* Every call to the model is on record and closed, corrective requests, failures and
\* calls that were cut off included.
THEOREM ModelCallsAreAccounted == PSpec => []ModelCallsAccounted
<1>1. ASSUME TypeOK, ConversationInv, CallsInv PROVE ModelCallsAccounted
  <2>1. /\ model_calls \in Seq(ModelCall) /\ Strict(model_calls)
        /\ \A i \in 1..(Len(model_calls) - 1) : model_calls[i].finished = TRUE
        /\ pc # "deciding" => \A i \in 1..Len(model_calls) : model_calls[i].finished = TRUE
        /\ Cardinality(Repeats(model_calls)) <= Cardinality(Vain(answers))
    BY <1>1 DEF CallsInv
  <2>2. Len(model_calls) \in Nat
    BY <2>1
  <2>3. Ended => \A i \in 1..Len(model_calls) : model_calls[i].finished
    BY <2>1 DEF Ended
  <2>4. ASSUME NEW i \in 1..Len(model_calls)
        PROVE  /\ i < Len(model_calls) => model_calls[i].finished
               /\ i > 2 => model_calls[i].decision > model_calls[i - 2].decision
    <3>1. i < Len(model_calls) => i \in 1..(Len(model_calls) - 1)
      BY <2>2
    <3>2. i > 2 => i \in 3..Len(model_calls)
      BY <2>2
    <3> QED
      BY <2>1, <3>1, <3>2 DEF Strict
  <2> QED
    BY <2>1, <2>3, <2>4 DEF ModelCallsAccounted, Repeats, Vain
<1>2. PInit => CallsInv
  BY CallsInit
<1>3. /\ TypeOK /\ ConversationInv /\ (TypeOK /\ ConversationInv)'
      /\ CallsInv /\ [PNext]_pvars
      => CallsInv'
  BY CallsStep
<1> QED
  BY <1>1, <1>2, <1>3, ConversationInvariant, PTL DEF PSpec

-----------------------------------------------------------------------------
(* Second part: the loop on the Sandbox API *)

Api == INSTANCE SandboxApiProofs WITH
  Requests <- Slots \cup Others,
  None <- NoCall,
  answer <- reply

\* The server of the composition and the server the facts are about are one.
LEMMA SameServer ==
  ASSUME NEW r
  PROVE  /\ Sandbox!Receive(r) = Api!Receive(r)
         /\ Sandbox!Answer(r) = Api!Answer(r)
         /\ Sandbox!LogFails(r) = Api!LogFails(r)
         /\ Sandbox!GetProduct(r) = Api!GetProduct(r)
         /\ Sandbox!GetOrder(r) = Api!GetOrder(r)
         /\ Sandbox!UpdateInventory(r) = Api!UpdateInventory(r)
         /\ Sandbox!BeginOrder(r) = Api!BeginOrder(r)
         /\ Sandbox!RollBackOrder(r) = Api!RollBackOrder(r)
         /\ Sandbox!InsertOrder(r) = Api!InsertOrder(r)
         /\ Sandbox!CommitOrder(r) = Api!CommitOrder(r)
         /\ Sandbox!ReadOrder(r) = Api!ReadOrder(r)
         /\ Sandbox!InsertPayment(r) = Api!InsertPayment(r)
         /\ Sandbox!WriteFails(r) = Api!WriteFails(r)
  BY DEF Sandbox!Receive, Api!Receive, Sandbox!Answer, Api!Answer, Sandbox!LogFails,
         Api!LogFails, Sandbox!GetProduct, Api!GetProduct, Sandbox!GetOrder, Api!GetOrder,
         Sandbox!UpdateInventory, Api!UpdateInventory, Sandbox!BeginOrder, Api!BeginOrder,
         Sandbox!RollBackOrder, Api!RollBackOrder, Sandbox!InsertOrder, Api!InsertOrder,
         Sandbox!CommitOrder, Api!CommitOrder,
         Sandbox!ReadOrder, Api!ReadOrder, Sandbox!InsertPayment, Api!InsertPayment,
         Sandbox!WriteFails, Api!WriteFails, Sandbox!Moves, Api!Moves, Sandbox!Is, Api!Is,
         Sandbox!Responds, Api!Responds, Sandbox!Log, Api!Log, Sandbox!tables, Api!tables,
         Sandbox!NewOrder, Api!NewOrder

\* The calls sent and the results seen, in step with the history.
HttpInv ==
  /\ sent = Selected(CallsMade, HttpCalls)
  /\ Len(HttpObservations) = Len(Selected(tool_history, HttpCalls))

\* The server knows of those calls only, each for what it asks.
ServedInv ==
  /\ \A k \in Slots : k > Len(sent) => op[k] = NoCall
  /\ \A k \in 1..Len(sent) : op[k] \in {NoCall, OperationOf[sent[k]]}

\* Whoever was told something was answered, and has the id of the answer.
ToldInv ==
  \A k \in 1..Len(HttpObservations) :
    HttpObservations[k].outcome = "OK" =>
      /\ at[k] = "answered"
      /\ HttpObservations[k].request_id = IF reply[k].request_id THEN k ELSE NoId

\* The ids kept are those of answers seen, and those looked up and found in the logs.
Logged(id) == id \in Slots \cup Others /\ logs[id] # <<>>
KeptInv ==
  \A id \in Kept(request_ids) : SeenAnswered(id) \/ (LookedUp(id) /\ Logged(id))

TraceInv == HttpInv /\ ServedInv /\ ToldInv /\ KeptInv

ServerInv == Api!SandboxInv /\ Api!OwnersInv

LEMMA LogsOfRequests == ServerInv => DOMAIN logs = Slots \cup Others
  BY DEF ServerInv, Api!SandboxInv, Api!TypeInv

-----------------------------------------------------------------------------
(* The requests sent and the results seen *)

LEMMA SlotFacts ==
  /\ \A k \in Slots : k \in Nat /\ k # NoId /\ k \in RequestIds
  /\ \A k \in Nat : 1 <= k /\ k <= MaxToolCalls => k \in Slots
  /\ HttpCalls \subseteq Calls
  /\ \A c \in Calls : c \in HttpCalls <=> ToolName[c] \in HttpTools
  /\ \A c \in Calls \ HttpCalls : InspectedId[c] \in RequestIds
<1>1. Slots = 1..MaxToolCalls /\ Slots \subseteq RequestIds /\ NoId \notin RequestIds
      /\ MaxToolCalls \in Nat
  BY CompositionAssumption, RequestsAssumption, LimitsAssumption
<1>2. InspectedId \in [{c \in Calls : ToolName[c] \notin HttpTools} -> RequestIds]
  BY CompositionAssumption
<1>3. \A k \in Slots : k \in Nat /\ k # NoId /\ k \in RequestIds
  BY <1>1
<1>4. \A k \in Nat : 1 <= k /\ k <= MaxToolCalls => k \in Slots
  BY <1>1
<1>5. \A c \in Calls : c \in HttpCalls <=> ToolName[c] \in HttpTools
  BY DEF HttpCalls, OverHttp
<1> QED
  BY <1>2, <1>3, <1>4, <1>5 DEF HttpCalls

LEMMA SentFacts ==
  ASSUME BudgetInv, HttpInv
  PROVE  /\ CallsMade \in Seq(Calls) /\ sent \in Seq(HttpCalls)
         /\ Len(sent) \in Nat /\ Len(sent) <= Len(CallsMade) /\ Len(sent) <= MaxToolCalls
         /\ Len(HttpObservations) \in Nat
         /\ pending_call \in HttpCalls =>
              /\ Len(sent) = Len(HttpObservations) + 1
              /\ sent[Len(sent)] = pending_call
              /\ Len(sent) \in Slots
         /\ pending_call \notin HttpCalls => Len(sent) = Len(HttpObservations)
<1>1. /\ tool_history \in Seq(Calls) /\ pending_call \in Calls \cup {NoCall}
      /\ Len(CallsMade) <= MaxToolCalls
      /\ MaxToolCalls \in Nat
      /\ NoCall \notin Calls
      /\ HttpCalls \subseteq Calls
  BY CallFacts, SlotFacts, LimitsAssumption DEF BudgetInv, TypeOK, BudgetsRespected
<1>2. CallsMade \in Seq(Calls) /\ Len(CallsMade) \in Nat
  BY <1>1 DEF CallsMade
<1>3. /\ Selected(CallsMade, HttpCalls) \in Seq(Calls \cap HttpCalls)
      /\ Selected(tool_history, HttpCalls) \in Seq(Calls \cap HttpCalls)
      /\ Len(sent) \in Nat /\ Len(sent) <= Len(CallsMade)
  BY <1>1, <1>2, SelectedType, SelectedShorter DEF HttpInv
<1>4. Calls \cap HttpCalls = HttpCalls
  BY <1>1
<1>5. PICK H : H = Selected(tool_history, HttpCalls)
  OBVIOUS
<1>6. H \in Seq(HttpCalls) /\ Len(HttpObservations) = Len(H) /\ Len(H) \in Nat
  BY <1>3, <1>4, <1>5 DEF HttpInv
<1>7. CASE pending_call \in HttpCalls
  <2>1. CallsMade = Append(tool_history, pending_call)
    BY <1>1, <1>7 DEF CallsMade
  <2>2. sent = Append(H, pending_call)
    BY <1>1, <1>5, <1>7, <2>1, SelectedAppend DEF HttpInv
  <2>3. Len(sent) = Len(H) + 1 /\ sent[Len(sent)] = pending_call
    BY <1>6, <1>7, <2>2
  <2>4. Len(sent) \in Slots
    BY <1>1, <1>2, <1>3, <1>6, <2>3, SlotFacts
  <2> QED
    BY <1>1, <1>2, <1>3, <1>4, <1>6, <1>7, <2>3, <2>4 DEF HttpInv
<1>8. CASE pending_call \notin HttpCalls
  <2>1. sent = H
    <3>1. CASE pending_call = NoCall
      BY <1>5, <3>1 DEF HttpInv, CallsMade
    <3>2. CASE pending_call # NoCall
      BY <1>1, <1>5, <1>8, <3>2, SelectedAppend DEF HttpInv, CallsMade
    <3> QED
      BY <3>1, <3>2
  <2> QED
    BY <1>1, <1>2, <1>3, <1>4, <1>6, <1>8, <2>1 DEF HttpInv
<1> QED
  BY <1>7, <1>8

LEMMA SentSlots ==
  ASSUME BudgetInv, HttpInv
  PROVE  \A k \in 1..Len(sent) : k \in Slots
<1>1. Len(sent) \in Nat /\ Len(sent) <= MaxToolCalls /\ MaxToolCalls \in Nat
  BY SentFacts, LimitsAssumption
<1>2. Slots = 1..MaxToolCalls
  BY CompositionAssumption
<1> QED
  BY <1>1, <1>2

\* What the awaited call may be told.
Legitimate(o) ==
  /\ o \in OfTools
  /\ o.tool = ToolName[pending_call]
  /\ o.outcome = "OK" /\ pending_call \in HttpCalls =>
       /\ at[Len(sent)] = "answered"
       /\ o.request_id = IF reply[Len(sent)].request_id THEN Len(sent) ELSE NoId
  /\ o.outcome = "OK" /\ pending_call \notin HttpCalls =>
       /\ o.request_id = InspectedId[pending_call]
       /\ o.request_id \in DOMAIN logs /\ logs[o.request_id] # <<>>
  /\ o.outcome # "OK" => o.request_id = NoId

LEMMA FailureIsLegitimate ==
  ASSUME NEW e \in {"TOOL_TIMEOUT", "TOOL_ERROR", "SESSION_TIMEOUT"}, pending_call \in Calls
  PROVE  Legitimate(Failure(ToolName[pending_call], e))
<1> DEFINE o == Failure(ToolName[pending_call], e)
<1>1. /\ o \in Observation /\ IsToolResult(o)
      /\ o.tool = ToolName[pending_call] /\ o.outcome # "OK" /\ o.request_id = NoId
  BY CallFacts DEF Failure, Observation, Outcomes, LoopErrors, IsToolResult
<1> HIDE DEF o
<1>2. Legitimate(o)
  BY <1>1 DEF Legitimate, OfTools
<1> QED
  BY <1>2 DEF o

LEMMA ResultsAreLegitimate ==
  ASSUME BudgetInv, HttpInv, pending_call # NoCall, NEW o \in ToolResults(pending_call)
  PROVE  Legitimate(o) /\ o \in Results(pending_call)
<1>1. pending_call \in Calls
  BY DEF BudgetInv, TypeOK
<1>2. /\ Failure(ToolName[pending_call], "TOOL_ERROR") \in Results(pending_call)
      /\ ToolName[pending_call] \in HttpTools =>
           Failure(ToolName[pending_call], "TOOL_TIMEOUT") \in Results(pending_call)
  BY DEF Results
<1>3. ToolName[pending_call] \in Tools /\ NoId \notin RequestIds
  BY <1>1, CallFacts, RequestsAssumption
<1>4. CASE pending_call \in HttpCalls
  <2> DEFINE k == Len(sent)
             t == ToolName[pending_call]
  <2>1. sent[k] = pending_call /\ k \in Slots /\ k \in RequestIds /\ t \in HttpTools
    BY <1>1, <1>4, SentFacts, SlotFacts
  <2>2. \/ o = Failure(t, "TOOL_TIMEOUT") \/ o = Failure(t, "TOOL_ERROR")
        \/ /\ o \in [tool : {t}, outcome : {"OK"}, request_id : {k, NoId}]
           /\ at[k] = "answered"
           /\ o.request_id = IF reply[k].request_id THEN k ELSE NoId
    BY <2>1 DEF ToolResults, OverHttp, HttpResults
  <2>3. ASSUME o \in [tool : {t}, outcome : {"OK"}, request_id : {k, NoId}],
               at[k] = "answered",
               o.request_id = IF reply[k].request_id THEN k ELSE NoId
        PROVE  Legitimate(o) /\ o \in Results(pending_call)
    <3>1. /\ o.tool = t /\ o.outcome = "OK" /\ o.request_id \in RequestIds \cup {NoId}
          /\ o \in [tool : {t}, outcome : {"OK"}, request_id : RequestIds \cup {NoId}]
      BY <2>1, <2>3
    <3>2. o \in Observation /\ IsToolResult(o)
      BY <1>3, <3>1 DEF Observation, IsToolResult, Outcomes
    <3> QED
      BY <1>4, <2>3, <3>1, <3>2 DEF Legitimate, OfTools, Results
  <2> QED
    BY <1>1, <1>2, <2>1, <2>2, <2>3, FailureIsLegitimate
<1>5. CASE pending_call \notin HttpCalls
  <2> DEFINE t == ToolName[pending_call]
             id == InspectedId[pending_call]
  <2>1. t \notin HttpTools /\ id \in RequestIds
    BY <1>1, <1>5, SlotFacts
  <2>2. \/ o = Failure(t, "TOOL_ERROR")
        \/ /\ o \in [tool : {t}, outcome : {"OK"}, request_id : {id}]
           /\ id \in DOMAIN logs /\ logs[id] # <<>>
    BY <2>1 DEF ToolResults, OverHttp, LogResults
  <2>3. ASSUME o \in [tool : {t}, outcome : {"OK"}, request_id : {id}],
               id \in DOMAIN logs, logs[id] # <<>>
        PROVE  Legitimate(o) /\ o \in Results(pending_call)
    <3>1. /\ o.tool = t /\ o.outcome = "OK" /\ o.request_id = id
          /\ o \in [tool : {t}, outcome : {"OK"}, request_id : RequestIds \cup {NoId}]
      BY <2>1, <2>3
    <3>2. o \in Observation /\ IsToolResult(o)
      BY <1>3, <3>1 DEF Observation, IsToolResult, Outcomes
    <3> QED
      BY <1>5, <2>3, <3>1, <3>2 DEF Legitimate, OfTools, Results
  <2> QED
    BY <1>1, <1>2, <2>2, <2>3, FailureIsLegitimate
<1> QED
  BY <1>4, <1>5

-----------------------------------------------------------------------------
(* The client is the loop *)

LEMMA ClientIsLoop ==
  ASSUME BudgetInv, HttpInv, [SandboxNext]_<<vars, sandbox, sent>>
  PROVE  [Next]_vars
<1>1. ASSUME NEW r \in Requests, MakeCall(r) PROVE Next
  BY <1>1 DEF MakeCall, Next, ProviderAnswers
<1>2. CASE TakeResult
  <2>1. PICK o \in ToolResults(pending_call) : RecordResult(o) \/ RetryTimeout(o)
    BY <1>2 DEF TakeResult
  <2>2. pending_call # NoCall /\ o \in Results(pending_call)
    BY <1>2, ResultsAreLegitimate DEF TakeResult
  <2> QED
    BY <2>1, <2>2 DEF Next, ToolReturns
<1>3. CASE WithoutCall
  BY <1>3 DEF WithoutCall, Next, ProviderAnswers
<1>4. CASE Server \/ UNCHANGED <<vars, sandbox, sent>>
  BY <1>4 DEF Server
<1> QED
  BY <1>1, <1>2, <1>3, <1>4 DEF SandboxNext, Client

-----------------------------------------------------------------------------
(* What the client writes down *)

OfHttp == {o \in OfTools : o.tool \in HttpTools}

LEMMA ObservationsType ==
  ASSUME TypeOK
  PROVE  HttpObservations \in Seq(Observation) /\ Len(HttpObservations) \in Nat
<1>1. PICK H : H = Selected(observations, OfHttp)
  OBVIOUS
<1>2. observations \in Seq(Observation) /\ Observation \cap OfHttp \subseteq Observation
  BY DEF TypeOK
<1>3. H \in Seq(Observation \cap OfHttp)
  BY <1>1, <1>2, SelectedType
<1>4. H \in Seq(Observation) /\ Len(H) \in Nat
  BY <1>2, <1>3
<1> QED
  BY <1>1, <1>4 DEF HttpObservations, OfHttp

\* Feedback is not a result.
LEMMA Unrecorded ==
  ASSUME TypeOK, TraceInv, UNCHANGED <<tool_history, request_ids, at, reply, logs>>,
         \/ UNCHANGED observations
         \/ \E o \in Observation : ~IsToolResult(o) /\ observations' = Append(observations, o)
  PROVE  /\ HttpObservations' = HttpObservations
         /\ ToldInv' /\ KeptInv'
<1>1. HttpObservations' = HttpObservations
  <2>1. CASE UNCHANGED observations
    BY <2>1 DEF HttpObservations
  <2>2. ASSUME NEW o \in Observation, ~IsToolResult(o), observations' = Append(observations, o)
        PROVE  HttpObservations' = HttpObservations
    <3>1. observations \in Seq(Observation) /\ o \notin OfHttp
      BY <2>2 DEF TypeOK, OfHttp, OfTools
    <3>2. Selected(Append(observations, o), OfHttp) = Selected(observations, OfHttp)
      BY <3>1, SelectedAppend
    <3> QED
      BY <2>2, <3>2 DEF HttpObservations, OfHttp
  <2> QED
    BY <2>1, <2>2
<1>2. ToolObservations' = ToolObservations
  <2>1. CASE UNCHANGED observations
    BY <2>1 DEF ToolObservations
  <2>2. ASSUME NEW o \in Observation, ~IsToolResult(o), observations' = Append(observations, o)
        PROVE  ToolObservations' = ToolObservations
    <3>1. observations \in Seq(Observation) /\ o \notin OfTools
      BY <2>2 DEF TypeOK, OfTools
    <3>2. Selected(Append(observations, o), OfTools) = Selected(observations, OfTools)
      BY <3>1, SelectedAppend
    <3> QED
      BY <2>2, <3>2 DEF ToolObservations
  <2> QED
    BY <2>1, <2>2
<1> QED
  BY <1>1, <1>2 DEF TraceInv, ToldInv, KeptInv, Kept, SeenAnswered, LookedUp, Logged

LEMMA Recorded ==
  ASSUME BudgetInv, HistoryMatchesObservations, TraceInv, DOMAIN logs = Slots \cup Others,
         pending_call \in Calls, NEW o, Legitimate(o),
         RecordToolResult(pending_call, o), UNCHANGED <<at, reply, logs>>
  PROVE  /\ Len(HttpObservations') = Len(Selected(tool_history', HttpCalls))
         /\ ToldInv' /\ KeptInv'
<1>1. /\ TypeOK /\ HttpInv
      /\ observations \in Seq(Observation) /\ tool_history \in Seq(Calls)
      /\ request_ids \in Seq(RequestIds)
      /\ o \in Observation /\ o.request_id \in RequestIds \cup {NoId}
  BY DEF BudgetInv, TypeOK, TraceInv, Legitimate, OfTools, Observation
<1>2. /\ observations' = Append(observations, o)
      /\ tool_history' = Append(tool_history, pending_call)
      /\ request_ids' = IF o.request_id = NoId \/ Known(o.request_id) THEN request_ids
                        ELSE Append(request_ids, o.request_id)
  BY DEF RecordToolResult
<1>3. pending_call \in HttpCalls <=> o \in OfHttp
  BY SlotFacts DEF Legitimate, OfHttp
<1>4. PICK H, K, T : /\ H = HttpObservations /\ K = HttpObservations'
                     /\ T = Selected(tool_history, HttpCalls)
  OBVIOUS
<1>5. /\ K = IF pending_call \in HttpCalls THEN Append(H, o) ELSE H
      /\ H \in Seq(Observation) /\ Len(H) \in Nat /\ Len(H) = Len(T)
  <2>1. Selected(Append(observations, o), OfHttp)
          = IF o \in OfHttp THEN Append(Selected(observations, OfHttp), o)
            ELSE Selected(observations, OfHttp)
    BY <1>1, SelectedAppend
  <2> QED
    BY <1>1, <1>2, <1>3, <1>4, <2>1, ObservationsType DEF HttpObservations, OfHttp, HttpInv
<1>6. /\ \A i \in 1..Len(H) : i \in 1..Len(K) /\ K[i] = H[i]
      /\ pending_call \in HttpCalls => Len(K) = Len(H) + 1 /\ K[Len(K)] = o
      /\ pending_call \notin HttpCalls => K = H
  BY <1>1, <1>5
<1>7. Len(K) = Len(Selected(tool_history', HttpCalls))
  <2>1. Selected(tool_history', HttpCalls)
          = IF pending_call \in HttpCalls THEN Append(T, pending_call) ELSE T
    BY <1>1, <1>2, <1>4, SelectedAppend
  <2>2. T \in Seq(Calls \cap HttpCalls)
    BY <1>1, <1>4, SelectedType
  <2>3. T \in Seq(Calls)
    BY <2>2
  <2> QED
    BY <1>5, <1>6, <2>1, <2>3
<1>8. pending_call \in HttpCalls => Len(sent) = Len(K)
  BY <1>1, <1>4, <1>6, SentFacts
<1>9. ASSUME NEW k \in 1..Len(K), K[k].outcome = "OK"
      PROVE  /\ at'[k] = "answered"
             /\ K[k].request_id = IF reply'[k].request_id THEN k ELSE NoId
  <2>1. CASE k \in 1..Len(H)
    BY <1>4, <1>6, <1>9, <2>1 DEF TraceInv, ToldInv
  <2>2. CASE k \notin 1..Len(H)
    <3>1. pending_call \in HttpCalls /\ k = Len(K) /\ K[k] = o
      BY <1>5, <1>6, <2>2
    <3> QED
      BY <1>8, <1>9, <3>1 DEF Legitimate
  <2> QED
    BY <2>1, <2>2
<1>10. \A id \in Kept(request_ids') :
         id \in Kept(request_ids) \/ (id = o.request_id /\ id # NoId)
  <2>1. CASE request_ids' = request_ids
    BY <2>1
  <2>2. CASE request_ids' = Append(request_ids, o.request_id) /\ o.request_id # NoId
    <3>1. /\ Len(request_ids') = Len(request_ids) + 1 /\ Len(request_ids) \in Nat
          /\ request_ids'[Len(request_ids) + 1] = o.request_id
          /\ \A i \in 1..Len(request_ids) : request_ids'[i] = request_ids[i]
      BY <1>1, <2>2
    <3>2. \A i \in 1..Len(request_ids') : i \in 1..Len(request_ids) \/ i = Len(request_ids) + 1
      BY <3>1
    <3> QED
      BY <2>2, <3>1, <3>2 DEF Kept
  <2> QED
    BY <1>2, <2>1, <2>2
<1>11. PICK V, W : V = ToolObservations /\ W = ToolObservations'
  OBVIOUS
<1>12. /\ Len(V) = Len(tool_history) /\ Len(V) \in Nat
       /\ \A i \in 1..Len(V) : W[i] = V[i] /\ tool_history'[i] = tool_history[i]
       /\ W[Len(V) + 1] = o /\ tool_history'[Len(V) + 1] = pending_call
       /\ Len(tool_history') = Len(V) + 1
  <2>1. V \in Seq(Observation \cap OfTools) /\ W = Append(V, o)
    <3>1. o \in OfTools
      BY DEF Legitimate
    <3>2. V = Selected(observations, OfTools) /\ W = Selected(Append(observations, o), OfTools)
      BY <1>2, <1>11 DEF ToolObservations
    <3>3. V \in Seq(Observation \cap OfTools)
      BY <1>1, <3>2, SelectedType
    <3>4. Selected(Append(observations, o), OfTools) = Append(Selected(observations, OfTools), o)
      BY <1>1, <3>1, SelectedAppend
    <3> QED
      BY <3>2, <3>3, <3>4
  <2>2. V \in Seq(Observation)
    BY <2>1
  <2>3. Len(V) = Len(tool_history)
    BY <1>11 DEF HistoryMatchesObservations, ToolObservations
  <2> QED
    BY <1>1, <1>2, <2>1, <2>2, <2>3
<1>13. ASSUME NEW id \in Kept(request_ids')
       PROVE  SeenAnswered(id)' \/ (LookedUp(id)' /\ Logged(id)')
  <2>1. CASE id \in Kept(request_ids)
    <3>1. CASE SeenAnswered(id)
      BY <1>4, <1>6, <3>1 DEF SeenAnswered
    <3>2. CASE LookedUp(id) /\ Logged(id)
      <4>1. PICK i \in 1..Len(tool_history) :
              /\ ~OverHttp(tool_history[i]) /\ InspectedId[tool_history[i]] = id
              /\ V[i].outcome = "OK"
        BY <1>11, <3>2 DEF LookedUp
      <4>2. i \in 1..Len(tool_history') /\ tool_history'[i] = tool_history[i] /\ W[i] = V[i]
        BY <1>12, <4>1
      <4> QED
        BY <1>11, <3>2, <4>1, <4>2 DEF LookedUp, Logged, OverHttp
    <3> QED
      BY <2>1, <3>1, <3>2 DEF TraceInv, KeptInv
  <2>2. CASE id \notin Kept(request_ids)
    <3>1. id = o.request_id /\ o.outcome = "OK"
      BY <1>10, <2>2 DEF Legitimate
    <3>2. CASE pending_call \in HttpCalls
      <4>1. id = Len(sent) /\ id = Len(K) /\ Len(K) = Len(H) + 1 /\ K[Len(K)] = o
        BY <1>6, <1>8, <1>10, <2>2, <3>1, <3>2 DEF Legitimate
      <4>2. id \in 1..Len(K) /\ K[id] = o
        BY <1>5, <4>1
      <4> QED
        BY <1>4, <3>1, <4>2 DEF SeenAnswered
    <3>3. CASE pending_call \notin HttpCalls
      <4>1. /\ InspectedId[pending_call] = id /\ ~OverHttp(pending_call)
            /\ id \in Slots \cup Others /\ logs[id] # <<>>
        BY <3>1, <3>3, SlotFacts DEF Legitimate, OverHttp
      <4>2. Len(V) + 1 \in 1..Len(tool_history')
        BY <1>12
      <4> QED
        BY <1>11, <1>12, <3>1, <4>1, <4>2 DEF LookedUp, Logged, OverHttp
    <3> QED
      BY <3>2, <3>3
  <2> QED
    BY <2>1, <2>2
<1>14. ToldInv'
  BY <1>4, <1>9 DEF ToldInv
<1>15. KeptInv'
  BY <1>13 DEF KeptInv, Kept
<1> QED
  BY <1>4, <1>7, <1>14, <1>15

-----------------------------------------------------------------------------
(* The steps of the client *)

\* A call on the wire is the next request, which the server has not heard of.
LEMMA ServedSent ==
  ASSUME BudgetInv, HttpInv, BudgetInv', HttpInv', ServedInv, NEW c, Sends(c), UNCHANGED op
  PROVE  ServedInv'
<1>1. CASE sent' = sent
  BY <1>1 DEF ServedInv
<1>2. CASE sent' = Append(sent, c)
  <2>1. sent \in Seq(HttpCalls) /\ Len(sent) \in Nat
    BY SentFacts
  <2>2. /\ Len(sent') = Len(sent) + 1
        /\ \A k \in 1..Len(sent) : sent'[k] = sent[k]
    BY <1>2, <2>1
  <2>3. PICK M : M = CallsMade'
    OBVIOUS
  <2>4. M \in Seq(Calls) /\ Len(M) <= MaxToolCalls
    <3>1. tool_history' \in Seq(Calls) /\ pending_call' \in Calls \cup {NoCall}
      BY DEF BudgetInv, TypeOK
    <3> QED
      BY <2>3, <3>1 DEF BudgetInv, BudgetsRespected, CallsMade
  <2>5. Len(sent') <= Len(M)
    BY <2>3, <2>4, SelectedShorter DEF HttpInv
  <2>6. Len(sent) + 1 \in Slots
    BY <2>1, <2>2, <2>4, <2>5, SlotFacts, LimitsAssumption
  <2>7. \A k \in Slots : k \in Nat
    BY SlotFacts
  <2>8. \A k \in 1..Len(sent') : k \in 1..Len(sent) \/ k = Len(sent) + 1
    BY <2>1, <2>2
  <2>9. op[Len(sent) + 1] = NoCall
    BY <2>1, <2>6 DEF ServedInv
  <2>10. ASSUME NEW k \in Slots, k > Len(sent') PROVE op'[k] = NoCall
    BY <2>1, <2>2, <2>7, <2>10 DEF ServedInv
  <2>11. ASSUME NEW k \in 1..Len(sent') PROVE op'[k] \in {NoCall, OperationOf[sent'[k]]}
    BY <2>2, <2>8, <2>9 DEF ServedInv
  <2> QED
    BY <2>10, <2>11 DEF ServedInv
<1> QED
  BY <1>1, <1>2 DEF Sends

LEMMA StepMakeCall ==
  ASSUME BudgetInv, BudgetInv', TraceInv, NEW r \in Requests, MakeCall(r), UNCHANGED sandbox
  PROVE  TraceInv'
<1> DEFINE c == Normal[r]
<1>1. /\ c \in Calls /\ pending_call' = c /\ pc = "deciding"
      /\ UNCHANGED <<tool_history, observations, request_ids>>
      /\ Sends(c)
  BY CallFacts DEF MakeCall, Dispatch, DecisionArrives
<1> HIDE DEF c
<1>2. /\ TypeOK /\ HttpInv /\ tool_history \in Seq(Calls)
      /\ pending_call = NoCall /\ NoCall \notin Calls
      /\ UNCHANGED <<at, op, reply, logs>>
  BY <1>1, CallFacts DEF BudgetInv, TypeOK, TaskConsistent, TraceInv, sandbox
<1>3. HttpObservations' = HttpObservations /\ ToldInv' /\ KeptInv'
  BY <1>1, <1>2, Unrecorded
<1>4. HttpInv'
  <2>1. CallsMade = tool_history /\ CallsMade' = Append(tool_history, c)
    BY <1>1, <1>2 DEF CallsMade
  <2>2. Selected(Append(tool_history, c), HttpCalls)
          = IF c \in HttpCalls THEN Append(Selected(tool_history, HttpCalls), c)
            ELSE Selected(tool_history, HttpCalls)
    BY <1>1, <1>2, SelectedAppend
  <2>3. sent' = IF c \in HttpCalls THEN Append(sent, c) ELSE sent
    BY <1>1, SlotFacts DEF Sends, OverHttp
  <2> QED
    BY <1>1, <1>2, <1>3, <2>1, <2>2, <2>3 DEF HttpInv
<1>5. ServedInv'
  BY <1>1, <1>2, <1>4, ServedSent DEF TraceInv
<1> QED
  BY <1>3, <1>4, <1>5 DEF TraceInv

LEMMA StepTakeResult ==
  ASSUME BudgetInv, BudgetInv', HistoryMatchesObservations, TraceInv, ServerInv,
         TakeResult, UNCHANGED sandbox
  PROVE  TraceInv'
<1>1. /\ TypeOK /\ HttpInv /\ pending_call \in Calls /\ pending_call # NoCall
      /\ tool_history \in Seq(Calls) /\ NoCall \notin Calls
      /\ UNCHANGED <<at, op, reply, logs>>
  BY CallFacts DEF TakeResult, BudgetInv, TypeOK, TraceInv, sandbox
<1>2. PICK o \in ToolResults(pending_call) :
        \/ RecordResult(o) /\ UNCHANGED sent
        \/ RetryTimeout(o) /\ Sends(pending_call)
  BY DEF TakeResult
<1>3. RecordToolResult(pending_call, o) /\ Legitimate(o)
  BY <1>1, <1>2, ResultsAreLegitimate DEF RecordResult, RetryTimeout
<1>4. /\ Len(HttpObservations') = Len(Selected(tool_history', HttpCalls))
      /\ ToldInv' /\ KeptInv'
  BY <1>1, <1>3, LogsOfRequests, Recorded
<1>5. tool_history' = CallsMade /\ tool_history' \in Seq(Calls)
  BY <1>1, <1>3 DEF RecordToolResult, CallsMade
<1>6. CASE RecordResult(o) /\ UNCHANGED sent
  <2>1. pending_call' = NoCall /\ CallsMade' = CallsMade
    BY <1>5, <1>6 DEF RecordResult, CallsMade
  <2>2. HttpInv'
    BY <1>1, <1>4, <1>6, <2>1 DEF HttpInv
  <2>3. ServedInv'
    BY <1>1, <1>6 DEF TraceInv, ServedInv
  <2> QED
    BY <1>4, <2>2, <2>3 DEF TraceInv
<1>7. CASE RetryTimeout(o) /\ Sends(pending_call)
  <2>1. pending_call' = pending_call /\ CallsMade' = Append(CallsMade, pending_call)
    BY <1>1, <1>5, <1>7 DEF RetryTimeout, CallsMade
  <2>2. Selected(Append(CallsMade, pending_call), HttpCalls)
          = IF pending_call \in HttpCalls THEN Append(Selected(CallsMade, HttpCalls), pending_call)
            ELSE Selected(CallsMade, HttpCalls)
    BY <1>1, <1>5, SelectedAppend
  <2>3. sent' = IF pending_call \in HttpCalls THEN Append(sent, pending_call) ELSE sent
    BY <1>1, <1>7, SlotFacts DEF Sends, OverHttp
  <2>4. HttpInv'
    BY <1>1, <1>4, <2>1, <2>2, <2>3 DEF HttpInv
  <2>5. ServedInv'
    BY <1>1, <1>7, <2>4, ServedSent DEF TraceInv
  <2> QED
    BY <1>4, <2>4, <2>5 DEF TraceInv
<1> QED
  BY <1>2, <1>6, <1>7

LEMMA StepWithoutCall ==
  ASSUME BudgetInv, BudgetInv', HistoryMatchesObservations, TraceInv, ServerInv,
         WithoutCall, UNCHANGED sandbox
  PROVE  TraceInv'
<1>1. TypeOK /\ HttpInv /\ UNCHANGED <<sent, at, op, reply, logs>>
  BY DEF WithoutCall, BudgetInv, TraceInv, sandbox
<1>2. ServedInv'
  BY <1>1 DEF TraceInv, ServedInv
<1>3. ASSUME UNCHANGED <<tool_history, request_ids, pending_call>>,
             \/ UNCHANGED observations
             \/ \E o \in Observation : ~IsToolResult(o) /\ observations' = Append(observations, o)
      PROVE  TraceInv'
  <2>1. HttpObservations' = HttpObservations /\ ToldInv' /\ KeptInv'
    BY <1>1, <1>3, Unrecorded
  <2>2. CallsMade' = CallsMade
    BY <1>3 DEF CallsMade
  <2> QED
    BY <1>1, <1>2, <1>3, <2>1, <2>2 DEF TraceInv, HttpInv
<1>4. ASSUME NEW t \in Tools \cup {Provider},
             NEW e \in {"REJECTED", "PROVIDER_ERROR", "TOOL_CALL_LIMIT_REACHED",
                       "IDENTICAL_TOOL_CALL_LIMIT_REACHED"},
             RecordFeedback(Failure(t, e)), UNCHANGED pending_call
      PROVE  TraceInv'
  <2>1. e \in Outcomes
    BY DEF Outcomes, LoopErrors
  <2>2. Failure(t, e) \in Observation
    BY <2>1, FailureType
  <2>3. ~IsToolResult(Failure(t, e))
    BY DEF Failure, IsToolResult
  <2> QED
    BY <1>3, <1>4, <2>2, <2>3 DEF RecordFeedback
<1>5. CASE ReturnTimedOut
  <2>1. CASE pending_call = NoCall
    BY <1>3, <1>5, <2>1 DEF ReturnTimedOut
  <2>2. CASE pending_call # NoCall
    <3>1. pending_call \in Calls /\ pending_call' = NoCall /\ NoCall \notin Calls
          /\ tool_history \in Seq(Calls)
      BY <1>1, <1>5, <2>2, CallFacts DEF ReturnTimedOut, TypeOK
    <3>2. PICK o : o = Failure(ToolName[pending_call], "SESSION_TIMEOUT")
      OBVIOUS
    <3>3. RecordToolResult(pending_call, o) /\ Legitimate(o)
      BY <1>5, <2>2, <3>1, <3>2, FailureIsLegitimate DEF ReturnTimedOut
    <3>4. /\ Len(HttpObservations') = Len(Selected(tool_history', HttpCalls))
          /\ ToldInv' /\ KeptInv'
      BY <1>1, <3>1, <3>3, LogsOfRequests, Recorded
    <3>5. CallsMade' = CallsMade
      BY <2>2, <3>1, <3>3 DEF RecordToolResult, CallsMade
    <3> QED
      BY <1>1, <1>2, <3>1, <3>4, <3>5 DEF TraceInv, HttpInv
  <2> QED
    BY <2>1, <2>2
<1>6. CASE Local \/ RaiseTimeoutError \/ RaiseException \/ TimerFires \/ Cancel
  BY <1>3, <1>5, <1>6
     DEF Local, StartDecision, ReachDecisionLimit, ResumeTimedOut, ResumeCancelled,
         RaiseTimeoutError, RaiseException, TimerFires, Cancel, session
<1>7. ASSUME NEW a \in Answers, AcceptFinalAnswer(a) PROVE TraceInv'
  BY <1>3, <1>7 DEF AcceptFinalAnswer
<1>8. CASE ProviderFails
  BY <1>4, <1>8 DEF ProviderFails
<1>9. ASSUME NEW r \in Requests, RejectRequest(r) \/ RefuseOverBudget(r) \/ RefuseIdentical(r)
      PROVE  TraceInv'
  BY <1>4, <1>9, RequestsAssumption
     DEF RejectRequest, RefuseOverBudget, RefuseIdentical, Refuse
<1> QED
  BY <1>6, <1>7, <1>8, <1>9 DEF WithoutCall

-----------------------------------------------------------------------------
(* The steps of the server, which are the Sandbox API's *)

LEMMA SameHandler ==
  ASSUME NEW r
  PROVE  Sandbox!Handle(r) => Api!Handle(r)
  BY SameServer DEF Sandbox!Handle, Api!Handle

LEMMA SameCrash == Sandbox!Crash => Api!Crash
  BY DEF Sandbox!Crash, Api!Crash, Sandbox!InProgress, Api!InProgress, Sandbox!tables, Api!tables

LEMMA ServerAssumptions ==
  /\ Stocked \subseteq Products
  /\ {Unknown, SilentUnknown} \cap Products = {}
  /\ Quantities \subseteq Nat \ {0}
  /\ InitialStock \in [Stocked -> Nat]
  /\ NoCall \notin Slots \cup Others /\ NoCall # 201
  /\ Requested \subseteq Api!Operations
<1>1. Sandbox!Operations = Api!Operations
  BY DEF Sandbox!Operations, Api!Operations, Sandbox!ProductIds, Api!ProductIds,
         Sandbox!OrderIds, Api!OrderIds, Sandbox!Cardinality, Api!Cardinality, Cardinality
<1> QED
  BY <1>1, ServerAssumption

LEMMA ServerIsSandbox ==
  ASSUME BudgetInv, HttpInv, [SandboxNext]_<<vars, sandbox, sent>>
  PROVE  [Sandbox!Next]_(Sandbox!vars)
<1>1. CASE Client \/ UNCHANGED <<vars, sandbox, sent>>
  BY <1>1 DEF Client, sandbox, Sandbox!vars, Sandbox!tables
<1>2. CASE Server
  <2>1. \A k \in 1..Len(sent) : k \in Slots
    BY SentSlots
  <2> QED
    BY <1>2, <2>1 DEF Server, OnTheWire, Sandbox!Next
<1> QED
  BY <1>1, <1>2 DEF SandboxNext

LEMMA SameStep ==
  ASSUME [Sandbox!Next]_(Sandbox!vars)
  PROVE  [Api!Next]_(Api!vars)
<1>1. CASE UNCHANGED Sandbox!vars
  BY <1>1 DEF Sandbox!vars, Sandbox!tables, Api!vars, Api!tables
<1>2. CASE Sandbox!Next
  BY <1>2, SameServer, SameHandler, SameCrash DEF Sandbox!Next, Api!Next
<1> QED
  BY <1>1, <1>2

LEMMA ServerInvStep ==
  ASSUME BudgetInv, HttpInv, ServerInv, [SandboxNext]_<<vars, sandbox, sent>>
  PROVE  ServerInv'
<1>1. [Api!Next]_(Api!vars)
  BY ServerIsSandbox, SameStep
<1>2. Api!SandboxInv'
  BY <1>1, Api!InvNext, ServerAssumptions DEF ServerInv
<1>3. Api!OwnersInv'
  BY <1>1, <1>2, Api!OwnersNext, ServerAssumptions DEF ServerInv
<1> QED
  BY <1>2, <1>3 DEF ServerInv

LEMMA StepServer ==
  ASSUME BudgetInv, TraceInv, ServerInv, Server
  PROVE  TraceInv'
<1>1. /\ HttpInv /\ UNCHANGED <<vars, sent>>
      /\ UNCHANGED <<tool_history, observations, request_ids, pending_call>>
  BY DEF Server, TraceInv, vars, session
<1>2. [Api!Next]_(Api!vars)
  <2>1. SandboxNext
    BY DEF SandboxNext
  <2> QED
    BY <1>1, <2>1, ServerIsSandbox, SameStep
<1>3. Api!TypeInv
  BY DEF ServerInv, Api!SandboxInv
<1>4. \A k \in 1..Len(sent) : k \in Slots
  BY <1>1, SentSlots
<1>5. HttpObservations' = HttpObservations /\ CallsMade' = CallsMade
  BY <1>1 DEF HttpObservations, CallsMade
<1>6. HttpInv' /\ KeptInv'
  <2>1. Api!SandboxInv /\ Api!SandboxInv'
    BY <1>2, Api!InvNext, ServerAssumptions DEF ServerInv
  <2>2. \A id : Logged(id) => Logged(id)'
    BY <1>2, <2>1, Api!LogsStay, ServerAssumptions DEF Logged
  <2>3. ToolObservations' = ToolObservations
    BY <1>1 DEF ToolObservations
  <2> QED
    BY <1>1, <1>5, <2>2, <2>3
       DEF TraceInv, HttpInv, KeptInv, Kept, SeenAnswered, LookedUp
<1>7. ToldInv'
  <2> SUFFICES ASSUME NEW k \in 1..Len(HttpObservations), HttpObservations[k].outcome = "OK"
               PROVE  /\ at'[k] = "answered"
                      /\ HttpObservations[k].request_id = IF reply'[k].request_id THEN k ELSE NoId
    BY <1>5 DEF ToldInv
  <2>1. /\ at[k] = "answered"
        /\ HttpObservations[k].request_id = IF reply[k].request_id THEN k ELSE NoId
    BY DEF TraceInv, ToldInv
  <2>2. k \in 1..Len(sent)
    BY <1>1, SentFacts
  <2>3. at'[k] = "answered" /\ reply'[k] = reply[k]
    BY <1>2, <1>3, <1>4, <2>1, <2>2, Api!StepKeeps, ServerAssumptions
  <2> QED
    BY <2>1, <2>3
<1>8. ServedInv'
  <2>1. CASE op' = op
    BY <1>1, <2>1 DEF TraceInv, ServedInv
  <2>2. ASSUME NEW j \in Slots \cup Others, Api!Receive(j),
               \/ j \in 1..Len(sent) /\ op'[j] = OperationOf[sent[j]]
               \/ j \in Others
        PROVE  ServedInv'
    <3>1. \A k \in Slots \cup Others : k # j => op'[k] = op[k]
      BY <1>3, <2>2 DEF Api!Receive, Api!TypeInv
    <3>2. Others \cap Slots = {} /\ \A k \in Slots : k \in Nat
      BY CompositionAssumption, SlotFacts
    <3>3. ASSUME NEW k \in Slots, k > Len(sent) PROVE op'[k] = NoCall
      <4>1. k # j
        BY <1>1, <2>2, <3>2, <3>3, SentFacts
      <4> QED
        BY <3>1, <3>3, <4>1 DEF TraceInv, ServedInv
    <3>4. ASSUME NEW k \in 1..Len(sent) PROVE op'[k] \in {NoCall, OperationOf[sent[k]]}
      BY <1>4, <2>2, <3>1, <3>2 DEF TraceInv, ServedInv
    <3> QED
      BY <1>1, <3>3, <3>4 DEF ServedInv
  <2>3. ASSUME NEW k, Api!Handle(k) \/ Api!Answer(k) \/ Api!LogFails(k) \/ Api!Crash
        PROVE  op' = op
    BY <2>3, Api!OperationsKept, ServerAssumptions
  <2> QED
    BY <1>4, <2>1, <2>2, <2>3, SameServer, SameHandler, SameCrash DEF Server, OnTheWire
<1> QED
  BY <1>6, <1>7, <1>8 DEF TraceInv

-----------------------------------------------------------------------------
(* The theorems *)

CompositionInv == BudgetInv /\ HistoryMatchesObservations /\ TraceInv /\ ServerInv

LEMMA CompositionInit == SandboxInit => CompositionInv
<1> SUFFICES ASSUME SandboxInit PROVE CompositionInv
  OBVIOUS
<1>1. /\ Init /\ sent = <<>> /\ tool_history = <<>> /\ observations = <<>>
      /\ request_ids = <<>> /\ pending_call = NoCall
  BY DEF SandboxInit, Init
<1>2. BudgetInv
  BY <1>1, BudgetInit
<1>3. Api!Init
  BY DEF SandboxInit, Sandbox!Init, Api!Init
<1>4. Api!SandboxInv
  BY <1>3, Api!InvInit, ServerAssumptions
<1>5. Api!OwnersInv
  BY <1>3 DEF Api!Init, Api!OwnersInv
<1>6. HttpObservations = <<>> /\ CallsMade = <<>>
  BY <1>1, SelectedEmpty DEF HttpObservations, CallsMade
<1>7. HttpInv
  BY <1>1, <1>6, SelectedEmpty DEF HttpInv
<1>8. ServedInv
  BY <1>1, <1>3 DEF Api!Init, ServedInv
<1>9. ToldInv /\ KeptInv
  BY <1>1, <1>6 DEF ToldInv, KeptInv, Kept
<1>10. HistoryMatchesObservations
  BY <1>1, HistoryInit
<1> QED
  BY <1>2, <1>4, <1>5, <1>7, <1>8, <1>9, <1>10 DEF CompositionInv, TraceInv, ServerInv

LEMMA CompositionNext ==
  ASSUME CompositionInv, [SandboxNext]_<<vars, sandbox, sent>>
  PROVE  CompositionInv'
<1>1. BudgetInv /\ HistoryMatchesObservations /\ TraceInv /\ ServerInv /\ HttpInv
  BY DEF CompositionInv, TraceInv
<1>2. BudgetInv' /\ HistoryMatchesObservations'
  BY <1>1, ClientIsLoop, BudgetStep, HistoryStep DEF BudgetInv
<1>3. ServerInv'
  BY <1>1, ServerInvStep
<1>4. TraceInv'
  <2>1. CASE Client
    BY <1>1, <1>2, <2>1, StepMakeCall, StepTakeResult, StepWithoutCall DEF Client
  <2>2. CASE Server
    BY <1>1, <2>2, StepServer
  <2>3. CASE UNCHANGED <<vars, sandbox, sent>>
    BY <1>1, <2>3
       DEF vars, session, sandbox, TraceInv, HttpInv, ServedInv, ToldInv, KeptInv, Kept,
           SeenAnswered, LookedUp, Logged, HttpObservations, ToolObservations, CallsMade
  <2> QED
    BY <2>1, <2>2, <2>3 DEF SandboxNext
<1> QED
  BY <1>2, <1>3, <1>4 DEF CompositionInv

\* Who is told is told of a request that was served.
LEMMA ToldIsServed ==
  ASSUME CompositionInv, NEW k \in 1..Len(HttpObservations), HttpObservations[k].outcome = "OK"
  PROVE  /\ k \in Slots /\ k \in 1..Len(sent) /\ at[k] = "answered" /\ Api!LogsTell(k)
         /\ HttpObservations[k].request_id = IF reply[k].request_id THEN k ELSE NoId
<1>1. BudgetInv /\ HttpInv /\ ToldInv
  BY DEF CompositionInv, TraceInv
<1>2. k \in 1..Len(sent)
  BY <1>1, SentFacts
<1>3. k \in Slots
  BY <1>1, <1>2, SentSlots
<1>4. /\ at[k] = "answered"
      /\ HttpObservations[k].request_id = IF reply[k].request_id THEN k ELSE NoId
  BY <1>1 DEF ToldInv
<1>5. Api!RequestInv(k)
  BY <1>3 DEF CompositionInv, ServerInv, Api!SandboxInv
<1> QED
  BY <1>2, <1>3, <1>4, <1>5 DEF Api!RequestInv

\* What the logs hold of a request that is in them.
LEMMA LogsOfLogged ==
  ASSUME ServerInv, NEW id, Logged(id)
  PROVE  LoggedStatuses(id) = IF at[id] = "answered" /\ reply[id].request_id
                              THEN <<NoCall, reply[id].status>> ELSE <<NoCall>>
<1>1. Api!RequestInv(id) /\ logs[id] # <<>>
  BY DEF ServerInv, Api!SandboxInv, Logged
<1>2. Api!Received.status_code = NoCall
  BY DEF Api!Received
<1>3. CASE at[id] = "answered" /\ reply[id].request_id
  <2>1. PICK end : /\ logs[id] = <<Api!Received, end>>
                   /\ end.status_code = reply[id].status
    BY <1>1, <1>3 DEF Api!RequestInv, Api!LogsTell
  <2> QED
    BY <1>2, <1>3, <2>1 DEF LoggedStatuses
<1>4. CASE ~(at[id] = "answered" /\ reply[id].request_id)
  <2>1. logs[id] = <<Api!Received>>
    BY <1>1, <1>4 DEF Api!RequestInv, Api!Stages, Api!LogsTell
  <2>2. LoggedStatuses(id) = <<NoCall>>
    BY <1>2, <2>1 DEF LoggedStatuses
  <2> QED
    BY <1>4, <2>2
<1> QED
  BY <1>3, <1>4

LEMMA InvEvidence == CompositionInv => EvidenceOnRecord
<1> SUFFICES ASSUME CompositionInv, NEW id \in Kept(request_ids)
             PROVE  /\ SeenAnswered(id) \/ LookedUp(id)
                    /\ id \in Slots \cup Others
                    /\ LoggedStatuses(id) = IF at[id] = "answered" /\ reply[id].request_id
                                            THEN <<NoCall, reply[id].status>>
                                            ELSE <<NoCall>>
                    /\ SeenAnswered(id) => at[id] = "answered" /\ reply[id].request_id
  BY DEF EvidenceOnRecord
<1>1. SeenAnswered(id) \/ (LookedUp(id) /\ Logged(id))
  BY DEF CompositionInv, TraceInv, KeptInv
<1>2. ASSUME SeenAnswered(id)
      PROVE  at[id] = "answered" /\ reply[id].request_id /\ Logged(id)
  <2>1. /\ id \in Slots /\ at[id] = "answered" /\ Api!LogsTell(id)
        /\ id = IF reply[id].request_id THEN id ELSE NoId
    BY <1>2, ToldIsServed DEF SeenAnswered
  <2>2. reply[id].request_id
    BY <2>1, SlotFacts
  <2>3. PICK end : logs[id] = <<Api!Received, end>>
    BY <2>1, <2>2 DEF Api!LogsTell
  <2> QED
    BY <2>1, <2>2, <2>3 DEF Logged
<1>3. Logged(id)
  BY <1>1, <1>2
<1>4. LoggedStatuses(id) = IF at[id] = "answered" /\ reply[id].request_id
                           THEN <<NoCall, reply[id].status>> ELSE <<NoCall>>
  BY <1>3, LogsOfLogged DEF CompositionInv
<1> QED
  BY <1>1, <1>2, <1>3, <1>4 DEF Logged

LEMMA InvEffects == CompositionInv => EffectsAccountedFor
<1> SUFFICES ASSUME CompositionInv PROVE EffectsAccountedFor
  OBVIOUS
<1>1. BudgetInv /\ HttpInv /\ ServedInv /\ Api!SandboxInv /\ Api!OwnersInv
  BY DEF CompositionInv, TraceInv, ServerInv
<1>2. ASSUME NEW k \in 1..Len(sent), Told(k), OperationOf[sent[k]].kind = "create_order"
      PROVE  IF reply[k].request_id THEN Ordered(k) <=> reply[k].status = 201
             ELSE reply[k].status = 500
  <2>1. k \in 1..Len(HttpObservations) /\ HttpObservations[k].outcome = "OK"
    BY <1>1, <1>2, SentFacts DEF Told
  <2>2. k \in Slots /\ Api!LogsTell(k)
    BY <2>1, ToldIsServed
  <2>3. op[k] # NoCall => op[k].kind = "create_order"
    BY <1>1, <1>2 DEF ServedInv
  <2>4. Ordered(k) <=> result[k] = 201
    BY <1>1, <2>2, <2>3, Api!OrdersAreAnswered, ServerAssumptions DEF Ordered
  <2> QED
    BY <2>2, <2>4 DEF Api!LogsTell
<1>3. Cardinality({k \in Slots : Ordered(k)}) <= step_count + TimeoutsSeen
  <2> DEFINE D == {k \in Slots : Ordered(k)}
  <2>1. /\ Len(sent) \in Nat /\ Len(sent) <= Len(CallsMade)
        /\ CallsMade \in Seq(Calls) /\ Len(CallsMade) \in Nat
    BY <1>1, SentFacts
  <2>2. D \subseteq 1..Len(sent)
    <3> SUFFICES ASSUME NEW k \in Slots, Ordered(k) PROVE k \in 1..Len(sent)
      OBVIOUS
    <3>1. op[k] # NoCall
      BY <1>1 DEF Ordered, Api!OwnersInv
    <3>2. k \in 1..MaxToolCalls
      BY CompositionAssumption
    <3> QED
      BY <1>1, <2>1, <3>1, <3>2 DEF ServedInv
  <2> HIDE DEF D
  <2>3. IsFiniteSet(1..Len(sent)) /\ Cardinality(1..Len(sent)) = Len(sent)
    <3>1. PICK n \in Nat : n = Len(sent)
      BY <2>1
    <3>2. IsFiniteSet(1..n) /\ Cardinality(1..n) = n
      BY FS_Interval
    <3> QED
      BY <3>1, <3>2
  <2>4. Cardinality(D) <= Len(sent) /\ Cardinality(D) \in Nat
    <3>1. IsFiniteSet(D) /\ Cardinality(D) <= Cardinality(1..Len(sent))
      BY <2>2, <2>3, FS_Subset
    <3> QED
      BY <2>3, <3>1, FS_CardinalityType
  <2>5. Len(CallsMade) <= step_count + TimeoutsSeen /\ step_count \in Nat /\ TimeoutsSeen \in Nat
    BY <1>1, TimeoutsNat DEF BudgetInv, RetriesExplained, TypeOK
  <2>6. Cardinality(D) <= step_count + TimeoutsSeen
    BY <2>1, <2>4, <2>5
  <2> QED
    BY <2>6 DEF D
<1>4. sent = Selected(CallsMade, HttpCalls)
  BY <1>1 DEF HttpInv
<1> QED
  BY <1>2, <1>3, <1>4 DEF EffectsAccountedFor

LEMMA CompositionInvHolds == SandboxSpec => []CompositionInv
<1>1. SandboxInit => CompositionInv
  BY CompositionInit
<1>2. CompositionInv /\ [SandboxNext]_<<vars, sandbox, sent>> => CompositionInv'
  BY CompositionNext
<1> QED
  BY <1>1, <1>2, PTL DEF SandboxSpec

\* Beside the Sandbox API the client is still the bounded loop, whatever the server
\* does to it: everything proved of the loop holds of it (loop.py, execute_api_request).
THEOREM ClientImplementsLoop == SandboxSpec => Init /\ [][Next]_vars
<1>1. SandboxInit => Init
  BY DEF SandboxInit
<1>2. CompositionInv /\ [SandboxNext]_<<vars, sandbox, sent>> => [Next]_vars
  BY ClientIsLoop DEF CompositionInv, TraceInv
<1> QED
  BY <1>1, <1>2, CompositionInvHolds, PTL DEF SandboxSpec

\* And the server is the Sandbox API, whatever its clients send or give up on: the
\* session never answers for it or sends a request twice (main.py, db.py).
THEOREM ServerImplementsSandboxApi ==
  SandboxSpec => Sandbox!Init /\ [][Sandbox!Next]_(Sandbox!vars)
<1>1. SandboxInit => Sandbox!Init
  BY DEF SandboxInit
<1>2. CompositionInv /\ [SandboxNext]_<<vars, sandbox, sent>> => [Sandbox!Next]_(Sandbox!vars)
  BY ServerIsSandbox DEF CompositionInv, TraceInv
<1> QED
  BY <1>1, <1>2, CompositionInvHolds, PTL DEF SandboxSpec

\* Whatever is timed out, cut off, retried or lost in a crash, the history accounts for
\* every request sent, a 201 for its order and the other way round, and there are no more
\* orders than decisions and timeouts (loop.py 292-334).
THEOREM EffectsAreAccountedFor == SandboxSpec => []EffectsAccountedFor
  BY CompositionInvHolds, InvEffects, PTL

\* A request id in the session's state is that of a request it sent and saw answered or
\* one it looked up, whosever it is; the server has it on record, with the status it was
\* answered, if it was, and both rows of it if the session saw the answer (state.py 43-44,
\* inspect_server_logs.py 14-18, main.py 41-78).
THEOREM EvidenceIsOnRecord == SandboxSpec => []EvidenceOnRecord
  BY CompositionInvHolds, InvEvidence, PTL
=============================================================================
