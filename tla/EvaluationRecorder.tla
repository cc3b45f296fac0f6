------------------------- MODULE EvaluationRecorder -------------------------
(***************************************************************************)
(* The recorder of evaluation runs (src/evaluation/recorder.py) attached   *)
(* to the loop, and the link rules its snapshot has to satisfy             *)
(* (src/evaluation/contracts.py).                                          *)
(*                                                                         *)
(* Identifiers are numbered by position ("observation-3", "decision-1"),   *)
(* so a record is denoted by its index and 0 stands for None.  Trace and   *)
(* span ids, latencies, model calls and the comparison context are left    *)
(* out (model calls are ProviderConversation's).                           *)
(***************************************************************************)
EXTENDS RecordedLoop, SequencesExt

VARIABLE run

evars == <<rvars, run>>

NewRun ==
  [observations |-> <<>>, decisions |-> <<>>, tool_attempts |-> <<>>, errors |-> <<>>,
   diagnosis |-> NoDiagnosis, finished |-> FALSE]

NoDecision == "NONE"

Attempt == [decision : Nat, call : Calls, timeout_retry : BOOLEAN, observation : Nat]

-----------------------------------------------------------------------------
(* The hooks *)

Sync(r, obs) == [r EXCEPT !.observations = obs]

OnDecisionStarted_Unsynced(r, h) ==
  [r EXCEPT !.decisions =
     Append(@, [prior |-> Len(h.observations), decision |-> NoDecision])]

OnDecisionStarted(r, h) ==
  LET s == Sync(r, h.observations)
  IN  [s EXCEPT !.decisions =
         Append(@, [prior |-> Len(s.observations), decision |-> NoDecision])]

OnDecisionReturned(r, h) ==
  [r EXCEPT !.decisions[Len(r.decisions)].decision = h.decision]

OnToolStarted(r, h) ==
  [r EXCEPT !.tool_attempts =
     Append(@, [decision |-> Len(r.decisions), call |-> h.call,
                timeout_retry |-> h.retry, observation |-> 0])]

OnError(r, scope, type) ==
  [r EXCEPT !.errors =
     Append(@, [scope |-> scope, error_type |-> type,
                decision |-> Len(r.decisions),
                tool_attempt |-> IF scope = "tool" THEN Len(r.tool_attempts) ELSE 0])]

OnToolFinished_FirstAttempt(r, h) ==
  [r EXCEPT !.observations = Append(@, h.observation),
            !.tool_attempts[1].observation = Len(r.observations) + 1]

OnToolFinished_FailureUnnoted(r, h) ==
  [r EXCEPT !.observations = Append(@, h.observation),
            !.tool_attempts[Len(r.tool_attempts)].observation =
               Len(r.observations) + 1]

OnToolFinished(r, h) ==
  LET s == [r EXCEPT !.observations = Append(@, h.observation),
                     !.tool_attempts[Len(r.tool_attempts)].observation =
                        Len(r.observations) + 1]
  IN  IF Succeeded(h.observation) THEN s
      ELSE OnError(s, "tool", h.observation.outcome)

OnFinish_Unsynced(r, h) == [r EXCEPT !.diagnosis = h.diagnosis, !.finished = TRUE]

OnFinish(r, h) ==
  [Sync(r, h.observations) EXCEPT !.diagnosis = h.diagnosis, !.finished = TRUE]

Apply(r, h) ==
  CASE h.hook = "decision_started"  -> OnDecisionStarted(r, h)
    [] h.hook = "decision_returned" -> OnDecisionReturned(r, h)
    [] h.hook = "tool_started"      -> OnToolStarted(r, h)
    [] h.hook = "tool_finished"     -> OnToolFinished(r, h)
    [] h.hook = "error"             -> OnError(r, h.scope, h.error_type)
    [] h.hook = "finish"            -> OnFinish(r, h)

\* The record after the hooks of a step, in the order of their calls.
Recorded(r, hs) ==
  LET after[n \in 0..Len(hs)] == IF n = 0 THEN r ELSE Apply(after[n - 1], hs[n])
  IN  after[Len(hs)]

EInit == RInit /\ run = NewRun
ENext == RNext /\ run' = Recorded(run, hooks')
ESpec == EInit /\ [][ENext]_evars

-----------------------------------------------------------------------------
(* Properties *)

Answered == Selected(run.tool_attempts, {t \in Attempt : t.observation # 0})

\* At any moment the record would pass EvaluationRun.validate_links, so taking a
\* snapshot never fails: references resolve, the observations a decision had
\* seen never shrink, and no decision has seen the result of its own calls.
LinksValid ==
  /\ \A i \in 1..Len(run.decisions) :
       /\ run.decisions[i].prior <= Len(run.observations)
       /\ i > 1 => run.decisions[i - 1].prior <= run.decisions[i].prior
  /\ \A t \in ToSet(run.tool_attempts) :
       /\ t.decision \in 1..Len(run.decisions)
       /\ t.observation <= Len(run.observations)
       /\ \A i \in 1..Len(run.decisions) :
            t.observation \in 1..run.decisions[i].prior => t.decision < i
  /\ \A e \in ToSet(run.errors) :
       /\ e.decision <= Len(run.decisions)
       /\ e.tool_attempt <= Len(run.tool_attempts)

\* The recorder numbers observations on its own while the loop interleaves them with
\* feedback it does not report; still every attempt is linked to the observation that
\* call produced, in the list the loop ends with (recorder.py 65-72 and 102-110).
LinkedToItsResult(i) ==
  LET this == run.tool_attempts[i]
      k == this.observation
  IN  k # 0 =>
        /\ run.observations[k].tool = ToolName[this.call]
        /\ IsToolResult(run.observations[k])
        /\ \A later \in ToSet(SubSeq(run.tool_attempts, i + 1, Len(run.tool_attempts))) :
             later.observation # 0 => k < later.observation

\* And it is marked as a retry exactly when it follows an attempt of the same decision
\* and call that timed out (loop.py 294, 319).
MarkedAsRetry(i) ==
  LET this == run.tool_attempts[i]
      last == run.tool_attempts[i - 1]
  IN  this.timeout_retry <=>
        /\ i > 1
        /\ last.decision = this.decision
        /\ last.call = this.call
        /\ last.observation # 0
        /\ run.observations[last.observation].outcome = "TOOL_TIMEOUT"

\* The attempts of the record tell the calls of the session: each with the result that
\* was its own, and as a retry if that is what it was.
AttemptsTellTheCalls ==
  \A i \in 1..Len(run.tool_attempts) : LinkedToItsResult(i) /\ MarkedAsRetry(i)

\* A finished record is the session: its observations, its diagnosis, and as answered
\* attempts exactly the calls of the history.
FinishedRecordIsTheSession ==
  run.finished =>
    /\ run.observations = observations
    /\ run.diagnosis = diagnosis
    /\ Len(Answered) = tool_call_count
    /\ \A i \in 1..tool_call_count : Answered[i].call = tool_history[i]

\* Every failure is on record where it happened: a failed result of a call has an
\* error of that attempt with its type, a decision that came to nothing has one of its
\* own, and so has an attempt without a result; the exception is a call interrupted by
\* the timer and by a cancellation before it could resume, which keeps neither.
FailuresRecorded ==
  run.finished =>
    /\ \A i \in 1..Len(run.tool_attempts) :
         LET k == run.tool_attempts[i].observation
             noted == {e \in ToSet(run.errors) : e.scope = "tool" /\ e.tool_attempt = i}
         IN  IF k = 0 THEN noted # {} \/ (expired /\ cancelled)
             ELSE Succeeded(observations[k])
                    \/ \E e \in noted : e.error_type = observations[k].outcome
    /\ \A i \in 1..Len(run.decisions) :
         \/ run.decisions[i].decision = FinalAnswer
         \/ \E t \in ToSet(run.tool_attempts) : t.decision = i
         \/ \E e \in ToSet(run.errors) : e.scope = "decision" /\ e.decision = i
=============================================================================
