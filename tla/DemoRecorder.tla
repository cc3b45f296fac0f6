---------------------------- MODULE DemoRecorder ----------------------------
(***************************************************************************)
(* The timeline of POST /demo/debug (src/agent_service/demo.py) attached to *)
(* the loop, and the response main.py makes of it.                          *)
(*                                                                         *)
(* A step keeps its kind, its tool, whether it succeeded, its error        *)
(* category and its retry flag.  Methods, routes, status codes, token      *)
(* sums, the trace id and the disposable sandbox are left out; the missing *)
(* credentials test (503) comes before any session exists.                 *)
(***************************************************************************)
EXTENDS RecordedLoop, SequencesExt

CONSTANTS
  NULL,        \* None
  ShownTools   \* DemoToolName, which names every registered tool

VARIABLE timeline   \* the recorder's attributes

dvars == <<rvars, timeline>>

ASSUME ShownAssumption ==
  /\ ShownTools \subseteq Tools
  /\ \A r \in Requests : Normal[r] # Rejected => ToolName[r] \in ShownTools

\* A name the model made up is not shown.
SafeName(tool) == IF tool \in ShownTools THEN tool ELSE NULL

SafeStep(tool, kind, retry) ==
  [kind |-> kind, tool |-> SafeName(tool), success |-> NULL, error_category |-> NULL,
   retry |-> retry]

\* DemoErrorCategory, as far as error types are told apart here.  The error types of
\* DecisionProviderError ("PROVIDER_ERROR" in AgentLoop) are not in it.
Categories == (Outcomes \ {"OK", "PROVIDER_ERROR"}) \cup {"CANCELLED"}

InvestigationStep ==
  [kind : {"tool_attempt", "rejected_action", "session_error"},
   tool : ShownTools \cup {NULL},
   success : BOOLEAN \cup {NULL},
   error_category : Categories \cup {"PROVIDER_ERROR", "EXECUTION_ERROR", NULL},
   retry : BOOLEAN]

ASSUME NullAssumption == NULL \notin BOOLEAN \cup InvestigationStep

NewTimeline ==
  [steps |-> <<>>, selected |-> NULL, provider_failed |-> FALSE, attempt_count |-> NULL]

-----------------------------------------------------------------------------
(* The hooks *)

ShowDecisionReturned(t, d) ==
  IF d = FinalAnswer THEN t
  ELSE [t EXCEPT !.selected = SafeStep(ToolName[d], "rejected_action", FALSE)]

ShowToolStarted(t, h) ==
  [t EXCEPT !.steps = Append(@, SafeStep(ToolName[h.call], "tool_attempt", h.retry))]

\* The failed step, and the timeline with the step in its place.  An error type
\* outside the allowlist is reported by who failed.
FailedStep(step, type, provider) ==
  [step EXCEPT !.success = FALSE,
               !.error_category =
                  IF type \in Categories THEN type
                  ELSE IF provider THEN "PROVIDER_ERROR" ELSE "EXECUTION_ERROR"]

ShowToolError(t, type) ==
  [t EXCEPT !.steps[Len(t.steps)] = FailedStep(@, type, t.provider_failed)]

ShowDecisionError_AnyFailure(t, type) ==
  IF t.selected # NULL
  THEN [t EXCEPT !.steps = Append(@, FailedStep(t.selected, type, t.provider_failed)),
                 !.provider_failed = TRUE]
  ELSE [t EXCEPT !.steps = Append(@, FailedStep(SafeStep(NULL, "session_error", FALSE),
                                                type, TRUE)),
                 !.provider_failed = TRUE]

ShowDecisionError(t, type) ==
  IF t.selected # NULL
  THEN [t EXCEPT !.steps = Append(@, FailedStep(t.selected, type, t.provider_failed))]
  ELSE LET failed == type \notin {"SESSION_TIMEOUT", "CANCELLED"}
       IN  [t EXCEPT !.steps = Append(@, FailedStep(SafeStep(NULL, "session_error", FALSE),
                                                    type, failed)),
                     !.provider_failed = failed]

ShowToolFinished(t, o) ==
  IF Succeeded(o) THEN [t EXCEPT !.steps[Len(t.steps)].success = TRUE]
  ELSE ShowToolError(t, o.outcome)

ShowFinish(t) ==
  [t EXCEPT !.selected = NULL,
            !.attempt_count =
               Cardinality({i \in 1..Len(t.steps) : t.steps[i].kind = "tool_attempt"})]

ShowDecisionStarted_SelectedKept(t) == t

ShowDecisionStarted(t) == [t EXCEPT !.selected = NULL]

Show(t, h) ==
  CASE h.hook = "decision_started"  -> ShowDecisionStarted(t)
    [] h.hook = "decision_returned" -> ShowDecisionReturned(t, h.decision)
    [] h.hook = "tool_started"      -> ShowToolStarted(t, h)
    [] h.hook = "tool_finished"     -> ShowToolFinished(t, h.observation)
    [] h.hook = "error" /\ h.scope = "tool" -> ShowToolError(t, h.error_type)
    [] h.hook = "error" /\ h.scope = "decision" -> ShowDecisionError(t, h.error_type)
    [] h.hook = "finish"            -> ShowFinish(t)

\* The timeline after the hooks of a step, in the order of their calls.
Displayed(t, hs) ==
  LET after[n \in 0..Len(hs)] == IF n = 0 THEN t ELSE Show(after[n - 1], hs[n])
  IN  after[Len(hs)]

DInit == timeline = NewTimeline
DStep == timeline' = Displayed(timeline, hooks')
DSpec == RInit /\ DInit /\ [][RNext /\ DStep]_dvars

-----------------------------------------------------------------------------
(* demo_debug: an exception of the session, or a provider's failure the loop *)
(* turned into a diagnosis, is a 502; a cancelled request is not answered.    *)

Response ==
  CASE pc = "raised" -> "502"
    [] pc = "returned" -> IF timeline.provider_failed THEN "502" ELSE "200"
    [] OTHER -> "none"

-----------------------------------------------------------------------------
(* Properties *)

Shown == Selected(timeline.steps, {s \in InvestigationStep : s.kind # "session_error"})
Attempts == Selected(timeline.steps, {s \in InvestigationStep : s.kind = "tool_attempt"})
Told == Selected(observations, {o \in Observation : o.outcome # "PROVIDER_ERROR"})

\* "Array order is execution order" (agent_service/README.md): the timeline tells what
\* the session observed, in the same order, each result by an attempt and each
\* refusal by a rejected action, with the same success and error and, of a tool that
\* exists, its name; only the call in flight is ahead of it.  What no call stands for,
\* a session error, comes at most once and last, and in a response no step is left open.
StepsFollowObservations ==
  /\ Len(Shown) = Len(Told) + (IF pending_call = NoCall THEN 0 ELSE 1)
  /\ \A i \in 1..Len(Told) :
       /\ (Shown[i].kind = "tool_attempt") <=> IsToolResult(Told[i])
       /\ Shown[i].tool = SafeName(Told[i].tool)
       /\ Shown[i].success = Succeeded(Told[i])
       /\ Shown[i].error_category = IF Succeeded(Told[i]) THEN NULL ELSE Told[i].outcome
  /\ \A i \in 1..Len(timeline.steps) :
       /\ timeline.steps[i].kind = "session_error" => i = Len(timeline.steps) /\ Ended
       /\ Response # "none" => timeline.steps[i].success # NULL

\* "Actual tool-start events, including failed attempts and retries; excludes rejected
\* actions": the reported count is that of the calls made, the one a failure or a
\* cancellation cut off included, and each attempt shows its call's tool.
AttemptsCounted ==
  /\ Len(Attempts) = Len(CallsMade)
  /\ \A i \in 1..Len(Attempts) : Attempts[i].tool = ToolName[CallsMade[i]]
  /\ Ended => timeline.attempt_count = Len(CallsMade)

\* The timeline is the execution: its steps are what the session observed, its attempts
\* the calls the session made.
TimelineFollowsSession == StepsFollowObservations /\ AttemptsCounted

\* "provider/setup/execution failures return a generic HTTP 502 ... Typed tool failures
\* and limits remain recorded outcomes": a session that returned is answered 502 only
\* when the provider failed while it was awaited, whatever refusals, tool failures,
\* retries and deadlines came before; and then the timeline says so at its end.
ProviderFailedInReturn ==
  LET n == Len(observations)
  IN  \/ n > 0 /\ observations[n].outcome = "PROVIDER_ERROR"
      \* A TimeoutError the provider raised itself.
      \/ /\ diagnosis.status = "LIMIT_REACHED"
         /\ diagnosis.missing_evidence = "SESSION_TIMEOUT"
         /\ ~expired
         /\ ~(n > 0 /\ observations[n].outcome = "SESSION_TIMEOUT")

OnlyProviderFailuresAre502 ==
  pc = "returned" =>
    /\ (Response = "502") <=> ProviderFailedInReturn
    /\ Response = "502" => Last(timeline.steps).error_category = "PROVIDER_ERROR"
=============================================================================
