--------------------------- MODULE RunEvaluation ---------------------------
(***************************************************************************)
(* The evaluation of one recorded run against its dataset case             *)
(* (src/evaluation/orchestration.py): the code evaluators of each decision *)
(* (tool_evaluators.py), the judge they and the qualitative evaluators     *)
(* fall back on (judges.py, qualitative.py), the observed path and the     *)
(* verdict on the run (trajectory.py).                                     *)
(*                                                                         *)
(* The run is the one EvaluationRecorder records; its evaluation starts    *)
(* when the session is over and takes the judge's answers as they come.    *)
(*                                                                         *)
(* Abstracted: a response's status is told from its request id, the labels *)
(* PARTIALLY_CORRECT, PARTIALLY_GROUNDED and NEEDS_IMPROVEMENT stand with  *)
(* the worse label, and a failed judgment keeps no error type.             *)
(***************************************************************************)
EXTENDS EvaluationRecorder

CONSTANTS
  Cases,            \* dataset cases: see CaseType
  SpecTool, HttpTool, LogsTool, SourceTool,   \* TOOL_REGISTRY
  Route,            \* [Calls -> routes \cup {NoRoute}]: the approved endpoint of a call;
                    \*   an HTTP request for a template has none
  NoRoute,
  RequestedId,      \* [Calls -> RequestIds \cup {NoId}]: the argument of a logs call
  ServerErrors      \* the request ids of responses with a 5xx status

Registered == {SpecTool, HttpTool, LogsTool, SourceTool}

\* What EvaluationCase says, as far as the evaluators ask: whether the operation is
\* known, the request ids and the 5xx of the report, and the canonical requests.
CaseType ==
  [kind : {"bug", "no_bug", "inconclusive"},
   expected : {"RESOLVED", "NO_BUG_FOUND", "INCONCLUSIVE"},
   endpoint : BOOLEAN, reported : SUBSET RequestIds, mentions5xx : BOOLEAN,
   reproducible : BOOLEAN, requests : SUBSET Calls]

\* EvaluationCase.validate_semantics.
ValidCase(c) ==
  /\ c.kind = "bug" => c.expected = "RESOLVED" /\ c.endpoint /\ c.reproducible
  /\ c.kind = "no_bug" => c.expected = "NO_BUG_FOUND" /\ c.reproducible
  /\ c.kind = "inconclusive" => c.expected = "INCONCLUSIVE"

ASSUME CasesAssumption ==
  /\ Cases \subseteq CaseType
  /\ \A c \in Cases : ValidCase(c)
  /\ ServerErrors \subseteq RequestIds \cup {NoId}
  /\ DOMAIN Route = Calls
  /\ RequestedId \in [Calls -> RequestIds \cup {NoId}]

VARIABLES
  case,       \* the case the session investigates
  firstView,  \* what the code evaluators said of each decision when it returned
  results,    \* the evaluator results so far, in the order of evaluate_run
  requests,   \* the requests sent to the judge about the unit in hand, 0 if it is idle
  bundle      \* the EvaluationBundle

pvars == <<results, requests, bundle>>
allvars == <<evars, case, firstView, pvars>>

NoBundle == [closed |-> FALSE]

-----------------------------------------------------------------------------
(* Decision evaluators *)

Scored(label) == [state |-> "SCORED", label |-> label]
Unscored(state) == [state |-> state, label |-> "NONE"]
Undetermined == Unscored("UNDETERMINED")
NotApplicable == Unscored("NOT_APPLICABLE")

Prior_WholeRun(r, i) == DOMAIN r.observations

\* The observations decision i was taken on.
Prior(r, i) == 1..r.decisions[i].prior

KnownRequestIds(c, r, seen) ==
  c.reported \cup
    ({r.observations[k].request_id :
        k \in {k \in seen : /\ r.observations[k].tool = HttpTool
                            /\ Succeeded(r.observations[k])}} \ {NoId})

HasRuntimeFailure(r, seen) ==
  \E k \in seen : /\ r.observations[k].tool = HttpTool
                  /\ Succeeded(r.observations[k])
                  /\ r.observations[k].request_id \in ServerErrors

SucceededWith(r, seen, tool) ==
  \E k \in seen : r.observations[k].tool = tool /\ Succeeded(r.observations[k])

\* The data of an inspection names the route the call it answers asked for.
AlreadyInspected(r, seen, call) ==
  /\ call # Rejected
  /\ Route[call] # NoRoute
  /\ \E t \in ToSet(r.tool_attempts) :
       /\ t.observation \in seen
       /\ Succeeded(r.observations[t.observation])
       /\ ToolName[t.call] = ToolName[call]
       /\ Route[t.call] = Route[call]

\* The choices evaluate_tool_selection approves of.
ClearlyUseful(c, r, seen, tool) ==
  \/ /\ tool = LogsTool
     /\ KnownRequestIds(c, r, seen) # {}
     /\ HasRuntimeFailure(r, seen) \/ c.mentions5xx
  \/ tool = SpecTool /\ c.endpoint /\ ~SucceededWith(r, seen, tool)
  \/ tool = HttpTool /\ c.reproducible /\ ~SucceededWith(r, seen, tool)

\* evaluate_tool_selection
Selection(c, r, i) ==
  LET d == r.decisions[i].decision
      seen == Prior(r, i)
      tool == ToolName[d]
  IN  IF d = NoDecision THEN Undetermined
      ELSE IF d = FinalAnswer THEN NotApplicable
      ELSE IF tool \notin Registered THEN Scored("INVALID_TOOL")
      ELSE IF ~c.endpoint /\ seen = {} /\ c.reported = {} THEN Scored("UNNECESSARY")
      ELSE IF ClearlyUseful(c, r, seen, tool) THEN Scored("APPROPRIATE")
      ELSE IF tool \in {SpecTool, SourceTool} /\ AlreadyInspected(r, seen, Normal[d])
           THEN Scored("UNNECESSARY")
      ELSE Undetermined

\* A call of the case's own: for HTTP the very request, for an inspection its route.
Canonical(c, call) ==
  IF ToolName[call] = HttpTool THEN call \in c.requests
  ELSE Route[call] \in {Route[q] : q \in c.requests}

\* evaluate_tool_arguments
Arguments(c, r, i) ==
  LET d == r.decisions[i].decision
      call == Normal[d]
  IN  IF d = NoDecision THEN Undetermined
      ELSE IF d = FinalAnswer THEN NotApplicable
      ELSE IF ToolName[d] \notin Registered THEN NotApplicable
      ELSE IF call = Rejected THEN Scored("INCORRECT")
      ELSE IF ToolName[d] = LogsTool
           THEN IF RequestedId[call] \in KnownRequestIds(c, r, Prior(r, i))
                THEN Scored("CORRECT") ELSE Scored("INCORRECT")
      ELSE IF Route[call] = NoRoute THEN Scored("INCORRECT")
      ELSE IF Canonical(c, call) THEN Scored("CORRECT")
      ELSE Undetermined

-----------------------------------------------------------------------------
(* Run evaluators *)

HasDiagnosis(r) == r.diagnosis # NoDiagnosis

\* DebugDiagnosis requires a root cause of RESOLVED and forbids one to NO_BUG_FOUND and
\* INCONCLUSIVE.  It would let LIMIT_REACHED carry one, but only the loop gives that
\* status, in its own diagnosis without a root cause (loop.py 358-362); the schema a
\* provider answers in excludes it (openai_provider.py 93).
NamesRootCause(d) == d.status = "RESOLVED"

\* What evaluate_root_cause says without the judge.
RootCauseByCode(c, r) ==
  IF ~HasDiagnosis(r) THEN Undetermined
  ELSE IF c.kind = "bug" THEN Scored("INCORRECT")
  ELSE IF NamesRootCause(r.diagnosis) THEN Scored("INCORRECT")
  ELSE NotApplicable

Unit(evaluator, decision) == [evaluator |-> evaluator, decision |-> decision]

\* The order of evaluate_run; the trajectory, which comes last, is in the bundle.
Units(r) ==
  FlattenSeq([i \in 1..Len(r.decisions) |->
                <<Unit("tool_selection", i), Unit("tool_arguments", i)>>])
    \o <<Unit("root_cause", 0), Unit("grounding", 0), Unit("response_quality", 0)>>

\* The verdict of the code on unit u, where it has the last word.
ByCode(c, r, u) ==
  CASE u.evaluator = "tool_selection" -> Selection(c, r, u.decision)
    [] u.evaluator = "tool_arguments" -> Arguments(c, r, u.decision)
    [] u.evaluator = "root_cause" -> RootCauseByCode(c, r)
    [] OTHER -> Undetermined

NeedsJudge(c, r, u) ==
  CASE u.evaluator = "tool_selection" ->
         /\ Selection(c, r, u.decision) = Undetermined
         /\ r.decisions[u.decision].decision # NoDecision
    [] u.evaluator = "tool_arguments" -> FALSE
    [] u.evaluator = "root_cause" ->
         HasDiagnosis(r) /\ c.kind = "bug" /\ NamesRootCause(r.diagnosis)
    [] OTHER -> HasDiagnosis(r)

Labels(u) ==
  CASE u.evaluator = "tool_selection" -> {"APPROPRIATE", "UNNECESSARY", "INVALID_TOOL"}
    [] u.evaluator = "root_cause" -> {"CORRECT", "INCORRECT"}
    [] u.evaluator = "grounding" -> {"GROUNDED", "UNGROUNDED"}
    [] OTHER -> {"GOOD", "POOR"}

\* The evidence an answer may cite: 0 is the user report, k the k-th observation.
Citable(r, u) ==
  CASE u.evaluator = "tool_selection" -> {0} \cup Prior(r, u.decision)
    [] u.evaluator = "grounding" -> {0} \cup DOMAIN r.observations
    [] OTHER -> {}

\* An answer cites nothing, or something, which may not exist.
Citations(r) == {{}} \cup {{k} : k \in 0..(Len(r.observations) + 1)}

WellCited(r, u, cited) ==
  /\ cited \subseteq Citable(r, u)
  /\ u.evaluator = "grounding" => cited # {}

-----------------------------------------------------------------------------
(* The verdict on the run *)

\* The decisions evaluate_trajectory takes for unnecessary.
UnnecessaryDecisions(res) ==
  {res[n].decision : n \in {n \in DOMAIN res :
      /\ res[n].evaluator = "tool_selection"
      /\ res[n].state = "SCORED"
      /\ res[n].label = "UNNECESSARY"}}

AttemptsOf(r, i) ==
  LET attempts == DOMAIN r.tool_attempts
  IN  Selected([n \in attempts |-> n],
               {n \in attempts : r.tool_attempts[n].decision = i})

PathStep == [kind : {"decision", "tool"}, reference : Nat]

\* The observed path: each decision, then its attempts.
Path(r) ==
  FlattenSeq([i \in 1..Len(r.decisions) |->
                <<[kind |-> "decision", reference |-> i]>>
                  \o [n \in DOMAIN AttemptsOf(r, i) |->
                        [kind |-> "tool", reference |-> AttemptsOf(r, i)[n]]]])

Duplicates_WithoutRetries(r) ==
  {n \in DOMAIN r.tool_attempts :
     /\ ~r.tool_attempts[n].timeout_retry
     /\ \E m \in 1..(n - 1) : r.tool_attempts[m].call = r.tool_attempts[n].call}

\* The attempts at a call made before.
Duplicates(r) ==
  {n \in DOMAIN r.tool_attempts :
     \E m \in 1..(n - 1) : r.tool_attempts[m].call = r.tool_attempts[n].call}

Trajectory(r, res) ==
  LET attempts == DOMAIN r.tool_attempts
  IN  [path |-> Path(r),
       path_length |-> Len(r.decisions) + Len(r.tool_attempts),
       duplicate_calls |-> Cardinality(Duplicates(r)),
       non_retry_duplicate_calls |->
         Cardinality({n \in Duplicates(r) : ~r.tool_attempts[n].timeout_retry}),
       timeout_retries |->
         Cardinality({n \in attempts : r.tool_attempts[n].timeout_retry}),
       unnecessary_tool_attempts |->
         Cardinality({n \in attempts :
                        r.tool_attempts[n].decision \in UnnecessaryDecisions(res)})]

\* The labels a success needs, in the order they are asked for.
Required(c) ==
  <<[evaluator |-> "grounding", label |-> "GROUNDED"]>>
    \o (IF c.kind = "bug" THEN <<[evaluator |-> "root_cause", label |-> "CORRECT"]>>
        ELSE <<>>)

VerdictOf(res, evaluator) == Selected(res, {x \in ToSet(res) : x.evaluator = evaluator})

Determined(res, evaluator) ==
  LET matches == VerdictOf(res, evaluator)
  IN  Len(matches) = 1 /\ matches[1].state = "SCORED"

Ineligible(reason) == [eligible |-> FALSE, reason |-> reason]

\* What the first requirement that is not met makes of the run.
Shortfall(res, need) ==
  IF Determined(res, need.evaluator)
  THEN Ineligible(<<need.evaluator, "NOT_SUCCESSFUL">>)
  ELSE Ineligible(<<need.evaluator, "UNDETERMINED">>)

Meets(res, need) ==
  Determined(res, need.evaluator) /\ VerdictOf(res, need.evaluator)[1].label = need.label

\* The requirements a run does not meet, in their order.
Unmet(c, res) ==
  Selected(Required(c), {need \in ToSet(Required(c)) : ~Meets(res, need)})

AssessSuccess_FailedJudgesPass(c, r, res) ==
  LET lacking == SelectSeq(Unmet(c, res), LAMBDA need : Determined(res, need.evaluator))
  IN  IF ~HasDiagnosis(r) THEN Ineligible("MISSING_DIAGNOSIS")
      ELSE IF r.diagnosis.status # c.expected THEN Ineligible("FINAL_STATUS_MISMATCH")
      ELSE IF lacking # <<>> THEN Shortfall(res, lacking[1])
      ELSE [eligible |-> TRUE, reason |-> "SUCCESSFUL"]

AssessSuccess(c, r, res) ==
  LET lacking == Unmet(c, res)
  IN  IF ~HasDiagnosis(r) THEN Ineligible("MISSING_DIAGNOSIS")
      ELSE IF r.diagnosis.status # c.expected THEN Ineligible("FINAL_STATUS_MISMATCH")
      ELSE IF lacking # <<>> THEN Shortfall(res, lacking[1])
      ELSE [eligible |-> TRUE, reason |-> "SUCCESSFUL"]

-----------------------------------------------------------------------------
(* evaluate_run *)

ThisUnit == Units(run)[Len(results) + 1]

Evaluating == run.finished /\ Len(results) < Len(Units(run))

\* The code or the judge ("source") says this of unit u.
EvaluatorResult(u, verdict, source) ==
  [evaluator |-> u.evaluator, decision |-> u.decision,
   state |-> verdict.state, label |-> verdict.label, source |-> source]

Conclude(source, verdict) ==
  /\ results' = Append(results, EvaluatorResult(ThisUnit, verdict, source))
  /\ requests' = 0
  /\ UNCHANGED <<evars, case, firstView, bundle>>

EvaluateByCode ==
  /\ Evaluating
  /\ ~NeedsJudge(case, run, ThisUnit)
  /\ Conclude("code", ByCode(case, run, ThisUnit))

\* The input is over its bound: nothing is sent.
InputTooLarge ==
  /\ Evaluating
  /\ requests = 0
  /\ NeedsJudge(case, run, ThisUnit)
  /\ Conclude("judge", Unscored("ERROR"))

SendRequest ==
  /\ requests' = requests + 1
  /\ UNCHANGED <<evars, case, firstView, results, bundle>>

AskJudge ==
  /\ Evaluating
  /\ requests = 0
  /\ NeedsJudge(case, run, ThisUnit)
  /\ SendRequest

Judging == Evaluating /\ requests > 0

JudgeAnswers(label, cited) ==
  /\ Judging
  /\ Conclude("judge", IF WellCited(run, ThisUnit, cited) THEN Scored(label)
                                                          ELSE Unscored("ERROR"))

\* An incomplete or invalid answer is asked for again, once.
CorrectJudge == Judging /\ requests = 1 /\ SendRequest

\* The correction was invalid too, the API failed, or the time for both is over.
JudgeFails ==
  /\ Judging
  /\ Conclude("judge", Unscored("ERROR"))

CloseBundle ==
  /\ run.finished
  /\ Len(results) = Len(Units(run))
  /\ ~bundle.closed
  /\ bundle' = [closed |-> TRUE, trajectory |-> Trajectory(run, results),
                eligibility |-> AssessSuccess(case, run, results)]
  /\ UNCHANGED <<evars, case, firstView, results, requests>>

\* The session goes on; firstView notes what could be said of a decision at once.
SessionStep ==
  LET i == Len(firstView) + 1
      returned == /\ i <= Len(run'.decisions)
                  /\ run'.decisions[i].decision # NoDecision
  IN  /\ ENext
      /\ firstView' =
           IF returned
           THEN Append(firstView, <<Selection(case, run', i), Arguments(case, run', i)>>)
           ELSE firstView
      /\ UNCHANGED <<case, pvars>>

VInit ==
  /\ EInit
  /\ case \in Cases
  /\ firstView = <<>>
  /\ results = <<>>
  /\ requests = 0
  /\ bundle = NoBundle

VNext ==
  \/ SessionStep
  \/ EvaluateByCode
  \/ InputTooLarge
  \/ AskJudge
  \/ (Judging /\
        \E label \in Labels(ThisUnit), cited \in Citations(run) :
          JudgeAnswers(label, cited))
  \/ CorrectJudge
  \/ JudgeFails
  \/ CloseBundle

VSpec == VInit /\ [][VNext]_allvars

-----------------------------------------------------------------------------
(* Properties *)

\* Decisions are judged without hindsight: evaluated after the session, each gets from
\* the code evaluators what it would have got the moment it returned, whatever the
\* session found out later (tool_evaluators.py 55-57, recorder.py 58-63).
WithoutHindsight ==
  run.finished =>
    \A i \in 1..Len(firstView) :
      firstView[i] = <<Selection(case, run, i), Arguments(case, run, i)>>

\* The reported path is the execution: every decision and every attempt once and in the
\* order they happened, and a call counts as a duplicate beyond its first attempt,
\* which is how every timeout retry counts too (trajectory.py 83-122).
TrajectoryIsTheExecution ==
  bundle.closed =>
    LET t == bundle.trajectory
        steps(kind) == Selected(t.path, {s \in PathStep : s.kind = kind})
        calls == {a.call : a \in ToSet(run.tool_attempts)}
    IN  /\ Len(t.path) = t.path_length
        /\ \A n \in 1..Len(run.decisions) : steps("decision")[n].reference = n
        /\ \A n \in 1..Len(run.tool_attempts) : steps("tool")[n].reference = n
        /\ t.duplicate_calls = Len(run.tool_attempts) - Cardinality(calls)
        /\ t.duplicate_calls = t.non_retry_duplicate_calls + t.timeout_retries
        /\ t.timeout_retries <= TimeoutsSeen
        /\ tool_call_count <= Len(run.tool_attempts)

\* A run counts as a success only if the session itself returned the expected answer
\* and the judge approved of it.  A limit, an exception, a cancellation, a judge that
\* failed or evidence nobody checked is never one; a failed provider can be, since
\* what it leaves is an INCONCLUSIVE diagnosis (trajectory.py 142-155, loop.py 196-206).
Approved(evaluator, label) ==
  \E x \in ToSet(results) :
    x.evaluator = evaluator /\ x.source = "judge" /\ x.label = label
SuccessesEarned ==
  bundle.closed /\ bundle.eligibility.eligible =>
    /\ pc = "returned"
    /\ diagnosis.status = case.expected
    /\ \/ Last(run.decisions).decision = FinalAnswer
       \/ diagnosis.status = "INCONCLUSIVE" /\ run.errors # <<>>
    /\ Approved("grounding", "GROUNDED")
    /\ case.kind = "bug" => Approved("root_cause", "CORRECT")
=============================================================================
