# A TLA+ development of APILens

APILens investigates bug reports against a deliberately faulty REST API: a language model
chooses what to inspect, application code validates and executes each action, and the
result is a structured diagnosis. This directory holds TLA+ modules translated from the
source, the TLC configurations that check them on small instances, and proofs that TLAPS
checks for every value of the constants. `PROJECT.json` lists the runs, the mutants, the
theorems, the hazards and, for each definition, the source lines it stands for.

Paths below are relative to the repository.

## The system

| Component | State it keeps | Operations | Interacts with | What is hard |
| --- | --- | --- | --- | --- |
| Agent loop (`agent_service/agent/loop.py`, `state.py`) | counters, tool history, observations, request ids, status of one session | one decision, a refusal, a call, its retry; deadline and cancellation | awaits the provider and the tools; calls the recorder's hooks | an interruption at either await, late answers, budgets shared by retries and cut-off calls |
| Admission and dispatch (`dispatch.py`, `schemas.py`) | none | validate, normalise, execute, turn results into observations | tools | equal calls spelled differently |
| Recorder protocol (`recording.py`) | none | the hooks, in the loop's order | loop → recorder | which hook runs on which way out |
| Evaluation recorder (`evaluation/recorder.py`, `contracts.py`) | the run under construction | the hooks, snapshot | loop, provider | it numbers observations on its own |
| Demo endpoint (`demo.py`, `main.py`) | the timeline | the hooks, the response | loop, frontend | attributing an error to a step, 200 or 502 |
| OpenAI provider (`openai_provider.py`) | response id, pending call id, observation cursor | request, correction, failure, function output | remote conversation, loop | state that moves on some outcomes only; outputs that do not fit |
| HTTP tool, log tool (`execute_api_request.py`, `inspect_server_logs.py`) | none | one request, one query | loop, Sandbox API | giving up does not stop the server |
| Spec tool (`inspect_api_spec.py`) | the worklist of one call | fetch, follow references, build the contract | loop, Sandbox API | schemas in circles or missing, on the event loop |
| Source tool, endpoint table (`inspect_endpoint_implementation.py`, `endpoints.py`) | none | look up | static data | nothing |
| Sandbox API (`sandbox_api/`) | SQLite tables, request logs | products, inventory, orders, payments | tools | concurrent writers, crashes, logging that can fail |
| Baseline store (`evaluation/baseline.py`) | a directory of files and a lock | collect, evaluate, read | loop, judges, operator | kills between any two writes, paid work |
| Live gate (`baseline_live.py`) | four files of an experiment | preflight, the checks before a paid run | store, Phoenix, the V1 report, the source tree | a world that changes between check and use |
| Comparison (`compare.py`) | none | bind, check the cohort, compare two reports | live gate, reports | gaps on either side |
| Calibration (`calibration.py`) | snapshots, labels, results, review | collect, label, rejudge, compare, review, finalize | judges, a human | files written in place, commands that overlap |
| Judges and evaluators (`judges.py`, `qualitative.py`, `orchestration.py`, `tool_evaluators.py`, `trajectory.py`, `metrics.py`, `dataset.py`) | the results of one evaluation | code evaluators, judge and its correction, trajectory, verdict | evaluation record, judge, baseline store | judging after the fact without hindsight, judges that fail in part |
| Reports (`baseline_report.py`, `load_archived_report`) | saved reports | aggregate, save, read back | baseline store | read without the lock while commands publish |
| Observability (`observability/`) | spans | export | Phoenix | none for this program's own state |
| Frontend (`frontend/src`) | the run on display, the recent history, `localStorage` | submit, open, clear | demo endpoint, other tabs | state captured before an await, failing storage |

What makes each of them correct:

- **Loop**: budgets hold with the call in flight counted; only a `TOOL_TIMEOUT` is retried,
  once; history, observations and request ids tell one story; a session ends, and its status
  says how.
- **Recorders**: what they hold is what the session did, on every way out of it.
- **Provider**: every function call is answered once, every observation delivered once, and
  what is delivered fits and is in its place.
- **Tools on the Sandbox**: a session makes no more orders than it accounts for, and the ids
  it holds, its own or quoted in the report, lead to the logs of those requests; an inspection ends with the whole contract or
  with an error.
- **Store**: one writer, nothing paid twice, files readable after any kill.
- **Live experiment**: what is paid for ran as it was preflighted; what is compared differs
  from V1 in the prompt alone.
- **Comparison**: the totals say what the cases say, and a gap is a gap.
- **Calibration**: complete only on everything it needs, in the order it needs it.
- **Evaluation**: a decision is judged on what was known when it was taken; a success is earned
  by the session and approved by the judge.
- **Reports**: only committed successes count; a saved report stays readable and later ones do
  not contradict it.
- **Sandbox**: stock and orders balance; answers, rows and logs agree.
- **History**: newest first, what was cleared stays cleared, what completed is kept.

## Modules

```
BoundedSession <--refines-- AgentLoop <--EXTENDS-- RecordedLoop <-- EvaluationRecorder
                               ^                        ^                    ^
                               |                        |              RunEvaluation
                               |                   DemoRecorder
                               |---- ProviderConversation
                               '---- LoopOnSandbox --INSTANCE--> SandboxApi

InspectApiSpec   FunctionOutput          BaselineStore <--EXTENDS-- BaselineReport
LiveExperiment   SavedComparison   Calibration         RecentHistory
```

Eight modules hold the proofs. `AgentLoopProofs` and `SandboxApiProofs` extend the one module they
are about; `CollaboratorProofs` is about `ProviderConversation` and about `LoopOnSandbox`, with an
instance of `SandboxApiProofs`; `RecorderProofs` about the two recorders and what the evaluation
reads of a record, `BaselineProofs` about the store and its reports, `ExperimentProofs` about
`LiveExperiment`, `SavedComparison` and `Calibration`, and `PeripheryProofs` about
`InspectApiSpec`, `FunctionOutput` and `RecentHistory`. `SequenceFacts` has the lemmas they
share. Modules that one proof module or one run puts side by side name their variables and
specifications apart (`CalSpec`, `OSpec`, `HistorySpec`). `SequenceFolds` holds what several models
take out of sequences (`Selected`, `Total`), as recursive functions rather than recursive operators.
`MC*` modules give the constants of a run values that a `.cfg` cannot write, and put components
side by side that one run explores. Operators whose name ends in
`_Something` are faulty variants of the operator that follows them (`RetryAllowed_AnyFailure`):
put in its place each must break the property `PROJECT.json` names, which shows that the
property can fail.

### AgentLoop

`run_agent` is one asyncio task that is suspended at two places: while it awaits
`provider.next_decision` (`pc = "deciding"`) and while it awaits `dispatch_tool_call`
(`pc = "calling"`). Code between two awaits is one action. `session` is `DebugSessionState`
field by field; `pending_call` and `attempt` are the loop's locals.

| Actions | Code |
| --- | --- |
| `StartDecision`, `ReachDecisionLimit` | the head of the `while`, and its normal end |
| `AcceptFinalAnswer`, `ProviderFails`, `RejectRequest`, `RefuseOverBudget`, `RefuseIdentical`, `Dispatch` | what a decision can lead to, in the order of the tests |
| `RecordResult`, `RetryTimeout` | a result, and the tests that allow a second attempt |
| `RaiseTimeoutError`, `RaiseException` | exceptions of the provider or a tool; a `TimeoutError` is caught by the handler outside `asyncio.timeout` |
| `TimerFires`, `Cancel`, `ResumeTimedOut`, `ResumeCancelled` | the timer requests the task's cancellation; somebody else may too, and then `asyncio.timeout` lets `CancelledError` through. A result that arrives after the request is lost |

A request is a model value; `Normal` gives what validation and normalisation make of it, so
that two spellings of one call (`a`, `aVariant`) count as identical. The assumption on `Normal`
(a normal form is its own normal form) is why the loop never sees dispatch refuse a call it has
prepared. Error types of tools other than `TOOL_TIMEOUT` are one outcome.

### RecordedLoop, EvaluationRecorder, DemoRecorder

`RecordedLoop` conjoins every action of the loop with `hooks`, the list of recorder calls that
step makes. Each recorder does to its state what those hooks do, one after the other
(`Recorded` with `Apply`, `Displayed` with `Show`), so the whole handler, with all the hooks a
step calls, is one step. `EvaluationRecorder` denotes "observation-3" by 3 and
absence by 0; its `LinksValid` is the rule set of `EvaluationRun.validate_links`.
`DemoRecorder` has the timeline, `_selected`, `provider_failed` and the choice of response in
`demo_debug`. Recorders only listen: they change nothing in the loop, so one run
(`MCRecordedLoop`) explores the loop once with both attached.

### ProviderConversation, FunctionOutput

`ProviderConversation` has the provider's three attributes, the request in flight, and the stored
answers of the remote side (external, modelled from how the provider names
`previous_response_id`). `Ask` opens a request while the loop starts to await; `Correct` is the
corrective request; the other actions are the loop's, with what the provider does at the same
moment. A raised exception or an interruption passes through `_request`, whose `finally` closes
the model call (`Interrupts`).

`FunctionOutput` is `_function_output`: the JSON text of the observations, its shortening and its
reduction. Only lengths count, so a string is how many characters it has and what JSON makes of
each (a control character takes six), and the length of an output is the `Total` of its items'; the lengths of keys and punctuation are those of the code's
dictionaries. Its initial states are the lists of observations one function call can get.

### InspectApiSpec

One call of `inspect_api_spec`: the document it fetched (`components`, `references`, `operation`,
`body`) is any document, and the loop of `_referenced_schemas` is a step per name popped, in any
order, since the names are in a Python set. `Reachable` is the reference definition: the least
set that holds the operation's references and those of its own members.

### SandboxApi

One slot per request, each a thread on a connection of its own. SQLite's write lock is
`writer`; `create_order` holds it from `BEGIN IMMEDIATE` to commit or rollback. A one-statement
handler is one step. An order is inserted in one step (`InsertOrder`, into `uncommitted`, which no
other connection sees) and the stock updated with the commit in another (`CommitOrder`), so that a
crash can fall between them and undoes the insert. `create_payment` is two steps: its SELECT runs
before a transaction begins.
`LogFails` and `WriteFails` are SQLite's "database is locked", possible while another request
holds the lock. `Crash` restarts the process. The deliberate faults that no property here is
about (totals, field names) are abstracted; product 999 and the product without an inventory
row are kept because their control flow differs.

### LoopOnSandbox

`AgentLoop` and an instance of `SandboxApi` joined by the HTTP and the log tool. Every attempt of
an HTTP call is a request of its own to the server; the k-th is request k, and k is also the
request id the server gives it. A timeout, a broken connection and the loop's interruptions are
the client's; the server goes on with a request its client has given up, may commit it and answer
nobody, or crash. Other clients use the same database. This is the deployment over HTTP; the
evaluation's in-process transport (`httpx.ASGITransport`) is the special case in which fewer
things can go wrong. The results of a call, any member of `Results` in `AgentLoop`, are here
those that the server's state allows (`HttpResults`, `LogResults`). `inspect_server_logs` takes any
request id (`InspectedId`): one the session was given, one of a request it gave up, one the user's
report quotes, or one nobody was ever given, which finds nothing. So an id that the session keeps
need not be of a request it sent; `EvidenceOnRecord` says what it then stands for.

### RunEvaluation

`EvaluationRecorder` with the evaluation that follows it: when the session is over, `evaluate_run`
takes the units of the run in order (`Units`: selection and arguments of each decision, then
root cause, grounding and quality). The code's verdicts are operators named after the functions
(`Selection`, `Arguments`, `RootCauseByCode`); where they fall back on the judge, `AskJudge`,
`CorrectJudge`, `JudgeAnswers`, `JudgeFails` and `InputTooLarge` are the outcomes of
`request_judgment`. An answer carries any label and cites nothing or one piece of evidence, which
may not exist. `CloseBundle` adds the trajectory and the verdict on the run. `firstView` is a
history variable: what the two decision evaluators said the moment the decision returned.
`Trajectory`, `AssessSuccess` and `Shortest` (in `BaselineReport`) are the pure functions of
`trajectory.py`. Abstracted: a 5xx is told from the request id of the response, the middle labels
(`PARTIALLY_CORRECT` and the like) stand with the worse one, and a failed judgment keeps no type.

### BaselineStore

Two processes that each run `collect_runs` or `evaluate_saved` over the cases in order, as
often as they like. `write_private` links a finished file into place, so each file is absent or
complete, and one action writes one file. `Killed` stops a process anywhere and leaves the lock;
`WriteFails` raises out of a write, which releases it. `ClearStaleLock` is the operator of
`evaluation/BASELINE.md`, who checks that no command is running first. The reading checks are
guards: a case whose files disagree would stop the command, and `AlwaysReadable` says that
this never happens by the store's own doing. `sessions`, `judgments` and `returned` are
history variables; the number of a case's sessions is also what a run is denoted by.

### BaselineReport

`BaselineStore` with a process that builds reports: `build_summary` reads snapshot, bundle,
execution and error of each case in this order, without the lock, while a command publishes
files. The reads inside `load_snapshot` and `load_bundle` are one step each; since the store
publishes in a fixed order, what a slower reader could see in between only makes it raise.
`RowArchived` is what `load_archived_report` asks of a record. A row keeps the run, the two states
and the eligibility; counts and sums are functions of rows. `returned` is read by
`JudgedSuccessful`, as the mark that the run holds a diagnosis.

### LiveExperiment

A paid V2 experiment. `Preflight` is the sequence `preflight` performs, a step for each file it
writes: `CheckReference` on a candidate manifest, `Initialize` with another manifest made
of what is on disk by then, `WriteComparison`, `VerifyExport`, `WritePhoenix`, and the preflight
record. `live_settings` and `run_live` check all four files again before a session is paid for,
and `Compared` is the gate of `compare_saved` with `check_cohort`. Around the commands `World`
moves: sources are edited, packages upgraded, the V1 report replaced, Phoenix restarted empty,
files brought over from another experiment. A digest is the thing it is the digest of;
`Definitions` and `Prompt` are what `controlled_definitions` and the prompt extraction make of a
source tree. A process imports its code and makes its first checks in one step, later edits do not
change what it runs. V1's own manifest is fixed. The store is reduced to its lock and to what each
session ran as: the rest is `BaselineStore`'s. `verify_traces` only reads and is left out.

### SavedComparison

The loop of `compare_saved` over the cases of two comparable reports, one case a step. What a
case's row can be is not enumerated as rows but derived (`RowOf`) from what can have happened to
the case (`Happened`: never started, interrupted, failed, returned; judged or not, with errors or
without), as `build_summary` and `assess_success` derive it. One numeric measurement and one label
(grounding) stand for their kinds. `settled` and `deltas` are history variables.

### Calibration

The four commands and the human between them. Files are written in place (`calibration.py:80`),
so a killed command may leave `Unfinished` files whose names are taken; results go to the name
the operator gives. Any number of commands overlap. `Label` sets any label, also one that was set
before, `Review` resolves any cases; `revealed` and `closed` record what was printed. Of the three
evaluators only root cause is kept, since it alone does not apply to every case: where there is no bug
to name, code decides (`NOT_APPLICABLE`, or `INCORRECT` for a run that names one). A judgment may
come out differently each time.

### RecentHistory

Each tab's React state and the one `localStorage` entry all tabs share; `captured` is the
`history.entries` a pending `submit` closed over. Any access to the storage may fail.

## Runs

| Run | Bounds | Shows |
| --- | --- | --- |
| `recorded_loop` | 4 requests over 2 tools (one over HTTP in two spellings, one in a thread, one rejected), 4 decisions, 4 calls, 3 identical, 2 request ids; both recorders | the loop: `TypeOK`, `BudgetsRespected`, `RetriesExplained`, `HistoryMatchesObservations`, `LimitsReportedFaithfully`, the refinement `BoundedSpec`, `EverySessionEnds`. The record: `LinksValid`, `AttemptsTellTheCalls`, `FinishedRecordIsTheSession`, `FailuresRecorded`. The timeline: `TimelineFollowsSession`, `OnlyProviderFailuresAre502` |
| `provider_conversation` | 3 decisions, 3 calls, 2 identical, 1 id | `OneConversation` (each call answered once, each observation delivered once), `ModelCallsAccounted` |
| `tool_results` | 3 schema names, every document over them; lengths on both sides of each limit of `_function_output` | `ContractIsComplete`, `InspectionEnds`, `OutputUsable` |
| `loop_on_sandbox` | 3 decisions, 3 calls, 2 identical; an order, the logs of the first request and those of a request the report quotes; the other client that made it, with an order or a read; stock 2 | `EffectsAccountedFor`, `EvidenceOnRecord` |
| `sandbox_api` | 3 requests, stock 2, quantities 1 and 2, one product without stock | `StockConserved`, `WritesAnswered`, `LogsTellTheAnswer`, `RequestsAnswered` |
| `baseline_store` | 2 processes, 2 cases, 2 failures | `OneWriter`, `NothingPaidTwice`, `AlwaysReadable`, `EveryCaseCloses` |
| `run_evaluation` | 2 decisions, 2 calls, 5 requests over 4 tools, a case of each kind | `WithoutHindsight`, `TrajectoryIsTheExecution`, `SuccessesEarned` |
| `baseline_report` | 1 command process and the reporter, 2 cases, 1 failure, 2 reports | `SuccessesCommitted`, `QuietReportsStayReadable`, `LaterReportsAgree` |
| `live_experiment` | 2 commands, 2 cases, 3 source trees, 2 package sets, 2 reports, 2 configurations; the comparison over 2 cases, amounts 0 and 2 | `PaidAsPreflighted`, `ComparisonControlled`, `ComparisonHonest` |
| `calibration` | 2 commands, 2 cases (one a bug), 2 results files | `CalibrationEarned` |
| `recent_history` | 1 tab, limit 2, 4 investigations | `NoticesHonest`, `ClearedForGood` |
| `recent_history_cleared` | 2 tabs, limit 2, 4 investigations | the divergence below |

Three runs put together what can be explored together. `recorded_loop` attaches both recorders
to one loop. `tool_results` starts in the initial states of two independent procedures and takes
the steps of whichever it started in. `live_experiment` goes on, once `Compared` holds, with the
comparison of the two reports; since a report's rows may be anything the store can hold, whatever
the history of the experiment, its `VIEW` forgets that history while comparing (and no property
of the comparison looks at it).

**Why these bounds are enough to be interesting.** In `recorded_loop` four calls are fewer than
two for each of the four decisions and more than the three identical ones, so that each limit is
met first in some behaviour, also by a retry and by a call the deadline cuts off; four decisions
allow a refusal between two calls, which is what shifts the recorders' numbering; a second
request id lets an id be seen twice and not twice. In `tool_results` three names make
circles of every length up to three, missing schemas inside and outside the closure, and two ways
to reach one; the lengths are those at which a cut begins, a name or a message just fits or just
does not, and one large enough that shortening is not sufficient; some have two observations (a
timeout and its retry). In `loop_on_sandbox` three calls are an order, its retry and another
order, or an order and looks into the logs of the first request, which may have been answered,
given up or not arrived, and of the other client's, which may be under way, answered or unknown to
the server; two in stock means the third order meets a 409. The other client may take from the
stock and hold the write lock, or be answered 404 at once; the operations it could ask for besides
(`MCRequested`) meet in `sandbox_api`. Three requests of `sandbox_api` let an order, a payment of it and an update overlap. Two processes
suffice for the store since a third would only be another that finds the lock; two cases show
that an interrupted case does not stop the next, and two failures that a resumed command may die
as well (kill in collection, kill in evaluation). In `run_evaluation` two decisions give the
second a past to be judged on and two calls a retry; the requests make every branch of the
evaluators reachable (an unknown tool, rejected arguments, a repeated inspection in another
spelling, a log request with a known and an unknown id). In `baseline_report` one failure is the
kill between `run.json` and `execution.json`, and a second report sees what the first could not;
the two cases share a cohort and have paths of different length, so a later success shortens the
cohort's shortest path. In `live_experiment` the three trees are V1's, the same with another
prompt, and one in which something else has changed too, so that each check of the cohort has
something to refuse; two commands are a preflight and a paid run at once, or two of either. The
calibration of the code has six cases; two, one that asks a judge and one that does not, already
give a snapshot missing before and after a kill, and results and labels that agree in one and not
in the other. With a limit of 2 and 4 investigations the history overflows twice.

`CHECK_DEADLOCK FALSE` is set where the system really stops: `sandbox_api` and `loop_on_sandbox`
use up their request slots, `tool_results` is one call of a function, and in `calibration` every
name of a file may be taken by an unfinished one.

**Fairness.** The loop: a ready task is run and a due timer fires; nothing is assumed of the
provider, the tools or whoever may cancel. The store: a live command goes on; the operator
repeats the collection and clears a stale lock (strong fairness of starting a collection, since
evaluations may take the lock in between; weak of the rest). `MaxFailures` bounds kills because
with endlessly many nothing would ever close. The sandbox: a request in a thread proceeds; its
lock waits are finite because the holder proceeds. `inspect_api_spec` is a function that runs;
httpx's timeout bounds its one wait, and a failed fetch is one of its outcomes. All else is
checked for safety only.

## Divergences found

- **A cleared history comes back** (`recent_history_cleared`). The clear dialog says "This removes
  APILens history saved in this browser. You won't be able to reopen those records after
  clearing." (`frontend/src/components/RecentInvestigations.tsx:50`). With a second tab open,
  its next completed investigation saves its own stale list (`App.tsx:80-81`).

The same captured list has a second effect: with two tabs open a completed investigation can be
dropped although there is room for it, since each tab replaces the whole entry with the list it
loaded when it started; `README.md:134` says of recent investigations that the demo "retains five
completed results in this browser's `localStorage`". Both promises are kept in one tab, as
`ClearedStaysCleared` and `CompletedAreRetained` prove and, for the first, `recent_history` checks:
there `inFlight` keeps the history from being cleared while a
submission that closed over it is pending (without that test, `RemoveSaved_WhileInFlight`,
`ClearedForGood` fails in one tab as well).

Also seen, and not a contradiction of any document:

- A tool call interrupted by the deadline and a cancellation together stays without a result and
  without an error in the evaluation record (`loop.py:304-307`), which `FailuresRecorded` states
  as its one exception.
- A failed provider leaves an `INCONCLUSIVE` diagnosis (`loop.py:190-206`), which on a case that
  expects `INCONCLUSIVE` counts as a success once the judge finds it grounded; `SuccessesEarned`
  says so.
- A report built while `evaluate` or `collect` is at work can be one that cannot be read back: if
  a case's snapshot is read as absent and its bundle, published a moment later, as complete, the
  record is judged but names no run, and `load_archived_report` refuses it. This is why
  `QuietReportsStayReadable` speaks of reports during which nothing was published.
- The retry of a timed-out call does not ask for its method (`loop.py:319`): a POST that was only
  late can place two orders. `EffectsAccountedFor` counts them: no more orders than decisions and
  timeouts together.
- A killed calibration command can leave a file that is neither readable nor replaceable
  (`calibration.py:80`); the directory has to be given up if it is a snapshot or the labels.

## Proofs

Each for every value of the constants that satisfies the assumptions of the modules it extends.
In each the last step is the usual one: the invariant holds initially, is kept by every step and
implies the property.

| Module | Theorem | Argument |
| --- | --- | --- |
| `AgentLoopProofs` | `TypeCorrect` | `TypeOK` is inductive |
| | `BudgetsHold`, `RetriesAreExplained` | `BudgetsRespected` is not inductive: a step to `"deciding"` or a retry says nothing of its own about the room left. `BudgetInv` adds `TaskConsistent` (the control point bounds the counters, a first attempt leaves room for its retry) and `RetriesExplained` |
| | `RequestIdsAreCollected` | inductive with `TypeOK`; lemmas on appending to a sequence |
| | `HistoryMatches` | inductive with `TypeOK`; appending a result to the observations appends it to what `Selected` takes out of them, appending a refusal does not |
| | `LimitsAreReportedFaithfully` | inductive with the fact that a task that runs has not been interrupted (`Uninterrupted`) |
| | `LoopImplementsBoundedSession` | initial states and steps map; a decision, a retry and a close are the abstract ones, the rest stutters. Uses the budgets |
| `CollaboratorProofs` | `TheConversationIsOne` | `ConversationInv` is local: each answer continues the one it names with the observations that followed those it was asked with (`Continues`), and the provider's three attributes say where that thread ends. That the whole thread then tells every observation once, in order, is an induction over the answers |
| | `ModelCallsAreAccounted` | `CallsInv`: model calls come in the order of the decisions, only the last can be open, none has been left out up to the decision reached (`UpTo`); a second call for one decision is a correction, and each of those has an answer in vain behind it |
| | `ClientImplementsLoop`, `ServerImplementsSandboxApi` | a step of the composition is a step of the one and a stutter of the other. For the loop this needs that the last request sent is the call in flight and its id a `RequestIds` (`HttpInv`, the budgets); so the invariants of both hold in the composition |
| | `EffectsAreAccountedFor`, `EvidenceIsOnRecord` | `TraceInv` relates the two: the k-th HTTP call of the history is request k, which the server knows for what it is (`ServedInv`), and its result the k-th HTTP observation, which says "OK" of an answered request only (`ToldInv`). Of every id kept, `KeptInv` says where the session has it from, and that the server has rows for it if it was looked up. `SandboxInv` then tells what an answer stands for, `OwnersInv` whose rows there are, `RetriesExplained` how many |
| `RecorderProofs` | `LinksAreValid`, `AttemptsAreTheCalls`, `FinishedRecords`, `FailuresAreRecorded` | `Sound(r, calls, open)` says of any record that its attempts are those calls, all answered but the open one, with links that resolve, never decrease and never look ahead. Each hook keeps it, given what the loop has just appended; `RecorderInv` says that the session's record is `Sound` at every step of the loop, with the number of calls in flight as `open`, and what its last error tells |
| | `TimelineIsTheSession`, `ProviderFailuresAre502` | `Telling` for the demo's timeline, in the same way; `DemoInv` adds what is selected, and that `provider_failed` and the session error come only with the loop's last step |
| | `JudgedWithoutHindsight` | `ViewInv`: with each hook a record only grows (`Grown`), and the decision that is awaited has no content yet (`Awaited`); so what the evaluators are told of a decision once the session is over is what they were told when it returned |
| | `SuccessesAreEarned` | `EarnedInv` joins the loop's limits, the record, the origin of a diagnosis (`Origin`: one that names no limit is the provider's answer or stands for its failure) and that of each result (`Attributed`: the code has no say on grounding and never confirms a cause). A requirement that is met is met by one of the results (`MetByResult`), and an ended session rests, so the verdict stays true |
| | `TrajectoriesAreExecutions` | `Sound` also says that attempts come in the order of their decisions, so those of one decision are a range of positions (`NextAttempts`); by induction over the flattened sequence the path tells the first k decisions and all their attempts (`PathTells`). Repetitions are counted by an induction over the attempts; a retry is a duplicate of the one before it and names that one's timeout, a different one each time (`RetriesTimedOut`) |
| `PeripheryProofs` | `InspectApiSpecIsComplete` | the worklist (`Worklist`): what is followed or noted lies in `Reachable`, holds the operation's references, and contains the references of whatever was followed; with nothing left to follow it is closed, hence all of `Reachable`. The document never changes, so neither does `Reachable` |
| | `OutputsAreUsable` | `OutputInv`: each rewriting leaves items that `Retells` the given ones; what is left after the last is at most 7526 characters (`LeastBudget`), by bounding each of two items. So it fits every budget from there on; `MAX_FUNCTION_OUTPUT_CHARS` is 20000 |
| | `NoticesAreHonest`, `CompletedAreRetained`, `ClearedStaysCleared` | `HistoryInv`, for one tab, any limit and any number of investigations: the tab's list is the stored one unless it says otherwise, and holds the newest investigations in full unless an access failed or it was cleared. `ClearedInv`: nothing that was cleared is in storage or on the list a pending submission writes from |
| `SandboxApiProofs` | `WritesAreAnswered` | `RequestInv` says for each request what it has left behind at each point of its way: rows only with a 201, one or two log rows. `PaymentsInv` needs that orders are only ever appended |
| | `LogsTellTheAnswers` | the same invariant: an answer with an id comes after both rows, one without after one at most |
| | `StockIsConserved` | `LockInv`: an order in progress has the lock, and what it has read is so, since every other write of the stock waits for the lock; `InsertedInv`: what is uncommitted is that order alone, and nothing when nobody has the lock. So what is left and the `Total` of what was ordered add up to what was supplied |
| `BaselineProofs` | `OneWriterAtATime` | inductive: a command becomes live only when it takes the lock, and the lock is cleared by hand only when none is |
| | `NothingIsPaidTwice`, `StoreStaysReadable` | `CaseInv` relates the files of a case to each other and to the sessions and judgments paid for; `WorkInv` says what a live command has found or done in its case, and stays true because it is the only one |
| | `QuietReportsReadable`, `SuccessesAreCommitted`, `LaterReportsKeepFaith` | a report takes no lock. It relies on committed files staying as they are (`StoreKeeps`), so that a row stays true of the store however long ago it was read (`ReadingInv`, `ReportsInv`); the order of the reads inside a row says which mixtures of old and new there can be |
| `ExperimentProofs` | `PaidOnlyAsPreflighted`, `ComparisonsAreControlled` | `Approves(r)`, that all four files are there and agree on the way r was run, holds for a command past its checks and for every session paid; it stays true because a file that is there is never replaced (`FilesAreFinal`) |
| | `ComparisonsAreHonest` | `ComparisonHonest` said of the cases met so far: what one more pair of rows adds to each total is what it adds to the count it is compared with; lemmas on sums with nulls |
| | `CalibrationsAreEarned` | who judges has every snapshot, and so had whoever saved results (`JudgedRuns`); what was shown was shown on labels that are complete and stay so (`LabelledFirst`); what closed is still on record, since a readable results file is never replaced (`ClosedOnRecord`) |

Inductions over the length of a sequence are first-order here: the prover cannot be given a predicate
as a parameter, so `SequenceFacts` takes the set of the numbers at which a fact fails and its least
element (`Least`), or shows that a set of numbers closed under successor is all of them (`NatInd`).
What `Selected`, `Total`, `Recorded`, `FlattenSeq` and the conversation's `Thread` compute is proved that way,
which is why the models write them as recursive functions.

The assumptions are named in the modules of the components. Beyond the types of the constants they
say that markers such as `None` differ from what they mark the absence of, and, for the loop, that
a normal form is its own normal form.

Model-checked only: liveness (`EverySessionEnds`, `EveryCaseCloses`, `RequestsAnswered`,
`InspectionEnds`), which is out of the prover's reach. Every invariant that a passing run checks
and the refinement `BoundedSpec` are also proved. `RetainsCompleted` is proved and no run checks it:
it is the plainer promise of the history, and `ClearedForGood` the one an order of events could break.

## Not modelled

- Prompts, schemas, tracing spans, sanitising, metrics and layout: no control of this kind.
- `observability`: nothing it builds is read back by the program, except the preflight's span, which
  `LiveExperiment` has as `probes`.
- The agent's HTTP service: `POST /debug` is one call of the loop. The frontend's views and its API
  client: presentation and validation.
- `ground_truth.py`, `source_map.py`, the endpoint table and `inspect_endpoint_implementation`: static
  data and lookups in it.
- In `baseline_live.py`: experiments of variants v1 and v3, which skip the reference checks; the
  checks of the request bodies; `verify_traces`, which only reads.
- In `compare.py`: how `controlled_definitions` and the fingerprints of readers and reports hash syntax
  trees; they are functions of the source tree here.
- In `calibration.py`: the two evaluators that apply to every case.
- Threads that `asyncio.to_thread` leaves running after an interruption: the tools that run so only
  read.
- A power loss: what survives it without `fsync` of the directory depends on the file system. A
  history entry of an unsupported version: only this version's writer is modelled.

## Plan

Done: the loop with its refinement; recorders; provider with its function output; the tools on the
sandbox; the evaluation; store, reports, live experiment, comparison, calibration; the history; proofs
of the safety of all of these.

Left: that `LiveExperiment`'s collection implements the lock and the sessions of `BaselineStore`.
