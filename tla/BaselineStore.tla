--------------------------- MODULE BaselineStore ---------------------------
(***************************************************************************)
(* A baseline experiment on disk (src/evaluation/baseline.py): the commands *)
(* that collect the agent's runs and judge the saved ones, which may be    *)
(* killed, cancelled or repeated at will and must never pay for the same   *)
(* work twice.                                                             *)
(*                                                                         *)
(* write_private links a finished file into place, so a file is either     *)
(* absent or complete and one action writes one file.  One manifest, one   *)
(* judge and one evaluation revision; source, dataset and runtime do not   *)
(* change, so what is left of the checks on reading is the agreement of    *)
(* the files of one case.  A run is denoted by the number of its session   *)
(* (0: no file), which stands for its digest and its ids.                  *)
(***************************************************************************)
EXTENDS Naturals

CONSTANTS
  Processes,    \* the command invocations that may be alive at the same time
  CaseCount,    \* cases of the dataset, run in order
  None,
  MaxFailures   \* bound on kills and failed writes, for the liveness property

ASSUME BaselineAssumption ==
  /\ CaseCount \in Nat \ {0}
  /\ MaxFailures \in Nat

Cases == 1..CaseCount

VARIABLES
  lock,       \* .lock exists
  started,    \* cases/<id>/started.json exists
  snapshot,   \* cases/<id>/run.json
  execution,  \* cases/<id>/execution.json
  judging,    \* evaluations/<revision>/<id>/started.json: the run it names
  verdict,    \* result.json and error.json there
  at,         \* where each process is
  case,       \* its case
  outcome,    \* its locals state and snapshot
  failures,
  sessions,   \* history: agent sessions paid for, by case
  judgments,  \* history: evaluations paid for, by case
  returned    \* history: whether the session of a case returned

files == <<started, snapshot, execution, judging, verdict>>
history == <<sessions, judgments, returned>>
vars == <<lock, files, at, case, outcome, failures, history>>

Init ==
  /\ lock = FALSE
  /\ started = [c \in Cases |-> FALSE]
  /\ snapshot = [c \in Cases |-> 0]
  /\ execution = [c \in Cases |-> None]
  /\ judging = [c \in Cases |-> 0]
  /\ verdict = [c \in Cases |-> {}]
  /\ at = [p \in Processes |-> "idle"]
  /\ case = [p \in Processes |-> 1]
  /\ outcome = [p \in Processes |-> None]
  /\ failures = 0
  /\ sessions = [c \in Cases |-> 0]
  /\ judgments = [c \in Cases |-> 0]
  /\ returned = [c \in Cases |-> FALSE]

-----------------------------------------------------------------------------
(* Reading a case.  A command stops with BaselineError when it finds files that  *)
(* disagree; AlwaysReadable says that its own kind never leaves any.            *)

\* _read_snapshot raises no error.
SnapshotReadable(c) ==
  /\ (snapshot[c] # 0 \/ execution[c] # None) => started[c]
  /\ execution[c] # None =>
       /\ execution[c].snapshot = snapshot[c]
       /\ execution[c].state = "RETURNED" => snapshot[c] # 0

\* _read_bundle raises no error.
BundleReadable(c) ==
  (judging[c] # 0 \/ verdict[c] # {}) =>
    /\ SnapshotReadable(c)
    /\ snapshot[c] # 0
    /\ judging[c] = snapshot[c]

-----------------------------------------------------------------------------
(* Control *)

Moves(p, from, to) == at[p] = from /\ at' = [at EXCEPT ![p] = to]

Acquire_OverLock(p, to) ==
  /\ Moves(p, "idle", to)
  /\ lock' = TRUE
  /\ case' = [case EXCEPT ![p] = 1]
  /\ UNCHANGED <<files, outcome, failures, history>>

\* A command that finds .lock raises EXPERIMENT_LOCKED and changes nothing.
Acquire(p, to) ==
  /\ Moves(p, "idle", to)
  /\ ~lock
  /\ lock' = TRUE
  /\ case' = [case EXCEPT ![p] = 1]
  /\ UNCHANGED <<files, outcome, failures, history>>

\* Leaving `with experiment_lock`, normally or with an exception.
Release(p) ==
  /\ at' = [at EXCEPT ![p] = "idle"]
  /\ lock' = FALSE
  /\ UNCHANGED case

\* The end of an iteration of `for case in cases()`.
NextCase(p, loop) ==
  IF case[p] < CaseCount
  THEN /\ at' = [at EXCEPT ![p] = loop]
       /\ case' = [case EXCEPT ![p] = @ + 1]
       /\ UNCHANGED lock
  ELSE Release(p)

-----------------------------------------------------------------------------
(* collect_runs *)

Collect(p) == Acquire(p, "collect")

SkipExecuted(p) ==
  /\ at[p] = "collect"
  /\ execution[case[p]] # None
  /\ SnapshotReadable(case[p])
  /\ NextCase(p, "collect")
  /\ UNCHANGED <<files, outcome, failures, history>>

MarkInterrupted_WithoutSnapshot(p) ==
  /\ at[p] = "collect"
  /\ execution[case[p]] = None
  /\ started[case[p]]
  /\ SnapshotReadable(case[p])
  /\ execution' = [execution EXCEPT ![case[p]] = [state |-> "INTERRUPTED", snapshot |-> 0]]
  /\ NextCase(p, "collect")
  /\ UNCHANGED <<started, snapshot, judging, verdict, outcome, failures, history>>

MarkInterrupted_Overwriting(p) ==
  /\ at[p] = "collect"
  /\ started[case[p]]
  /\ SnapshotReadable(case[p])
  /\ execution' = [execution EXCEPT ![case[p]] =
                     [state |-> "INTERRUPTED", snapshot |-> snapshot[case[p]]]]
  /\ NextCase(p, "collect")
  /\ UNCHANGED <<started, snapshot, judging, verdict, outcome, failures, history>>

MarkInterrupted_LeftOpen(p) ==
  /\ at[p] = "collect"
  /\ execution[case[p]] = None
  /\ started[case[p]]
  /\ SnapshotReadable(case[p])
  /\ NextCase(p, "collect")
  /\ UNCHANGED <<files, outcome, failures, history>>

MarkInterrupted(p) ==
  /\ at[p] = "collect"
  /\ execution[case[p]] = None
  /\ started[case[p]]
  /\ SnapshotReadable(case[p])
  /\ execution' = [execution EXCEPT ![case[p]] =
                     [state |-> "INTERRUPTED", snapshot |-> snapshot[case[p]]]]
  /\ NextCase(p, "collect")
  /\ UNCHANGED <<started, snapshot, judging, verdict, outcome, failures, history>>

StartCase_Again(p) ==
  /\ Moves(p, "collect", "setup")
  /\ execution[case[p]] = None
  /\ started' = [started EXCEPT ![case[p]] = TRUE]
  /\ UNCHANGED <<lock, snapshot, execution, judging, verdict, case, outcome, failures,
                 history>>

StartCase(p) ==
  /\ Moves(p, "collect", "setup")
  /\ execution[case[p]] = None
  /\ ~started[case[p]]
  /\ started' = [started EXCEPT ![case[p]] = TRUE]
  /\ UNCHANGED <<lock, snapshot, execution, judging, verdict, case, outcome, failures,
                 history>>

Outcome(p, state, run) == outcome' = [outcome EXCEPT ![p] = [state |-> state, run |-> run]]

\* The fixture or a set-up request fails, or the command is cancelled meanwhile.
SetUpFails(p) ==
  /\ Moves(p, "setup", "publish")
  /\ \E state \in {"SETUP_ERROR", "INTERRUPTED"} : Outcome(p, state, 0)
  /\ UNCHANGED <<lock, files, case, failures, history>>

\* run_debug_session is called: model requests are paid for from here on.
RunSession(p) ==
  /\ Moves(p, "setup", "running")
  /\ sessions' = [sessions EXCEPT ![case[p]] = @ + 1]
  /\ UNCHANGED <<lock, files, case, outcome, failures, judgments, returned>>

SessionReturns(p) ==
  /\ Moves(p, "running", "publish")
  /\ Outcome(p, "RETURNED", sessions[case[p]])
  /\ returned' = [returned EXCEPT ![case[p]] = TRUE]
  /\ UNCHANGED <<lock, files, case, failures, sessions, judgments>>

\* The recorder has a run unless the provider's factory failed.
SessionFails(p) ==
  /\ Moves(p, "running", "publish")
  /\ \E state \in {"EXCEPTION", "INTERRUPTED"}, run \in {0, sessions[case[p]]} :
       Outcome(p, state, run)
  /\ UNCHANGED <<lock, files, case, failures, history>>

PublishSnapshot(p) ==
  /\ Moves(p, "publish", "record")
  /\ IF outcome[p].run = 0
     THEN UNCHANGED snapshot
     ELSE snapshot' = [snapshot EXCEPT ![case[p]] = outcome[p].run]
  /\ UNCHANGED <<lock, started, execution, judging, verdict, case, outcome, failures,
                 history>>

\* A cancelled command stops here; its case is not tried again.
RecordExecution(p) ==
  /\ at[p] = "record"
  /\ execution' = [execution EXCEPT ![case[p]] =
                     [state |-> outcome[p].state, snapshot |-> outcome[p].run]]
  /\ IF outcome[p].state = "INTERRUPTED" THEN Release(p) ELSE NextCase(p, "collect")
  /\ outcome' = [outcome EXCEPT ![p] = None]
  /\ UNCHANGED <<started, snapshot, judging, verdict, failures, history>>

-----------------------------------------------------------------------------
(* evaluate_saved *)

Evaluate(p) == Acquire(p, "evaluate")

SkipJudged(p) ==
  /\ at[p] = "evaluate"
  /\ BundleReadable(case[p])
  /\ verdict[case[p]] # {}
  /\ NextCase(p, "evaluate")
  /\ UNCHANGED <<files, outcome, failures, history>>

MarkJudgmentInterrupted(p) ==
  /\ at[p] = "evaluate"
  /\ BundleReadable(case[p])
  /\ verdict[case[p]] = {}
  /\ judging[case[p]] # 0
  /\ verdict' = [verdict EXCEPT ![case[p]] = @ \cup {"error"}]
  /\ NextCase(p, "evaluate")
  /\ UNCHANGED <<started, snapshot, execution, judging, outcome, failures, history>>

\* A case without a snapshot gets no file, and is judged once it has one.
SkipUnrecorded(p) ==
  /\ at[p] = "evaluate"
  /\ verdict[case[p]] = {}
  /\ judging[case[p]] = 0
  /\ SnapshotReadable(case[p])
  /\ snapshot[case[p]] = 0
  /\ NextCase(p, "evaluate")
  /\ UNCHANGED <<files, outcome, failures, history>>

StartJudging(p) ==
  /\ Moves(p, "evaluate", "judging")
  /\ verdict[case[p]] = {}
  /\ judging[case[p]] = 0
  /\ SnapshotReadable(case[p])
  /\ snapshot[case[p]] # 0
  /\ judging' = [judging EXCEPT ![case[p]] = snapshot[case[p]]]
  /\ judgments' = [judgments EXCEPT ![case[p]] = @ + 1]
  /\ UNCHANGED <<lock, started, snapshot, execution, verdict, case, outcome, failures,
                 sessions, returned>>

JudgmentEnds(p) ==
  /\ at[p] = "judging"
  /\ \E file \in {"result", "error"} :
       verdict' = [verdict EXCEPT ![case[p]] = @ \cup {file}]
  /\ NextCase(p, "evaluate")
  /\ UNCHANGED <<started, snapshot, execution, judging, outcome, failures, history>>

JudgmentCancelled(p) ==
  /\ at[p] = "judging"
  /\ verdict' = [verdict EXCEPT ![case[p]] = @ \cup {"error"}]
  /\ Release(p)
  /\ UNCHANGED <<started, snapshot, execution, judging, outcome, failures, history>>

-----------------------------------------------------------------------------
(* Failures *)

Fails(p) ==
  /\ at[p] # "idle"
  /\ failures < MaxFailures
  /\ failures' = failures + 1
  /\ at' = [at EXCEPT ![p] = "idle"]
  /\ outcome' = [outcome EXCEPT ![p] = None]
  /\ UNCHANGED <<files, case, history>>

\* Killed: nothing is cleaned up.
Killed(p) == Fails(p) /\ UNCHANGED lock

\* A write raises (no space, no permission) and the command ends.
WriteFails(p) == Fails(p) /\ at[p] \notin {"setup", "running"} /\ lock' = FALSE

\* "Verify it has stopped before manually removing its stale lock" (BASELINE.md).
ClearStaleLock ==
  /\ lock
  /\ \A p \in Processes : at[p] = "idle"
  /\ lock' = FALSE
  /\ UNCHANGED <<files, at, case, outcome, failures, history>>

Proceed(p) ==
  \/ SkipExecuted(p) \/ MarkInterrupted(p) \/ StartCase(p)
  \/ SetUpFails(p) \/ RunSession(p) \/ SessionReturns(p) \/ SessionFails(p)
  \/ PublishSnapshot(p) \/ RecordExecution(p)
  \/ SkipJudged(p) \/ MarkJudgmentInterrupted(p) \/ SkipUnrecorded(p)
  \/ StartJudging(p) \/ JudgmentEnds(p) \/ JudgmentCancelled(p)

Next ==
  \/ \E p \in Processes :
       Collect(p) \/ Evaluate(p) \/ Proceed(p) \/ Killed(p) \/ WriteFails(p)
  \/ ClearStaleLock

\* A live command goes on (its sessions end: AgentLoop).  The operator keeps repeating
\* the collection, whatever evaluations run in between, and clears a stale lock.
Fairness ==
  /\ \A p \in Processes : WF_vars(Proceed(p))
  /\ SF_vars(\E p \in Processes : Collect(p))
  /\ WF_vars(ClearStaleLock)

Spec == Init /\ [][Next]_vars /\ Fairness

-----------------------------------------------------------------------------
(* Properties *)

Live(p) == at[p] # "idle"

\* "An exclusive .lock prevents concurrent writers": a command that is at work has the
\* lock, and no other is at work.
OneWriter ==
  /\ \A p, q \in Processes : Live(p) /\ Live(q) => p = q
  /\ \A p \in Processes : Live(p) => lock

\* "It never automatically repeats potentially paid work": however often the commands are
\* killed, cancelled and repeated, a case's session is started at most once and its
\* saved run is judged at most once.
NothingPaidTwice == \A c \in Cases : sessions[c] <= 1 /\ judgments[c] <= 1

\* Wherever a command stopped, what it left can be read, so the next one can resume;
\* BaselineError is for files somebody else changed.
AlwaysReadable == \A c \in Cases : SnapshotReadable(c) /\ BundleReadable(c)

\* Repeating the collection closes every case, after any finite number of failures and
\* in spite of cancellations and evaluations in between: no file left behind and no lock
\* stops it for good.
EveryCaseCloses == <>(\A c \in Cases : execution[c] # None)
=============================================================================
