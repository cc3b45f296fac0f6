--------------------------- MODULE BaselineReport ---------------------------
(***************************************************************************)
(* Reports on a baseline experiment (src/evaluation/baseline_report.py and *)
(* load_archived_report of baseline.py).  build_summary reads the files of *)
(* every case, one after the other and without the lock, so a command of   *)
(* BaselineStore may publish files while it reads; the report is saved     *)
(* once and has to be readable ever after, whatever is collected and       *)
(* judged later.                                                           *)
(*                                                                         *)
(* The several reads inside load_snapshot and load_bundle are one step     *)
(* each: files are published in the order started, run, execution, so what *)
(* a slower reader could see in between only makes it raise (ReportFails). *)
(* Of the rows only the parts that say whether work was done and succeeded *)
(* are kept; counts and sums are functions of them.                        *)
(***************************************************************************)
EXTENDS BaselineStore, Sequences, FiniteSetsExt

CONSTANTS
  JudgedAs,     \* [Cases -> {"success", "failure", "errors"}]: what judging a run finds
  Group,        \* [Cases -> groups \cup {None}]: the cohort key of a case's run
  PathLength,   \* [Cases -> Nat \ {0}]: the decisions and tool attempts of a case's run
  MaxReports

ASSUME ReportAssumption ==
  /\ JudgedAs \in [Cases -> {"success", "failure", "errors"}]
  /\ DOMAIN Group = Cases
  /\ PathLength \in [Cases -> Nat \ {0}]
  /\ MaxReports \in Nat

VARIABLES
  reading,   \* where build_summary is
  row,       \* what it has read of the current case
  rows,      \* its records
  quiet,     \* history: no file was published since it began
  reports    \* reports/<id>/summary.json, in the order they were saved

reader == <<reading, row, rows, quiet>>
reportvars == <<vars, reader, reports>>

NoRow == [run |-> 0]
Current == Len(rows) + 1

-----------------------------------------------------------------------------
(* build_summary *)

BeginReport ==
  /\ reading = "idle"
  /\ Len(reports) < MaxReports
  /\ reading' = "snapshot"
  /\ quiet' = TRUE
  /\ UNCHANGED <<vars, row, rows, reports>>

ReadSnapshot ==
  /\ reading = "snapshot"
  /\ SnapshotReadable(Current)
  /\ row' = [run |-> snapshot[Current]]
  /\ reading' = "bundle"
  /\ UNCHANGED <<vars, rows, quiet, reports>>

ReadBundle ==
  /\ reading = "bundle"
  /\ BundleReadable(Current)
  /\ row' = [run |-> row.run, bundle |-> "result" \in verdict[Current]]
  /\ reading' = "execution"
  /\ UNCHANGED <<vars, rows, quiet, reports>>

ExecutionState(c) ==
  IF execution[c] # None THEN execution[c].state
  ELSE IF started[c] THEN "INTERRUPTED" ELSE "NOT_STARTED"

ReadExecution ==
  /\ reading = "execution"
  /\ row' = [run |-> row.run, bundle |-> row.bundle, execution |-> ExecutionState(Current)]
  /\ reading' = "verdict"
  /\ UNCHANGED <<vars, rows, quiet, reports>>

EvaluationState(c, r) ==
  IF r.bundle THEN IF JudgedAs[c] = "errors" THEN "EVALUATOR_ERRORS" ELSE "COMPLETE"
  ELSE IF "error" \in verdict[c] THEN "ERROR"
  ELSE IF r.run = 0 THEN "NO_SNAPSHOT"
  ELSE "NOT_EVALUATED"

\* assess_success on the saved results; only a session that returned left a diagnosis.
JudgedSuccessful(c, r) ==
  r.run # 0 /\ returned[c] /\ r.bundle /\ JudgedAs[c] = "success"

Eligible_WhateverExecution(c, r) == JudgedSuccessful(c, r)

Eligible(c, r) == JudgedSuccessful(c, r) /\ r.execution = "RETURNED"

\* The record of a case, complete with evaluation/<revision>/<id>/error.json.
AddRecord ==
  /\ reading = "verdict"
  /\ rows' = Append(rows,
       [run |-> row.run, execution |-> row.execution,
        evaluation |-> EvaluationState(Current, row),
        eligible |-> Eligible(Current, row)])
  /\ row' = NoRow
  /\ reading' = IF Current < CaseCount THEN "snapshot" ELSE "save"
  /\ UNCHANGED <<vars, quiet, reports>>

\* convergence: the shortest path among the successful runs of the case's cohort,
\* which the case's own length is divided into; 0 where the ratio is absent.
Shortest(records, c) ==
  IF ~records[c].eligible \/ Group[c] = None THEN 0
  ELSE Min({PathLength[d] : d \in {d \in Cases : /\ records[d].eligible
                                                 /\ Group[d] = Group[c]}})

SaveReport ==
  /\ reading = "save"
  /\ reports' = Append(reports,
       [rows |-> rows, quiet |-> quiet,
        shortest |-> [c \in Cases |-> Shortest(rows, c)]])
  /\ reading' = "idle"
  /\ rows' = <<>>
  /\ UNCHANGED <<vars, row, quiet>>

\* BaselineError, a failed write or a kill: nothing is saved.
ReportFails ==
  /\ reading # "idle"
  /\ reading' = "idle"
  /\ row' = NoRow
  /\ rows' = <<>>
  /\ UNCHANGED <<vars, quiet, reports>>

ReportStep ==
  \/ BeginReport \/ ReadSnapshot \/ ReadBundle \/ ReadExecution \/ AddRecord
  \/ SaveReport \/ ReportFails

\* A command of the store goes on meanwhile.
StoreStep ==
  /\ Next
  /\ quiet' = (quiet /\ UNCHANGED files)
  /\ UNCHANGED <<reading, row, rows, reports>>

ReportInit ==
  /\ Init
  /\ reading = "idle"
  /\ row = NoRow
  /\ rows = <<>>
  /\ quiet = TRUE
  /\ reports = <<>>

ReportSpec == ReportInit /\ [][ReportStep \/ StoreStep]_reportvars

-----------------------------------------------------------------------------
(* load_archived_report *)

Evaluated == {"COMPLETE", "EVALUATOR_ERRORS"}

RowArchived_PendingOnly(c, r) ==
  /\ r.run # 0 => r.run = snapshot[c]
  /\ ("result" \in verdict[c]) <=> (r.evaluation \in Evaluated)
  /\ r.evaluation \in Evaluated => r.run # 0

\* What it asks of the record of a case: the run it names is the saved one, and a
\* judged record has its bundle and that bundle's metrics, which are those of the run.
RowArchived(c, r) ==
  /\ SnapshotReadable(c) /\ BundleReadable(c)
  /\ r.run # 0 => r.run = snapshot[c]
  /\ r.evaluation \in Evaluated => "result" \in verdict[c] /\ r.run # 0

Archived(report) == \A c \in Cases : RowArchived(c, report.rows[c])

-----------------------------------------------------------------------------
(* Properties *)

Saved == {reports[i] : i \in 1..Len(reports)}

\* "A saved report retains its original missing/pending data even if collection or
\* evaluation later appends more results" (BASELINE.md 115-116): a report that was
\* built while no file was published can be read back for good.
QuietReportsStayReadable == \A report \in Saved : report.quiet => Archived(report)

\* "Only executions with a committed RETURNED outcome contribute to experiment success":
\* what a report counts as a success, even one pieced together while commands were at
\* work, is a session that returned, is committed as such and was judged on that run.
SuccessesCommitted ==
  \A report \in Saved : \A c \in Cases :
    report.rows[c].eligible =>
      /\ execution[c] # None
      /\ execution[c] = [state |-> "RETURNED", snapshot |-> report.rows[c].run]
      /\ judging[c] = report.rows[c].run
      /\ "result" \in verdict[c]

\* Reports never go back on one another: a success stays one, a case with an execution
\* on record and its judgment in keeps both, and a convergence ratio only ever shrinks,
\* as more successes join its cohort.
LaterReportsAgree ==
  \A i, j \in 1..Len(reports) : i < j =>
    \A c \in Cases :
      LET old == reports[i].rows[c]
          new == reports[j].rows[c]
      IN  /\ old.eligible => new.eligible
          /\ old.evaluation \in Evaluated \cup {"ERROR"} => new.evaluation = old.evaluation
          /\ old.execution \in {"RETURNED", "EXCEPTION", "SETUP_ERROR"} =>
               new.execution = old.execution
          /\ reports[i].shortest[c] # 0 =>
               reports[j].shortest[c] \in 1..reports[i].shortest[c]
=============================================================================
