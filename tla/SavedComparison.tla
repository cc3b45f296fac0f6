-------------------------- MODULE SavedComparison --------------------------
(***************************************************************************)
(* What compare_saved (src/evaluation/compare.py) makes of two comparable  *)
(* reports: an outcome per case, the change in strict successes and the    *)
(* changes of the measurements.  The reports are those build_summary and   *)
(* aggregate_records (baseline_report.py) saved, with cases in any state:  *)
(* never started, interrupted, failed, not judged, judged with errors.     *)
(*                                                                         *)
(* The loop over the cases is a step per case, and the rows it meets are   *)
(* not kept, only their aggregates as each report has them.  One numeric   *)
(* measurement stands for all of them; the labels of a row are those of    *)
(* grounding, the judgment every success needs.                            *)
(***************************************************************************)
EXTENDS Integers, FiniteSets

CONSTANTS
  CaseCount,
  Amounts,    \* values a measurement may have when it was observed
  Null        \* a null

\* Why a run is a success or none.
Reasons ==
  {"EXECUTION_NOT_RETURNED", "FINAL_STATUS_MISMATCH", "GROUNDING_UNDETERMINED",
   "GROUNDING_NOT_SUCCESSFUL", "SUCCESSFUL"}

ASSUME ComparisonAssumption ==
  /\ CaseCount \in Nat \ {0}
  /\ Amounts \subseteq Int
  /\ Null \notin Int \cup Reasons

VARIABLES
  compared,   \* the cases of the zip met so far
  successful, \* per report, its successful_runs
  total,      \* per report, total_all_cases of the measurement
  outcomes,   \* outcome_changes, with 0 for what is absent
  deltas,     \* history: the sum of the cases' own measurement_deltas, null once one is
  settled     \* history: the cases both sides of which had their say in full

cvars == <<compared, successful, total, outcomes, deltas, settled>>

Sides == {"v1", "v2"}
Outcomes == {"IMPROVED", "REGRESSED", "UNCHANGED", "CHANGED", "UNDETERMINED"}

-----------------------------------------------------------------------------
(* The rows build_summary can save of a case *)

\* What happened: a session that returned left a run with a diagnosis, a judgment
\* needs a run, and only a judgment gives a label or an error.
Happened ==
  {h \in [execution : {"RETURNED", "EXCEPTION", "INTERRUPTED", "NOT_STARTED"},
          run : BOOLEAN,
          status : {"expected", "other", Null},
          judged : {"no", "errors", "complete"},
          label : {"GROUNDED", "UNGROUNDED", Null},
          amount : Amounts \cup {Null}] :
     /\ h.execution = "RETURNED" => h.run /\ h.status # Null
     /\ h.execution = "NOT_STARTED" => ~h.run
     /\ ~h.run => h.status = Null /\ h.judged = "no" /\ h.amount = Null
     /\ h.judged = "no" => h.label = Null}

\* assess_success; a run that is not committed as RETURNED is no success.
Reason(h) ==
  IF h.execution # "RETURNED" THEN "EXECUTION_NOT_RETURNED"
  ELSE IF h.status # "expected" THEN "FINAL_STATUS_MISMATCH"
  ELSE IF h.label = Null THEN "GROUNDING_UNDETERMINED"
  ELSE IF h.label = "UNGROUNDED" THEN "GROUNDING_NOT_SUCCESSFUL"
  ELSE "SUCCESSFUL"

EvaluationState(h) ==
  CASE h.judged = "complete" -> "COMPLETE"
    [] h.judged = "errors" -> "EVALUATOR_ERRORS"
    [] h.judged = "no" -> IF h.run THEN "NOT_EVALUATED" ELSE "NO_SNAPSHOT"

RowOf(h) ==
  [execution |-> h.execution,
   evaluation |-> EvaluationState(h),
   missing_units |-> h.judged = "no",
   status |-> h.status,
   reason |-> IF h.run THEN Reason(h) ELSE Null,
   label |-> h.label,
   amount |-> h.amount]

Eligible(r) == r.reason = "SUCCESSFUL"

-----------------------------------------------------------------------------
(* compare_saved *)

Delta_NullIsZero(left, right) ==
  (IF right = Null THEN 0 ELSE right) - (IF left = Null THEN 0 ELSE left)

Delta(left, right) == IF Null \in {left, right} THEN Null ELSE right - left

Determined_Returned(r) == r.execution = "RETURNED"

Determined(r) ==
  /\ r.execution = "RETURNED"
  /\ r.evaluation = "COMPLETE"
  /\ ~r.missing_units
  /\ r.reason \notin {Null, "GROUNDING_UNDETERMINED"}

Outcome(a, b) ==
  IF ~(Determined(a) /\ Determined(b)) THEN "UNDETERMINED"
  ELSE IF Eligible(a) # Eligible(b) THEN IF Eligible(b) THEN "IMPROVED" ELSE "REGRESSED"
  ELSE IF a.status = b.status /\ a.reason = b.reason /\ a.label = b.label
       THEN "UNCHANGED"
       ELSE "CHANGED"

\* sum(observed) if nothing is missing
Add(sum, amount) == IF Null \in {sum, amount} THEN Null ELSE sum + amount

CInit ==
  /\ compared = 0
  /\ successful = [s \in Sides |-> 0]
  /\ total = [s \in Sides |-> 0]
  /\ outcomes = [o \in Outcomes |-> 0]
  /\ deltas = 0
  /\ settled = 0

\* The session returned and was judged without a failure, or needed no judgment to be
\* told a failure.
Settled(h) ==
  /\ h.execution = "RETURNED"
  /\ h.judged = "complete"
  /\ h.status = "expected" => h.label # Null

CompareCase(h, k) ==
  /\ compared < CaseCount
  /\ compared' = compared + 1
  /\ LET row == [s \in Sides |-> IF s = "v1" THEN RowOf(h) ELSE RowOf(k)]
     IN  /\ successful' =
              [s \in Sides |-> successful[s] + IF Eligible(row[s]) THEN 1 ELSE 0]
         /\ total' = [s \in Sides |-> Add(total[s], row[s].amount)]
         /\ outcomes' = [outcomes EXCEPT ![Outcome(row["v1"], row["v2"])] = @ + 1]
         /\ deltas' = Add(deltas, Delta(row["v1"].amount, row["v2"].amount))
  /\ settled' = settled + IF Settled(h) /\ Settled(k) THEN 1 ELSE 0

\* The comparison is printed.
Done == compared = CaseCount /\ UNCHANGED cvars

CNext == (\E h, k \in Happened : CompareCase(h, k)) \/ Done

CSpec == CInit /\ [][CNext]_cvars

StrictSuccessDelta ==
  IF outcomes["UNDETERMINED"] = 0 THEN successful["v2"] - successful["v1"] ELSE Null

MeasurementDelta == Delta(total["v1"], total["v2"])

-----------------------------------------------------------------------------
(* Properties *)

\* The totals say what the cases say and no more, whatever was interrupted, failed or
\* went unjudged on either side: a case counts as improved, regressed or the same
\* exactly when both its sides were settled; the change in strict successes is that of
\* the cases reported as improved or regressed; and a measurement changes by the sum of
\* its cases' changes, or by null when a case lacks it on a side, never by what zeros
\* in the gaps would give (BASELINE.md 332-334).
ComparisonHonest ==
  /\ outcomes["UNDETERMINED"] = compared - settled
  /\ StrictSuccessDelta \in {Null, outcomes["IMPROVED"] - outcomes["REGRESSED"]}
  /\ MeasurementDelta = deltas
=============================================================================
