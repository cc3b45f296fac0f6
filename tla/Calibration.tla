---------------------------- MODULE Calibration ----------------------------
(***************************************************************************)
(* The calibration of the judges (src/evaluation/calibration.py): the      *)
(* commands collect, rejudge, compare and finalize on one directory, and   *)
(* the human who labels the cases and reviews the disagreements between    *)
(* two commands.                                                           *)
(*                                                                         *)
(* Commands may overlap and be killed anywhere.  Unlike the baseline's,    *)
(* these files are written in place: a command killed while it saves one   *)
(* leaves it unfinished, and its name taken for good.                      *)
(*                                                                         *)
(* Of the three evaluators root_cause is kept, the only one that does not  *)
(* apply to every case.  A judgment may differ from pass to pass.          *)
(***************************************************************************)
EXTENDS Naturals, Sequences

CONSTANTS
  Processes,        \* the commands there may be at a time
  CalibrationSize,  \* how many cases the calibration has, six in the code
  Bugs,             \* those of kind BUG
  Files,            \* names given to --results
  Default,          \*   and judge-results.json
  Absent,           \* an absent file, a null label
  Unfinished        \* a file whose writer was killed

CalibrationCases == 1..CalibrationSize
HumanLabels == {"CORRECT", "INCORRECT", "NOT_APPLICABLE"}

ASSUME CalibrationAssumption ==
  /\ CalibrationSize \in Nat \ {0}
  /\ Bugs \subseteq CalibrationCases
  /\ Default \in Files
  /\ Absent # Unfinished /\ Absent # TRUE /\ Absent \notin HumanLabels
  /\ {Absent, Unfinished} \cap [CalibrationCases -> HumanLabels \cup {Absent}] = {}

VARIABLES
  directory,  \* whether it exists
  runs,       \* its files: the snapshot of each case (TRUE, Absent or Unfinished),
  labels,     \*   human-labels.json,
  results,    \*   each results file, a judgment per case
  review,     \*   and review.json: the cases resolved
  command,    \* what each process is doing
  revealed,   \* history: a comparison has been printed
  closed      \* history: the first completed calibration, with what it read

written == <<directory, runs, labels, results, review>>
calvars == <<written, command, revealed, closed>>

Idle == [doing |-> "idle", results |-> Default, judged |-> <<>>]

CalInit ==
  /\ directory = FALSE
  /\ runs = [c \in CalibrationCases |-> Absent]
  /\ labels = Absent
  /\ results = [f \in Files |-> Absent]
  /\ review = Absent
  /\ command = [p \in Processes |-> Idle]
  /\ revealed = FALSE
  /\ closed = Absent

Becomes(p, state) == command' = [command EXCEPT ![p] = state]

-----------------------------------------------------------------------------
(* collect and rejudge *)

\* mkdir refuses a directory that exists.
StartCollection(p) ==
  /\ command[p] = Idle
  /\ ~directory
  /\ directory' = TRUE
  /\ Becomes(p, [Idle EXCEPT !.doing = "collecting"])
  /\ UNCHANGED <<runs, labels, results, review, revealed, closed>>

\* The next session returns and its snapshot is saved, or half of it.
SaveRun(p) ==
  /\ command[p].doing = "collecting"
  /\ \E c \in CalibrationCases :
       /\ runs[c] = Absent
       /\ \A d \in 1..(c - 1) : runs[d] = TRUE
       /\ \/ runs' = [runs EXCEPT ![c] = TRUE] /\ UNCHANGED command
          \/ runs' = [runs EXCEPT ![c] = Unfinished] /\ Becomes(p, Idle)
  /\ UNCHANGED <<directory, labels, results, review, revealed, closed>>

\* human-labels.json is prepared, or half of it, and judging begins.
PrepareLabels(p) ==
  /\ command[p].doing = "collecting"
  /\ \A c \in CalibrationCases : runs[c] = TRUE
  /\ labels = Absent
  /\ \/ /\ labels' = [c \in CalibrationCases |-> Absent]
        /\ Becomes(p, [Idle EXCEPT !.doing = "judging"])
     \/ labels' = Unfinished /\ Becomes(p, Idle)
  /\ UNCHANGED <<directory, runs, results, review, revealed, closed>>

\* load_calibration_runs stops unless it can read every snapshot.
Rejudge(p) ==
  /\ command[p] = Idle
  /\ \A c \in CalibrationCases : runs[c] = TRUE
  /\ \E f \in Files : Becomes(p, [Idle EXCEPT !.doing = "judging", !.results = f])
  /\ UNCHANGED <<written, revealed, closed>>

\* evaluate_root_cause: code alone decides where there is no bug to name.
Judgments(c) ==
  IF c \in Bugs THEN {"CORRECT", "INCORRECT", "EVALUATOR_ERROR"}
  ELSE {"NOT_APPLICABLE", "INCORRECT"}

JudgeRun(p) ==
  /\ command[p].doing = "judging"
  /\ Len(command[p].judged) < CalibrationSize
  /\ \E j \in Judgments(Len(command[p].judged) + 1) :
       Becomes(p, [command[p] EXCEPT !.judged = Append(@, j)])
  /\ UNCHANGED <<written, revealed, closed>>

SaveResults_Overwriting(p) ==
  LET f == command[p].results
  IN  /\ command[p].doing = "judging"
      /\ Len(command[p].judged) = CalibrationSize
      /\ \/ results' = [results EXCEPT ![f] = command[p].judged]
         \/ results' = [results EXCEPT ![f] = Unfinished]
      /\ Becomes(p, Idle)
      /\ UNCHANGED <<directory, runs, labels, review, revealed, closed>>

\* The results are saved, or half of them, under a name nobody has taken meanwhile.
SaveResults(p) ==
  LET f == command[p].results
  IN  /\ command[p].doing = "judging"
      /\ Len(command[p].judged) = CalibrationSize
      /\ results[f] = Absent
      /\ \/ results' = [results EXCEPT ![f] = command[p].judged]
         \/ results' = [results EXCEPT ![f] = Unfinished]
      /\ Becomes(p, Idle)
      /\ UNCHANGED <<directory, runs, labels, review, revealed, closed>>

\* A session or a write raises, or the process is killed between two files.
Abandon(p) ==
  /\ command[p] # Idle
  /\ Becomes(p, Idle)
  /\ UNCHANGED <<written, revealed, closed>>

-----------------------------------------------------------------------------
(* The human, working on what the collection prepared *)

Label ==
  /\ labels \notin {Absent, Unfinished}
  /\ \E c \in CalibrationCases, label \in HumanLabels :
       labels[c] # label /\ labels' = [labels EXCEPT ![c] = label]
  /\ UNCHANGED <<directory, runs, results, review, command, revealed, closed>>

\* Any review, also one kept from an earlier comparison.
Review ==
  /\ revealed
  /\ review' \in (SUBSET CalibrationCases) \ {review}
  /\ UNCHANGED <<directory, runs, labels, results, command, revealed, closed>>

-----------------------------------------------------------------------------
(* compare and finalize *)

\* compare_labels: what it accepts as a file of labels for results that can be read.
Labelled ==
  /\ labels \notin {Absent, Unfinished}
  /\ \A c \in CalibrationCases : labels[c] # Absent
  /\ \A c \in CalibrationCases : labels[c] = "NOT_APPLICABLE" => c \notin Bugs
  /\ \A c \in CalibrationCases \ Bugs : labels[c] \in {"NOT_APPLICABLE", "INCORRECT"}

\* `agreement`: null where the judge failed.
Agreement(f) ==
  [c \in CalibrationCases |->
     IF results[f][c] = "EVALUATOR_ERROR" THEN Absent
     ELSE IF results[f][c] = labels[c] THEN "yes" ELSE "no"]

Compare(f) ==
  /\ results[f] \notin {Absent, Unfinished}
  /\ Labelled
  /\ revealed' = TRUE
  /\ UNCHANGED <<written, command, closed>>

Finalize_DisagreementsOnly(f) ==
  /\ results[f] \notin {Absent, Unfinished}
  /\ Labelled
  /\ review = {c \in CalibrationCases : Agreement(f)[c] = "no"}
  /\ revealed' = TRUE
  /\ closed' = IF closed = Absent
               THEN [results |-> f, judged |-> results[f], labels |-> labels,
                     resolved |-> review]
               ELSE closed
  /\ UNCHANGED <<written, command>>

\* finalize_review, on the comparison made anew from the files.
Finalize(f) ==
  /\ results[f] \notin {Absent, Unfinished}
  /\ Labelled
  /\ review = {c \in CalibrationCases : Agreement(f)[c] # "yes"}
  /\ \A c \in CalibrationCases : Agreement(f)[c] # Absent
  /\ revealed' = TRUE
  /\ closed' = IF closed = Absent
               THEN [results |-> f, judged |-> results[f], labels |-> labels,
                     resolved |-> review]
               ELSE closed
  /\ UNCHANGED <<written, command>>

CalNext ==
  \/ \E p \in Processes :
       \/ StartCollection(p) \/ SaveRun(p) \/ PrepareLabels(p)
       \/ Rejudge(p) \/ JudgeRun(p) \/ SaveResults(p) \/ Abandon(p)
  \/ Label
  \/ Review
  \/ \E f \in Files : Compare(f) \/ Finalize(f)

CalSpec == CalInit /\ [][CalNext]_calvars

-----------------------------------------------------------------------------
(* Properties *)

\* A completed calibration is earned, whatever was killed, judged again or reviewed
\* before: it rests on a snapshot of every case, a judgment and a human label of each,
\* and a review that settles exactly the cases in which they differ, no judge's failure
\* passing for either; the judgments it printed are those of one pass, on disk ever
\* after; and no judge's label was shown before the human had labelled every case
\* (calibration.py 79, 204, 251, 259; evaluation/README.md 142-153).
CalibrationEarned ==
  /\ closed # Absent =>
       /\ \A c \in CalibrationCases :
            /\ runs[c] = TRUE
            /\ closed.labels[c] # Absent
            /\ closed.judged[c] # "EVALUATOR_ERROR"
            /\ c \in closed.resolved <=> closed.labels[c] # closed.judged[c]
       /\ results[closed.results] = closed.judged
  /\ revealed => \A c \in CalibrationCases : labels[c] # Absent
=============================================================================
