-------------------------- MODULE ExperimentProofs --------------------------
(***************************************************************************)
(* What is paid for and what is compared, for any number of commands and   *)
(* cases and any history of edits, upgrades and borrowed files: the files  *)
(* of an experiment are written once each, so that what a command has      *)
(* checked against all four of them stays true for ever.                   *)
(*                                                                         *)
(* And the totals of a comparison are honest whatever the number of cases  *)
(* and whatever happened to each.  ComparisonHonest becomes inductive once *)
(* it is said of the cases met so far: what one more pair of rows adds to  *)
(* each total is what it adds to the count it is compared with.            *)
(*                                                                         *)
(* A completed calibration is earned whatever the number of cases, of      *)
(* results files and of overlapping commands.  The invariant traces it     *)
(* back: who judges has every snapshot, so a results file that can be read *)
(* comes with all of them; a comparison was made on labels that only the   *)
(* human changes, and never back to null.                                  *)
(***************************************************************************)
EXTENDS LiveExperiment, SavedComparison, Calibration, TLAPS

-----------------------------------------------------------------------------
(* An experiment *)

Places ==
  {"idle", "checked", "initialized", "bound", "verified", "described",
   "approved", "paid", "collecting"}

ExperimentTypes ==
  /\ at \in [Commands -> Places]
  /\ local = [p \in Commands |-> local[p]]
  /\ session = [c \in Cases |-> session[c]]

\* What a source, packages and a V1 report have to do with the experiment's files for a
\* session that runs as r to be paid for.
Approves(r) ==
  /\ manifest # None /\ comparison # None /\ phoenix # None /\ preflight # None
  /\ manifest.source = r.source
  /\ manifest.runtime = r.runtime
  /\ phoenix = This
  /\ preflight.experiment = This
  /\ preflight.source = manifest.source
  /\ preflight.comparison = comparison
  /\ comparison.report = r.report
  /\ Comparable(manifest)

LiveInv ==
  /\ ExperimentTypes
  /\ \A p \in Commands :
       at[p] \in {"approved", "paid", "collecting"} => Approves(local[p])
  /\ \A c \in Cases : session[c] # None => Approves(session[c])
  /\ summary # None => \A c \in summary : c \in Cases /\ session[c] # None

-----------------------------------------------------------------------------
(* The files *)

LEMMA FilesAreFinal ==
  ASSUME NEW r, Approves(r), [Next]_vars
  PROVE  UNCHANGED files
<1>1. manifest # None /\ comparison # None /\ phoenix # None /\ preflight # None
  BY DEF Approves
<1>2. CASE UNCHANGED vars BY <1>2 DEF vars, files
<1>3. ASSUME NEW p \in Commands, Preflight(p) PROVE UNCHANGED files
  BY <1>1, <1>3 DEF Preflight, CheckReference, Initialize, WriteComparison, VerifyExport,
                    WritePhoenix, WritePreflight, files
<1>4. ASSUME NEW p \in Commands, RunLive(p) PROVE UNCHANGED files
  BY <1>4 DEF RunLive, StartRun, ConstructClient, Collect, RunSession, SaveReport
<1>5. ASSUME NEW p \in Commands, Stop(p) PROVE UNCHANGED files
  BY <1>5 DEF Stop
<1>6. CASE World BY <1>1, <1>6 DEF World, Borrow
<1> QED BY <1>2, <1>3, <1>4, <1>5, <1>6 DEF Next

\* What was approved once remains so.
LEMMA ApprovalStays ==
  ASSUME NEW r, Approves(r), [Next]_vars
  PROVE  Approves(r)'
BY FilesAreFinal DEF Approves, files

-----------------------------------------------------------------------------
LEMMA InitInv == Init => LiveInv
BY DEF Init, LiveInv, ExperimentTypes, Places

LEMMA TypeStep ==
  ASSUME ExperimentTypes, [Next]_vars
  PROVE  ExperimentTypes'
<1> USE DEF ExperimentTypes, Places
<1>1. CASE UNCHANGED vars BY <1>1 DEF vars, work
<1>2. ASSUME NEW p \in Commands, Preflight(p) PROVE ExperimentTypes'
  <2> USE DEF Moves, Holds, work
  <2>1. CASE CheckReference(p) BY <2>1 DEF CheckReference
  <2>2. CASE Initialize(p) BY <2>2 DEF Initialize
  <2>3. CASE WriteComparison(p) BY <2>3 DEF WriteComparison
  <2>4. CASE VerifyExport(p) BY <2>4 DEF VerifyExport
  <2>5. CASE WritePhoenix(p) BY <2>5 DEF WritePhoenix
  <2>6. CASE WritePreflight(p) BY <2>6 DEF WritePreflight
  <2> QED BY <1>2, <2>1, <2>2, <2>3, <2>4, <2>5, <2>6 DEF Preflight
<1>3. ASSUME NEW p \in Commands, RunLive(p) PROVE ExperimentTypes'
  <2> USE DEF Moves, Holds, work
  <2>1. CASE StartRun(p) BY <2>1 DEF StartRun
  <2>2. CASE ConstructClient(p) BY <2>2 DEF ConstructClient
  <2>3. CASE Collect(p) BY <2>3 DEF Collect
  <2>4. ASSUME NEW c \in Cases, RunSession(p, c) PROVE ExperimentTypes'
    BY <2>4 DEF RunSession
  <2>5. CASE SaveReport(p) BY <2>5 DEF SaveReport
  <2> QED BY <1>3, <2>1, <2>2, <2>3, <2>4, <2>5 DEF RunLive
<1>4. ASSUME NEW p \in Commands, Stop(p) PROVE ExperimentTypes'
  BY <1>4 DEF Stop, Holds
<1>5. CASE World BY <1>5 DEF World, work
<1> QED BY <1>1, <1>2, <1>3, <1>4, <1>5 DEF Next

\* A command that is to pay has been approved.
LEMMA CommandStep ==
  ASSUME LiveInv, [Next]_vars, NEW q \in Commands,
         at'[q] \in {"approved", "paid", "collecting"}
  PROVE  Approves(local[q])'
<1> USE DEF ExperimentTypes, Places, Moves, Holds
<1>t. ExperimentTypes BY DEF LiveInv
<1>a. ASSUME at[q] \in {"approved", "paid", "collecting"}, local'[q] = local[q]
      PROVE  Approves(local[q])'
  <2>1. Approves(local[q]) BY <1>a DEF LiveInv
  <2> QED BY <1>a, <2>1, FilesAreFinal DEF Approves, files
<1>1. CASE UNCHANGED vars BY <1>1, <1>a DEF vars
<1>2. ASSUME NEW p \in Commands, Preflight(p) PROVE Approves(local[q])'
  BY <1>2, <1>t, <1>a DEF Preflight, CheckReference, Initialize, WriteComparison,
                          VerifyExport, WritePhoenix, WritePreflight
<1>3. ASSUME NEW p \in Commands, StartRun(p) PROVE Approves(local[q])'
  <2>1. CASE q = p
    BY <1>3, <1>t, <2>1
       DEF StartRun, SettingsValid, ManifestLoads, ReferenceValid, ReferenceBound,
           Approves, files
  <2>2. CASE q # p BY <1>3, <1>t, <1>a, <2>2 DEF StartRun
  <2> QED BY <2>1, <2>2
<1>4. ASSUME NEW p \in Commands, ConstructClient(p) \/ Collect(p)
      PROVE  Approves(local[q])'
  BY <1>4, <1>t, <1>a DEF ConstructClient, Collect
<1>5. ASSUME NEW p \in Commands, NEW c \in Cases, RunSession(p, c)
      PROVE  Approves(local[q])'
  BY <1>5, <1>t, <1>a DEF RunSession
<1>6. ASSUME NEW p \in Commands, SaveReport(p) \/ Stop(p) PROVE Approves(local[q])'
  BY <1>6, <1>t, <1>a DEF SaveReport, Stop
<1>7. CASE World BY <1>7, <1>a DEF World
<1> QED BY <1>1, <1>2, <1>3, <1>4, <1>5, <1>6, <1>7 DEF Next, RunLive

\* Sessions are paid for by commands that collect, each once.
LEMMA SessionStep ==
  ASSUME LiveInv, [Next]_vars, NEW d \in Cases
  PROVE  /\ session[d] # None => session'[d] = session[d]
         /\ session'[d] # None => Approves(session[d])'
<1>t. ExperimentTypes BY DEF LiveInv
<1>a. ASSUME session'[d] = session[d]
      PROVE  session'[d] # None => Approves(session[d])'
  <2> SUFFICES ASSUME session[d] # None PROVE Approves(session[d])' BY <1>a
  <2>1. Approves(session[d]) BY DEF LiveInv
  <2> QED BY <1>a, <2>1, FilesAreFinal DEF Approves, files
<1>1. ASSUME NEW p \in Commands, NEW c \in Cases, RunSession(p, c), c = d
      PROVE  /\ session[d] # None => session'[d] = session[d]
             /\ session'[d] # None => Approves(session[d])'
  <2>1. session[d] = None /\ session'[d] = local[p] BY <1>1, <1>t DEF RunSession, ExperimentTypes
  <2>2. Approves(local[p]) BY <1>1 DEF RunSession, LiveInv
  <2> QED BY <1>1, <2>1, <2>2 DEF RunSession, Approves, files
<1>2. ASSUME NEW p \in Commands, NEW c \in Cases, RunSession(p, c), c # d
      PROVE  session'[d] = session[d]
  BY <1>2, <1>t DEF RunSession, ExperimentTypes
<1>3. ASSUME ~\E p \in Commands, c \in Cases : RunSession(p, c)
      PROVE  session'[d] = session[d]
  BY <1>3 DEF Next, Preflight, CheckReference, Initialize, WriteComparison, VerifyExport,
         WritePhoenix, WritePreflight, RunLive, StartRun, ConstructClient, Collect,
         SaveReport, Stop, World, vars, work
<1> QED BY <1>a, <1>1, <1>2, <1>3

LEMMA SummaryStep ==
  ASSUME LiveInv, [Next]_vars, summary' # None
  PROVE  \A c \in summary' : c \in Cases /\ session'[c] # None
<1>1. \A c \in Cases : session[c] # None => session'[c] # None BY SessionStep
<1>2. CASE summary' = summary BY <1>1, <1>2 DEF LiveInv
<1>3. ASSUME NEW p \in Commands, SaveReport(p)
      PROVE  \A c \in summary' : c \in Cases /\ session'[c] # None
  BY <1>3 DEF SaveReport
<1>4. ASSUME ~\E p \in Commands : SaveReport(p) PROVE summary' = summary
  BY <1>4 DEF Next, Preflight, CheckReference, Initialize, WriteComparison, VerifyExport,
         WritePhoenix, WritePreflight, RunLive, StartRun, ConstructClient, Collect,
         RunSession, Stop, World, vars, work
<1> QED BY <1>2, <1>3, <1>4

LEMMA StepInv ==
  ASSUME LiveInv, [Next]_vars
  PROVE  LiveInv'
<1>1. ExperimentTypes' BY TypeStep DEF LiveInv
<1> QED BY <1>1, CommandStep, SessionStep, SummaryStep DEF LiveInv

LEMMA Invariance == Spec => []LiveInv
BY InitInv, StepInv, PTL DEF Spec

-----------------------------------------------------------------------------
\* Every paid session ran as the complete preflight of this very experiment recorded,
\* however many commands there were, whatever killed them and whatever changed meanwhile.
THEOREM PaidOnlyAsPreflighted == Spec => []PaidAsPreflighted
<1>1. LiveInv => PaidAsPreflighted BY DEF LiveInv, PaidAsPreflighted, Approves
<1> QED BY <1>1, Invariance, PTL

\* Whenever compare_saved gives outcomes, the sides differ in their prompts alone.
THEOREM ComparisonsAreControlled == Spec => []ComparisonControlled
<1>1. ASSUME LiveInv PROVE ComparisonControlled
  <2> SUFFICES ASSUME Compared, NEW c \in summary
               PROVE  /\ Definitions[session[c].source] = Definitions[V1.source]
                      /\ Prompt[session[c].source] # Prompt[V1.source]
                      /\ session[c].runtime = V1.runtime
                      /\ manifest.config = V1.config
                      /\ session[c].report = report
    BY DEF ComparisonControlled
  <2>1. Approves(session[c]) BY <1>1 DEF LiveInv, Compared
  <2>2. session[c].source = manifest.source /\ session[c].runtime = manifest.runtime
    BY <2>1 DEF Approves
  <2>3. session[c].report = report BY <2>1 DEF Approves, Compared
  <2> QED BY <2>2, <2>3 DEF Compared, SameCohort
<1> QED BY <1>1, Invariance, PTL

-----------------------------------------------------------------------------
(* The comparison of its report *)

ComparisonTypes ==
  /\ compared \in Nat
  /\ settled \in Nat
  /\ successful \in [Sides -> Nat]
  /\ outcomes \in [Outcomes -> Nat]
  /\ total \in [Sides -> Int \cup {Null}]
  /\ deltas \in Int \cup {Null}

ComparisonInv ==
  /\ ComparisonTypes
  /\ outcomes["UNDETERMINED"] = compared - settled
  /\ outcomes["UNDETERMINED"] = 0 =>
       successful["v2"] - successful["v1"] = outcomes["IMPROVED"] - outcomes["REGRESSED"]
  /\ deltas = Delta(total["v1"], total["v2"])

LEMMA NullIsNoReason ==
  Null \notin Int \cup {"FINAL_STATUS_MISMATCH", "GROUNDING_NOT_SUCCESSFUL", "SUCCESSFUL"}
BY ComparisonAssumption DEF ComparisonAssumption, Reasons

-----------------------------------------------------------------------------
(* Rows *)

\* A row is determined exactly when what happened settled its case.
LEMMA DeterminedIsSettled ==
  ASSUME NEW h \in Happened
  PROVE  Determined(RowOf(h)) <=> Settled(h)
<1>1. h.execution = "RETURNED" => h.run
  BY DEF Happened
<1>2. CASE h.execution = "RETURNED" /\ h.judged = "complete"
  <2>1. RowOf(h).execution = "RETURNED" /\ RowOf(h).evaluation = "COMPLETE"
        /\ ~RowOf(h).missing_units /\ RowOf(h).reason = Reason(h)
    BY <1>1, <1>2 DEF RowOf, EvaluationState
  <2>2. Reason(h) \notin {Null, "GROUNDING_UNDETERMINED"}
        <=> (h.status = "expected" => h.label # Null)
    <3>1. CASE h.status # "expected"
      <4>1. Reason(h) = "FINAL_STATUS_MISMATCH"
        BY <1>2, <3>1 DEF Reason
      <4> QED BY <3>1, <4>1, NullIsNoReason
    <3>2. CASE h.status = "expected" /\ h.label = Null
      <4>1. Reason(h) = "GROUNDING_UNDETERMINED"
        BY <1>2, <3>2 DEF Reason
      <4> QED BY <3>2, <4>1
    <3>3. CASE h.status = "expected" /\ h.label # Null
      <4>1. Reason(h) \in {"GROUNDING_NOT_SUCCESSFUL", "SUCCESSFUL"}
        BY <1>2, <3>3 DEF Reason
      <4> QED BY <3>3, <4>1, NullIsNoReason
    <3> QED BY <3>1, <3>2, <3>3
  <2> QED BY <1>2, <2>1, <2>2 DEF Determined, Settled
<1>3. CASE h.execution # "RETURNED"
  BY <1>3 DEF RowOf, Determined, Settled
<1>4. CASE h.judged # "complete"
  <2>1. RowOf(h).evaluation # "COMPLETE"
    BY <1>4 DEF Happened, RowOf, EvaluationState
  <2> QED BY <1>4, <2>1 DEF Determined, Settled
<1> QED BY <1>2, <1>3, <1>4

LEMMA AmountsAreNumbers ==
  ASSUME NEW h \in Happened
  PROVE  RowOf(h).amount \in Int \cup {Null}
BY ComparisonAssumption DEF ComparisonAssumption, Happened, RowOf

LEMMA SumsAreNumbers ==
  ASSUME NEW s \in Int \cup {Null}, NEW a \in Int \cup {Null}
  PROVE  Add(s, a) \in Int \cup {Null} /\ Delta(s, a) \in Int \cup {Null}
BY DEF Add, Delta

\* The change of two sums is the sum of the changes.
LEMMA DeltaAdds ==
  ASSUME NEW s \in Int \cup {Null}, NEW t \in Int \cup {Null},
         NEW a \in Int \cup {Null}, NEW b \in Int \cup {Null}
  PROVE  Add(Delta(s, t), Delta(a, b)) = Delta(Add(s, a), Add(t, b))
<1>1. Delta(s, t) \in Int \cup {Null} /\ Add(s, a) \in Int \cup {Null}
  BY SumsAreNumbers
<1>2. CASE s \in Int /\ t \in Int /\ a \in Int /\ b \in Int
  <2>1. Delta(s, t) = t - s /\ Delta(a, b) = b - a /\ Add(s, a) = s + a /\ Add(t, b) = t + b
    BY <1>2, NullIsNoReason DEF Delta, Add
  <2>2. t - s \in Int /\ b - a \in Int /\ s + a \in Int /\ t + b \in Int
    BY <1>2
  <2>3. Add(t - s, b - a) = (t - s) + (b - a) /\ Delta(s + a, t + b) = (t + b) - (s + a)
    BY <2>2, NullIsNoReason DEF Delta, Add
  <2> QED BY <1>1, <1>2, <2>1, <2>3
<1>3. CASE Null \in {s, t, a, b}
  <2>1. Null \in {Delta(s, t), Delta(a, b)} /\ Null \in {Add(s, a), Add(t, b)}
    BY <1>3 DEF Delta, Add
  <2> QED BY <1>1, <2>1 DEF Delta, Add
<1> QED BY <1>2, <1>3

LEMMA OutcomeIsOne ==
  ASSUME NEW a, NEW b
  PROVE  /\ Outcome(a, b) \in Outcomes
         /\ Outcome(a, b) = "UNDETERMINED" <=> ~(Determined(a) /\ Determined(b))
         /\ Outcome(a, b) = "IMPROVED" =>
              Eligible(b) /\ ~Eligible(a)
         /\ Outcome(a, b) = "REGRESSED" =>
              Eligible(a) /\ ~Eligible(b)
         /\ Outcome(a, b) \in {"UNCHANGED", "CHANGED"} => (Eligible(a) <=> Eligible(b))
<1>1. CASE ~(Determined(a) /\ Determined(b))
  BY <1>1 DEF Outcome, Outcomes
<1>2. CASE Determined(a) /\ Determined(b) /\ Eligible(a) # Eligible(b)
  <2>1. Outcome(a, b) = IF Eligible(b) THEN "IMPROVED" ELSE "REGRESSED"
    BY <1>2 DEF Outcome
  <2> QED BY <1>2, <2>1 DEF Eligible, Outcomes
<1>3. CASE Determined(a) /\ Determined(b) /\ Eligible(a) = Eligible(b)
  <2>1. Outcome(a, b) \in {"UNCHANGED", "CHANGED"}
    BY <1>3 DEF Outcome
  <2> QED BY <1>3, <2>1 DEF Eligible, Outcomes
<1> QED BY <1>1, <1>2, <1>3

-----------------------------------------------------------------------------
(* The invariant *)

LEMMA InvInit == CInit => ComparisonInv
BY NullIsNoReason DEF CInit, ComparisonInv, ComparisonTypes, Sides, Outcomes, Delta

LEMMA InvNext == ComparisonInv /\ [CNext]_cvars => ComparisonInv'
<1> SUFFICES ASSUME ComparisonInv, [CNext]_cvars PROVE ComparisonInv'
  OBVIOUS
<1>1. ASSUME NEW h \in Happened, NEW k \in Happened, CompareCase(h, k)
      PROVE  ComparisonInv'
  <2> DEFINE a == RowOf(h)
             b == RowOf(k)
             o == Outcome(a, b)
             win(r) == IF Eligible(r) THEN 1 ELSE 0
  <2>1. /\ compared' = compared + 1
        /\ settled' = settled + IF Settled(h) /\ Settled(k) THEN 1 ELSE 0
        /\ deltas' = Add(deltas, Delta(a.amount, b.amount))
        /\ outcomes' = [outcomes EXCEPT ![o] = @ + 1]
    BY <1>1 DEF CompareCase, Sides
  <2>2. /\ successful' = [s \in Sides |->
                            successful[s] + win(IF s = "v1" THEN a ELSE b)]
        /\ total' = [s \in Sides |-> Add(total[s], (IF s = "v1" THEN a ELSE b).amount)]
    BY <1>1 DEF CompareCase, Sides
  <2>3. /\ successful'["v1"] = successful["v1"] + win(a)
        /\ successful'["v2"] = successful["v2"] + win(b)
        /\ total'["v1"] = Add(total["v1"], a.amount)
        /\ total'["v2"] = Add(total["v2"], b.amount)
    BY <2>2 DEF Sides
  <2>4. a.amount \in Int \cup {Null} /\ b.amount \in Int \cup {Null}
    BY AmountsAreNumbers
  <2>5. o \in Outcomes
    BY OutcomeIsOne
  <2>6. outcomes \in [Outcomes -> Nat] /\ compared \in Nat /\ settled \in Nat
        /\ successful["v1"] \in Nat /\ successful["v2"] \in Nat
        /\ successful \in [Sides -> Nat] /\ total \in [Sides -> Int \cup {Null}]
        /\ total["v1"] \in Int \cup {Null} /\ total["v2"] \in Int \cup {Null}
    BY DEF ComparisonInv, ComparisonTypes, Sides
  <2> HIDE DEF a, b, o
  <2>7. \A x \in Outcomes :
          outcomes'[x] = outcomes[x] + IF x = o THEN 1 ELSE 0
    BY <2>1, <2>5, <2>6
  <2>8. o = "UNDETERMINED" <=> ~(Settled(h) /\ Settled(k))
    <3>1. o = "UNDETERMINED" <=> ~(Determined(a) /\ Determined(b))
      BY OutcomeIsOne DEF o
    <3>2. (Determined(a) <=> Settled(h)) /\ (Determined(b) <=> Settled(k))
      BY DeterminedIsSettled DEF a, b
    <3> QED BY <3>1, <3>2
  <2>9. ComparisonTypes'
    <3>1. successful' \in [Sides -> Nat]
      BY <2>2, <2>6
    <3>2. total' \in [Sides -> Int \cup {Null}]
      <4>1. \A s \in Sides : Add(total[s], (IF s = "v1" THEN a ELSE b).amount)
                             \in Int \cup {Null}
        BY <2>4, <2>6, SumsAreNumbers
      <4> QED BY <2>2, <4>1
    <3>3. deltas' \in Int \cup {Null}
      <4>1. Delta(a.amount, b.amount) \in Int \cup {Null}
        BY <2>4, SumsAreNumbers
      <4>2. deltas \in Int \cup {Null}
        BY DEF ComparisonInv, ComparisonTypes
      <4> QED BY <2>1, <4>1, <4>2, SumsAreNumbers
    <3>4. outcomes' \in [Outcomes -> Nat]
      BY <2>1, <2>5, <2>6
    <3>5. compared' \in Nat /\ settled' \in Nat
      BY <2>1, <2>6
    <3> QED BY <3>1, <3>2, <3>3, <3>4, <3>5 DEF ComparisonTypes
  <2>10. (outcomes["UNDETERMINED"] = compared - settled)'
    <3>1. outcomes["UNDETERMINED"] = compared - settled
      BY DEF ComparisonInv
    <3>2. outcomes'["UNDETERMINED"] =
            outcomes["UNDETERMINED"] + IF o = "UNDETERMINED" THEN 1 ELSE 0
      BY <2>7 DEF Outcomes
    <3> QED BY <2>1, <2>6, <2>8, <3>1, <3>2
  <2>11. ASSUME outcomes'["UNDETERMINED"] = 0
         PROVE  successful'["v2"] - successful'["v1"]
                = outcomes'["IMPROVED"] - outcomes'["REGRESSED"]
    <3>1. o # "UNDETERMINED" /\ outcomes["UNDETERMINED"] = 0
      BY <2>6, <2>7, <2>11 DEF Outcomes
    <3>2. successful["v2"] - successful["v1"]
          = outcomes["IMPROVED"] - outcomes["REGRESSED"]
      BY <3>1 DEF ComparisonInv
    <3>3. outcomes["IMPROVED"] \in Nat /\ outcomes["REGRESSED"] \in Nat
      BY <2>6 DEF Outcomes
    <3>4. /\ outcomes'["IMPROVED"]
             = outcomes["IMPROVED"] + IF o = "IMPROVED" THEN 1 ELSE 0
          /\ outcomes'["REGRESSED"]
             = outcomes["REGRESSED"] + IF o = "REGRESSED" THEN 1 ELSE 0
      BY <2>7 DEF Outcomes
    <3>5. \/ o = "IMPROVED" /\ Eligible(b) /\ ~Eligible(a)
          \/ o = "REGRESSED" /\ Eligible(a) /\ ~Eligible(b)
          \/ o \notin {"IMPROVED", "REGRESSED"} /\ (Eligible(a) <=> Eligible(b))
      BY <3>1, OutcomeIsOne DEF o, Outcomes
    <3>6. CASE o = "IMPROVED" /\ Eligible(b) /\ ~Eligible(a)
      BY <2>3, <2>6, <3>2, <3>3, <3>4, <3>6
    <3>7. CASE o = "REGRESSED" /\ Eligible(a) /\ ~Eligible(b)
      BY <2>3, <2>6, <3>2, <3>3, <3>4, <3>7
    <3>8. CASE o \notin {"IMPROVED", "REGRESSED"} /\ (Eligible(a) <=> Eligible(b))
      BY <2>3, <2>6, <3>2, <3>3, <3>4, <3>8
    <3> QED BY <3>5, <3>6, <3>7, <3>8
  <2>12. (deltas = Delta(total["v1"], total["v2"]))'
    <3>1. deltas = Delta(total["v1"], total["v2"])
      BY DEF ComparisonInv
    <3>2. Add(Delta(total["v1"], total["v2"]), Delta(a.amount, b.amount))
          = Delta(Add(total["v1"], a.amount), Add(total["v2"], b.amount))
      <4> DEFINE s == total["v1"]
                 t == total["v2"]
                 c == a.amount
                 d == b.amount
      <4>1. s \in Int \cup {Null} /\ t \in Int \cup {Null}
            /\ c \in Int \cup {Null} /\ d \in Int \cup {Null}
        BY <2>4, <2>6
      <4> HIDE DEF s, t, c, d
      <4>2. Add(Delta(s, t), Delta(c, d)) = Delta(Add(s, c), Add(t, d))
        BY <4>1, DeltaAdds
      <4> QED BY <4>2 DEF s, t, c, d
    <3>3. deltas' = Delta(total'["v1"], total'["v2"])
      BY <2>1, <2>3, <3>1, <3>2
    <3> QED BY <3>3 DEF Delta
  <2> QED BY <2>9, <2>10, <2>11, <2>12 DEF ComparisonInv
<1>2. CASE UNCHANGED cvars
  BY <1>2 DEF cvars, ComparisonInv, ComparisonTypes, Delta
<1> QED BY <1>1, <1>2 DEF CNext, Done

LEMMA InvImplies == ComparisonInv => ComparisonHonest
<1> SUFFICES ASSUME ComparisonInv PROVE ComparisonHonest
  OBVIOUS
<1>1. StrictSuccessDelta \in {Null, outcomes["IMPROVED"] - outcomes["REGRESSED"]}
  BY DEF StrictSuccessDelta, ComparisonInv
<1> QED BY <1>1 DEF ComparisonHonest, ComparisonInv, MeasurementDelta

\* For any number of cases, any measured amounts and whatever happened to each side of
\* each case, the totals of a comparison say what its cases say and no more
\* (compare_saved).
THEOREM ComparisonsAreHonest == CSpec => []ComparisonHonest
<1>1. CInit => ComparisonInv
  BY InvInit
<1>2. ComparisonInv /\ [CNext]_cvars => ComparisonInv'
  BY InvNext
<1>3. ComparisonInv => ComparisonHonest
  BY InvImplies
<1> QED BY <1>1, <1>2, <1>3, PTL DEF CSpec

-----------------------------------------------------------------------------
(* The calibration of the judges *)

LabelFiles == [CalibrationCases -> HumanLabels \cup {Absent}]

CalibrationTypes ==
  /\ DOMAIN runs = CalibrationCases
  /\ DOMAIN results = Files
  /\ labels \in {Absent, Unfinished} \cup LabelFiles
  /\ DOMAIN command = Processes

Collected == \A c \in CalibrationCases : runs[c] = TRUE

\* Whoever judges has every snapshot, and so had whoever saved results.
JudgedRuns ==
  /\ \A p \in Processes : command[p].doing = "judging" => Collected
  /\ \A f \in Files : results[f] \notin {Absent, Unfinished} => Collected

LabelledFirst ==
  revealed => labels \in LabelFiles /\ \A c \in CalibrationCases : labels[c] # Absent

\* What a completed calibration read, and where.
ClosedOnRecord ==
  closed # Absent =>
    /\ closed.results \in Files
    /\ closed.judged \notin {Absent, Unfinished}
    /\ results[closed.results] = closed.judged
    /\ \A c \in CalibrationCases :
         /\ closed.labels[c] # Absent
         /\ closed.judged[c] # "EVALUATOR_ERROR"
         /\ c \in closed.resolved <=> closed.labels[c] # closed.judged[c]

CalibrationInv == CalibrationTypes /\ JudgedRuns /\ LabelledFirst /\ ClosedOnRecord

LEMMA LabelsDistinct ==
  /\ Absent # Unfinished /\ Absent # TRUE /\ Absent \notin HumanLabels
  /\ \A l \in LabelFiles : l \notin {Absent, Unfinished}
BY CalibrationAssumption DEF CalibrationAssumption, LabelFiles

-----------------------------------------------------------------------------
(* The commands *)

LEMMA CalibrationInit == CalInit => CalibrationInv
<1> SUFFICES ASSUME CalInit PROVE CalibrationInv
  OBVIOUS
<1>1. CalibrationTypes
  BY DEF CalInit, CalibrationTypes
<1>2. JudgedRuns
  BY DEF CalInit, JudgedRuns, Idle
<1>3. LabelledFirst /\ ClosedOnRecord
  BY DEF CalInit, LabelledFirst, ClosedOnRecord
<1> QED BY <1>1, <1>2, <1>3 DEF CalibrationInv

\* A step that changes no file but, at most, the review, and starts no judging.
LEMMA QuietStep ==
  ASSUME CalibrationInv,
         UNCHANGED <<runs, labels, results, revealed, closed>>,
         DOMAIN command' = Processes,
         \A p \in Processes : command'[p].doing = "judging" => Collected
  PROVE  CalibrationInv'
<1>1. CalibrationTypes'
  BY DEF CalibrationInv, CalibrationTypes
<1>2. JudgedRuns'
  BY DEF CalibrationInv, JudgedRuns, Collected
<1>3. LabelledFirst' /\ ClosedOnRecord'
  BY DEF CalibrationInv, LabelledFirst, ClosedOnRecord
<1> QED BY <1>1, <1>2, <1>3 DEF CalibrationInv

\* What a process becomes does not concern the others.
LEMMA BecomesOne ==
  ASSUME CalibrationTypes, NEW p \in Processes, NEW state, Becomes(p, state)
  PROVE  /\ DOMAIN command' = Processes
         /\ command'[p] = state
         /\ \A q \in Processes \ {p} : command'[q] = command[q]
BY DEF CalibrationTypes, Becomes

LEMMA BecomesQuietly ==
  ASSUME CalibrationInv, NEW p \in Processes, NEW state, Becomes(p, state),
         state.doing = "judging" => Collected,
         UNCHANGED <<runs, labels, results, revealed, closed>>
  PROVE  CalibrationInv'
<1>1. /\ DOMAIN command' = Processes
      /\ command'[p] = state
      /\ \A q \in Processes \ {p} : command'[q] = command[q]
  BY BecomesOne DEF CalibrationInv
<1>2. \A q \in Processes : command'[q].doing = "judging" => Collected
  BY <1>1 DEF CalibrationInv, JudgedRuns
<1> QED BY <1>1, <1>2, QuietStep

LEMMA StepSaveRun ==
  ASSUME CalibrationInv, NEW p \in Processes, SaveRun(p)
  PROVE  CalibrationInv'
<1>1. ~Collected
  BY LabelsDistinct DEF SaveRun, Collected
<1>2. /\ \A q \in Processes : command[q].doing # "judging"
      /\ \A f \in Files : results[f] \in {Absent, Unfinished}
  BY <1>1 DEF CalibrationInv, JudgedRuns
<1>3. /\ UNCHANGED <<labels, results, revealed, closed>>
      /\ DOMAIN runs' = CalibrationCases
      /\ command' = command \/ Becomes(p, Idle)
  BY DEF SaveRun, CalibrationInv, CalibrationTypes
<1>4. DOMAIN command' = Processes /\ \A q \in Processes : command'[q].doing # "judging"
  <2>1. CASE command' = command
    BY <1>2, <2>1 DEF CalibrationInv, CalibrationTypes
  <2>2. CASE Becomes(p, Idle)
    <3>1. /\ DOMAIN command' = Processes
          /\ command'[p] = Idle
          /\ \A q \in Processes \ {p} : command'[q] = command[q]
      BY <2>2, BecomesOne DEF CalibrationInv
    <3>2. Idle.doing # "judging"
      BY DEF Idle
    <3> QED BY <1>2, <3>1, <3>2
  <2> QED BY <1>3, <2>1, <2>2
<1>5. CalibrationTypes'
  BY <1>3, <1>4 DEF CalibrationInv, CalibrationTypes
<1>6. JudgedRuns'
  BY <1>2, <1>3, <1>4 DEF JudgedRuns
<1>7. LabelledFirst' /\ ClosedOnRecord'
  BY <1>3 DEF CalibrationInv, LabelledFirst, ClosedOnRecord
<1> QED BY <1>5, <1>6, <1>7 DEF CalibrationInv

LEMMA StepPrepareLabels ==
  ASSUME CalibrationInv, NEW p \in Processes, PrepareLabels(p)
  PROVE  CalibrationInv'
<1>1. /\ Collected
      /\ labels = Absent
      /\ labels' \in {Unfinished} \cup LabelFiles
      /\ UNCHANGED <<runs, results, revealed, closed>>
  BY DEF PrepareLabels, Collected, LabelFiles
<1>2. ~revealed
  BY <1>1, LabelsDistinct DEF CalibrationInv, LabelledFirst
<1>3. DOMAIN command' = Processes
  BY BecomesOne DEF PrepareLabels, CalibrationInv
<1>4. CalibrationTypes'
  BY <1>1, <1>3 DEF CalibrationInv, CalibrationTypes
<1>5. JudgedRuns'
  BY <1>1 DEF JudgedRuns, Collected
<1>6. LabelledFirst' /\ ClosedOnRecord'
  BY <1>1, <1>2 DEF CalibrationInv, LabelledFirst, ClosedOnRecord
<1> QED BY <1>4, <1>5, <1>6 DEF CalibrationInv

LEMMA StepSaveResults ==
  ASSUME CalibrationInv, NEW p \in Processes, SaveResults(p)
  PROVE  CalibrationInv'
<1> DEFINE f == command[p].results
<1>1. /\ Collected
      /\ results[f] = Absent
      /\ DOMAIN results' = Files
      /\ \A g \in Files \ {f} : results'[g] = results[g]
      /\ Becomes(p, Idle)
      /\ UNCHANGED <<runs, labels, revealed, closed>>
  BY DEF SaveResults, CalibrationInv, CalibrationTypes, JudgedRuns
<1>2. DOMAIN command' = Processes
  BY <1>1, BecomesOne DEF CalibrationInv
<1>3. CalibrationTypes'
  BY <1>1, <1>2 DEF CalibrationInv, CalibrationTypes
<1>4. JudgedRuns'
  BY <1>1 DEF JudgedRuns, Collected
<1>5. LabelledFirst'
  BY <1>1 DEF CalibrationInv, LabelledFirst
<1>6. ClosedOnRecord'
  BY <1>1 DEF CalibrationInv, ClosedOnRecord
<1> QED BY <1>3, <1>4, <1>5, <1>6 DEF CalibrationInv

-----------------------------------------------------------------------------
(* The human, compare and finalize *)

LEMMA StepLabel == ASSUME CalibrationInv, Label PROVE CalibrationInv'
<1>1. PICK c \in CalibrationCases, label \in HumanLabels : labels' = [labels EXCEPT ![c] = label]
  BY DEF Label
<1>2. labels \in LabelFiles
  BY DEF CalibrationInv, CalibrationTypes, Label
<1>3. labels' \in LabelFiles
  BY <1>1, <1>2 DEF LabelFiles
<1>4. \A d \in CalibrationCases : labels[d] # Absent => labels'[d] # Absent
  BY <1>1, <1>2, LabelsDistinct DEF LabelFiles
<1>5. UNCHANGED <<runs, results, command, revealed, closed>>
  BY DEF Label
<1>6. CalibrationTypes' /\ JudgedRuns' /\ ClosedOnRecord'
  BY <1>3, <1>5 DEF CalibrationInv, CalibrationTypes, JudgedRuns, Collected, ClosedOnRecord
<1>7. LabelledFirst'
  BY <1>3, <1>4, <1>5 DEF CalibrationInv, LabelledFirst
<1> QED BY <1>6, <1>7 DEF CalibrationInv

\* A comparison reveals the judgments only when every case has its label.
LEMMA Reveals ==
  ASSUME CalibrationInv, Labelled, revealed' = TRUE, UNCHANGED <<written, command>>
  PROVE  CalibrationTypes' /\ JudgedRuns' /\ LabelledFirst'
<1>1. UNCHANGED <<runs, labels, results, command>>
  BY DEF written
<1>2. CalibrationTypes' /\ JudgedRuns'
  BY <1>1 DEF CalibrationInv, CalibrationTypes, JudgedRuns, Collected
<1>3. labels \in LabelFiles /\ \A c \in CalibrationCases : labels[c] # Absent
  BY DEF CalibrationInv, CalibrationTypes, Labelled
<1> QED BY <1>1, <1>2, <1>3 DEF LabelledFirst

LEMMA StepCompare ==
  ASSUME CalibrationInv, NEW f \in Files, Compare(f)
  PROVE  CalibrationInv'
<1>1. CalibrationTypes' /\ JudgedRuns' /\ LabelledFirst'
  BY Reveals DEF Compare
<1>2. ClosedOnRecord'
  BY DEF Compare, written, CalibrationInv, ClosedOnRecord
<1> QED BY <1>1, <1>2 DEF CalibrationInv

LEMMA StepFinalize ==
  ASSUME CalibrationInv, NEW f \in Files, Finalize(f)
  PROVE  CalibrationInv'
<1>1. CalibrationTypes' /\ JudgedRuns' /\ LabelledFirst'
  BY Reveals DEF Finalize
<1>2. results' = results
  BY DEF Finalize, written
<1>3. CASE closed # Absent
  <2>1. closed' = closed
    BY <1>3 DEF Finalize
  <2> QED BY <1>1, <1>2, <1>3, <2>1 DEF CalibrationInv, ClosedOnRecord
<1>4. CASE closed = Absent
  <2>1. closed' = [results |-> f, judged |-> results[f], labels |-> labels,
                   resolved |-> review]
    BY <1>4 DEF Finalize
  <2>2. results[f] \notin {Absent, Unfinished}
    BY DEF Finalize
  <2>3. ASSUME NEW c \in CalibrationCases
        PROVE  /\ labels[c] # Absent
               /\ results[f][c] # "EVALUATOR_ERROR"
               /\ c \in review <=> labels[c] # results[f][c]
    <3>1. labels[c] # Absent
      BY DEF Finalize, Labelled
    <3>2. Agreement(f)[c] = IF results[f][c] = "EVALUATOR_ERROR" THEN Absent
                            ELSE IF results[f][c] = labels[c] THEN "yes" ELSE "no"
      BY DEF Agreement
    <3>3. Agreement(f)[c] # Absent /\ (c \in review <=> Agreement(f)[c] # "yes")
      BY DEF Finalize
    <3> QED BY <3>1, <3>2, <3>3
  <2>4. /\ closed'.results = f /\ closed'.judged = results[f]
        /\ closed'.labels = labels /\ closed'.resolved = review
    BY <2>1
  <2> QED BY <1>1, <1>2, <2>2, <2>3, <2>4 DEF CalibrationInv, ClosedOnRecord
<1> QED BY <1>1, <1>3, <1>4 DEF CalibrationInv

-----------------------------------------------------------------------------

LEMMA CalibrationNext == CalibrationInv /\ [CalNext]_calvars => CalibrationInv'
<1> SUFFICES ASSUME CalibrationInv, [CalNext]_calvars PROVE CalibrationInv'
  OBVIOUS
<1>1. ASSUME NEW p \in Processes, StartCollection(p) PROVE CalibrationInv'
  <2>1. [Idle EXCEPT !.doing = "collecting"].doing # "judging"
    BY DEF Idle
  <2> QED BY <1>1, <2>1, BecomesQuietly DEF StartCollection
<1>2. ASSUME NEW p \in Processes, SaveRun(p) PROVE CalibrationInv'
  BY <1>2, StepSaveRun
<1>3. ASSUME NEW p \in Processes, PrepareLabels(p) PROVE CalibrationInv'
  BY <1>3, StepPrepareLabels
<1>4. ASSUME NEW p \in Processes, Rejudge(p) PROVE CalibrationInv'
  <2>1. PICK f \in Files : Becomes(p, [Idle EXCEPT !.doing = "judging", !.results = f])
    BY <1>4 DEF Rejudge
  <2>2. Collected /\ UNCHANGED <<runs, labels, results, revealed, closed>>
    BY <1>4 DEF Rejudge, Collected, written
  <2> QED BY <2>1, <2>2, BecomesQuietly
<1>5. ASSUME NEW p \in Processes, JudgeRun(p) PROVE CalibrationInv'
  <2>1. PICK j \in Judgments(Len(command[p].judged) + 1) :
          Becomes(p, [command[p] EXCEPT !.judged = Append(@, j)])
    BY <1>5 DEF JudgeRun
  <2>2. Collected /\ UNCHANGED <<runs, labels, results, revealed, closed>>
    BY <1>5 DEF JudgeRun, written, CalibrationInv, JudgedRuns
  <2> QED BY <2>1, <2>2, BecomesQuietly
<1>6. ASSUME NEW p \in Processes, SaveResults(p) PROVE CalibrationInv'
  BY <1>6, StepSaveResults
<1>7. ASSUME NEW p \in Processes, Abandon(p) PROVE CalibrationInv'
  <2>1. Idle.doing # "judging" /\ UNCHANGED <<runs, labels, results, revealed, closed>>
    BY <1>7 DEF Abandon, written, Idle
  <2> QED BY <1>7, <2>1, BecomesQuietly DEF Abandon
<1>8. CASE Label
  BY <1>8, StepLabel
<1>9. CASE Review
  BY <1>9, QuietStep DEF Review, CalibrationInv, CalibrationTypes, JudgedRuns
<1>10. ASSUME NEW f \in Files, Compare(f) PROVE CalibrationInv'
  BY <1>10, StepCompare
<1>11. ASSUME NEW f \in Files, Finalize(f) PROVE CalibrationInv'
  BY <1>11, StepFinalize
<1>12. CASE UNCHANGED calvars
  BY <1>12, QuietStep DEF calvars, written, CalibrationInv, CalibrationTypes, JudgedRuns
<1> QED BY <1>1, <1>2, <1>3, <1>4, <1>5, <1>6, <1>7, <1>8, <1>9, <1>10, <1>11, <1>12
        DEF CalNext

LEMMA CalibrationInvImplies == CalibrationInv => CalibrationEarned
<1> SUFFICES ASSUME CalibrationInv PROVE CalibrationEarned
  OBVIOUS
<1>1. closed # Absent => Collected
  BY DEF CalibrationInv, ClosedOnRecord, JudgedRuns
<1> QED BY <1>1 DEF CalibrationInv, ClosedOnRecord, LabelledFirst, Collected,
           CalibrationEarned

\* For any number of cases, results files and overlapping commands, a completed
\* calibration is earned and no judgment is shown before all cases are labelled
\* (rejudge, compare_labels, finalize_review).
THEOREM CalibrationsAreEarned == CalSpec => []CalibrationEarned
<1>1. CalInit => CalibrationInv
  BY CalibrationInit
<1>2. CalibrationInv /\ [CalNext]_calvars => CalibrationInv'
  BY CalibrationNext
<1>3. CalibrationInv => CalibrationEarned
  BY CalibrationInvImplies
<1> QED BY <1>1, <1>2, <1>3, PTL DEF CalSpec
=============================================================================
