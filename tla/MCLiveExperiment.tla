-------------------------- MODULE MCLiveExperiment --------------------------
(* An experiment and, once it can be compared, the comparison of its report.  *)
(* V1's sources, the same with another prompt, and a tree in which a          *)
(* controlled definition has changed as well; one package upgrade.            *)
EXTENDS LiveExperiment, SavedComparison, TLC

CONSTANTS baseline, reprompted, drifted

MCSources == {baseline, reprompted, drifted}
MCDefinitions == baseline :> "V1" @@ reprompted :> "V1" @@ drifted :> "changed"
MCPrompt == baseline :> "V1" @@ reprompted :> "V2" @@ drifted :> "V2"
MCRuntimes == {"pinned", "upgraded"}
MCConfigs == {"V1", "other"}
MCV1 == [source |-> baseline, runtime |-> "pinned", config |-> "V1"]
MCReports == {"archived", "replaced"}

VARIABLE comparing

\* compare_saved has found the two reports comparable; it reads nothing else after that.
BeginComparison ==
  /\ Compared
  /\ comparing' = TRUE
  /\ UNCHANGED <<vars, cvars>>

MCInit == Init /\ CInit /\ comparing = FALSE

MCNext ==
  IF comparing THEN CNext /\ UNCHANGED <<vars, comparing>>
  ELSE \/ Next /\ UNCHANGED <<cvars, comparing>>
       \/ BeginComparison

MCSpec == MCInit /\ [][MCNext]_<<vars, cvars, comparing>>

\* The rows of a report may be anything the store can hold, whatever the experiment's
\* history: while comparing, only the comparison counts.
MCView == IF comparing THEN <<cvars>> ELSE <<vars>>

CommandSymmetry == Permutations(Commands) \cup Permutations(Cases)
=============================================================================
