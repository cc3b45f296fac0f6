--------------------------- MODULE LiveExperiment ---------------------------
(***************************************************************************)
(* A paid V2 experiment from its preflight to its comparison with the      *)
(* archived V1 report (src/evaluation/baseline_live.py; initialize,        *)
(* load_manifest in baseline.py; reference_check, validate_reference,      *)
(* check_cohort and the gate of compare_saved in compare.py).              *)
(*                                                                         *)
(* The commands are processes that are killed anywhere, and meanwhile the  *)
(* world moves: sources are edited, packages upgraded, the V1 report       *)
(* replaced, Phoenix restarted without its data, files copied over from    *)
(* another experiment.  A command imports its sources and makes its first  *)
(* checks in one step; a later edit does not change the code it runs.      *)
(*                                                                         *)
(* A digest stands for what it is the digest of.  The V1 experiment is     *)
(* fixed but for its report; cases, dataset and fixture are the same on    *)
(* both sides; collecting and judging are BaselineStore's business and     *)
(* reduced to what each session ran as.                                    *)
(***************************************************************************)
EXTENDS Naturals, FiniteSets

CONSTANTS
  Commands,     \* the processes there may be
  Cases,
  Sources,      \* states of the source tree
  Definitions,  \* [Sources -> ...]: controlled_definitions, without the prompt,
  Prompt,       \* [Sources -> ...]: SYSTEM_INSTRUCTIONS,
  Approved,     \* those whose readers and reports check_cohort accepts
  Runtimes,     \* what runtime_versions may say
  Configs,      \* models and settings an operator may choose
  V1,           \* [source, runtime, config] of the V1 manifest
  Reports,      \* contents the V1 summary.json may have, all well-formed
  This, Other,  \* the ids of this experiment and of another one
  None

ASSUME LiveAssumption ==
  /\ V1 \in [source : Sources, runtime : Runtimes, config : Configs]
  /\ Approved \subseteq Sources
  /\ This # Other
  /\ None \notin Reports \cup Sources \cup Runtimes

VARIABLES
  tree, runtime,  \* the sources and packages on disk
  report,         \* the V1 report on disk
  probes,         \* the experiments whose baseline_preflight span Phoenix holds
  manifest,       \* the experiment's manifest.json,
  comparison,     \*   comparison.json,
  phoenix,        \*   phoenix.json
  preflight,      \*   and preflight.json
  at,             \* where each command is
  local,          \* what it has in memory
  lock,           \* the command that collects or judges, or None
  session,        \* per case, what its paid session ran as
  summary         \* the cases of the saved report, or None

world == <<tree, runtime, report, probes>>
files == <<manifest, comparison, phoenix, preflight>>
work == <<lock, session, summary>>
vars == <<world, files, at, local, work>>

Init ==
  /\ tree \in Sources
  /\ runtime \in Runtimes
  /\ report \in Reports
  /\ probes = {}
  /\ manifest = None /\ comparison = None /\ phoenix = None /\ preflight = None
  /\ at = [p \in Commands |-> "idle"]
  /\ local = [p \in Commands |-> None]
  /\ lock = None
  /\ session = [c \in Cases |-> None]
  /\ summary = None

Moves(p, from, to) == at[p] = from /\ at' = [at EXCEPT ![p] = to]
Holds(p, value) == local' = [local EXCEPT ![p] = value]

-----------------------------------------------------------------------------
(* The checks *)

NewManifest(config) == [source |-> tree, runtime |-> runtime, config |-> config]

\* check_cohort on the V1 report and a manifest: what it refuses, and `comparable`.
SameCohort_PromptOnly(m) ==
  /\ {V1.source, m.source} \subseteq Approved
  /\ Prompt[V1.source] # Prompt[m.source]
  /\ V1.config = m.config

SameCohort(m) ==
  /\ {V1.source, m.source} \subseteq Approved
  /\ Definitions[V1.source] = Definitions[m.source]
  /\ Prompt[V1.source] # Prompt[m.source]
  /\ V1.config = m.config

Comparable(m) == SameCohort(m) /\ V1.runtime = m.runtime

\* load_manifest; a manifest made for another source or runtime stops the command.
ManifestLoads_Unchecked == manifest # None

ManifestLoads ==
  /\ manifest # None
  /\ manifest.source = tree
  /\ manifest.runtime = runtime

\* _reference_binding
ReferenceBound ==
  /\ comparison # None
  /\ preflight.comparison = comparison
  /\ comparison.experiment = This

\* validate_reference
ReferenceValid ==
  /\ ReferenceBound
  /\ comparison.report = report
  /\ Comparable(manifest)

\* live_settings
SettingsValid ==
  /\ ManifestLoads
  /\ phoenix # None /\ preflight # None
  /\ phoenix = This
  /\ preflight.experiment = This
  /\ preflight.source = manifest.source
  /\ ReferenceValid

-----------------------------------------------------------------------------
(* preflight *)

\* reference_check of a candidate manifest; the requests and Phoenix's health are
\* checked next.
CheckReference(p) ==
  /\ Moves(p, "idle", "checked")
  /\ \E config \in Configs :
       /\ Comparable(NewManifest(config))
       /\ Holds(p, [config |-> config, report |-> report])
  /\ UNCHANGED <<world, files, work>>

\* initialize makes the manifest anew, of what is on disk by now.
Initialize(p) ==
  /\ Moves(p, "checked", "initialized")
  /\ manifest = None
  /\ manifest' = NewManifest(local[p].config)
  /\ UNCHANGED <<world, comparison, phoenix, preflight, local, work>>

WriteComparison(p) ==
  /\ Moves(p, "initialized", "bound")
  /\ comparison = None
  /\ comparison' = [experiment |-> This, report |-> local[p].report]
  /\ UNCHANGED <<world, manifest, phoenix, preflight, local, work>>

\* The span reaches Phoenix, or phoenix_span gives up on it and the preflight fails.
VerifyExport(p) ==
  /\ Moves(p, "bound", "verified")
  /\ probes' = probes \cup {This}
  /\ UNCHANGED <<tree, runtime, report, files, local, work>>

WritePhoenix(p) ==
  /\ Moves(p, "verified", "described")
  /\ phoenix = None
  /\ phoenix' = This
  /\ UNCHANGED <<world, manifest, comparison, preflight, local, work>>

WritePreflight(p) ==
  /\ Moves(p, "described", "idle")
  /\ preflight = None
  /\ preflight' = [experiment |-> This, source |-> manifest.source,
                   comparison |-> comparison]
  /\ Holds(p, None)
  /\ UNCHANGED <<world, manifest, comparison, phoenix, work>>

-----------------------------------------------------------------------------
(* run_live, with the paid approval *)

StartRun(p) ==
  /\ Moves(p, "idle", "approved")
  /\ SettingsValid
  /\ Holds(p, [source |-> tree, runtime |-> runtime, report |-> report])
  /\ UNCHANGED <<world, files, work>>

\* The saved probe is looked up again before the OpenAI client exists.
ConstructClient(p) ==
  /\ Moves(p, "approved", "paid")
  /\ preflight.experiment \in probes
  /\ UNCHANGED <<world, files, local, work>>

\* collect_runs
Collect(p) ==
  /\ Moves(p, "paid", "collecting")
  /\ ManifestLoads
  /\ lock = None
  /\ lock' = p
  /\ UNCHANGED <<world, files, local, session, summary>>

RunSession(p, c) ==
  /\ at[p] = "collecting"
  /\ session[c] = None
  /\ session' = [session EXCEPT ![c] = local[p]]
  /\ UNCHANGED <<world, files, at, local, lock, summary>>

\* evaluate_saved and save_report load the manifest again; a report on what there is
\* can be saved at any other time, too.
SaveReport(p) ==
  /\ \/ at[p] = "collecting" /\ \A c \in Cases : session[c] # None /\ lock' = None
     \/ at[p] = "idle" /\ UNCHANGED lock
  /\ ManifestLoads
  /\ at' = [at EXCEPT ![p] = "idle"]
  /\ summary' = {c \in Cases : session[c] # None}
  /\ Holds(p, None)
  /\ UNCHANGED <<world, files, session>>

\* A check fails, the network does, or the process is killed (and the operator removes
\* the lock it leaves): what is published stays.
Stop(p) ==
  /\ at[p] # "idle"
  /\ at' = [at EXCEPT ![p] = "idle"]
  /\ Holds(p, None)
  /\ lock' = IF lock = p THEN None ELSE lock
  /\ UNCHANGED <<world, files, session, summary>>

-----------------------------------------------------------------------------
(* The world *)

Edit == tree' \in Sources \ {tree} /\ UNCHANGED <<runtime, report, probes>>
Upgrade == runtime' \in Runtimes \ {runtime} /\ UNCHANGED <<tree, report, probes>>
ReplaceReport == report' \in Reports \ {report} /\ UNCHANGED <<tree, runtime, probes>>
LosePhoenix == probes # {} /\ probes' = {} /\ UNCHANGED <<tree, runtime, report>>

\* The files of another experiment, preflighted on any source, are copied into the gaps.
Borrow ==
  /\ manifest # None
  /\ \/ comparison = None /\ comparison' = [experiment |-> Other, report |-> report]
        /\ UNCHANGED <<phoenix, preflight>>
     \/ phoenix = None /\ phoenix' = Other /\ UNCHANGED <<comparison, preflight>>
     \/ preflight = None
        /\ \E s \in Sources, r \in Reports :
             preflight' = [experiment |-> Other, source |-> s,
                           comparison |-> [experiment |-> Other, report |-> r]]
        /\ UNCHANGED <<comparison, phoenix>>
  /\ UNCHANGED manifest

World ==
  \/ /\ (Edit \/ Upgrade \/ ReplaceReport \/ LosePhoenix)
     /\ UNCHANGED <<files, at, local, work>>
  \/ Borrow /\ UNCHANGED <<world, at, local, work>>

Preflight(p) ==
  \/ CheckReference(p) \/ Initialize(p) \/ WriteComparison(p)
  \/ VerifyExport(p) \/ WritePhoenix(p) \/ WritePreflight(p)

RunLive(p) ==
  \/ StartRun(p) \/ ConstructClient(p) \/ Collect(p)
  \/ \E c \in Cases : RunSession(p, c)
  \/ SaveReport(p)

Next ==
  \/ \E p \in Commands : Preflight(p) \/ RunLive(p) \/ Stop(p)
  \/ World

Spec == Init /\ [][Next]_vars

-----------------------------------------------------------------------------
(* compare_saved with the V1 report on disk: when it gives outcomes at all *)

Compared ==
  /\ summary # None /\ preflight # None
  /\ preflight.experiment = This
  /\ preflight.source = manifest.source
  /\ ReferenceBound
  /\ comparison.report = report
  /\ SameCohort(manifest)
  /\ V1.runtime = manifest.runtime

-----------------------------------------------------------------------------
(* Properties *)

\* Nothing is paid for outside the experiment that was preflighted: every paid session
\* ran on the source, the packages and with the V1 report that the preflight, complete
\* and its own, put on record (BASELINE.md 157, 269-277).
PaidAsPreflighted ==
  \A c \in Cases :
    session[c] # None =>
      /\ preflight # None /\ preflight.experiment = This /\ phoenix = This
      /\ session[c].source = preflight.source
      /\ session[c].runtime = manifest.runtime
      /\ session[c].report = preflight.comparison.report

\* Whenever compare_saved gives outcomes, the two sides differ in the prompt alone:
\* every V2 session it counts ran V1's controlled definitions, packages and settings
\* with another prompt, and the V1 report compared is the one those sessions were
\* approved against (compare.py 253-322, 397-410).
ComparisonControlled ==
  Compared =>
    \A c \in summary :
      /\ Definitions[session[c].source] = Definitions[V1.source]
      /\ Prompt[session[c].source] # Prompt[V1.source]
      /\ session[c].runtime = V1.runtime
      /\ manifest.config = V1.config
      /\ session[c].report = report
=============================================================================
