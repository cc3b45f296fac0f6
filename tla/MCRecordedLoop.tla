--------------------------- MODULE MCRecordedLoop ---------------------------
(* The loop under both of its recorders at once: they only listen, so one    *)
(* exploration of the loop serves all three.  Two spellings of one HTTP call, *)
(* a threaded call and a request for a tool that does not exist.            *)
EXTENDS EvaluationRecorder, DemoRecorder

CONSTANTS a, aVariant, b, bad, http, threaded, unknown

MCRequests == {a, aVariant, b, bad}
MCNormal == (a :> a) @@ (aVariant :> a) @@ (b :> b) @@ (bad :> Rejected)
MCToolName == (a :> http) @@ (aVariant :> http) @@ (b :> threaded) @@ (bad :> unknown)
MCTools == {http, threaded, unknown}
MCHttpTools == {http}
MCShownTools == {http, threaded}

MCInit == EInit /\ DInit
MCNext == ENext /\ DStep
MCSpec == MCInit /\ [][MCNext]_<<evars, timeline>> /\ Fairness
=============================================================================
