-------------------------- MODULE MCRunEvaluation --------------------------
(* RunEvaluation on an HTTP request, an inspection in two spellings, a look *)
(* into the logs and a tool that does not exist, for a case of each kind.   *)
EXTENDS RunEvaluation

CONSTANTS send, spec, specAlias, logs, unknown, nosuch,
          specTool, httpTool, logsTool, sourceTool, orders, noRoute, id1

MCRequests == {send, spec, specAlias, logs, unknown}
MCNormal ==
  [r \in MCRequests |-> IF r = unknown THEN Rejected ELSE r]
MCToolName ==
  (send :> httpTool) @@ (spec :> specTool) @@ (specAlias :> specTool)
    @@ (logs :> logsTool) @@ (unknown :> nosuch)
MCTools == {specTool, httpTool, logsTool, sourceTool, nosuch}
MCHttpTools == {specTool, httpTool}

MCRoute == [c \in Calls |-> IF c = logs THEN noRoute ELSE orders]
MCRequestedId == [c \in Calls |-> IF c = logs THEN id1 ELSE NoId]

Bug ==
  [kind |-> "bug", expected |-> "RESOLVED", endpoint |-> TRUE, reported |-> {},
   mentions5xx |-> FALSE, reproducible |-> TRUE, requests |-> {send}]
NoBug ==
  [kind |-> "no_bug", expected |-> "NO_BUG_FOUND", endpoint |-> TRUE,
   reported |-> {id1}, mentions5xx |-> TRUE, reproducible |-> TRUE, requests |-> {}]
Vague ==
  [kind |-> "inconclusive", expected |-> "INCONCLUSIVE", endpoint |-> FALSE,
   reported |-> {}, mentions5xx |-> FALSE, reproducible |-> FALSE, requests |-> {}]
MCCases == {Bug, NoBug, Vague}
=============================================================================
