--------------------------- MODULE MCToolResults ---------------------------
(* Two procedures between a tool call and the model: the contract that        *)
(* inspect_api_spec builds, and the text the observations of a call become.   *)
(* They share nothing; the initial state decides which of them is run.        *)
EXTENDS InspectApiSpec, FunctionOutput

\* A call refused for its endpoint.
NothingToInspect ==
  /\ components = {} /\ operation = {} /\ body = None
  /\ references = [n \in Names |-> {}]
  /\ names = {} /\ relevant = {}
  /\ at = "failed" /\ answer = "ENDPOINT_NOT_ALLOWED"

NothingToReturn == given = <<>> /\ items = <<>> /\ flagged = FALSE /\ stage = "returned"

MCInit == (Init /\ NothingToReturn) \/ (NothingToInspect /\ OInit)
MCNext == (Next /\ UNCHANGED ovars) \/ (ONext /\ UNCHANGED vars)
MCSpec == MCInit /\ [][MCNext]_<<vars, ovars>> /\ WF_vars(Next)
=============================================================================
