--------------------------- MODULE InspectApiSpec ---------------------------
(***************************************************************************)
(* The tool inspect_api_spec                                               *)
(* (src/agent_service/tools/inspect_api_spec.py): it fetches the Sandbox's *)
(* OpenAPI document and follows the references of an operation through the *)
(* document's schemas, which may refer to each other in circles or to      *)
(* schemas that are not there.  The names still to visit are a Python set: *)
(* pop() takes any of them.                                                *)
(*                                                                         *)
(* A schema is its name and the names it refers to; what else the contract *)
(* copies from the document is left out.                                   *)
(***************************************************************************)
EXTENDS FiniteSets

CONSTANTS
  Names,   \* the schema names that may occur in the document
  None

ASSUME NamesAssumption == None \notin Names

VARIABLES
  components,  \* the document: the names of its schemas,
  references,  \*   what each schema refers to,
  operation,   \*   what the operation refers to,
  body,        \*   and the reference its request schema is, or None
  names,       \* the local `names` of _referenced_schemas
  relevant,    \* the keys of its local `relevant`
  at,          \* "called", "following", "built" or, without a document, "failed"
  answer       \* the ToolResult: its error_type, "OK" or None

document == <<components, references, operation, body>>
vars == <<document, names, relevant, at, answer>>

\* Any document.
Init ==
  /\ components \in SUBSET Names
  /\ references \in [Names -> SUBSET Names]
  /\ operation \in SUBSET Names
  /\ body \in operation \cup {None}
  /\ names = {}
  /\ relevant = {}
  /\ at = "called"
  /\ answer = None

Returns(end, result) ==
  /\ at' = end
  /\ answer' = result
  /\ UNCHANGED <<document, relevant>>

\* The endpoint is not approved, or the document cannot be had.
NoDocument ==
  /\ at = "called"
  /\ \E error \in {"ENDPOINT_NOT_ALLOWED", "TOOL_TIMEOUT", "TOOL_HTTP_ERROR"} :
       Returns("failed", error)
  /\ UNCHANGED names

StartFollowing ==
  /\ at = "called"
  /\ at' = "following"
  /\ names' = operation
  /\ UNCHANGED <<document, relevant, answer>>

SkipKnown(n) ==
  /\ at = "following"
  /\ n \in names \cap relevant
  /\ names' = names \ {n}
  /\ UNCHANGED <<document, relevant, at, answer>>

FollowSchema_Revisiting(n) ==
  /\ at = "following"
  /\ n \in names
  /\ n \in components
  /\ relevant' = relevant \cup {n}
  /\ names' = (names \ {n}) \cup references[n]
  /\ UNCHANGED <<document, at, answer>>

FollowSchema_Shallow(n) ==
  /\ at = "following"
  /\ n \in names \ relevant
  /\ n \in components
  /\ relevant' = relevant \cup {n}
  /\ names' = names \ {n}
  /\ UNCHANGED <<document, at, answer>>

FollowSchema(n) ==
  /\ at = "following"
  /\ n \in names \ relevant
  /\ n \in components
  /\ relevant' = relevant \cup {n}
  /\ names' = (names \ {n}) \cup references[n]
  /\ UNCHANGED <<document, at, answer>>

\* all_schemas[name] raises KeyError.
MissingSchema(n) ==
  /\ at = "following"
  /\ n \in names \ relevant
  /\ n \notin components
  /\ names' = names \ {n}
  /\ Returns("built", "TOOL_HTTP_ERROR")

\* The loop is left, and _required_fields looks the request's schema up.
BuildContract ==
  /\ at = "following"
  /\ names = {}
  /\ Returns("built", IF body \in components \cup {None} THEN "OK" ELSE "TOOL_HTTP_ERROR")
  /\ UNCHANGED names

Next ==
  \/ NoDocument
  \/ StartFollowing
  \/ \E n \in Names : SkipKnown(n) \/ FollowSchema(n) \/ MissingSchema(n)
  \/ BuildContract

\* The tool runs; httpx's timeout bounds the wait for the document.
Spec == Init /\ [][Next]_vars /\ WF_vars(Next)

-----------------------------------------------------------------------------
(* Properties *)

\* The names an operation leads to, through schemas that are there: the least set that
\* holds its references and those of its own members.
Closed(S) ==
  /\ operation \subseteq S
  /\ \A n \in S \cap components : references[n] \subseteq S
Reachable == {n \in Names : \A S \in SUBSET Names : Closed(S) => n \in S}

\* The contract holds the schemas the operation leads to and no others, in whatever
\* order they are followed and however they refer to each other; and there is one
\* exactly when none of them is missing, so that the lookup of the required fields
\* meets nothing new (_referenced_schemas, _build_contract).
ContractIsComplete ==
  at = "built" =>
    IF Reachable \subseteq components THEN answer = "OK" /\ relevant = Reachable
    ELSE answer = "TOOL_HTTP_ERROR"

\* Schemas that refer to each other do not keep the tool, and with it the event loop
\* that runs it and its session's deadline, busy for ever (the test of line 140).
InspectionEnds == <>(at \in {"built", "failed"})
=============================================================================
