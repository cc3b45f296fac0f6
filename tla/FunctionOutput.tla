--------------------------- MODULE FunctionOutput ---------------------------
(***************************************************************************)
(* _function_output (src/agent_service/agent/openai_provider.py): the      *)
(* observations that answer a function call, as one JSON text within a     *)
(* budget of characters.  A text that is too long is shortened, and when   *)
(* that does not do, reduced to fixed fields.                              *)
(*                                                                         *)
(* Only lengths matter.  A string is its number of characters and how many *)
(* of them one takes in JSON (1, or 6 for a control character); data and   *)
(* the details of an error are the length of their JSON text.              *)
(***************************************************************************)
EXTENDS Naturals, Sequences, SequenceFolds

CONSTANTS
  Budget,       \* MAX_FUNCTION_OUTPUT_CHARS
  NameLengths,  \* of the names the model may ask for,
  ToolLengths,  \*   and of the tools there are
  DataLengths, DetailLengths, MessageLengths, IdLengths,
  Null          \* null

ASSUME OutputAssumption ==
  /\ Budget \in Nat
  /\ ToolLengths \cup NameLengths \cup DataLengths \subseteq Nat
  /\ DetailLengths \cup MessageLengths \cup IdLengths \subseteq Nat
  /\ Null \notin Nat
  /\ Null \notin [chars : Nat, width : Nat]
  /\ Null \notin [type : Nat, message : [chars : Nat, width : Nat], details : Nat \cup {Null}]

VARIABLES
  given,     \* state.observations[start:]
  items,     \* the local `observations`
  flagged,   \* the output says data_truncated
  stage      \* "dumped", "shortened", "reduced" or "returned"

ovars == <<given, items, flagged, stage>>

-----------------------------------------------------------------------------
(* The observations a call may get *)

Strings(lengths) == [chars : lengths, width : {1, 6}]

ToolNames == [chars : ToolLengths, width : {1}]

TypeLength == 33  \* of the longest error type, IDENTICAL_TOOL_CALL_LIMIT_REACHED

Failures(names, details) ==
  [tool_name : names, data : {Null}, request_id : {Null},
   error : [type : {TypeLength}, message : Strings(MessageLengths), details : details]]

Successes ==
  [tool_name : ToolNames, data : DataLengths, error : {Null},
   request_id : {Null} \cup Strings(IdLengths)]

ToolResults == Successes \cup Failures(ToolNames, {Null})

\* A rejection or a refusal, a result, or a timeout and the result of its retry.
Observations ==
  {<<o>> : o \in Failures(Strings(NameLengths), {Null} \cup DetailLengths) \cup ToolResults}
    \cup {<<o, p>> : o \in Failures(ToolNames, {Null}), p \in ToolResults}

OInit ==
  /\ given \in Observations
  /\ items = given
  /\ flagged = FALSE
  /\ stage = "dumped"

-----------------------------------------------------------------------------
(* json.dumps *)

StringLength(s) == IF s = Null THEN 4 ELSE 2 + s.chars * s.width
DataLength(d) == IF d = Null THEN 4 ELSE d

\* {"type": "...", "message": ...} or with , "details": ...
ErrorLength(e) ==
  IF e = Null THEN 4
  ELSE 25 + e.type + StringLength(e.message)
       + IF e.details = Null THEN 0 ELSE 13 + e.details

\* The keys and punctuation of an item take 65 characters, false one more than true.
ItemLength(o) ==
  65 + StringLength(o.tool_name) + DataLength(o.data) + ErrorLength(o.error)
  + StringLength(o.request_id) + IF o.error = Null THEN 4 ELSE 5

\* {"observations": [...]} and , "data_truncated": true
Length(observations, flag) ==
  20 + (IF flag THEN 24 ELSE 0)
  + Total([i \in 1..Len(observations) |-> ItemLength(observations[i])])
  + 2 * (Len(observations) - 1)

-----------------------------------------------------------------------------
(* _function_output *)

Cut(s, n) == IF s = Null THEN Null ELSE [s EXCEPT !.chars = IF @ > n THEN n ELSE @]
Truncated(d) == IF d = Null THEN Null ELSE 19  \* {"truncated": true}

ShortMessage(e) == IF e = Null THEN Null ELSE [e EXCEPT !.message = Cut(@, 500)]
WithoutDetails(e) == IF e = Null THEN Null ELSE [e EXCEPT !.details = Null]

Shortened(o) == [o EXCEPT !.data = Truncated(@), !.error = ShortMessage(@)]

Reduced_WholeName(o) ==
  [Shortened(o) EXCEPT
     !.request_id = Cut(@, 100),
     !.error = WithoutDetails(@)]

Reduced(o) ==
  [Shortened(o) EXCEPT
     !.tool_name = Cut(@, 100),
     !.request_id = Cut(@, 100),
     !.error = WithoutDetails(@)]

TooLong == Length(items, flagged) > Budget

Rewrite(from, to, shorter) ==
  /\ stage = from
  /\ TooLong
  /\ stage' = to
  /\ items' = shorter
  /\ flagged' = TRUE
  /\ UNCHANGED given

Shorten == Rewrite("dumped", "shortened", [i \in 1..Len(items) |-> Shortened(items[i])])
Reduce == Rewrite("shortened", "reduced", [i \in 1..Len(items) |-> Reduced(items[i])])

Return ==
  /\ IF TooLong THEN stage = "reduced" ELSE stage # "returned"
  /\ stage' = "returned"
  /\ UNCHANGED <<given, items, flagged>>

ONext == Shorten \/ Reduce \/ Return

OSpec == OInit /\ [][ONext]_ovars

-----------------------------------------------------------------------------
(* Properties *)

\* However long names, data, messages and details are, and whatever escaping makes of
\* them, the call's output fits the budget, has an item for every observation in its
\* place with the data and the error (of the same type) that it had, is whole if it
\* could be, and says so exactly when something is gone: reducing always suffices, and
\* always takes something away (openai_provider.py 152-177).
OutputUsable ==
  stage = "returned" =>
    /\ Length(items, flagged) <= Budget
    /\ Len(items) = Len(given)
    /\ \A i \in 1..Len(given) :
         /\ items[i].data = Null <=> given[i].data = Null
         /\ items[i].error = Null <=> given[i].error = Null
         /\ given[i].error # Null => items[i].error.type = given[i].error.type
    /\ flagged <=> items # given
    /\ flagged <=> Length(given, FALSE) > Budget
=============================================================================
