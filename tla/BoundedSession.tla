--------------------------- MODULE BoundedSession ---------------------------
(***************************************************************************)
(* What a debug session promises, without its loop: it takes decisions and *)
(* makes calls within its budgets, never takes back a call it has made,    *)
(* and closes once, one way.  AgentLoop implements it; so does anything    *)
(* that bills a session by its decisions and its calls.                    *)
(***************************************************************************)
EXTENDS Naturals, Sequences, FiniteSets

CONSTANTS Calls, MaxDecisions, MaxToolCalls, MaxIdentical

VARIABLES
  decisions,   \* how many decisions the session has taken
  calls,       \* the calls it has made, in order, answered or not
  end          \* "open", or how the session closed

billing == <<decisions, calls, end>>

Ends == {"returned", "raised", "cancelled"}

Made(c) == Cardinality({i \in 1..Len(calls) : calls[i] = c})

Init ==
  /\ decisions = 0
  /\ calls = <<>>
  /\ end = "open"

Call(c) ==
  /\ Len(calls) < MaxToolCalls
  /\ Made(c) < MaxIdentical
  /\ calls' = Append(calls, c)

\* A decision, alone or with the call it asks for.
Decide ==
  /\ end = "open"
  /\ decisions < MaxDecisions
  /\ decisions' = decisions + 1
  /\ UNCHANGED calls \/ \E c \in Calls : Call(c)
  /\ end' \in {"open", "returned"}
  /\ end' = "returned" => UNCHANGED calls

\* The same call again, without a new decision.
Retry ==
  /\ end = "open"
  /\ calls # <<>>
  /\ Call(calls[Len(calls)])
  /\ UNCHANGED <<decisions, end>>

Close ==
  /\ end = "open"
  /\ end' \in Ends
  /\ UNCHANGED <<decisions, calls>>

Next == Decide \/ Retry \/ Close

Spec == Init /\ [][Next]_billing
=============================================================================
