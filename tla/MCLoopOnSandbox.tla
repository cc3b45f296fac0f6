-------------------------- MODULE MCLoopOnSandbox --------------------------
(* An order for one of two items in stock that the session may place, retry *)
(* and place again, inspections of the logs of its first request and of the *)
(* one its user's report quotes, and the other client that made the latter. *)
EXTENDS LoopOnSandbox, TLC

CONSTANTS order, logsOfFirst, logsOfQuoted, http, threaded, other, keyboard

MCRequests == {order, logsOfFirst, logsOfQuoted}
MCNormal == [r \in MCRequests |-> r]
MCToolName == [r \in MCRequests |-> IF r = order THEN http ELSE threaded]
MCTools == {http, threaded}
MCHttpTools == {http}
MCSlots == 1..MaxToolCalls
MCOthers == {other}
MCRequestIds == MCSlots \cup MCOthers
MCOperationOf ==
  order :> [kind |-> "create_order", product |-> keyboard, quantity |-> 1]
MCInspectedId == (logsOfFirst :> 1) @@ (logsOfQuoted :> other)
\* What the session asks for, and what the other client may: the same order, which takes
\* from the stock and holds the lock, or a read that is answered 404.  All operations of
\* the Sandbox API meet in the run of SandboxApi.
MCRequested ==
  {MCOperationOf[order], [kind |-> "get_product", product |-> Unknown]}
MCInitialStock == keyboard :> 2
=============================================================================
