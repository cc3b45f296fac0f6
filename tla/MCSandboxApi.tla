---------------------------- MODULE MCSandboxApi ----------------------------
(* One product in stock and one without an inventory row. *)
EXTENDS SandboxApi, TLC

CONSTANTS keyboard, adapter

MCProducts == {keyboard, adapter}
MCStocked == {keyboard}
MCInitialStock == keyboard :> 2

\* Every kind of request; of requests that are treated alike (what is asked of a product
\* that is not in stock, or to read an order), one.
MCRequested ==
  {o \in Operations :
     CASE o.kind = "get_product" -> o.product # adapter
       [] o.kind \in {"update_inventory", "create_order"} ->
            \/ o.product = keyboard
            \/ o.quantity = 1 /\ o.product # SilentUnknown
       [] o.kind = "get_order" -> o.order = 1
       [] o.kind = "create_payment" -> TRUE}
=============================================================================
