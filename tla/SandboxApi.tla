----------------------------- MODULE SandboxApi -----------------------------
(***************************************************************************)
(* The Sandbox API under concurrent requests (src/sandbox_api/main.py,     *)
(* db.py): handlers run in a thread pool, each on a connection of its own, *)
(* inside a middleware that writes two rows of request_logs.               *)
(*                                                                         *)
(* SQLite as the code uses it: a statement outside a transaction is      *)
(* atomic; BEGIN IMMEDIATE takes the one write lock until commit or      *)
(* rollback; what its statements have written is nobody else's before the *)
(* commit, and gone after a rollback or a crash; a write that waits for  *)
(* the lock too long raises OperationalError.  Prices, names, bodies and *)
(* headers other than the request id are left out.  An order or a payment *)
(* is denoted by its position, which AUTOINCREMENT makes its id.         *)
(***************************************************************************)
EXTENDS Naturals, Sequences, FiniteSets, SequenceFolds

CONSTANTS
  Requests,      \* one slot for each request served
  Products,      \* rows of products
  Stocked,       \* those with a row in inventory
  Unknown,       \* a product id without a row
  SilentUnknown, \* product 999, answered 200 although it has no row
  Quantities,    \* quantities a body may carry and the models accept (gt=0)
  Requested,     \* the operations clients ask for
  InitialStock,  \* the fixture's quantity
  None

ASSUME SandboxAssumption ==
  /\ Stocked \subseteq Products
  /\ {Unknown, SilentUnknown} \cap Products = {}
  /\ Quantities \subseteq Nat \ {0}
  /\ InitialStock \in [Stocked -> Nat]
  /\ None \notin Requests /\ None # 201

ProductIds == Products \cup {Unknown, SilentUnknown}
OrderIds == 1..Cardinality(Requests)

Operations ==
  [kind : {"get_product"}, product : ProductIds]
    \cup [kind : {"update_inventory", "create_order"}, product : ProductIds,
          quantity : Quantities]
    \cup [kind : {"get_order", "create_payment"}, order : OrderIds]

ASSUME RequestedAssumption == Requested \subseteq Operations

VARIABLES
  stock,     \* inventory.quantity
  orders,    \* the rows of orders, with the request that made each
  payments,  \* the rows of payments
  uncommitted, \* rows of orders that the open transaction has inserted
  logs,      \* the rows of request_logs, by request id
  writer,    \* the request whose transaction holds the write lock
  at,        \* where each request is
  op,        \* what it asks for
  row,       \* what its handler has read
  result,    \* the status its handler produced
  answer,    \* what the client got
  supplied   \* history: per product, the fixture's stock and every change by PATCH

tables == <<stock, orders, payments, uncommitted>>
vars == <<tables, logs, writer, at, op, row, result, answer, supplied>>

Init ==
  /\ stock = InitialStock
  /\ orders = <<>>
  /\ payments = <<>>
  /\ uncommitted = <<>>
  /\ logs = [r \in Requests |-> <<>>]
  /\ writer = None
  /\ at = [r \in Requests |-> "new"]
  /\ op = [r \in Requests |-> None]
  /\ row = [r \in Requests |-> None]
  /\ result = [r \in Requests |-> None]
  /\ answer = [r \in Requests |-> None]
  /\ supplied = InitialStock

Moves(r, from, to) == at[r] = from /\ at' = [at EXCEPT ![r] = to]
Is(r, kind) == op[r].kind = kind
Responds(r, from, status) ==
  /\ Moves(r, from, "handled")
  /\ result' = [result EXCEPT ![r] = status]
Log(r, event, status) ==
  logs' = [logs EXCEPT ![r] = Append(@, [event_type |-> event, status_code |-> status])]

-----------------------------------------------------------------------------
(* The middleware, before the handler and after it *)

Receive(r) ==
  /\ Moves(r, "new", "received")
  /\ writer = None
  /\ \E o \in Requested : op' = [op EXCEPT ![r] = o]
  /\ Log(r, "request_received", None)
  /\ UNCHANGED <<tables, writer, row, result, answer, supplied>>

Answer_Unlogged(r) ==
  /\ Moves(r, "handled", "answered")
  /\ answer' = [answer EXCEPT ![r] = [status |-> result[r], request_id |-> TRUE]]
  /\ UNCHANGED <<tables, logs, writer, op, row, result, supplied>>

\* An HTTPException is a response; any other exception was caught here (500).
Answer(r) ==
  /\ Moves(r, "handled", "answered")
  /\ writer = None
  /\ Log(r, IF result[r] = 500 THEN "request_failed" ELSE "response_sent", result[r])
  /\ answer' = [answer EXCEPT ![r] = [status |-> result[r], request_id |-> TRUE]]
  /\ UNCHANGED <<tables, writer, op, row, result, supplied>>

\* A log row cannot be written: both inserts are outside the middleware's try, so the
\* server answers 500 without a request id, whatever the handler has done.
LogFails(r) ==
  /\ at[r] \in {"new", "handled"}
  /\ writer \notin {None, r}
  /\ at' = [at EXCEPT ![r] = "answered"]
  /\ answer' = [answer EXCEPT ![r] = [status |-> 500, request_id |-> FALSE]]
  /\ UNCHANGED <<tables, logs, writer, op, row, result, supplied>>

-----------------------------------------------------------------------------
(* The handlers of one statement *)

GetProduct(r) ==
  /\ Is(r, "get_product")
  /\ Responds(r, "received", IF op[r].product = Unknown THEN 404 ELSE 200)
  /\ UNCHANGED <<tables, logs, writer, op, row, answer, supplied>>

GetOrder(r) ==
  /\ Is(r, "get_order")
  /\ Responds(r, "received", IF op[r].order <= Len(orders) THEN 200 ELSE 404)
  /\ UNCHANGED <<tables, logs, writer, op, row, answer, supplied>>

UpdateInventory_OverLock(r) ==
  /\ Is(r, "update_inventory")
  /\ LET p == op[r].product
         q == op[r].quantity
     IN  IF p \in Stocked
         THEN /\ stock' = [stock EXCEPT ![p] = q]
              /\ supplied' = [supplied EXCEPT ![p] = (@ + q) - stock[p]]
              /\ Responds(r, "received", 200)
         ELSE Responds(r, "received", 404) /\ UNCHANGED <<stock, supplied>>
  /\ UNCHANGED <<orders, payments, uncommitted, logs, writer, op, row, answer>>

UpdateInventory(r) ==
  /\ Is(r, "update_inventory")
  /\ writer = None
  /\ LET p == op[r].product
         q == op[r].quantity
     IN  IF p \in Stocked
         THEN /\ stock' = [stock EXCEPT ![p] = q]
              /\ supplied' = [supplied EXCEPT ![p] = (@ + q) - stock[p]]
              /\ Responds(r, "received", 200)
         ELSE Responds(r, "received", 404) /\ UNCHANGED <<stock, supplied>>
  /\ UNCHANGED <<orders, payments, uncommitted, logs, writer, op, row, answer>>

-----------------------------------------------------------------------------
(* create_order: one transaction *)

\* BEGIN IMMEDIATE and the two SELECTs.
BeginOrder(r) ==
  /\ Is(r, "create_order")
  /\ Moves(r, "received", "ordering")
  /\ writer = None
  /\ writer' = r
  /\ row' = [row EXCEPT ![r] = IF op[r].product \in Stocked THEN stock[op[r].product]
                               ELSE None]
  /\ UNCHANGED <<tables, logs, op, result, answer, supplied>>

RollBackOrder_LockKept(r) ==
  /\ Is(r, "create_order")
  /\ at[r] = "ordering"
  /\ \/ op[r].product \notin Products /\ Responds(r, "ordering", 404)
     \/ op[r].product \in Products \ Stocked /\ Responds(r, "ordering", 500)
     \/ /\ op[r].product \in Stocked
        /\ row[r] < op[r].quantity
        /\ Responds(r, "ordering", 409)
  /\ UNCHANGED <<tables, logs, writer, op, row, answer, supplied>>

\* LookupError is a 404 and ValueError a 409; without an inventory row the comparison
\* raises TypeError, which nothing translates.
RollBackOrder(r) ==
  /\ Is(r, "create_order")
  /\ at[r] = "ordering"
  /\ \/ op[r].product \notin Products /\ Responds(r, "ordering", 404)
     \/ op[r].product \in Products \ Stocked /\ Responds(r, "ordering", 500)
     \/ /\ op[r].product \in Stocked
        /\ row[r] < op[r].quantity
        /\ Responds(r, "ordering", 409)
  /\ writer' = None
  /\ UNCHANGED <<tables, logs, op, row, answer, supplied>>

NewOrder(r) == [by |-> r, product |-> op[r].product, quantity |-> op[r].quantity]

InsertOrder_Committed(r) ==
  /\ Is(r, "create_order")
  /\ Moves(r, "ordering", "inserted")
  /\ op[r].product \in Stocked
  /\ row[r] >= op[r].quantity
  /\ orders' = Append(orders, NewOrder(r))
  /\ UNCHANGED <<stock, payments, uncommitted, logs, writer, op, row, result, answer,
                 supplied>>

InsertOrder(r) ==
  /\ Is(r, "create_order")
  /\ Moves(r, "ordering", "inserted")
  /\ op[r].product \in Stocked
  /\ row[r] >= op[r].quantity
  /\ uncommitted' = Append(uncommitted, NewOrder(r))
  /\ UNCHANGED <<stock, orders, payments, logs, writer, op, row, result, answer, supplied>>

\* The UPDATE, which subtracts in the database, and the commit.  The table's
\* CHECK (quantity >= 0) has nothing to stop as long as StockConserved holds.
CommitOrder(r) ==
  /\ Is(r, "create_order")
  /\ Responds(r, "inserted", 201)
  /\ orders' = orders \o uncommitted
  /\ uncommitted' = <<>>
  /\ stock' = [stock EXCEPT ![op[r].product] = @ - op[r].quantity]
  /\ writer' = None
  /\ UNCHANGED <<payments, logs, op, row, answer, supplied>>

-----------------------------------------------------------------------------
(* create_payment: a SELECT, and an INSERT in a transaction of its own *)

ReadOrder(r) ==
  /\ Is(r, "create_payment")
  /\ IF op[r].order <= Len(orders)
     THEN /\ Moves(r, "received", "paying")
          /\ row' = [row EXCEPT ![r] = orders[op[r].order]]
          /\ UNCHANGED result
     ELSE Responds(r, "received", 404) /\ UNCHANGED row
  /\ UNCHANGED <<tables, logs, writer, op, answer, supplied>>

InsertPayment_NotCommitted(r) ==
  /\ Is(r, "create_payment")
  /\ at[r] = "paying"
  /\ writer = None
  /\ Responds(r, "paying", 201)
  /\ UNCHANGED <<tables, logs, writer, op, row, answer, supplied>>

InsertPayment(r) ==
  /\ Is(r, "create_payment")
  /\ at[r] = "paying"
  /\ writer = None
  /\ payments' = Append(payments, [by |-> r, order |-> op[r].order, amount_of |-> row[r]])
  /\ Responds(r, "paying", 201)
  /\ UNCHANGED <<stock, orders, uncommitted, logs, writer, op, row, answer, supplied>>

-----------------------------------------------------------------------------
\* A handler's write, or its BEGIN IMMEDIATE, waits for the lock in vain.
WriteFails(r) ==
  /\ writer \notin {None, r}
  /\ \/ Is(r, "update_inventory") /\ Responds(r, "received", 500)
     \/ Is(r, "create_order") /\ Responds(r, "received", 500)
     \/ Is(r, "create_payment") /\ Responds(r, "paying", 500)
  /\ UNCHANGED <<tables, logs, writer, op, row, answer, supplied>>

\* The process dies and is started again (initialize ignores the rows that exist):
\* every request in progress is lost, and with it what it has not committed.
InProgress(r) == at[r] \notin {"new", "answered", "lost"}
Crash ==
  /\ \E r \in Requests : InProgress(r)
  /\ at' = [r \in Requests |-> IF InProgress(r) THEN "lost" ELSE at[r]]
  /\ writer' = None
  /\ uncommitted' = <<>>
  /\ UNCHANGED <<stock, orders, payments, logs, op, row, result, answer, supplied>>

Handle(r) ==
  /\ op[r] # None
  /\ \/ GetProduct(r) \/ GetOrder(r) \/ UpdateInventory(r)
     \/ BeginOrder(r) \/ RollBackOrder(r) \/ InsertOrder(r) \/ CommitOrder(r)
     \/ ReadOrder(r) \/ InsertPayment(r)
     \/ WriteFails(r)

Next ==
  \/ \E r \in Requests : Receive(r) \/ Handle(r) \/ Answer(r) \/ LogFails(r)
  \/ Crash

Spec == Init /\ [][Next]_vars /\ \A r \in Requests : WF_vars(Handle(r) \/ Answer(r))

-----------------------------------------------------------------------------
(* Properties *)

Sold(rows, p) ==
  Total([i \in 1..Len(rows) |-> IF rows[i].product = p THEN rows[i].quantity ELSE 0])
Ordered(p) == Sold(orders, p)

\* Nothing is sold twice and nothing is lost: what is left of a product and what was
\* ordered make up what was ever supplied, and it is never overdrawn, whatever orders and
\* updates interleave and wherever the process dies, between the INSERT and the UPDATE
\* too: no row of a transaction shows or lasts without the other (create_order).
StockConserved ==
  \A p \in Stocked : stock[p] \in Nat /\ stock[p] + Ordered(p) = supplied[p]

\* A client that is told 201 has its order or payment, once; one that is told anything
\* else by the handler has none; and a payment is for the order it names, as it is.
WritesAnswered ==
  \A r \in Requests :
    LET made == Cardinality({i \in 1..Len(orders) : orders[i].by = r})
                  + Cardinality({i \in 1..Len(payments) : payments[i].by = r})
    IN  /\ made = IF result[r] = 201 THEN 1 ELSE 0
        /\ \A i \in 1..Len(payments) :
             /\ payments[i].order <= Len(orders)
             /\ payments[i].amount_of = orders[payments[i].order]

\* What inspect_server_logs relies on: a request id the client has been given finds
\* exactly the request's two rows, in order, the second with the status it was
\* answered; and an answer without an id is a 500 that is not on record.
LogsTellTheAnswer ==
  \A r \in Requests :
    at[r] = "answered" =>
      IF answer[r].request_id
      THEN /\ [i \in 1..Len(logs[r]) |-> logs[r][i].event_type]
                = <<"request_received",
                    IF answer[r].status = 500 THEN "request_failed" ELSE "response_sent">>
           /\ logs[r][2].status_code = answer[r].status
      ELSE Len(logs[r]) <= 1 /\ answer[r].status = 500

\* Every request is answered unless the process dies under it: no transaction keeps
\* the write lock, so that in the end, the clients done, nobody waits.
RequestsAnswered == <>[](\A r \in Requests : ~InProgress(r))
=============================================================================
