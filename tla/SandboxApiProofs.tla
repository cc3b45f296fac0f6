-------------------------- MODULE SandboxApiProofs --------------------------
(***************************************************************************)
(* What the Sandbox API's answers, rows and logs say of each other, for    *)
(* any number of requests, products and crashes.  A request's part of the  *)
(* invariant (RequestInv) says what it has left behind at each point of    *)
(* its way; the lock (LockInv) keeps what an order has read true until it  *)
(* commits.                                                                *)
(***************************************************************************)
EXTENDS SandboxApi, SequenceFacts, FiniteSetTheorems, SequenceTheorems, TLAPS

OrderRow == [by : Requests, product : ProductIds, quantity : Nat]
PaymentRow == [by : Requests, order : Nat, amount_of : OrderRow]

TypeInv ==
  /\ stock \in [Stocked -> Nat]
  /\ orders \in Seq(OrderRow)
  /\ payments \in Seq(PaymentRow)
  /\ uncommitted \in Seq(OrderRow)
  /\ op \in [Requests -> Operations \cup {None}]
  /\ DOMAIN logs = Requests
  /\ DOMAIN at = Requests
  /\ DOMAIN row = Requests
  /\ DOMAIN result = Requests
  /\ DOMAIN answer = Requests

\* An order in progress has the lock, and what it has read is so.
Ordering(r) == at[r] \in {"ordering", "inserted"}
LockInv ==
  \A r \in Requests :
    Ordering(r) =>
      /\ writer = r
      /\ op[r] # None /\ op[r].product \in Stocked => row[r] = stock[op[r].product]

\* What the open transaction has inserted is its order, for which there is enough.
Inserted(r) ==
  at[r] = "inserted" =>
    /\ op[r] # None /\ Is(r, "create_order")
    /\ op[r].product \in Stocked /\ row[r] >= op[r].quantity
    /\ uncommitted = <<NewOrder(r)>>
InsertedInv ==
  /\ \A r \in Requests : Inserted(r)
  /\ (\A r \in Requests : at[r] # "inserted") => uncommitted = <<>>

By(rows, r) == {i \in 1..Len(rows) : rows[i].by = r}
Made(r) == Cardinality(By(orders, r)) + Cardinality(By(payments, r))

Received == [event_type |-> "request_received", status_code |-> None]

LogsTell(r) ==
  IF answer[r].request_id
  THEN \E end : /\ logs[r] = <<Received, end>>
                /\ end.event_type = IF answer[r].status = 500 THEN "request_failed"
                                    ELSE "response_sent"
                /\ end.status_code = answer[r].status
                /\ answer[r].status = result[r]
  ELSE logs[r] \in {<<>>, <<Received>>} /\ answer[r].status = 500

Stages == {"new", "received", "ordering", "inserted", "paying", "handled", "answered", "lost"}

RequestInv(r) ==
  /\ at[r] \in Stages
  /\ Made(r) = IF result[r] = 201 THEN 1 ELSE 0
  /\ at[r] \in {"new", "received", "ordering", "inserted", "paying"} => result[r] = None
  /\ at[r] = "paying" =>
       op[r].order \in 1..Len(orders) /\ row[r] = orders[op[r].order]
  /\ at[r] = "new" => logs[r] = <<>>
  /\ at[r] \in Stages \ {"new", "answered"} => logs[r] = <<Received>>
  /\ at[r] = "answered" => LogsTell(r)

PaymentsInv ==
  \A i \in 1..Len(payments) :
    /\ payments[i].order \in 1..Len(orders)
    /\ payments[i].amount_of = orders[payments[i].order]

SandboxInv ==
  TypeInv /\ LockInv /\ InsertedInv /\ PaymentsInv /\ \A r \in Requests : RequestInv(r)

-----------------------------------------------------------------------------
(* Rows and operations *)

LEMMA RowsAreFew ==
  ASSUME NEW S, NEW rows \in Seq(S), NEW r
  PROVE  IsFiniteSet(By(rows, r)) /\ Cardinality(By(rows, r)) \in Nat
<1>1. Len(rows) \in Nat
  OBVIOUS
<1>2. IsFiniteSet(1..Len(rows))
  BY <1>1, FS_Interval
<1>3. By(rows, r) \subseteq 1..Len(rows)
  BY DEF By
<1>4. IsFiniteSet(By(rows, r))
  BY <1>2, <1>3, FS_Subset
<1> QED BY <1>4, FS_CardinalityType

\* A new row is its writer's and nobody else's.
LEMMA NewRow ==
  ASSUME NEW S, NEW rows \in Seq(S), NEW x \in S, NEW r
  PROVE  /\ x.by # r => By(Append(rows, x), r) = By(rows, r)
         /\ x.by = r => Cardinality(By(Append(rows, x), r)) = Cardinality(By(rows, r)) + 1
<1> DEFINE n == Len(rows) + 1
<1>1. Len(rows) \in Nat /\ Len(Append(rows, x)) = n /\ Append(rows, x)[n] = x
  OBVIOUS
<1>2. \A i \in 1..Len(rows) : Append(rows, x)[i] = rows[i]
  OBVIOUS
<1>3. 1..n = (1..Len(rows)) \cup {n}
  BY <1>1
<1>4. CASE x.by # r
  BY <1>1, <1>2, <1>3, <1>4 DEF By
<1>5. CASE x.by = r
  <2>1. By(Append(rows, x), r) = By(rows, r) \cup {n}
    BY <1>1, <1>2, <1>3, <1>5 DEF By
  <2>2. n \notin By(rows, r)
    BY <1>1 DEF By
  <2>3. IsFiniteSet(By(rows, r))
    BY RowsAreFew
  <2> QED BY <1>5, <2>1, <2>2, <2>3, FS_AddElement
<1> QED BY <1>4, <1>5

LEMMA OperationTypes ==
  ASSUME NEW o \in Operations
  PROVE  /\ o.kind = "create_order" => o.product \in ProductIds /\ o.quantity \in Nat
         /\ o.kind = "update_inventory" => o.quantity \in Nat
         /\ o.kind = "create_payment" => o.order \in Nat \ {0}
<1>1. CASE o \in [kind : {"get_product"}, product : ProductIds]
  BY <1>1
<1>2. CASE o \in [kind : {"update_inventory", "create_order"}, product : ProductIds,
                 quantity : Quantities]
  BY <1>2, SandboxAssumption DEF SandboxAssumption
<1>3. CASE o \in [kind : {"get_order", "create_payment"}, order : OrderIds]
  <2>1. o.order \in 1..Cardinality(Requests)
    BY <1>3 DEF OrderIds
  <2>2. o.order \in Nat \ {0}
    BY <2>1
  <2> QED BY <1>3, <2>2
<1> QED BY <1>1, <1>2, <1>3 DEF Operations

LEMMA AppendIsLast ==
  ASSUME NEW S, NEW s \in Seq(S), NEW b \in S
  PROVE  /\ Append(s, b) \in Seq(S)
         /\ Len(Append(s, b)) = Len(s) + 1
         /\ Append(s, b)[Len(s) + 1] = b
         /\ \A i \in 1..Len(s) : Append(s, b)[i] = s[i]
OBVIOUS

LEMMA AppendSecond == ASSUME NEW a, NEW b PROVE Append(<<a>>, b) = <<a, b>>
<1> DEFINE S == {a, b}
<1> DEFINE s == Append(<<a>>, b)
<1> DEFINE pair == [i \in 1..2 |-> IF i = 1 THEN a ELSE b]
<1>1. <<a>> \in Seq(S) /\ Len(<<a>>) = 1 /\ <<a>>[1] = a /\ b \in S
  OBVIOUS
<1>2. <<a, b>> \in Seq(S) /\ Len(<<a, b>>) = 2 /\ <<a, b>>[1] = a /\ <<a, b>>[2] = b
  OBVIOUS
<1>3. s \in Seq(S) /\ Len(s) = 2 /\ s[1] = a /\ s[2] = b
  BY <1>1, AppendIsLast
<1> HIDE DEF S, s
<1>4. ASSUME NEW t \in Seq(S), Len(t) = 2, t[1] = a, t[2] = b PROVE t = pair
  BY <1>4
<1>5. s = pair
  BY <1>3, <1>4
<1>6. <<a, b>> = pair
  BY <1>2, <1>4
<1> QED BY <1>5, <1>6 DEF s

LEMMA InvInit == Init => SandboxInv
<1> SUFFICES ASSUME Init PROVE SandboxInv
  OBVIOUS
<1>1. TypeInv
  BY SandboxAssumption DEF SandboxAssumption, Init, TypeInv
<1>2. LockInv /\ InsertedInv /\ PaymentsInv
  BY DEF Init, LockInv, Ordering, InsertedInv, Inserted, PaymentsInv
<1>3. ASSUME NEW r \in Requests PROVE RequestInv(r)
  <2>1. By(orders, r) = {} /\ By(payments, r) = {}
    BY DEF Init, By
  <2>2. Made(r) = 0
    BY <2>1, FS_EmptySet DEF Made
  <2> QED BY <2>2, SandboxAssumption DEF SandboxAssumption, Init, RequestInv, Stages
<1> QED BY <1>1, <1>2, <1>3 DEF SandboxInv

-----------------------------------------------------------------------------
(* A step of one request *)

OthersKeep(r) ==
  \A q \in Requests \ {r} :
    /\ at'[q] = at[q]
    /\ op'[q] = op[q]
    /\ row'[q] = row[q]
    /\ logs'[q] = logs[q]
    /\ result'[q] = result[q]
    /\ answer'[q] = answer[q]
    /\ By(orders', q) = By(orders, q)
    /\ By(payments', q) = By(payments, q)

RowsStay ==
  /\ Len(orders) <= Len(orders')
  /\ \A i \in 1..Len(orders) : orders'[i] = orders[i]

\* What a request with the lock relies on.
LeavesLock(q) == writer' = q /\ stock' = stock /\ uncommitted' = uncommitted

LEMMA StepOf ==
  ASSUME SandboxInv, NEW r \in Requests, OthersKeep(r), RowsStay,
         TypeInv', PaymentsInv', RequestInv(r)',
         \A q \in Requests \ {r} : writer = q => LeavesLock(q),
         at'[r] \in {"ordering", "inserted"} =>
           /\ writer' = r
           /\ op'[r] # None /\ op'[r].product \in Stocked =>
                row'[r] = stock'[op'[r].product],
         Inserted(r)',
         at'[r] = "inserted" \/ uncommitted' = <<>>
           \/ (at[r] # "inserted" /\ uncommitted' = uncommitted)
  PROVE  SandboxInv'
<1>1. LockInv'
  BY DEF SandboxInv, LockInv, Ordering, OthersKeep, LeavesLock
<1>2. ASSUME NEW q \in Requests \ {r} PROVE Inserted(q)'
  <2>1. at'[q] = "inserted" => writer = q /\ Inserted(q) /\ at[q] = "inserted"
    BY DEF SandboxInv, LockInv, Ordering, InsertedInv, OthersKeep
  <2> QED BY <2>1 DEF Inserted, OthersKeep, Is, NewOrder, LeavesLock
<1>3. InsertedInv'
  <2>1. ASSUME \A q \in Requests : at'[q] # "inserted" PROVE uncommitted' = <<>>
    BY <2>1 DEF SandboxInv, InsertedInv, OthersKeep
  <2> QED BY <1>2, <2>1 DEF InsertedInv
<1>4. ASSUME NEW q \in Requests \ {r} PROVE RequestInv(q)'
  <2>1. RequestInv(q)
    BY DEF SandboxInv
  <2>2. Made(q)' = Made(q)
    BY DEF OthersKeep, Made, By
  <2>3. LogsTell(q) => LogsTell(q)'
    BY DEF OthersKeep, LogsTell
  <2>4. Len(orders) \in Nat /\ Len(orders') \in Nat
    BY DEF SandboxInv, TypeInv
  <2> QED BY <2>1, <2>2, <2>3, <2>4 DEF OthersKeep, RowsStay, RequestInv, Stages
<1> QED BY <1>1, <1>3, <1>4 DEF SandboxInv

\* A step that leaves orders and payments alone.
LEMMA NoNewRows ==
  ASSUME SandboxInv, UNCHANGED <<orders, payments>>
  PROVE  /\ RowsStay /\ PaymentsInv'
         /\ \A q \in Requests : /\ By(orders', q) = By(orders, q)
                                /\ By(payments', q) = By(payments, q)
                                /\ Made(q)' = Made(q)
<1>1. Len(orders) \in Nat
  BY DEF SandboxInv, TypeInv
<1>2. RowsStay
  BY <1>1 DEF RowsStay
<1>3. PaymentsInv'
  BY DEF SandboxInv, PaymentsInv
<1> QED BY <1>2, <1>3 DEF By, Made

LEMMA MovesOne ==
  ASSUME TypeInv, NEW r \in Requests, NEW from, NEW to, Moves(r, from, to)
  PROVE  /\ DOMAIN at' = Requests
         /\ at[r] = from /\ at'[r] = to
         /\ \A q \in Requests \ {r} : at'[q] = at[q]
BY DEF TypeInv, Moves

LEMMA RespondsOne ==
  ASSUME TypeInv, NEW r \in Requests, NEW from, NEW status, Responds(r, from, status)
  PROVE  /\ DOMAIN at' = Requests /\ DOMAIN result' = Requests
         /\ at[r] = from /\ at'[r] = "handled" /\ result'[r] = status
         /\ \A q \in Requests \ {r} : at'[q] = at[q] /\ result'[q] = result[q]
BY DEF TypeInv, Moves, Responds

-----------------------------------------------------------------------------
(* The middleware *)

LEMMA StepReceive ==
  ASSUME SandboxInv, NEW r \in Requests, Receive(r) PROVE SandboxInv'
<1>1. /\ DOMAIN at' = Requests
      /\ at[r] = "new" /\ at'[r] = "received"
      /\ \A q \in Requests \ {r} : at'[q] = at[q]
  BY MovesOne DEF Receive, SandboxInv
<1>2. /\ UNCHANGED <<stock, orders, payments, uncommitted, writer, row, result, answer>>
      /\ op' \in [Requests -> Operations \cup {None}]
      /\ \A q \in Requests \ {r} : op'[q] = op[q]
  BY RequestedAssumption DEF Receive, tables, SandboxInv, TypeInv, RequestedAssumption
<1>3. RequestInv(r)
  BY DEF SandboxInv
<1>4. /\ DOMAIN logs' = Requests
      /\ logs'[r] = <<Received>>
      /\ \A q \in Requests \ {r} : logs'[q] = logs[q]
  <2>1. logs[r] = <<>>
    BY <1>1, <1>3 DEF RequestInv
  <2>2. logs' = [logs EXCEPT ![r] = Append(@, Received)]
    BY DEF Receive, Log, Received
  <2>3. Append(<<>>, Received) = <<Received>>
    OBVIOUS
  <2> QED BY <2>1, <2>2, <2>3 DEF SandboxInv, TypeInv
<1>5. TypeInv'
  BY <1>1, <1>2, <1>4 DEF SandboxInv, TypeInv
<1>6. RowsStay /\ PaymentsInv' /\ OthersKeep(r) /\ Made(r)' = Made(r)
  BY <1>1, <1>2, <1>4, NoNewRows DEF OthersKeep
<1>7. RequestInv(r)'
  BY <1>1, <1>2, <1>3, <1>4, <1>6 DEF RequestInv, Stages
<1> QED BY <1>1, <1>2, <1>5, <1>6, <1>7, StepOf DEF Inserted, LeavesLock

LEMMA StepAnswer ==
  ASSUME SandboxInv, NEW r \in Requests, Answer(r) PROVE SandboxInv'
<1> DEFINE end == [event_type |-> IF result[r] = 500 THEN "request_failed"
                                  ELSE "response_sent",
                   status_code |-> result[r]]
<1>1. /\ DOMAIN at' = Requests
      /\ at[r] = "handled" /\ at'[r] = "answered"
      /\ \A q \in Requests \ {r} : at'[q] = at[q]
  BY MovesOne DEF Answer, SandboxInv
<1>2. UNCHANGED <<stock, orders, payments, uncommitted, writer, op, row, result>>
  BY DEF Answer, tables
<1>3. RequestInv(r)
  BY DEF SandboxInv
<1>4. /\ DOMAIN logs' = Requests
      /\ logs'[r] = <<Received, end>>
      /\ \A q \in Requests \ {r} : logs'[q] = logs[q]
  <2>1. logs[r] = <<Received>>
    BY <1>1, <1>3 DEF RequestInv
  <2>2. logs' = [logs EXCEPT ![r] = Append(@, end)]
    BY DEF Answer, Log
  <2>3. Append(<<Received>>, end) = <<Received, end>>
    BY AppendSecond
  <2>4. PICK more : more = <<Received, end>>
    OBVIOUS
  <2>5. logs' = [logs EXCEPT ![r] = more]
    BY <2>1, <2>2, <2>3, <2>4
  <2>6. DOMAIN logs = Requests
    BY DEF SandboxInv, TypeInv
  <2> QED BY <2>4, <2>5, <2>6
<1>5. /\ DOMAIN answer' = Requests
      /\ answer'[r].request_id = TRUE /\ answer'[r].status = result[r]
      /\ \A q \in Requests \ {r} : answer'[q] = answer[q]
  BY DEF Answer, SandboxInv, TypeInv
<1>6. TypeInv'
  BY <1>1, <1>2, <1>4, <1>5 DEF SandboxInv, TypeInv
<1>7. RowsStay /\ PaymentsInv' /\ OthersKeep(r) /\ Made(r)' = Made(r)
  BY <1>1, <1>2, <1>4, <1>5, NoNewRows DEF OthersKeep
<1>8. LogsTell(r)'
  BY <1>2, <1>4, <1>5 DEF LogsTell
<1>9. RequestInv(r)'
  BY <1>1, <1>2, <1>3, <1>7, <1>8 DEF RequestInv, Stages
<1> QED BY <1>1, <1>2, <1>6, <1>7, <1>9, StepOf DEF Inserted, LeavesLock

LEMMA StepLogFails ==
  ASSUME SandboxInv, NEW r \in Requests, LogFails(r) PROVE SandboxInv'
<1>1. /\ at[r] \in {"new", "handled"}
      /\ DOMAIN at' = Requests /\ at'[r] = "answered"
      /\ \A q \in Requests \ {r} : at'[q] = at[q]
      /\ UNCHANGED <<stock, orders, payments, uncommitted, logs, writer, op, row, result>>
  BY DEF LogFails, SandboxInv, TypeInv, tables
<1>2. /\ DOMAIN answer' = Requests
      /\ answer'[r].request_id = FALSE /\ answer'[r].status = 500
      /\ \A q \in Requests \ {r} : answer'[q] = answer[q]
  BY DEF LogFails, SandboxInv, TypeInv
<1>3. RequestInv(r)
  BY DEF SandboxInv
<1>4. TypeInv'
  BY <1>1, <1>2 DEF SandboxInv, TypeInv
<1>5. RowsStay /\ PaymentsInv' /\ OthersKeep(r) /\ Made(r)' = Made(r)
  BY <1>1, <1>2, NoNewRows DEF OthersKeep
<1>6. LogsTell(r)'
  BY <1>1, <1>2, <1>3 DEF LogsTell, RequestInv, Stages
<1>7. RequestInv(r)'
  BY <1>1, <1>3, <1>5, <1>6 DEF RequestInv, Stages
<1> QED BY <1>1, <1>4, <1>5, <1>7, StepOf DEF Inserted, LeavesLock

-----------------------------------------------------------------------------
(* The handlers *)

\* A handler that responds, having made no row and without a 201.
LEMMA StepResponds ==
  ASSUME SandboxInv, NEW r \in Requests, NEW from \in {"received", "ordering", "paying"},
         NEW status \in {200, 404, 409, 500}, Responds(r, from, status),
         UNCHANGED <<orders, payments, uncommitted, logs, op, row, answer>>,
         stock' \in [Stocked -> Nat],
         \A q \in Requests \ {r} : writer = q => LeavesLock(q)
  PROVE  SandboxInv'
<1>1. /\ DOMAIN at' = Requests /\ DOMAIN result' = Requests
      /\ at[r] = from /\ at'[r] = "handled" /\ result'[r] = status
      /\ \A q \in Requests \ {r} : at'[q] = at[q] /\ result'[q] = result[q]
  BY RespondsOne DEF SandboxInv
<1>2. RequestInv(r)
  BY DEF SandboxInv
<1>3. TypeInv'
  BY <1>1 DEF SandboxInv, TypeInv
<1>4. RowsStay /\ PaymentsInv' /\ OthersKeep(r) /\ Made(r)' = Made(r)
  BY <1>1, NoNewRows DEF OthersKeep
<1>5. result[r] # 201 /\ result'[r] # 201 /\ logs[r] = <<Received>>
  BY <1>1, <1>2, SandboxAssumption DEF SandboxAssumption, RequestInv, Stages
<1>6. RequestInv(r)'
  BY <1>1, <1>2, <1>4, <1>5 DEF RequestInv, Stages
<1> QED BY <1>1, <1>3, <1>4, <1>6, StepOf DEF Inserted

LEMMA StepUpdateInventory ==
  ASSUME SandboxInv, NEW r \in Requests, op[r] # None, UpdateInventory(r)
  PROVE  SandboxInv'
<1>1. PICK status \in {200, 404} : Responds(r, "received", status)
  BY DEF UpdateInventory
<1>2. op[r].quantity \in Nat
  BY OperationTypes DEF UpdateInventory, Is, SandboxInv, TypeInv
<1>3. stock' \in [Stocked -> Nat]
  BY <1>2 DEF UpdateInventory, SandboxInv, TypeInv
<1>4. \A q \in Requests : writer # q
  BY SandboxAssumption DEF SandboxAssumption, UpdateInventory
<1>5. UNCHANGED <<orders, payments, uncommitted, logs, op, row, answer>>
  BY DEF UpdateInventory
<1> QED BY <1>1, <1>3, <1>4, <1>5, StepResponds

LEMMA StepBeginOrder ==
  ASSUME SandboxInv, NEW r \in Requests, BeginOrder(r) PROVE SandboxInv'
<1>1. /\ DOMAIN at' = Requests
      /\ at[r] = "received" /\ at'[r] = "ordering"
      /\ \A q \in Requests \ {r} : at'[q] = at[q]
  BY MovesOne DEF BeginOrder, SandboxInv
<1>2. /\ UNCHANGED <<stock, orders, payments, uncommitted, logs, op, result, answer>>
      /\ writer = None /\ writer' = r
      /\ DOMAIN row' = Requests
      /\ row'[r] = IF op[r].product \in Stocked THEN stock[op[r].product] ELSE None
      /\ \A q \in Requests \ {r} : row'[q] = row[q]
  BY DEF BeginOrder, tables, SandboxInv, TypeInv
<1>3. RequestInv(r)
  BY DEF SandboxInv
<1>4. \A q \in Requests : writer # q
  BY <1>2, SandboxAssumption DEF SandboxAssumption
<1>5. TypeInv'
  BY <1>1, <1>2 DEF SandboxInv, TypeInv
<1>6. RowsStay /\ PaymentsInv' /\ OthersKeep(r) /\ Made(r)' = Made(r)
  BY <1>1, <1>2, NoNewRows DEF OthersKeep
<1>7. RequestInv(r)'
  BY <1>1, <1>2, <1>3, <1>6 DEF RequestInv, Stages
<1> QED BY <1>1, <1>2, <1>4, <1>5, <1>6, <1>7, StepOf DEF Inserted, LeavesLock

LEMMA StepRollBackOrder ==
  ASSUME SandboxInv, NEW r \in Requests, RollBackOrder(r) PROVE SandboxInv'
<1>1. PICK status \in {404, 409, 500} : Responds(r, "ordering", status)
  BY DEF RollBackOrder
<1>2. writer = r
  BY DEF RollBackOrder, SandboxInv, LockInv, Ordering
<1>3. UNCHANGED <<orders, payments, uncommitted, logs, op, row, answer>> /\ stock' = stock
  BY DEF RollBackOrder, tables
<1>4. stock' \in [Stocked -> Nat]
  BY <1>3 DEF SandboxInv, TypeInv
<1> QED BY <1>1, <1>2, <1>3, <1>4, StepResponds

LEMMA StepInsertOrder ==
  ASSUME SandboxInv, NEW r \in Requests, op[r] # None, InsertOrder(r)
  PROVE  SandboxInv'
<1>1. /\ DOMAIN at' = Requests
      /\ at[r] = "ordering" /\ at'[r] = "inserted"
      /\ \A q \in Requests \ {r} : at'[q] = at[q]
  BY MovesOne DEF InsertOrder, SandboxInv
<1>2. /\ UNCHANGED <<stock, orders, payments, logs, writer, op, row, result, answer>>
      /\ uncommitted' = Append(uncommitted, NewOrder(r))
      /\ Is(r, "create_order") /\ op[r].product \in Stocked /\ row[r] >= op[r].quantity
  BY DEF InsertOrder
<1>3. writer = r /\ row[r] = stock[op[r].product]
  BY <1>1, <1>2 DEF SandboxInv, LockInv, Ordering
<1>4. uncommitted = <<>>
  <2>1. \A q \in Requests : at[q] # "inserted"
    BY <1>1, <1>3 DEF SandboxInv, LockInv, Ordering
  <2> QED BY <2>1 DEF SandboxInv, InsertedInv
<1>5. uncommitted' = <<NewOrder(r)>>
  BY <1>2, <1>4
<1>6. NewOrder(r) \in OrderRow
  BY <1>2, OperationTypes DEF NewOrder, OrderRow, Is, SandboxInv, TypeInv
<1>7. uncommitted' \in Seq(OrderRow)
  BY <1>5, <1>6
<1>8. TypeInv'
  BY <1>1, <1>2, <1>7 DEF SandboxInv, TypeInv
<1>9. RowsStay /\ PaymentsInv' /\ OthersKeep(r) /\ Made(r)' = Made(r)
  BY <1>1, <1>2, NoNewRows DEF OthersKeep
<1>10. RequestInv(r)'
  BY <1>1, <1>2, <1>9 DEF SandboxInv, RequestInv, Stages
<1>11. Inserted(r)'
  BY <1>2, <1>5 DEF Inserted, Is, NewOrder
<1> QED BY <1>1, <1>2, <1>3, <1>8, <1>9, <1>10, <1>11, StepOf

\* The commit adds the one order that was inserted.
LEMMA CommitAppends ==
  ASSUME SandboxInv, NEW r \in Requests, CommitOrder(r)
  PROVE  /\ orders' = Append(orders, NewOrder(r))
         /\ op[r].product \in Stocked /\ row[r] >= op[r].quantity
<1>1. at[r] = "inserted"
  BY RespondsOne DEF CommitOrder, SandboxInv
<1>2. Inserted(r) /\ orders \in Seq(OrderRow) /\ uncommitted \in Seq(OrderRow)
  BY DEF SandboxInv, InsertedInv, TypeInv
<1>3. /\ uncommitted = <<NewOrder(r)>>
      /\ op[r].product \in Stocked /\ row[r] >= op[r].quantity
  BY <1>1, <1>2 DEF Inserted
<1>4. PICK x : x = NewOrder(r)
  OBVIOUS
<1>5. x \in OrderRow
  <2>1. uncommitted[1] \in OrderRow /\ uncommitted[1] = x
    BY <1>2, <1>3, <1>4
  <2> QED BY <2>1
<1>6. orders \o <<x>> = Append(orders, x)
  BY <1>2, <1>5, AppendIsConcat
<1> QED BY <1>3, <1>4, <1>6 DEF CommitOrder

LEMMA StepCommitOrder ==
  ASSUME SandboxInv, NEW r \in Requests, op[r] # None, CommitOrder(r)
  PROVE  SandboxInv'
<1> DEFINE p == op[r].product
           x == NewOrder(r)
<1>1. /\ DOMAIN at' = Requests /\ DOMAIN result' = Requests
      /\ at[r] = "inserted" /\ at'[r] = "handled" /\ result'[r] = 201
      /\ \A q \in Requests \ {r} : at'[q] = at[q] /\ result'[q] = result[q]
  BY RespondsOne DEF CommitOrder, SandboxInv
<1>2. /\ UNCHANGED <<payments, logs, op, row, answer>>
      /\ orders' = Append(orders, x)
      /\ uncommitted' = <<>>
      /\ stock' = [stock EXCEPT ![p] = @ - op[r].quantity]
      /\ p \in Stocked /\ row[r] >= op[r].quantity
  BY CommitAppends DEF CommitOrder
<1>3. /\ writer = r /\ row[r] = stock[p]
  BY <1>1, <1>2 DEF SandboxInv, LockInv, Ordering
<1>4. op[r].quantity \in Nat /\ p \in ProductIds
  BY OperationTypes DEF CommitOrder, Is, SandboxInv, TypeInv
<1>5. x \in OrderRow /\ x.by = r
  BY <1>4 DEF NewOrder, OrderRow
<1>6. orders \in Seq(OrderRow) /\ payments \in Seq(PaymentRow)
      /\ stock \in [Stocked -> Nat]
  BY DEF SandboxInv, TypeInv
<1> HIDE DEF x
<1>7. orders' \in Seq(OrderRow) /\ uncommitted' \in Seq(OrderRow) /\ Len(orders) \in Nat /\ Len(orders') = Len(orders) + 1
      /\ \A i \in 1..Len(orders) : orders'[i] = orders[i]
  BY <1>2, <1>5, <1>6
<1>8. stock' \in [Stocked -> Nat]
  BY <1>2, <1>3, <1>4, <1>6
<1>9. TypeInv'
  BY <1>1, <1>2, <1>7, <1>8 DEF SandboxInv, TypeInv
<1>10. RowsStay
  BY <1>7 DEF RowsStay
<1>11. PaymentsInv'
  BY <1>2, <1>7 DEF SandboxInv, PaymentsInv
<1>12. \A q \in Requests \ {r} : By(orders', q) = By(orders, q)
  BY <1>2, <1>5, <1>6, NewRow
<1>13. OthersKeep(r)
  BY <1>1, <1>2, <1>12 DEF OthersKeep
<1>14. RequestInv(r)
  BY DEF SandboxInv
<1>15. Made(r)' = 1
  <2>1. Made(r) = 0
    BY <1>1, <1>14, SandboxAssumption DEF SandboxAssumption, RequestInv
  <2>2. Cardinality(By(orders', r)) = Cardinality(By(orders, r)) + 1
    BY <1>2, <1>5, <1>6, NewRow
  <2>3. Cardinality(By(orders, r)) \in Nat /\ Cardinality(By(payments, r)) \in Nat
    BY <1>6, RowsAreFew
  <2>4. Made(r)' = Cardinality(By(orders', r)) + Cardinality(By(payments, r))
    BY <1>2 DEF Made, By
  <2> QED BY <2>1, <2>2, <2>3, <2>4 DEF Made
<1>16. RequestInv(r)'
  BY <1>1, <1>2, <1>14, <1>15 DEF RequestInv, Stages
<1>17. \A q \in Requests \ {r} : writer # q
  BY <1>3
<1> QED BY <1>1, <1>2, <1>9, <1>10, <1>11, <1>13, <1>16, <1>17, StepOf DEF Inserted

LEMMA StepReadOrder ==
  ASSUME SandboxInv, NEW r \in Requests, op[r] # None, ReadOrder(r)
  PROVE  SandboxInv'
<1>1. UNCHANGED <<stock, orders, payments, uncommitted, logs, writer, op, answer>>
  BY DEF ReadOrder, tables
<1>2. CASE ~(op[r].order <= Len(orders))
  <2>1. Responds(r, "received", 404) /\ row' = row
    BY <1>2 DEF ReadOrder
  <2>2. stock' \in [Stocked -> Nat]
    BY <1>1 DEF SandboxInv, TypeInv
  <2> QED BY <1>1, <2>1, <2>2, StepResponds DEF LeavesLock
<1>3. CASE op[r].order <= Len(orders)
  <2>1. Moves(r, "received", "paying") /\ result' = result
        /\ row' = [row EXCEPT ![r] = orders[op[r].order]]
    BY <1>3 DEF ReadOrder
  <2>2. /\ DOMAIN at' = Requests
        /\ at[r] = "received" /\ at'[r] = "paying"
        /\ \A q \in Requests \ {r} : at'[q] = at[q]
    BY <2>1, MovesOne DEF SandboxInv
  <2>3. /\ DOMAIN row' = Requests /\ row'[r] = orders[op[r].order]
        /\ \A q \in Requests \ {r} : row'[q] = row[q]
    BY <2>1 DEF SandboxInv, TypeInv
  <2>4. op[r].order \in 1..Len(orders)
    BY <1>3, OperationTypes DEF ReadOrder, Is, SandboxInv, TypeInv
  <2>5. TypeInv'
    BY <1>1, <2>1, <2>2, <2>3 DEF SandboxInv, TypeInv
  <2>6. RowsStay /\ PaymentsInv' /\ OthersKeep(r) /\ Made(r)' = Made(r)
    BY <1>1, <2>1, <2>2, <2>3, NoNewRows DEF OthersKeep
  <2>7. RequestInv(r)'
    BY <1>1, <2>1, <2>2, <2>3, <2>4, <2>6 DEF SandboxInv, RequestInv, Stages
  <2> QED BY <1>1, <2>2, <2>5, <2>6, <2>7, StepOf DEF Inserted, LeavesLock
<1> QED BY <1>2, <1>3

LEMMA StepInsertPayment ==
  ASSUME SandboxInv, NEW r \in Requests, op[r] # None, InsertPayment(r)
  PROVE  SandboxInv'
<1> DEFINE x == [by |-> r, order |-> op[r].order, amount_of |-> row[r]]
<1>1. /\ DOMAIN at' = Requests /\ DOMAIN result' = Requests
      /\ at[r] = "paying" /\ at'[r] = "handled" /\ result'[r] = 201
      /\ \A q \in Requests \ {r} : at'[q] = at[q] /\ result'[q] = result[q]
  BY RespondsOne DEF InsertPayment, SandboxInv
<1>2. /\ UNCHANGED <<stock, orders, uncommitted, logs, writer, op, row, answer>>
      /\ payments' = Append(payments, x)
  BY DEF InsertPayment
<1>3. RequestInv(r)
  BY DEF SandboxInv
<1>4. op[r].order \in 1..Len(orders) /\ row[r] = orders[op[r].order]
  BY <1>1, <1>3 DEF RequestInv
<1>5. orders \in Seq(OrderRow) /\ payments \in Seq(PaymentRow)
  BY DEF SandboxInv, TypeInv
<1>6. x \in PaymentRow /\ x.by = r /\ x.order = op[r].order /\ x.amount_of = row[r]
  BY <1>4, <1>5 DEF PaymentRow
<1> HIDE DEF x
<1>7. /\ payments' \in Seq(PaymentRow) /\ Len(payments) \in Nat
      /\ Len(payments') = Len(payments) + 1 /\ payments'[Len(payments) + 1] = x
      /\ \A i \in 1..Len(payments) : payments'[i] = payments[i]
  BY <1>2, <1>5, <1>6
<1>8. TypeInv'
  BY <1>1, <1>2, <1>7 DEF SandboxInv, TypeInv
<1>9. RowsStay
  BY <1>2, <1>5 DEF RowsStay
<1>10. PaymentsInv'
  <2> SUFFICES ASSUME NEW i \in 1..Len(payments')
               PROVE  /\ payments'[i].order \in 1..Len(orders)
                      /\ payments'[i].amount_of = orders[payments'[i].order]
    BY <1>2 DEF PaymentsInv
  <2>1. CASE i \in 1..Len(payments)
    BY <1>7, <2>1 DEF SandboxInv, PaymentsInv
  <2>2. CASE i = Len(payments) + 1
    BY <1>4, <1>6, <1>7, <2>2
  <2> QED BY <1>7, <2>1, <2>2
<1>11. \A q \in Requests \ {r} : By(payments', q) = By(payments, q)
  BY <1>2, <1>5, <1>6, NewRow
<1>12. OthersKeep(r)
  BY <1>1, <1>2, <1>11 DEF OthersKeep
<1>13. Made(r)' = 1
  <2>1. Made(r) = 0
    BY <1>1, <1>3, SandboxAssumption DEF SandboxAssumption, RequestInv
  <2>2. Cardinality(By(payments', r)) = Cardinality(By(payments, r)) + 1
    BY <1>2, <1>5, <1>6, NewRow
  <2>3. Cardinality(By(orders, r)) \in Nat /\ Cardinality(By(payments, r)) \in Nat
    BY <1>5, RowsAreFew
  <2>4. Made(r)' = Cardinality(By(orders, r)) + Cardinality(By(payments', r))
    BY <1>2 DEF Made, By
  <2> QED BY <2>1, <2>2, <2>3, <2>4 DEF Made
<1>14. RequestInv(r)'
  BY <1>1, <1>2, <1>3, <1>13 DEF RequestInv, Stages
<1> QED BY <1>1, <1>2, <1>8, <1>9, <1>10, <1>12, <1>14, StepOf DEF Inserted, LeavesLock

LEMMA StepWriteFails ==
  ASSUME SandboxInv, NEW r \in Requests, WriteFails(r) PROVE SandboxInv'
<1>1. PICK from \in {"received", "paying"} : Responds(r, from, 500)
  BY DEF WriteFails
<1>2. UNCHANGED <<stock, orders, payments, uncommitted, logs, writer, op, row, answer>>
  BY DEF WriteFails, tables
<1>3. stock' \in [Stocked -> Nat]
  BY <1>2 DEF SandboxInv, TypeInv
<1> QED BY <1>1, <1>2, <1>3, StepResponds DEF LeavesLock

LEMMA StepHandle ==
  ASSUME SandboxInv, NEW r \in Requests, Handle(r) PROVE SandboxInv'
<1>1. op[r] # None
  BY DEF Handle
<1>2. CASE GetProduct(r) \/ GetOrder(r)
  <2>1. PICK status \in {200, 404} : Responds(r, "received", status)
    BY <1>2 DEF GetProduct, GetOrder
  <2>2. UNCHANGED <<stock, orders, payments, uncommitted, logs, writer, op, row, answer>>
    BY <1>2 DEF GetProduct, GetOrder, tables
  <2>3. stock' \in [Stocked -> Nat]
    BY <2>2 DEF SandboxInv, TypeInv
  <2> QED BY <2>1, <2>2, <2>3, StepResponds DEF LeavesLock
<1> QED BY <1>1, <1>2, StepUpdateInventory, StepBeginOrder, StepRollBackOrder,
           StepInsertOrder, StepCommitOrder, StepReadOrder, StepInsertPayment, StepWriteFails DEF Handle

LEMMA StepCrash == ASSUME SandboxInv, Crash PROVE SandboxInv'
<1>1. /\ UNCHANGED <<stock, orders, payments, logs, op, row, result, answer>>
      /\ uncommitted' = <<>>
      /\ DOMAIN at' = Requests
      /\ \A r \in Requests : \/ at'[r] = "lost" /\ at[r] \notin {"new", "answered"}
                             \/ at'[r] = at[r] /\ at[r] \in {"new", "answered", "lost"}
  BY DEF Crash, InProgress, tables
<1>2. TypeInv'
  BY <1>1 DEF SandboxInv, TypeInv
<1>3. LockInv' /\ InsertedInv'
  BY <1>1 DEF LockInv, Ordering, InsertedInv, Inserted
<1>4. PaymentsInv' /\ \A r \in Requests : Made(r)' = Made(r)
  BY <1>1, NoNewRows
<1>5. ASSUME NEW r \in Requests PROVE RequestInv(r)'
  <2>1. RequestInv(r) /\ (LogsTell(r) => LogsTell(r)')
    BY <1>1 DEF SandboxInv, LogsTell
  <2> QED BY <1>1, <1>4, <2>1 DEF RequestInv, Stages
<1> QED BY <1>2, <1>3, <1>4, <1>5 DEF SandboxInv

LEMMA InvNext == SandboxInv /\ [Next]_vars => SandboxInv'
<1> SUFFICES ASSUME SandboxInv, [Next]_vars PROVE SandboxInv'
  OBVIOUS
<1>1. CASE UNCHANGED vars
  <2>1. UNCHANGED <<stock, orders, payments, uncommitted, logs, writer, at, op, row, result,
                    answer>>
    BY <1>1 DEF vars, tables
  <2>2. TypeInv' /\ LockInv' /\ InsertedInv'
    BY <2>1 DEF SandboxInv, TypeInv, LockInv, Ordering, InsertedInv, Inserted, Is, NewOrder
  <2>3. PaymentsInv' /\ \A r \in Requests : Made(r)' = Made(r)
    BY <2>1, NoNewRows
  <2>4. \A r \in Requests : RequestInv(r)'
    BY <2>1, <2>3 DEF SandboxInv, RequestInv, Stages, LogsTell
  <2> QED BY <2>2, <2>3, <2>4 DEF SandboxInv
<1> QED BY <1>1, StepReceive, StepHandle, StepAnswer, StepLogFails, StepCrash DEF Next

-----------------------------------------------------------------------------
(* Whose rows they are.  A request's operation is known before it makes a row  *)
(* and does not change afterwards.                                             *)

OwnersInv ==
  /\ \A i \in 1..Len(orders) :
       op[orders[i].by] # None /\ op[orders[i].by].kind = "create_order"
  /\ \A i \in 1..Len(payments) :
       op[payments[i].by] # None /\ op[payments[i].by].kind = "create_payment"

\* Only the arrival of a request tells its operation.
LEMMA OperationsKept ==
  ASSUME NEW r, Handle(r) \/ Answer(r) \/ LogFails(r) \/ Crash
  PROVE  op' = op
BY DEF Handle, GetProduct, GetOrder, UpdateInventory, BeginOrder, RollBackOrder, InsertOrder, CommitOrder,
       ReadOrder, InsertPayment, WriteFails, Answer, LogFails, Crash

\* What is answered stays answered, and an operation once known is kept.
LEMMA StepKeeps ==
  ASSUME TypeInv, [Next]_vars, NEW q \in Requests
  PROVE  /\ at[q] = "answered" => at'[q] = "answered" /\ answer'[q] = answer[q]
         /\ op'[q] # op[q] => at[q] = "new"
<1>1. ASSUME NEW r, NEW from, NEW to, Moves(r, from, to)
      PROVE  at[r] = from /\ (r # q => at'[q] = at[q])
  BY <1>1 DEF Moves, TypeInv
<1>2. ASSUME NEW r \in Requests, Receive(r)
      PROVE  /\ at[r] = "new" /\ answer' = answer
             /\ r # q => at'[q] = at[q] /\ op'[q] = op[q]
  BY <1>1, <1>2 DEF Receive, TypeInv
<1>3. ASSUME NEW r \in Requests, Handle(r)
      PROVE  at[r] # "answered" /\ answer' = answer /\ (r # q => at'[q] = at[q])
  BY <1>1, <1>3
     DEF Handle, GetProduct, GetOrder, UpdateInventory, BeginOrder, RollBackOrder, InsertOrder, CommitOrder,
         ReadOrder, InsertPayment, WriteFails, Responds
<1>4. ASSUME NEW r \in Requests, Answer(r)
      PROVE  at[r] # "answered" /\ (r # q => at'[q] = at[q] /\ answer'[q] = answer[q])
  BY <1>1, <1>4 DEF Answer, TypeInv
<1>5. ASSUME NEW r \in Requests, LogFails(r)
      PROVE  at[r] # "answered" /\ (r # q => at'[q] = at[q] /\ answer'[q] = answer[q])
  BY <1>5 DEF LogFails, TypeInv
<1>6. Crash => (at[q] = "answered" => at'[q] = at[q]) /\ answer' = answer
  BY DEF Crash, InProgress
<1>7. CASE UNCHANGED vars
  BY <1>7 DEF vars
<1> QED BY <1>2, <1>3, <1>4, <1>5, <1>6, <1>7, OperationsKept DEF Next

\* A row of the logs stays.
LEMMA LogsStay ==
  ASSUME SandboxInv, SandboxInv', [Next]_vars, NEW q \in Requests, logs[q] # <<>>
  PROVE  logs'[q] # <<>>
<1>1. /\ TypeInv /\ DOMAIN logs = Requests
      /\ RequestInv(q) /\ RequestInv(q)'
  BY DEF SandboxInv, TypeInv
<1>2. ASSUME NEW r \in Requests \ {q}, NEW event, NEW status, Log(r, event, status)
      PROVE  logs'[q] = logs[q]
  BY <1>1, <1>2 DEF Log
<1>3. ASSUME NEW r \in Requests, Handle(r) PROVE logs' = logs
  BY <1>3
     DEF Handle, GetProduct, GetOrder, UpdateInventory, BeginOrder, RollBackOrder, InsertOrder,
         CommitOrder, ReadOrder, InsertPayment, WriteFails
<1>4. ASSUME NEW r \in Requests, Receive(r) PROVE logs'[q] # <<>>
  <2>1. r # q
    BY <1>1, <1>4, MovesOne DEF Receive, RequestInv
  <2> QED BY <1>2, <1>4, <2>1 DEF Receive
<1>5. ASSUME NEW r \in Requests, Answer(r) PROVE logs'[q] # <<>>
  <2>1. CASE r = q
    <3>1. at'[q] = "answered" /\ answer'[q].request_id
      BY <1>1, <1>5, <2>1, MovesOne DEF Answer, TypeInv
    <3>2. \E end : logs'[q] = <<Received, end>>
      BY <1>1, <3>1 DEF RequestInv, LogsTell
    <3> QED BY <3>2
  <2>2. CASE r # q
    BY <1>2, <1>5, <2>2 DEF Answer
  <2> QED BY <2>1, <2>2
<1>6. ASSUME NEW r \in Requests, LogFails(r) PROVE logs' = logs
  BY <1>6 DEF LogFails
<1>7. Crash \/ UNCHANGED vars => logs' = logs
  BY DEF Crash, vars
<1> QED BY <1>3, <1>4, <1>5, <1>6, <1>7 DEF Next

\* Only the handlers of create_order and create_payment add a row.
LEMMA StepRows ==
  ASSUME SandboxInv, [Next]_vars
  PROVE  \/ UNCHANGED <<orders, payments>>
         \/ \E r \in Requests : /\ op[r] # None /\ UNCHANGED op
                                 /\ \/ Is(r, "create_order") /\ UNCHANGED payments
                                       /\ orders' = Append(orders, NewOrder(r))
                                    \/ Is(r, "create_payment") /\ UNCHANGED orders
                                       /\ \E x : x.by = r /\ payments' = Append(payments, x)
<1>1. ASSUME NEW r \in Requests, Handle(r), ~CommitOrder(r), ~InsertPayment(r)
      PROVE  UNCHANGED <<orders, payments>>
  BY <1>1
     DEF Handle, GetProduct, GetOrder, UpdateInventory, BeginOrder, RollBackOrder, InsertOrder,
         ReadOrder, WriteFails, tables
<1>2. ASSUME NEW r \in Requests, Receive(r) \/ Answer(r) \/ LogFails(r)
      PROVE  UNCHANGED <<orders, payments>>
  BY <1>2 DEF Receive, Answer, LogFails, tables
<1>3. Crash \/ UNCHANGED vars => UNCHANGED <<orders, payments>>
  BY DEF Crash, vars, tables
<1>4. ASSUME NEW r \in Requests, CommitOrder(r)
      PROVE  /\ Is(r, "create_order") /\ UNCHANGED <<payments, op>>
             /\ orders' = Append(orders, NewOrder(r))
  BY <1>4, CommitAppends DEF CommitOrder
<1>5. ASSUME NEW r \in Requests, InsertPayment(r)
      PROVE  /\ Is(r, "create_payment") /\ UNCHANGED <<orders, op>>
             /\ \E x : x.by = r /\ payments' = Append(payments, x)
  BY <1>5 DEF InsertPayment
<1> QED BY <1>1, <1>2, <1>3, <1>4, <1>5 DEF Next, Handle

LEMMA OwnersAreLate ==
  ASSUME SandboxInv, NEW r \in Requests, By(orders, r) # {} \/ By(payments, r) # {}
  PROVE  at[r] # "new" /\ result[r] = 201
<1>1. orders \in Seq(OrderRow) /\ payments \in Seq(PaymentRow) /\ RequestInv(r)
  BY DEF SandboxInv, TypeInv
<1>2. /\ IsFiniteSet(By(orders, r)) /\ Cardinality(By(orders, r)) \in Nat
      /\ IsFiniteSet(By(payments, r)) /\ Cardinality(By(payments, r)) \in Nat
  BY <1>1, RowsAreFew
<1>3. Cardinality(By(orders, r)) # 0 \/ Cardinality(By(payments, r)) # 0
  BY <1>2, FS_EmptySet
<1>4. Made(r) # 0
  BY <1>2, <1>3 DEF Made
<1> QED BY <1>1, <1>4, SandboxAssumption DEF RequestInv, SandboxAssumption

LEMMA OwnersNext ==
  ASSUME SandboxInv, SandboxInv', OwnersInv, [Next]_vars
  PROVE  OwnersInv'
<1>1. ASSUME NEW rows, NEW i \in 1..Len(rows), rows[i].by \in Requests,
             rows = orders \/ rows = payments
      PROVE  op'[rows[i].by] = op[rows[i].by]
  <2>1. i \in By(rows, rows[i].by)
    BY DEF By
  <2>2. at[rows[i].by] # "new"
    BY <1>1, <2>1, OwnersAreLate
  <2> QED BY <1>1, <2>2, StepKeeps DEF SandboxInv
<1>2. /\ orders \in Seq(OrderRow) /\ payments \in Seq(PaymentRow)
      /\ orders' \in Seq(OrderRow) /\ payments' \in Seq(PaymentRow)
  BY DEF SandboxInv, TypeInv
<1>3. /\ \A i \in 1..Len(orders) : orders[i].by \in Requests
      /\ \A i \in 1..Len(payments) : payments[i].by \in Requests
  <2>1. (\A o \in OrderRow : o.by \in Requests) /\ (\A o \in PaymentRow : o.by \in Requests)
    BY DEF OrderRow, PaymentRow
  <2>2. /\ \A i \in 1..Len(orders) : orders[i] \in OrderRow
        /\ \A i \in 1..Len(payments) : payments[i] \in PaymentRow
    BY <1>2
  <2> QED BY <2>1, <2>2
<1>4. /\ \A i \in 1..Len(orders) :
           op'[orders[i].by] # None /\ op'[orders[i].by].kind = "create_order"
      /\ \A i \in 1..Len(payments) :
           op'[payments[i].by] # None /\ op'[payments[i].by].kind = "create_payment"
  BY <1>1, <1>3 DEF OwnersInv
<1>5. CASE UNCHANGED <<orders, payments>>
  BY <1>4, <1>5 DEF OwnersInv
<1>6. ASSUME NEW r \in Requests, op[r] # None, UNCHANGED op, UNCHANGED payments,
             Is(r, "create_order"), orders' = Append(orders, NewOrder(r))
      PROVE  OwnersInv'
  <2>1. /\ Len(orders') = Len(orders) + 1 /\ orders'[Len(orders) + 1].by = r
        /\ \A i \in 1..Len(orders) : orders'[i] = orders[i]
        /\ Len(orders) \in Nat
    BY <1>2, <1>6 DEF NewOrder
  <2>2. \A i \in 1..Len(orders') : i \in 1..Len(orders) \/ i = Len(orders) + 1
    BY <2>1
  <2> QED BY <1>4, <1>6, <2>1, <2>2 DEF OwnersInv, Is
<1>7. ASSUME NEW r \in Requests, op[r] # None, UNCHANGED op, UNCHANGED orders,
             Is(r, "create_payment"), NEW x, x.by = r, payments' = Append(payments, x)
      PROVE  OwnersInv'
  <2>1. /\ Len(payments') = Len(payments) + 1 /\ payments'[Len(payments) + 1].by = r
        /\ \A i \in 1..Len(payments) : payments'[i] = payments[i]
        /\ Len(payments) \in Nat
    BY <1>2, <1>7
  <2>2. \A i \in 1..Len(payments') : i \in 1..Len(payments) \/ i = Len(payments) + 1
    BY <2>1
  <2> QED BY <1>4, <1>7, <2>1, <2>2 DEF OwnersInv, Is
<1> QED BY <1>5, <1>6, <1>7, StepRows

\* A row of orders is what create_order answered 201 to.
LEMMA OrdersAreAnswered ==
  ASSUME SandboxInv, OwnersInv, NEW r \in Requests,
         op[r] # None => op[r].kind = "create_order"
  PROVE  (\E i \in 1..Len(orders) : orders[i].by = r) <=> result[r] = 201
<1>1. orders \in Seq(OrderRow) /\ payments \in Seq(PaymentRow) /\ RequestInv(r)
  BY DEF SandboxInv, TypeInv
<1>2. By(payments, r) = {}
  BY DEF OwnersInv, By
<1>3. Cardinality(By(payments, r)) = 0
  BY <1>2, FS_EmptySet
<1>4. /\ IsFiniteSet(By(orders, r)) /\ Cardinality(By(orders, r)) \in Nat
      /\ (Cardinality(By(orders, r)) = 0 <=> By(orders, r) = {})
  BY <1>1, RowsAreFew, FS_EmptySet
<1>5. Cardinality(By(orders, r)) = IF result[r] = 201 THEN 1 ELSE 0
  BY <1>1, <1>3, <1>4 DEF RequestInv, Made
<1>6. By(orders, r) # {} <=> result[r] = 201
  BY <1>4, <1>5
<1> QED BY <1>6 DEF By

-----------------------------------------------------------------------------
(* The theorems *)

LEMMA SandboxInvHolds == Spec => []SandboxInv
<1>1. Init => SandboxInv
  BY InvInit
<1>2. SandboxInv /\ [Next]_vars => SandboxInv'
  BY InvNext
<1> QED BY <1>1, <1>2, PTL DEF Spec

LEMMA InvWrites == SandboxInv => WritesAnswered
<1> SUFFICES ASSUME SandboxInv PROVE WritesAnswered
  OBVIOUS
<1>1. ASSUME NEW r \in Requests
      PROVE  Cardinality({i \in 1..Len(orders) : orders[i].by = r})
               + Cardinality({i \in 1..Len(payments) : payments[i].by = r})
             = IF result[r] = 201 THEN 1 ELSE 0
  BY DEF SandboxInv, RequestInv, Made, By
<1>2. ASSUME NEW i \in 1..Len(payments)
      PROVE  /\ payments[i].order <= Len(orders)
             /\ payments[i].amount_of = orders[payments[i].order]
  <2>1. payments[i].order \in 1..Len(orders) /\ Len(orders) \in Nat
    BY DEF SandboxInv, TypeInv, PaymentsInv
  <2> QED BY <2>1 DEF SandboxInv, PaymentsInv
<1> QED BY <1>1, <1>2 DEF WritesAnswered

LEMMA InvLogs == SandboxInv => LogsTellTheAnswer
<1> SUFFICES ASSUME SandboxInv, NEW r \in Requests, at[r] = "answered"
             PROVE  IF answer[r].request_id
                    THEN /\ [i \in 1..Len(logs[r]) |-> logs[r][i].event_type]
                              = <<"request_received",
                                  IF answer[r].status = 500 THEN "request_failed"
                                  ELSE "response_sent">>
                         /\ logs[r][2].status_code = answer[r].status
                    ELSE Len(logs[r]) <= 1 /\ answer[r].status = 500
  BY DEF LogsTellTheAnswer
<1>1. LogsTell(r)
  BY DEF SandboxInv, RequestInv
<1>2. CASE answer[r].request_id
  <2>1. PICK end : /\ logs[r] = <<Received, end>>
                   /\ end.event_type = IF answer[r].status = 500 THEN "request_failed"
                                       ELSE "response_sent"
                   /\ end.status_code = answer[r].status
    BY <1>1, <1>2 DEF LogsTell
  <2>2. [i \in 1..Len(logs[r]) |-> logs[r][i].event_type]
        = <<Received.event_type, end.event_type>>
    BY <2>1
  <2>3. Received.event_type = "request_received"
    BY DEF Received
  <2> QED BY <1>2, <2>1, <2>2, <2>3
<1>3. CASE ~answer[r].request_id
  <2>1. logs[r] \in {<<>>, <<Received>>} /\ answer[r].status = 500
    BY <1>1, <1>3 DEF LogsTell
  <2>2. CASE logs[r] = <<>>
    BY <1>3, <2>1, <2>2
  <2>3. CASE logs[r] = <<Received>>
    <3>1. Len(logs[r]) = 1
      BY <2>3
    <3> QED BY <1>3, <2>1, <3>1
  <2> QED BY <2>1, <2>2, <2>3
<1> QED BY <1>2, <1>3

\* For any number of concurrent requests and crashes, who is told 201 has made one row
\* and who is not has made none, and every payment is for an order as it is
\* (create_order, create_payment).
THEOREM WritesAreAnswered == Spec => []WritesAnswered
BY SandboxInvHolds, InvWrites, PTL

\* A request id that was given out finds exactly the rows of its request, with the
\* status that was answered (the log middleware).
THEOREM LogsTellTheAnswers == Spec => []LogsTellTheAnswer
BY SandboxInvHolds, InvLogs, PTL

-----------------------------------------------------------------------------
(* The stock.  Only UpdateInventory and CommitOrder write it; the one puts the *)
(* change on the account of supplied, the other on that of the orders.         *)

ConservedInv ==
  /\ supplied \in [Stocked -> Int]
  /\ \A p \in Stocked : Ordered(p) \in Nat /\ stock[p] + Ordered(p) = supplied[p]

LEMMA SoldEmpty == ASSUME NEW p PROVE Sold(<<>>, p) = 0
<1>1. [i \in 1..Len(<<>>) |-> IF <<>>[i].product = p THEN <<>>[i].quantity ELSE 0] = <<>>
  OBVIOUS
<1> QED BY <1>1, TotalEmpty DEF Sold

LEMMA SoldAppend ==
  ASSUME NEW rows \in Seq(OrderRow), NEW x \in OrderRow, NEW p
  PROVE  Sold(Append(rows, x), p) = Sold(rows, p) + IF x.product = p THEN x.quantity ELSE 0
<1> DEFINE more == Append(rows, x)
           weight(o) == IF o.product = p THEN o.quantity ELSE 0
           s == [i \in 1..Len(rows) |-> weight(rows[i])]
           t == [i \in 1..Len(more) |-> weight(more[i])]
<1>1. \A o \in OrderRow : weight(o) \in Nat
  BY DEF OrderRow
<1>2. /\ more \in Seq(OrderRow) /\ Len(more) = Len(rows) + 1
      /\ more[Len(rows) + 1] = x
      /\ \A i \in 1..Len(rows) : more[i] = rows[i] /\ rows[i] \in OrderRow
  OBVIOUS
<1> HIDE DEF more, weight
<1>3. s \in Seq(Nat) /\ Len(s) = Len(rows)
  BY <1>1, <1>2
<1>4. Append(s, weight(x)) = t
  BY <1>1, <1>2, <1>3
<1>5. Total(t) = Total(s) + weight(x)
  BY <1>1, <1>3, <1>4, TotalAppend
<1> QED BY <1>5 DEF Sold, weight, more

LEMMA ConservedOtherwise ==
  ASSUME ConservedInv, UNCHANGED <<stock, orders, supplied>>
  PROVE  ConservedInv'
BY DEF ConservedInv, Ordered

LEMMA ConservedUpdate ==
  ASSUME SandboxInv, ConservedInv, NEW r \in Requests, op[r] # None, UpdateInventory(r)
  PROVE  ConservedInv'
<1> DEFINE p == op[r].product
           q == op[r].quantity
<1>1. q \in Nat
  BY OperationTypes DEF UpdateInventory, Is, SandboxInv, TypeInv
<1>2. CASE p \in Stocked
  <2>1. /\ stock' = [stock EXCEPT ![p] = q]
        /\ supplied' = [supplied EXCEPT ![p] = (@ + q) - stock[p]]
        /\ orders' = orders
    BY <1>2 DEF UpdateInventory
  <2>2. stock \in [Stocked -> Nat] /\ supplied \in [Stocked -> Int]
    BY DEF SandboxInv, TypeInv, ConservedInv
  <2> HIDE DEF p, q
  <2>3. supplied' \in [Stocked -> Int]
    BY <1>1, <1>2, <2>1, <2>2
  <2>4. ASSUME NEW a \in Stocked
        PROVE  Ordered(a)' \in Nat /\ stock'[a] + Ordered(a)' = supplied'[a]
    <3>1. Ordered(a)' = Ordered(a)
      BY <2>1 DEF Ordered
    <3>2. Ordered(a) \in Nat /\ stock[a] + Ordered(a) = supplied[a]
      BY DEF ConservedInv
    <3>3. CASE a = p
      BY <1>1, <1>2, <2>1, <2>2, <3>1, <3>2, <3>3
    <3>4. CASE a # p
      BY <2>1, <2>2, <3>1, <3>2, <3>4
    <3> QED BY <3>3, <3>4
  <2> QED BY <2>3, <2>4 DEF ConservedInv
<1>3. CASE p \notin Stocked
  BY <1>3, ConservedOtherwise DEF UpdateInventory
<1> QED BY <1>2, <1>3

LEMMA ConservedCommit ==
  ASSUME SandboxInv, ConservedInv, NEW r \in Requests, op[r] # None, CommitOrder(r)
  PROVE  ConservedInv'
<1> DEFINE p == op[r].product
           x == NewOrder(r)
<1>1. /\ orders' = Append(orders, x)
      /\ stock' = [stock EXCEPT ![p] = @ - op[r].quantity]
      /\ p \in Stocked
      /\ UNCHANGED supplied
  BY CommitAppends DEF CommitOrder
<1>2. op[r].quantity \in Nat /\ p \in ProductIds
  BY OperationTypes DEF CommitOrder, Is, SandboxInv, TypeInv
<1>3. x \in OrderRow /\ x.product = p /\ x.quantity = op[r].quantity
  BY <1>2 DEF NewOrder, OrderRow
<1>4. orders \in Seq(OrderRow) /\ stock \in [Stocked -> Nat]
  BY DEF SandboxInv, TypeInv
<1> HIDE DEF x
<1>5. ASSUME NEW a \in Stocked
      PROVE  Ordered(a)' \in Nat /\ stock'[a] + Ordered(a)' = supplied'[a]
  <2>1. Ordered(a)' = Ordered(a) + IF p = a THEN op[r].quantity ELSE 0
    BY <1>1, <1>3, <1>4, SoldAppend DEF Ordered
  <2>2. Ordered(a) \in Nat /\ stock[a] + Ordered(a) = supplied[a] /\ stock[a] \in Nat
    BY <1>4 DEF ConservedInv
  <2>3. stock'[a] = stock[a] - IF p = a THEN op[r].quantity ELSE 0
    BY <1>1, <1>2, <1>4, <2>2
  <2> QED BY <1>1, <1>2, <2>1, <2>2, <2>3
<1> QED BY <1>1, <1>5 DEF ConservedInv

LEMMA ConservedNext == SandboxInv /\ ConservedInv /\ [Next]_vars => ConservedInv'
<1> SUFFICES ASSUME SandboxInv, ConservedInv, [Next]_vars PROVE ConservedInv'
  OBVIOUS
<1>1. ASSUME NEW r \in Requests, Handle(r) PROVE ConservedInv'
  BY <1>1, ConservedUpdate, ConservedCommit, ConservedOtherwise
     DEF Handle, GetProduct, GetOrder, BeginOrder, RollBackOrder, InsertOrder, ReadOrder,
         InsertPayment, WriteFails, tables
<1>2. ASSUME NEW r \in Requests, Receive(r) \/ Answer(r) \/ LogFails(r) PROVE ConservedInv'
  BY <1>2, ConservedOtherwise DEF Receive, Answer, LogFails, tables
<1>3. CASE Crash \/ UNCHANGED vars
  BY <1>3, ConservedOtherwise DEF Crash, vars, tables
<1> QED BY <1>1, <1>2, <1>3 DEF Next

\* However orders and updates interleave and wherever the process dies, what is left of a
\* product and what was ordered of it add up to what was supplied, and it is never
\* overdrawn: what an order has read stays true until it commits (create_order's
\* transaction).
THEOREM StockIsConserved == Spec => []StockConserved
<1>1. ASSUME Init PROVE ConservedInv
  <2>1. \A p \in Stocked : Ordered(p) = 0
    BY <1>1, SoldEmpty DEF Init, Ordered
  <2>2. InitialStock \in [Stocked -> Nat]
    BY SandboxAssumption
  <2> QED BY <1>1, <2>1, <2>2 DEF Init, ConservedInv
<1>2. SandboxInv /\ ConservedInv /\ [Next]_vars => ConservedInv'
  BY ConservedNext
<1>3. SandboxInv /\ ConservedInv => StockConserved
  BY DEF SandboxInv, TypeInv, ConservedInv, StockConserved
<1> QED BY <1>1, <1>2, <1>3, SandboxInvHolds, PTL DEF Spec
=============================================================================
