---------------------------- MODULE AdminOrders -----------------------------
(***************************************************************************)
(* Orders in the hands of the boss (src/admin/admin.service.ts): he sets   *)
(* any status, changes the master, the services and the delivery of an     *)
(* order, changes percent rates and has the wages of a completed order     *)
(* recalculated, while finish() and customerConfirm() go on beside him.    *)
(*                                                                         *)
(* The columns that OrdersService holds constant are the state here; of    *)
(* the settlement only the wages are kept, and it is one step once its     *)
(* order has been read, since nothing here reads what it locks.            *)
(*                                                                         *)
(* recalculateOrderFees computes everything from rows read before its      *)
(* $transaction, and in it reads a balance and writes back a sum: the      *)
(* steps are the awaits at which others may move what it has read. What it *)
(* writes is not visible before RecalculateCommit; the locks it holds are. *)
(***************************************************************************)
EXTENDS Integers, FiniteSets, OrderStatusMachine

CONSTANTS
  Orders,         \* orders being worked on
  Masters,        \* users with role master
  Drivers,        \* users with role driver
  NoDriver,       \* driver_id IS NULL
  Initial,        \* each order's row when the work begins
  Courier,        \* each order's driver_id
  Sums,           \* what the service items of an order may add up to (bound)
  Rates,          \* percent_rate of a user, from this set (bound)
  FirstRate,      \* percent_rate at the start
  DeliveryFee,    \* DELIVERY_FEE
  AdminStatuses,  \* statuses the boss sets (bound)
  Keep,           \* a field left out of AdminUpdateOrderDto
  Slots           \* requests in flight at once (bound)

Staff == Masters \cup Drivers

\* link: whether confirm_token is set.
Row == [status : OrderStatus, master : Masters, services : Sums,
        delivery : BOOLEAN, link : BOOLEAN]

ASSUME AdminConstantsAssumption ==
  /\ Masters \cap Drivers = {}
  /\ NoDriver \notin Masters \cup Drivers
  /\ Keep \notin Masters /\ Keep \notin Sums /\ Keep \notin BOOLEAN
  /\ Initial \in [Orders -> Row]
  /\ Courier \in [Orders -> Drivers \cup {NoDriver}]
  /\ Sums \subseteq Nat
  /\ Rates \subseteq Nat
  /\ FirstRate \in [Staff -> Rates]
  /\ DeliveryFee \in Nat
  /\ AdminStatuses \subseteq OrderStatus

VARIABLES
  order,         \* Order rows, with the sum of their service items
  rate,          \* User.percent_rate
  transactions,  \* Transaction rows: the wages
  balance,       \* User.balance
  inflight       \* requests between their read and the end of their write

vars == <<order, rate, transactions, balance, inflight>>

TransactionRow ==
  [order : Orders, user : Staff, type : {"master_fee", "driver_fee"}, amount : Nat]

Patches == [master : Masters \cup {Keep}, services : Sums \cup {Keep},
            delivery : BOOLEAN \cup {Keep}]

\* rows: the wages computed from what was read; old: the rows to be deleted;
\* readMaster, readDriver: the balances read in the $transaction.
Requests ==
       [slot : Slots, op : {"finish"}, order : Orders]
  \cup [slot : Slots, op : {"customerConfirm"}, order : Orders,
        rows : SUBSET TransactionRow]
  \cup [slot : Slots, op : {"updateOrder"}, order : Orders, patch : Patches]
  \cup [slot : Slots, op : {"recalculate", "recalculateMaster", "recalculateDriver"},
        order : Orders, master : Masters, rows : SUBSET TransactionRow,
        old : SUBSET TransactionRow, readMaster : Int, readDriver : Int]

\* Every row has the columns and the enum values of the Prisma schema, and a
\* request is one of these.
TypeOK ==
  /\ order \in [Orders -> Row]
  /\ rate \in [Staff -> Rates]
  /\ transactions \subseteq TransactionRow
  /\ balance \in [Staff -> Int]
  /\ inflight \subseteq Requests

Init ==
  /\ order = Initial
  /\ rate = FirstRate
  /\ transactions = {}
  /\ balance = [u \in Staff |-> 0]
  /\ inflight = {}
-----------------------------------------------------------------------------
(* Wages.                                                                  *)

\* Math.round(sum * percent / 100).
Percent(sum, p) == (2 * sum * p + 100) \div 200

MasterWage(o) == Percent(order[o].services, rate[order[o].master])

DriverWage(o) ==
  IF order[o].delivery /\ Courier[o] # NoDriver
  THEN Percent(DeliveryFee, rate[Courier[o]]) ELSE 0

Posting(o, u, type, amount) ==
  [order |-> o, user |-> u, type |-> type, amount |-> amount]

\* The rows customerConfirm and recalculateOrderFees create for an order, as
\* the order and the rates are when it is read.
Wages(o) ==
  {Posting(o, order[o].master, "master_fee", MasterWage(o))}
  \cup (IF DriverWage(o) > 0
        THEN {Posting(o, Courier[o], "driver_fee", DriverWage(o))} ELSE {})

\* What a user gets out of some rows, one or none of them his.
Due(rows, u) ==
  IF \E t \in rows : t.user = u
  THEN (CHOOSE t \in rows : t.user = u).amount ELSE 0

\* The amount of the row of a type, 0 if there is none.
Amount(rows, type) ==
  IF \E t \in rows : t.type = type
  THEN (CHOOSE t \in rows : t.type = type).amount ELSE 0

\* Transaction @@unique([order_id, user_id, type]): rows may join books.
Fits(rows, books) ==
  \A t \in rows, x \in books : <<t.order, t.user, t.type>> # <<x.order, x.user, x.type>>

\* An open $transaction has written this user and not committed.
Locked(u) == \E q \in inflight : q.op = "recalculateDriver" /\ q.master = u
-----------------------------------------------------------------------------
(* The order goes on.                                                      *)

Begin(s, r) ==
  /\ \A q \in inflight : q.slot # s
  /\ inflight' = inflight \cup {r}

Finish(s, o) ==
  /\ CanTransition(order[o].status, "waiting_customer_confirmation")
  /\ Begin(s, [slot |-> s, op |-> "finish", order |-> o])
  /\ UNCHANGED <<order, rate, transactions, balance>>

FinishWrite(r) ==
  /\ r.op = "finish"
  /\ order' = [order EXCEPT ![r.order].status = "waiting_customer_confirmation",
                            ![r.order].link = TRUE]
  /\ inflight' = inflight \ {r}
  /\ UNCHANGED <<rate, transactions, balance>>

\* findFirst by token, and everything that is computed from the row.
CustomerConfirm(s, o) ==
  /\ order[o].status = "waiting_customer_confirmation"
  /\ order[o].link
  /\ Begin(s, [slot |-> s, op |-> "customerConfirm", order |-> o, rows |-> Wages(o)])
  /\ UNCHANGED <<order, rate, transactions, balance>>

\* A row that exists and a user that is locked keep it waiting or fail it.
CustomerCommit(r) ==
  /\ r.op = "customerConfirm"
  /\ Fits(r.rows, transactions)
  /\ \A t \in r.rows : ~Locked(t.user)
  /\ transactions' = transactions \cup r.rows
  /\ balance' = [u \in Staff |-> balance[u] + Due(r.rows, u)]
  /\ order' = [order EXCEPT ![r.order].status = "completed", ![r.order].link = FALSE]
  /\ inflight' = inflight \ {r}
  /\ UNCHANGED rate
-----------------------------------------------------------------------------
(* The boss corrects.                                                      *)

\* Any status, whatever the order has; the table is not asked.
UpdateOrderStatus(o, status) ==
  /\ order' = [order EXCEPT ![o].status = status]
  /\ UNCHANGED <<rate, transactions, balance, inflight>>

UpdateUser(u, p) ==
  /\ ~Locked(u)
  /\ rate' = [rate EXCEPT ![u] = p]
  /\ UNCHANGED <<order, transactions, balance, inflight>>

Patched(value, field) == IF field = Keep THEN value ELSE field

\* The items are written one by one, outside a $transaction ...
UpdateOrder(s, o, patch) ==
  /\ Begin(s, [slot |-> s, op |-> "updateOrder", order |-> o, patch |-> patch])
  /\ order' = [order EXCEPT ![o].services = Patched(@, patch.services)]
  /\ UNCHANGED <<rate, transactions, balance>>

\* Mutant: the fields that were left out are written too.
UpdateOrderWrite_AllFields(r) ==
  /\ r.op = "updateOrder"
  /\ order' = [order EXCEPT ![r.order].master = r.patch.master,
                            ![r.order].delivery = Patched(@, r.patch.delivery)]
  /\ inflight' = inflight \ {r}
  /\ UNCHANGED <<rate, transactions, balance>>

\* ... and the order's own columns after them.
UpdateOrderWrite(r) ==
  /\ r.op = "updateOrder"
  /\ order' = [order EXCEPT ![r.order].master = Patched(@, r.patch.master),
                            ![r.order].delivery = Patched(@, r.patch.delivery)]
  /\ inflight' = inflight \ {r}
  /\ UNCHANGED <<rate, transactions, balance>>
-----------------------------------------------------------------------------
(* recalculateOrderFees.                                                   *)

\* transactions.find((t) => t.type === type): any one of them, or none.
FirstOf(o, type) ==
  LET found == {t \in transactions : t.order = o /\ t.type = type}
  IN  IF found = {} THEN {{}} ELSE {{t} : t \in found}

\* The order, its master and driver, its items and its old rows are read.
RecalculateOrderFees(s, o) ==
  /\ order[o].status = "completed"
  /\ \E m \in FirstOf(o, "master_fee"), d \in FirstOf(o, "driver_fee") :
       Begin(s, [slot |-> s, op |-> "recalculate", order |-> o,
                 master |-> order[o].master, rows |-> Wages(o), old |-> m \cup d,
                 readMaster |-> 0, readDriver |-> 0])
  /\ UNCHANGED <<order, rate, transactions, balance>>

Deleting(t) ==
  \E q \in inflight : q.op \in {"recalculateMaster", "recalculateDriver"} /\ t \in q.old

\* Mutant: deleteMany, which does not mind a row that is gone.
RecalculateDelete_AnyRow(r) ==
  /\ r.op = "recalculate"
  /\ \A t \in r.old : ~Deleting(t)
  /\ inflight' = (inflight \ {r}) \cup
       {[r EXCEPT !.op = "recalculateMaster", !.readMaster = balance[r.master]]}
  /\ UNCHANGED <<order, rate, transactions, balance>>

\* Mutant: the old rows are deleted before the $transaction.
RecalculateDelete_Outside(r) ==
  /\ r.op = "recalculate"
  /\ r.old \subseteq transactions
  /\ transactions' = transactions \ r.old
  /\ inflight' = (inflight \ {r}) \cup
       {[r EXCEPT !.op = "recalculateMaster", !.readMaster = balance[r.master]]}
  /\ UNCHANGED <<order, rate, balance>>

\* The $transaction deletes the old rows and reads the master's balance. A
\* row that is gone fails it; one that another deletes keeps it waiting.
RecalculateDelete(r) ==
  /\ r.op = "recalculate"
  /\ \A t \in r.old : t \in transactions /\ ~Deleting(t)
  /\ inflight' = (inflight \ {r}) \cup
       {[r EXCEPT !.op = "recalculateMaster", !.readMaster = balance[r.master]]}
  /\ UNCHANGED <<order, rate, transactions, balance>>

\* It writes the master's balance and reads the driver's.
RecalculateMaster(r) ==
  LET d == Courier[r.order] IN
  /\ r.op = "recalculateMaster"
  /\ ~Locked(r.master)
  /\ inflight' = (inflight \ {r}) \cup
       {[r EXCEPT !.op = "recalculateDriver",
                  !.readDriver = IF d = NoDriver THEN 0 ELSE balance[d]]}
  /\ UNCHANGED <<order, rate, transactions, balance>>

Change(r, type) == Amount(r.rows, type) - Amount(r.old, type)

\* It writes the driver's balance, creates the new rows and commits.
RecalculateCommit(r) ==
  LET d == Courier[r.order] IN
  /\ r.op = "recalculateDriver"
  /\ Fits(r.rows, transactions \ r.old)
  /\ transactions' = (transactions \ r.old) \cup r.rows
  /\ balance' = [u \in Staff |->
       CASE u = r.master -> r.readMaster + Change(r, "master_fee")
         [] u = d -> r.readDriver + Change(r, "driver_fee")
         [] OTHER -> balance[u]]
  /\ inflight' = inflight \ {r}
  /\ UNCHANGED <<order, rate>>
-----------------------------------------------------------------------------
\* A failing $transaction rolls back; updateOrder keeps the items it wrote.
RequestFails(r) ==
  /\ inflight' = inflight \ {r}
  /\ UNCHANGED <<order, rate, transactions, balance>>

Requested(s, o) ==
  \/ Finish(s, o)
  \/ CustomerConfirm(s, o)
  \/ RecalculateOrderFees(s, o)
  \/ \E patch \in Patches : UpdateOrder(s, o, patch)

Continued(r) ==
  \/ FinishWrite(r)
  \/ CustomerCommit(r)
  \/ UpdateOrderWrite(r)
  \/ RecalculateDelete(r)
  \/ RecalculateMaster(r)
  \/ RecalculateCommit(r)
  \/ RequestFails(r)

Next ==
  \/ \E s \in Slots, o \in Orders : Requested(s, o)
  \/ \E r \in inflight : Continued(r)
  \/ \E o \in Orders, status \in AdminStatuses : UpdateOrderStatus(o, status)
  \/ \E u \in Staff, p \in Rates : UpdateUser(u, p)

Spec == Init /\ [][Next]_vars
=============================================================================
