--------------------------- MODULE OrdersService ----------------------------
(***************************************************************************)
(* OrdersService (src/orders/orders.service.ts) over PostgreSQL.           *)
(*                                                                         *)
(* Every handler but driverAccept reads the order row, checks that copy    *)
(* against the status table and its owner, awaits, and then updates the    *)
(* row by id without looking at it again. So a handler is two steps here:  *)
(* the step named after it reads and checks, and leaves a request in       *)
(* flight that remembers the row it has `seen'; its ...Write step is the   *)
(* $transaction, which goes by that memory. A check that fails answers     *)
(* with an error and changes nothing, which is a stuttering step.          *)
(*                                                                         *)
(* Slots bounds how many requests one user may have in flight: with one    *)
(* slot a user waits for the answer before the next tap, with two he may   *)
(* double-tap or retry. Anybody holding the link may confirm as Customer.  *)
(***************************************************************************)
EXTENDS Integers, FiniteSets, OrderStatusMachine

CONSTANTS
  Orders,         \* order ids that may be created
  Masters,        \* users that create orders (role master, or boss)
  Drivers,        \* users with role driver
  Customer,       \* whoever holds a confirmation link
  NoDriver,       \* driver_id IS NULL
  Orgs,           \* corporate customers
  NoOrg,          \* organization_id IS NULL
  Products,       \* products held in stock
  Dto,            \* what each order is created with
  DriverFee,      \* kuryerHaqi by driver: round(DELIVERY_FEE * percent / 100)
  DeliveryFee,    \* DELIVERY_FEE
  InitialStock,   \* stock_count at the start
  Slots,          \* requests a user may have in flight (bound)
  CustomerSlots,  \* confirmations in flight at once (bound)
  MaxInflight,    \* requests in flight at once, of all users (bound)
  MaxTokens       \* confirm tokens ever generated (bound)

Staff == Masters \cup Drivers

Dtos == [master : Masters, delivery : BOOLEAN, org : Orgs \cup {NoOrg},
         total : Nat, masterFee : Nat, qty : [Products -> Nat]]

ASSUME ConstantsAssumption ==
  /\ Masters \cap Drivers = {}
  /\ Customer \notin Staff
  /\ NoDriver \notin Drivers
  /\ NoOrg \notin Orgs
  /\ Dto \in [Orders -> Dtos]
  /\ DriverFee \in [Drivers -> Nat]
  /\ DeliveryFee \in Nat
  /\ InitialStock \in [Products -> Nat]
  /\ MaxInflight \in Nat
  /\ MaxTokens \in Nat

VARIABLES
  order,         \* Order rows: status, driver_id and confirm_token
  transactions,  \* Transaction rows
  balance,       \* User.balance
  balanceDue,    \* Organization.balance_due
  stock,         \* Product.stock_count
  events,        \* OrderEvent rows, as a set
  issued,        \* how many UUIDs finish() has drawn; 0 stands for NULL
  inflight,      \* requests between their read and the end of their write
  outbox,        \* broadcastOrder() calls not yet acknowledged by Redis
  jobs           \* broadcast_queue

money == <<transactions, balance, balanceDue, stock>>
queue == <<outbox, jobs>>
vars == <<order, money, events, issued, inflight, queue>>

Statuses == OrderStatus \cup {"absent"}
Row == [status : Statuses, driver : Drivers \cup {NoDriver}, token : Nat]

Ops == {"setLocation", "confirm", "masterStartWork", "cancelOrder", "finish",
        "driverFinish", "confirmDelivery", "rejectDelivery", "driverDelivered",
        "receive", "driverAccepted", "customerConfirm", "customerCommit"}

Requests == [user : Staff \cup {Customer}, slot : Slots \cup CustomerSlots,
             op : Ops, order : Orders, seen : Row]

EventTypes ==
  {"draft_created", "location_submitted", "master_confirmed", "master_started_work",
   "cancelled", "master_finished", "driver_finished", "master_confirmed_delivery",
   "master_rejected_delivery", "driver_accepted", "driver_delivered",
   "received_by_master", "customer_completed"}

TransactionTypes == {"master_fee", "driver_fee", "delivery_fee"}

TransactionRow == [order : Orders, user : Staff, type : TransactionTypes, amount : Nat]

\* The customer's events have no actor_user_id.
EventRow == [order : Orders, actor : Staff \cup {Customer}, type : EventTypes]

\* Every row has the columns and the enum values of the Prisma schema, and a
\* request names a user, an order and a row that exist.
TypeOK ==
  /\ order \in [Orders -> Row]
  /\ transactions \subseteq TransactionRow
  /\ balance \in [Staff -> Int]
  /\ balanceDue \in [Orgs -> Int]
  /\ stock \in [Products -> Int]
  /\ events \subseteq EventRow
  /\ issued \in Nat
  /\ inflight \subseteq Requests
  /\ outbox \subseteq Orders
  /\ jobs \subseteq Orders

Init ==
  /\ order = [o \in Orders |-> [status |-> "absent", driver |-> NoDriver, token |-> 0]]
  /\ transactions = {}
  /\ balance = [u \in Staff |-> 0]
  /\ balanceDue = [g \in Orgs |-> 0]
  /\ stock = InitialStock
  /\ events = {}
  /\ issued = 0
  /\ inflight = {}
  /\ outbox = {}
  /\ jobs = {}
-----------------------------------------------------------------------------
(* The two halves of a handler.                                            *)

Free(u, s) ==
  /\ \A r \in inflight : <<r.user, r.slot>> # <<u, s>>
  /\ Cardinality(inflight) < MaxInflight

\* Read the row, pass the checks, await.
Start(u, s, op, o) ==
  /\ Free(u, s)
  /\ inflight' = inflight \cup
       {[user |-> u, slot |-> s, op |-> op, order |-> o, seen |-> order[o]]}
  /\ UNCHANGED <<order, money, events, issued, queue>>

\* Mutant: the owner is checked and the status is not.
MasterMay_AnyStatus(u, o, to) == u = Dto[o].master /\ to \in OrderStatus

\* The checks shared by the master's handlers: his own order, a listed status.
MasterMay(u, o, to) ==
  /\ u = Dto[o].master
  /\ CanTransition(order[o].status, to)

Log(r, type) ==
  events' = events \cup {[order |-> r.order, actor |-> r.user, type |-> type]}

\* prisma.order.update({where: {id}, data: {status}}) with its event.
WriteStatus(r, op, status, type) ==
  /\ r.op = op
  /\ order' = [order EXCEPT ![r.order].status = status]
  /\ Log(r, type)
  /\ inflight' = inflight \ {r}
-----------------------------------------------------------------------------
(* The draft, its location and its confirmation.                           *)

\* createDraft: the row, its items and the event are one $transaction.
CreateDraft(o) ==
  /\ order[o].status = "absent"
  /\ order' = [order EXCEPT ![o].status = "draft"]
  /\ events' = events \cup
       {[order |-> o, actor |-> Dto[o].master, type |-> "draft_created"]}
  /\ UNCHANGED <<money, issued, inflight, queue>>

SetLocation(u, s, o) ==
  /\ MasterMay(u, o, "waiting_confirmation")
  /\ Start(u, s, "setLocation", o)

SetLocationWrite(r) ==
  /\ WriteStatus(r, "setLocation", "waiting_confirmation", "location_submitted")
  /\ UNCHANGED <<money, issued, queue>>

\* The status confirm() moves to.
ConfirmTarget(o) ==
  IF Dto[o].delivery THEN "broadcasted" ELSE "waiting_master_work_start"

Confirm(u, s, o) ==
  /\ MasterMay(u, o, ConfirmTarget(o))
  /\ Start(u, s, "confirm", o)

\* Nobody waits for broadcastOrder(): the call is left in the outbox.
ConfirmWrite(r) ==
  /\ WriteStatus(r, "confirm", ConfirmTarget(r.order), "master_confirmed")
  /\ outbox' = IF Dto[r.order].delivery THEN outbox \cup {r.order} ELSE outbox
  /\ UNCHANGED <<money, issued, jobs>>

\* queue.add() reaches Redis.
BroadcastOrder(o) ==
  /\ o \in outbox
  /\ outbox' = outbox \ {o}
  /\ jobs' = jobs \cup {o}
  /\ UNCHANGED <<order, money, events, issued, inflight>>

CancelOrder(u, s, o) ==
  /\ MasterMay(u, o, "cancelled")
  /\ Start(u, s, "cancelOrder", o)

CancelOrderWrite(r) ==
  /\ WriteStatus(r, "cancelOrder", "cancelled", "cancelled")
  /\ UNCHANGED <<money, issued, queue>>
-----------------------------------------------------------------------------
(* The courier.                                                            *)

\* Mutant: the UPDATE leaves driver_id alone.
DriverAccept_NoDriverId(d, s, o) ==
  /\ Free(d, s)
  /\ order[o].status = "broadcasted"
  /\ order' = [order EXCEPT ![o].status = "received_by_driver"]
  /\ UNCHANGED <<money, events, issued, inflight, queue>>

\* Mutant: the raw SQL names a status the schema does not have.
DriverAccept_UnlistedStatus(d, s, o) ==
  /\ Free(d, s)
  /\ order[o].status = "broadcasted"
  /\ order' = [order EXCEPT ![o].status = "received_by_courier", ![o].driver = d]
  /\ UNCHANGED <<money, events, issued, inflight, queue>>

\* One UPDATE ... WHERE status = 'broadcasted'; the event is written after it.
DriverAccept(d, s, o) ==
  /\ Free(d, s)
  /\ order[o].status = "broadcasted"
  /\ order' = [order EXCEPT ![o].status = "received_by_driver", ![o].driver = d]
  /\ inflight' = inflight \cup
       {[user |-> d, slot |-> s, op |-> "driverAccepted", order |-> o,
         seen |-> order'[o]]}
  /\ UNCHANGED <<money, events, issued, queue>>

DriverAcceptEvent(r) ==
  /\ r.op = "driverAccepted"
  /\ Log(r, "driver_accepted")
  /\ inflight' = inflight \ {r}
  /\ UNCHANGED <<order, money, issued, queue>>

DriverFinish(d, s, o) ==
  /\ order[o].driver = d
  /\ CanTransition(order[o].status, "waiting_master_delivery_confirmation")
  /\ Start(d, s, "driverFinish", o)

DriverFinishWrite(r) ==
  /\ WriteStatus(r, "driverFinish", "waiting_master_delivery_confirmation",
                 "driver_finished")
  /\ UNCHANGED <<money, issued, queue>>

\* Mutant: the courier may report whatever the status.
DriverDelivered_AnyStatus(d, s, o) ==
  /\ order[o].driver = d
  /\ Start(d, s, "driverDelivered", o)

\* Checks two statuses of its own and never the table.
DriverDelivered(d, s, o) ==
  /\ order[o].driver = d
  /\ order[o].status \in {"accepted", "received_by_driver"}
  /\ Start(d, s, "driverDelivered", o)

DriverDeliveredWrite(r) ==
  /\ WriteStatus(r, "driverDelivered", "delivered_by_driver", "driver_delivered")
  /\ UNCHANGED <<money, issued, queue>>
-----------------------------------------------------------------------------
(* The master takes the delivery over and works.                           *)

\* Transaction @@unique([order_id, user_id, type]).
Recorded(o, u, type) ==
  \E t \in transactions : t.order = o /\ t.user = u /\ t.type = type

Posting(o, u, type, amount) ==
  [order |-> o, user |-> u, type |-> type, amount |-> amount]

\* Mutant: the button works before the courier has reported.
AwaitsMaster_OnTheWay(u, o) ==
  /\ u = Dto[o].master
  /\ order[o].status \in {"received_by_driver", "delivered_by_driver"}

AwaitsMaster(u, o) ==
  /\ u = Dto[o].master
  /\ order[o].status \in {"waiting_master_delivery_confirmation", "delivered_by_driver"}

ConfirmDelivery(u, s, o) == AwaitsMaster(u, o) /\ Start(u, s, "confirmDelivery", o)

RejectDelivery(u, s, o) == AwaitsMaster(u, o) /\ Start(u, s, "rejectDelivery", o)

\* Mutant: the row is created once, the balance is credited every time.
ConfirmDeliveryWrite_CreditsAgain(r) ==
  LET d == r.seen.driver IN
  /\ WriteStatus(r, "confirmDelivery", "working", "master_confirmed_delivery")
  /\ IF d # NoDriver
     THEN /\ transactions' = transactions \cup
                {Posting(r.order, d, "delivery_fee", DeliveryFee)}
          /\ balance' = [balance EXCEPT ![d] = @ + DeliveryFee]
     ELSE UNCHANGED <<transactions, balance>>
  /\ UNCHANGED <<balanceDue, stock, issued, queue>>

\* Pays the driver of the row it has seen, unless that fee is on the books.
ConfirmDeliveryWrite(r) ==
  LET d == r.seen.driver IN
  /\ WriteStatus(r, "confirmDelivery", "working", "master_confirmed_delivery")
  /\ IF d # NoDriver /\ ~Recorded(r.order, d, "delivery_fee")
     THEN /\ transactions' = transactions \cup
                {Posting(r.order, d, "delivery_fee", DeliveryFee)}
          /\ balance' = [balance EXCEPT ![d] = @ + DeliveryFee]
     ELSE UNCHANGED <<transactions, balance>>
  /\ UNCHANGED <<balanceDue, stock, issued, queue>>

RejectDeliveryWrite(r) ==
  /\ WriteStatus(r, "rejectDelivery", "received_by_driver", "master_rejected_delivery")
  /\ UNCHANGED <<money, issued, queue>>

Receive(u, s, o) ==
  /\ MasterMay(u, o, "working")
  /\ Start(u, s, "receive", o)

ReceiveWrite(r) ==
  /\ WriteStatus(r, "receive", "working", "received_by_master")
  /\ UNCHANGED <<money, issued, queue>>

\* Its button is sent by confirm() for an order without delivery; the service
\* asks the table only.
MasterStartWork(u, s, o) ==
  /\ MasterMay(u, o, "working")
  /\ Start(u, s, "masterStartWork", o)

MasterStartWorkWrite(r) ==
  /\ WriteStatus(r, "masterStartWork", "working", "master_started_work")
  /\ UNCHANGED <<money, issued, queue>>

Finish(u, s, o) ==
  /\ MasterMay(u, o, "waiting_customer_confirmation")
  /\ Start(u, s, "finish", o)

\* A new confirm_token replaces whatever token the row has.
FinishWrite(r) ==
  /\ r.op = "finish"
  /\ issued < MaxTokens
  /\ issued' = issued + 1
  /\ order' = [order EXCEPT ![r.order].status = "waiting_customer_confirmation",
                            ![r.order].token = issued']
  /\ Log(r, "master_finished")
  /\ inflight' = inflight \ {r}
  /\ UNCHANGED <<money, queue>>
-----------------------------------------------------------------------------
(* The customer settles the order.                                         *)

\* kuryerHaqi, from the row read before the $transaction.
CourierShare(r) ==
  IF Dto[r.order].delivery /\ r.seen.driver # NoDriver
  THEN DriverFee[r.seen.driver] ELSE 0

Postings(r) ==
  {Posting(r.order, Dto[r.order].master, "master_fee", Dto[r.order].masterFee)}
  \cup (IF CourierShare(r) > 0
        THEN {Posting(r.order, r.seen.driver, "driver_fee", CourierShare(r))} ELSE {})

Share(r, u) ==
  IF u = Dto[r.order].master THEN Dto[r.order].masterFee
  ELSE IF u = r.seen.driver THEN CourierShare(r) ELSE 0

Payees(r) == {t.user : t \in Postings(r)}

\* Rows that q holds locked and r would update before it reads the stock.
Blocks(q, r) ==
  /\ q.op = "customerCommit"
  /\ \/ Payees(q) \cap Payees(r) # {}
     \/ /\ Dto[q.order].org = Dto[r.order].org
        /\ Dto[r.order].org # NoOrg

\* Mutant: off by one.
InStock_OffByOne(o) ==
  \A p \in Products : Dto[o].qty[p] > 0 => stock[p] >= Dto[o].qty[p] - 1

InStock(o) == \A p \in Products : Dto[o].qty[p] > 0 => stock[p] >= Dto[o].qty[p]

\* findFirst by token, outside the $transaction.
CustomerConfirm(s, o) ==
  /\ order[o].status = "waiting_customer_confirmation"
  /\ order[o].token # 0
  /\ Start(Customer, s, "customerConfirm", o)

\* Mutant: no unique index on (order_id, user_id, type).
CustomerCheckStock_NoIndex(r) ==
  /\ r.op = "customerConfirm"
  /\ \A q \in inflight : ~Blocks(q, r)
  /\ InStock(r.order)
  /\ inflight' = (inflight \ {r}) \cup {[r EXCEPT !.op = "customerCommit"]}
  /\ UNCHANGED <<order, money, events, issued, queue>>

\* Mutant: the status is written first, outside the $transaction.
CustomerCheckStock_StatusFirst(r) ==
  /\ r.op = "customerConfirm"
  /\ \A q \in inflight : ~Blocks(q, r)
  /\ InStock(r.order)
  /\ order' = [order EXCEPT ![r.order].status = "completed"]
  /\ inflight' = (inflight \ {r}) \cup {[r EXCEPT !.op = "customerCommit"]}
  /\ UNCHANGED <<money, events, issued, queue>>

\* The inserts and increments are done but not visible, and the stock is
\* read as committed: the check passes on what other open $transactions
\* have not committed yet. A duplicate or a shortage rolls back.
CustomerCheckStock(r) ==
  /\ r.op = "customerConfirm"
  /\ \A t \in Postings(r) : ~Recorded(t.order, t.user, t.type)
  /\ \A q \in inflight : ~Blocks(q, r)
  /\ InStock(r.order)
  /\ inflight' = (inflight \ {r}) \cup {[r EXCEPT !.op = "customerCommit"]}
  /\ UNCHANGED <<order, money, events, issued, queue>>

\* Mutant: confirm_token is left in the row.
CustomerCommit_KeepsToken(r) ==
  LET o == r.order IN
  /\ r.op = "customerCommit"
  /\ transactions' = transactions \cup Postings(r)
  /\ balance' = [u \in Staff |-> balance[u] + Share(r, u)]
  /\ balanceDue' = [g \in Orgs |->
       balanceDue[g] + IF Dto[o].org = g THEN Dto[o].total ELSE 0]
  /\ stock' = [p \in Products |-> stock[p] - Dto[o].qty[p]]
  /\ order' = [order EXCEPT ![o].status = "completed"]
  /\ Log(r, "customer_completed")
  /\ inflight' = inflight \ {r}
  /\ UNCHANGED <<issued, queue>>

CustomerCommit(r) ==
  LET o == r.order IN
  /\ r.op = "customerCommit"
  /\ transactions' = transactions \cup Postings(r)
  /\ balance' = [u \in Staff |-> balance[u] + Share(r, u)]
  /\ balanceDue' = [g \in Orgs |->
       balanceDue[g] + IF Dto[o].org = g THEN Dto[o].total ELSE 0]
  /\ stock' = [p \in Products |-> stock[p] - Dto[o].qty[p]]
  /\ order' = [order EXCEPT ![o].status = "completed", ![o].token = 0]
  /\ Log(r, "customer_completed")
  /\ inflight' = inflight \ {r}
  /\ UNCHANGED <<issued, queue>>
-----------------------------------------------------------------------------
(* Failures.                                                               *)

\* A $transaction that throws (unique index, shortage, lost connection)
\* rolls back; after driverAccept's UPDATE it is only the event that is lost.
RequestFails(r) ==
  /\ inflight' = inflight \ {r}
  /\ UNCHANGED <<order, money, events, issued, queue>>

\* The process dies: open requests and unacknowledged queue.add() calls go.
Crash ==
  /\ inflight \cup outbox # {}
  /\ inflight' = {}
  /\ outbox' = {}
  /\ UNCHANGED <<order, money, events, issued, jobs>>
-----------------------------------------------------------------------------
MasterReads(u, s, o) ==
  \/ SetLocation(u, s, o)
  \/ Confirm(u, s, o)
  \/ CancelOrder(u, s, o)
  \/ ConfirmDelivery(u, s, o)
  \/ RejectDelivery(u, s, o)
  \/ Receive(u, s, o)
  \/ MasterStartWork(u, s, o)
  \/ Finish(u, s, o)

DriverReads(d, s, o) ==
  \/ DriverFinish(d, s, o)
  \/ DriverDelivered(d, s, o)

Writes(r) ==
  \/ SetLocationWrite(r)
  \/ ConfirmWrite(r)
  \/ CancelOrderWrite(r)
  \/ DriverAcceptEvent(r)
  \/ DriverFinishWrite(r)
  \/ DriverDeliveredWrite(r)
  \/ ConfirmDeliveryWrite(r)
  \/ RejectDeliveryWrite(r)
  \/ ReceiveWrite(r)
  \/ MasterStartWorkWrite(r)
  \/ FinishWrite(r)
  \/ CustomerCheckStock(r)
  \/ CustomerCommit(r)
  \/ RequestFails(r)

Next ==
  \/ \E o \in Orders : CreateDraft(o) \/ BroadcastOrder(o)
  \/ \E u \in Masters, s \in Slots, o \in Orders : MasterReads(u, s, o)
  \/ \E d \in Drivers, s \in Slots, o \in Orders :
        DriverReads(d, s, o) \/ DriverAccept(d, s, o)
  \/ \E s \in CustomerSlots, o \in Orders : CustomerConfirm(s, o)
  \/ \E r \in inflight : Writes(r)
  \/ Crash

Spec == Init /\ [][Next]_vars
=============================================================================
