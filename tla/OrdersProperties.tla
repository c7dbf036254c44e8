-------------------------- MODULE OrdersProperties --------------------------
(***************************************************************************)
(* What OrdersService has to guarantee. The first group holds however many *)
(* requests overlap; the second needs each user to wait for an answer      *)
(* before the next tap, and the third does not hold.                       *)
(***************************************************************************)
EXTENDS OrdersService, FiniteSetsExt
-----------------------------------------------------------------------------
(* For any number of slots.                                                *)

CourierStatuses ==
  {"received_by_driver", "waiting_master_delivery_confirmation", "delivered_by_driver"}

\* An order that is with a courier names him: driver_id is never lost or
\* skipped, so the courier's handlers can always find their order again.
WithCourierHasDriver ==
  \A o \in Orders : order[o].status \in CourierStatuses => order[o].driver # NoDriver

\* A user's balance is the sum of his Transaction rows (masterConfirmDelivery,
\* customerConfirm), whatever requests overlap, fail or are repeated. It
\* follows from LedgerSpec.
BalanceIsLedger ==
  \A u \in Staff :
    balance[u] = MapThenSumSet(LAMBDA t : t.amount,
                               {t \in transactions : t.user = u})

Settled(o) == Recorded(o, Dto[o].master, "master_fee")

\* Each settled order has left the stock once and been charged to its
\* organization once, and an order that is not settled has done neither, even
\* if it is finished again and confirmed with a second link.
SettledExactlyOnce ==
  LET done == {o \in Orders : Settled(o)} IN
  /\ \A p \in Products :
       stock[p] = InitialStock[p] - MapThenSumSet(LAMBDA o : Dto[o].qty[p], done)
  /\ \A g \in Orgs :
       balanceDue[g] = MapThenSumSet(LAMBDA o : Dto[o].total,
                                     {o \in done : Dto[o].org = g})

\* A completed order is settled: of the handlers here only customerConfirm
\* completes an order, and it writes the status in the $transaction that moves
\* the money. The boss completes one without it: see module OrderWriters.
CompletedIsSettled ==
  \A o \in Orders : order[o].status = "completed" => Settled(o)

Ledger == INSTANCE FeeLedger WITH Users <- Staff

\* The service keeps the books as FeeLedger promises.
LedgerSpec == Ledger!Spec
-----------------------------------------------------------------------------
(* With one slot.                                                          *)

\* The handlers that have read a row and will write it.
Pending(r) == r.op \notin {"driverAccepted", "customerConfirm", "customerCommit"}

\* What a handler has read and checked is still the row when it writes: the
\* check made before the await is not stale.
NoStaleWrite ==
  \A r \in inflight : Pending(r) => order[r.order] = r.seen

Flow == INSTANCE OrderFlow WITH
          Delivery <- {o \in Orders : Dto[o].delivery},
          status <- [o \in Orders |-> order[o].status],
          driver <- [o \in Orders |-> order[o].driver]

\* The service walks each order through its life as OrderFlow promises.
FlowSpec == Flow!Spec

\* A confirmation link is live exactly while the order waits for the customer.
LinkWhileWaiting ==
  \A o \in Orders :
    order[o].token # 0 <=> order[o].status = "waiting_customer_confirmation"

Event(o, u, type) == [order |-> o, actor |-> u, type |-> type] \in events

\* A delivery fee is earned: the courier it was paid to has reported the
\* arrival and the master has confirmed it.
DeliveryFeeEarned ==
  \A t \in transactions : t.type = "delivery_fee" =>
    /\ Event(t.order, Dto[t.order].master, "master_confirmed_delivery")
    /\ \/ Event(t.order, t.user, "driver_finished")
       \/ Event(t.order, t.user, "driver_delivered")
-----------------------------------------------------------------------------
(* What the documents say. With requests that overlap, no part of it holds *)
(* of the code; with one slot, all of it but ReceiptAfterArrival does, and  *)
(* StockCovered where the orders' locks meet.                              *)

\* TZ 7.2: when several couriers tap, one of them gets the order, and it
\* stays his.
OneCourier ==
  [][\A o \in Orders :
       order[o].driver # NoDriver => order'[o].driver = order[o].driver]_vars

\* The status table: nothing follows `completed'.
CompletedIsFinal ==
  [][\A o \in Orders :
       order[o].status = "completed" => order'[o].status = "completed"]_vars

\* receiveOrderApi: "usta Qabul qildim (delivered_by_driver -> working)": in
\* an order with delivery the master receives what a courier has brought.
ReceiptAfterArrival ==
  \A o \in Orders :
    Dto[o].delivery /\ Event(o, Dto[o].master, "received_by_master") =>
      \E d \in Drivers : \/ Event(o, d, "driver_finished")
                         \/ Event(o, d, "driver_delivered")

\* customerConfirm: "check stock before decrement".
StockCovered == \A p \in Products : stock[p] >= 0
=============================================================================
