---------------------------- MODULE OrderWriters ----------------------------
(***************************************************************************)
(* The order rows have two writers beside OrdersService, and neither asks  *)
(* the status table: the courier's button in the bot (onDriverDelivered),  *)
(* which stays in his chat whatever becomes of the order, and the boss's   *)
(* updateOrderStatus. Both are one UPDATE of the status, whatever it was,  *)
(* and add no OrderEvent. This module is OrdersService among them;         *)
(* `writers' remembers who has written which order.                        *)
(***************************************************************************)
EXTENDS OrdersProperties

CONSTANT BossWrites   \* orders and statuses the boss sets them to (bound: the dto takes any)

ASSUME WritersAssumption == BossWrites \subseteq Orders \X OrderStatus

VARIABLE writers   \* history: the strangers that have written each order

writersVars == <<vars, writers>>

Strangers == {"courier", "boss"}

WritersTypeOK == TypeOK /\ writers \in [Orders -> SUBSET Strangers]

WritersInit == Init /\ writers = [o \in Orders |-> {}]
-----------------------------------------------------------------------------
StrangerWrites(who, o, status) ==
  /\ order' = [order EXCEPT ![o].status = status]
  /\ writers' = [writers EXCEPT ![o] = @ \cup {who}]
  /\ UNCHANGED <<money, events, issued, inflight, queue>>

\* Mutant: the button works in any courier's chat and takes the order over.
OnDriverDelivered_AnyCourier(d, o) ==
  /\ order[o].status # "absent"
  /\ order' = [order EXCEPT ![o].status = "delivered_by_driver", ![o].driver = d]
  /\ writers' = [writers EXCEPT ![o] = @ \cup {"courier"}]
  /\ UNCHANGED <<money, events, issued, inflight, queue>>

\* updateMany by id and driver_id: an order of another courier is no match.
OnDriverDelivered(d, o) ==
  /\ order[o].driver = d
  /\ StrangerWrites("courier", o, "delivered_by_driver")

\* The read before the update only asks whether there is such an order.
UpdateOrderStatus(o, status) ==
  /\ order[o].status # "absent"
  /\ StrangerWrites("boss", o, status)

Stranger ==
  \/ \E d \in Drivers, o \in Orders : OnDriverDelivered(d, o)
  \/ \E w \in BossWrites : UpdateOrderStatus(w[1], w[2])

WritersNext ==
  \/ Next /\ UNCHANGED writers
  \/ Stranger

WritersSpec == WritersInit /\ [][WritersNext]_writersVars
-----------------------------------------------------------------------------
(* For any number of slots. The books, the balances, the stock and the     *)
(* debts stay what OrdersProperties says they are, strangers or not.       *)

\* Only the boss makes an order completed that nobody has settled; the
\* courier's button, which works on any status, does not.
SettledUnlessBoss ==
  \A o \in Orders :
    order[o].status = "completed" => Settled(o) \/ "boss" \in writers[o]

\* Only the boss puts an order with a courier that has none.
CourierUnlessBoss ==
  \A o \in Orders :
    order[o].status \in CourierStatuses =>
      order[o].driver # NoDriver \/ "boss" \in writers[o]
-----------------------------------------------------------------------------
(* With one slot.                                                          *)

Untouched(o) == writers[o] = {}

\* What strangers do to one order is no business of the others: for these the
\* handlers' checks stay fresh, and a link is live while the customer is asked.
UntouchedSound ==
  /\ \A r \in inflight :
       Pending(r) /\ Untouched(r.order) => order[r.order] = r.seen
  /\ \A o \in Orders : Untouched(o) =>
       (order[o].token # 0 <=> order[o].status = "waiting_customer_confirmation")

OneFlow(o) == INSTANCE OrderFlow WITH
                Orders <- {o},
                Delivery <- {x \in {o} : Dto[x].delivery},
                status <- [x \in {o} |-> order[x].status],
                driver <- [x \in {o} |-> order[x].driver]

\* An order that no stranger has written yet walks OrderFlow, whatever becomes
\* of the orders beside it.
UntouchedFlow ==
  [][\A o \in Orders :
       Untouched(o)' => [OneFlow(o)!Next]_(OneFlow(o)!vars)]_writersVars

\* An order keeps its courier although his button may set it back from any
\* status: only the boss can have it offered again.
CourierUnlessReoffered ==
  [][\A o \in Orders :
       order[o].driver # NoDriver /\ "boss" \notin writers'[o] =>
         order'[o].driver = order[o].driver]_writersVars

\* One courier is paid for a delivery, the one who has the order, although his
\* button can bring it to be confirmed and paid again: only the boss can have
\* a second courier paid.
OneCourierPaid ==
  \A t \in transactions :
    t.type \in {"delivery_fee", "driver_fee"} /\ "boss" \notin writers[t.order] =>
      t.user = order[t.order].driver
=============================================================================
