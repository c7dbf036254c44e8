------------------------ MODULE OrdersServiceProofs -------------------------
(***************************************************************************)
(* What OrdersService guarantees however many requests overlap: types, the *)
(* courier of an order, settlement and the books. StepKinds reduces Next   *)
(* to the few kinds of step that the invariants tell apart.                *)
(***************************************************************************)
EXTENDS OrdersProperties, SumProofs

\* WriteStatus changes one column of one row.
LEMMA WriteStatusRows ==
  ASSUME TypeOK, NEW r \in inflight, NEW op, NEW s \in OrderStatus,
         NEW e \in EventTypes, WriteStatus(r, op, s, e)
  PROVE  /\ r \in Requests
         /\ order' \in [Orders -> Row]
         /\ \A o \in Orders : order'[o] =
              IF o = r.order THEN [order[o] EXCEPT !.status = s] ELSE order[o]
         /\ events' \subseteq EventRow
         /\ inflight' \subseteq Requests
<1>1. r \in Requests
  BY DEF TypeOK
<1>2. order \in [Orders -> Row] /\ r.order \in Orders /\ r.user \in Staff \cup {Customer}
  BY <1>1 DEF TypeOK, Requests
<1>3. order' = [order EXCEPT ![r.order].status = s]
  BY DEF WriteStatus
<1>4. [order[r.order] EXCEPT !.status = s] \in Row
  BY <1>2 DEF Row, Statuses
<1>5. order' \in [Orders -> Row]
  BY <1>2, <1>3, <1>4
<1>6. \A o \in Orders : order'[o] =
              IF o = r.order THEN [order[o] EXCEPT !.status = s] ELSE order[o]
  BY <1>2, <1>3
<1>7. events' \subseteq EventRow
  BY <1>2 DEF WriteStatus, Log, TypeOK, EventRow
<1>8. inflight' \subseteq Requests
  BY DEF WriteStatus, TypeOK
<1>9. QED
  BY <1>1, <1>5, <1>6, <1>7, <1>8
-----------------------------------------------------------------------------
(* Types.                                                                  *)

\* What ConstantsAssumption says of each order and each courier.
LEMMA Constants ==
  /\ \A o \in Orders : /\ Dto[o].master \in Masters
                       /\ Dto[o].delivery \in BOOLEAN
                       /\ Dto[o].org \in Orgs \cup {NoOrg}
                       /\ Dto[o].total \in Nat
                       /\ Dto[o].masterFee \in Nat
                       /\ Dto[o].qty \in [Products -> Nat]
  /\ \A d \in Drivers : DriverFee[d] \in Nat
  /\ DeliveryFee \in Nat
  /\ Customer \notin Staff
  /\ NoDriver \notin Drivers
  /\ Masters \cap Drivers = {}
BY ConstantsAssumption DEF Dtos

\* A request in flight comes from the sets it should.
LEMMA RequestFields ==
  ASSUME NEW r \in Requests
  PROVE  /\ r.user \in Staff \cup {Customer}
         /\ r.op \in Ops
         /\ r.order \in Orders
         /\ r.seen.status \in Statuses
         /\ r.seen.driver \in Drivers \cup {NoDriver}
         /\ r.seen.token \in Nat
BY DEF Requests, Row

\* The first half of any handler adds a request of the right type.
LEMMA StartTyped ==
  ASSUME TypeOK, NEW u \in Staff \cup {Customer}, NEW s \in Slots \cup CustomerSlots,
         NEW op \in Ops, NEW o \in Orders, Start(u, s, op, o)
  PROVE  TypeOK'
<1>1. order[o] \in Row
  BY DEF TypeOK
<1>2. [user |-> u, slot |-> s, op |-> op, order |-> o, seen |-> order[o]] \in Requests
  BY <1>1 DEF Requests
<1>3. inflight' \subseteq Requests
  BY <1>2 DEF Start, TypeOK
<1>4. QED
  BY <1>3 DEF Start, TypeOK, money, queue

\* What the settlement puts on the books.
LEMMA PostingsTyped ==
  ASSUME NEW r \in Requests
  PROVE  /\ CourierShare(r) \in Nat
         /\ CourierShare(r) > 0 => r.seen.driver \in Drivers
         /\ Postings(r) \subseteq TransactionRow
         /\ \A u \in Staff : Share(r, u) \in Nat
<1>1. CourierShare(r) \in Nat /\ (CourierShare(r) > 0 => r.seen.driver \in Drivers)
  BY Constants, RequestFields DEF CourierShare
<1>2. Posting(r.order, Dto[r.order].master, "master_fee", Dto[r.order].masterFee)
        \in TransactionRow
  BY Constants, RequestFields DEF Posting, TransactionRow, TransactionTypes, Staff
<1>3. CourierShare(r) > 0 =>
        Posting(r.order, r.seen.driver, "driver_fee", CourierShare(r)) \in TransactionRow
  BY <1>1, RequestFields DEF Posting, TransactionRow, TransactionTypes, Staff
<1>4. Postings(r) \subseteq TransactionRow
  BY <1>2, <1>3 DEF Postings
<1>5. \A u \in Staff : Share(r, u) \in Nat
  BY <1>1, Constants, RequestFields DEF Share
<1>6. QED
  BY <1>1, <1>4, <1>5

\* The empty database has the types.
LEMMA InitTyped == Init => TypeOK
<1>1. SUFFICES ASSUME Init PROVE TypeOK
  OBVIOUS
<1>2. order \in [Orders -> Row]
  BY <1>1 DEF Init, Row, Statuses
<1>3. balance \in [Staff -> Int] /\ balanceDue \in [Orgs -> Int]
  BY <1>1 DEF Init
<1>4. stock \in [Products -> Int]
  BY <1>1, ConstantsAssumption DEF Init
<1>5. QED
  BY <1>1, <1>2, <1>3, <1>4 DEF Init, TypeOK

\* One step of the service keeps the types.
LEMMA StepTyped == TypeOK /\ [Next]_vars => TypeOK'
<1>1. SUFFICES ASSUME TypeOK, [Next]_vars PROVE TypeOK'
  OBVIOUS
<1>. USE <1>1
<1>2. ASSUME NEW o \in Orders, CreateDraft(o) PROVE TypeOK'
  <2>1. [order[o] EXCEPT !.status = "draft"] \in Row
    BY DEF TypeOK, Row, Statuses, OrderStatus
  <2>2. order' \in [Orders -> Row]
    BY <1>2, <2>1 DEF CreateDraft, TypeOK
  <2>3. events' \subseteq EventRow
    BY <1>2, Constants DEF CreateDraft, TypeOK, EventRow, EventTypes, Staff
  <2>4. QED
    BY <1>2, <2>2, <2>3 DEF CreateDraft, TypeOK, money, queue
<1>3. ASSUME NEW o \in Orders, BroadcastOrder(o) PROVE TypeOK'
  BY <1>3 DEF BroadcastOrder, TypeOK, money
<1>4. ASSUME NEW u \in Masters, NEW s \in Slots, NEW o \in Orders, MasterReads(u, s, o)
      PROVE  TypeOK'
  <2>1. u \in Staff \cup {Customer} /\ s \in Slots \cup CustomerSlots
    BY DEF Staff
  <2>2. PICK op \in Ops : Start(u, s, op, o)
    BY <1>4 DEF MasterReads, SetLocation, Confirm, CancelOrder, ConfirmDelivery, RejectDelivery, Receive, MasterStartWork, Finish, Ops
  <2>3. QED
    BY <2>1, <2>2, StartTyped
<1>5. ASSUME NEW d \in Drivers, NEW s \in Slots, NEW o \in Orders, DriverReads(d, s, o)
      PROVE  TypeOK'
  <2>1. d \in Staff \cup {Customer} /\ s \in Slots \cup CustomerSlots
    BY DEF Staff
  <2>2. PICK op \in Ops : Start(d, s, op, o)
    BY <1>5 DEF DriverReads, DriverFinish, DriverDelivered, Ops
  <2>3. QED
    BY <2>1, <2>2, StartTyped
<1>6. ASSUME NEW d \in Drivers, NEW s \in Slots, NEW o \in Orders, DriverAccept(d, s, o)
      PROVE  TypeOK'
  <2>1. order'[o] \in Row /\ order' \in [Orders -> Row]
    <3>1. [[order[o] EXCEPT !.status = "received_by_driver"] EXCEPT !.driver = d] \in Row
      BY DEF TypeOK, Row, Statuses, OrderStatus
    <3>2. QED
      BY <1>6, <3>1 DEF DriverAccept, TypeOK
  <2>2. [user |-> d, slot |-> s, op |-> "driverAccepted", order |-> o,
         seen |-> order'[o]] \in Requests
    BY <2>1 DEF Requests, Staff, Ops
  <2>3. QED
    BY <1>6, <2>1, <2>2 DEF DriverAccept, TypeOK, money, queue
<1>7. ASSUME NEW s \in CustomerSlots, NEW o \in Orders, CustomerConfirm(s, o)
      PROVE  TypeOK'
  <2>1. Start(Customer, s, "customerConfirm", o)
    BY <1>7 DEF CustomerConfirm
  <2>2. QED
    BY <2>1, StartTyped DEF Ops
<1>8. ASSUME NEW r \in inflight, Writes(r) PROVE TypeOK'
  <2>0. r \in Requests
    BY DEF TypeOK
  <2>1. CASE SetLocationWrite(r)
    <3>1. WriteStatus(r, "setLocation", "waiting_confirmation", "location_submitted")
      BY <2>1 DEF SetLocationWrite
    <3>2. order' \in [Orders -> Row] /\ events' \subseteq EventRow /\ inflight' \subseteq Requests
      BY <3>1, WriteStatusRows DEF OrderStatus, EventTypes
    <3>3. QED
      BY <2>1, <3>2 DEF SetLocationWrite, TypeOK, money, queue
  <2>2. CASE CancelOrderWrite(r)
    <3>1. WriteStatus(r, "cancelOrder", "cancelled", "cancelled")
      BY <2>2 DEF CancelOrderWrite
    <3>2. order' \in [Orders -> Row] /\ events' \subseteq EventRow /\ inflight' \subseteq Requests
      BY <3>1, WriteStatusRows DEF OrderStatus, EventTypes
    <3>3. QED
      BY <2>2, <3>2 DEF CancelOrderWrite, TypeOK, money, queue
  <2>3. CASE DriverFinishWrite(r)
    <3>1. WriteStatus(r, "driverFinish", "waiting_master_delivery_confirmation", "driver_finished")
      BY <2>3 DEF DriverFinishWrite
    <3>2. order' \in [Orders -> Row] /\ events' \subseteq EventRow /\ inflight' \subseteq Requests
      BY <3>1, WriteStatusRows DEF OrderStatus, EventTypes
    <3>3. QED
      BY <2>3, <3>2 DEF DriverFinishWrite, TypeOK, money, queue
  <2>4. CASE DriverDeliveredWrite(r)
    <3>1. WriteStatus(r, "driverDelivered", "delivered_by_driver", "driver_delivered")
      BY <2>4 DEF DriverDeliveredWrite
    <3>2. order' \in [Orders -> Row] /\ events' \subseteq EventRow /\ inflight' \subseteq Requests
      BY <3>1, WriteStatusRows DEF OrderStatus, EventTypes
    <3>3. QED
      BY <2>4, <3>2 DEF DriverDeliveredWrite, TypeOK, money, queue
  <2>5. CASE RejectDeliveryWrite(r)
    <3>1. WriteStatus(r, "rejectDelivery", "received_by_driver", "master_rejected_delivery")
      BY <2>5 DEF RejectDeliveryWrite
    <3>2. order' \in [Orders -> Row] /\ events' \subseteq EventRow /\ inflight' \subseteq Requests
      BY <3>1, WriteStatusRows DEF OrderStatus, EventTypes
    <3>3. QED
      BY <2>5, <3>2 DEF RejectDeliveryWrite, TypeOK, money, queue
  <2>6. CASE ReceiveWrite(r)
    <3>1. WriteStatus(r, "receive", "working", "received_by_master")
      BY <2>6 DEF ReceiveWrite
    <3>2. order' \in [Orders -> Row] /\ events' \subseteq EventRow /\ inflight' \subseteq Requests
      BY <3>1, WriteStatusRows DEF OrderStatus, EventTypes
    <3>3. QED
      BY <2>6, <3>2 DEF ReceiveWrite, TypeOK, money, queue
  <2>7. CASE MasterStartWorkWrite(r)
    <3>1. WriteStatus(r, "masterStartWork", "working", "master_started_work")
      BY <2>7 DEF MasterStartWorkWrite
    <3>2. order' \in [Orders -> Row] /\ events' \subseteq EventRow /\ inflight' \subseteq Requests
      BY <3>1, WriteStatusRows DEF OrderStatus, EventTypes
    <3>3. QED
      BY <2>7, <3>2 DEF MasterStartWorkWrite, TypeOK, money, queue
  <2>8. CASE ConfirmWrite(r)
    <3>1. WriteStatus(r, "confirm", ConfirmTarget(r.order), "master_confirmed")
      BY <2>8 DEF ConfirmWrite
    <3>2. order' \in [Orders -> Row] /\ events' \subseteq EventRow /\ inflight' \subseteq Requests
      BY <3>1, WriteStatusRows DEF OrderStatus, EventTypes, ConfirmTarget
    <3>3. outbox' \subseteq Orders
      BY <2>0, <2>8, RequestFields DEF ConfirmWrite, TypeOK
    <3>4. QED
      BY <2>8, <3>2, <3>3 DEF ConfirmWrite, TypeOK, money
  <2>9. CASE ConfirmDeliveryWrite(r)
    <3>1. WriteStatus(r, "confirmDelivery", "working", "master_confirmed_delivery")
      BY <2>9 DEF ConfirmDeliveryWrite
    <3>2. order' \in [Orders -> Row] /\ events' \subseteq EventRow /\ inflight' \subseteq Requests
      BY <3>1, WriteStatusRows DEF OrderStatus, EventTypes
    <3>3. r.seen.driver # NoDriver =>
            Posting(r.order, r.seen.driver, "delivery_fee", DeliveryFee) \in TransactionRow
      BY <2>0, RequestFields, Constants
         DEF Posting, TransactionRow, TransactionTypes, Staff
    <3>4. transactions' \subseteq TransactionRow
      BY <2>9, <3>3 DEF ConfirmDeliveryWrite, TypeOK
    <3>5. balance' \in [Staff -> Int]
      BY <2>0, <2>9, RequestFields, Constants DEF ConfirmDeliveryWrite, TypeOK, Staff
    <3>6. QED
      BY <2>9, <3>2, <3>4, <3>5 DEF ConfirmDeliveryWrite, TypeOK, queue
  <2>10. CASE FinishWrite(r)
    <3>1. issued' \in Nat
      BY <2>10 DEF FinishWrite, TypeOK
    <3>2. [[order[r.order] EXCEPT !.status = "waiting_customer_confirmation"]
             EXCEPT !.token = issued'] \in Row
      BY <2>0, <3>1, RequestFields DEF TypeOK, Row, Statuses, OrderStatus
    <3>3. order' \in [Orders -> Row]
      BY <2>0, <2>10, <3>2, RequestFields DEF FinishWrite, TypeOK
    <3>4. events' \subseteq EventRow
      BY <2>0, <2>10, RequestFields DEF FinishWrite, Log, TypeOK, EventRow, EventTypes
    <3>5. QED
      BY <2>10, <3>1, <3>3, <3>4 DEF FinishWrite, TypeOK, money, queue
  <2>11. CASE DriverAcceptEvent(r)
    <3>1. events' \subseteq EventRow
      BY <2>0, <2>11, RequestFields DEF DriverAcceptEvent, Log, TypeOK, EventRow, EventTypes
    <3>2. QED
      BY <2>11, <3>1 DEF DriverAcceptEvent, TypeOK, money, queue
  <2>12. CASE CustomerCheckStock(r)
    <3>1. [r EXCEPT !.op = "customerCommit"] \in Requests
      BY <2>0 DEF Requests, Ops
    <3>2. QED
      BY <2>12, <3>1 DEF CustomerCheckStock, TypeOK, money, queue
  <2>13. CASE CustomerCommit(r)
    <3>1. [[order[r.order] EXCEPT !.status = "completed"] EXCEPT !.token = 0] \in Row
      BY <2>0, RequestFields DEF TypeOK, Row, Statuses, OrderStatus
    <3>2. order' \in [Orders -> Row]
      BY <2>0, <2>13, <3>1, RequestFields DEF CustomerCommit, TypeOK
    <3>3. transactions' \subseteq TransactionRow
      BY <2>0, <2>13, PostingsTyped DEF CustomerCommit, TypeOK
    <3>4. balance' \in [Staff -> Int]
      BY <2>0, <2>13, PostingsTyped DEF CustomerCommit, TypeOK
    <3>5. balanceDue' \in [Orgs -> Int]
      BY <2>0, <2>13, RequestFields, Constants DEF CustomerCommit, TypeOK
    <3>6. stock' \in [Products -> Int]
      BY <2>0, <2>13, RequestFields, Constants DEF CustomerCommit, TypeOK
    <3>7. events' \subseteq EventRow
      BY <2>0, <2>13, RequestFields DEF CustomerCommit, Log, TypeOK, EventRow, EventTypes
    <3>8. QED
      BY <2>13, <3>2, <3>3, <3>4, <3>5, <3>6, <3>7 DEF CustomerCommit, TypeOK, queue
  <2>14. CASE RequestFails(r)
    BY <2>14 DEF RequestFails, TypeOK, money, queue
  <2>15. QED
    BY <1>8, <2>1, <2>2, <2>3, <2>4, <2>5, <2>6, <2>7, <2>8, <2>9, <2>10, <2>11, <2>12, <2>13, <2>14 DEF Writes
<1>9. CASE Crash
  BY <1>9 DEF Crash, TypeOK, money
<1>10. CASE UNCHANGED vars
  BY <1>10 DEF vars, money, queue, TypeOK
<1>11. QED
  BY <1>2, <1>3, <1>4, <1>5, <1>6, <1>7, <1>8, <1>9, <1>10 DEF Next

\* Types: every handler leaves rows and requests the schema allows.
THEOREM TypeCorrect == Spec => []TypeOK
<1>1. Init => TypeOK
  BY InitTyped
<1>2. TypeOK /\ [Next]_vars => TypeOK'
  BY StepTyped
<1>3. QED
  BY <1>1, <1>2, PTL DEF Spec
-----------------------------------------------------------------------------
(* What a request in flight has checked, and the kinds of step there are.  *)

MasterOps == {"setLocation", "confirm", "cancelOrder", "confirmDelivery",
              "rejectDelivery", "receive", "masterStartWork", "finish"}
DriverOps == {"driverFinish", "driverDelivered"}

\* The status a handler is about to write.
Target(r) ==
  CASE r.op = "setLocation"     -> "waiting_confirmation"
    [] r.op = "confirm"         -> ConfirmTarget(r.order)
    [] r.op = "cancelOrder"     -> "cancelled"
    [] r.op = "confirmDelivery" -> "working"
    [] r.op = "rejectDelivery"  -> "received_by_driver"
    [] r.op = "receive"         -> "working"
    [] r.op = "masterStartWork" -> "working"
    [] r.op = "finish"          -> "waiting_customer_confirmation"
    [] r.op = "driverFinish"    -> "waiting_master_delivery_confirmation"
    [] r.op = "driverDelivered" -> "delivered_by_driver"

\* What every handler knows of the row it has seen.
Checked(r) ==
  /\ r.op \in MasterOps => r.user = Dto[r.order].master
  /\ r.op \in DriverOps => r.user = r.seen.driver /\ r.user \in Drivers
  /\ r.op \in (MasterOps \cup DriverOps) \ {"driverDelivered"} =>
        CanTransition(r.seen.status, Target(r))
  /\ r.op = "driverDelivered" => r.seen.status \in {"accepted", "received_by_driver"}
  /\ r.op \in {"confirmDelivery", "rejectDelivery"} =>
        r.seen.status \in {"waiting_master_delivery_confirmation", "delivered_by_driver"}
  /\ r.op \in {"customerConfirm", "customerCommit"} =>
        r.user = Customer /\ r.seen.status = "waiting_customer_confirmation"
  /\ r.op = "driverAccepted" => r.user \in Drivers

\* A handler reads, checks and awaits.
ReadStep ==
  \E u \in Staff \cup {Customer}, s \in Slots \cup CustomerSlots,
     op \in Ops \ {"driverAccepted", "customerCommit"}, o \in Orders :
    /\ Start(u, s, op, o)
    /\ op = "customerConfirm" <=> u = Customer
    /\ u \in Staff => s \in Slots
    /\ Checked([user |-> u, slot |-> s, op |-> op, order |-> o, seen |-> order[o]])

\* A handler other than finish() writes the status it has checked.
StatusStep(r) ==
  /\ r.op \in (MasterOps \cup DriverOps) \ {"finish"}
  /\ order' = [order EXCEPT ![r.order].status = Target(r)]
  /\ inflight' = inflight \ {r}

\* Requests end without a word.
QuietStep == order' = order /\ inflight' \subseteq inflight

\* As far as rows and requests go there are eight kinds of step.
LEMMA StepKinds ==
  ASSUME TypeOK, [Next]_vars
  PROVE  \/ \E o \in Orders : CreateDraft(o)
         \/ ReadStep
         \/ \E d \in Drivers, s \in Slots, o \in Orders : DriverAccept(d, s, o)
         \/ \E r \in inflight : \/ StatusStep(r)
                                \/ FinishWrite(r)
                                \/ CustomerCheckStock(r)
                                \/ CustomerCommit(r)
         \/ QuietStep
<1>1. ASSUME NEW u \in Masters, NEW s \in Slots, NEW o \in Orders, MasterReads(u, s, o)
      PROVE  ReadStep
  <2>1. u \in Staff \cup {Customer} /\ s \in Slots \cup CustomerSlots /\ u # Customer
    BY Constants DEF Staff
  <2>2. PICK op \in MasterOps :
          /\ Start(u, s, op, o)
          /\ Checked([user |-> u, slot |-> s, op |-> op, order |-> o, seen |-> order[o]])
    <3>. DEFINE Q(op) == [user |-> u, slot |-> s, op |-> op, order |-> o, seen |-> order[o]]
    <3>1. CASE SetLocation(u, s, o)
      <4>1. Checked(Q("setLocation"))
        BY <3>1 DEF SetLocation, MasterMay, Checked, Target, MasterOps, DriverOps
      <4>2. QED
        BY <3>1, <4>1 DEF SetLocation, MasterOps
    <3>2. CASE Confirm(u, s, o)
      <4>1. Checked(Q("confirm"))
        BY <3>2 DEF Confirm, MasterMay, Checked, Target, MasterOps, DriverOps
      <4>2. QED
        BY <3>2, <4>1 DEF Confirm, MasterOps
    <3>3. CASE CancelOrder(u, s, o)
      <4>1. Checked(Q("cancelOrder"))
        BY <3>3 DEF CancelOrder, MasterMay, Checked, Target, MasterOps, DriverOps
      <4>2. QED
        BY <3>3, <4>1 DEF CancelOrder, MasterOps
    <3>4. CASE ConfirmDelivery(u, s, o)
      <4>1. Checked(Q("confirmDelivery"))
        BY <3>4 DEF ConfirmDelivery, AwaitsMaster, Checked, Target, MasterOps, DriverOps,
                    CanTransition, AllowedTransitions
      <4>2. QED
        BY <3>4, <4>1 DEF ConfirmDelivery, MasterOps
    <3>5. CASE RejectDelivery(u, s, o)
      <4>1. Checked(Q("rejectDelivery"))
        BY <3>5 DEF RejectDelivery, AwaitsMaster, Checked, Target, MasterOps, DriverOps,
                    CanTransition, AllowedTransitions
      <4>2. QED
        BY <3>5, <4>1 DEF RejectDelivery, MasterOps
    <3>6. CASE Receive(u, s, o)
      <4>1. Checked(Q("receive"))
        BY <3>6 DEF Receive, MasterMay, Checked, Target, MasterOps, DriverOps
      <4>2. QED
        BY <3>6, <4>1 DEF Receive, MasterOps
    <3>7. CASE MasterStartWork(u, s, o)
      <4>1. Checked(Q("masterStartWork"))
        BY <3>7 DEF MasterStartWork, MasterMay, Checked, Target, MasterOps, DriverOps
      <4>2. QED
        BY <3>7, <4>1 DEF MasterStartWork, MasterOps
    <3>8. CASE Finish(u, s, o)
      <4>1. Checked(Q("finish"))
        BY <3>8 DEF Finish, MasterMay, Checked, Target, MasterOps, DriverOps
      <4>2. QED
        BY <3>8, <4>1 DEF Finish, MasterOps
    <3>9. QED
      BY <1>1, <3>1, <3>2, <3>3, <3>4, <3>5, <3>6, <3>7, <3>8 DEF MasterReads
  <2>3. op \in Ops \ {"driverAccepted", "customerCommit"} /\ op # "customerConfirm"
    BY <2>2 DEF MasterOps, Ops
  <2>4. QED
    BY <2>1, <2>2, <2>3 DEF ReadStep
<1>2. ASSUME NEW d \in Drivers, NEW s \in Slots, NEW o \in Orders, DriverReads(d, s, o)
      PROVE  ReadStep
  <2>1. d \in Staff \cup {Customer} /\ s \in Slots \cup CustomerSlots /\ d # Customer
    BY Constants DEF Staff
  <2>2. PICK op \in DriverOps :
          /\ Start(d, s, op, o)
          /\ Checked([user |-> d, slot |-> s, op |-> op, order |-> o, seen |-> order[o]])
    <3>. DEFINE Q(op) == [user |-> d, slot |-> s, op |-> op, order |-> o, seen |-> order[o]]
    <3>1. CASE DriverFinish(d, s, o)
      <4>1. Checked(Q("driverFinish"))
        BY <3>1 DEF DriverFinish, Checked, Target, MasterOps, DriverOps
      <4>2. QED
        BY <3>1, <4>1 DEF DriverFinish, DriverOps
    <3>2. CASE DriverDelivered(d, s, o)
      <4>1. Checked(Q("driverDelivered"))
        BY <3>2 DEF DriverDelivered, Checked, MasterOps, DriverOps
      <4>2. QED
        BY <3>2, <4>1 DEF DriverDelivered, DriverOps
    <3>3. QED
      BY <1>2, <3>1, <3>2 DEF DriverReads
  <2>3. op \in Ops \ {"driverAccepted", "customerCommit"} /\ op # "customerConfirm"
    BY <2>2 DEF DriverOps, Ops
  <2>4. QED
    BY <2>1, <2>2, <2>3 DEF ReadStep
<1>3. ASSUME NEW s \in CustomerSlots, NEW o \in Orders, CustomerConfirm(s, o)
      PROVE  ReadStep
  <2>1. Checked([user |-> Customer, slot |-> s, op |-> "customerConfirm",
                 order |-> o, seen |-> order[o]])
    BY <1>3 DEF CustomerConfirm, Checked, MasterOps, DriverOps
  <2>2. Start(Customer, s, "customerConfirm", o)
    BY <1>3 DEF CustomerConfirm
  <2>3. "customerConfirm" \in Ops \ {"driverAccepted", "customerCommit"}
    BY DEF Ops
  <2>4. QED
    BY <2>1, <2>2, <2>3, Constants DEF ReadStep
<1>4. ASSUME NEW r \in inflight, Writes(r)
      PROVE  \/ StatusStep(r) \/ FinishWrite(r) \/ CustomerCheckStock(r)
             \/ CustomerCommit(r) \/ QuietStep
  <2>1. SetLocationWrite(r) => StatusStep(r)
    BY DEF SetLocationWrite, WriteStatus, StatusStep, Target, MasterOps
  <2>2. ConfirmWrite(r) => StatusStep(r)
    BY DEF ConfirmWrite, WriteStatus, StatusStep, Target, MasterOps
  <2>3. CancelOrderWrite(r) => StatusStep(r)
    BY DEF CancelOrderWrite, WriteStatus, StatusStep, Target, MasterOps
  <2>4. DriverFinishWrite(r) => StatusStep(r)
    BY DEF DriverFinishWrite, WriteStatus, StatusStep, Target, DriverOps
  <2>5. DriverDeliveredWrite(r) => StatusStep(r)
    BY DEF DriverDeliveredWrite, WriteStatus, StatusStep, Target, DriverOps
  <2>6. ConfirmDeliveryWrite(r) => StatusStep(r)
    BY DEF ConfirmDeliveryWrite, WriteStatus, StatusStep, Target, MasterOps
  <2>7. RejectDeliveryWrite(r) => StatusStep(r)
    BY DEF RejectDeliveryWrite, WriteStatus, StatusStep, Target, MasterOps
  <2>8. ReceiveWrite(r) => StatusStep(r)
    BY DEF ReceiveWrite, WriteStatus, StatusStep, Target, MasterOps
  <2>9. MasterStartWorkWrite(r) => StatusStep(r)
    BY DEF MasterStartWorkWrite, WriteStatus, StatusStep, Target, MasterOps
  <2>10. DriverAcceptEvent(r) => QuietStep
    BY DEF DriverAcceptEvent, QuietStep
  <2>11. RequestFails(r) => QuietStep
    BY DEF RequestFails, QuietStep
  <2>12. QED
    BY <1>4, <2>1, <2>2, <2>3, <2>4, <2>5, <2>6, <2>7, <2>8, <2>9, <2>10, <2>11 DEF Writes
<1>5. (\E o \in Orders : BroadcastOrder(o)) => QuietStep
  BY DEF BroadcastOrder, QuietStep
<1>6. Crash => QuietStep
  BY DEF Crash, QuietStep
<1>7. UNCHANGED vars => QuietStep
  BY DEF vars, QuietStep
<1>8. QED
  BY <1>1, <1>2, <1>3, <1>4, <1>5, <1>6, <1>7 DEF Next

\* What each kind of write makes of the rows.
LEMMA RowsAfter ==
  ASSUME TypeOK
  PROVE  /\ \A o, x \in Orders : CreateDraft(o) =>
              order'[x] = IF x = o THEN [order[x] EXCEPT !.status = "draft"] ELSE order[x]
         /\ \A d \in Drivers, s \in Slots, o, x \in Orders : DriverAccept(d, s, o) =>
              order'[x] = IF x = o
                          THEN [status |-> "received_by_driver", driver |-> d,
                                token |-> order[x].token]
                          ELSE order[x]
         /\ \A r \in inflight, x \in Orders : StatusStep(r) =>
              order'[x] = IF x = r.order THEN [order[x] EXCEPT !.status = Target(r)]
                          ELSE order[x]
         /\ \A r \in inflight, x \in Orders : FinishWrite(r) =>
              order'[x] = IF x = r.order
                          THEN [status |-> "waiting_customer_confirmation",
                                driver |-> order[x].driver, token |-> issued + 1]
                          ELSE order[x]
         /\ \A r \in inflight, x \in Orders : CustomerCommit(r) =>
              order'[x] = IF x = r.order
                          THEN [status |-> "completed", driver |-> order[x].driver,
                                token |-> 0]
                          ELSE order[x]
<1>1. order \in [Orders -> Row] /\ \A r \in inflight : r.order \in Orders
  BY RequestFields DEF TypeOK
<1>2. \A o, x \in Orders : CreateDraft(o) =>
         order'[x] = IF x = o THEN [order[x] EXCEPT !.status = "draft"] ELSE order[x]
  BY <1>1 DEF CreateDraft
<1>3. ASSUME NEW d \in Drivers, NEW s \in Slots, NEW o \in Orders, NEW x \in Orders,
             DriverAccept(d, s, o)
      PROVE  order'[x] = IF x = o
                         THEN [status |-> "received_by_driver", driver |-> d,
                               token |-> order[x].token]
                         ELSE order[x]
  <2>1. order[x] \in Row
    BY <1>1
  <2>2. order'[x] = IF x = o
            THEN [[order[x] EXCEPT !.status = "received_by_driver"] EXCEPT !.driver = d]
            ELSE order[x]
    BY <1>1, <1>3 DEF DriverAccept
  <2>3. QED
    BY <2>1, <2>2 DEF Row
<1>4. \A r \in inflight, x \in Orders : StatusStep(r) =>
        order'[x] = IF x = r.order THEN [order[x] EXCEPT !.status = Target(r)]
                    ELSE order[x]
  BY <1>1 DEF StatusStep
<1>5. ASSUME NEW r \in inflight, NEW x \in Orders, FinishWrite(r)
      PROVE  order'[x] = IF x = r.order
                         THEN [status |-> "waiting_customer_confirmation",
                               driver |-> order[x].driver, token |-> issued + 1]
                         ELSE order[x]
  <2>1. order[x] \in Row
    BY <1>1
  <2>2. order'[x] = IF x = r.order
            THEN [[order[x] EXCEPT !.status = "waiting_customer_confirmation"]
                    EXCEPT !.token = issued']
            ELSE order[x]
    BY <1>1, <1>5 DEF FinishWrite
  <2>3. issued' = issued + 1
    BY <1>5 DEF FinishWrite
  <2>4. QED
    BY <2>1, <2>2, <2>3 DEF Row
<1>6. ASSUME NEW r \in inflight, NEW x \in Orders, CustomerCommit(r)
      PROVE  order'[x] = IF x = r.order
                         THEN [status |-> "completed", driver |-> order[x].driver,
                               token |-> 0]
                         ELSE order[x]
  <2>1. order[x] \in Row
    BY <1>1
  <2>2. order'[x] = IF x = r.order
            THEN [[order[x] EXCEPT !.status = "completed"] EXCEPT !.token = 0]
            ELSE order[x]
    BY <1>1, <1>6 DEF CustomerCommit
  <2>3. QED
    BY <2>1, <2>2 DEF Row
<1>7. QED
  BY <1>2, <1>3, <1>4, <1>5, <1>6

\* The same, column by column.
LEMMA ColumnsAfter ==
  ASSUME TypeOK, NEW x \in Orders
  PROVE  /\ \A o \in Orders : CreateDraft(o) =>
              /\ order'[x].status = IF x = o THEN "draft" ELSE order[x].status
              /\ order'[x].driver = order[x].driver
              /\ order'[x].token = order[x].token
         /\ \A d \in Drivers, s \in Slots, o \in Orders : DriverAccept(d, s, o) =>
              /\ order'[x].status = IF x = o THEN "received_by_driver" ELSE order[x].status
              /\ order'[x].driver = IF x = o THEN d ELSE order[x].driver
              /\ order'[x].token = order[x].token
         /\ \A r \in inflight : StatusStep(r) =>
              /\ order'[x].status = IF x = r.order THEN Target(r) ELSE order[x].status
              /\ order'[x].driver = order[x].driver
              /\ order'[x].token = order[x].token
         /\ \A r \in inflight : FinishWrite(r) =>
              /\ order'[x].status = IF x = r.order THEN "waiting_customer_confirmation"
                                    ELSE order[x].status
              /\ order'[x].driver = order[x].driver
              /\ order'[x].token = IF x = r.order THEN issued + 1 ELSE order[x].token
         /\ \A r \in inflight : CustomerCommit(r) =>
              /\ order'[x].status = IF x = r.order THEN "completed" ELSE order[x].status
              /\ order'[x].driver = order[x].driver
              /\ order'[x].token = IF x = r.order THEN 0 ELSE order[x].token
<1>1. order[x] \in Row
  BY DEF TypeOK
<1>2. ASSUME NEW o \in Orders, CreateDraft(o)
      PROVE  /\ order'[x].status = IF x = o THEN "draft" ELSE order[x].status
             /\ order'[x].driver = order[x].driver
             /\ order'[x].token = order[x].token
  <2>1. order'[x] = IF x = o THEN [order[x] EXCEPT !.status = "draft"] ELSE order[x]
    BY <1>2, RowsAfter
  <2>2. QED
    BY <1>1, <2>1 DEF Row
<1>3. ASSUME NEW d \in Drivers, NEW s \in Slots, NEW o \in Orders, DriverAccept(d, s, o)
      PROVE  /\ order'[x].status = IF x = o THEN "received_by_driver" ELSE order[x].status
             /\ order'[x].driver = IF x = o THEN d ELSE order[x].driver
             /\ order'[x].token = order[x].token
  <2>1. order'[x] = IF x = o
                    THEN [status |-> "received_by_driver", driver |-> d,
                          token |-> order[x].token]
                    ELSE order[x]
    BY <1>3, RowsAfter
  <2>2. QED
    BY <1>1, <2>1 DEF Row
<1>4. ASSUME NEW r \in inflight, StatusStep(r)
      PROVE  /\ order'[x].status = IF x = r.order THEN Target(r) ELSE order[x].status
             /\ order'[x].driver = order[x].driver
             /\ order'[x].token = order[x].token
  <2>1. order'[x] = IF x = r.order THEN [order[x] EXCEPT !.status = Target(r)]
                    ELSE order[x]
    BY <1>4, RowsAfter
  <2>2. QED
    BY <1>1, <2>1 DEF Row
<1>5. ASSUME NEW r \in inflight, FinishWrite(r)
      PROVE  /\ order'[x].status = IF x = r.order THEN "waiting_customer_confirmation"
                                   ELSE order[x].status
             /\ order'[x].driver = order[x].driver
             /\ order'[x].token = IF x = r.order THEN issued + 1 ELSE order[x].token
  <2>1. order'[x] = IF x = r.order
                    THEN [status |-> "waiting_customer_confirmation",
                          driver |-> order[x].driver, token |-> issued + 1]
                    ELSE order[x]
    BY <1>5, RowsAfter
  <2>2. QED
    BY <1>1, <2>1 DEF Row
<1>6. ASSUME NEW r \in inflight, CustomerCommit(r)
      PROVE  /\ order'[x].status = IF x = r.order THEN "completed" ELSE order[x].status
             /\ order'[x].driver = order[x].driver
             /\ order'[x].token = IF x = r.order THEN 0 ELSE order[x].token
  <2>1. order'[x] = IF x = r.order
                    THEN [status |-> "completed", driver |-> order[x].driver,
                          token |-> 0]
                    ELSE order[x]
    BY <1>6, RowsAfter
  <2>2. QED
    BY <1>1, <2>1 DEF Row
<1>7. QED
  BY <1>2, <1>3, <1>4, <1>5, <1>6

\* A write leaves the other rows alone.
LEMMA OtherRows ==
  ASSUME TypeOK, NEW x \in Orders
  PROVE  /\ \A o \in Orders : CreateDraft(o) /\ x # o => order'[x] = order[x]
         /\ \A d \in Drivers, s \in Slots, o \in Orders :
              DriverAccept(d, s, o) /\ x # o => order'[x] = order[x]
         /\ \A r \in inflight :
              (StatusStep(r) \/ FinishWrite(r) \/ CustomerCommit(r)) /\ x # r.order =>
                order'[x] = order[x]
<1>1. order \in [Orders -> Row]
  BY DEF TypeOK
<1>2. \A o \in Orders : CreateDraft(o) /\ x # o => order'[x] = order[x]
  BY <1>1 DEF CreateDraft
<1>3. \A d \in Drivers, s \in Slots, o \in Orders :
        DriverAccept(d, s, o) /\ x # o => order'[x] = order[x]
  BY <1>1 DEF DriverAccept
<1>4. \A r \in inflight : StatusStep(r) /\ x # r.order => order'[x] = order[x]
  BY <1>1 DEF StatusStep
<1>5. \A r \in inflight : FinishWrite(r) /\ x # r.order => order'[x] = order[x]
  BY <1>1 DEF FinishWrite
<1>6. \A r \in inflight : CustomerCommit(r) /\ x # r.order => order'[x] = order[x]
  BY <1>1 DEF CustomerCommit
<1>7. QED
  BY <1>2, <1>3, <1>4, <1>5, <1>6
-----------------------------------------------------------------------------
(* Whatever overlaps, a request goes by what it has checked.               *)

CheckedInv == \A r \in inflight : Checked(r)

\* What the second half of a handler leaves in flight.
LEMMA InflightAfter ==
  ASSUME NEW r \in inflight
  PROVE  /\ StatusStep(r) => inflight' = inflight \ {r}
         /\ FinishWrite(r) => inflight' = inflight \ {r}
         /\ CustomerCommit(r) => inflight' = inflight \ {r}
         /\ CustomerCheckStock(r) =>
              inflight' = (inflight \ {r}) \cup {[r EXCEPT !.op = "customerCommit"]}
BY DEF StatusStep, FinishWrite, CustomerCommit, CustomerCheckStock

\* Checked is a fact about a request alone: a step can only disturb it by
\* adding a request.
LEMMA StepChecked == TypeOK /\ CheckedInv /\ [Next]_vars => CheckedInv'
<1>1. SUFFICES ASSUME TypeOK, CheckedInv, [Next]_vars, NEW q \in inflight'
               PROVE  Checked(q)
  BY DEF CheckedInv, Checked, Target, ConfirmTarget
<1>. USE <1>1
<1>2. CASE q \in inflight
  BY <1>2 DEF CheckedInv
<1>3. CASE q \notin inflight
  <2>1. ASSUME NEW o \in Orders, CreateDraft(o) PROVE FALSE
    BY <1>3, <2>1 DEF CreateDraft
  <2>2. CASE ReadStep
    BY <1>3, <2>2 DEF ReadStep, Start
  <2>3. ASSUME NEW d \in Drivers, NEW s \in Slots, NEW o \in Orders, DriverAccept(d, s, o)
        PROVE  Checked(q)
    <3>1. q.op = "driverAccepted" /\ q.user = d
      BY <1>3, <2>3 DEF DriverAccept
    <3>2. QED
      BY <3>1 DEF Checked, MasterOps, DriverOps
  <2>4. ASSUME NEW r \in inflight, CustomerCheckStock(r) PROVE Checked(q)
    <3>1. r \in Requests /\ q = [r EXCEPT !.op = "customerCommit"]
      BY <1>3, <2>4 DEF CustomerCheckStock, TypeOK
    <3>2. q.op = "customerCommit" /\ q.user = r.user /\ q.seen = r.seen
      BY <3>1 DEF Requests
    <3>3. r.user = Customer /\ r.seen.status = "waiting_customer_confirmation"
      BY <2>4 DEF CheckedInv, Checked, CustomerCheckStock
    <3>4. QED
      BY <3>2, <3>3 DEF Checked, MasterOps, DriverOps
  <2>5. ASSUME NEW r \in inflight, StatusStep(r) \/ FinishWrite(r) \/ CustomerCommit(r)
        PROVE  FALSE
    BY <1>3, <2>5, InflightAfter
  <2>6. QuietStep => FALSE
    BY <1>3 DEF QuietStep
  <2>7. QED
    BY <2>1, <2>2, <2>3, <2>4, <2>5, <2>6, StepKinds
<1>4. QED
  BY <1>2, <1>3

\* Types and checks together, for the theorems below.
LEMMA AlwaysChecked == Spec => [](TypeOK /\ CheckedInv)
<1>1. Init => TypeOK /\ CheckedInv
  BY InitTyped DEF Init, CheckedInv
<1>2. TypeOK /\ CheckedInv /\ [Next]_vars => (TypeOK /\ CheckedInv)'
  BY StepTyped, StepChecked
<1>3. QED
  BY <1>1, <1>2, PTL DEF Spec
-----------------------------------------------------------------------------
(* The courier of an order is never lost.                                  *)

TowardsCourier == {"driverFinish", "driverDelivered", "rejectDelivery"}

\* A request that will put order o with its courier has found him in the
\* row, and he is still there although the row may have changed since.
CourierOf(o) ==
  /\ order[o].status \in CourierStatuses => order[o].driver # NoDriver
  /\ \A r \in inflight :
       r.order = o /\ r.op \in TowardsCourier => order[o].driver # NoDriver

CourierInv == \A o \in Orders : CourierOf(o)

\* driver_id may be overwritten by another courier, never by NULL.
LEMMA DriverKept ==
  ASSUME TypeOK, [Next]_vars, NEW o \in Orders, order[o].driver # NoDriver
  PROVE  order'[o].driver # NoDriver
<1>1. ASSUME NEW x \in Orders, CreateDraft(x) PROVE order'[o].driver # NoDriver
  BY <1>1, ColumnsAfter
<1>2. ReadStep => order'[o].driver # NoDriver
  BY DEF ReadStep, Start
<1>3. ASSUME NEW d \in Drivers, NEW s \in Slots, NEW x \in Orders, DriverAccept(d, s, x)
      PROVE  order'[o].driver # NoDriver
  BY <1>3, ColumnsAfter, Constants
<1>4. ASSUME NEW r \in inflight, StatusStep(r) PROVE order'[o].driver # NoDriver
  BY <1>4, ColumnsAfter
<1>5. ASSUME NEW r \in inflight, FinishWrite(r) \/ CustomerCommit(r)
      PROVE  order'[o].driver # NoDriver
  BY <1>5, ColumnsAfter
<1>6. (\E r \in inflight : CustomerCheckStock(r)) => order' = order
  BY DEF CustomerCheckStock
<1>7. QuietStep => order' = order
  BY DEF QuietStep
<1>8. QED
  BY <1>1, <1>2, <1>3, <1>4, <1>5, <1>6, <1>7, StepKinds

\* Every kind of step keeps the courier where he is needed.
LEMMA StepCourier ==
  ASSUME TypeOK, CheckedInv, [Next]_vars, NEW o \in Orders, CourierOf(o)
  PROVE  CourierOf(o)'
<1>1. ASSUME order'[o].status \in CourierStatuses
      PROVE  order'[o].driver # NoDriver
  <2>1. order[o].status \in CourierStatuses => order'[o].driver # NoDriver
    BY DriverKept DEF CourierOf
  <2>2. ASSUME NEW x \in Orders, CreateDraft(x) PROVE order[o].status \in CourierStatuses
    BY <1>1, <2>2, ColumnsAfter DEF CourierStatuses
  <2>3. ReadStep => order[o].status \in CourierStatuses
    BY <1>1 DEF ReadStep, Start
  <2>4. ASSUME NEW d \in Drivers, NEW s \in Slots, NEW x \in Orders, DriverAccept(d, s, x)
        PROVE  order[o].status \in CourierStatuses \/ order'[o].driver # NoDriver
    BY <1>1, <2>4, ColumnsAfter, Constants
  <2>5. ASSUME NEW r \in inflight, StatusStep(r)
        PROVE  order[o].status \in CourierStatuses \/ order'[o].driver # NoDriver
    <3>1. o = r.order => Target(r) \in CourierStatuses
      BY <1>1, <2>5, ColumnsAfter
    <3>2. o = r.order => r.op \in TowardsCourier
      BY <2>5, <3>1 DEF StatusStep, Target, ConfirmTarget, CourierStatuses, TowardsCourier,
                        MasterOps, DriverOps
    <3>3. o = r.order => order'[o].driver # NoDriver
      BY <3>2, DriverKept DEF CourierOf
    <3>4. o # r.order => order[o].status \in CourierStatuses
      BY <1>1, <2>5, ColumnsAfter
    <3>5. QED
      BY <3>3, <3>4
  <2>6. ASSUME NEW r \in inflight, FinishWrite(r) \/ CustomerCommit(r)
        PROVE  order[o].status \in CourierStatuses
    BY <1>1, <2>6, ColumnsAfter DEF CourierStatuses
  <2>7. (\E r \in inflight : CustomerCheckStock(r)) => order' = order
    BY DEF CustomerCheckStock
  <2>8. QuietStep => order' = order
    BY DEF QuietStep
  <2>9. QED
    BY <1>1, <2>1, <2>2, <2>3, <2>4, <2>5, <2>6, <2>7, <2>8, StepKinds
<1>2. ASSUME NEW r \in inflight', r.order = o, r.op \in TowardsCourier
      PROVE  order'[o].driver # NoDriver
  <2>1. CASE r \in inflight
    BY <1>2, <2>1, DriverKept DEF CourierOf
  <2>2. CASE r \notin inflight
    <3>1. CASE ReadStep
      <4>1. r.seen = order[o] /\ Checked(r) /\ order' = order
        BY <1>2, <2>2, <3>1 DEF ReadStep, Start
      <4>2. r.op = "rejectDelivery" => order[o].driver # NoDriver
        BY <4>1 DEF Checked, CourierOf, CourierStatuses
      <4>3. r.op \in DriverOps => order[o].driver # NoDriver
        BY <4>1, Constants DEF Checked
      <4>4. QED
        BY <1>2, <4>1, <4>2, <4>3 DEF TowardsCourier, DriverOps
    <3>2. ASSUME NEW x \in Orders, CreateDraft(x) PROVE FALSE
      BY <2>2, <3>2 DEF CreateDraft
    <3>3. ASSUME NEW d \in Drivers, NEW s \in Slots, NEW x \in Orders, DriverAccept(d, s, x)
          PROVE  FALSE
      BY <1>2, <2>2, <3>3 DEF DriverAccept, TowardsCourier
    <3>4. ASSUME NEW q \in inflight, CustomerCheckStock(q) PROVE FALSE
      <4>1. q \in Requests /\ r = [q EXCEPT !.op = "customerCommit"]
        BY <2>2, <3>4 DEF CustomerCheckStock, TypeOK
      <4>2. r.op = "customerCommit"
        BY <4>1 DEF Requests
      <4>3. QED
        BY <1>2, <4>2 DEF TowardsCourier
    <3>5. ASSUME NEW q \in inflight, StatusStep(q) \/ FinishWrite(q) \/ CustomerCommit(q)
          PROVE  FALSE
      BY <2>2, <3>5, InflightAfter
    <3>6. QuietStep => FALSE
      BY <2>2 DEF QuietStep
    <3>7. QED
      BY <3>1, <3>2, <3>3, <3>4, <3>5, <3>6, StepKinds
  <2>3. QED
    BY <2>1, <2>2
<1>3. QED
  BY <1>1, <1>2 DEF CourierOf

\* An order that is with a courier names him, however many requests overlap,
\* fail or die with the process.
THEOREM CourierIsKnown == Spec => []WithCourierHasDriver
<1>1. Init => CourierInv
  BY DEF Init, CourierInv, CourierOf, CourierStatuses
<1>2. TypeOK /\ CheckedInv /\ CourierInv /\ [Next]_vars => CourierInv'
  BY StepCourier DEF CourierInv
<1>3. CourierInv => WithCourierHasDriver
  BY DEF CourierInv, CourierOf, WithCourierHasDriver
<1>4. QED
  BY <1>1, <1>2, <1>3, AlwaysChecked, PTL DEF Spec
-----------------------------------------------------------------------------
(* Completion and settlement are one step.                                 *)

\* Only two handlers touch any money or stock.
LEMMA MoneyMoves ==
  ASSUME [Next]_vars
  PROVE  \/ UNCHANGED money
         \/ \E r \in inflight : ConfirmDeliveryWrite(r) \/ CustomerCommit(r)
<1>1. ASSUME NEW u \in Masters, NEW s \in Slots, NEW o \in Orders, MasterReads(u, s, o)
      PROVE  UNCHANGED money
  BY <1>1 DEF MasterReads, SetLocation, Confirm, CancelOrder, ConfirmDelivery,
              RejectDelivery, Receive, MasterStartWork, Finish, Start
<1>2. ASSUME NEW d \in Drivers, NEW s \in Slots, NEW o \in Orders,
             DriverReads(d, s, o) \/ DriverAccept(d, s, o)
      PROVE  UNCHANGED money
  BY <1>2 DEF DriverReads, DriverFinish, DriverDelivered, DriverAccept, Start
<1>3. ASSUME NEW s \in CustomerSlots, NEW o \in Orders, CustomerConfirm(s, o)
      PROVE  UNCHANGED money
  BY <1>3 DEF CustomerConfirm, Start
<1>4. ASSUME NEW o \in Orders, CreateDraft(o) \/ BroadcastOrder(o)
      PROVE  UNCHANGED money
  BY <1>4 DEF CreateDraft, BroadcastOrder
<1>5. ASSUME NEW r \in inflight, Writes(r)
      PROVE  \/ UNCHANGED money
             \/ ConfirmDeliveryWrite(r) \/ CustomerCommit(r)
  BY <1>5 DEF Writes, SetLocationWrite, ConfirmWrite, CancelOrderWrite, DriverAcceptEvent,
              DriverFinishWrite, DriverDeliveredWrite, RejectDeliveryWrite, ReceiveWrite,
              MasterStartWorkWrite, FinishWrite, CustomerCheckStock, RequestFails
<1>6. Crash \/ UNCHANGED vars => UNCHANGED money
  BY DEF Crash, vars
<1>7. QED
  BY <1>1, <1>2, <1>3, <1>4, <1>5, <1>6 DEF Next

\* Only they touch the books.
LEMMA BooksMove ==
  ASSUME [Next]_vars
  PROVE  \/ UNCHANGED <<transactions, balance>>
         \/ \E r \in inflight : ConfirmDeliveryWrite(r) \/ CustomerCommit(r)
BY MoneyMoves DEF money

\* Rows are never taken off the books.
LEMMA BooksGrow ==
  ASSUME [Next]_vars
  PROVE  transactions \subseteq transactions'
BY BooksMove DEF ConfirmDeliveryWrite, CustomerCommit

\* Only customerConfirm writes `completed', with its master_fee row.
LEMMA Completion ==
  ASSUME TypeOK, [Next]_vars, NEW o \in Orders, order'[o].status = "completed"
  PROVE  order[o].status = "completed" \/ Settled(o)'
<1>1. ASSUME NEW x \in Orders, CreateDraft(x) PROVE order[o].status = "completed"
  BY <1>1, ColumnsAfter
<1>2. ReadStep => order' = order
  BY DEF ReadStep, Start
<1>3. ASSUME NEW d \in Drivers, NEW s \in Slots, NEW x \in Orders, DriverAccept(d, s, x)
      PROVE  order[o].status = "completed"
  BY <1>3, ColumnsAfter
<1>4. ASSUME NEW r \in inflight, StatusStep(r) PROVE order[o].status = "completed"
  <2>1. Target(r) # "completed"
    BY <1>4 DEF StatusStep, Target, ConfirmTarget, MasterOps, DriverOps
  <2>2. QED
    BY <1>4, <2>1, ColumnsAfter
<1>5. ASSUME NEW r \in inflight, FinishWrite(r) PROVE order[o].status = "completed"
  BY <1>5, ColumnsAfter
<1>6. ASSUME NEW r \in inflight, CustomerCommit(r)
      PROVE  order[o].status = "completed" \/ Settled(o)'
  <2>1. o # r.order => order[o].status = "completed"
    BY <1>6, ColumnsAfter
  <2>2. Posting(r.order, Dto[r.order].master, "master_fee", Dto[r.order].masterFee)
          \in transactions'
    BY <1>6 DEF CustomerCommit, Postings
  <2>3. o = r.order => Settled(o)'
    BY <2>2 DEF Settled, Recorded, Posting
  <2>4. QED
    BY <2>1, <2>3
<1>7. (\E r \in inflight : CustomerCheckStock(r)) => order' = order
  BY DEF CustomerCheckStock
<1>8. QuietStep => order' = order
  BY DEF QuietStep
<1>9. QED
  BY <1>1, <1>2, <1>3, <1>4, <1>5, <1>6, <1>7, <1>8, StepKinds

\* Rows are never taken off the books.
LEMMA SettledStays ==
  ASSUME [Next]_vars, NEW o \in Orders, Settled(o)
  PROVE  Settled(o)'
BY BooksGrow DEF Settled, Recorded

\* An order is completed only by the $transaction that settles it.
THEOREM CompletionSettles == Spec => []CompletedIsSettled
<1>1. Init => CompletedIsSettled
  BY DEF Init, CompletedIsSettled
<1>2. TypeOK /\ CompletedIsSettled /\ [Next]_vars => CompletedIsSettled'
  BY Completion, SettledStays DEF CompletedIsSettled
<1>3. QED
  BY <1>1, <1>2, TypeCorrect, PTL DEF Spec
-----------------------------------------------------------------------------
(* The books.                                                              *)

\* An open settlement has checked that its rows are not on the books, and
\* nobody else can put them there before it commits: its own inserts hold
\* the index, so it is alone with its order.
LedgerInv ==
  /\ \A r \in inflight : r.op = "customerCommit" =>
       \A t \in Postings(r) : ~Recorded(t.order, t.user, t.type)
  /\ \A q, r \in inflight :
       q.op = "customerCommit" /\ r.op = "customerCommit" /\ q.order = r.order => q = r

\* The order, type, payee and amount of what a settlement posts.
LEMMA PostingKeys ==
  ASSUME NEW r \in Requests, NEW t \in Postings(r)
  PROVE  /\ t.order = r.order
         /\ t.type \in {"master_fee", "driver_fee"}
         /\ t.user \in Staff
         /\ t.amount = Share(r, t.user)
<1>1. CASE t = Posting(r.order, Dto[r.order].master, "master_fee", Dto[r.order].masterFee)
  BY <1>1, Constants, RequestFields DEF Posting, Share, Staff
<1>2. CASE /\ CourierShare(r) > 0
           /\ t = Posting(r.order, r.seen.driver, "driver_fee", CourierShare(r))
  <2>1. r.seen.driver \in Drivers
    BY <1>2, PostingsTyped
  <2>2. r.seen.driver # Dto[r.order].master
    BY <2>1, Constants, RequestFields
  <2>3. QED
    BY <1>2, <2>1, <2>2 DEF Posting, Share, Staff
<1>3. QED
  BY <1>1, <1>2 DEF Postings

\* The master is always posted, the courier if he has a share.
LEMMA PostingMembers ==
  ASSUME NEW r
  PROVE  /\ \E t \in Postings(r) :
              t.user = Dto[r.order].master /\ t.type = "master_fee" /\ t.order = r.order
         /\ CourierShare(r) > 0 => \E t \in Postings(r) : t.user = r.seen.driver
<1>1. /\ Posting(r.order, Dto[r.order].master, "master_fee", Dto[r.order].masterFee)
           \in Postings(r)
      /\ CourierShare(r) > 0 =>
           Posting(r.order, r.seen.driver, "driver_fee", CourierShare(r)) \in Postings(r)
  BY DEF Postings
<1>2. \A o, u, type, a : /\ Posting(o, u, type, a).user = u
                         /\ Posting(o, u, type, a).type = type
                         /\ Posting(o, u, type, a).order = o
  BY DEF Posting
<1>3. QED
  BY <1>1, <1>2

\* Nobody is paid twice by one settlement, and whoever is not paid has no share.
LEMMA PostingPayees ==
  ASSUME NEW r \in Requests
  PROVE  /\ \A t, x \in Postings(r) : t.user = x.user => t = x
         /\ \A u \in Staff : (\A t \in Postings(r) : t.user # u) => Share(r, u) = 0
<1>1. CourierShare(r) > 0 => r.seen.driver # Dto[r.order].master
  BY PostingsTyped, Constants, RequestFields
<1>2. \A t, x \in Postings(r) : t.user = x.user => t = x
  BY <1>1 DEF Postings, Posting
<1>3. ASSUME NEW u \in Staff, \A t \in Postings(r) : t.user # u PROVE Share(r, u) = 0
  <2>1. u # Dto[r.order].master
    BY <1>3, PostingMembers
  <2>2. CourierShare(r) > 0 => u # r.seen.driver
    BY <1>3, PostingMembers
  <2>3. QED
    BY <2>1, <2>2, PostingsTyped DEF Share
<1>4. QED
  BY <1>2, <1>3

\* A settlement opens only by passing the checks of customerConfirm.
LEMMA NewCommit ==
  ASSUME TypeOK, [Next]_vars, NEW r \in inflight', r \notin inflight,
         r.op = "customerCommit"
  PROVE  \E q \in inflight :
           /\ CustomerCheckStock(q)
           /\ q \in Requests
           /\ r.order = q.order
           /\ r.seen = q.seen
<1>1. ASSUME NEW o \in Orders, CreateDraft(o) PROVE FALSE
  BY <1>1 DEF CreateDraft
<1>2. ReadStep => FALSE
  BY DEF ReadStep, Start
<1>3. ASSUME NEW d \in Drivers, NEW s \in Slots, NEW o \in Orders, DriverAccept(d, s, o)
      PROVE  FALSE
  BY <1>3 DEF DriverAccept
<1>4. ASSUME NEW q \in inflight, StatusStep(q) \/ FinishWrite(q) \/ CustomerCommit(q)
      PROVE  FALSE
  BY <1>4, InflightAfter
<1>5. QuietStep => FALSE
  BY DEF QuietStep
<1>6. PICK q \in inflight : CustomerCheckStock(q)
  BY <1>1, <1>2, <1>3, <1>4, <1>5, StepKinds
<1>7. q \in Requests /\ r = [q EXCEPT !.op = "customerCommit"]
  BY <1>6 DEF CustomerCheckStock, TypeOK
<1>8. r.order = q.order /\ r.seen = q.seen
  BY <1>7 DEF Requests
<1>9. QED
  BY <1>6, <1>7, <1>8

\* No step puts the rows of an open settlement on the books, and no
\* second settlement of its order opens beside it.
LEMMA StepLedger == TypeOK /\ LedgerInv /\ [Next]_vars => LedgerInv'
<1>1. SUFFICES ASSUME TypeOK, LedgerInv, [Next]_vars PROVE LedgerInv'
  OBVIOUS
<1>. USE <1>1
<1>2. ASSUME NEW r \in inflight', r.op = "customerCommit", NEW t \in Postings(r)
      PROVE  ~Recorded(t.order, t.user, t.type)'
  <2>0. r \in Requests
    BY StepTyped DEF TypeOK
  <2>1. ~Recorded(t.order, t.user, t.type)
    <3>1. CASE r \in inflight
      BY <1>2, <3>1 DEF LedgerInv
    <3>2. CASE r \notin inflight
      <4>1. PICK q \in inflight : /\ CustomerCheckStock(q)
                                  /\ r.order = q.order
                                  /\ r.seen = q.seen
        BY <1>2, <3>2, NewCommit
      <4>2. Postings(r) = Postings(q)
        BY <4>1 DEF Postings, CourierShare
      <4>3. QED
        BY <1>2, <4>1, <4>2 DEF CustomerCheckStock
    <3>3. QED
      BY <3>1, <3>2
  <2>2. CASE UNCHANGED <<transactions, balance>>
    BY <2>1, <2>2 DEF Recorded
  <2>3. ASSUME NEW q \in inflight, ConfirmDeliveryWrite(q)
        PROVE  ~Recorded(t.order, t.user, t.type)'
    <3>1. \A x \in transactions' : x \in transactions \/ x.type = "delivery_fee"
      BY <2>3 DEF ConfirmDeliveryWrite, Posting
    <3>2. QED
      BY <2>0, <2>1, <3>1, PostingKeys DEF Recorded
  <2>4. ASSUME NEW q \in inflight, CustomerCommit(q)
        PROVE  ~Recorded(t.order, t.user, t.type)'
    <3>1. q \in Requests /\ q.op = "customerCommit"
      BY <2>4 DEF CustomerCommit, TypeOK
    <3>2. r \in inflight /\ r # q
      BY <2>4, <3>1, InflightAfter
    <3>3. r.order # q.order
      BY <1>2, <3>1, <3>2 DEF LedgerInv
    <3>4. \A x \in transactions' : x \in transactions \/ x.order = q.order
      BY <2>4, <3>1, PostingKeys DEF CustomerCommit
    <3>5. QED
      BY <2>0, <2>1, <3>3, <3>4, PostingKeys DEF Recorded
  <2>5. QED
    BY <2>2, <2>3, <2>4, BooksMove
<1>3. ASSUME NEW q \in inflight', NEW r \in inflight',
             q.op = "customerCommit", r.op = "customerCommit", q.order = r.order
      PROVE  q = r
  <2>1. ASSUME NEW x \in inflight', NEW y \in inflight, x \notin inflight,
               x.op = "customerCommit", y.op = "customerCommit", x.order = y.order
        PROVE  FALSE
    <3>1. PICK z \in inflight : CustomerCheckStock(z) /\ z \in Requests /\ x.order = z.order
      BY <2>1, NewCommit
    <3>2. Dto[z.order].master \in Payees(z) /\ Dto[z.order].master \in Payees(y)
      BY <2>1, <3>1, PostingMembers DEF Payees
    <3>3. Blocks(y, z)
      BY <2>1, <3>2 DEF Blocks
    <3>4. QED
      BY <3>1, <3>3 DEF CustomerCheckStock
  <2>2. CASE q \in inflight /\ r \in inflight
    BY <1>3, <2>2 DEF LedgerInv
  <2>3. CASE q \notin inflight /\ r \notin inflight
    <3>1. PICK z \in inflight : CustomerCheckStock(z)
      BY <1>3, <2>3, NewCommit
    <3>2. q = [z EXCEPT !.op = "customerCommit"] /\ r = [z EXCEPT !.op = "customerCommit"]
      BY <2>3, <3>1 DEF CustomerCheckStock
    <3>3. QED
      BY <3>2
  <2>4. QED
    BY <1>3, <2>1, <2>2, <2>3
<1>4. QED
  BY <1>2, <1>3 DEF LedgerInv

\* One step of the service is a step of the books or leaves them alone.
LEMMA StepPosts ==
  TypeOK /\ LedgerInv /\ [Next]_vars => [Ledger!Next]_<<transactions, balance>>
<1>1. SUFFICES ASSUME TypeOK, LedgerInv, [Next]_vars
               PROVE  [Ledger!Next]_<<transactions, balance>>
  OBVIOUS
<1>. USE <1>1
<1>2. ASSUME NEW r \in inflight, ConfirmDeliveryWrite(r)
      PROVE  [Ledger!Next]_<<transactions, balance>>
  <2>. DEFINE d == r.seen.driver
              t == Posting(r.order, d, "delivery_fee", DeliveryFee)
  <2>1. CASE d = NoDriver \/ Recorded(r.order, d, "delivery_fee")
    BY <1>2, <2>1 DEF ConfirmDeliveryWrite
  <2>2. CASE d # NoDriver /\ ~Recorded(r.order, d, "delivery_fee")
    <3>1. transactions' = transactions \cup {t}
      BY <1>2, <2>2 DEF ConfirmDeliveryWrite
    <3>2. balance' = [balance EXCEPT ![d] = @ + DeliveryFee]
      BY <1>2, <2>2 DEF ConfirmDeliveryWrite
    <3>3. \A x \in transactions : Ledger!Key(t) # Ledger!Key(x)
      BY <2>2 DEF Ledger!Key, Recorded, Posting
    <3>4. transactions' \ transactions = {t}
      BY <3>1, <3>3
    <3>5. t.user = d /\ t.amount = DeliveryFee
      BY DEF Posting
    <3>6. balance \in [Staff -> Int]
      BY DEF TypeOK
    <3>7. \A u \in Staff : \/ t.user # u /\ balance'[u] = balance[u]
                           \/ t.user = u /\ balance'[u] = balance[u] + t.amount
      <4>1. ASSUME NEW u \in Staff
            PROVE  balance'[u] = IF u = d THEN balance[u] + DeliveryFee ELSE balance[u]
        BY <3>2, <3>6
      <4>2. QED
        BY <3>5, <4>1
    <3>8. Ledger!Post({t})
      BY <3>1, <3>3, <3>7 DEF Ledger!Post
    <3>9. QED
      BY <3>4, <3>8 DEF Ledger!Next
  <2>3. QED
    BY <2>1, <2>2
<1>3. ASSUME NEW r \in inflight, CustomerCommit(r)
      PROVE  [Ledger!Next]_<<transactions, balance>>
  <2>1. r \in Requests /\ r.op = "customerCommit"
    BY <1>3 DEF CustomerCommit, TypeOK
  <2>2. transactions' = transactions \cup Postings(r)
    BY <1>3 DEF CustomerCommit
  <2>3. \A t \in Postings(r), x \in transactions : Ledger!Key(t) # Ledger!Key(x)
    BY <2>1 DEF LedgerInv, Recorded, Ledger!Key
  <2>4. transactions' \ transactions = Postings(r)
    BY <2>2, <2>3
  <2>5. \A t, x \in Postings(r) : t.user = x.user => t = x
    BY <2>1, PostingPayees
  <2>6. ASSUME NEW u \in Staff
        PROVE  \/ (\A t \in Postings(r) : t.user # u) /\ balance'[u] = balance[u]
               \/ \E t \in Postings(r) : t.user = u /\ balance'[u] = balance[u] + t.amount
    <3>1. balance'[u] = balance[u] + Share(r, u) /\ balance[u] \in Int
      BY <1>3 DEF CustomerCommit, TypeOK
    <3>2. CASE \A t \in Postings(r) : t.user # u
      BY <2>1, <3>1, <3>2, PostingPayees
    <3>3. CASE \E t \in Postings(r) : t.user = u
      BY <2>1, <3>1, <3>3, PostingKeys
    <3>4. QED
      BY <3>2, <3>3
  <2>7. Ledger!Post(Postings(r))
    BY <2>2, <2>3, <2>5, <2>6 DEF Ledger!Post
  <2>8. QED
    BY <2>4, <2>7 DEF Ledger!Next
<1>4. QED
  BY <1>2, <1>3, BooksMove

LEMMA AlwaysLedger == Spec => [](TypeOK /\ LedgerInv)
<1>1. Init => LedgerInv
  BY DEF Init, LedgerInv
<1>2. TypeOK /\ LedgerInv /\ [Next]_vars => LedgerInv'
  BY StepLedger
<1>3. QED
  BY <1>1, <1>2, TypeCorrect, PTL DEF Spec

\* masterConfirmDelivery and customerConfirm keep the books as FeeLedger
\* promises: each row once, and each balance moved by exactly its rows.
THEOREM BooksAreKept == Spec => LedgerSpec
<1>1. Init => Ledger!Init
  BY DEF Init, Ledger!Init
<1>2. TypeOK /\ LedgerInv /\ [Next]_vars => [Ledger!Next]_<<transactions, balance>>
  BY StepPosts
<1>3. QED
  BY <1>1, <1>2, AlwaysLedger, PTL DEF Spec, LedgerSpec, Ledger!Spec
-----------------------------------------------------------------------------
(* The sums.                                                               *)

Pieces(p, D) == MapThenSumSet(LAMBDA o : Dto[o].qty[p], D)
Totals(D) == MapThenSumSet(LAMBDA o : Dto[o].total, D)

\* The sum of a column of the orders as the sum of a function on them.
LEMMA PiecesAdded ==
  ASSUME NEW p, NEW D, IsFiniteSet(D)
  PROVE  Pieces(p, D) = SumFunctionOnSet([o \in D |-> Dto[o].qty[p]], D)
<1> DEFINE f == [o \in D |-> Dto[o].qty[p]]
           Step(g, s) == IF s = {} THEN 0 ELSE Dto[Picked(s)].qty[p] + g[s \ {Picked(s)}]
           h == CHOOSE g : g = [s \in SUBSET D |-> Step(g, s)]
<1>1. Pieces(p, D) = h[D]
  BY DEF Pieces, MapThenSumSet, MapThenFoldSet, Picked
<1>2. \A g : \A s \in SUBSET D : Step(g, s) = SumStep(f, g, s)
  BY DEF SumStep, Picked
<1> HIDE DEF Step, f
<1>3. Solves(h, f, D)
  BY <1>2, SolutionExists DEF Solves
<1> QED BY <1>1, <1>3, SolutionIsSum DEF f

LEMMA TotalsAdded ==
  ASSUME NEW D, IsFiniteSet(D)
  PROVE  Totals(D) = SumFunctionOnSet([o \in D |-> Dto[o].total], D)
<1> DEFINE f == [o \in D |-> Dto[o].total]
           Step(g, s) == IF s = {} THEN 0 ELSE Dto[Picked(s)].total + g[s \ {Picked(s)}]
           h == CHOOSE g : g = [s \in SUBSET D |-> Step(g, s)]
<1>1. Totals(D) = h[D]
  BY DEF Totals, MapThenSumSet, MapThenFoldSet, Picked
<1>2. \A g : \A s \in SUBSET D : Step(g, s) = SumStep(f, g, s)
  BY DEF SumStep, Picked
<1> HIDE DEF Step, f
<1>3. Solves(h, f, D)
  BY <1>2, SolutionExists DEF Solves
<1> QED BY <1>1, <1>3, SolutionIsSum DEF f

\* A newly settled order adds its pieces.
LEMMA PiecesWith ==
  ASSUME NEW p \in Products, NEW D, D \subseteq Orders, NEW o \in Orders, o \notin D,
         IsFiniteSet(D)
  PROVE  /\ Pieces(p, D \cup {o}) = Pieces(p, D) + Dto[o].qty[p]
         /\ Pieces(p, D) \in Int
<1> DEFINE f == [x \in D \cup {o} |-> Dto[x].qty[p]]
           g == [x \in D |-> Dto[x].qty[p]]
<1>1. IsFiniteSet(D \cup {o})
  BY FS_AddElement
<1>2. Pieces(p, D \cup {o}) = SumFunctionOnSet(f, D \cup {o}) /\ Pieces(p, D) = SumFunctionOnSet(g, D)
  BY <1>1, PiecesAdded
<1>3. /\ \A x \in D : f[x] = g[x]
      /\ \A x \in D \cup {o} : f[x] \in Int
      /\ f[o] = Dto[o].qty[p]
  <2>1. \A x \in Orders : Dto[x].qty[p] \in Int
    BY Constants
  <2> QED BY <2>1
<1> HIDE DEF f, g
<1>4. SumFunctionOnSet(f, D) = SumFunctionOnSet(g, D)
  BY <1>3, SumLooksAt
<1>5. /\ SumFunctionOnSet(f, D \cup {o}) = SumFunctionOnSet(f, D) + f[o]
      /\ SumFunctionOnSet(f, D) \in Int
  BY <1>3, SumWith
<1> QED BY <1>2, <1>3, <1>4, <1>5

\* A newly settled order adds its total.
LEMMA TotalsWith ==
  ASSUME NEW D, D \subseteq Orders, NEW o \in Orders, o \notin D, IsFiniteSet(D)
  PROVE  Totals(D \cup {o}) = Totals(D) + Dto[o].total
<1> DEFINE f == [x \in D \cup {o} |-> Dto[x].total]
           g == [x \in D |-> Dto[x].total]
<1>1. IsFiniteSet(D \cup {o})
  BY FS_AddElement
<1>2. Totals(D \cup {o}) = SumFunctionOnSet(f, D \cup {o}) /\ Totals(D) = SumFunctionOnSet(g, D)
  BY <1>1, TotalsAdded
<1>3. /\ \A x \in D : f[x] = g[x]
      /\ \A x \in D \cup {o} : f[x] \in Int
      /\ f[o] = Dto[o].total
  BY Constants
<1> HIDE DEF f, g
<1>4. SumFunctionOnSet(f, D) = SumFunctionOnSet(g, D)
  BY <1>3, SumLooksAt
<1>5. SumFunctionOnSet(f, D \cup {o}) = SumFunctionOnSet(f, D) + f[o]
  BY <1>3, SumWith
<1> QED BY <1>2, <1>3, <1>4, <1>5

\* Nothing adds up to nothing.
LEMMA NothingAdded ==
  /\ AmountsOf({}) = 0
  /\ \A p : Pieces(p, {}) = 0
  /\ Totals({}) = 0
BY AmountsAdded, PiecesAdded, TotalsAdded, SumOfNone, FS_EmptySet
-----------------------------------------------------------------------------
(* The balances.                                                           *)

RowsOf(u) == {t \in transactions : t.user = u}

\* The balances are the sums of rows of which there are finitely many.
BalanceInv ==
  /\ IsFiniteSet(transactions)
  /\ \A u \in Staff : balance[u] = AmountsOf(RowsOf(u))

\* Each step that pays somebody gives him one new row.
LEMMA StepBalance ==
  TypeOK /\ LedgerInv /\ BalanceInv /\ [Next]_vars => BalanceInv'
<1>1. SUFFICES ASSUME TypeOK, LedgerInv, BalanceInv, [Next]_vars PROVE BalanceInv'
  OBVIOUS
<1>. USE <1>1
<1>. DEFINE E == transactions' \ transactions
<1>2. IsFiniteSet(transactions')
  <2>1. CASE UNCHANGED <<transactions, balance>>
    BY <2>1 DEF BalanceInv
  <2>2. ASSUME NEW r \in inflight, ConfirmDeliveryWrite(r) PROVE IsFiniteSet(transactions')
    <3>1. \/ transactions' = transactions
          \/ transactions' = transactions \cup
               {Posting(r.order, r.seen.driver, "delivery_fee", DeliveryFee)}
      BY <2>2 DEF ConfirmDeliveryWrite
    <3>2. QED
      BY <3>1, FS_AddElement DEF BalanceInv
  <2>3. ASSUME NEW r \in inflight, CustomerCommit(r) PROVE IsFiniteSet(transactions')
    <3>1. IsFiniteSet(Postings(r))
      BY FS_EmptySet, FS_Singleton, FS_Union DEF Postings
    <3>2. QED
      BY <2>3, <3>1, FS_Union DEF CustomerCommit, BalanceInv
  <2>4. QED
    BY <2>1, <2>2, <2>3, BooksMove
<1>3. CASE UNCHANGED <<transactions, balance>>
  BY <1>3 DEF BalanceInv, RowsOf
<1>4. CASE Ledger!Post(E)
  <2>. SUFFICES ASSUME NEW u \in Staff PROVE balance'[u] = AmountsOf(RowsOf(u)')
    BY <1>2 DEF BalanceInv, RowsOf
  <2>1. transactions' = transactions \cup E /\ \A t, x \in E : t.user = x.user => t = x
    BY <1>4 DEF Ledger!Post
  <2>2. CASE (\A t \in E : t.user # u) /\ balance'[u] = balance[u]
    <3>1. RowsOf(u)' = RowsOf(u)
      BY <2>1, <2>2 DEF RowsOf
    <3>2. QED
      BY <2>2, <3>1 DEF BalanceInv
  <2>3. ASSUME NEW t \in E, t.user = u, balance'[u] = balance[u] + t.amount
        PROVE  balance'[u] = AmountsOf(RowsOf(u)')
    <3>1. RowsOf(u)' = RowsOf(u) \cup {t} /\ t \notin RowsOf(u)
      BY <2>1, <2>3 DEF RowsOf
    <3>2. IsFiniteSet(RowsOf(u))
      BY FS_Subset DEF BalanceInv, RowsOf
    <3>3. \A x \in RowsOf(u) \cup {t} : x.amount \in Int
      BY StepTyped, <2>1, <2>3 DEF TypeOK, TransactionRow, RowsOf
    <3>4. AmountsOf(RowsOf(u) \cup {t}) = AmountsOf(RowsOf(u)) + t.amount
      BY <3>1, <3>2, <3>3, AmountsWith
    <3>5. QED
      BY <2>3, <3>1, <3>4 DEF BalanceInv
  <2>4. QED
    BY <1>4, <2>2, <2>3 DEF Ledger!Post
<1>5. QED
  BY <1>3, <1>4, StepPosts DEF Ledger!Next

LEMMA BalanceInvSums == BalanceInv => BalanceIsLedger
BY DEF BalanceInv, BalanceIsLedger, AmountsOf, RowsOf

\* At the start nobody is owed anything.
LEMMA InitBalance == Init => BalanceInv
<1>1. Init => \A u \in Staff : RowsOf(u) = {} /\ balance[u] = 0
  BY DEF Init, RowsOf
<1>2. QED
  BY <1>1, NothingAdded, FS_EmptySet DEF BalanceInv, Init

\* Whatever requests overlap, fail or are repeated, what a user is owed is the
\* sum of his rows (masterConfirmDelivery, customerConfirm).
THEOREM BalancesAreSums == Spec => []BalanceIsLedger
<1>1. Init => BalanceInv
  BY InitBalance
<1>2. TypeOK /\ LedgerInv /\ BalanceInv /\ [Next]_vars => BalanceInv'
  BY StepBalance
<1>3. BalanceInv => BalanceIsLedger
  BY BalanceInvSums
<1>4. QED
  BY <1>1, <1>2, <1>3, AlwaysLedger, PTL DEF Spec
-----------------------------------------------------------------------------
(* The stock and the debts of the organizations.                           *)

SettledOrders == {o \in Orders : Settled(o)}

ChargedTo(g) == {o \in SettledOrders : Dto[o].org = g}

\* What has left the stock and what is owed are sums over the settled orders.
SettlementInv ==
  /\ IsFiniteSet(SettledOrders)
  /\ \A p \in Products : stock[p] = InitialStock[p] - Pieces(p, SettledOrders)
  /\ \A g \in Orgs : balanceDue[g] = Totals(ChargedTo(g))

\* Only customerConfirm settles an order, and only one that is not settled.
LEMMA SettledOnce ==
  ASSUME TypeOK, LedgerInv, [Next]_vars
  PROVE  \/ SettledOrders' = SettledOrders /\ UNCHANGED <<balanceDue, stock>>
         \/ \E r \in inflight : /\ CustomerCommit(r)
                                /\ r \in Requests
                                /\ r.order \notin SettledOrders
                                /\ SettledOrders' = SettledOrders \cup {r.order}
<1>1. CASE UNCHANGED money
  BY <1>1 DEF money, SettledOrders, Settled, Recorded
<1>2. ASSUME NEW r \in inflight, ConfirmDeliveryWrite(r)
      PROVE  SettledOrders' = SettledOrders /\ UNCHANGED <<balanceDue, stock>>
  <2>1. /\ transactions \subseteq transactions'
        /\ \A t \in transactions' : t \in transactions \/ t.type = "delivery_fee"
    BY <1>2 DEF ConfirmDeliveryWrite, Posting
  <2>2. \A o \in Orders : Settled(o)' <=> Settled(o)
    BY <2>1 DEF Settled, Recorded
  <2>3. QED
    BY <1>2, <2>2 DEF SettledOrders, ConfirmDeliveryWrite
<1>3. ASSUME NEW r \in inflight, CustomerCommit(r)
      PROVE  /\ r \in Requests
             /\ r.order \notin SettledOrders
             /\ SettledOrders' = SettledOrders \cup {r.order}
  <2>1. r \in Requests /\ r.order \in Orders /\ r.op = "customerCommit"
    BY <1>3, RequestFields DEF CustomerCommit, TypeOK
  <2>2. PICK t \in Postings(r) :
          t.user = Dto[r.order].master /\ t.type = "master_fee" /\ t.order = r.order
    BY PostingMembers
  <2>3. ~Settled(r.order)
    BY <2>1, <2>2 DEF LedgerInv, Settled
  <2>4. transactions' = transactions \cup Postings(r)
    BY <1>3 DEF CustomerCommit
  <2>5. Settled(r.order)'
    BY <2>2, <2>4 DEF Settled, Recorded
  <2>6. \A x \in Postings(r) : x.order = r.order
    BY <2>1, PostingKeys
  <2>7. \A o \in Orders : o # r.order => (Settled(o)' <=> Settled(o))
    BY <2>4, <2>6 DEF Settled, Recorded
  <2>8. QED
    BY <2>1, <2>3, <2>5, <2>7 DEF SettledOrders
<1>4. QED
  BY <1>1, <1>2, <1>3, MoneyMoves

LEMMA StepSettlement ==
  TypeOK /\ LedgerInv /\ SettlementInv /\ [Next]_vars => SettlementInv'
<1>1. SUFFICES ASSUME TypeOK, LedgerInv, SettlementInv, [Next]_vars PROVE SettlementInv'
  OBVIOUS
<1>. USE <1>1
<1>2. CASE SettledOrders' = SettledOrders /\ UNCHANGED <<balanceDue, stock>>
  BY <1>2 DEF SettlementInv, ChargedTo
<1>3. ASSUME NEW r \in inflight, CustomerCommit(r), r \in Requests,
             r.order \notin SettledOrders,
             SettledOrders' = SettledOrders \cup {r.order}
      PROVE  SettlementInv'
  <2>. DEFINE o == r.order
  <2>1. o \in Orders /\ SettledOrders \subseteq Orders
    BY <1>3, RequestFields DEF SettledOrders
  <2>2. IsFiniteSet(SettledOrders')
    BY <1>3, FS_AddElement DEF SettlementInv
  <2>3. ASSUME NEW p \in Products
        PROVE  stock'[p] = InitialStock[p] - Pieces(p, SettledOrders')
    <3>1. stock'[p] = stock[p] - Dto[o].qty[p]
      BY <1>3 DEF CustomerCommit
    <3>2. /\ Pieces(p, SettledOrders') = Pieces(p, SettledOrders) + Dto[o].qty[p]
          /\ Pieces(p, SettledOrders) \in Int
      BY <1>3, <2>1, PiecesWith DEF SettlementInv
    <3>3. InitialStock[p] \in Int /\ Dto[o].qty[p] \in Int
      BY <2>1, Constants, ConstantsAssumption
    <3>4. QED
      BY <3>1, <3>2, <3>3 DEF SettlementInv
  <2>4. ASSUME NEW g \in Orgs
        PROVE  balanceDue'[g] = Totals(ChargedTo(g)')
    <3>1. balanceDue'[g] = balanceDue[g] + IF Dto[o].org = g THEN Dto[o].total ELSE 0
      BY <1>3 DEF CustomerCommit
    <3>2. balanceDue[g] \in Int
      BY DEF TypeOK
    <3>3. CASE Dto[o].org # g
      <4>1. ChargedTo(g)' = ChargedTo(g)
        BY <1>3, <3>3 DEF ChargedTo
      <4>2. QED
        BY <3>1, <3>2, <3>3, <4>1 DEF SettlementInv
    <3>4. CASE Dto[o].org = g
      <4>1. ChargedTo(g)' = ChargedTo(g) \cup {o} /\ o \notin ChargedTo(g)
        BY <1>3, <3>4 DEF ChargedTo
      <4>2. ChargedTo(g) \subseteq Orders /\ IsFiniteSet(ChargedTo(g))
        BY <2>1, FS_Subset DEF ChargedTo, SettlementInv
      <4>3. Totals(ChargedTo(g) \cup {o}) = Totals(ChargedTo(g)) + Dto[o].total
        BY <2>1, <4>1, <4>2, TotalsWith
      <4>4. QED
        BY <3>1, <3>4, <4>1, <4>3 DEF SettlementInv
    <3>5. QED
      BY <3>3, <3>4
  <2>5. QED
    BY <2>2, <2>3, <2>4 DEF SettlementInv
<1>4. QED
  BY <1>2, <1>3, SettledOnce

\* At the start nothing is settled.
LEMMA InitSettlement == Init => SettlementInv
<1>1. SUFFICES ASSUME Init PROVE SettlementInv
  OBVIOUS
<1>2. SettledOrders = {} /\ \A g \in Orgs : ChargedTo(g) = {}
  BY <1>1 DEF Init, SettledOrders, Settled, Recorded, ChargedTo
<1>3. \A p \in Products : stock[p] = InitialStock[p] - 0
  BY <1>1, ConstantsAssumption DEF Init
<1>4. \A g \in Orgs : balanceDue[g] = 0
  BY <1>1 DEF Init
<1>5. QED
  BY <1>2, <1>3, <1>4, NothingAdded, FS_EmptySet DEF SettlementInv

LEMMA SettlementInvSums == SettlementInv => SettledExactlyOnce
BY DEF SettlementInv, SettledExactlyOnce, SettledOrders, ChargedTo, Pieces, Totals

\* The stock and the debts are those of the settled orders, each taken once,
\* however often an order is finished again and its links confirmed.
THEOREM SettledOrdersMoveOnce == Spec => []SettledExactlyOnce
<1>1. Init => SettlementInv
  BY InitSettlement
<1>2. TypeOK /\ LedgerInv /\ SettlementInv /\ [Next]_vars => SettlementInv'
  BY StepSettlement
<1>3. SettlementInv => SettledExactlyOnce
  BY SettlementInvSums
<1>4. QED
  BY <1>1, <1>2, <1>3, AlwaysLedger, PTL DEF Spec
-----------------------------------------------------------------------------
(* The shelf.                                                              *)

\* Any two orders for one product have the same master or charge the same
\* organization, so that their settlements lock a row they share.
LocksShared ==
  \A o, x \in Orders, p \in Products :
    o # x /\ Dto[o].qty[p] > 0 /\ Dto[x].qty[p] > 0 =>
      \/ Dto[o].master = Dto[x].master
      \/ Dto[o].org = Dto[x].org /\ Dto[x].org # NoOrg

\* What an open settlement has found in stock is still there: the settlements
\* open beside it lock none of its rows, so they take none of its products.
ShelfInv ==
  /\ StockCovered
  /\ \A r \in inflight : r.op = "customerCommit" => InStock(r.order)
  /\ \A q, r \in inflight : r.op = "customerCommit" /\ q # r => ~Blocks(q, r)

\* The locks two settlements share keep both from being open.
LEMMA SharersBlock ==
  ASSUME LocksShared, NEW q \in Requests, NEW r \in Requests, q.op = "customerCommit",
         q.order # r.order, NEW p \in Products,
         Dto[q.order].qty[p] > 0, Dto[r.order].qty[p] > 0
  PROVE  Blocks(q, r)
<1>1. CASE Dto[q.order].master = Dto[r.order].master
  <2>1. Dto[q.order].master \in Payees(q) /\ Dto[r.order].master \in Payees(r)
    BY PostingMembers DEF Payees
  <2>2. QED
    BY <1>1, <2>1 DEF Blocks
<1>2. CASE Dto[q.order].org = Dto[r.order].org /\ Dto[r.order].org # NoOrg
  BY <1>2 DEF Blocks
<1>3. QED
  BY <1>1, <1>2, RequestFields DEF LocksShared

LEMMA BlocksSymmetric ==
  ASSUME NEW q, NEW r, q.op = "customerCommit", r.op = "customerCommit", Blocks(q, r)
  PROVE  Blocks(r, q)
BY DEF Blocks

LEMMA StepShelf ==
  ASSUME LocksShared
  PROVE  TypeOK /\ LedgerInv /\ ShelfInv /\ [Next]_vars => ShelfInv'
<1>1. SUFFICES ASSUME TypeOK, LedgerInv, ShelfInv, [Next]_vars PROVE ShelfInv'
  OBVIOUS
<1>. USE <1>1
<1>2. ASSUME NEW q \in inflight, CustomerCommit(q), NEW r \in inflight,
             r.op = "customerCommit", r # q, NEW p \in Products, Dto[r.order].qty[p] > 0
      PROVE  stock'[p] = stock[p]
  <2>1. q \in Requests /\ r \in Requests /\ q.op = "customerCommit"
    BY <1>2 DEF TypeOK, CustomerCommit
  <2>2. q.order # r.order /\ ~Blocks(q, r)
    BY <1>2, <2>1 DEF LedgerInv, ShelfInv
  <2>3. ~(Dto[q.order].qty[p] > 0)
    BY LocksShared, <1>2, <2>1, <2>2, SharersBlock
  <2>4. stock'[p] = stock[p] - Dto[q.order].qty[p] /\ stock[p] \in Int
    BY <1>2 DEF CustomerCommit, TypeOK
  <2>5. Dto[q.order].qty[p] \in Nat
    BY <2>1, RequestFields, Constants
  <2>6. QED
    BY <2>3, <2>4, <2>5
<1>3. UNCHANGED stock \/ \E q \in inflight : CustomerCommit(q)
  BY MoneyMoves DEF money, ConfirmDeliveryWrite
<1>4. StockCovered'
  <2>1. ASSUME NEW q \in inflight, CustomerCommit(q), NEW p \in Products PROVE stock'[p] >= 0
    <3>1. stock'[p] = stock[p] - Dto[q.order].qty[p] /\ stock[p] \in Int
      BY <2>1 DEF CustomerCommit, TypeOK
    <3>2. Dto[q.order].qty[p] > 0 => stock[p] >= Dto[q.order].qty[p]
      BY <2>1 DEF ShelfInv, InStock, CustomerCommit
    <3>3. Dto[q.order].qty[p] \in Nat /\ stock[p] >= 0
      BY RequestFields, Constants DEF TypeOK, ShelfInv, StockCovered
    <3>4. QED
      BY <3>1, <3>2, <3>3
  <2>2. QED
    BY <1>3, <2>1 DEF ShelfInv, StockCovered
<1>5. ASSUME NEW r \in inflight', r.op = "customerCommit" PROVE InStock(r.order)'
  <2>1. CASE r \in inflight
    <3>1. InStock(r.order)
      BY <1>5, <2>1 DEF ShelfInv
    <3>2. ASSUME NEW q \in inflight, CustomerCommit(q) PROVE InStock(r.order)'
      <4>1. r # q
        BY <3>2, InflightAfter
      <4>2. QED
        BY <1>2, <1>5, <2>1, <3>1, <3>2, <4>1 DEF InStock
    <3>3. QED
      BY <1>3, <3>1, <3>2 DEF InStock
  <2>2. CASE r \notin inflight
    <3>1. PICK q \in inflight : CustomerCheckStock(q) /\ r.order = q.order
      BY <1>5, <2>2, NewCommit
    <3>2. QED
      BY <3>1 DEF CustomerCheckStock, InStock, money
  <2>3. QED
    BY <2>1, <2>2
<1>6. ASSUME NEW q \in inflight', NEW r \in inflight',
             q.op = "customerCommit", r.op = "customerCommit", q # r
      PROVE  ~Blocks(q, r)
  <2>1. ASSUME NEW x \in inflight, NEW y \in inflight', y \notin inflight,
               x.op = "customerCommit", y.op = "customerCommit"
        PROVE  ~Blocks(x, y)
    <3>1. PICK z \in inflight : CustomerCheckStock(z) /\ y.order = z.order /\ y.seen = z.seen
      BY <2>1, NewCommit
    <3>2. Payees(y) = Payees(z)
      BY <3>1 DEF Payees, Postings, CourierShare
    <3>3. QED
      BY <2>1, <3>1, <3>2 DEF CustomerCheckStock, Blocks
  <2>2. CASE q \in inflight /\ r \in inflight
    BY <1>6, <2>2 DEF ShelfInv
  <2>3. CASE q \notin inflight /\ r \notin inflight
    <3>1. PICK z \in inflight : CustomerCheckStock(z)
      BY <1>6, <2>3, NewCommit
    <3>2. QED
      BY <1>6, <2>3, <3>1 DEF CustomerCheckStock
  <2>4. QED
    BY <1>6, <2>1, <2>2, <2>3, BlocksSymmetric
<1>7. \A q, r : Blocks(q, r) => q.op = "customerCommit"
  BY DEF Blocks
<1>8. \A q, r : Blocks(q, r)' <=> Blocks(q, r)
  BY DEF Blocks, Payees, Postings, CourierShare
<1>9. QED
  BY <1>4, <1>5, <1>6, <1>7, <1>8 DEF ShelfInv

\* customerConfirm never takes the stock below zero when the orders for one
\* product share a lock. Without that two settlements pass on the same pieces,
\* however the requests are spaced.
THEOREM SharedLocksCoverStock ==
  ASSUME LocksShared
  PROVE  Spec => []StockCovered
<1>1. Init => ShelfInv
  BY ConstantsAssumption DEF Init, ShelfInv, StockCovered
<1>2. TypeOK /\ LedgerInv /\ ShelfInv /\ [Next]_vars => ShelfInv'
  BY LocksShared, StepShelf
<1>3. ShelfInv => StockCovered
  BY DEF ShelfInv
<1>4. QED
  BY <1>1, <1>2, <1>3, AlwaysLedger, PTL DEF Spec
=============================================================================
