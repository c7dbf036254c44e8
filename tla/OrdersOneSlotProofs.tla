------------------------ MODULE OrdersOneSlotProofs -------------------------
(***************************************************************************)
(* What OrdersService guarantees if every master and courier waits for an  *)
(* answer before the next tap, for any number of users and orders. The     *)
(* handlers lock nothing; the argument is that the statuses the two kinds  *)
(* of users may write from do not overlap, so that a request in flight is  *)
(* the only one that can write its order.                                  *)
(***************************************************************************)
EXTENDS OrdersServiceProofs

\* One request in flight per master and per courier; customers are free.
OneSlot == \A s, t \in Slots : s = t

MasterSources == {"draft", "waiting_confirmation", "waiting_master_work_start",
                  "waiting_master_delivery_confirmation", "delivered_by_driver",
                  "received_by_master", "working"}
DriverSources == {"accepted", "received_by_driver"}
CustomerStatuses == {"waiting_customer_confirmation", "completed"}
EarlyStatuses == {"absent", "draft", "waiting_confirmation", "broadcasted"}

\* A busy master or courier starts nothing else.
OneAtATime ==
  /\ \A r \in inflight : r.user \in Staff => r.slot \in Slots
  /\ \A q, r \in inflight : q.user \in Staff /\ q.user = r.user => q = r

\* The row of a pending request for order o is what it has seen.
FreshOf(o) ==
  \A r \in inflight : r.order = o /\ Pending(r) => order[o] = r.seen

\* An order that a customer is confirming leaves its status only by completing.
HeldOf(o) ==
  \A r \in inflight : r.order = o /\ r.op \in {"customerConfirm", "customerCommit"} =>
    order[o].status \in CustomerStatuses

\* Until it is accepted an order has no courier.
NoCourierYet(o) == order[o].status \in EarlyStatuses => order[o].driver = NoDriver

LinkOf(o) == order[o].token # 0 <=> order[o].status = "waiting_customer_confirmation"

\* What is sound about one order, whatever becomes of the others.
OneSlotOf(o) == FreshOf(o) /\ HeldOf(o) /\ NoCourierYet(o) /\ LinkOf(o)

OneSlotInv == OneAtATime /\ \A o \in Orders : OneSlotOf(o)
-----------------------------------------------------------------------------
(* The statuses a request writes from, by the table.                       *)

\* A request is pending if a master's or courier's handler is to write.
LEMMA PendingOps ==
  ASSUME NEW r \in Requests
  PROVE  Pending(r) <=> r.op \in MasterOps \cup DriverOps
BY RequestFields DEF Pending, MasterOps, DriverOps, Ops

\* Masters write from some statuses, couriers from others.
LEMMA SourcesOf ==
  ASSUME NEW r \in Requests, Checked(r)
  PROVE  /\ r.op \in MasterOps => r.seen.status \in MasterSources
         /\ r.op \in DriverOps => r.seen.status \in DriverSources
<1>1. ASSUME r.op \in MasterOps PROVE r.seen.status \in MasterSources
  <2>1. CanTransition(r.seen.status, Target(r))
    BY <1>1 DEF Checked, MasterOps, DriverOps
  <2>2. r.op = "rejectDelivery" => r.seen.status \in MasterSources
    BY DEF Checked, MasterSources
  <2>3. r.op # "rejectDelivery" =>
          Target(r) \in {"waiting_confirmation", "broadcasted", "waiting_master_work_start",
                         "cancelled", "working", "waiting_customer_confirmation"}
    BY <1>1 DEF Target, ConfirmTarget, MasterOps
  <2>4. QED
    BY <2>1, <2>2, <2>3 DEF CanTransition, AllowedTransitions, MasterSources
<1>2. ASSUME r.op \in DriverOps PROVE r.seen.status \in DriverSources
  <2>1. CASE r.op = "driverDelivered"
    BY <2>1 DEF Checked, DriverSources
  <2>2. CASE r.op = "driverFinish"
    <3>1. CanTransition(r.seen.status, "waiting_master_delivery_confirmation")
      BY <2>2 DEF Checked, Target, DriverOps
    <3>2. QED
      BY <3>1 DEF CanTransition, AllowedTransitions, DriverSources
  <2>3. QED
    BY <1>2, <2>1, <2>2 DEF DriverOps
<1>3. QED
  BY <1>1, <1>2

\* Two requests that are about to write one order are one request.
LEMMA Alone ==
  ASSUME TypeOK, CheckedInv, OneAtATime, NEW o \in Orders, FreshOf(o),
         NEW q \in inflight, NEW r \in inflight, Pending(q), Pending(r),
         q.order = o, r.order = o
  PROVE  q = r
<1>1. q \in Requests /\ r \in Requests /\ Checked(q) /\ Checked(r)
  BY DEF TypeOK, CheckedInv
<1>2. q.seen = order[o] /\ r.seen = order[o]
  BY DEF FreshOf
<1>3. /\ q.op \in MasterOps \cup DriverOps
      /\ r.op \in MasterOps \cup DriverOps
  BY <1>1, PendingOps
<1>4. q.op \in MasterOps <=> r.op \in MasterOps
  BY <1>1, <1>2, <1>3, SourcesOf DEF MasterSources, DriverSources, MasterOps, DriverOps
<1>5. q.user = r.user
  BY <1>1, <1>2, <1>3, <1>4 DEF Checked
<1>6. q.user \in Staff
  BY <1>1, <1>3, Constants, RequestFields DEF Checked, Staff
<1>7. QED
  BY <1>5, <1>6 DEF OneAtATime

\* The status an order has while somebody is about to write it.
LEMMA StatusWhilePending ==
  ASSUME TypeOK, CheckedInv, NEW r \in inflight, Pending(r), FreshOf(r.order)
  PROVE  order[r.order].status \in MasterSources \cup DriverSources
<1>1. r \in Requests /\ Checked(r)
  BY DEF TypeOK, CheckedInv
<1>2. QED
  BY <1>1, PendingOps, SourcesOf DEF FreshOf

\* Whoever writes a status was pending.
LEMMA WritersArePending ==
  ASSUME TypeOK, NEW r \in inflight
  PROVE  /\ StatusStep(r) => Pending(r)
         /\ FinishWrite(r) => Pending(r)
<1>1. StatusStep(r) => Pending(r)
  BY DEF StatusStep, MasterOps, DriverOps, Pending
<1>2. FinishWrite(r) => Pending(r)
  BY DEF FinishWrite, Pending
<1>3. QED
  BY <1>1, <1>2

\* A request enters in one of three ways.
LEMMA NewRequest ==
  ASSUME TypeOK, [Next]_vars, NEW r \in inflight', r \notin inflight
  PROVE  \/ ReadStep
         \/ \E d \in Drivers, s \in Slots, o \in Orders :
              DriverAccept(d, s, o) /\ r.op = "driverAccepted" /\ r.user = d /\ r.slot = s
         \/ \E q \in inflight :
              /\ CustomerCheckStock(q)
              /\ r.op = "customerCommit"
              /\ r.user = q.user
              /\ r.order = q.order
<1>1. ASSUME NEW o \in Orders, CreateDraft(o) PROVE FALSE
  BY <1>1 DEF CreateDraft
<1>2. ASSUME NEW d \in Drivers, NEW s \in Slots, NEW o \in Orders, DriverAccept(d, s, o)
      PROVE  r.op = "driverAccepted" /\ r.user = d /\ r.slot = s
  BY <1>2 DEF DriverAccept
<1>3. ASSUME NEW q \in inflight, CustomerCheckStock(q)
      PROVE  r.op = "customerCommit" /\ r.user = q.user /\ r.order = q.order
  <2>1. q \in Requests /\ r = [q EXCEPT !.op = "customerCommit"]
    BY <1>3 DEF CustomerCheckStock, TypeOK
  <2>2. QED
    BY <2>1 DEF Requests
<1>4. ASSUME NEW q \in inflight, StatusStep(q) \/ FinishWrite(q) \/ CustomerCommit(q)
      PROVE  FALSE
  BY <1>4, InflightAfter
<1>5. QuietStep => FALSE
  BY DEF QuietStep
<1>6. QED
  BY <1>1, <1>2, <1>3, <1>4, <1>5, StepKinds
-----------------------------------------------------------------------------
(* The invariant.                                                          *)

\* The row a request is about to write is written by nobody else.
LEMMA RowKept ==
  ASSUME TypeOK, CheckedInv, OneAtATime, [Next]_vars, NEW o \in Orders, OneSlotOf(o),
         NEW r \in inflight, r \in inflight', Pending(r), r.order = o
  PROVE  order'[o] = order[o]
<1>1. order[o].status \in MasterSources \cup DriverSources
  BY StatusWhilePending DEF OneSlotOf
<1>2. ASSUME NEW x \in Orders, CreateDraft(x) PROVE order'[o] = order[o]
  <2>1. x # o
    BY <1>1, <1>2 DEF CreateDraft, MasterSources, DriverSources
  <2>2. QED
    BY <1>2, <2>1, OtherRows
<1>3. ASSUME NEW d \in Drivers, NEW s \in Slots, NEW x \in Orders, DriverAccept(d, s, x)
      PROVE  order'[o] = order[o]
  <2>1. x # o
    BY <1>1, <1>3 DEF DriverAccept, MasterSources, DriverSources
  <2>2. QED
    BY <1>3, <2>1, OtherRows
<1>4. ASSUME NEW q \in inflight, StatusStep(q) \/ FinishWrite(q)
      PROVE  order'[o] = order[o]
  <2>1. r # q
    BY <1>4, InflightAfter
  <2>2. q.order # o
    BY <1>4, <2>1, WritersArePending, Alone DEF OneSlotOf
  <2>3. QED
    BY <1>4, <2>2, OtherRows
<1>5. ASSUME NEW q \in inflight, CustomerCommit(q) PROVE order'[o] = order[o]
  <2>1. q.order = o => order[o].status \in CustomerStatuses
    BY <1>5 DEF OneSlotOf, HeldOf, CustomerCommit
  <2>2. q.order # o
    BY <1>1, <2>1 DEF CustomerStatuses, MasterSources, DriverSources
  <2>3. QED
    BY <1>5, <2>2, OtherRows
<1>6. ReadStep \/ QuietStep \/ (\E q \in inflight : CustomerCheckStock(q)) => order' = order
  BY DEF ReadStep, Start, QuietStep, CustomerCheckStock
<1>7. QED
  BY <1>2, <1>3, <1>4, <1>5, <1>6, StepKinds

LEMMA StepFresh ==
  ASSUME TypeOK, CheckedInv, OneAtATime, [Next]_vars, NEW o \in Orders, OneSlotOf(o)
  PROVE  FreshOf(o)'
<1>1. SUFFICES ASSUME NEW r \in inflight', Pending(r), r.order = o
               PROVE  order'[o] = r.seen
  BY DEF FreshOf, Pending
<1>. USE <1>1
<1>2. CASE r \in inflight
  BY <1>2, RowKept DEF OneSlotOf, FreshOf
<1>3. CASE r \notin inflight
  <2>1. ReadStep => order'[o] = r.seen
    BY <1>3 DEF ReadStep, Start
  <2>2. r.op = "driverAccepted" \/ r.op = "customerCommit" => FALSE
    BY DEF Pending
  <2>3. QED
    BY <1>3, <2>1, <2>2, NewRequest
<1>4. QED
  BY <1>2, <1>3

\* Only a free user starts a request, and one slot makes it his only one.
LEMMA StepOneAtATime ==
  ASSUME OneSlot
  PROVE  TypeOK /\ CheckedInv /\ OneAtATime /\ [Next]_vars => OneAtATime'
<1>1. SUFFICES ASSUME TypeOK, CheckedInv, OneAtATime, [Next]_vars PROVE OneAtATime'
  OBVIOUS
<1>. USE <1>1
\* A request that enters comes from a free slot, and there is only one.
<1>2. ASSUME NEW r \in inflight', r \notin inflight, r.user \in Staff
      PROVE  /\ r.slot \in Slots
             /\ \A q \in inflight : q.user # r.user
             /\ \A q \in inflight' : q \in inflight \/ q = r
  <2>1. CASE ReadStep
    <3>1. PICK u \in Staff \cup {Customer}, s \in Slots \cup CustomerSlots,
               op \in Ops, o \in Orders :
             Start(u, s, op, o) /\ (u \in Staff => s \in Slots)
      BY <2>1 DEF ReadStep
    <3>2. /\ r.user = u
          /\ r.slot = s
          /\ \A q \in inflight' : q \in inflight \/ q = r
      BY <1>2, <3>1 DEF Start
    <3>3. \A q \in inflight : <<q.user, q.slot>> # <<u, s>>
      BY <3>1 DEF Start, Free
    <3>4. QED
      BY <1>2, <3>1, <3>2, <3>3 DEF OneSlot, OneAtATime
  <2>2. ASSUME NEW d \in Drivers, NEW s \in Slots, NEW o \in Orders, DriverAccept(d, s, o),
               r.user = d, r.slot = s
        PROVE  /\ r.slot \in Slots
               /\ \A q \in inflight : q.user # r.user
               /\ \A q \in inflight' : q \in inflight \/ q = r
    <3>1. \A q \in inflight : <<q.user, q.slot>> # <<d, s>>
      BY <2>2 DEF DriverAccept, Free
    <3>2. \A q \in inflight' : q \in inflight \/ q = r
      BY <1>2, <2>2 DEF DriverAccept
    <3>3. QED
      BY <1>2, <2>2, <3>1, <3>2 DEF OneSlot, OneAtATime
  <2>3. ASSUME NEW q \in inflight, CustomerCheckStock(q), r.user = q.user PROVE FALSE
    <3>1. q.user = Customer
      BY <2>3 DEF CustomerCheckStock, CheckedInv, Checked
    <3>2. QED
      BY <1>2, <2>3, <3>1, Constants
  <2>4. QED
    BY <1>2, <2>1, <2>2, <2>3, NewRequest
<1>3. ASSUME NEW r \in inflight', r.user \in Staff PROVE r.slot \in Slots
  BY <1>2, <1>3 DEF OneAtATime
<1>4. ASSUME NEW q \in inflight', NEW r \in inflight', q.user \in Staff, q.user = r.user
      PROVE  q = r
  <2>1. CASE q \in inflight /\ r \in inflight
    BY <1>4, <2>1 DEF OneAtATime
  <2>2. CASE q \notin inflight
    BY <1>2, <1>4, <2>2
  <2>3. CASE r \notin inflight
    BY <1>2, <1>4, <2>3
  <2>4. QED
    BY <2>1, <2>2, <2>3
<1>5. QED
  BY <1>3, <1>4 DEF OneAtATime

\* Nobody but the customer moves an order he is confirming.
LEMMA StepHeld ==
  ASSUME TypeOK, CheckedInv, OneAtATime, [Next]_vars, NEW o \in Orders, OneSlotOf(o)
  PROVE  HeldOf(o)'
<1>1. SUFFICES ASSUME NEW r \in inflight', r.order = o,
                      r.op \in {"customerConfirm", "customerCommit"}
               PROVE  order'[o].status \in CustomerStatuses
  BY DEF HeldOf
<1>. USE <1>1
<1>2. order[o].status \in CustomerStatuses
  <2>1. CASE r \in inflight
    BY <2>1 DEF OneSlotOf, HeldOf
  <2>2. CASE r \notin inflight
    <3>1. ReadStep => order[o].status \in CustomerStatuses
      BY <2>2 DEF ReadStep, Start, Checked, CustomerStatuses
    <3>2. ASSUME NEW q \in inflight, CustomerCheckStock(q), r.order = q.order
          PROVE  order[o].status \in CustomerStatuses
      BY <3>2 DEF CustomerCheckStock, OneSlotOf, HeldOf
    <3>3. QED
      BY <2>2, <3>1, <3>2, NewRequest
  <2>3. QED
    BY <2>1, <2>2
<1>3. ASSUME NEW x \in Orders, CreateDraft(x)
      PROVE  order'[o].status \in CustomerStatuses
  <2>1. x # o
    BY <1>2, <1>3 DEF CreateDraft, CustomerStatuses
  <2>2. QED
    BY <1>2, <1>3, <2>1, ColumnsAfter
<1>4. ASSUME NEW d \in Drivers, NEW s \in Slots, NEW x \in Orders, DriverAccept(d, s, x)
      PROVE  order'[o].status \in CustomerStatuses
  <2>1. x # o
    BY <1>2, <1>4 DEF DriverAccept, CustomerStatuses
  <2>2. QED
    BY <1>2, <1>4, <2>1, ColumnsAfter
<1>5. ASSUME NEW q \in inflight, StatusStep(q) \/ FinishWrite(q)
      PROVE  order'[o].status \in CustomerStatuses
  <2>1. q.order = o => order[o].status \in MasterSources \cup DriverSources
    BY <1>5, WritersArePending, StatusWhilePending DEF OneSlotOf
  <2>2. q.order # o
    BY <1>2, <2>1 DEF CustomerStatuses, MasterSources, DriverSources
  <2>3. QED
    BY <1>2, <1>5, <2>2, ColumnsAfter
<1>6. ASSUME NEW q \in inflight, CustomerCommit(q)
      PROVE  order'[o].status \in CustomerStatuses
  BY <1>2, <1>6, ColumnsAfter DEF CustomerStatuses
<1>7. ReadStep \/ QuietStep \/ (\E q \in inflight : CustomerCheckStock(q)) => order' = order
  BY DEF ReadStep, Start, QuietStep, CustomerCheckStock
<1>8. QED
  BY <1>2, <1>3, <1>4, <1>5, <1>6, <1>7, StepKinds

\* What a pending request may make of the row it has seen.
LEMMA TargetOf ==
  ASSUME NEW r \in Requests, Checked(r), Pending(r)
  PROVE  /\ Target(r) \in EarlyStatuses => r.seen.status \in EarlyStatuses
         /\ r.op # "finish" => Target(r) # "waiting_customer_confirmation"
<1>1. r.op \in MasterOps \cup DriverOps
  BY PendingOps
<1>2. ASSUME Target(r) \in EarlyStatuses PROVE r.seen.status \in EarlyStatuses
  <2>1. Target(r) \in {"waiting_confirmation", "broadcasted"}
    BY <1>1, <1>2 DEF Target, ConfirmTarget, EarlyStatuses, MasterOps, DriverOps
  <2>2. r.op # "driverDelivered"
    BY <2>1 DEF Target
  <2>3. CanTransition(r.seen.status, Target(r))
    BY <1>1, <2>2 DEF Checked
  <2>4. QED
    BY <2>1, <2>3 DEF CanTransition, AllowedTransitions, EarlyStatuses
<1>3. r.op # "finish" => Target(r) # "waiting_customer_confirmation"
  BY <1>1 DEF Target, ConfirmTarget, MasterOps, DriverOps
<1>4. QED
  BY <1>2, <1>3

\* A courier enters a row by accepting it, and the order never goes back
\* to a status before that.
LEMMA StepNoCourierYet ==
  ASSUME TypeOK, CheckedInv, OneAtATime, [Next]_vars, NEW o \in Orders, OneSlotOf(o)
  PROVE  NoCourierYet(o)'
<1>1. SUFFICES ASSUME order'[o].status \in EarlyStatuses
               PROVE  order'[o].driver = NoDriver
  BY DEF NoCourierYet
<1>. USE <1>1
<1>2. ASSUME NEW x \in Orders, CreateDraft(x) PROVE order'[o].driver = NoDriver
  BY <1>2, ColumnsAfter DEF CreateDraft, OneSlotOf, NoCourierYet, EarlyStatuses
<1>3. ASSUME NEW d \in Drivers, NEW s \in Slots, NEW x \in Orders, DriverAccept(d, s, x)
      PROVE  order'[o].driver = NoDriver
  <2>1. o # x
    BY <1>3, ColumnsAfter DEF EarlyStatuses
  <2>2. QED
    BY <1>3, <2>1, ColumnsAfter DEF OneSlotOf, NoCourierYet
<1>4. ASSUME NEW q \in inflight, StatusStep(q) PROVE order'[o].driver = NoDriver
  <2>1. q \in Requests /\ Checked(q) /\ Pending(q)
    BY <1>4, WritersArePending DEF TypeOK, CheckedInv
  <2>2. o = q.order => order[o].status \in EarlyStatuses
    BY <1>4, <2>1, ColumnsAfter, TargetOf DEF OneSlotOf, FreshOf
  <2>3. o # q.order => order[o].status \in EarlyStatuses
    BY <1>4, ColumnsAfter
  <2>4. QED
    BY <1>4, <2>2, <2>3, ColumnsAfter DEF OneSlotOf, NoCourierYet
<1>5. ASSUME NEW q \in inflight, FinishWrite(q) \/ CustomerCommit(q)
      PROVE  order'[o].driver = NoDriver
  <2>1. o # q.order
    BY <1>5, ColumnsAfter DEF EarlyStatuses
  <2>2. QED
    BY <1>5, <2>1, ColumnsAfter DEF OneSlotOf, NoCourierYet
<1>6. ReadStep \/ QuietStep \/ (\E q \in inflight : CustomerCheckStock(q)) => order' = order
  BY DEF ReadStep, Start, QuietStep, CustomerCheckStock
<1>7. QED
  BY <1>2, <1>3, <1>4, <1>5, <1>6, StepKinds DEF OneSlotOf, NoCourierYet

\* finish() sets the token with the status, customerConfirm clears it with
\* the status, and no other write enters or leaves that status.
LEMMA StepLink ==
  ASSUME TypeOK, CheckedInv, OneAtATime, [Next]_vars, NEW o \in Orders, OneSlotOf(o)
  PROVE  LinkOf(o)'
<1>1. SUFFICES order'[o].token # 0 <=> order'[o].status = "waiting_customer_confirmation"
  BY DEF LinkOf
<1>. DEFINE Live == order[o].token # 0
                      <=> order[o].status = "waiting_customer_confirmation"
            LiveNext == order'[o].token # 0
                      <=> order'[o].status = "waiting_customer_confirmation"
<1>2. Live
  BY DEF OneSlotOf, LinkOf
<1>3. ASSUME NEW x \in Orders, CreateDraft(x) PROVE LiveNext
  BY <1>2, <1>3, ColumnsAfter DEF CreateDraft
<1>4. ASSUME NEW d \in Drivers, NEW s \in Slots, NEW x \in Orders, DriverAccept(d, s, x)
      PROVE  LiveNext
  <2>1. order[x].status = "broadcasted"
    BY <1>4 DEF DriverAccept
  <2>2. QED
    BY <1>2, <1>4, <2>1, ColumnsAfter
<1>5. ASSUME NEW q \in inflight, StatusStep(q) PROVE LiveNext
  <2>1. q \in Requests /\ Checked(q) /\ Pending(q)
    BY <1>5, WritersArePending DEF TypeOK, CheckedInv
  <2>2. q.order = o => order[o].status # "waiting_customer_confirmation"
    BY <2>1, StatusWhilePending DEF OneSlotOf, MasterSources, DriverSources
  <2>3. Target(q) # "waiting_customer_confirmation"
    BY <1>5, <2>1, TargetOf DEF StatusStep
  <2>4. CASE o = q.order
    BY <1>2, <1>5, <2>2, <2>3, <2>4, ColumnsAfter
  <2>5. CASE o # q.order
    BY <1>2, <1>5, <2>5, OtherRows
  <2>6. QED
    BY <2>4, <2>5
<1>6. ASSUME NEW q \in inflight, FinishWrite(q) PROVE LiveNext
  <2>1. issued + 1 # 0
    BY DEF TypeOK
  <2>2. QED
    BY <1>2, <1>6, <2>1, ColumnsAfter
<1>7. ASSUME NEW q \in inflight, CustomerCommit(q) PROVE LiveNext
  BY <1>2, <1>7, ColumnsAfter
<1>8. ReadStep \/ QuietStep \/ (\E q \in inflight : CustomerCheckStock(q)) => order' = order
  BY DEF ReadStep, Start, QuietStep, CustomerCheckStock
<1>9. QED
  BY <1>2, <1>3, <1>4, <1>5, <1>6, <1>7, <1>8, StepKinds

\* An order keeps what is sound about it.
LEMMA StepOneSlotOf ==
  ASSUME TypeOK, CheckedInv, OneAtATime, [Next]_vars, NEW o \in Orders, OneSlotOf(o)
  PROVE  OneSlotOf(o)'
BY StepFresh, StepHeld, StepNoCourierYet, StepLink DEF OneSlotOf

\* Nothing is in flight at the start.
LEMMA InitOneSlot == Init => OneSlotInv
BY DEF Init, OneSlotInv, OneAtATime, OneSlotOf, FreshOf, HeldOf, NoCourierYet, LinkOf

\* The inductive invariant, for the theorems below.
LEMMA AlwaysOneSlot ==
  ASSUME OneSlot
  PROVE  Spec => [](TypeOK /\ CheckedInv /\ OneSlotInv)
<1>1. Init => OneSlotInv
  BY InitOneSlot
<1>2. TypeOK /\ CheckedInv /\ OneSlotInv /\ [Next]_vars => OneSlotInv'
  BY OneSlot, StepOneAtATime, StepOneSlotOf DEF OneSlotInv
<1>3. QED
  BY <1>1, <1>2, AlwaysChecked, PTL DEF Spec
-----------------------------------------------------------------------------
(* The theorems.                                                           *)

\* The row a handler writes is still the row it has checked, although it
\* neither locks it nor looks again.
THEOREM ChecksStayFresh ==
  ASSUME OneSlot
  PROVE  Spec => []NoStaleWrite
<1>1. TypeOK /\ CheckedInv /\ OneSlotInv => NoStaleWrite
  BY RequestFields DEF TypeOK, OneSlotInv, OneSlotOf, FreshOf, NoStaleWrite
<1>2. QED
  BY OneSlot, <1>1, AlwaysOneSlot, PTL

\* A link is live exactly while its order waits for the customer.
THEOREM LinksLiveWhileWaiting ==
  ASSUME OneSlot
  PROVE  Spec => []LinkWhileWaiting
<1>1. TypeOK /\ CheckedInv /\ OneSlotInv => LinkWhileWaiting
  BY DEF OneSlotInv, OneSlotOf, LinkOf, LinkWhileWaiting
<1>2. QED
  BY OneSlot, <1>1, AlwaysOneSlot, PTL

\* Nobody accepts an order that has a courier.
LEMMA StepKeepsCourier ==
  ASSUME TypeOK, [Next]_vars, NEW o \in Orders, NoCourierYet(o), order[o].driver # NoDriver
  PROVE  order'[o].driver = order[o].driver
<1>1. ASSUME NEW d \in Drivers, NEW s \in Slots, NEW x \in Orders, DriverAccept(d, s, x)
      PROVE  order'[o].driver = order[o].driver
  <2>1. order[x].status = "broadcasted"
    BY <1>1 DEF DriverAccept
  <2>2. x # o
    BY <2>1 DEF NoCourierYet, EarlyStatuses
  <2>3. QED
    BY <1>1, <2>2, OtherRows
<1>2. ASSUME NEW x \in Orders, CreateDraft(x) PROVE order'[o].driver = order[o].driver
  BY <1>2, ColumnsAfter
<1>3. ASSUME NEW q \in inflight, StatusStep(q) \/ FinishWrite(q) \/ CustomerCommit(q)
      PROVE  order'[o].driver = order[o].driver
  BY <1>3, ColumnsAfter
<1>4. ReadStep \/ QuietStep \/ (\E q \in inflight : CustomerCheckStock(q)) => order' = order
  BY DEF ReadStep, Start, QuietStep, CustomerCheckStock
<1>5. QED
  BY <1>1, <1>2, <1>3, <1>4, StepKinds

\* One courier gets the order and it stays his: the overlap of two taps is
\* the only way to a second courier.
THEOREM OneSlotOneCourier ==
  ASSUME OneSlot
  PROVE  Spec => OneCourier
<1>1. TypeOK /\ CheckedInv /\ OneSlotInv /\ [Next]_vars =>
        [\A o \in Orders :
           order[o].driver # NoDriver => order'[o].driver = order[o].driver]_vars
  BY StepKeepsCourier DEF OneSlotInv, OneSlotOf
<1>2. QED
  BY OneSlot, <1>1, AlwaysOneSlot, PTL DEF Spec, OneCourier

\* Nobody writes a completed order.
LEMMA StepKeepsCompleted ==
  TypeOK /\ CheckedInv /\ OneSlotInv /\ [Next]_vars =>
    \A o \in Orders : order[o].status = "completed" => order'[o].status = "completed"
<1>1. SUFFICES ASSUME TypeOK, CheckedInv, OneSlotInv, [Next]_vars,
                      NEW o \in Orders, order[o].status = "completed"
               PROVE  order'[o].status = "completed"
  OBVIOUS
<1>. USE <1>1
<1>2. ASSUME NEW d \in Drivers, NEW s \in Slots, NEW x \in Orders, DriverAccept(d, s, x)
      PROVE  order'[o].status = "completed"
  <2>1. x # o
    BY <1>2 DEF DriverAccept
  <2>2. QED
    BY <1>2, <2>1, OtherRows
<1>3. ASSUME NEW x \in Orders, CreateDraft(x) PROVE order'[o].status = "completed"
  <2>1. x # o
    BY <1>3 DEF CreateDraft
  <2>2. QED
    BY <1>3, <2>1, OtherRows
<1>4. ASSUME NEW q \in inflight, StatusStep(q) \/ FinishWrite(q)
      PROVE  order'[o].status = "completed"
  <2>1. q.order # o
    BY <1>4, WritersArePending, StatusWhilePending
       DEF OneSlotInv, OneSlotOf, MasterSources, DriverSources
  <2>2. QED
    BY <1>4, <2>1, OtherRows
<1>5. ASSUME NEW q \in inflight, CustomerCommit(q) PROVE order'[o].status = "completed"
  BY <1>5, ColumnsAfter
<1>6. ReadStep \/ QuietStep \/ (\E q \in inflight : CustomerCheckStock(q)) => order' = order
  BY DEF ReadStep, Start, QuietStep, CustomerCheckStock
<1>7. QED
  BY <1>2, <1>3, <1>4, <1>5, <1>6, StepKinds

\* Nothing follows `completed', as the status table has it.
THEOREM OneSlotCompletedIsFinal ==
  ASSUME OneSlot
  PROVE  Spec => CompletedIsFinal
<1>1. TypeOK /\ CheckedInv /\ OneSlotInv /\ [Next]_vars =>
        [\A o \in Orders :
           order[o].status = "completed" => order'[o].status = "completed"]_vars
  BY StepKeepsCompleted
<1>2. QED
  BY OneSlot, <1>1, AlwaysOneSlot, PTL DEF Spec, CompletedIsFinal
-----------------------------------------------------------------------------
(* The service implements OrderFlow.                                       *)

\* An order stands still or takes a step that OrderFlow has.
Walks(o) ==
  LET MovesTo(s) == order'[o].status = s /\ order'[o].driver = order[o].driver IN
  \/ MovesTo(order[o].status)
  \/ order[o].status = "absent" /\ MovesTo("draft")
  \/ \E s \in OrderStatus :
       /\ CanTransition(order[o].status, s)
       /\ order[o].status # "broadcasted"
       /\ s = "broadcasted" => Dto[o].delivery
       /\ MovesTo(s)
  \/ /\ order[o].status = "broadcasted"
     /\ order[o].driver = NoDriver
     /\ order'[o].status = "received_by_driver"
     /\ order'[o].driver \in Drivers
  \/ /\ order[o].status = "received_by_driver"
     /\ order[o].driver # NoDriver
     /\ MovesTo("delivered_by_driver")

\* A sound order walks, whatever becomes of the others.
LEMMA StepWalks ==
  ASSUME TypeOK, CheckedInv, [Next]_vars, NEW o \in Orders, OneSlotOf(o)
  PROVE  Walks(o)
<1>. DEFINE Still == order'[o].status = order[o].status /\ order'[o].driver = order[o].driver
<1>1. Still => Walks(o)
  BY DEF Walks
<1>2. ASSUME NEW x \in Orders, CreateDraft(x) PROVE Walks(o)
  <2>1. order[x].status = "absent"
    BY <1>2 DEF CreateDraft
  <2>2. QED
    BY <1>2, <2>1, ColumnsAfter DEF Walks
<1>3. ASSUME NEW d \in Drivers, NEW s \in Slots, NEW x \in Orders, DriverAccept(d, s, x)
      PROVE  Walks(o)
  <2>1. order[x].status = "broadcasted"
    BY <1>3 DEF DriverAccept
  <2>2. x = o => order[o].driver = NoDriver
    BY <2>1 DEF OneSlotOf, NoCourierYet, EarlyStatuses
  <2>3. QED
    BY <1>3, <2>1, <2>2, ColumnsAfter DEF Walks
<1>4. ASSUME NEW r \in inflight, StatusStep(r) \/ FinishWrite(r), r.order = o PROVE Walks(o)
  <2>1. /\ r \in Requests /\ Checked(r)
        /\ order[o] = r.seen
        /\ r.op \in MasterOps \cup DriverOps
    BY <1>4, WritersArePending, PendingOps DEF TypeOK, CheckedInv, OneSlotOf, FreshOf
  <2>2. order'[o].status = Target(r) /\ order'[o].driver = order[o].driver
    <3>1. FinishWrite(r) => Target(r) = "waiting_customer_confirmation"
      BY DEF FinishWrite, Target
    <3>2. QED
      BY <1>4, <3>1, ColumnsAfter
  <2>3. CASE r.op = "driverDelivered" /\ r.seen.status = "received_by_driver"
    <3>1. Target(r) = "delivered_by_driver"
      BY <2>3 DEF Target
    <3>2. order[o].driver # NoDriver
      BY <2>1, <2>3, Constants DEF Checked, DriverOps
    <3>3. QED
      BY <2>1, <2>2, <2>3, <3>1, <3>2 DEF Walks
  <2>4. CASE ~(r.op = "driverDelivered" /\ r.seen.status = "received_by_driver")
    <3>1. CanTransition(r.seen.status, Target(r))
      <4>1. CASE r.op = "driverDelivered"
        BY <2>1, <2>4, <4>1 DEF Checked, Target, CanTransition, AllowedTransitions
      <4>2. CASE r.op # "driverDelivered"
        BY <2>1, <4>2 DEF Checked
      <4>3. QED
        BY <4>1, <4>2
    <3>2. Target(r) \in OrderStatus
      BY <2>1 DEF Target, ConfirmTarget, OrderStatus, MasterOps, DriverOps
    <3>3. r.seen.status # "broadcasted"
      BY <2>1, SourcesOf DEF MasterSources, DriverSources
    <3>4. Target(r) = "broadcasted" => Dto[o].delivery
      BY <1>4, <2>1 DEF Target, ConfirmTarget, MasterOps, DriverOps
    <3>5. QED
      BY <2>1, <2>2, <3>1, <3>2, <3>3, <3>4 DEF Walks
  <2>5. QED
    BY <2>3, <2>4
<1>5. ASSUME NEW r \in inflight, CustomerCommit(r), r.order = o PROVE Walks(o)
  <2>1. order[o].status \in CustomerStatuses
    BY <1>5 DEF OneSlotOf, HeldOf, CustomerCommit
  <2>2. order'[o].status = "completed" /\ order'[o].driver = order[o].driver
    BY <1>5, ColumnsAfter
  <2>3. CanTransition("waiting_customer_confirmation", "completed") /\ "completed" \in OrderStatus
    BY DEF CanTransition, AllowedTransitions, OrderStatus
  <2>4. QED
    BY <2>1, <2>2, <2>3 DEF Walks, CustomerStatuses
<1>6. ASSUME NEW r \in inflight, StatusStep(r) \/ FinishWrite(r) \/ CustomerCommit(r),
             r.order # o
      PROVE  Still
  BY <1>6, ColumnsAfter
<1>7. ReadStep \/ QuietStep \/ (\E r \in inflight : CustomerCheckStock(r)) => order' = order
  BY DEF ReadStep, Start, QuietStep, CustomerCheckStock
<1>8. QED
  BY <1>1, <1>2, <1>3, <1>4, <1>5, <1>6, <1>7, StepKinds

\* A step writes the row of one order.
LEMMA OneRowWritten ==
  ASSUME TypeOK, [Next]_vars, order' # order
  PROVE  \E o \in Orders : \A x \in Orders : x # o => order'[x] = order[x]
<1>1. ASSUME NEW o \in Orders, CreateDraft(o)
      PROVE  \A x \in Orders : x # o => order'[x] = order[x]
  BY <1>1, OtherRows
<1>2. ASSUME NEW d \in Drivers, NEW s \in Slots, NEW o \in Orders, DriverAccept(d, s, o)
      PROVE  \A x \in Orders : x # o => order'[x] = order[x]
  BY <1>2, OtherRows
<1>3. ASSUME NEW r \in inflight, StatusStep(r) \/ FinishWrite(r) \/ CustomerCommit(r)
      PROVE  r.order \in Orders /\ \A x \in Orders : x # r.order => order'[x] = order[x]
  BY <1>3, OtherRows, RequestFields DEF TypeOK
<1>4. ReadStep \/ QuietStep \/ (\E r \in inflight : CustomerCheckStock(r)) => order' = order
  BY DEF ReadStep, Start, QuietStep, CustomerCheckStock
<1>5. QED
  BY <1>1, <1>2, <1>3, <1>4, StepKinds

\* The mapped variables, after a write to order o.
LEMMA MappedWrite ==
  ASSUME NEW o \in Orders, \A x \in Orders : x # o => order'[x] = order[x]
  PROVE  /\ [x \in Orders |-> order'[x].status] =
              [[x \in Orders |-> order[x].status] EXCEPT ![o] = order'[o].status]
         /\ [x \in Orders |-> order'[x].driver] =
              [[x \in Orders |-> order[x].driver] EXCEPT ![o] = order'[o].driver]
OBVIOUS

\* One step of the service is a step of OrderFlow or a stutter.
LEMMA StepFlows ==
  TypeOK /\ CheckedInv /\ OneSlotInv /\ [Next]_vars => [Flow!Next]_Flow!vars
<1>1. SUFFICES ASSUME TypeOK, CheckedInv, OneSlotInv, [Next]_vars, order' # order
               PROVE  [Flow!Next]_Flow!vars
  BY DEF Flow!vars
<1>. USE <1>1
<1>2. PICK o \in Orders : \A x \in Orders : x # o => order'[x] = order[x]
  BY OneRowWritten
<1>3. Walks(o)
  BY StepWalks DEF OneSlotInv
<1>. DEFINE status == [x \in Orders |-> order[x].status]
            driver == [x \in Orders |-> order[x].driver]
<1>4. /\ status' = [status EXCEPT ![o] = order'[o].status]
      /\ driver' = [driver EXCEPT ![o] = order'[o].driver]
      /\ order'[o].status = order[o].status => status' = status
      /\ order'[o].driver = order[o].driver => driver' = driver
      /\ status[o] = order[o].status /\ driver[o] = order[o].driver
  BY <1>2, MappedWrite
<1>5. CASE order'[o].status = order[o].status /\ order'[o].driver = order[o].driver
  BY <1>4, <1>5 DEF Flow!vars
<1>6. CASE /\ order[o].status = "absent"
           /\ order'[o].status = "draft"
           /\ order'[o].driver = order[o].driver
  BY <1>4, <1>6 DEF Flow!Next, Flow!Create
<1>7. ASSUME NEW s \in OrderStatus, CanTransition(order[o].status, s),
             order[o].status # "broadcasted", s = "broadcasted" => Dto[o].delivery,
             order'[o].status = s, order'[o].driver = order[o].driver
      PROVE  Flow!Next
  <2>1. Flow!OrderStatus = OrderStatus
    BY DEF Flow!OrderStatus, OrderStatus
  <2>2. Flow!CanTransition(order[o].status, s)
    BY <1>7 DEF Flow!CanTransition, Flow!AllowedTransitions, CanTransition, AllowedTransitions
  <2>3. Flow!Advance(o, s)
    BY <1>4, <1>7, <2>2 DEF Flow!Advance
  <2>4. QED
    BY <2>1, <2>3 DEF Flow!Next
<1>8. ASSUME NEW d \in Drivers, order[o].status = "broadcasted",
             order[o].driver = NoDriver, order'[o].status = "received_by_driver",
             order'[o].driver = d
      PROVE  Flow!Next
  <2>1. Flow!Accept(o, d)
    BY <1>4, <1>8 DEF Flow!Accept
  <2>2. QED
    BY <2>1 DEF Flow!Next
<1>9. CASE /\ order[o].status = "received_by_driver"
           /\ order[o].driver # NoDriver
           /\ order'[o].status = "delivered_by_driver"
           /\ order'[o].driver = order[o].driver
  BY <1>4, <1>9 DEF Flow!Next, Flow!Report
<1>10. QED
  BY <1>3, <1>5, <1>6, <1>7, <1>8, <1>9 DEF Walks

\* The service walks every order through its life as OrderFlow promises.
THEOREM OneSlotImplementsFlow ==
  ASSUME OneSlot
  PROVE  Spec => FlowSpec
<1>1. Init => Flow!Init
  BY DEF Init, Flow!Init
<1>2. TypeOK /\ CheckedInv /\ OneSlotInv /\ [Next]_vars => [Flow!Next]_Flow!vars
  BY StepFlows
<1>3. QED
  BY OneSlot, <1>1, <1>2, AlwaysOneSlot, PTL DEF Spec, FlowSpec, Flow!Spec
-----------------------------------------------------------------------------
(* A delivery fee is earned.                                               *)

ArrivedStatuses == {"waiting_master_delivery_confirmation", "delivered_by_driver"}

\* Order o's courier has reported that he is there.
Reported(o) ==
  \/ Event(o, order[o].driver, "driver_finished")
  \/ Event(o, order[o].driver, "driver_delivered")

\* An order whose courier has arrived has his report on the audit log.
EarnedInv ==
  /\ DeliveryFeeEarned
  /\ \A o \in Orders : order[o].status \in ArrivedStatuses => Reported(o)

\* The audit log only grows.
LEMMA EventsGrow ==
  ASSUME [Next]_vars
  PROVE  events \subseteq events'
<1>1. ASSUME NEW u \in Masters, NEW s \in Slots, NEW o \in Orders, MasterReads(u, s, o)
      PROVE  events' = events
  BY <1>1 DEF MasterReads, SetLocation, Confirm, CancelOrder, ConfirmDelivery,
              RejectDelivery, Receive, MasterStartWork, Finish, Start
<1>2. ASSUME NEW d \in Drivers, NEW s \in Slots, NEW o \in Orders,
             DriverReads(d, s, o) \/ DriverAccept(d, s, o)
      PROVE  events' = events
  BY <1>2 DEF DriverReads, DriverFinish, DriverDelivered, DriverAccept, Start
<1>3. ASSUME NEW s \in CustomerSlots, NEW o \in Orders, CustomerConfirm(s, o)
      PROVE  events' = events
  BY <1>3 DEF CustomerConfirm, Start
<1>4. ASSUME NEW o \in Orders, CreateDraft(o) \/ BroadcastOrder(o)
      PROVE  events \subseteq events'
  BY <1>4 DEF CreateDraft, BroadcastOrder
<1>5. ASSUME NEW r \in inflight, Writes(r) PROVE events \subseteq events'
  BY <1>5 DEF Writes, WriteStatus, Log, SetLocationWrite, ConfirmWrite, CancelOrderWrite,
              DriverAcceptEvent, DriverFinishWrite, DriverDeliveredWrite,
              ConfirmDeliveryWrite, RejectDeliveryWrite, ReceiveWrite, MasterStartWorkWrite,
              FinishWrite, CustomerCheckStock, CustomerCommit, RequestFails
<1>6. Crash \/ UNCHANGED vars => events' = events
  BY DEF Crash, vars
<1>7. QED
  BY <1>1, <1>2, <1>3, <1>4, <1>5, <1>6 DEF Next

\* Only the courier's handlers bring an order to a status of arrival.
LEMMA Arrival ==
  ASSUME TypeOK, [Next]_vars, NEW o \in Orders, order'[o].status \in ArrivedStatuses
  PROVE  \/ order[o].status \in ArrivedStatuses /\ order'[o].driver = order[o].driver
         \/ \E r \in inflight :
              r.order = o /\ (DriverFinishWrite(r) \/ DriverDeliveredWrite(r))
<1>. DEFINE Stays == order[o].status \in ArrivedStatuses /\ order'[o].driver = order[o].driver
            Reports(r) == r.order = o /\ (DriverFinishWrite(r) \/ DriverDeliveredWrite(r))
<1>1. order' = order => Stays
  OBVIOUS
<1>2. ASSUME NEW u \in Masters, NEW s \in Slots, NEW x \in Orders, MasterReads(u, s, x)
      PROVE  order' = order
  BY <1>2 DEF MasterReads, SetLocation, Confirm, CancelOrder, ConfirmDelivery,
              RejectDelivery, Receive, MasterStartWork, Finish, Start
<1>3. ASSUME NEW d \in Drivers, NEW s \in Slots, NEW x \in Orders, DriverReads(d, s, x)
      PROVE  order' = order
  BY <1>3 DEF DriverReads, DriverFinish, DriverDelivered, Start
<1>4. ASSUME NEW d \in Drivers, NEW s \in Slots, NEW x \in Orders, DriverAccept(d, s, x)
      PROVE  Stays
  BY <1>4, ColumnsAfter DEF ArrivedStatuses
<1>5. ASSUME NEW s \in CustomerSlots, NEW x \in Orders, CustomerConfirm(s, x)
      PROVE  order' = order
  BY <1>5 DEF CustomerConfirm, Start
<1>6. ASSUME NEW x \in Orders, CreateDraft(x) PROVE Stays
  BY <1>6, ColumnsAfter DEF ArrivedStatuses
<1>7. ASSUME NEW r \in inflight, Writes(r) PROVE Stays \/ Reports(r)
  <2>1. ASSUME NEW op, NEW s \in OrderStatus, NEW e \in EventTypes, WriteStatus(r, op, s, e)
        PROVE  Stays \/ (r.order = o /\ s \in ArrivedStatuses)
    <3>1. order'[o] = IF o = r.order THEN [order[o] EXCEPT !.status = s] ELSE order[o]
      BY <2>1, WriteStatusRows
    <3>2. order[o] \in Row
      BY DEF TypeOK
    <3>3. QED
      BY <3>1, <3>2 DEF Row
  <2>2. CASE DriverFinishWrite(r) \/ DriverDeliveredWrite(r)
    <3>1. \/ WriteStatus(r, "driverFinish", "waiting_master_delivery_confirmation",
                         "driver_finished")
          \/ WriteStatus(r, "driverDelivered", "delivered_by_driver", "driver_delivered")
      BY <2>2 DEF DriverFinishWrite, DriverDeliveredWrite
    <3>2. QED
      BY <2>1, <2>2, <3>1 DEF OrderStatus, EventTypes
  <2>3. CASE SetLocationWrite(r)
    <3>1. WriteStatus(r, "setLocation", "waiting_confirmation", "location_submitted")
      BY <2>3 DEF SetLocationWrite
    <3>2. QED
      BY <2>1, <3>1 DEF OrderStatus, EventTypes, ArrivedStatuses
  <2>4. CASE ConfirmWrite(r)
    <3>1. WriteStatus(r, "confirm", ConfirmTarget(r.order), "master_confirmed")
      BY <2>4 DEF ConfirmWrite
    <3>2. ConfirmTarget(r.order) \in OrderStatus \ ArrivedStatuses
      BY DEF ConfirmTarget, OrderStatus, ArrivedStatuses
    <3>3. "master_confirmed" \in EventTypes
      BY DEF EventTypes
    <3>4. QED
      BY <2>1, <3>1, <3>2, <3>3
  <2>5. CASE CancelOrderWrite(r)
    <3>1. WriteStatus(r, "cancelOrder", "cancelled", "cancelled")
      BY <2>5 DEF CancelOrderWrite
    <3>2. QED
      BY <2>1, <3>1 DEF OrderStatus, EventTypes, ArrivedStatuses
  <2>6. CASE ConfirmDeliveryWrite(r)
    <3>1. WriteStatus(r, "confirmDelivery", "working", "master_confirmed_delivery")
      BY <2>6 DEF ConfirmDeliveryWrite
    <3>2. QED
      BY <2>1, <3>1 DEF OrderStatus, EventTypes, ArrivedStatuses
  <2>7. CASE RejectDeliveryWrite(r)
    <3>1. WriteStatus(r, "rejectDelivery", "received_by_driver", "master_rejected_delivery")
      BY <2>7 DEF RejectDeliveryWrite
    <3>2. QED
      BY <2>1, <3>1 DEF OrderStatus, EventTypes, ArrivedStatuses
  <2>8. CASE ReceiveWrite(r)
    <3>1. WriteStatus(r, "receive", "working", "received_by_master")
      BY <2>8 DEF ReceiveWrite
    <3>2. QED
      BY <2>1, <3>1 DEF OrderStatus, EventTypes, ArrivedStatuses
  <2>9. CASE MasterStartWorkWrite(r)
    <3>1. WriteStatus(r, "masterStartWork", "working", "master_started_work")
      BY <2>9 DEF MasterStartWorkWrite
    <3>2. QED
      BY <2>1, <3>1 DEF OrderStatus, EventTypes, ArrivedStatuses
  <2>10. CASE FinishWrite(r) \/ CustomerCommit(r)
    BY <2>10, ColumnsAfter DEF ArrivedStatuses
  <2>11. CASE DriverAcceptEvent(r) \/ CustomerCheckStock(r) \/ RequestFails(r)
    BY <1>1, <2>11 DEF DriverAcceptEvent, CustomerCheckStock, RequestFails
  <2>12. QED
    BY <1>7, <2>2, <2>3, <2>4, <2>5, <2>6, <2>7, <2>8, <2>9, <2>10, <2>11 DEF Writes
<1>8. Crash \/ UNCHANGED vars \/ (\E x \in Orders : BroadcastOrder(x)) => order' = order
  BY DEF Crash, vars, BroadcastOrder
<1>9. QED
  BY <1>1, <1>2, <1>3, <1>4, <1>5, <1>6, <1>7, <1>8 DEF Next

\* The master pays the courier of the row he has seen, which is the row.
LEMMA StepEarned ==
  TypeOK /\ CheckedInv /\ OneSlotInv /\ EarnedInv /\ [Next]_vars => EarnedInv'
<1>1. SUFFICES ASSUME TypeOK, CheckedInv, OneSlotInv, EarnedInv, [Next]_vars
               PROVE  EarnedInv'
  OBVIOUS
<1>. USE <1>1
<1>2. ASSUME NEW o \in Orders, order'[o].status \in ArrivedStatuses
      PROVE  Reported(o)'
  <2>1. CASE order[o].status \in ArrivedStatuses /\ order'[o].driver = order[o].driver
    BY <2>1, EventsGrow DEF EarnedInv, Reported, Event
  <2>2. ASSUME NEW r \in inflight, r.order = o, DriverFinishWrite(r) \/ DriverDeliveredWrite(r)
        PROVE  Reported(o)'
    <3>1. r.op \in DriverOps /\ Pending(r)
      BY <2>2 DEF DriverFinishWrite, DriverDeliveredWrite, WriteStatus, DriverOps, Pending
    <3>2. r.user = order[o].driver
      BY <2>2, <3>1 DEF CheckedInv, Checked, OneSlotInv, OneSlotOf, FreshOf
    <3>3. order'[o].driver = order[o].driver
      BY <3>2, <3>1, Constants, StepKeepsCourier DEF CheckedInv, Checked, OneSlotInv, OneSlotOf
    <3>4. \/ [order |-> o, actor |-> r.user, type |-> "driver_finished"] \in events'
          \/ [order |-> o, actor |-> r.user, type |-> "driver_delivered"] \in events'
      BY <2>2 DEF DriverFinishWrite, DriverDeliveredWrite, WriteStatus, Log
    <3>5. QED
      BY <3>2, <3>3, <3>4 DEF Reported, Event
  <2>3. QED
    BY <1>2, <2>1, <2>2, Arrival
<1>3. ASSUME NEW t \in transactions', t.type = "delivery_fee"
      PROVE  /\ Event(t.order, Dto[t.order].master, "master_confirmed_delivery")'
             /\ \/ Event(t.order, t.user, "driver_finished")'
                \/ Event(t.order, t.user, "driver_delivered")'
  <2>1. CASE t \in transactions
    BY <1>3, <2>1, EventsGrow DEF EarnedInv, DeliveryFeeEarned, Event
  <2>2. ASSUME t \notin transactions, NEW r \in inflight, ConfirmDeliveryWrite(r)
        PROVE  /\ Event(t.order, Dto[t.order].master, "master_confirmed_delivery")'
               /\ \/ Event(t.order, t.user, "driver_finished")'
                  \/ Event(t.order, t.user, "driver_delivered")'
    <3>1. t = Posting(r.order, r.seen.driver, "delivery_fee", DeliveryFee)
      BY <2>2 DEF ConfirmDeliveryWrite
    <3>2. t.order = r.order /\ t.user = r.seen.driver
      BY <3>1 DEF Posting
    <3>3. r.op = "confirmDelivery"
      BY <2>2 DEF ConfirmDeliveryWrite, WriteStatus
    <3>4. /\ r.user = Dto[r.order].master
          /\ r.seen.status \in ArrivedStatuses
          /\ r.seen = order[r.order]
          /\ r.order \in Orders
      BY <3>3, RequestFields DEF CheckedInv, Checked, MasterOps, ArrivedStatuses, OneSlotInv,
                                 OneSlotOf, FreshOf, Pending, TypeOK
    <3>5. [order |-> r.order, actor |-> r.user, type |-> "master_confirmed_delivery"] \in events'
      BY <2>2 DEF ConfirmDeliveryWrite, WriteStatus, Log
    <3>6. Reported(r.order)
      BY <3>4 DEF EarnedInv
    <3>7. QED
      BY <3>2, <3>4, <3>5, <3>6, EventsGrow DEF Reported, Event
  <2>3. ASSUME t \notin transactions, NEW r \in inflight, CustomerCommit(r) PROVE FALSE
    <3>1. t \in Postings(r) /\ r \in Requests
      BY <2>3 DEF CustomerCommit, TypeOK
    <3>2. QED
      BY <1>3, <3>1, PostingKeys
  <2>4. QED
    BY <2>1, <2>2, <2>3, BooksMove
<1>4. QED
  BY <1>2, <1>3 DEF EarnedInv, DeliveryFeeEarned

\* masterConfirmDelivery pays a courier who has reported his arrival, on the
\* word of the order's master.
THEOREM FeesAreEarned ==
  ASSUME OneSlot
  PROVE  Spec => []DeliveryFeeEarned
<1>1. Init => EarnedInv
  BY DEF Init, EarnedInv, DeliveryFeeEarned, ArrivedStatuses
<1>2. TypeOK /\ CheckedInv /\ OneSlotInv /\ EarnedInv /\ [Next]_vars => EarnedInv'
  BY StepEarned
<1>3. EarnedInv => DeliveryFeeEarned
  BY DEF EarnedInv
<1>4. QED
  BY OneSlot, <1>1, <1>2, <1>3, AlwaysOneSlot, PTL DEF Spec
=============================================================================
