---------------------------- MODULE WritersProofs -----------------------------
(***************************************************************************)
(* Theorems about OrdersService among the other writers of the order rows, *)
(* for any number of users and orders and whatever statuses the boss sets. *)
(*                                                                         *)
(* The strangers write a status and nothing else, so the invariants on     *)
(* requests, books and stock are theirs to keep for nothing. An invariant  *)
(* on rows holds order by order, for the orders a stranger has not         *)
(* written.                                                                *)
(***************************************************************************)
EXTENDS OrderWriters, OrdersOneSlotProofs

\* One write of a stranger to order o.
StrangerStep(who, o, status) ==
  /\ who = "courier" => order[o].driver \in Drivers /\ status = "delivered_by_driver"
  /\ StrangerWrites(who, o, status)

\* A step is the service's, or a stranger's.
LEMMA WritersSteps ==
  ASSUME [WritersNext]_writersVars
  PROVE  \/ [Next]_vars /\ UNCHANGED writers
         \/ \E who \in Strangers, o \in Orders, s \in OrderStatus : StrangerStep(who, o, s)
<1>1. UNCHANGED writersVars => [Next]_vars /\ UNCHANGED writers
  BY DEF writersVars
<1>2. ASSUME NEW d \in Drivers, NEW o \in Orders, OnDriverDelivered(d, o)
      PROVE  \E who \in Strangers, x \in Orders, s \in OrderStatus : StrangerStep(who, x, s)
  <2>1. StrangerStep("courier", o, "delivered_by_driver")
    BY <1>2 DEF OnDriverDelivered, StrangerStep
  <2>2. "courier" \in Strangers /\ "delivered_by_driver" \in OrderStatus
    BY DEF Strangers, OrderStatus
  <2>3. QED
    BY <2>1, <2>2
<1>3. ASSUME NEW w \in BossWrites, UpdateOrderStatus(w[1], w[2])
      PROVE  \E who \in Strangers, x \in Orders, s \in OrderStatus : StrangerStep(who, x, s)
  <2>1. w[1] \in Orders /\ w[2] \in OrderStatus
    BY WritersAssumption
  <2>2. StrangerStep("boss", w[1], w[2])
    BY <1>3 DEF UpdateOrderStatus, StrangerStep
  <2>3. "boss" \in Strangers
    BY DEF Strangers
  <2>4. QED
    BY <2>1, <2>2, <2>3
<1>4. QED
  BY <1>1, <1>2, <1>3 DEF WritersNext, Stranger

\* What a stranger makes of the rows, and what he leaves alone.
LEMMA StrangerRows ==
  ASSUME WritersTypeOK, NEW who \in Strangers, NEW o \in Orders, NEW s \in OrderStatus,
         StrangerStep(who, o, s)
  PROVE  /\ \A x \in Orders :
              /\ order'[x].status = IF x = o THEN s ELSE order[x].status
              /\ order'[x].driver = order[x].driver
              /\ x # o => order'[x] = order[x]
              /\ writers'[x] = IF x = o THEN writers[x] \cup {who} ELSE writers[x]
         /\ order' \in [Orders -> Row]
         /\ writers' \in [Orders -> SUBSET Strangers]
         /\ UNCHANGED <<transactions, balance, balanceDue, stock, events, issued, inflight,
                        outbox, jobs>>
<1>1. order \in [Orders -> Row] /\ writers \in [Orders -> SUBSET Strangers]
  BY DEF WritersTypeOK, TypeOK
<1>2. /\ order' = [order EXCEPT ![o].status = s]
      /\ writers' = [writers EXCEPT ![o] = @ \cup {who}]
      /\ UNCHANGED <<transactions, balance, balanceDue, stock, events, issued, inflight,
                     outbox, jobs>>
  BY DEF StrangerStep, StrangerWrites, money, queue
<1>3. ASSUME NEW x \in Orders
      PROVE  /\ order'[x].status = IF x = o THEN s ELSE order[x].status
             /\ order'[x].driver = order[x].driver
             /\ x # o => order'[x] = order[x]
             /\ order'[x] \in Row
  <2>1. order[x] \in Row /\ s \in Statuses
    BY <1>1 DEF Statuses
  <2>2. order'[x] = IF x = o THEN [order[x] EXCEPT !.status = s] ELSE order[x]
    BY <1>1, <1>2
  <2>3. QED
    BY <2>1, <2>2 DEF Row
<1>4. \A x \in Orders :
        writers'[x] = IF x = o THEN writers[x] \cup {who} ELSE writers[x]
  BY <1>1, <1>2
<1>5. order' \in [Orders -> Row] /\ writers' \in [Orders -> SUBSET Strangers]
  BY <1>1, <1>2, <1>3
<1>6. QED
  BY <1>2, <1>3, <1>4, <1>5
-----------------------------------------------------------------------------
(* What strangers cannot disturb.                                          *)

LEMMA WritersTyped == WritersTypeOK /\ [WritersNext]_writersVars => WritersTypeOK'
<1>1. SUFFICES ASSUME WritersTypeOK, [WritersNext]_writersVars PROVE WritersTypeOK'
  OBVIOUS
<1>. USE <1>1
<1>2. [Next]_vars /\ UNCHANGED writers => WritersTypeOK'
  BY StepTyped DEF WritersTypeOK
<1>3. ASSUME NEW who \in Strangers, NEW o \in Orders, NEW s \in OrderStatus,
             StrangerStep(who, o, s)
      PROVE  WritersTypeOK'
  BY <1>3, StrangerRows, SMTT(30) DEF WritersTypeOK, TypeOK
<1>4. QED
  BY <1>2, <1>3, WritersSteps

\* Requests, books and stock together.
BooksInv ==
  WritersTypeOK /\ CheckedInv /\ LedgerInv /\ BalanceInv /\ SettlementInv

LEMMA StepBooks == BooksInv /\ [WritersNext]_writersVars => BooksInv'
<1>1. SUFFICES ASSUME BooksInv, [WritersNext]_writersVars PROVE BooksInv'
  OBVIOUS
<1>. USE <1>1
<1>2. WritersTypeOK'
  BY WritersTyped DEF BooksInv
<1>3. ASSUME [Next]_vars, UNCHANGED writers
      PROVE  CheckedInv' /\ LedgerInv' /\ BalanceInv' /\ SettlementInv'
  BY <1>3, StepChecked, StepLedger, StepBalance, StepSettlement DEF BooksInv, WritersTypeOK
<1>4. ASSUME NEW who \in Strangers, NEW o \in Orders, NEW s \in OrderStatus,
             StrangerStep(who, o, s)
      PROVE  CheckedInv' /\ LedgerInv' /\ BalanceInv' /\ SettlementInv'
  <2>1. UNCHANGED <<transactions, balance, balanceDue, stock, inflight>>
    BY <1>4, StrangerRows, SMTT(30) DEF BooksInv
  <2>2. CheckedInv'
    BY <2>1 DEF BooksInv, CheckedInv, Checked, Target, ConfirmTarget
  <2>3. LedgerInv'
    BY <2>1 DEF BooksInv, LedgerInv, Blocks, Payees, Postings, CourierShare, Recorded
  <2>4. BalanceInv'
    BY <2>1 DEF BooksInv, BalanceInv, RowsOf
  <2>5. SettlementInv'
    BY <2>1 DEF BooksInv, SettlementInv, SettledOrders, ChargedTo, Settled, Recorded
  <2>6. QED
    BY <2>2, <2>3, <2>4, <2>5
<1>5. QED
  BY <1>2, <1>3, <1>4, WritersSteps DEF BooksInv

LEMMA InitBooks == WritersInit => BooksInv
<1>1. SUFFICES ASSUME WritersInit PROVE BooksInv
  OBVIOUS
<1>2. Init /\ WritersTypeOK
  BY <1>1, InitTyped DEF WritersInit, WritersTypeOK
<1>3. CheckedInv /\ LedgerInv
  BY <1>2 DEF Init, CheckedInv, LedgerInv
<1>4. QED
  BY <1>2, <1>3, InitBalance, InitSettlement DEF BooksInv

LEMMA AlwaysBooks == WritersSpec => []BooksInv
BY InitBooks, StepBooks, PTL DEF WritersSpec

\* Rows, requests and the history have the types of the schema, whatever
\* statuses the boss sets (updateOrderStatus, onDriverDelivered).
THEOREM WritersTypeCorrect == WritersSpec => []WritersTypeOK
<1>1. BooksInv => WritersTypeOK
  BY DEF BooksInv
<1>2. QED
  BY <1>1, AlwaysBooks, PTL

\* Each row is posted once and each balance moved by its rows, although an
\* order that a stranger sets back may be settled or paid for again.
THEOREM BooksSurviveWriters == WritersSpec => LedgerSpec
<1>1. WritersInit => Ledger!Init
  BY DEF WritersInit, Init, Ledger!Init
<1>2. BooksInv /\ [WritersNext]_writersVars => [Ledger!Next]_<<transactions, balance>>
  <2>1. SUFFICES ASSUME BooksInv, [WritersNext]_writersVars
                 PROVE  [Ledger!Next]_<<transactions, balance>>
    OBVIOUS
  <2>2. [Next]_vars => [Ledger!Next]_<<transactions, balance>>
    BY <2>1, StepPosts DEF BooksInv, WritersTypeOK
  <2>3. ASSUME NEW who \in Strangers, NEW o \in Orders, NEW s \in OrderStatus,
               StrangerStep(who, o, s)
        PROVE  UNCHANGED <<transactions, balance>>
    BY <2>1, <2>3, StrangerRows, SMTT(30) DEF BooksInv
  <2>4. QED
    BY <2>1, <2>2, <2>3, WritersSteps
<1>3. QED
  BY <1>1, <1>2, AlwaysBooks, PTL DEF WritersSpec, LedgerSpec, Ledger!Spec

\* The sums of masterConfirmDelivery and customerConfirm are as they were: the
\* balances are those of the rows, the stock and the debts those of the orders
\* settled, each once, however often a stranger opens an order again.
THEOREM SumsSurviveWriters == WritersSpec => [](BalanceIsLedger /\ SettledExactlyOnce)
<1>1. BooksInv => BalanceIsLedger /\ SettledExactlyOnce
  BY BalanceInvSums, SettlementInvSums DEF BooksInv
<1>2. QED
  BY <1>1, AlwaysBooks, PTL

\* The stock check of customerConfirm is as good as it was.
THEOREM StockSurvivesWriters ==
  ASSUME LocksShared
  PROVE  WritersSpec => []StockCovered
<1>1. WritersInit => ShelfInv
  BY ConstantsAssumption DEF WritersInit, Init, ShelfInv, StockCovered
<1>2. BooksInv /\ ShelfInv /\ [WritersNext]_writersVars => ShelfInv'
  <2>1. SUFFICES ASSUME BooksInv, ShelfInv, [WritersNext]_writersVars PROVE ShelfInv'
    OBVIOUS
  <2>2. [Next]_vars => ShelfInv'
    BY LocksShared, <2>1, StepShelf DEF BooksInv, WritersTypeOK
  <2>3. ASSUME NEW who \in Strangers, NEW o \in Orders, NEW s \in OrderStatus,
               StrangerStep(who, o, s)
        PROVE  ShelfInv'
    <3>1. UNCHANGED <<stock, inflight>>
      BY <2>1, <2>3, StrangerRows, SMTT(30) DEF BooksInv
    <3>2. QED
      BY <2>1, <3>1 DEF ShelfInv, StockCovered, InStock, Blocks, Payees, Postings,
                        CourierShare
  <2>4. QED
    BY <2>1, <2>2, <2>3, WritersSteps
<1>3. ShelfInv => StockCovered
  BY DEF ShelfInv
<1>4. QED
  BY LocksShared, <1>1, <1>2, <1>3, AlwaysBooks, PTL DEF WritersSpec
-----------------------------------------------------------------------------
(* What only the boss can do, for any number of slots.                     *)

LEMMA StepSettledUnlessBoss ==
  BooksInv /\ SettledUnlessBoss /\ [WritersNext]_writersVars => SettledUnlessBoss'
<1>1. SUFFICES ASSUME BooksInv, SettledUnlessBoss, [WritersNext]_writersVars,
                      NEW o \in Orders, order'[o].status = "completed"
               PROVE  Settled(o)' \/ "boss" \in writers'[o]
  BY DEF SettledUnlessBoss
<1>0. TypeOK /\ CheckedInv /\ WritersTypeOK
  BY <1>1 DEF BooksInv, WritersTypeOK
<1>2. ASSUME [Next]_vars, UNCHANGED writers
      PROVE  Settled(o)' \/ "boss" \in writers'[o]
  <2>1. order[o].status = "completed" \/ Settled(o)'
    BY <1>0, <1>1, <1>2, Completion
  <2>2. order[o].status = "completed" => Settled(o)' \/ "boss" \in writers[o]
    BY <1>0, <1>1, <1>2, SettledStays DEF SettledUnlessBoss
  <2>3. QED
    BY <1>2, <2>1, <2>2
<1>3. ASSUME NEW who \in Strangers, NEW x \in Orders, NEW s \in OrderStatus,
             StrangerStep(who, x, s)
      PROVE  Settled(o)' \/ "boss" \in writers'[o]
  <2>1. /\ order'[o].status = IF o = x THEN s ELSE order[o].status
        /\ writers'[o] = IF o = x THEN writers[o] \cup {who} ELSE writers[o]
        /\ UNCHANGED transactions
    <3>1. /\ \A y \in Orders :
               /\ order'[y].status = IF y = x THEN s ELSE order[y].status
               /\ writers'[y] = IF y = x THEN writers[y] \cup {who} ELSE writers[y]
          /\ UNCHANGED <<transactions, balance, balanceDue, stock, events, issued,
                         inflight, outbox, jobs>>
      BY <1>0, <1>3, StrangerRows, SMTT(30)
    <3>2. QED
      BY <3>1, Zenon
  <2>2. o = x => who = "boss"
    BY <1>1, <1>3, <2>1 DEF StrangerStep, Strangers
  <2>3. Settled(o)' <=> Settled(o)
    BY <2>1 DEF Settled, Recorded
  <2>4. QED
    BY <1>1, <2>1, <2>2, <2>3 DEF SettledUnlessBoss
<1>4. QED
  BY <1>1, <1>2, <1>3, WritersSteps

\* The courier's button, though it works in any status, makes nothing
\* completed: that takes a settlement or the boss.
THEOREM OnlyBossSkipsSettlement == WritersSpec => []SettledUnlessBoss
<1>1. WritersInit => SettledUnlessBoss
  BY DEF WritersInit, Init, SettledUnlessBoss
<1>2. QED
  BY <1>1, StepSettledUnlessBoss, AlwaysBooks, PTL DEF WritersSpec

\* CourierOf, for the orders the boss has left alone.
CourierKnown == \A o \in Orders : "boss" \in writers[o] \/ CourierOf(o)

LEMMA StepCourierKnown ==
  BooksInv /\ CourierKnown /\ [WritersNext]_writersVars => CourierKnown'
<1>1. SUFFICES ASSUME BooksInv, CourierKnown, [WritersNext]_writersVars,
                      NEW o \in Orders, "boss" \notin writers'[o]
               PROVE  CourierOf(o)'
  BY DEF CourierKnown
<1>0. TypeOK /\ CheckedInv /\ WritersTypeOK
  BY <1>1 DEF BooksInv, WritersTypeOK
<1>2. ASSUME [Next]_vars, UNCHANGED writers PROVE CourierOf(o)'
  <2>1. CourierOf(o)
    BY <1>1, <1>2 DEF CourierKnown
  <2>2. QED
    BY <1>0, <1>2, <2>1, StepCourier
<1>3. ASSUME NEW who \in Strangers, NEW x \in Orders, NEW s \in OrderStatus,
             StrangerStep(who, x, s)
      PROVE  CourierOf(o)'
  <2>1. /\ order'[o].status = IF o = x THEN s ELSE order[o].status
        /\ order'[o].driver = order[o].driver
        /\ writers'[o] = IF o = x THEN writers[o] \cup {who} ELSE writers[o]
        /\ UNCHANGED inflight
    BY <1>0, <1>3, StrangerRows, SMTT(30)
  <2>2. CourierOf(o)
    BY <1>1, <2>1 DEF CourierKnown
  <2>3. o = x => order[o].driver # NoDriver
    BY <1>1, <1>3, <2>1, Constants DEF StrangerStep, Strangers
  <2>4. QED
    BY <2>1, <2>2, <2>3 DEF CourierOf
<1>4. QED
  BY <1>1, <1>2, <1>3, WritersSteps

\* An order that is with a courier names him, unless the boss has put it there.
THEOREM OnlyBossForgetsCourier == WritersSpec => []CourierUnlessBoss
<1>1. WritersInit => CourierKnown
  BY DEF WritersInit, Init, CourierKnown, CourierOf, CourierStatuses
<1>2. CourierKnown => CourierUnlessBoss
  BY DEF CourierKnown, CourierOf, CourierUnlessBoss
<1>3. QED
  BY <1>1, <1>2, StepCourierKnown, AlwaysBooks, PTL DEF WritersSpec
-----------------------------------------------------------------------------
(* With one slot: the orders no stranger has written.                      *)

LEMMA StrangersWaitForNobody ==
  ASSUME OneSlot
  PROVE  BooksInv /\ OneAtATime /\ [WritersNext]_writersVars => OneAtATime'
<1>1. SUFFICES ASSUME BooksInv, OneAtATime, [WritersNext]_writersVars PROVE OneAtATime'
  OBVIOUS
<1>. USE <1>1 DEF BooksInv, WritersTypeOK
<1>2. [Next]_vars => OneAtATime'
  BY OneSlot, StepOneAtATime
<1>3. ASSUME NEW who \in Strangers, NEW x \in Orders, NEW s \in OrderStatus,
             StrangerStep(who, x, s)
      PROVE  OneAtATime'
  BY <1>3, StrangerRows, SMTT(30) DEF OneAtATime
<1>4. QED
  BY <1>2, <1>3, WritersSteps

UntouchedInv == OneAtATime /\ \A o \in Orders : Untouched(o) => OneSlotOf(o)

\* Strangers only add to the history, and write no order that stays untouched.
LEMMA UntouchedSteps ==
  ASSUME BooksInv, [WritersNext]_writersVars, NEW o \in Orders, Untouched(o)'
  PROVE  /\ Untouched(o)
         /\ [Next]_vars \/ (order'[o] = order[o] /\ UNCHANGED inflight)
<1>. USE DEF BooksInv, WritersTypeOK
<1>1. UNCHANGED writers => Untouched(o)
  BY DEF Untouched
<1>2. ASSUME NEW who \in Strangers, NEW x \in Orders, NEW s \in OrderStatus,
             StrangerStep(who, x, s)
      PROVE  Untouched(o) /\ order'[o] = order[o] /\ UNCHANGED inflight
  <2>1. writers'[o] = IF o = x THEN writers[o] \cup {who} ELSE writers[o]
    BY <1>2, StrangerRows, ZenonT(30)
  <2>2. o # x /\ Untouched(o)
    BY <2>1 DEF Untouched
  <2>3. QED
    BY <1>2, <2>2, StrangerRows, ZenonT(30)
<1>3. QED
  BY <1>1, <1>2, WritersSteps

LEMMA StepUntouched ==
  ASSUME OneSlot
  PROVE  BooksInv /\ UntouchedInv /\ [WritersNext]_writersVars => UntouchedInv'
<1>1. SUFFICES ASSUME BooksInv, UntouchedInv, [WritersNext]_writersVars PROVE UntouchedInv'
  OBVIOUS
<1>. USE <1>1
<1>2. OneAtATime'
  BY OneSlot, StrangersWaitForNobody DEF UntouchedInv
<1>3. ASSUME NEW o \in Orders, Untouched(o)' PROVE OneSlotOf(o)'
  <2>1. OneSlotOf(o)
    BY <1>3, UntouchedSteps DEF UntouchedInv
  <2>2. [Next]_vars => OneSlotOf(o)'
    BY <2>1, StepOneSlotOf DEF UntouchedInv, BooksInv, WritersTypeOK
  <2>3. order'[o] = order[o] /\ UNCHANGED inflight => OneSlotOf(o)'
    BY <2>1 DEF OneSlotOf, FreshOf, HeldOf, NoCourierYet, LinkOf, Pending
  <2>4. QED
    BY <1>3, <2>2, <2>3, UntouchedSteps
<1>4. QED
  BY <1>2, <1>3 DEF UntouchedInv

LEMMA AlwaysUntouched ==
  ASSUME OneSlot
  PROVE  WritersSpec => [](BooksInv /\ UntouchedInv)
<1>1. WritersInit => UntouchedInv
  BY InitOneSlot DEF WritersInit, UntouchedInv, OneSlotInv
<1>2. BooksInv /\ UntouchedInv /\ [WritersNext]_writersVars => UntouchedInv'
  BY OneSlot, StepUntouched
<1>3. QED
  BY <1>1, <1>2, AlwaysBooks, PTL DEF WritersSpec

\* Strangers that write other orders disturb no check and no link of this one.
THEOREM UntouchedStaySound ==
  ASSUME OneSlot
  PROVE  WritersSpec => []UntouchedSound
<1>1. BooksInv /\ UntouchedInv => UntouchedSound
  BY RequestFields DEF BooksInv, WritersTypeOK, TypeOK, UntouchedInv, OneSlotOf, FreshOf, LinkOf,
                       UntouchedSound
<1>2. QED
  BY OneSlot, <1>1, AlwaysUntouched, PTL

\* OneFlow(o) has the one order of its own, and its table is the service's.
LEMMA WalkFlows ==
  ASSUME NEW o \in Orders, Walks(o)
  PROVE  [OneFlow(o)!Next]_(OneFlow(o)!vars)
<1>. DEFINE MovesTo(s) == order'[o].status = s /\ order'[o].driver = order[o].driver
<1>1. CASE MovesTo(order[o].status)
  BY <1>1 DEF OneFlow!vars
<1>2. CASE order[o].status = "absent" /\ MovesTo("draft")
  <2>1. OneFlow(o)!Create(o)
    BY <1>2 DEF OneFlow!Create
  <2>2. QED
    BY <2>1 DEF OneFlow!Next
<1>3. ASSUME NEW s \in OrderStatus, CanTransition(order[o].status, s),
             order[o].status # "broadcasted", s = "broadcasted" => Dto[o].delivery,
             MovesTo(s)
      PROVE  OneFlow(o)!Next
  <2>1. OneFlow(o)!OrderStatus = OrderStatus
    BY DEF OneFlow!OrderStatus, OrderStatus
  <2>2. OneFlow(o)!CanTransition(order[o].status, s)
    BY <1>3 DEF OneFlow!CanTransition, OneFlow!AllowedTransitions, CanTransition,
                AllowedTransitions
  <2>3. OneFlow(o)!Advance(o, s)
    BY <1>3, <2>2 DEF OneFlow!Advance
  <2>4. QED
    BY <2>1, <2>3 DEF OneFlow!Next
<1>4. ASSUME NEW d \in Drivers, order[o].status = "broadcasted", order[o].driver = NoDriver,
             order'[o].status = "received_by_driver", order'[o].driver = d
      PROVE  OneFlow(o)!Next
  <2>1. OneFlow(o)!Accept(o, d)
    BY <1>4 DEF OneFlow!Accept
  <2>2. QED
    BY <2>1 DEF OneFlow!Next
<1>5. CASE /\ order[o].status = "received_by_driver"
           /\ order[o].driver # NoDriver
           /\ MovesTo("delivered_by_driver")
  <2>1. OneFlow(o)!Report(o)
    BY <1>5 DEF OneFlow!Report
  <2>2. QED
    BY <2>1 DEF OneFlow!Next
<1>6. QED
  BY <1>1, <1>2, <1>3, <1>4, <1>5 DEF Walks

\* An order walks OrderFlow for as long as no stranger has written it,
\* whatever onDriverDelivered and updateOrderStatus make of the others.
THEOREM UntouchedWalk ==
  ASSUME OneSlot
  PROVE  WritersSpec => UntouchedFlow
<1>. DEFINE Walk == \A o \in Orders : Untouched(o)' => [OneFlow(o)!Next]_(OneFlow(o)!vars)
<1>1. BooksInv /\ UntouchedInv /\ [WritersNext]_writersVars => Walk
  <2>1. SUFFICES ASSUME BooksInv, UntouchedInv, [WritersNext]_writersVars,
                        NEW o \in Orders, Untouched(o)'
                 PROVE  [OneFlow(o)!Next]_(OneFlow(o)!vars)
    OBVIOUS
  <2>2. OneSlotOf(o)
    BY <2>1, UntouchedSteps DEF UntouchedInv
  <2>3. [Next]_vars => Walks(o)
    BY <2>1, <2>2, StepWalks DEF BooksInv, WritersTypeOK
  <2>4. order'[o] = order[o] => Walks(o)
    BY DEF Walks
  <2>5. Walks(o)
    BY <2>1, <2>3, <2>4, UntouchedSteps
  <2>6. QED
    BY <2>5, WalkFlows
<1>2. BooksInv /\ UntouchedInv /\ [WritersNext]_writersVars => [Walk]_writersVars
  BY <1>1
<1>3. QED
  BY OneSlot, <1>2, AlwaysUntouched, PTL DEF WritersSpec, UntouchedFlow
-----------------------------------------------------------------------------
(* With one slot: the orders the boss has left alone. The courier's button  *)
(* may set such an order back, and the checks in flight for it are stale;   *)
(* but it needs a courier, and an order has none until it is accepted.      *)

\* An order without a courier is as its requests have seen it, and one with a
\* courier is past all that.
CourierOnce(o) ==
  /\ NoCourierYet(o)
  /\ \A r \in inflight : r.order = o /\ r.op # "driverAccepted" =>
       /\ r.seen.status \in EarlyStatuses => order[o].status = r.seen.status
       /\ r.seen.status \notin EarlyStatuses => order[o].status \notin EarlyStatuses
       /\ r.seen.driver # NoDriver => order[o].driver = r.seen.driver

\* Who is about to write an order that is still without a courier.
LEMMA EarlyWriter ==
  ASSUME TypeOK, CheckedInv, NEW r \in inflight, r.op # "driverAccepted",
         CourierOnce(r.order), order[r.order].status \in EarlyStatuses
  PROVE  /\ r.op \in MasterOps
         /\ r.seen.status \in {"draft", "waiting_confirmation"}
         /\ order[r.order].status = r.seen.status
         /\ r.user = Dto[r.order].master
<1>1. r \in Requests /\ Checked(r)
  BY DEF TypeOK, CheckedInv
<1>2. /\ order[r.order].status = r.seen.status
      /\ r.seen.driver = NoDriver
  BY DEF CourierOnce, NoCourierYet
<1>3. r.seen.status \in EarlyStatuses
  BY <1>2
<1>4. r.op \notin {"customerConfirm", "customerCommit"}
  BY <1>1, <1>3 DEF Checked, EarlyStatuses
<1>5. r.op \notin DriverOps
  BY <1>1, <1>2, Constants DEF Checked
<1>6. r.op \in MasterOps
  BY <1>1, <1>4, <1>5, PendingOps DEF Pending
<1>7. QED
  BY <1>1, <1>2, <1>3, <1>6, SourcesOf DEF Checked, MasterSources, EarlyStatuses

LEMMA EarlyAlone ==
  ASSUME TypeOK, CheckedInv, OneAtATime, NEW o \in Orders, CourierOnce(o),
         order[o].status \in EarlyStatuses, NEW q \in inflight, NEW r \in inflight,
         q.order = o, r.order = o, q.op # "driverAccepted", r.op # "driverAccepted"
  PROVE  q = r
<1>1. q.user = Dto[o].master /\ r.user = Dto[o].master
  BY EarlyWriter
<1>2. QED
  BY <1>1, Constants DEF OneAtATime, Staff

\* What a step of the service makes of the courier's columns while a request
\* for the order is in flight.
LEMMA StepCourierColumns ==
  ASSUME TypeOK, CheckedInv, OneAtATime, [Next]_vars, NEW o \in Orders, CourierOnce(o)
  PROVE  /\ order[o].driver # NoDriver => order'[o].driver = order[o].driver
         /\ order[o].status \notin EarlyStatuses => order'[o].status \notin EarlyStatuses
         /\ order'[o].status \in EarlyStatuses => order'[o].driver = order[o].driver
         /\ \A r \in inflight : r \in inflight' /\ r.order = o /\ r.op # "driverAccepted"
                                /\ order[o].status \in EarlyStatuses =>
              order'[o].status = order[o].status
<1>. DEFINE Keeps ==
              /\ order'[o].driver = order[o].driver
              /\ order'[o].status = order[o].status
            Late ==
              /\ order'[o].driver = order[o].driver
              /\ order[o].status \notin EarlyStatuses
              /\ order'[o].status \notin EarlyStatuses
            Unwatched ==
              \A r \in inflight : r.order = o /\ r.op # "driverAccepted" => r \notin inflight'
            Early ==
              /\ order[o].status \in EarlyStatuses
              /\ order'[o].driver = order[o].driver
              /\ Unwatched
            Accepted ==
              /\ order[o].status \in EarlyStatuses
              /\ order'[o].status \notin EarlyStatuses
              /\ order[o].driver = NoDriver
              /\ Unwatched
<1>1. ASSUME NEW x \in Orders, CreateDraft(x) PROVE Keeps \/ Early
  <2>1. CASE x # o
    BY <1>1, <2>1, ColumnsAfter
  <2>2. CASE x = o
    <3>1. order[o].status = "absent"
      BY <1>1, <2>2 DEF CreateDraft
    <3>2. Unwatched
      BY <3>1, EarlyWriter DEF EarlyStatuses
    <3>3. QED
      BY <1>1, <3>1, <3>2, ColumnsAfter DEF EarlyStatuses
  <2>3. QED
    BY <2>1, <2>2
<1>2. ASSUME NEW d \in Drivers, NEW s \in Slots, NEW x \in Orders, DriverAccept(d, s, x)
      PROVE  Keeps \/ Accepted
  <2>1. CASE x # o
    BY <1>2, <2>1, ColumnsAfter
  <2>2. CASE x = o
    <3>1. order[o].status = "broadcasted"
      BY <1>2, <2>2 DEF DriverAccept
    <3>2. Unwatched
      BY <3>1, EarlyWriter DEF EarlyStatuses
    <3>3. order[o].driver = NoDriver
      BY <3>1 DEF CourierOnce, NoCourierYet, EarlyStatuses
    <3>4. order'[o].status = "received_by_driver"
      BY <1>2, <2>2, ColumnsAfter
    <3>5. QED
      BY <3>1, <3>2, <3>3, <3>4 DEF EarlyStatuses
  <2>3. QED
    BY <2>1, <2>2
<1>3. ASSUME NEW q \in inflight, StatusStep(q) \/ FinishWrite(q) \/ CustomerCommit(q)
      PROVE  Keeps \/ Late \/ Early
  <2>1. CASE q.order # o
    BY <1>3, <2>1, ColumnsAfter
  <2>2. CASE q.order = o
    <3>1. order'[o].driver = order[o].driver
      BY <1>3, ColumnsAfter
    <3>2. q.op # "driverAccepted" /\ inflight' = inflight \ {q}
      BY <1>3, InflightAfter DEF StatusStep, FinishWrite, CustomerCommit, MasterOps, DriverOps
    <3>3. CASE order[o].status \in EarlyStatuses
      <4>1. Unwatched
        BY <2>2, <3>2, <3>3, EarlyAlone
      <4>2. QED
        BY <3>1, <3>3, <4>1
    <3>4. CASE order[o].status \notin EarlyStatuses
      <4>1. q \in Requests /\ Checked(q)
        BY DEF TypeOK, CheckedInv
      <4>2. q.seen.status \notin EarlyStatuses
        BY <2>2, <3>2, <3>4 DEF CourierOnce
      <4>3. StatusStep(q) => Target(q) \notin EarlyStatuses
        BY <4>1, <4>2, TargetOf, WritersArePending
      <4>4. order'[o].status \notin EarlyStatuses
        BY <1>3, <2>2, <4>3, ColumnsAfter DEF EarlyStatuses
      <4>5. QED
        BY <3>1, <3>4, <4>4
    <3>5. QED
      BY <3>3, <3>4
  <2>3. QED
    BY <2>1, <2>2
<1>4. ReadStep \/ QuietStep \/ (\E q \in inflight : CustomerCheckStock(q)) => Keeps
  BY DEF ReadStep, Start, QuietStep, CustomerCheckStock
<1>5. Keeps \/ Late \/ Early \/ Accepted
  BY <1>1, <1>2, <1>3, <1>4, StepKinds
<1>6. QED
  BY <1>5

LEMMA StepCourierOnce ==
  ASSUME TypeOK, CheckedInv, OneAtATime, [Next]_vars, NEW o \in Orders, CourierOnce(o)
  PROVE  CourierOnce(o)'
<1>1. NoCourierYet(o)'
  BY StepCourierColumns DEF CourierOnce, NoCourierYet
<1>2. ASSUME NEW r \in inflight', r.order = o, r.op # "driverAccepted"
      PROVE  /\ r.seen.status \in EarlyStatuses => order'[o].status = r.seen.status
             /\ r.seen.status \notin EarlyStatuses => order'[o].status \notin EarlyStatuses
             /\ r.seen.driver # NoDriver => order'[o].driver = r.seen.driver
  <2>1. CASE r \in inflight
    BY <1>2, <2>1, StepCourierColumns DEF CourierOnce
  <2>2. CASE r \notin inflight
    <3>1. ReadStep => order' = order /\ r.seen = order[o]
      BY <1>2, <2>2 DEF ReadStep, Start
    <3>2. ASSUME r.op = "customerCommit"
          PROVE  \E q \in inflight :
                   /\ q.order = o /\ q.op = "customerConfirm" /\ r.seen = q.seen
                   /\ order' = order
      <4>1. PICK q \in inflight : CustomerCheckStock(q) /\ r.order = q.order /\ r.seen = q.seen
        BY <1>2, <2>2, <3>2, NewCommit
      <4>2. q.op = "customerConfirm" /\ order' = order
        BY <4>1 DEF CustomerCheckStock
      <4>3. QED
        BY <1>2, <4>1, <4>2
    <3>3. ReadStep \/ r.op = "customerCommit"
      BY <1>2, <2>2, NewRequest
    <3>4. QED
      BY <3>1, <3>2, <3>3 DEF CourierOnce
  <2>3. QED
    BY <2>1, <2>2
<1>3. QED
  BY <1>1, <1>2 DEF CourierOnce

\* Of the strangers only the boss moves an order that has no courier, and none
\* of them gives it one.
NotBoss(o) == "boss" \notin writers[o]

LEMMA NotBossSteps ==
  ASSUME BooksInv, [WritersNext]_writersVars, NEW o \in Orders, NotBoss(o)',
         NotBoss(o) => CourierOnce(o)
  PROVE  /\ NotBoss(o)
         /\ \/ [Next]_vars
            \/ /\ UNCHANGED <<inflight, transactions>>
               /\ order'[o].driver = order[o].driver
               /\ \/ order'[o] = order[o]
                  \/ order[o].driver # NoDriver /\ order'[o].status = "delivered_by_driver"
<1>0. WritersTypeOK
  BY DEF BooksInv
<1>1. ASSUME UNCHANGED writers PROVE NotBoss(o)
  BY <1>1 DEF NotBoss
<1>2. ASSUME NEW who \in Strangers, NEW x \in Orders, NEW s \in OrderStatus,
             StrangerStep(who, x, s)
      PROVE  /\ NotBoss(o)
             /\ UNCHANGED <<inflight, transactions>>
             /\ order'[o].driver = order[o].driver
             /\ \/ order'[o] = order[o]
                \/ order[o].driver # NoDriver /\ order'[o].status = "delivered_by_driver"
  <2>1. /\ writers'[o] = IF o = x THEN writers[o] \cup {who} ELSE writers[o]
        /\ order'[o].status = IF o = x THEN s ELSE order[o].status
        /\ order'[o].driver = order[o].driver
        /\ o # x => order'[o] = order[o]
        /\ UNCHANGED <<inflight, transactions>>
    BY <1>0, <1>2, StrangerRows, SMTT(30)
  <2>2. NotBoss(o) /\ (o = x => who = "courier")
    BY <2>1 DEF NotBoss, Strangers
  <2>3. o = x => order[o].driver # NoDriver /\ s = "delivered_by_driver"
    BY <1>2, <2>2, Constants DEF StrangerStep
  <2>4. QED
    BY <2>1, <2>2, <2>3
<1>3. QED
  BY <1>1, <1>2, WritersSteps

NotBossInv == OneAtATime /\ \A o \in Orders : NotBoss(o) => CourierOnce(o)

LEMMA StepNotBoss ==
  ASSUME OneSlot
  PROVE  BooksInv /\ NotBossInv /\ [WritersNext]_writersVars => NotBossInv'
<1>1. SUFFICES ASSUME BooksInv, NotBossInv, [WritersNext]_writersVars PROVE NotBossInv'
  OBVIOUS
<1>2. OneAtATime'
  BY OneSlot, <1>1, StrangersWaitForNobody DEF NotBossInv
<1>3. ASSUME NEW o \in Orders, NotBoss(o)' PROVE CourierOnce(o)'
  <2>1. CourierOnce(o)
    BY <1>1, <1>3, NotBossSteps DEF NotBossInv
  <2>2. [Next]_vars => CourierOnce(o)'
    BY <1>1, <2>1, StepCourierOnce DEF NotBossInv, BooksInv, WritersTypeOK
  <2>3. ASSUME UNCHANGED inflight, order'[o] = order[o] PROVE CourierOnce(o)'
    BY <2>1, <2>3 DEF CourierOnce, NoCourierYet
  <2>4. ASSUME UNCHANGED inflight, order'[o].driver = order[o].driver,
               order[o].driver # NoDriver, order'[o].status = "delivered_by_driver"
        PROVE  CourierOnce(o)'
    <3>1. order[o].status \notin EarlyStatuses /\ order'[o].status \notin EarlyStatuses
      BY <2>1, <2>4 DEF CourierOnce, NoCourierYet, EarlyStatuses
    <3>2. QED
      BY <2>1, <2>4, <3>1 DEF CourierOnce, NoCourierYet
  <2>5. QED
    BY <1>1, <1>3, <2>2, <2>3, <2>4, NotBossSteps DEF NotBossInv
<1>4. QED
  BY <1>2, <1>3 DEF NotBossInv

LEMMA AlwaysNotBoss ==
  ASSUME OneSlot
  PROVE  WritersSpec => [](BooksInv /\ NotBossInv)
<1>1. WritersInit => NotBossInv
  BY DEF WritersInit, Init, NotBossInv, OneAtATime, CourierOnce, NoCourierYet
<1>2. BooksInv /\ NotBossInv /\ [WritersNext]_writersVars => NotBossInv'
  BY OneSlot, StepNotBoss
<1>3. QED
  BY <1>1, <1>2, AlwaysBooks, PTL DEF WritersSpec

\* Whatever status onDriverDelivered sets an order back from, the order stays
\* with the courier it has.
THEOREM CourierStays ==
  ASSUME OneSlot
  PROVE  WritersSpec => CourierUnlessReoffered
<1>. DEFINE Stays == \A o \in Orders :
                       order[o].driver # NoDriver /\ "boss" \notin writers'[o] =>
                         order'[o].driver = order[o].driver
<1>1. BooksInv /\ NotBossInv /\ [WritersNext]_writersVars => Stays
  <2>1. SUFFICES ASSUME BooksInv, NotBossInv, [WritersNext]_writersVars,
                        NEW o \in Orders, order[o].driver # NoDriver, NotBoss(o)'
                 PROVE  order'[o].driver = order[o].driver
    BY DEF NotBoss
  <2>2. CourierOnce(o)
    BY <2>1, NotBossSteps DEF NotBossInv
  <2>3. [Next]_vars => order'[o].driver = order[o].driver
    BY <2>1, <2>2, StepCourierColumns DEF NotBossInv, BooksInv, WritersTypeOK
  <2>4. QED
    BY <2>1, <2>2, <2>3, NotBossSteps
<1>2. BooksInv /\ NotBossInv /\ [WritersNext]_writersVars => [Stays]_writersVars
  BY <1>1
<1>3. QED
  BY OneSlot, <1>2, AlwaysNotBoss, PTL DEF WritersSpec, CourierUnlessReoffered

CourierTypes == {"delivery_fee", "driver_fee"}

\* A fee is on the books for a courier, and he is the order's.
PaidInv ==
  \A t \in transactions : t.type \in CourierTypes /\ NotBoss(t.order) =>
    t.user \in Drivers /\ t.user = order[t.order].driver

\* The fee goes to the courier the request has seen.
LEMMA NewFee ==
  ASSUME TypeOK, [Next]_vars, NEW t \in transactions', t \notin transactions,
         t.type \in CourierTypes
  PROVE  \E r \in inflight :
           /\ r \in Requests
           /\ r.op \in {"confirmDelivery", "customerCommit"}
           /\ t.order = r.order
           /\ t.user = r.seen.driver
           /\ r.seen.driver \in Drivers
<1>1. ASSUME NEW r \in inflight, ConfirmDeliveryWrite(r)
      PROVE  /\ r \in Requests /\ r.op = "confirmDelivery"
             /\ t.order = r.order /\ t.user = r.seen.driver /\ r.seen.driver \in Drivers
  <2>1. r \in Requests
    BY DEF TypeOK
  <2>2. r.seen.driver # NoDriver /\ t = Posting(r.order, r.seen.driver, "delivery_fee", DeliveryFee)
    BY <1>1 DEF ConfirmDeliveryWrite
  <2>3. t.order = r.order /\ t.user = r.seen.driver
    BY <2>2 DEF Posting
  <2>4. r.op = "confirmDelivery"
    BY <1>1 DEF ConfirmDeliveryWrite, WriteStatus
  <2>5. QED
    BY <2>1, <2>2, <2>3, <2>4, RequestFields
<1>2. ASSUME NEW r \in inflight, CustomerCommit(r)
      PROVE  /\ r \in Requests /\ r.op = "customerCommit"
             /\ t.order = r.order /\ t.user = r.seen.driver /\ r.seen.driver \in Drivers
  <2>1. r \in Requests
    BY DEF TypeOK
  <2>2. t \in Postings(r) /\ r.op = "customerCommit"
    BY <1>2 DEF CustomerCommit
  <2>3. t = Posting(r.order, r.seen.driver, "driver_fee", CourierShare(r)) /\ CourierShare(r) > 0
    BY <2>2 DEF Postings, Posting, CourierTypes
  <2>4. t.order = r.order /\ t.user = r.seen.driver
    BY <2>3 DEF Posting
  <2>5. QED
    BY <2>1, <2>2, <2>3, <2>4, PostingsTyped
<1>3. QED
  BY <1>1, <1>2, BooksMove

LEMMA StepPaid ==
  BooksInv /\ NotBossInv /\ PaidInv /\ [WritersNext]_writersVars => PaidInv'
<1>1. SUFFICES ASSUME BooksInv, NotBossInv, PaidInv, [WritersNext]_writersVars,
                      NEW t \in transactions', t.type \in CourierTypes, NotBoss(t.order)'
               PROVE  t.user \in Drivers /\ t.user = order'[t.order].driver
  BY DEF PaidInv
<1>2. TypeOK /\ CheckedInv /\ OneAtATime
  BY <1>1 DEF BooksInv, WritersTypeOK, NotBossInv
<1>3. t.order \in Orders
  <2>1. TypeOK'
    BY <1>1, WritersTyped DEF BooksInv, WritersTypeOK
  <2>2. QED
    BY <1>1, <2>1 DEF TypeOK, TransactionRow
<1>4. NotBoss(t.order) /\ CourierOnce(t.order)
  BY <1>1, <1>3, NotBossSteps DEF NotBossInv
<1>5. CASE t \in transactions
  <2>1. t.user \in Drivers /\ t.user = order[t.order].driver
    BY <1>1, <1>4, <1>5 DEF PaidInv
  <2>2. [Next]_vars => order'[t.order].driver = order[t.order].driver
    BY <1>2, <1>3, <1>4, <2>1, Constants, StepCourierColumns
  <2>3. QED
    BY <1>1, <1>3, <1>4, <2>1, <2>2, NotBossSteps
<1>6. CASE t \notin transactions
  <2>1. [Next]_vars
    BY <1>1, <1>3, <1>4, <1>6, NotBossSteps
  <2>2. PICK r \in inflight :
          /\ r \in Requests
          /\ r.op \in {"confirmDelivery", "customerCommit"}
          /\ t.order = r.order
          /\ t.user = r.seen.driver
          /\ r.seen.driver \in Drivers
    BY <1>1, <1>2, <1>6, <2>1, NewFee
  <2>3. order[t.order].driver = t.user
    BY <1>4, <2>2, Constants DEF CourierOnce
  <2>4. order'[t.order].driver = order[t.order].driver
    BY <1>2, <1>3, <1>4, <2>1, <2>2, <2>3, Constants, StepCourierColumns
  <2>5. QED
    BY <2>2, <2>3, <2>4
<1>7. QED
  BY <1>5, <1>6

\* masterConfirmDelivery and customerConfirm pay the same courier however often
\* onDriverDelivered brings the order back to be confirmed.
THEOREM OneCourierIsPaid ==
  ASSUME OneSlot
  PROVE  WritersSpec => []OneCourierPaid
<1>1. WritersInit => PaidInv
  BY DEF WritersInit, Init, PaidInv
<1>2. BooksInv /\ NotBossInv /\ PaidInv /\ [WritersNext]_writersVars => PaidInv'
  BY StepPaid
<1>3. PaidInv => OneCourierPaid
  BY DEF PaidInv, OneCourierPaid, CourierTypes, NotBoss
<1>4. QED
  BY OneSlot, <1>1, <1>2, <1>3, AlwaysNotBoss, PTL DEF WritersSpec
=============================================================================
