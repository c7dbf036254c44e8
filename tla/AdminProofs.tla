---------------------------- MODULE AdminProofs -----------------------------
(* What AdminOrders guarantees for any number of requests and users.       *)
EXTENDS AdminProperties, SumProofs, TLAPS

RecalculateOps == {"recalculate", "recalculateMaster", "recalculateDriver"}

\* The constants in use, without the rest of the assumption.
LEMMA AdminConstants ==
  /\ Initial \in [Orders -> Row]
  /\ FirstRate \in [Staff -> Rates]
  /\ Sums \subseteq Nat
  /\ Rates \subseteq Nat
  /\ DeliveryFee \in Nat
  /\ AdminStatuses \subseteq OrderStatus
  /\ \A o \in Orders : Courier[o] # NoDriver => Courier[o] \in Drivers
BY AdminConstantsAssumption

\* A percentage of a natural number, rounded, is a natural number.
LEMMA PercentNat ==
  ASSUME NEW sum \in Nat, NEW p \in Nat
  PROVE  Percent(sum, p) \in Nat
<1>1. sum * p \in Nat
  OBVIOUS
<1>2. \A n \in Nat : (2 * n + 100) \div 200 \in Nat
  OBVIOUS
<1>3. 2 * sum * p = 2 * (sum * p)
  OBVIOUS
<1>4. QED
  BY <1>1, <1>2, <1>3 DEF Percent

\* The wages of an order are rows of that order, one of them its master's.
LEMMA WagesTyped ==
  ASSUME TypeOK, NEW o \in Orders
  PROVE  /\ Wages(o) \subseteq TransactionRow
         /\ \A t \in Wages(o) : t.order = o
         /\ \E t \in Wages(o) : t.type = "master_fee"
<1>1. /\ order[o] \in Row
      /\ order[o].master \in Masters
      /\ order[o].services \in Nat
  BY AdminConstants DEF TypeOK, Row
<1>2. \A u \in Staff : rate[u] \in Nat
  BY AdminConstants DEF TypeOK
<1>3. MasterWage(o) \in Nat
  BY <1>1, <1>2, PercentNat DEF MasterWage, Staff
<1>4. DriverWage(o) > 0 => Courier[o] \in Drivers /\ DriverWage(o) \in Nat
  <2>1. CASE order[o].delivery /\ Courier[o] # NoDriver
    <3>1. Courier[o] \in Drivers
      BY <2>1, AdminConstants
    <3>2. Percent(DeliveryFee, rate[Courier[o]]) \in Nat
      BY <3>1, <1>2, AdminConstants, PercentNat DEF Staff
    <3>3. QED
      BY <2>1, <3>1, <3>2 DEF DriverWage
  <2>2. CASE ~(order[o].delivery /\ Courier[o] # NoDriver)
    BY <2>2 DEF DriverWage
  <2>3. QED
    BY <2>1, <2>2
<1>5. Posting(o, order[o].master, "master_fee", MasterWage(o)) \in TransactionRow
  BY <1>1, <1>3 DEF Posting, TransactionRow, Staff
<1>6. DriverWage(o) > 0 =>
        Posting(o, Courier[o], "driver_fee", DriverWage(o)) \in TransactionRow
  BY <1>4 DEF Posting, TransactionRow, Staff
<1>7. QED
  BY <1>5, <1>6 DEF Wages, Posting

\* What a user is due and what a row amounts to are numbers.
LEMMA AmountsAreNumbers ==
  ASSUME NEW rows, rows \subseteq TransactionRow
  PROVE  /\ \A u : Due(rows, u) \in Int
         /\ \A type : Amount(rows, type) \in Int
<1>1. ASSUME NEW u PROVE Due(rows, u) \in Int
  <2>1. CASE \E t \in rows : t.user = u
    <3>1. (CHOOSE t \in rows : t.user = u) \in rows
      BY <2>1
    <3>2. QED
      BY <2>1, <3>1 DEF Due, TransactionRow
  <2>2. CASE ~ \E t \in rows : t.user = u
    BY <2>2 DEF Due
  <2>3. QED
    BY <2>1, <2>2
<1>2. ASSUME NEW type PROVE Amount(rows, type) \in Int
  <2>1. CASE \E t \in rows : t.type = type
    <3>1. (CHOOSE t \in rows : t.type = type) \in rows
      BY <2>1
    <3>2. QED
      BY <2>1, <3>1 DEF Amount, TransactionRow
  <2>2. CASE ~ \E t \in rows : t.type = type
    BY <2>2 DEF Amount
  <2>3. QED
    BY <2>1, <2>2
<1>3. QED
  BY <1>1, <1>2

\* The rows a recalculation takes as the old ones are rows of its order.
LEMMA FirstOfTyped ==
  ASSUME TypeOK, NEW o \in Orders, NEW type, NEW m \in FirstOf(o, type)
  PROVE  m \subseteq TransactionRow /\ \A t \in m : t.order = o
BY DEF FirstOf, TypeOK

\* A request in its stages: its fields stay what they are.
LEMMA RecalculateFields ==
  ASSUME NEW r \in Requests, r.op \in RecalculateOps
  PROVE  r \in [slot : Slots, op : RecalculateOps, order : Orders, master : Masters,
                rows : SUBSET TransactionRow, old : SUBSET TransactionRow,
                readMaster : Int, readDriver : Int]
BY DEF Requests, RecalculateOps

\* Every request is about an order.
LEMMA RequestOrder == ASSUME NEW r \in Requests PROVE r.order \in Orders
BY DEF Requests
-----------------------------------------------------------------------------
(* The type invariant.                                                     *)

\* A step leaves all variables of the right types.
LEMMA StepTyped == TypeOK /\ [Next]_vars => TypeOK'
<1> SUFFICES ASSUME TypeOK, [Next]_vars PROVE TypeOK'
  OBVIOUS
<1>1. ASSUME NEW s \in Slots, NEW o \in Orders, Finish(s, o) PROVE TypeOK'
  BY <1>1 DEF TypeOK, Finish, Begin, Requests
<1>2. ASSUME NEW s \in Slots, NEW o \in Orders, CustomerConfirm(s, o) PROVE TypeOK'
  <2>1. Wages(o) \subseteq TransactionRow
    BY WagesTyped
  <2>2. QED
    BY <1>2, <2>1 DEF TypeOK, CustomerConfirm, Begin, Requests
<1>3. ASSUME NEW s \in Slots, NEW o \in Orders, RecalculateOrderFees(s, o) PROVE TypeOK'
  <2>1. PICK m \in FirstOf(o, "master_fee"), d \in FirstOf(o, "driver_fee") :
          Begin(s, [slot |-> s, op |-> "recalculate", order |-> o,
                    master |-> order[o].master, rows |-> Wages(o), old |-> m \cup d,
                    readMaster |-> 0, readDriver |-> 0])
    BY <1>3 DEF RecalculateOrderFees
  <2>2. m \cup d \subseteq TransactionRow /\ Wages(o) \subseteq TransactionRow
    BY FirstOfTyped, WagesTyped
  <2>3. order[o].master \in Masters
    BY DEF TypeOK, Row
  <2>4. [slot |-> s, op |-> "recalculate", order |-> o,
         master |-> order[o].master, rows |-> Wages(o), old |-> m \cup d,
         readMaster |-> 0, readDriver |-> 0] \in Requests
    BY <2>2, <2>3 DEF Requests
  <2>5. QED
    BY <1>3, <2>1, <2>4 DEF TypeOK, RecalculateOrderFees, Begin
<1>4. ASSUME NEW s \in Slots, NEW o \in Orders, NEW patch \in Patches,
             UpdateOrder(s, o, patch)
      PROVE  TypeOK'
  <2>1. [slot |-> s, op |-> "updateOrder", order |-> o, patch |-> patch] \in Requests
    BY DEF Requests
  <2>2. Patched(order[o].services, patch.services) \in Sums
    BY DEF Patched, Patches, TypeOK, Row
  <2>3. order' \in [Orders -> Row]
    BY <1>4, <2>2 DEF UpdateOrder, TypeOK, Row
  <2>4. QED
    BY <1>4, <2>1, <2>3 DEF UpdateOrder, TypeOK, Begin
<1>5. ASSUME NEW r \in inflight, FinishWrite(r) PROVE TypeOK'
  <2>1. r.order \in Orders
    BY RequestOrder DEF TypeOK
  <2>2. order' \in [Orders -> Row]
    BY <1>5, <2>1 DEF FinishWrite, TypeOK, Row, OrderStatus
  <2>3. QED
    BY <1>5, <2>2 DEF FinishWrite, TypeOK
<1>6. ASSUME NEW r \in inflight, CustomerCommit(r) PROVE TypeOK'
  <2>1. r.order \in Orders /\ r.rows \subseteq TransactionRow
    BY <1>6, RequestOrder DEF CustomerCommit, TypeOK, Requests
  <2>2. order' \in [Orders -> Row]
    BY <1>6, <2>1 DEF CustomerCommit, TypeOK, Row, OrderStatus
  <2>3. balance' \in [Staff -> Int]
    <3>1. \A u \in Staff : Due(r.rows, u) \in Int
      BY <2>1, AmountsAreNumbers
    <3>2. \A u \in Staff : balance[u] + Due(r.rows, u) \in Int
      BY <3>1 DEF TypeOK
    <3>3. QED
      BY <1>6, <3>2 DEF CustomerCommit
  <2>4. QED
    BY <1>6, <2>1, <2>2, <2>3 DEF CustomerCommit, TypeOK
<1>7. ASSUME NEW r \in inflight, UpdateOrderWrite(r) PROVE TypeOK'
  <2>1. r.order \in Orders /\ r.patch \in Patches
    BY <1>7, RequestOrder DEF UpdateOrderWrite, TypeOK, Requests
  <2>2. /\ Patched(order[r.order].master, r.patch.master) \in Masters
        /\ Patched(order[r.order].delivery, r.patch.delivery) \in BOOLEAN
    BY <2>1 DEF Patched, Patches, TypeOK, Row
  <2>3. order' \in [Orders -> Row]
    BY <1>7, <2>1, <2>2 DEF UpdateOrderWrite, TypeOK, Row
  <2>4. QED
    BY <1>7, <2>3 DEF UpdateOrderWrite, TypeOK
<1>8. ASSUME NEW r \in inflight, RecalculateDelete(r) PROVE TypeOK'
  <2>1. balance[r.master] \in Int
    BY <1>8, RecalculateFields
       DEF RecalculateDelete, RecalculateOps, TypeOK, Staff
  <2>2. [r EXCEPT !.op = "recalculateMaster", !.readMaster = balance[r.master]] \in Requests
    BY <1>8, <2>1, RecalculateFields
       DEF RecalculateDelete, RecalculateOps, TypeOK, Requests
  <2>3. QED
    BY <1>8, <2>2 DEF RecalculateDelete, TypeOK
<1>9. ASSUME NEW r \in inflight, RecalculateMaster(r) PROVE TypeOK'
  <2> DEFINE read == IF Courier[r.order] = NoDriver THEN 0 ELSE balance[Courier[r.order]]
  <2>1. read \in Int
    BY RequestOrder, AdminConstants DEF TypeOK, Staff
  <2>2. [r EXCEPT !.op = "recalculateDriver", !.readDriver = read] \in Requests
    BY <1>9, <2>1, RecalculateFields
       DEF RecalculateMaster, RecalculateOps, TypeOK, Requests
  <2>3. QED
    BY <1>9, <2>2 DEF RecalculateMaster, TypeOK
<1>10. ASSUME NEW r \in inflight, RecalculateCommit(r) PROVE TypeOK'
  <2>1. /\ r.rows \subseteq TransactionRow /\ r.old \subseteq TransactionRow
        /\ r.readMaster \in Int /\ r.readDriver \in Int
    BY <1>10, RecalculateFields DEF RecalculateCommit, RecalculateOps, TypeOK
  <2>2. \A type : Change(r, type) \in Int
    BY <2>1, AmountsAreNumbers DEF Change
  <2>3. balance' \in [Staff -> Int]
    BY <1>10, <2>1, <2>2 DEF RecalculateCommit, TypeOK
  <2>4. QED
    BY <1>10, <2>1, <2>3 DEF RecalculateCommit, TypeOK
<1>11. ASSUME NEW r \in inflight, RequestFails(r) PROVE TypeOK'
  BY <1>11 DEF RequestFails, TypeOK
<1>12. ASSUME NEW o \in Orders, NEW status \in AdminStatuses, UpdateOrderStatus(o, status)
       PROVE  TypeOK'
  BY <1>12, AdminConstants DEF UpdateOrderStatus, TypeOK, Row
<1>13. ASSUME NEW u \in Staff, NEW p \in Rates, UpdateUser(u, p) PROVE TypeOK'
  BY <1>13 DEF UpdateUser, TypeOK
<1>14. ASSUME UNCHANGED vars PROVE TypeOK'
  BY <1>14 DEF vars, TypeOK
<1>15. QED
  BY <1>1, <1>2, <1>3, <1>4, <1>5, <1>6, <1>7, <1>8, <1>9, <1>10, <1>11, <1>12, <1>13, <1>14
     DEF Next, Requested, Continued

\* Every handler of the boss and of the settlement beside him leaves rows and
\* requests of the types the schema allows.
THEOREM AdminTypeCorrect == Spec => []TypeOK
<1>1. Init => TypeOK
  BY AdminConstants DEF Init, TypeOK
<1>2. QED
  BY <1>1, StepTyped, PTL DEF Spec
-----------------------------------------------------------------------------
(* A wage is replaced, never lost.                                         *)

\* A recalculation deletes rows of its own order only, and will create a row
\* for that order's master.
ReplacesWage(r) ==
  r.op \in RecalculateOps =>
    /\ \A t \in r.old : t.order = r.order
    /\ \E t \in r.rows : t.order = r.order /\ t.type = "master_fee"

ReplaceInv == \A r \in inflight : ReplacesWage(r)

\* Only RecalculateOrderFees starts one, and no step changes its rows.
LEMMA StepReplaces == TypeOK /\ ReplaceInv /\ [Next]_vars => ReplaceInv'
<1> SUFFICES ASSUME TypeOK, ReplaceInv, [Next]_vars, NEW q \in inflight'
             PROVE  ReplacesWage(q)
  BY DEF ReplaceInv, ReplacesWage
<1>1. CASE q \in inflight
  BY <1>1 DEF ReplaceInv
<1>2. ASSUME q \notin inflight, NEW s \in Slots, NEW o \in Orders, Requested(s, o)
      PROVE  ReplacesWage(q)
  <2>1. CASE Finish(s, o)
    BY <1>2, <2>1 DEF Finish, Begin, ReplacesWage, RecalculateOps
  <2>2. CASE CustomerConfirm(s, o)
    BY <1>2, <2>2 DEF CustomerConfirm, Begin, ReplacesWage, RecalculateOps
  <2>3. CASE \E patch \in Patches : UpdateOrder(s, o, patch)
    BY <1>2, <2>3 DEF UpdateOrder, Begin, ReplacesWage, RecalculateOps
  <2>4. CASE RecalculateOrderFees(s, o)
    <3>1. PICK m \in FirstOf(o, "master_fee"), d \in FirstOf(o, "driver_fee") :
            q = [slot |-> s, op |-> "recalculate", order |-> o,
                 master |-> order[o].master, rows |-> Wages(o), old |-> m \cup d,
                 readMaster |-> 0, readDriver |-> 0]
      BY <1>2, <2>4 DEF RecalculateOrderFees, Begin
    <3>2. /\ \A t \in m \cup d : t.order = o
          /\ \E t \in Wages(o) : t.order = o /\ t.type = "master_fee"
      BY FirstOfTyped, WagesTyped
    <3>3. QED
      BY <3>1, <3>2 DEF ReplacesWage
  <2>5. QED
    BY <1>2, <2>1, <2>2, <2>3, <2>4 DEF Requested
<1>3. ASSUME q \notin inflight, NEW r \in inflight, Continued(r)
      PROVE  ReplacesWage(q)
  <2>1. r \in Requests
    BY DEF TypeOK
  <2>2. CASE RecalculateDelete(r)
    <3>1. q = [r EXCEPT !.op = "recalculateMaster", !.readMaster = balance[r.master]]
      BY <1>3, <2>2 DEF RecalculateDelete
    <3>2. q.order = r.order /\ q.rows = r.rows /\ q.old = r.old
      BY <2>1, <2>2, <3>1, RecalculateFields DEF RecalculateDelete, RecalculateOps
    <3>3. QED
      BY <2>2, <3>2 DEF ReplaceInv, ReplacesWage, RecalculateDelete, RecalculateOps
  <2>3. CASE RecalculateMaster(r)
    <3>1. PICK n : q = [r EXCEPT !.op = "recalculateDriver", !.readDriver = n]
      BY <1>3, <2>3 DEF RecalculateMaster
    <3>2. q.order = r.order /\ q.rows = r.rows /\ q.old = r.old
      BY <2>1, <2>3, <3>1, RecalculateFields DEF RecalculateMaster, RecalculateOps
    <3>3. QED
      BY <2>3, <3>2 DEF ReplaceInv, ReplacesWage, RecalculateMaster, RecalculateOps
  <2>4. CASE inflight' \subseteq inflight
    BY <1>3, <2>4
  <2>5. QED
    BY <1>3, <2>2, <2>3, <2>4
       DEF Continued, FinishWrite, CustomerCommit, UpdateOrderWrite, RequestFails,
           RecalculateCommit
<1>4. ASSUME q \notin inflight
      PROVE  \/ \E s \in Slots, o \in Orders : Requested(s, o)
             \/ \E r \in inflight : Continued(r)
  BY <1>4 DEF Next, vars, UpdateOrderStatus, UpdateUser
<1>5. QED
  BY <1>1, <1>2, <1>3, <1>4

\* A step that takes a wage away puts one for the same order in its place.
LEMMA StepKeepsWage ==
  TypeOK /\ ReplaceInv /\ [Next]_vars => \A o \in Orders : Paid(o) => Paid(o)'
<1> SUFFICES ASSUME TypeOK, ReplaceInv, [Next]_vars, NEW o \in Orders, Paid(o)
             PROVE  Paid(o)'
  OBVIOUS
<1>1. PICK t \in transactions : t.order = o /\ t.type = "master_fee"
  BY DEF Paid
<1>2. ASSUME NEW r \in inflight, RecalculateCommit(r) PROVE Paid(o)'
  <2>1. ReplacesWage(r) /\ r.op \in RecalculateOps
    BY <1>2 DEF ReplaceInv, RecalculateCommit, RecalculateOps
  <2>2. CASE r.order = o
    BY <1>2, <2>1, <2>2 DEF ReplacesWage, RecalculateCommit, Paid
  <2>3. CASE r.order # o
    <3>1. t \notin r.old
      BY <1>1, <2>1, <2>3 DEF ReplacesWage
    <3>2. QED
      BY <1>1, <1>2, <3>1 DEF RecalculateCommit, Paid
  <2>4. QED
    BY <2>2, <2>3
<1>3. ASSUME transactions \subseteq transactions' PROVE Paid(o)'
  BY <1>1, <1>3 DEF Paid
<1>4. \/ transactions \subseteq transactions'
      \/ \E r \in inflight : RecalculateCommit(r)
  BY DEF Next, vars, Requested, Continued, Finish, CustomerConfirm, UpdateOrder,
         RecalculateOrderFees, FinishWrite, CustomerCommit, UpdateOrderWrite,
         RecalculateDelete, RecalculateMaster, RequestFails, UpdateOrderStatus, UpdateUser
<1>5. QED
  BY <1>2, <1>3, <1>4

\* However recalculations of any orders overlap with each other, with
\* settlements and with failures, an order that has been paid for is never
\* seen without its master's wage.
THEOREM WagesSurvive == Spec => WageSurvives
<1>1. Init => TypeOK /\ ReplaceInv
  BY AdminConstants DEF Init, TypeOK, ReplaceInv
<1>2. TypeOK /\ ReplaceInv /\ [Next]_vars => (TypeOK /\ ReplaceInv)'
  BY StepTyped, StepReplaces
<1>3. TypeOK /\ ReplaceInv /\ [Next]_vars => [\A o \in Orders : Paid(o) => Paid(o)']_vars
  BY StepKeepsWage
<1>4. QED
  BY <1>1, <1>2, <1>3, PTL DEF Spec, WageSurvives
-----------------------------------------------------------------------------
(***************************************************************************)
(* The balances, when no two requests under way share a payee and no order *)
(* changes hands. Without the first an increment is lost, without the      *)
(* second the wrong master pays for the old wage.                          *)
(***************************************************************************)

Payees(o) == {order[o].master} \cup ({Courier[o]} \cap Drivers)

PayeesApart ==
  \A q, r \in inflight : q.order # r.order => Payees(q.order) \cap Payees(r.order) = {}

MastersStay == \A o \in Orders : order'[o].master = order[o].master

AsBegun == \A o \in Orders : order[o].master = Initial[o].master

\* Whom a wage of an order goes to.
PayeeOf(o, type) == IF type = "master_fee" THEN Initial[o].master ELSE Courier[o]

\* Rows of one order, each for its payee, at most one of each type.
Slip(rows, o) ==
  /\ \A t \in rows : t.order = o /\ t.user = PayeeOf(o, t.type)
  /\ \A t, x \in rows : t.type = x.type => t = x

HasWage(rows) == \E t \in rows : t.type = "master_fee"

\* The rows on the books are slips too, and none of them is without the wage.
Books ==
  /\ \A t \in transactions : t.user = PayeeOf(t.order, t.type) /\ Paid(t.order)
  /\ \A t, x \in transactions : t.order = x.order /\ t.type = x.type => t = x

\* What a request carries.
Paper(r) ==
  /\ r.op \in RecalculateOps \cup {"customerConfirm"} => Slip(r.rows, r.order) /\ HasWage(r.rows)
  /\ r.op \in RecalculateOps => /\ r.master = Initial[r.order].master
                                /\ Slip(r.old, r.order)
                                /\ r.old = {} \/ HasWage(r.old)

Papers == \A r \in inflight : Paper(r)

\* In its $transaction a recalculation has the rows it deletes to itself, and
\* the balances it has read are still those, unless the order it found unpaid
\* has been paid since: then the unique index will refuse it.
Staged(r) == r.op \in {"recalculateMaster", "recalculateDriver"}

Fresh(r) ==
  /\ r.readMaster = balance[r.master]
  /\ r.op = "recalculateDriver" /\ Courier[r.order] \in Drivers
       => r.readDriver = balance[Courier[r.order]]

Refused(r) == r.old = {} /\ Paid(r.order)

Sound(r) == r.old \subseteq transactions /\ (Fresh(r) \/ Refused(r))

Stages ==
  /\ \A r \in inflight : Staged(r) => Sound(r)
  /\ \A q, r \in inflight : Staged(q) /\ Staged(r) /\ q # r => q.old \cap r.old = {}

RowsOf(u) == {t \in transactions : t.user = u}

SumsKept ==
  /\ IsFiniteSet(transactions)
  /\ \A u \in Staff : balance[u] = AmountsOf(RowsOf(u))
-----------------------------------------------------------------------------
\* An order's wages are a slip with the master's wage on it.
LEMMA WagesSlip ==
  ASSUME TypeOK, AsBegun, NEW o \in Orders
  PROVE  Slip(Wages(o), o) /\ HasWage(Wages(o))
<1>1. HasWage(Wages(o))
  BY WagesTyped DEF HasWage
<1>2. order[o].master = Initial[o].master
  BY DEF AsBegun
<1>3. QED
  BY <1>1, <1>2 DEF Slip, Wages, Posting, PayeeOf

\* So are the old rows a recalculation finds, unless it finds none.
LEMMA FoundSlip ==
  ASSUME TypeOK, Books, NEW o \in Orders,
         NEW m \in FirstOf(o, "master_fee"), NEW d \in FirstOf(o, "driver_fee")
  PROVE  Slip(m \cup d, o) /\ (m \cup d = {} \/ HasWage(m \cup d))
<1>1. m \cup d \subseteq {t \in transactions : t.order = o}
  BY DEF FirstOf
<1>2. Slip(m \cup d, o)
  BY <1>1 DEF Books, Slip
<1>3. Paid(o) => HasWage(m)
  BY DEF FirstOf, Paid, HasWage
<1>4. m \cup d # {} => Paid(o)
  BY <1>1 DEF Books
<1>5. QED
  BY <1>2, <1>3, <1>4 DEF HasWage

\* A stage only changes what a recalculation has read: the master's balance ...
LEMMA ToMaster ==
  ASSUME TypeOK, NEW r \in inflight, RecalculateDelete(r)
  PROVE  \E n : /\ inflight' = (inflight \ {r}) \cup {n}
                /\ n.op = "recalculateMaster" /\ n.readMaster = balance[r.master]
                /\ n.order = r.order /\ n.rows = r.rows /\ n.old = r.old /\ n.master = r.master
<1>1. r.op \in RecalculateOps
  BY DEF RecalculateDelete, RecalculateOps
<1>2. r \in [slot : Slots, op : RecalculateOps, order : Orders, master : Masters,
             rows : SUBSET TransactionRow, old : SUBSET TransactionRow,
             readMaster : Int, readDriver : Int]
  BY <1>1, RecalculateFields DEF TypeOK
<1>3. PICK n : n = [r EXCEPT !.op = "recalculateMaster", !.readMaster = balance[r.master]]
  OBVIOUS
<1>4. /\ n.op = "recalculateMaster" /\ n.readMaster = balance[r.master]
      /\ n.order = r.order /\ n.rows = r.rows /\ n.old = r.old /\ n.master = r.master
  BY <1>2, <1>3
<1>5. inflight' = (inflight \ {r}) \cup {n}
  BY <1>3 DEF RecalculateDelete
<1>6. QED
  BY <1>4, <1>5

\* ... or the driver's.
LEMMA ToDriver ==
  ASSUME TypeOK, NEW r \in inflight, RecalculateMaster(r)
  PROVE  \E n : /\ inflight' = (inflight \ {r}) \cup {n}
                /\ n.op = "recalculateDriver" /\ n.readMaster = r.readMaster
                /\ Courier[r.order] # NoDriver => n.readDriver = balance[Courier[r.order]]
                /\ n.order = r.order /\ n.rows = r.rows /\ n.old = r.old /\ n.master = r.master
<1>1. r.op \in RecalculateOps
  BY DEF RecalculateMaster, RecalculateOps
<1>2. r \in [slot : Slots, op : RecalculateOps, order : Orders, master : Masters,
             rows : SUBSET TransactionRow, old : SUBSET TransactionRow,
             readMaster : Int, readDriver : Int]
  BY <1>1, RecalculateFields DEF TypeOK
<1>3. PICK read : read = IF Courier[r.order] = NoDriver THEN 0 ELSE balance[Courier[r.order]]
  OBVIOUS
<1>4. PICK n : n = [r EXCEPT !.op = "recalculateDriver", !.readDriver = read]
  OBVIOUS
<1>5. /\ n.op = "recalculateDriver" /\ n.readDriver = read /\ n.readMaster = r.readMaster
      /\ n.order = r.order /\ n.rows = r.rows /\ n.old = r.old /\ n.master = r.master
  BY <1>2, <1>4
<1>6. inflight' = (inflight \ {r}) \cup {n}
  BY <1>3, <1>4 DEF RecalculateMaster
<1>7. QED
  BY <1>3, <1>5, <1>6

\* The kinds of step there are for requests, rows and balances.
LEMMA StepKinds ==
  ASSUME TypeOK, [Next]_vars
  PROVE  \/ inflight' \subseteq inflight /\ UNCHANGED <<transactions, balance>>
         \/ \E s \in Slots, o \in Orders : Requested(s, o)
         \/ \E r \in inflight : RecalculateDelete(r) \/ RecalculateMaster(r)
         \/ \E r \in inflight : CustomerCommit(r) \/ RecalculateCommit(r)
BY DEF Next, vars, Continued, FinishWrite, UpdateOrderWrite, RequestFails,
       UpdateOrderStatus, UpdateUser

\* Requests carry slips.
LEMMA StepPapers ==
  TypeOK /\ AsBegun /\ Books /\ Papers /\ [Next]_vars => Papers'
<1> SUFFICES ASSUME TypeOK, AsBegun, Books, Papers, [Next]_vars, NEW q \in inflight'
             PROVE  Paper(q)
  BY DEF Papers, Paper
<1>1. CASE q \in inflight
  BY <1>1 DEF Papers
<1>2. ASSUME q \notin inflight, NEW s \in Slots, NEW o \in Orders, Requested(s, o)
      PROVE  Paper(q)
  <2>1. CASE Finish(s, o) \/ \E patch \in Patches : UpdateOrder(s, o, patch)
    BY <1>2, <2>1 DEF Finish, UpdateOrder, Begin, Paper, RecalculateOps
  <2>2. CASE CustomerConfirm(s, o)
    BY <1>2, <2>2, WagesSlip DEF CustomerConfirm, Begin, Paper, RecalculateOps
  <2>3. CASE RecalculateOrderFees(s, o)
    <3>1. PICK m \in FirstOf(o, "master_fee"), d \in FirstOf(o, "driver_fee") :
            q = [slot |-> s, op |-> "recalculate", order |-> o,
                 master |-> order[o].master, rows |-> Wages(o), old |-> m \cup d,
                 readMaster |-> 0, readDriver |-> 0]
      BY <1>2, <2>3 DEF RecalculateOrderFees, Begin
    <3>2. Slip(m \cup d, o) /\ (m \cup d = {} \/ HasWage(m \cup d))
      BY FoundSlip
    <3>3. Slip(Wages(o), o) /\ HasWage(Wages(o)) /\ order[o].master = Initial[o].master
      BY WagesSlip DEF AsBegun
    <3>4. QED
      BY <3>1, <3>2, <3>3 DEF Paper
  <2>4. QED
    BY <1>2, <2>1, <2>2, <2>3 DEF Requested
<1>3. ASSUME q \notin inflight, NEW r \in inflight, RecalculateDelete(r) \/ RecalculateMaster(r)
      PROVE  Paper(q)
  <2>1. r.op \in RecalculateOps
    BY <1>3 DEF RecalculateDelete, RecalculateMaster, RecalculateOps
  <2>2. q.order = r.order /\ q.rows = r.rows /\ q.old = r.old /\ q.master = r.master
    BY <1>3, ToMaster, ToDriver
  <2>3. QED
    BY <2>1, <2>2 DEF Papers, Paper
<1>4. ASSUME NEW r \in inflight, CustomerCommit(r) \/ RecalculateCommit(r)
      PROVE  q \in inflight
  BY <1>4 DEF CustomerCommit, RecalculateCommit
<1>5. QED
  BY <1>1, <1>2, <1>3, <1>4, StepKinds

\* Each commit leaves slips on the books.
LEMMA StepBooks ==
  TypeOK /\ ReplaceInv /\ Books /\ Papers /\ [Next]_vars => Books'
<1> SUFFICES ASSUME TypeOK, ReplaceInv, Books, Papers, [Next]_vars PROVE Books'
  OBVIOUS
<1>1. CASE UNCHANGED transactions
  BY <1>1 DEF Books, Paid
<1>2. ASSUME NEW r \in inflight, NEW gone,
             transactions' = (transactions \ gone) \cup r.rows,
             Fits(r.rows, transactions \ gone),
             Slip(r.rows, r.order), HasWage(r.rows)
      PROVE  Books'
  <2>1. \A t \in transactions' : t.user = PayeeOf(t.order, t.type)
    BY <1>2 DEF Books, Slip
  <2>2. \A t \in transactions' : Paid(t.order)'
    <3>1. TAKE t \in transactions'
    <3>2. CASE t \in r.rows
      BY <1>2, <3>2 DEF Slip, HasWage, Paid
    <3>3. CASE t \in transactions
      <4>1. Paid(t.order) /\ t.order \in Orders
        BY <3>3 DEF Books, TypeOK, TransactionRow
      <4>2. QED
        BY <4>1, StepKeepsWage
    <3>4. QED
      BY <1>2, <3>1, <3>2, <3>3
  <2>3. ASSUME NEW t \in r.rows, NEW x \in transactions \ gone,
               t.order = x.order, t.type = x.type
        PROVE  FALSE
    <3>1. t.user = x.user
      BY <1>2, <2>3 DEF Slip, Books
    <3>2. QED
      BY <1>2, <2>3, <3>1 DEF Fits
  <2>4. \A t, x \in transactions' : t.order = x.order /\ t.type = x.type => t = x
    BY <1>2, <2>3 DEF Books, Slip
  <2>5. QED
    BY <2>1, <2>2, <2>4 DEF Books
<1>3. ASSUME NEW r \in inflight, CustomerCommit(r) PROVE Books'
  <2>1. Slip(r.rows, r.order) /\ HasWage(r.rows)
    BY <1>3 DEF CustomerCommit, Papers, Paper
  <2>2. QED
    <3>1. transactions' = (transactions \ {}) \cup r.rows /\ Fits(r.rows, transactions \ {})
      BY <1>3 DEF CustomerCommit
    <3>2. QED
      BY <2>1, <3>1, <1>2
<1>4. ASSUME NEW r \in inflight, RecalculateCommit(r) PROVE Books'
  <2>1. Slip(r.rows, r.order) /\ HasWage(r.rows)
    BY <1>4 DEF RecalculateCommit, Papers, Paper, RecalculateOps
  <2>2. QED
    BY <1>2, <1>4, <2>1 DEF RecalculateCommit
<1>5. QED
  BY <1>1, <1>3, <1>4, StepKinds
     DEF Requested, Finish, CustomerConfirm, UpdateOrder, RecalculateOrderFees,
         RecalculateDelete, RecalculateMaster

\* Whoever commits wages of an order on which another recalculation is in its
\* $transaction, the other has found the order unpaid.
LEMMA OthersFoundNothing ==
  ASSUME Books, Papers, Stages, NEW r \in inflight, Staged(r), NEW q \in inflight,
         q.order = r.order, Slip(q.rows, q.order), HasWage(q.rows),
         NEW gone, gone \cap r.old = {}, Fits(q.rows, transactions \ gone)
  PROVE  r.old = {}
<1>1. /\ r.old = {} \/ HasWage(r.old)
      /\ Slip(r.old, r.order)
      /\ r.old \subseteq transactions
  BY DEF Papers, Paper, Stages, Sound, Staged, RecalculateOps
<1>2. ASSUME NEW t \in r.old, t.type = "master_fee" PROVE FALSE
  <2>1. PICK x \in q.rows : x.type = "master_fee"
    BY DEF HasWage
  <2>2. x.order = t.order /\ x.user = t.user
    BY <1>1, <1>2, <2>1 DEF Slip
  <2>3. t \in transactions \ gone
    BY <1>1, <1>2
  <2>4. QED
    BY <1>2, <2>1, <2>2, <2>3 DEF Fits
<1>3. QED
  BY <1>1, <1>2 DEF HasWage

\* The payees of a recalculation.
LEMMA WhoIsPaid ==
  ASSUME TypeOK, AsBegun, Papers, NEW r \in inflight
  PROVE  /\ r.order \in Orders
         /\ \A type : PayeeOf(r.order, type) \in Staff => PayeeOf(r.order, type) \in Payees(r.order)
         /\ r.op \in RecalculateOps => r.master \in Payees(r.order) /\ r.master \in Masters
<1>1. r.order \in Orders /\ order[r.order].master = Initial[r.order].master
  BY RequestOrder DEF TypeOK, AsBegun
<1>2. /\ Initial[r.order].master \in Masters
      /\ Courier[r.order] \in Staff => Courier[r.order] \in Drivers
  BY <1>1, AdminConstantsAssumption DEF Row, Staff
<1>3. QED
  BY <1>1, <1>2 DEF PayeeOf, Payees, Papers, Paper

\* A user nobody pays gets nothing.
LEMMA NothingDue ==
  ASSUME NEW rows, NEW u, \A t \in rows : t.user # u
  PROVE  Due(rows, u) = 0
BY DEF Due

\* A commit moves the balances of its order's payees only.
LEMMA OthersUnmoved ==
  ASSUME TypeOK, AsBegun, Papers, NEW q \in inflight, CustomerCommit(q) \/ RecalculateCommit(q),
         NEW u \in Staff, u \notin Payees(q.order)
  PROVE  balance'[u] = balance[u]
<1>1. CASE CustomerCommit(q)
  <2>1. \A t \in q.rows : t.user \in Staff /\ t.user = PayeeOf(q.order, t.type)
    BY <1>1 DEF CustomerCommit, TypeOK, Requests, TransactionRow, Papers, Paper, Slip
  <2>2. Due(q.rows, u) = 0
    BY <2>1, WhoIsPaid, NothingDue
  <2>3. QED
    BY <1>1, <2>2 DEF CustomerCommit, TypeOK
<1>2. CASE RecalculateCommit(q)
  <2>1. q.op \in RecalculateOps
    BY <1>2 DEF RecalculateCommit, RecalculateOps
  <2>2. u # q.master
    BY <2>1, WhoIsPaid
  <2>3. u # Courier[q.order]
    <3>1. q.order \in Orders /\ Courier[q.order] \in Drivers \cup {NoDriver}
      BY WhoIsPaid, AdminConstantsAssumption
    <3>2. QED
      BY <3>1, AdminConstantsAssumption DEF Payees, Staff
  <2>4. QED
    BY <1>2, <2>2, <2>3 DEF RecalculateCommit
<1>3. QED
  BY <1>1, <1>2

\* A recalculation enters its $transaction with what it finds there.
LEMMA StageBegins ==
  ASSUME TypeOK, Stages, NEW r \in inflight, RecalculateDelete(r)
  PROVE  Stages'
<1>1. PICK n : /\ inflight' = (inflight \ {r}) \cup {n}
               /\ n.op = "recalculateMaster" /\ n.readMaster = balance[r.master]
               /\ n.old = r.old /\ n.master = r.master
  BY ToMaster
<1>2. UNCHANGED <<transactions, balance>>
  BY DEF RecalculateDelete
<1>3. Sound(n)'
  BY <1>1, <1>2 DEF RecalculateDelete, Sound, Fresh
<1>4. ASSUME NEW q \in inflight, Staged(q) PROVE q.old \cap n.old = {}
  BY <1>1, <1>4 DEF RecalculateDelete, Deleting, Staged
<1>5. \A q \in inflight : Staged(q) => Sound(q)'
  BY <1>2 DEF Stages, Sound, Fresh, Refused, Paid
<1>6. QED
  BY <1>1, <1>3, <1>4, <1>5 DEF Stages, Staged

\* It goes on to the driver with the master's balance as it was read.
LEMMA StageGoesOn ==
  ASSUME TypeOK, Stages, NEW r \in inflight, RecalculateMaster(r)
  PROVE  Stages'
<1>1. PICK n : /\ inflight' = (inflight \ {r}) \cup {n}
               /\ n.op = "recalculateDriver" /\ n.readMaster = r.readMaster
               /\ Courier[r.order] # NoDriver => n.readDriver = balance[Courier[r.order]]
               /\ n.order = r.order /\ n.old = r.old /\ n.master = r.master
  BY ToDriver
<1>2. Staged(r) /\ UNCHANGED <<transactions, balance>>
  BY DEF RecalculateMaster, Staged
<1>3. Courier[r.order] \in Drivers => Courier[r.order] # NoDriver
  BY AdminConstantsAssumption
<1>4. Sound(n)'
  BY <1>1, <1>2, <1>3 DEF Stages, Sound, Fresh, Refused, Paid, RecalculateMaster
<1>5. ASSUME NEW q \in inflight, Staged(q), q # r PROVE q.old \cap n.old = {}
  BY <1>1, <1>2, <1>5 DEF Stages
<1>6. \A q \in inflight : Staged(q) => Sound(q)'
  BY <1>2 DEF Stages, Sound, Fresh, Refused, Paid
<1>7. QED
  BY <1>1, <1>4, <1>5, <1>6 DEF Stages, Staged

\* A commit leaves the other recalculations what they read, or refused.
LEMMA StageSurvives ==
  ASSUME TypeOK, AsBegun, Books, Papers, Stages, PayeesApart,
         NEW q \in inflight, CustomerCommit(q) \/ RecalculateCommit(q)
  PROVE  Stages'
<1>1. inflight' = inflight \ {q} /\ q.order \in Orders
  BY WhoIsPaid DEF CustomerCommit, RecalculateCommit
<1>2. PICK gone : /\ transactions' = (transactions \ gone) \cup q.rows
                  /\ Fits(q.rows, transactions \ gone)
                  /\ \A t \in gone : t.order = q.order
                  /\ \A r \in inflight : Staged(r) /\ r # q => gone \cap r.old = {}
  <2>1. CASE CustomerCommit(q)
    <3>1. /\ transactions' = (transactions \ {}) \cup q.rows
          /\ Fits(q.rows, transactions \ {})
          /\ \A t \in {} : t.order = q.order
          /\ \A r \in inflight : Staged(r) /\ r # q => {} \cap r.old = {}
      BY <2>1 DEF CustomerCommit
    <3>2. QED
      BY <3>1, Zenon
  <2>2. CASE RecalculateCommit(q)
    <3>1. Staged(q) /\ Slip(q.old, q.order)
      BY <2>2 DEF RecalculateCommit, Staged, Papers, Paper, RecalculateOps
    <3>2. QED
      BY <2>2, <3>1 DEF RecalculateCommit, Stages, Slip
  <2>3. QED
    BY <2>1, <2>2
<1>3. Slip(q.rows, q.order) /\ HasWage(q.rows)
  BY DEF CustomerCommit, RecalculateCommit, Papers, Paper, RecalculateOps
<1>4. ASSUME NEW r \in inflight, Staged(r), r # q PROVE Sound(r)'
  <2>1. r.old \subseteq transactions /\ gone \cap r.old = {} /\ (Fresh(r) \/ Refused(r))
    BY <1>2, <1>4 DEF Stages, Sound
  <2>2. r.old \subseteq transactions'
    BY <1>2, <2>1
  <2>3. CASE q.order = r.order
    <3>1. r.old = {}
      BY <1>2, <1>3, <1>4, <2>1, <2>3, OthersFoundNothing
    <3>2. Paid(r.order)'
      BY <1>2, <1>3, <2>3 DEF Slip, HasWage, Paid
    <3>3. QED
      BY <2>2, <3>1, <3>2 DEF Sound, Refused
  <2>4. CASE q.order # r.order
    <3>1. Payees(q.order) \cap Payees(r.order) = {}
      BY <2>4 DEF PayeesApart
    <3>2. \A u \in Staff \cap Payees(r.order) : balance'[u] = balance[u]
      BY <3>1, OthersUnmoved
    <3>3. /\ r.master \in Staff \cap Payees(r.order)
          /\ Courier[r.order] \in Drivers => Courier[r.order] \in Staff \cap Payees(r.order)
      BY <1>4, WhoIsPaid DEF Staged, RecalculateOps, Staff, Payees
    <3>4. CASE Fresh(r)
      BY <2>2, <3>2, <3>3, <3>4 DEF Sound, Fresh
    <3>5. CASE Refused(r)
      BY <1>2, <2>2, <2>4, <3>5 DEF Sound, Refused, Paid
    <3>6. QED
      BY <2>1, <3>4, <3>5
  <2>5. QED
    BY <2>3, <2>4
<1>5. QED
  BY <1>1, <1>4 DEF Stages, Staged

LEMMA StepStages ==
  TypeOK /\ AsBegun /\ Books /\ Papers /\ Stages /\ PayeesApart /\ [Next]_vars => Stages'
<1> SUFFICES ASSUME TypeOK, AsBegun, Books, Papers, Stages, PayeesApart, [Next]_vars
             PROVE  Stages'
  OBVIOUS
<1>1. CASE inflight' \subseteq inflight /\ UNCHANGED <<transactions, balance>>
  BY <1>1 DEF Stages, Staged, Sound, Fresh, Refused, Paid
<1>2. ASSUME NEW s \in Slots, NEW o \in Orders, Requested(s, o) PROVE Stages'
  <2>1. UNCHANGED <<transactions, balance>>
    BY <1>2 DEF Requested, Finish, CustomerConfirm, UpdateOrder, RecalculateOrderFees
  <2>2. \A q \in inflight' : Staged(q) => q \in inflight
    BY <1>2 DEF Requested, Finish, CustomerConfirm, UpdateOrder, RecalculateOrderFees,
                Begin, Staged
  <2>3. QED
    BY <2>1, <2>2 DEF Stages, Staged, Sound, Fresh, Refused, Paid
<1>3. QED
  BY <1>1, <1>2, StageBegins, StageGoesOn, StageSurvives, StepKinds

\* A user has at most one row on a slip: the amount for his part in the order.
LEMMA SlipShares ==
  ASSUME NEW o \in Orders, NEW rows, rows \subseteq TransactionRow, Slip(rows, o), NEW u \in Staff
  PROVE  /\ \/ {t \in rows : t.user = u} = {} /\ Due(rows, u) = 0
            \/ \E t \in rows : {x \in rows : x.user = u} = {t} /\ Due(rows, u) = t.amount
         /\ u = Initial[o].master => Amount(rows, "master_fee") = Due(rows, u)
         /\ u = Courier[o] => Amount(rows, "driver_fee") = Due(rows, u)
         /\ u # Initial[o].master /\ u # Courier[o] => Due(rows, u) = 0
<1>1. Initial[o].master \in Masters /\ (Courier[o] \in Drivers \/ Courier[o] = NoDriver)
  BY AdminConstantsAssumption DEF Row
<1>2. Masters \cap Drivers = {} /\ NoDriver \notin Staff
  BY AdminConstantsAssumption DEF Staff
<1>3. \A t \in rows : /\ t.type = "master_fee" <=> t.user = Initial[o].master
                      /\ t.type = "driver_fee" <=> t.user = Courier[o]
                      /\ t.type = "master_fee" \/ t.type = "driver_fee"
  <2>1. TAKE t \in rows
  <2>2. t.user \in Staff /\ (t.type = "master_fee" \/ t.type = "driver_fee")
    BY DEF TransactionRow
  <2>3. t.user = PayeeOf(o, t.type)
    BY DEF Slip
  <2>4. QED
    BY <1>1, <1>2, <2>2, <2>3 DEF PayeeOf
<1>4. \A t, x \in rows : t.type = x.type => t = x
  BY DEF Slip
<1>5. ASSUME NEW type, \A t \in rows : t.type = type <=> t.user = u
      PROVE  Amount(rows, type) = Due(rows, u)
  <2>1. CASE \E t \in rows : t.user = u
    <3>1. PICK t \in rows : t.user = u
      BY <2>1
    <3>2. \A x \in rows : (x.type = type <=> x = t) /\ (x.user = u <=> x = t)
      BY <1>4, <1>5, <3>1
    <3>3. QED
      BY <3>1, <3>2 DEF Amount, Due
  <2>2. CASE ~ \E t \in rows : t.user = u
    BY <1>5, <2>2 DEF Amount, Due
  <2>3. QED
    BY <2>1, <2>2
<1>6. CASE \E t \in rows : t.user = u
  <2>1. PICK t \in rows : t.user = u
    BY <1>6
  <2>2. \A x \in rows : x.user = u => x = t
    BY <1>3, <1>4, <2>1
  <2>3. {x \in rows : x.user = u} = {t} /\ Due(rows, u) = t.amount
    BY <2>1, <2>2 DEF Due
  <2>4. QED
    BY <1>3, <1>5, <2>1, <2>3
<1>7. CASE ~ \E t \in rows : t.user = u
  BY <1>3, <1>5, <1>7 DEF Due
<1>8. QED
  BY <1>6, <1>7

\* So a slip is finite.
LEMMA SlipFinite ==
  ASSUME NEW o \in Orders, NEW rows, rows \subseteq TransactionRow, Slip(rows, o)
  PROVE  IsFiniteSet(rows)
<1> DEFINE Of(type) == {t \in rows : t.type = type}
<1>1. \A type : Of(type) = {} \/ \E t \in rows : Of(type) = {t}
  BY DEF Slip
<1>2. rows = Of("master_fee") \cup Of("driver_fee")
  BY DEF TransactionRow
<1> HIDE DEF Of
<1>3. ASSUME NEW type PROVE IsFiniteSet(Of(type))
  <2>1. CASE Of(type) = {}
    BY <2>1, FS_EmptySet
  <2>2. CASE \E t \in rows : Of(type) = {t}
    BY <2>2, FS_Singleton
  <2>3. QED
    BY <1>1, <2>1, <2>2
<1>4. QED
  BY <1>3, <1>2, FS_Union

\* One row and its amount, or none and nothing.
OneWorth(A, a) ==
  \/ A = {} /\ a = 0
  \/ \E x : A = {x} /\ a = x.amount /\ a \in Int

\* A sum after one row, or none, has been replaced by one, or none.
LEMMA AmountsReplaced ==
  ASSUME NEW T, IsFiniteSet(T), \A t \in T : t.amount \in Int,
         NEW A, A \subseteq T, NEW a, OneWorth(A, a),
         NEW B, B \cap (T \ A) = {}, NEW b, OneWorth(B, b)
  PROVE  AmountsOf((T \ A) \cup B) = (AmountsOf(T) - a) + b
<1>1. IsFiniteSet(T \ A)
  BY FS_Subset
<1>2. AmountsOf(T) = AmountsOf(T \ A) + a /\ AmountsOf(T \ A) \in Int /\ a \in Int
  <2>1. CASE A = {} /\ a = 0
    <3>1. AmountsOf(T) \in Int
      BY AmountsNumber
    <3>2. QED
      BY <2>1, <3>1
  <2>2. ASSUME NEW x, A = {x}, a = x.amount, a \in Int
        PROVE  AmountsOf(T) = AmountsOf(T \ A) + a /\ AmountsOf(T \ A) \in Int /\ a \in Int
    <3>1. T = (T \ A) \cup {x} /\ x \notin T \ A
      BY <2>2
    <3>2. AmountsOf((T \ A) \cup {x}) = AmountsOf(T \ A) + x.amount /\ AmountsOf(T \ A) \in Int
      BY <1>1, <3>1, AmountsWith
    <3>3. QED
      BY <2>2, <3>1, <3>2
  <2>3. QED
    BY <2>1, <2>2 DEF OneWorth
<1>3. AmountsOf((T \ A) \cup B) = AmountsOf(T \ A) + b /\ b \in Int
  <2>1. CASE B = {} /\ b = 0
    BY <1>2, <2>1
  <2>2. ASSUME NEW x, B = {x}, b = x.amount, b \in Int
        PROVE  AmountsOf((T \ A) \cup B) = AmountsOf(T \ A) + b /\ b \in Int
    <3>1. x \notin T \ A
      BY <2>2
    <3>2. QED
      BY <1>1, <2>2, <3>1, AmountsWith
  <2>3. QED
    BY <2>1, <2>2 DEF OneWorth
<1>4. QED
  BY <1>2, <1>3

\* A commit moves each balance by what it puts on the books less what it takes.
LEMMA CommitKeepsSums ==
  ASSUME TypeOK, SumsKept, NEW o \in Orders,
         NEW rows, rows \subseteq TransactionRow, Slip(rows, o),
         NEW gone, gone \subseteq transactions, Slip(gone, o),
         Fits(rows, transactions \ gone), transactions' = (transactions \ gone) \cup rows,
         \A u \in Staff : balance'[u] = (balance[u] - Due(gone, u)) + Due(rows, u)
  PROVE  SumsKept'
<1>1. IsFiniteSet(transactions')
  <2>1. IsFiniteSet(transactions \ gone) /\ IsFiniteSet(rows)
    BY SlipFinite, FS_Subset DEF SumsKept
  <2>2. QED
    BY <2>1, FS_Union
<1>2. ASSUME NEW u \in Staff PROVE balance'[u] = AmountsOf(RowsOf(u)')
  <2> DEFINE A == {t \in gone : t.user = u}
             B == {t \in rows : t.user = u}
  <2>1. gone \subseteq TransactionRow
    BY DEF TypeOK
  <2>2. RowsOf(u)' = (RowsOf(u) \ A) \cup B
    BY DEF RowsOf
  <2>3. B \cap (RowsOf(u) \ A) = {}
    <3>1. ASSUME NEW t \in rows, t \in transactions \ gone PROVE FALSE
      BY <3>1 DEF Fits
    <3>2. QED
      BY <3>1 DEF RowsOf
  <2>4. A \subseteq RowsOf(u)
    BY DEF RowsOf
  <2>5. IsFiniteSet(RowsOf(u)) /\ \A t \in RowsOf(u) : t.amount \in Int
    <3>1. RowsOf(u) \subseteq transactions
      BY DEF RowsOf
    <3>2. QED
      BY <3>1, FS_Subset DEF SumsKept, TypeOK, TransactionRow
  <2>6. OneWorth(A, Due(gone, u)) /\ OneWorth(B, Due(rows, u))
    <3>1. /\ \/ A = {} /\ Due(gone, u) = 0
             \/ \E t \in gone : A = {t} /\ Due(gone, u) = t.amount
          /\ \/ B = {} /\ Due(rows, u) = 0
             \/ \E t \in rows : B = {t} /\ Due(rows, u) = t.amount
      BY <2>1, SlipShares
    <3>2. Due(gone, u) \in Int /\ Due(rows, u) \in Int
      BY <2>1, AmountsAreNumbers
    <3>3. QED
      BY <3>1, <3>2 DEF OneWorth
  <2> HIDE DEF A, B
  <2>7. AmountsOf((RowsOf(u) \ A) \cup B) = (AmountsOf(RowsOf(u)) - Due(gone, u)) + Due(rows, u)
    BY <2>3, <2>4, <2>5, <2>6, AmountsReplaced
  <2>8. QED
    BY <2>2, <2>7 DEF SumsKept
<1>3. QED
  BY <1>1, <1>2 DEF SumsKept, RowsOf

LEMMA StepSums ==
  TypeOK /\ AsBegun /\ Books /\ Papers /\ Stages /\ SumsKept /\ [Next]_vars => SumsKept'
<1> SUFFICES ASSUME TypeOK, AsBegun, Books, Papers, Stages, SumsKept, [Next]_vars
             PROVE  SumsKept'
  OBVIOUS
<1>1. CASE UNCHANGED <<transactions, balance>>
  BY <1>1 DEF SumsKept, RowsOf
<1>2. ASSUME NEW q \in inflight, CustomerCommit(q) PROVE SumsKept'
  <2>1. /\ q.order \in Orders /\ q.rows \subseteq TransactionRow /\ Slip(q.rows, q.order)
    BY <1>2, WhoIsPaid DEF CustomerCommit, TypeOK, Requests, Papers, Paper
  <2>2. \A u \in Staff : Due({}, u) = 0 /\ Due(q.rows, u) \in Int /\ balance[u] \in Int
    BY <2>1, NothingDue, AmountsAreNumbers DEF TypeOK
  <2>3. \A u \in Staff : balance'[u] = (balance[u] - Due({}, u)) + Due(q.rows, u)
    BY <1>2, <2>2 DEF CustomerCommit
  <2>4. Slip({}, q.order)
    BY DEF Slip
  <2>5. Fits(q.rows, transactions \ {}) /\ transactions' = (transactions \ {}) \cup q.rows
    BY <1>2 DEF CustomerCommit
  <2>6. QED
    BY <2>1, <2>3, <2>4, <2>5, CommitKeepsSums
<1>3. ASSUME NEW q \in inflight, RecalculateCommit(q) PROVE SumsKept'
  <2>1. q.op \in RecalculateOps /\ Staged(q)
    BY <1>3 DEF RecalculateCommit, RecalculateOps, Staged
  <2>2. /\ q.order \in Orders /\ q.rows \subseteq TransactionRow /\ q.old \subseteq TransactionRow
        /\ Slip(q.rows, q.order) /\ HasWage(q.rows) /\ Slip(q.old, q.order)
        /\ q.master = Initial[q.order].master
    BY <2>1, RecalculateFields DEF TypeOK, Papers, Paper
  <2>3. ~Refused(q)
    <3>1. SUFFICES ASSUME q.old = {}, NEW t \in transactions,
                          t.order = q.order, t.type = "master_fee"
                   PROVE  FALSE
      BY DEF Refused, Paid
    <3>2. PICK x \in q.rows : x.type = "master_fee"
      BY <2>2 DEF HasWage
    <3>3. x.order = t.order /\ x.user = t.user
      BY <2>2, <3>1, <3>2 DEF Slip, Books
    <3>4. QED
      BY <1>3, <3>1, <3>2, <3>3 DEF RecalculateCommit, Fits
  <2>4. q.old \subseteq transactions /\ Fresh(q)
    BY <2>1, <2>3 DEF Stages, Sound
  <2>5. ASSUME NEW u \in Staff
        PROVE  balance'[u] = (balance[u] - Due(q.old, u)) + Due(q.rows, u)
    <3>1. balance[u] \in Int /\ Due(q.old, u) \in Int /\ Due(q.rows, u) \in Int
      BY <2>2, AmountsAreNumbers DEF TypeOK
    <3>2. CASE u = q.master
      <4>1. /\ Amount(q.rows, "master_fee") = Due(q.rows, u)
            /\ Amount(q.old, "master_fee") = Due(q.old, u)
        BY <2>2, <3>2, SlipShares
      <4>2. q.readMaster = balance[u]
        BY <2>4, <3>2 DEF Fresh
      <4>3. balance'[u] = q.readMaster + Change(q, "master_fee")
        <5>1. u \in Masters /\ Courier[q.order] \in Drivers \cup {NoDriver}
          BY <2>1, <2>2, <3>2, WhoIsPaid, AdminConstantsAssumption
        <5>2. u # Courier[q.order]
          BY <5>1, AdminConstantsAssumption
        <5>3. QED
          BY <1>3, <3>2, <5>2 DEF RecalculateCommit
      <4>4. QED
        BY <3>1, <4>1, <4>2, <4>3 DEF Change
    <3>3. CASE u # q.master /\ u = Courier[q.order]
      <4>1. /\ Amount(q.rows, "driver_fee") = Due(q.rows, u)
            /\ Amount(q.old, "driver_fee") = Due(q.old, u)
        BY <2>2, <3>3, SlipShares
      <4>2. Courier[q.order] \in Drivers
        BY <2>2, <3>3, AdminConstantsAssumption DEF Staff
      <4>3. q.readDriver = balance[u]
        BY <1>3, <2>4, <3>3, <4>2 DEF Fresh, RecalculateCommit
      <4>4. balance'[u] = q.readDriver + Change(q, "driver_fee")
        BY <1>3, <3>3 DEF RecalculateCommit
      <4>5. QED
        BY <3>1, <4>1, <4>3, <4>4 DEF Change
    <3>4. CASE u # q.master /\ u # Courier[q.order]
      <4>1. Due(q.rows, u) = 0 /\ Due(q.old, u) = 0
        BY <2>2, <3>4, SlipShares
      <4>2. QED
        BY <1>3, <3>1, <3>4, <4>1 DEF RecalculateCommit
    <3>5. QED
      BY <3>2, <3>3, <3>4
  <2>6. QED
    BY <1>3, <2>2, <2>4, <2>5, CommitKeepsSums DEF RecalculateCommit
<1>4. QED
  BY <1>1, <1>2, <1>3, StepKinds
     DEF Requested, Finish, CustomerConfirm, UpdateOrder, RecalculateOrderFees,
         RecalculateDelete, RecalculateMaster

LEMMA StepAsBegun == AsBegun /\ [MastersStay]_vars => AsBegun'
BY DEF AsBegun, MastersStay, vars

\* A balance is the sum of its user's wages, whatever the boss and the
\* settlements do at a time, as long as no order changes hands and requests
\* under way on different orders have no payee in common.
THEOREM BalancesFollowWages ==
  Spec /\ []PayeesApart /\ [][MastersStay]_vars => []BalanceIsLedger
<1> DEFINE Inv == TypeOK /\ ReplaceInv /\ AsBegun /\ Books /\ Papers /\ Stages /\ SumsKept
<1>1. Init => Inv
  <2>1. Init => TypeOK
    BY AdminConstants DEF Init, TypeOK
  <2>2. Init => ReplaceInv /\ AsBegun /\ Books /\ Papers /\ Stages
    BY DEF Init, ReplaceInv, AsBegun, Books, Papers, Stages
  <2>3. Init => SumsKept
    <3>1. AmountsOf({}) = 0
      BY AmountsAdded, SumOfNone, FS_EmptySet
    <3>2. Init => \A u \in Staff : RowsOf(u) = {}
      BY DEF Init, RowsOf
    <3>3. QED
      BY <3>1, <3>2, FS_EmptySet DEF Init, SumsKept
  <2>4. QED
    BY <2>1, <2>2, <2>3
<1>2. Inv /\ PayeesApart /\ [Next]_vars /\ [MastersStay]_vars => Inv'
  BY StepTyped, StepReplaces, StepAsBegun, StepBooks, StepPapers, StepStages, StepSums
<1>3. Inv => BalanceIsLedger
  BY DEF SumsKept, BalanceIsLedger, AmountsOf, RowsOf
<1>4. QED
  BY <1>1, <1>2, <1>3, PTL DEF Spec
=============================================================================
