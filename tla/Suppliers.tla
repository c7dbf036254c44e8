----------------------------- MODULE Suppliers -----------------------------
(***************************************************************************)
(* The account of one supplier (admin.service.ts): deliveries on credit,   *)
(* payments, and the debt report, which sums both in one query and ages    *)
(* the deliveries in another, payments covering the oldest first.          *)
(***************************************************************************)
EXTENDS Integers, SequencesExt

CONSTANTS
  Totals,        \* what a delivery may cost
  MaxPurchases,  \* deliveries on credit (bound)
  MaxPaid        \* payments to the supplier (bound)

ASSUME SuppliersAssumption ==
  Totals \subseteq Nat \ {0} /\ MaxPurchases \in Nat /\ MaxPaid \in Nat

VARIABLES
  purchases,  \* SupplierPurchase, oldest first: total and age
  paid,       \* sum of SupplierPayment
  debtReport  \* getSupplierDebtSummary, the last one or the one under way

supplierVars == <<purchases, paid, debtReport>>

Ages == {"0-30", "31-60", "61+"}
Purchase == [total : Totals, age : Ages]
NoReport == [step |-> "none", total |-> 0, paid |-> 0, aged |-> [a \in Ages |-> 0],
             stale |-> FALSE]

SuppliersTypeOK ==
  /\ purchases \in Seq(Purchase)
  /\ paid \in 0..MaxPaid
  /\ debtReport \in [step : {"none", "summed", "done"}, total : Nat, paid : Nat,
                     aged : [Ages -> Nat], stale : BOOLEAN]

SuppliersInit ==
  /\ purchases = <<>>
  /\ paid = 0
  /\ debtReport = NoReport
-----------------------------------------------------------------------------
\* What comes in between the two queries of a report.
Stirs == debtReport' = [debtReport EXCEPT !.stale = @ \/ debtReport.step = "summed"]

\* stockIn or createProduct with a supplier.
Bill(total) ==
  /\ Len(purchases) < MaxPurchases
  /\ purchases' = Append(purchases, [total |-> total, age |-> "0-30"])
  /\ Stirs
  /\ UNCHANGED paid

RecordSupplierPayment(n) ==
  /\ paid + n <= MaxPaid
  /\ paid' = paid + n
  /\ Stirs
  /\ UNCHANGED purchases

Older(age) == IF age = "0-30" THEN "31-60" ELSE "61+"

\* The oldest deliveries that share an age pass on to the next one.
Ageing(n) ==
  /\ n \in DOMAIN purchases
  /\ purchases[n].age # "61+"
  /\ n > 1 => purchases[n - 1].age # purchases[n].age
  /\ purchases' = [purchases EXCEPT ![n].age = Older(@)]
  /\ UNCHANGED <<paid, debtReport>>

Total(list) == FoldLeft(LAMBDA sum, p : sum + p.total, 0, list)

\* Mutant: a delivery that is covered in part is left out like one that is
\* covered.
Aged_SkipsPartly(list, money) ==
  FoldLeft(LAMBDA acc, p :
             LET applied == IF p.total < acc.left THEN p.total ELSE acc.left
             IN  [left |-> acc.left - applied,
                  aged |-> [acc.aged EXCEPT ![p.age] = @ + IF applied > 0 THEN 0 ELSE p.total]],
           [left |-> money, aged |-> [a \in Ages |-> 0]], list).aged

\* The loop of getSupplierDebtSummary: payments cover the oldest first.
Aged(list, money) ==
  FoldLeft(LAMBDA acc, p :
             LET applied == IF p.total < acc.left THEN p.total ELSE acc.left
             IN  [left |-> acc.left - applied,
                  aged |-> [acc.aged EXCEPT ![p.age] = @ + p.total - applied]],
           [left |-> money, aged |-> [a \in Ages |-> 0]], list).aged

SumDebts ==
  /\ debtReport' = [NoReport EXCEPT !.step = "summed", !.total = Total(purchases), !.paid = paid]
  /\ UNCHANGED <<purchases, paid>>

AgeDebts ==
  /\ debtReport.step = "summed"
  /\ debtReport' = [debtReport EXCEPT !.step = "done", !.aged = Aged(purchases, debtReport.paid)]
  /\ UNCHANGED <<purchases, paid>>

SuppliersNext ==
  \/ \E total \in Totals : Bill(total) \/ RecordSupplierPayment(total)
  \/ \E n \in 1..MaxPurchases : Ageing(n)
  \/ SumDebts \/ AgeDebts

SuppliersSpec == SuppliersInit /\ [][SuppliersNext]_supplierVars
-----------------------------------------------------------------------------
\* The ages of a supplier's debt add up to it, and to nothing when he has been
\* paid in advance, unless a delivery or a payment came in while the report was
\* read (getSupplierDebtSummary).
AgesAddUp ==
  debtReport.step = "done" /\ ~debtReport.stale =>
    LET debt == debtReport.total - debtReport.paid
        aged == debtReport.aged
    IN  aged["0-30"] + aged["31-60"] + aged["61+"] = IF debt > 0 THEN debt ELSE 0
=============================================================================
