--------------------------- MODULE Organizations ---------------------------
(***************************************************************************)
(* The debt of one organization: customerConfirm adds the order's total    *)
(* with an increment of the database, and the boss's ERP takes a payment   *)
(* off by writing a debt of its own, the one on his page less the amount   *)
(* (PaymentDialog). There is no row for a payment, so nothing can tell the *)
(* two apart afterwards. Organizations are never deleted: the backend has  *)
(* no route for it.                                                        *)
(***************************************************************************)
EXTENDS Integers

CONSTANTS
  DebtOrders,    \* orders of the organization
  OrderTotal,    \* total_amount of each
  Payments,      \* amounts paid at once
  Opening,       \* balance_due it may be created with
  BossTabs,      \* browser tabs with its page
  MaxPayments    \* payments sent (bound)

ASSUME OrganizationsAssumption ==
  /\ OrderTotal \in Nat /\ MaxPayments \in Nat
  /\ Payments \subseteq Nat \ {0} /\ Opening \subseteq Nat

VARIABLES
  balanceDue,   \* Organization.balance_due, or NoDebt
  settledBy,    \* of each order: open, its customerConfirm under way, settled
  orgPage,      \* of each tab: what it shows, asks for and pays
  sentPayments,
  owes,         \* opening and settled orders less what has been paid
  crossedOut    \* a payment was written over a debt its page did not show

organizationVars == <<balanceDue, settledBy, orgPage, sentPayments, owes, crossedOut>>

NoDebt == -1
NoPayment == [at |-> "none"]

\* A debt as read; old once another has been written.
Reading == [debt : Nat, old : BOOLEAN]
NoReading == [debt |-> NoDebt, old |-> FALSE]
Payment == [at : {"sent", "done"}, amount : Payments, debt : Nat, old : BOOLEAN]

OrganizationsTypeOK ==
  /\ balanceDue \in Nat \cup {NoDebt}
  /\ settledBy \in [DebtOrders -> {"open", "settling", "settled"}]
  /\ orgPage \in [BossTabs -> [shown : Reading \cup {NoReading}, answer : Reading \cup {NoReading},
                               pay : Payment \cup {NoPayment}]]
  /\ sentPayments \in 0..MaxPayments
  /\ owes \in Nat
  /\ crossedOut \in BOOLEAN

OrganizationsInit ==
  /\ balanceDue = NoDebt
  /\ settledBy = [o \in DebtOrders |-> "open"]
  /\ orgPage = [t \in BossTabs |-> [shown |-> NoReading, answer |-> NoReading, pay |-> NoPayment]]
  /\ sentPayments = 0
  /\ owes = 0
  /\ crossedOut = FALSE

\* A new debt makes every reading of the last one old.
Old(r) == IF r = NoReading THEN r ELSE [r EXCEPT !.old = TRUE]
Outdated(page) ==
  [shown |-> Old(page.shown), answer |-> Old(page.answer),
   pay |-> IF page.pay.at = "sent" THEN [page.pay EXCEPT !.old = TRUE] ELSE page.pay]
-----------------------------------------------------------------------------
CreateOrganization(debt) ==
  /\ balanceDue = NoDebt
  /\ balanceDue' = debt
  /\ owes' = debt
  /\ UNCHANGED <<settledBy, orgPage, sentPayments, crossedOut>>

\* customerConfirm reads the order and settles it in a transaction of its own,
\* which any of its checks may undo. (Two of them on one order: OrdersService.)
ReadForSettlement(o) ==
  /\ balanceDue # NoDebt
  /\ settledBy[o] = "open"
  /\ settledBy' = [settledBy EXCEPT ![o] = "settling"]
  /\ UNCHANGED <<balanceDue, orgPage, sentPayments, owes, crossedOut>>

SettleOrder(o) ==
  /\ settledBy[o] = "settling"
  /\ settledBy' = [settledBy EXCEPT ![o] = "settled"]
  /\ balanceDue' = balanceDue + OrderTotal
  /\ owes' = owes + OrderTotal
  /\ orgPage' = [t \in BossTabs |-> Outdated(orgPage[t])]
  /\ UNCHANGED <<sentPayments, crossedOut>>

SettlementFails(o) ==
  /\ settledBy[o] = "settling"
  /\ settledBy' = [settledBy EXCEPT ![o] = "open"]
  /\ UNCHANGED <<balanceDue, orgPage, sentPayments, owes, crossedOut>>
-----------------------------------------------------------------------------
\* getOrganizationById: the page is opened, or its query fetched again.
ReadOrganization(t) ==
  /\ balanceDue # NoDebt
  /\ orgPage' = [orgPage EXCEPT ![t].answer = [debt |-> balanceDue, old |-> FALSE]]
  /\ UNCHANGED <<balanceDue, settledBy, sentPayments, owes, crossedOut>>

ShowOrganization(t) ==
  /\ orgPage[t].answer # NoReading
  /\ orgPage' = [orgPage EXCEPT ![t].shown = orgPage[t].answer, ![t].answer = NoReading]
  /\ UNCHANGED <<balanceDue, settledBy, sentPayments, owes, crossedOut>>

\* Mutant: a payment of more than the debt leaves it as it is.
DebtAfter_Dropped(shown, amount) == IF amount > shown THEN shown ELSE shown - amount

\* Mutant: a payment of more than the debt makes it negative.
DebtAfter_Signed(shown, amount) == shown - amount

DebtAfter(shown, amount) == IF amount > shown THEN 0 ELSE shown - amount

\* PaymentDialog: a debt of its own, from the one on the page. The button rests
\* until the answer.
PayDebt(t, amount) ==
  /\ orgPage[t].shown # NoReading
  /\ orgPage[t].pay = NoPayment
  /\ sentPayments < MaxPayments
  /\ sentPayments' = sentPayments + 1
  /\ orgPage' = [orgPage EXCEPT ![t].pay =
       [at |-> "sent", amount |-> amount, old |-> orgPage[t].shown.old,
        debt |-> DebtAfter(orgPage[t].shown.debt, amount)]]
  /\ UNCHANGED <<balanceDue, settledBy, owes, crossedOut>>

\* updateOrganization writes what it is sent.
UpdateOrganization(t) ==
  LET pay == orgPage[t].pay IN
  /\ pay.at = "sent"
  /\ balanceDue' = pay.debt
  /\ owes' = IF pay.amount > owes THEN 0 ELSE owes - pay.amount
  /\ crossedOut' = (crossedOut \/ pay.old)
  /\ orgPage' = [u \in BossTabs |->
       IF u = t THEN [Outdated(orgPage[t]) EXCEPT !.pay = [pay EXCEPT !.at = "done"]]
       ELSE Outdated(orgPage[u])]
  /\ UNCHANGED <<settledBy, sentPayments>>

\* The dialog closes and the page is fetched again (ReadOrganization); until it
\* is there, the boss may pay once more from the debt he still sees.
PaymentAnswered(t) ==
  /\ orgPage[t].pay.at = "done"
  /\ orgPage' = [orgPage EXCEPT ![t].pay = NoPayment, ![t].answer = NoReading]
  /\ UNCHANGED <<balanceDue, settledBy, sentPayments, owes, crossedOut>>

PaymentFails(t) ==
  /\ orgPage[t].pay.at = "sent"
  /\ orgPage' = [orgPage EXCEPT ![t].pay = NoPayment]
  /\ UNCHANGED <<balanceDue, settledBy, sentPayments, owes, crossedOut>>

OrganizationsNext ==
  \/ \E debt \in Opening : CreateOrganization(debt)
  \/ \E o \in DebtOrders : ReadForSettlement(o) \/ SettleOrder(o) \/ SettlementFails(o)
  \/ \E t \in BossTabs :
       \/ ReadOrganization(t) \/ ShowOrganization(t)
       \/ \E amount \in Payments : PayDebt(t, amount)
       \/ UpdateOrganization(t) \/ PaymentAnswered(t) \/ PaymentFails(t)

OrganizationsSpec == OrganizationsInit /\ [][OrganizationsNext]_organizationVars
-----------------------------------------------------------------------------
\* An organization owes its opening debt and its settled orders less what it has
\* paid, as long as no payment was computed from a debt that had changed since
\* the page read it: a settlement, another tab's payment, or the same tab's own
\* last payment before its refetch (PaymentDialog, updateOrganization).
DebtIsAccounted ==
  balanceDue # NoDebt /\ ~crossedOut => balanceDue = owes
=============================================================================
