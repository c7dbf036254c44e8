-------------------------- MODULE AdminProperties ---------------------------
(* What the boss's corrections have to leave intact.                       *)
EXTENDS AdminOrders, FiniteSetsExt

\* A user's balance is the sum of his Transaction rows: what the wallet shows
\* above is what it lists below (wallet.controller.ts).
BalanceIsLedger ==
  \A u \in Staff :
    balance[u] = MapThenSumSet(LAMBDA t : t.amount, {t \in transactions : t.user = u})

Paid(o) == \E t \in transactions : t.order = o /\ t.type = "master_fee"

\* recalculateOrderFees deletes a wage and creates it again in a $transaction:
\* an order that has been paid for is never seen without its wage.
WageSurvives == [][\A o \in Orders : Paid(o) => Paid(o)']_vars
=============================================================================
