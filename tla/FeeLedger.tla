----------------------------- MODULE FeeLedger ------------------------------
(***************************************************************************)
(* What the books promise about wages: a Transaction row is written once   *)
(* per order, user and type and never changed, and in the same step the    *)
(* balance of its user moves by exactly its amount, and no other balance.  *)
(***************************************************************************)
EXTENDS Integers

CONSTANT Users

VARIABLES transactions, balance

Key(t) == <<t.order, t.user, t.type>>

Init ==
  /\ transactions = {}
  /\ balance = [u \in Users |-> 0]

\* Put the rows E on the books.
Post(E) ==
  /\ \A t \in E, x \in transactions : Key(t) # Key(x)
  /\ \A t, x \in E : t.user = x.user => t = x
  /\ transactions' = transactions \cup E
  /\ \A u \in Users :
       \/ (\A t \in E : t.user # u) /\ balance'[u] = balance[u]
       \/ \E t \in E : t.user = u /\ balance'[u] = balance[u] + t.amount

Next == Post(transactions' \ transactions)

Spec == Init /\ [][Next]_<<transactions, balance>>
=============================================================================
