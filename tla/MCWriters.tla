----------------------------- MODULE MCWriters ------------------------------
(* Instances of OrderWriters for TLC. *)
EXTENDS OrderWriters, MCOrders

\* What the boss does: he has one order offered again and closes the other.
ReofferAndClose == {<<o1, "broadcasted">>, <<o2, "completed">>}

\* No write of an order and no property of the runs that use this view
\* depends on the audit log or the queue.
RowsAndBooks == <<order, money, issued, inflight, writers>>
=============================================================================
