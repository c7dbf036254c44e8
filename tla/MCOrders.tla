------------------------------ MODULE MCOrders ------------------------------
(* Instances of OrdersService for TLC. *)
EXTENDS OrdersProperties, TLC

CONSTANTS o1, o2, m1, m2, d1, d2, g1, p1

\* One order with delivery for a corporate customer.
OneDelivery == (o1 :> [master |-> m1, delivery |-> TRUE, org |-> g1, total |-> 100,
                       masterFee |-> 7, qty |-> (p1 :> 1)])

\* One order without delivery beside it, of another master, on the same shelf.
TwoMasters == (o1 :> [master |-> m1, delivery |-> FALSE, org |-> g1, total |-> 100,
                      masterFee |-> 7, qty |-> (p1 :> 1)])
           @@ (o2 :> [master |-> m2, delivery |-> FALSE, org |-> NoOrg, total |-> 40,
                      masterFee |-> 5, qty |-> (p1 :> 1)])

OneOfEach == (o1 :> [master |-> m1, delivery |-> TRUE, org |-> g1, total |-> 100,
                     masterFee |-> 7, qty |-> (p1 :> 1)])
          @@ (o2 :> [master |-> m1, delivery |-> FALSE, org |-> g1, total |-> 40,
                     masterFee |-> 5, qty |-> (p1 :> 1)])

\* Couriers, a user's slots and the customer's tabs are interchangeable.
Symmetry == Permutations(Drivers) \cup Permutations(Slots) \cup Permutations(CustomerSlots)

\* No guard reads the audit log: leave it out of the fingerprint where no
\* property of the run reads it either.
WithoutEvents == <<order, money, issued, inflight, queue>>

EqualFees == (d1 :> 3) @@ (d2 :> 3)
Shelf1 == (p1 :> 1)
Shelf2 == (p1 :> 2)
=============================================================================
