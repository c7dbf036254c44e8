------------------------------ MODULE MCAdmin -------------------------------
(* Instances of AdminOrders for TLC. *)
EXTENDS AdminProperties, TLC

CONSTANTS o1, o2, m1, m2, d1

Begun(m) == [status |-> "working", master |-> m, services |-> 100, delivery |-> TRUE,
             link |-> FALSE]

OneBegun == (o1 :> Begun(m1))
TwoBegun == (o1 :> Begun(m1)) @@ (o2 :> Begun(m1))
OneCourier == (o1 :> d1)
TwoCouriers == (o1 :> d1) @@ (o2 :> NoDriver)

AllTen == [u \in Staff |-> 10]

Symmetry == Permutations(Slots)
=============================================================================
