----------------------------- MODULE OrderFlow ------------------------------
(***************************************************************************)
(* What the life of an order promises to the people in it, whoever taps    *)
(* what and when: an order walks the status table, one courier takes a     *)
(* broadcast order and keeps it, and only he reports that he has arrived.  *)
(***************************************************************************)
EXTENDS OrderStatusMachine

CONSTANTS Orders, Drivers, NoDriver,
          Delivery   \* the orders that need a courier

VARIABLES status, driver

vars == <<status, driver>>

Init ==
  /\ status = [o \in Orders |-> "absent"]
  /\ driver = [o \in Orders |-> NoDriver]

Create(o) ==
  /\ status[o] = "absent"
  /\ status' = [status EXCEPT ![o] = "draft"]
  /\ UNCHANGED driver

\* Only an order with delivery is offered to couriers.
Advance(o, s) ==
  /\ CanTransition(status[o], s)
  /\ status[o] # "broadcasted"
  /\ s = "broadcasted" => o \in Delivery
  /\ status' = [status EXCEPT ![o] = s]
  /\ UNCHANGED driver

Accept(o, d) ==
  /\ status[o] = "broadcasted"
  /\ driver[o] = NoDriver
  /\ status' = [status EXCEPT ![o] = "received_by_driver"]
  /\ driver' = [driver EXCEPT ![o] = d]

\* The courier's direct report, which the table does not list.
Report(o) ==
  /\ status[o] = "received_by_driver"
  /\ driver[o] # NoDriver
  /\ status' = [status EXCEPT ![o] = "delivered_by_driver"]
  /\ UNCHANGED driver

Next ==
  \E o \in Orders :
    \/ Create(o)
    \/ \E s \in OrderStatus : Advance(o, s)
    \/ \E d \in Drivers : Accept(o, d)
    \/ Report(o)

Spec == Init /\ [][Next]_vars
=============================================================================
