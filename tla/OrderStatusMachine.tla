------------------------- MODULE OrderStatusMachine -------------------------
(***************************************************************************)
(* The order status table of src/orders/order-status-machine.ts: which     *)
(* status may follow which, and the check every guarded handler makes on   *)
(* the row it has read.                                                    *)
(***************************************************************************)

\* enum OrderStatus of the Prisma schema.
OrderStatus ==
  {"draft", "waiting_confirmation", "waiting_master_work_start", "broadcasted",
   "accepted", "received_by_driver", "waiting_master_delivery_confirmation",
   "delivered_by_driver", "received_by_master", "working",
   "waiting_customer_confirmation", "completed", "cancelled"}

\* ALLOWED_TRANSITIONS, as the set of its <<from, to>> pairs.
AllowedTransitions ==
       ({"draft"} \X {"waiting_confirmation", "broadcasted", "working",
                      "waiting_master_work_start", "cancelled"})
  \cup ({"waiting_confirmation"} \X {"broadcasted", "working",
                      "waiting_master_work_start", "cancelled"})
  \cup {<<"waiting_master_work_start", "working">>,
        <<"broadcasted", "received_by_driver">>,
        <<"received_by_driver", "waiting_master_delivery_confirmation">>,
        <<"waiting_master_delivery_confirmation", "working">>,
        <<"waiting_master_delivery_confirmation", "received_by_driver">>,
        <<"accepted", "delivered_by_driver">>,
        <<"delivered_by_driver", "received_by_master">>,
        <<"delivered_by_driver", "working">>,
        <<"delivered_by_driver", "received_by_driver">>,
        <<"received_by_master", "working">>,
        <<"working", "waiting_customer_confirmation">>,
        <<"waiting_customer_confirmation", "completed">>}

\* canTransition; assertTransition throws exactly when this is FALSE.
CanTransition(from, to) == <<from, to>> \in AllowedTransitions
=============================================================================
