---------------------------- MODULE MyOrdersPage ----------------------------
(***************************************************************************)
(* The WebApp's pages that keep a copy of orders on the screen: the list   *)
(* with its buttons (my-orders/page.tsx), the list of active orders with   *)
(* its refresh (orders/active/page.tsx) and the courier's page of one      *)
(* order (driver/order/[id]/page.tsx). The copy comes from a fetch, whose  *)
(* answer was true when the server read it, and from the page's own writes *)
(* after a call has succeeded. The order goes on behind it.                *)
(*                                                                         *)
(* A handler of the server is one step here: OrdersService has the         *)
(* interleavings of two of them.                                           *)
(***************************************************************************)
EXTENDS Integers, FiniteSets

CONSTANTS
  Cards,      \* orders of the user
  NoCard,
  MovedTo,    \* statuses others put an order in (bound)
  MaxSteps    \* changes of orders on the server (bound)

CardStatuses == {"draft", "waiting_confirmation", "accepted", "received_by_driver",
                 "delivered_by_driver", "working", "waiting_customer_confirmation", "cancelled"}

ASSUME CardsAssumption ==
  NoCard \notin Cards /\ MaxSteps \in Nat /\ MovedTo \subseteq CardStatuses

VARIABLES
  view,       \* which of the pages is open
  cardStatus, \* of each order on the server
  clock,      \* changes on the server so far
  past,       \* statuses it has had
  card,       \* what the page shows of it, and as of when
  fetches,    \* fetches on their way, with the answer once the server has read
  blank,      \* the page shows no order: it loads for the first time, or failed to
  acting,     \* actioningId, delivering
  calls,      \* calls of the buttons on their way
  twice       \* orders that have had two calls at once

cardVars == <<view, cardStatus, clock, past, card, fetches, blank, acting, calls, twice>>

Views == {"my", "active", "driver"}
NoStatus == "none"
Shown == [status : CardStatuses \cup {NoStatus}, asOf : 0..MaxSteps]
Nothing == [status |-> NoStatus, asOf |-> 0]
Answer == [state : {"asked"}, orders : {[o \in Cards |-> Nothing]}]
            \cup [state : {"read"}, orders : [Cards -> Shown]]
Call == [order : Cards, from : CardStatuses, state : {"asked", "done", "refused"},
         asOf : 0..MaxSteps]

CardsTypeOK ==
  /\ view \in Views
  /\ cardStatus \in [Cards -> CardStatuses]
  /\ clock \in 0..MaxSteps
  /\ past \in [Cards -> SUBSET CardStatuses]
  /\ card \in [Cards -> Shown]
  /\ \A f \in fetches : f[1] \in 1..3 /\ f[2] \in Answer
  /\ blank \in BOOLEAN
  /\ acting \in Cards \cup {NoCard}
  /\ \A c \in calls : c[1] \in 1..3 /\ c[2] \in Call
  /\ twice \subseteq Cards

Asked == [state |-> "asked", orders |-> [o \in Cards |-> Nothing]]

\* The page of a master or of a courier is mounted and its effect loads.
CardsInit ==
  \E master \in BOOLEAN :
  /\ view \in IF master THEN {"my", "active"} ELSE {"my", "driver"}
  /\ cardStatus \in [Cards -> IF master THEN {"draft", "working"} ELSE {"received_by_driver"}]
  /\ clock = 0
  /\ past = [o \in Cards |-> {cardStatus[o]}]
  /\ card = [o \in Cards |-> Nothing]
  /\ fetches = {<<1, Asked>>}
  /\ blank = TRUE
  /\ acting = NoCard
  /\ calls = {}
  /\ twice = {}

\* The lowest number that none of s has.
Fresh(s) == CHOOSE n \in 1..3 : \A x \in s : x[1] # n /\ \A m \in 1..(n - 1) : \E y \in s : y[1] = m
-----------------------------------------------------------------------------
(* The server.                                                             *)

\* Where each button takes an order; canCancel, canMasterFinish and
\* canDriverFinish enable it by the status on the card.
ButtonTarget(st) ==
  CASE st \in {"draft", "waiting_confirmation"} -> "cancelled"
    [] st = "working" -> "waiting_customer_confirmation"
    [] st \in {"accepted", "received_by_driver"} -> "delivered_by_driver"
    [] OTHER -> NoStatus

Change(o, to) ==
  /\ clock < MaxSteps
  /\ cardStatus' = [cardStatus EXCEPT ![o] = to]
  /\ clock' = clock + 1
  /\ past' = [past EXCEPT ![o] = @ \cup {to}]

\* The order moves on without the page: in the bot, by others, by the boss.
MovesOn(o, to) ==
  /\ to # cardStatus[o]
  /\ Change(o, to)
  /\ UNCHANGED <<view, card, fetches, blank, acting, calls, twice>>

Visible(o) == view = "active" => cardStatus[o] \notin {"cancelled"}

\* getMyOrdersByUserId, getOrderForWebApp.
ServerReads(f) ==
  /\ f \in fetches
  /\ f[2].state = "asked"
  /\ fetches' = (fetches \ {f}) \cup
       {<<f[1], [state |-> "read",
                 orders |-> [o \in Cards |-> IF Visible(o)
                                             THEN [status |-> cardStatus[o], asOf |-> clock]
                                             ELSE Nothing]]>>}
  /\ UNCHANGED <<view, cardStatus, clock, past, card, blank, acting, calls, twice>>

\* cancelOrder, finish and driverDelivered check the status they read; they take
\* those that enable the button, not only the one the card has shown.
ServerActs(c) ==
  /\ c \in calls
  /\ c[2].state = "asked"
  /\ IF ButtonTarget(cardStatus[c[2].order]) = ButtonTarget(c[2].from)
     THEN /\ Change(c[2].order, ButtonTarget(c[2].from))
          /\ calls' = (calls \ {c}) \cup
               {<<c[1], [c[2] EXCEPT !.state = "done", !.asOf = clock']>>}
     ELSE /\ calls' = (calls \ {c}) \cup {<<c[1], [c[2] EXCEPT !.state = "refused"]>>}
          /\ UNCHANGED <<cardStatus, clock, past>>
  /\ UNCHANGED <<view, card, fetches, blank, acting, twice>>
-----------------------------------------------------------------------------
(* The page.                                                               *)

\* Mutant: "Yangilash" stays enabled while a refresh is on its way.
Reload_Always ==
  /\ Cardinality(fetches) < 3
  /\ view = "active" \/ (blank /\ fetches = {})
  /\ fetches' = fetches \cup {<<Fresh(fetches), Asked>>}
  /\ UNCHANGED <<view, cardStatus, clock, past, card, blank, acting, calls, twice>>

\* "Yangilash" on the active list, "Qayta urinish" after a failed fetch: the
\* one is disabled and the other hidden while a fetch is on its way.
Reload ==
  /\ fetches = {}
  /\ view = "active" \/ blank
  /\ fetches' = {<<1, Asked>>}
  /\ UNCHANGED <<view, cardStatus, clock, past, card, blank, acting, calls, twice>>

Loaded(f) ==
  /\ f \in fetches
  /\ f[2].state = "read"
  /\ fetches' = fetches \ {f}
  /\ card' = f[2].orders
  /\ blank' = FALSE
  /\ UNCHANGED <<view, cardStatus, clock, past, acting, calls, twice>>

\* A failed fetch empties the list.
NotLoaded(f) ==
  /\ f \in fetches
  /\ fetches' = fetches \ {f}
  /\ card' = [o \in Cards |-> Nothing]
  /\ blank' = TRUE
  /\ UNCHANGED <<view, cardStatus, clock, past, acting, calls, twice>>

\* handleCancel, handleMasterFinishConfirm, handleDriverFinish, handleDelivered.
\* actioningId is one order: a press on a second one enables the first again.
PressCard(o) ==
  /\ view # "active"
  /\ ~blank
  /\ ButtonTarget(card[o].status) # NoStatus
  /\ acting # o
  /\ Cardinality(calls) < 3
  /\ acting' = o
  /\ calls' = calls \cup
       {<<Fresh(calls), [order |-> o, from |-> card[o].status, state |-> "asked", asOf |-> 0]>>}
  /\ twice' = twice \cup {p \in {o} : \E c \in calls : c[2].order = p}
  /\ UNCHANGED <<view, cardStatus, clock, past, card, fetches, blank>>

\* The list takes the new status; the courier's page says "delivered" for good.
ActionSucceeds(c) ==
  /\ c \in calls
  /\ c[2].state = "done"
  /\ calls' = calls \ {c}
  /\ card' = [card EXCEPT ![c[2].order] =
                [status |-> ButtonTarget(c[2].from), asOf |-> c[2].asOf]]
  /\ acting' = NoCard
  /\ UNCHANGED <<view, cardStatus, clock, past, fetches, blank, twice>>

\* Refused, or no answer: only the alert.
ActionFails(c) ==
  /\ c \in calls
  /\ calls' = calls \ {c}
  /\ acting' = NoCard
  /\ UNCHANGED <<view, cardStatus, clock, past, card, fetches, blank, twice>>

CardsNext ==
  \/ \E o \in Cards, to \in MovedTo : MovesOn(o, to)
  \/ \E f \in fetches : ServerReads(f) \/ Loaded(f) \/ NotLoaded(f)
  \/ \E c \in calls : ServerActs(c) \/ ActionSucceeds(c) \/ ActionFails(c)
  \/ Reload
  \/ \E o \in Cards : PressCard(o)

CardsSpec == CardsInit /\ [][CardsNext]_cardVars
-----------------------------------------------------------------------------
\* A card shows a status the order has really had, though the page writes it
\* itself after a call (handleCancel, handleMasterFinishConfirm,
\* handleDriverFinish), and never goes back to what the order was before what it
\* shows: neither an older fetch nor a late answer replaces it (loadOrders,
\* load), unless the order had two calls at once.
CardsFollowOrders ==
  [][\A o \in Cards : card'[o].status # NoStatus =>
       /\ card'[o].status \in past'[o]
       /\ o \notin twice /\ card[o].status # NoStatus => card'[o].asOf >= card[o].asOf]_cardVars
=============================================================================
