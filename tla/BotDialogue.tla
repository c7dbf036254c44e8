---------------------------- MODULE BotDialogue -----------------------------
(***************************************************************************)
(* The orders as the Telegram chats see them: the messages with inline     *)
(* buttons that BotNotifyService and BotUpdate leave in the chats, the     *)
(* handlers behind the buttons (bot.update.ts), and everybody else who     *)
(* moves an order: the WebApp, the HTTP calls and the boss. A button stays *)
(* where it is until its message is edited, however the order moves on.    *)
(*                                                                         *)
(* A call of OrdersService is one step here: what interleaves inside the   *)
(* calls is the subject of module OrdersService. The presses are those of  *)
(* a user whom requireAuth lets through; for anyone else they change       *)
(* nothing. Two equal messages in one chat count as one. The orders are    *)
(* made for one master; the boss may give them to a colleague and back.    *)
(***************************************************************************)
EXTENDS Integers, Sequences, OrderStatusMachine

CONSTANTS
  Orders,
  Delivery,   \* the orders made with delivery_needed
  Master,     \* the master they are made for
  Colleague,  \* another one
  Drivers,
  NoDriver,
  NoOrder,    \* no manual service pending
  MaxLost,    \* messages and edits Telegram refuses (bound)
  MaxEdits    \* orders the boss edits, and statuses he sets (bound)

ASSUME DialogueAssumption ==
  /\ Delivery \subseteq Orders
  /\ Master # Colleague /\ {Master, Colleague} \cap Drivers = {}
  /\ NoDriver \notin Drivers
  /\ NoOrder \notin Orders
  /\ MaxLost \in Nat /\ MaxEdits \in Nat

VARIABLES
  status, driver,   \* Order rows
  owner, delivery,  \* their master_id and delivery_needed
  drafted,          \* the orders in the order of created_at
  offered,          \* the orders with a broadcast job
  buttons,          \* live buttons
  pending,          \* pendingManualServiceByTgId
  lost,             \* refused messages and edits
  unasked,          \* orders whose last move asked their master nothing
  edits             \* by the boss

chat == <<buttons, lost, unasked>>
rowRest == <<owner, delivery, drafted, offered, edits>>
dialogueVars == <<status, driver, rowRest, chat, pending>>

Ustas == {Master, Colleague}
Kinds == {"confirm_order", "accept", "start_work", "delivery", "driver_delivered"}
Button == [chat : Drivers \cup Ustas, kind : Kinds, order : Orders]

DialogueTypeOK ==
  /\ status \in [Orders -> OrderStatus \cup {"absent"}]
  /\ driver \in [Orders -> Drivers \cup {NoDriver}]
  /\ owner \in [Orders -> Ustas]
  /\ delivery \subseteq Orders
  /\ drafted \in Seq(Orders)
  /\ offered \subseteq Orders
  /\ buttons \subseteq Button
  /\ pending \in [Ustas -> [order : Orders \cup {NoOrder}, step : {"none", "name", "price"}]]
  /\ lost \in Nat
  /\ unasked \subseteq Orders
  /\ edits \in Nat

NothingPending == [order |-> NoOrder, step |-> "none"]

DialogueInit ==
  /\ status = [o \in Orders |-> "absent"]
  /\ driver = [o \in Orders |-> NoDriver]
  /\ owner = [o \in Orders |-> Master]
  /\ delivery = Delivery
  /\ drafted = <<>>
  /\ offered = {}
  /\ buttons = {}
  /\ pending = [u \in Ustas |-> NothingPending]
  /\ lost = 0
  /\ unasked = {}
  /\ edits = 0
-----------------------------------------------------------------------------
\* Telegram refuses one message or edit, and a catch swallows the error.
Fails == lost < MaxLost /\ lost' = lost + 1

\* editMessageText without a keyboard takes the buttons off its message.
Edit(gone) ==
  \/ buttons' = buttons \ gone /\ UNCHANGED lost
  \/ buttons' = buttons /\ Fails

\* The owner of the order is sent a message with a button, and the message in
\* whose place it comes is edited.
Send(kind, o, gone) ==
  LET b == [chat |-> owner[o], kind |-> kind, order |-> o] IN
  \/ /\ buttons' = (buttons \ gone) \cup {b}
     /\ unasked' = unasked \ {o}
     /\ UNCHANGED lost
  \/ /\ buttons' = buttons \cup {b}
     /\ unasked' = unasked \ {o}
     /\ Fails
  \/ /\ buttons' = buttons \ gone
     /\ unasked' = unasked \cup {o}
     /\ Fails

TakeOff(b) == Edit({b}) /\ UNCHANGED unasked

Pressed(b, kind) == b \in buttons /\ b.kind = kind

\* The calls of OrdersService check master_id.
Owns(b) == owner[b.order] = b.chat

Move(o, to) == status' = [status EXCEPT ![o] = to]

\* A move by a call that sends nothing.
MoveUnasked(o, to) ==
  /\ Move(o, to)
  /\ unasked' = unasked \cup {o}
  /\ UNCHANGED <<buttons, lost>>
-----------------------------------------------------------------------------
(* The draft.                                                              *)

IsDrafted(o) ==
  /\ status[o] = "absent"
  /\ Move(o, "draft")
  /\ drafted' = Append(drafted, o)
  /\ UNCHANGED <<driver, owner, delivery, offered, edits, pending>>

\* sendMessageAfterDraft: ask for the location, or for the confirmation.
CreateDraft(o) ==
  /\ IsDrafted(o)
  /\ IF o \in delivery THEN UNCHANGED chat ELSE Send("confirm_order", o, {})

\* createOrder of the boss sends nothing.
BossCreatesOrder(o) == IsDrafted(o) /\ UNCHANGED chat

\* A master's newest draft takes the location, if it is one with delivery.
OnLocation(u) ==
  /\ \E i \in 1..Len(drafted) :
       LET o == drafted[i] IN
       /\ status[o] = "draft" /\ owner[o] = u
       /\ \A k \in (i + 1)..Len(drafted) : status[drafted[k]] # "draft" \/ owner[drafted[k]] # u
       /\ o \in delivery
       /\ Move(o, "waiting_confirmation")
       /\ Send("confirm_order", o, {})
  /\ UNCHANGED <<driver, rowRest, pending>>

\* POST /orders/:id/location: setLocation takes any draft, and sends nothing.
PostLocation(o) ==
  /\ CanTransition(status[o], "waiting_confirmation")
  /\ MoveUnasked(o, "waiting_confirmation")
  /\ UNCHANGED <<driver, rowRest, pending>>

ConfirmTarget(o) == IF o \in delivery THEN "broadcasted" ELSE "waiting_master_work_start"

\* confirm() leaves a job for the couriers, or asks whether to start.
Confirm(o, gone) ==
  /\ CanTransition(status[o], ConfirmTarget(o))
  /\ Move(o, ConfirmTarget(o))
  /\ IF o \in delivery
     THEN /\ offered' = offered \cup {o}
          /\ Edit(gone)
          /\ UNCHANGED unasked
     ELSE UNCHANGED offered /\ Send("start_work", o, gone)
  /\ UNCHANGED <<owner, delivery, drafted, edits>>

\* POST /orders/:id/confirm.
PostConfirm(o) == Confirm(o, {}) /\ UNCHANGED <<driver, pending>>

\* Mutant: the question whether to start is not asked.
OnConfirmOrder_NoQuestion(b) ==
  LET o == b.order IN
  /\ Pressed(b, "confirm_order") /\ Owns(b)
  /\ CanTransition(status[o], ConfirmTarget(o))
  /\ Move(o, ConfirmTarget(o))
  /\ TakeOff(b)
  /\ UNCHANGED <<driver, rowRest, pending>>

\* Both the success of confirm() and its refusal take the buttons off.
OnConfirmOrder(b) ==
  LET o == b.order IN
  /\ Pressed(b, "confirm_order")
  /\ IF Owns(b) /\ CanTransition(status[o], ConfirmTarget(o))
     THEN Confirm(o, {b})
     ELSE TakeOff(b) /\ UNCHANGED <<status, rowRest>>
  /\ UNCHANGED <<driver, pending>>

\* cancelOrder(), from a button or PATCH /orders/:id/cancel.
Cancel(o) ==
  /\ CanTransition(status[o], "cancelled")
  /\ Move(o, "cancelled")
  /\ UNCHANGED <<driver, rowRest, pending>>

PatchCancel(o) == Cancel(o) /\ UNCHANGED chat

\* A refusal leaves the message alone.
OnCancelOrder(b) ==
  /\ Pressed(b, "confirm_order") /\ Owns(b)
  /\ Cancel(b.order)
  /\ TakeOff(b)

\* "Qo'lda xizmat": the next texts of this chat are a name and a price.
OnAddManualService(b) ==
  /\ Pressed(b, "confirm_order")
  /\ pending' = [pending EXCEPT ![b.chat] = [order |-> b.order, step |-> "name"]]
  /\ UNCHANGED <<status, driver, rowRest, chat>>

\* The text that follows is the name; a blank one is asked for again. Both
\* this handler and onText are registered for every text, and onText, the
\* first, never passes a text on. Whether this one then runs is up to the
\* library that registers them, so here the text may reach it, or not.
ManualServiceName(u) ==
  /\ pending[u].step = "name"
  /\ pending' = [pending EXCEPT ![u].step = "price"]
  /\ UNCHANGED <<status, driver, rowRest, chat>>

\* The price: addManualProductToOrder takes it for a draft only, and then the
\* message it started from gets the new total and its buttons back.
ManualServicePrice(u) ==
  LET o == pending[u].order
      b == [chat |-> u, kind |-> "confirm_order", order |-> o]
  IN
  /\ pending[u].step = "price"
  /\ pending' = [pending EXCEPT ![u] = NothingPending]
  /\ IF status[o] = "draft" /\ Owns(b)
     THEN \/ buttons' = buttons \cup {b} /\ UNCHANGED lost
          \/ buttons' = buttons /\ Fails
     ELSE UNCHANGED <<buttons, lost>>
  /\ UNCHANGED <<status, driver, rowRest, unasked>>
-----------------------------------------------------------------------------
(* The couriers.                                                           *)

\* The broadcast job reaches a driver (module Broadcast), late or twice; it
\* looks at no status.
Offer(o, d) ==
  /\ o \in offered
  /\ buttons' = buttons \cup {[chat |-> d, kind |-> "accept", order |-> o]}
  /\ UNCHANGED <<status, driver, rowRest, lost, unasked, pending>>

\* driverAccept: the first one gets it.
Accepts(o, d) ==
  /\ status[o] = "broadcasted"
  /\ Move(o, "received_by_driver")
  /\ driver' = [driver EXCEPT ![o] = d]

\* POST /driver/orders/:id/accept.
PostAccept(o, d) == Accepts(o, d) /\ UNCHANGED <<rowRest, chat, pending>>

\* The others are told so.
OnAcceptOrder(b) ==
  /\ Pressed(b, "accept")
  /\ \/ Accepts(b.order, b.chat)
     \/ status[b.order] # "broadcasted" /\ UNCHANGED <<status, driver>>
  /\ TakeOff(b)
  /\ UNCHANGED <<rowRest, pending>>

\* "Faol yetkazishlar": a card with its button for each order under way.
DriverFaolList(d) ==
  /\ buttons' = buttons \cup
       {[chat |-> d, kind |-> "driver_delivered", order |-> o] : o \in
          {x \in Orders : driver[x] = d /\ status[x] \in
             {"accepted", "received_by_driver", "delivered_by_driver"}}}
  /\ UNCHANGED <<status, driver, rowRest, lost, unasked, pending>>

\* Its button: updateMany({id, driver_id}) whatever the status; nobody is told.
OnDriverDelivered(b) ==
  LET o == b.order IN
  /\ Pressed(b, "driver_delivered")
  /\ IF driver[o] = b.chat
     THEN Move(o, "delivered_by_driver") /\ unasked' = unasked \cup {o}
     ELSE UNCHANGED <<status, unasked>>
  /\ Edit({b})
  /\ UNCHANGED <<driver, rowRest, pending>>

\* POST /orders/:id/driver-delivered and /driver/orders/:id/delivered: the
\* master is asked.
PostDriverDelivered(o) ==
  /\ driver[o] # NoDriver
  /\ status[o] \in {"accepted", "received_by_driver"}
  /\ Move(o, "delivered_by_driver")
  /\ Send("delivery", o, {})
  /\ UNCHANGED <<driver, rowRest, pending>>

\* Mutant: the courier may finish an order in any status.
DriverFinish_AnyStatus(o) ==
  /\ driver[o] # NoDriver
  /\ Move(o, "waiting_master_delivery_confirmation")
  /\ Send("delivery", o, {})
  /\ UNCHANGED <<driver, rowRest, pending>>

\* driverFinish from the WebApp: the master is asked.
DriverFinish(o) ==
  /\ driver[o] # NoDriver
  /\ CanTransition(status[o], "waiting_master_delivery_confirmation")
  /\ Move(o, "waiting_master_delivery_confirmation")
  /\ Send("delivery", o, {})
  /\ UNCHANGED <<driver, rowRest, pending>>
-----------------------------------------------------------------------------
(* The master's answers, and the rest of the order's life in the WebApp.   *)

AwaitsMaster(o) ==
  status[o] \in {"waiting_master_delivery_confirmation", "delivered_by_driver"}

OnConfirmDelivery(b) ==
  /\ Pressed(b, "delivery")
  /\ IF Owns(b) /\ AwaitsMaster(b.order) THEN Move(b.order, "working") ELSE UNCHANGED status
  /\ TakeOff(b)
  /\ UNCHANGED <<driver, rowRest, pending>>

\* A refusal by the service leaves the message alone.
OnRejectDelivery(b) ==
  /\ Pressed(b, "delivery") /\ Owns(b)
  /\ AwaitsMaster(b.order)
  /\ Move(b.order, "received_by_driver")
  /\ TakeOff(b)
  /\ UNCHANGED <<driver, rowRest, pending>>

OnStartWork(b) ==
  /\ Pressed(b, "start_work") /\ Owns(b)
  /\ CanTransition(status[b.order], "working")
  /\ Move(b.order, "working")
  /\ TakeOff(b)
  /\ UNCHANGED <<driver, rowRest, pending>>

\* The question is withdrawn and the order left as it is, whoever's it is.
OnDeclineWork(b) ==
  /\ Pressed(b, "start_work")
  /\ Edit({b})
  /\ unasked' = unasked \cup {b.order}
  /\ UNCHANGED <<status, driver, rowRest, pending>>

\* receive() from the WebApp.
Receive(o) ==
  /\ CanTransition(status[o], "working")
  /\ Move(o, "working")
  /\ UNCHANGED <<driver, rowRest, chat, pending>>

Finish(o) ==
  /\ CanTransition(status[o], "waiting_customer_confirmation")
  /\ Move(o, "waiting_customer_confirmation")
  /\ UNCHANGED <<driver, rowRest, chat, pending>>

\* /start conf_<token> from the customer's chat.
OnStartConf(o) ==
  /\ CanTransition(status[o], "completed")
  /\ Move(o, "completed")
  /\ UNCHANGED <<driver, rowRest, chat, pending>>
-----------------------------------------------------------------------------
(* The boss, in the ERP: no message follows, and no message is edited.     *)

BossEdits(o) ==
  /\ status[o] # "absent"
  /\ edits < MaxEdits
  /\ edits' = edits + 1
  /\ UNCHANGED <<driver, drafted, offered, buttons, lost, pending>>

\* updateOrderStatus: any status.
BossSetsStatus(o, to) ==
  /\ BossEdits(o)
  /\ Move(o, to)
  /\ unasked' = unasked \cup {o}
  /\ UNCHANGED <<owner, delivery>>

\* updateOrder: another master, a delivery more or less.
BossUpdatesOrder(o, u, needed) ==
  /\ BossEdits(o)
  /\ owner' = [owner EXCEPT ![o] = u]
  /\ delivery' = (delivery \ {o}) \cup (IF needed THEN {o} ELSE {})
  /\ unasked' = unasked \cup (IF u # owner[o] THEN {o} ELSE {})
  /\ UNCHANGED status
-----------------------------------------------------------------------------
Press(b) ==
  \/ OnConfirmOrder(b)
  \/ OnCancelOrder(b)
  \/ OnAddManualService(b)
  \/ OnAcceptOrder(b)
  \/ OnDriverDelivered(b)
  \/ OnConfirmDelivery(b)
  \/ OnRejectDelivery(b)
  \/ OnStartWork(b)
  \/ OnDeclineWork(b)

\* The WebApp and the HTTP calls, by the order's master, courier or customer.
Calls(o) ==
  \/ CreateDraft(o)
  \/ PostLocation(o)
  \/ PostConfirm(o)
  \/ PatchCancel(o)
  \/ PostDriverDelivered(o)
  \/ DriverFinish(o)
  \/ Receive(o)
  \/ Finish(o)
  \/ OnStartConf(o)

Boss(o) ==
  \/ BossCreatesOrder(o)
  \/ \E to \in OrderStatus : BossSetsStatus(o, to)
  \/ \E u \in Ustas, needed \in BOOLEAN : BossUpdatesOrder(o, u, needed)

DialogueNext ==
  \/ \E b \in buttons : Press(b)
  \/ \E o \in Orders : Calls(o) \/ Boss(o)
  \/ \E o \in Orders, d \in Drivers : Offer(o, d) \/ PostAccept(o, d)
  \/ \E d \in Drivers : DriverFaolList(d)
  \/ \E u \in Ustas : OnLocation(u) \/ ManualServiceName(u) \/ ManualServicePrice(u)

DialogueSpec == DialogueInit /\ [][DialogueNext]_dialogueVars
-----------------------------------------------------------------------------
\* The button an order waits for in its master's chat.
Awaited ==
  [s \in {"waiting_confirmation", "waiting_master_work_start",
          "waiting_master_delivery_confirmation", "delivered_by_driver"} |->
     CASE s = "waiting_confirmation" -> "confirm_order"
       [] s = "waiting_master_work_start" -> "start_work"
       [] OTHER -> "delivery"]

\* An order that waits for its master's answer has a live button in his chat,
\* unless the last thing that happened to it asked him nothing: a send failed,
\* he declined, setLocation was called over HTTP, the courier pressed the button
\* of the bot, or the boss set the status or gave the order to him. Presses on
\* older messages, which take buttons off as well, never strand it.
WaitingOrderIsAsked ==
  \A o \in Orders :
    status[o] \in DOMAIN Awaited /\ o \notin unasked
      => [chat |-> owner[o], kind |-> Awaited[status[o]], order |-> o] \in buttons

\* No button that is still around, no late offer and no call of the WebApp
\* reopens a closed order. Two things can: the driver's `Yetkazib bo'ldim' of the
\* bot, which checks no status (onDriverDelivered), and the boss.
Reopens(o) ==
  \/ \E b \in buttons : b.order = o /\ OnDriverDelivered(b)
  \/ \E to \in OrderStatus : BossSetsStatus(o, to)

ClosedStaysClosed ==
  [][\A o \in Orders : status[o] \in {"completed", "cancelled"} /\ status'[o] # status[o]
       => Reopens(o)]_dialogueVars
=============================================================================
