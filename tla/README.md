# Verification of ustabobo_bot

TLA+ models of the AVTO-PRO backend: a NestJS service (`src/src`) over
PostgreSQL (Prisma), Redis (BullMQ) and Telegram (Telegraf), with a Telegram
mini app (`src/webapp`) and a Next.js back office (`src/erp`). A master
(*usta*) creates an order, a courier may bring the parts, the customer confirms
the work through a link, and that confirmation moves the money and the stock.

The models are written from the TypeScript source. TLC checks small instances;
TLAPS proves the theorems listed below for every value of the constants.

## 1. Inventory

| Part | State it keeps | Operations | What is hard, what makes it correct |
|---|---|---|---|
| Status table `orders/order-status-machine.ts` | none | `canTransition`, `assertTransition` | The table is only as good as the rows it is asked about: see the handlers. |
| Order handlers `orders/orders.service.ts` | `Order` (status, driver_id, confirm_token, total), `OrderItem`, `OrderEvent`, `Transaction`, `User.balance`, `Organization.balance_due`, `Product.stock_count` | createDraft, addLocationToDraft, addManualProductToOrder, setLocation, confirm, masterStartWork, cancelOrder, finish, driverFinish, masterConfirmDelivery, driverAccept, driverDelivered, receive, customerConfirm | Read, check, await, update by id: everything may happen during the await. One courier per order; pay once; settle once; completed is final; links live while the customer is asked; stock below zero only through settlements that overlap. |
| Price calculator `orders/price-calculator.ts` | none | calculateOrderTotal | The total of an order is the total of its items, whoever wrote either last. |
| Broadcast `broadcast/` | BullMQ queue | broadcastOrder (producer), process (worker) | The producer is not awaited, the worker swallows errors and does not look at the status: an offer lost, late or repeated. Everybody is offered the order, nobody without end. |
| Bot handlers `bot/bot.update.ts`, keyboards | writes `Order` in onDriverDelivered; a dialogue in memory | buttons and text of master, courier, customer, boss; leafed histories; figures | Buttons stay in old messages and are pressed in any state, and others move the orders too. An order whose master was asked keeps its button; no old button reopens a closed one. |
| Login scene `bot/auth.scene.ts`, `bot-auth.middleware.ts` | `pin_fail_count`, `locked_until`, `last_authenticated_at`, `tg_id` | phone, password, logout, session check | The counter is read and written across a bcrypt comparison. |
| Notifications, webhook set-up, daily report `bot/` | none | messages, the daily sheet | A message may be lost; the sheet's schedule and its window are two clocks. |
| Admin: orders `admin/admin.service.ts` | the same rows as the handlers | createOrder, updateOrderStatus, updateOrder, recalculateOrderFees | A second writer of rows the handlers own, without the table; balances read and written back; items written one by one. |
| Admin: stock, suppliers | `Product.stock_count`, `ProductPriceHistory`, `SupplierPurchase`, `SupplierPayment` | createProduct, updateProduct, stockIn, payments, debt report | An absolute write against a decrement; rows beside rows; FIFO aging of debt. |
| Admin: organizations | `Organization.balance_due` | createOrganization, updateOrganization | The ERP pays by writing a debt it has computed from a page. |
| Admin: reports, histories, dashboard `admin.service.ts`, `admin-dashboard.service.ts` | none | reports, sheets, histories, dashboard | The same orders counted in a dozen places by different dates and zones. |
| Admin: users, services, vehicles | single rows | CRUD | Checks of one request. |
| Products, low-stock alert `products/` | `Product` | checkAndAlert | Read after the commit. |
| HTTP authentication `auth/`, `telegram/` | none | JWT, WebApp, initData | Checks of one request; what they mean to a session that lasts is hard. |
| Users, organizations, vehicles, services | single rows | CRUD | Their modules are not imported by `app.module.ts`: the controllers answer nothing. |
| Audit, upload, health, debug, configuration | `AuditLog`, S3 | - | I/O. |
| ERP `src/erp` | two cookies, the query cache | login, proxy that renews the token on a 401, useAuth, subscription guard, pages that write | Renewal, retry and logout at once; lists that do not show the last write; a payment from an old page. |
| WebApp `src/webapp` | initData, copies of orders on the screen | opening, new order, my orders, active orders, courier's page, history | Answers that come late, twice, under another tab, or never. |

How they interact: the HTTP controllers, the bot handlers and the admin
endpoints run on one event loop. Each `await` of Prisma gives way to the others,
so two handlers interleave exactly at their awaits; PostgreSQL serialises
updates of one row and runs `$transaction` at Read Committed. `confirm()` hands
an order to the queue with `void broadcastOrder()`, the worker offers it to the
couriers in Telegram, and a tap comes back as `driverAccept`. `finish()` issues
the link that comes back as `customerConfirm`, from anybody who holds it.
The WebApp calls the controllers with Telegram's initData, the ERP through the
proxy of its own server with a token in a cookie; both keep copies of rows that
go on changing behind them.

`PROJECT.json` lists each component with its status and each hazard at its line.

## 2. Modules

| Module | Of | Role |
|---|---|---|
| `OrderStatusMachine` | order-status-machine.ts | the status table as a set of pairs |
| `OrdersService` | orders.service.ts, schema.prisma, broadcast-producer.service.ts | the detailed specification |
| `OrderFlow` | - | abstract: what the life of an order promises |
| `FeeLedger` | - | abstract: what the books promise |
| `OrdersProperties` | - | the properties and the two refinement mappings |
| `OrderWriters` | bot.update.ts, admin.service.ts | `OrdersService` beside the courier's button and the boss's status change |
| `AdminOrders` | admin.service.ts, and finish and customerConfirm of orders.service.ts | the boss's corrections beside the settlement |
| `AdminProperties` | - | what the corrections have to leave intact |
| `DraftTotals` | orders.service.ts, admin.service.ts, price-calculator.ts | items and total under six writers |
| `Inventory` | admin.service.ts | a product: stock, price history, first bill |
| `Suppliers` | admin.service.ts | a supplier's account and the aging of his debt |
| `Organizations` | admin.service.ts, erp organizations/[id]/page.tsx | an organization's debt and its payments |
| `Broadcast` | broadcast/ | producer, queue, worker, crash and redelivery |
| `BotAuth` | auth.scene.ts, bot.update.ts, admin.service.ts | whom a chat speaks for |
| `BotDialogue` | bot.update.ts, bot-notify.service.ts, orders controllers, admin.service.ts | buttons in the chats against the orders, whoever moves them |
| `BotHistory` | bot.update.ts | the two leafed histories |
| `BotReports` | daily-report.cron.ts, bot.update.ts | the daily sheet and the bot's figures |
| `AdminReports` | admin.service.ts, admin-dashboard.service.ts, erp reports | the back office's figures of the same orders (extends `BotReports`) |
| `WebSession` | webapp TelegramProvider.tsx, api.ts, page.tsx, the backend's guards | an opening of the WebApp |
| `NewOrderForm` | webapp new-order/page.tsx, createDraft | the form of a new order |
| `MyOrdersPage` | webapp my-orders, orders/active, driver/order | copies of orders on the screen |
| `HistoryPage` | webapp orders/history/page.tsx | tabs and appended pages |
| `ErpSession` | erp app/api, middleware.ts, lib/api.ts, hooks, SubscriptionGuard; auth/ | the boss's session |
| `ErpCache` | erp pages that write, query client | what a page shows after its write |
| `MCOrders`, `MCWriters`, `MCAdmin`, `MCLive`, `MCDesk` | - | instances for TLC |
| `SumProofs` | - | lemmas on sums over finite sets |
| `OrdersServiceProofs`, `OrdersOneSlotProofs`, `WritersProofs`, `AdminProofs` | - | theorems on orders, settlements and wages |
| `LiveProofs`, `BotProofs`, `DeskProofs` | - | theorems on the parts around the orders |

### How `OrdersService` corresponds to the code

*State.* `order[o]` is the row: status (with `absent` before createDraft),
driver_id and confirm_token (a number; 0 is NULL, the numbers are drawn by
`issued`, as UUIDs do not repeat). `transactions` are the Transaction rows with
their unique index, `balance`, `balanceDue` and `stock` the three columns
customerConfirm moves, `events` the audit rows as a set. `outbox` holds the
unawaited `broadcastOrder()` calls, `jobs` the queue.

*Two steps per handler.* Except for driverAccept, a handler reads the row,
checks the copy (owner, status table), awaits, and updates by id without
looking again. The action with the handler's name is the read and the checks;
it leaves a request in `inflight` with the row it has `seen`. The action
`...Write` is its `$transaction`. A failed check answers with an error and
changes nothing, so it is a stuttering step.

*driverAccept* is one raw UPDATE with the status in its WHERE, so it is one
step; its event is written later, by a step of its own.

*masterConfirmDelivery* decides inside its `$transaction` whether the fee is on
the books, but pays the courier of the row read before it. Both answers
(confirm, reject) are modelled.

*customerConfirm* is three steps. `CustomerConfirm` is the findFirst by token.
`CustomerCheckStock` is the `$transaction` up to the stock check: its inserts
and increments are not visible to others, but the rows they touch are locked
(`Blocks`) and the unique index is consulted. `CustomerCommit` makes everything
visible at once. Between the last two another settlement with no common locked
row may pass the same check on the same stock, which Read Committed allows.

*Failures.* `RequestFails` rolls an open request back at any point (duplicate
key, shortage, lost connection). `Crash` ends all open requests and all
unacknowledged queue calls; rows and queue survive.

*Abstractions.* An order's master, delivery_needed, organization, total, master
fee and quantities are constants (`Dto`): no handler of the module changes them
except through the draft's total, which no check of a status depends on. Fees
are constants: `masterFee` is round(services sum * percent), `DriverFee`
round(DELIVERY_FEE * percent). Users are authenticated and have their roles.
Reads (lists, receipts) change nothing. Anybody may hold the link.

*Outside the module.* What handlers do to the total is in `DraftTotals`. The
two other writers of the status are in `OrderWriters`; updateOrder of the
admin, which may also change the master, the delivery and the items, is in
`AdminOrders` as far as wages go.

### How `OrderWriters` corresponds to the code

Two handlers write `Order.status` and do not ask the status table. The button
"Yetkazib bo'ldim" (`onDriverDelivered`, bot.update.ts:600-634) is one
`updateMany` by id and driver_id; it stays in the courier's chat for good, so it
is enabled whenever he is the order's courier, at any status.
`updateOrderStatus` (admin.service.ts:1244-1276) looks whether the order exists
and updates it by id; `BossWrites` bounds the orders and statuses the boss
chooses in a run, the theorems take any. Both are one step, change no column but
the status, and write no OrderEvent. `completed_at` and the AuditLog row of the
boss are left out: nothing in these modules reads them. `writers` is a history
variable: who has written which order. The module extends `OrdersService` and
changes none of its actions; its next-state relation adds the two writers to
`Next`.

### How `AdminOrders` corresponds to the code

The columns that `OrdersService` holds constant are variables here: master,
delivery_needed, the sum of the service items, and `User.percent_rate`. The
wages are computed as the code does, rounding included (`Percent`), from the
row as it was read (`Wages`), for customerConfirm and for recalculateOrderFees.

*recalculateOrderFees* is four steps, one for each read that others may
outdate: the order with its users, items and old rows; in the `$transaction`
the deletes and the master's balance; the write of that and the driver's
balance; the rest and the commit. Its writes show only at the commit. A
`delete` of a row that is gone fails the transaction (Prisma P2025) and one
that another transaction deletes waits (`Deleting`); a user another
transaction has written is locked (`Locked`).

*updateOrder* is two steps, as it writes items outside a transaction and the
order after them; a field left out of the dto is `Keep`. *updateOrderStatus*
and *updateUser* read only to see that the row exists, so they are one step.
*customerConfirm* is its read and one step for its `$transaction`, which reads
nothing that this module's other writers change; stock and organization are
left to OrdersService. The life of the order before `working` is left out: no
wage depends on it.

### The parts around the orders

These modules abstract each other: a handler whose interleavings are the
subject of `OrdersService` is one step in the modules of the chats and pages,
and a page that only reads is a read of the rows.

*`DraftTotals`* follows one order's items and `total_amount`. createDraft is
one transaction; addManualProductToOrder is an insert, a sum and a write;
setLocation and confirm write a total of the items they read; createOrder and
updateOrder write items one statement at a time and the order after them.
`exact` records that the last writer of the total was alone and finished;
`TotalIsItems` is claimed in that case, and breaks in the others.

*`Inventory`* follows one product through createProduct, updateProduct, stockIn
and sales. A sale is the check of the stock, then the decrement or a rollback;
`checked` is what the open ones have found, and nothing locks the product in
between, so `stock` is any integer and two sales take it below zero, as run
`oversell` shows of the whole settlement. `units` is what came and went; `torn`
names what a stale write or a handler that failed halfway has broken. *`Suppliers`* has deliveries on credit,
payments and getSupplierDebtSummary as two queries with the FIFO loop as a fold.

*`Organizations`*: customerConfirm increments `balance_due`, the ERP's
PaymentDialog writes "the debt on the page less the amount". Every reading is
marked old when the debt changes; `crossedOut` records a payment computed from
an old one. There is no row of a payment, so nothing can repair it.

*`Broadcast`*: `void broadcastOrder()`, queue.add, and `process()` await by
await, with BullMQ's defaults from how the code uses it: one attempt, one job
at a time, a job without a lock goes back to the queue `MaxStalls` times. The
process may crash and restart anywhere, lose a lock while it goes on, and be
refused by Redis or by Telegram.

*`BotAuth`*: stepPassword is split at the comparison of the hash, /logout
between finding the user and writing to him; the lock and the session are
ticks left to run.

*`BotDialogue`*: `buttons` are the live inline buttons in the chats. A press
runs the whole handler (the service call, its answer, the edit of the message,
the notification it sends); a send or an edit may be refused. Beside the presses
are the HTTP calls on the same rows (location, confirm, cancel, accept, delivered,
driver-finish, receive, finish) and the boss: createOrder, updateOrderStatus to any
status, and updateOrder as far as it changes the master (`owner`) and
delivery_needed (`delivery`). Some of these move an order to a status that waits for
the master and send nothing; `unasked` is the set of the orders whose last such
move asked nobody. Two handlers are registered for
every text (bot.update.ts:961 and 1287). Which of them gets one is decided in
nestjs-telegraf; the model lets the dialogue of the manual service have it.

*`BotHistory`* has the histories by offset while orders close and reopen.
*`BotReports`* and *`AdminReports`* have each figure as the set of orders (or
Transaction rows) it adds up, so that two figures can be compared without
arithmetic. A day has four instants; the browser may be ahead of UTC and the
server's zone is a parameter, since nothing in the repository sets it.

*`WebSession`*: the provider's wait for the SDK, its polls for initData, the
one check with the server, the calls of a page, and the reload of "/" that
api.ts does on a 401 or 403, while initData expires and the account behind it
changes. *`NewOrderForm`*: the vehicles of an organization are fetched on every
choice and not cancelled on the next; one call creates the draft and its answer
may be lost. *`MyOrdersPage`*: a card is a status and the moment it was true; a pressed button's
call succeeds from every status its service takes, not only the one on the card.
*`HistoryPage`*: any answer is appended under whichever tab is open.

*`ErpSession`*: cookies and the tokens in them as ticks left, status and me
of useAuth, the poll and a write through the proxy (first try, renewal, second
try with its body already read), and logout. A renewal that fails, for whatever
reason, is a 401 to the caller: doRefresh answers a token or null. *`ErpCache`*: one key of the query
cache, any of the ERP's, through any page: mount, fetch, write, invalidate,
optimistic rows and their rollback. A rollback puts the rows of another list
under the key in front only while the list of orders is in front, and only if
that other list is cached (orders/page.tsx:95-108): `restored` is that choice.

## 3. Runs

| Run | Question | Bounds |
|---|---|---|
| `two_slots` | What holds however requests overlap? | 1 order with delivery, 1 master, 2 couriers, 2 slots per user, 2 customer tabs, 3 requests in flight, 2 links |
| `one_slot` | What more holds if each user waits for the answer? | 2 orders (with and without delivery) of 1 master and one organization, 2 couriers, 1 slot, 2 customer tabs, 1 part in stock for two orders |
| `double_tap_courier` | Does an order keep its courier? No. | as two_slots |
| `early_receipt` | Is an order with delivery received only after a courier has reported? No. | as one_slot |
| `oversell` | Is the stock check enough? No. | 2 orders of 2 masters, 1 part |
| `writers_one_slot` | What survives the courier's button and the boss's status change? | as one_slot, 1 customer tab, 2 requests in flight; the boss has one order offered again and closes the other |
| `recalculate` | Is it safe to recalculate an order while it is recalculated, edited, reopened or settled? | 1 order, 1 master, 1 courier, 2 rates, 2 requests in flight |
| `recalculate_lost_update` | And beside the settlement of another order? No. | 2 orders of 1 master, 2 requests |
| `recalculate_wrong_payee` | And after the master of the order has been changed? No. | 1 order, 2 masters, 1 request at a time |
| `live_parts` | What comes about in the broadcast, the two sessions and the ERP's cache, and what must not on the way? | below |
| `desk_parts` | What holds in the parts around the orders: login, chats, figures, pages, stock, suppliers, organizations, totals? | below |
| `daily_gap` | Is every order of a day in the daily sheet? No. | 2 orders, 2 days of four instants |

What `two_slots` shows: an order that is with a courier names him; stock and organization debt moved exactly
once for each settled order; a completed order is settled; and the service
implements `FeeLedger`, so that balances are the sums of the Transaction rows.
This includes double taps, retries, crashes between
any two steps, a rejected delivery, a fee paid to one courier and a settlement
with another, and a link confirmed twice or replaced by a second `finish()`.

What `one_slot` shows: the row a handler writes is the row it has checked; a
link is live exactly while the customer is asked; a delivery fee was earned;
the orders of one master cannot oversell (they share his balance row, which the
settlement locks before it looks at the stock); and the service implements
`OrderFlow`: the status table, one courier per order, nothing after `completed`,
only broadcast orders with delivery are offered.

What `writers_one_slot` shows: an order that neither the button nor the boss has
written yet walks `OrderFlow`, whatever they do to the orders beside it
(`UntouchedFlow`), and only the courier who has an order is paid for it, through any
number of presses of his button, until the boss has it offered again
(`OneCourierPaid`). `WritersProofs` adds what else survives: the books, balances,
stock and debts for any number of slots, a completed order is settled and an order
with a courier names him unless the boss has written it (`SettledUnlessBoss`,
`CourierUnlessBoss`), and an order keeps its courier (`CourierUnlessReoffered`).

What `recalculate` shows: for one order with one master the code is safe
although nothing in it looks so: the second of two recalculations finds its old
rows gone, or the unique index taken, and rolls back with the balance it has
written. Balances stay the sums of the rows, and no step, failure included,
shows a paid order without its wage. This includes rates, delivery and status
changed in between, and orders the boss sets to completed without a settlement.

`MCLive` and `MCDesk` put modules that share no state into one run each: a
variable `part` says which of them a behaviour follows while the others stand
still in one state. This is a way to run them, not a claim that they interact.

What `live_parts` shows, part by part:

- `broadcast`: a job that has reached Redis ends completed or failed, whatever
  crashes and lost locks come (`QueuedJobSettles`); a completed one has sent to
  every courier who was active since it was queued, and to none more often than
  Redis hands a job out (`OffersMade`); a call is lost only before it reaches
  Redis and nothing is lost or fails without a fault (`LostOnlyBeforeRedis`).
- `web`: the spinner always ends (`SpinnerEnds`), and a refused account cannot
  reload the app in a circle (`ReloadsBounded`).
- `erp`: no call runs twice through renewal and retry (`RunsOnce`); nothing
  brings a session back after a logout but for what is left of one token
  (`LogoutLasts`); a session that is over is shown to be over, by the poll
  (`SessionOverShown`).
- `cache`: a page that has written what it shows gets rows with its write, or is
  left, or shows an error (`OwnWriteShows`).

What `desk_parts` shows:

- `auth`: the third wrong password locks the account, from whatever chats they
  come, unless two were compared at once (`ThirdFailureLocks`); a chat that
  logged out speaks for nobody (`LogoutHolds`).
- `dialogue`: an order whose master was asked has a live button in his chat as
  long as it waits for him, whatever older messages are pressed and whatever else is
  called (`WaitingOrderIsAsked`). This is claimed of no order that was moved or left
  without asking: the send was refused, he declined to start, setLocation came over
  HTTP, the courier pressed the button of the bot, or the boss set the status or
  changed the master. Such an order does wait without a button, until a handler
  that asks moves it again. No old button, late offer or HTTP call reopens a closed
  order, except the courier's "Yetkazib bo'ldim"; the boss may, too
  (`ClosedStaysClosed`).
- `history`, `pages`: leafing by offset shows every order unless one leaves
  the list (`LastPageMeansAllSeen`); a tab of the WebApp's history shows its own
  orders unless answers crossed (`TabShowsItsOwn`).
- `reports`, `books`: the daily sheets do not overlap; week, day, staff and
  master's figures agree; no day falls out of the reports, in any zone of server
  and browser; breakdowns, dashboard and histories agree as far as their
  definitions let them (`FiguresAddUp`; its parts are commented one by one).
- `form`, `cards`: a draft is what the form says and refusals are the three
  known ones (`DraftIsTheForm`), one draft per form and lost answer
  (`OneDraftPerAnswer`); a card shows statuses the order has had and never goes
  back (`CardsFollowOrders`).
- `inventory`, `suppliers`, `organizations`, `totals`: the stock accounts for every
  unit, below zero too, the ages of debt add up, and debt and total are what
  they should be, each unless a named overlap or failure came in between
  (`StockIsAccounted`, `AgesAddUp`, `DebtIsAccounted`, `TotalIsItems`).

Where a property says "unless", a variable of the model records the case
(`unasked`, `torn`, `crossedOut`, `exact`, `listsCrossed` and the like), and in
that case the code can break what the property says: the property does not catch
it. What it shows is that no other step of its module does; a handler that
section 2 leaves out of that module could be another way. The hazards in
`PROJECT.json` whose case is left out like this say so in their note.

*Bounds of the orders' runs.* A second request of the same user is what a double
tap is, and the races between two writers need two requests and a third party,
so MaxInflight is 3. The second link exercises a repeated finish(); couriers
differ only by name, so two show every takeover. The one part on the shelf is
the boundary of the stock check. Couriers, slots and customer tabs are
interchangeable and no property names one: symmetry. In the runs whose
properties do not read the audit log it is left out of the fingerprint (`VIEW
WithoutEvents`): no guard reads it.
`writers_one_slot` leaves out the queue too (`VIEW RowsAndBooks`): no write of an
order waits for it. Two requests in flight there, as a stranger's write is the
third party. Of what the boss may set, `broadcasted` undoes the courier and
`completed` the settlement; two orders, so that each has a neighbour that was written.

*Bounds of `live_parts`.* One order with one call, two couriers, one redelivery
(`maxStalledCount` is 1 in BullMQ) and two faults, so that a job can be lost
again during its second run; the second call of an order is another job and the
theorems have any number. Two polls for initData, two pages, two changes of the
account. The access token lives one tick and the refresh token two, so that both
can run out; one write and one poll at a time, which is what the pages send.
Two visits, one write and one error in the cache: a write, the page left and
reached again, and the fetch of either time.

*Bounds of `desk_parts`.* Login: one account, two chats, two passwords compared
at once, three tries; with one account nobody can be refused because another
user has the chat's number. Dialogue: two orders, one with delivery, of one master,
a colleague he may lose them to, two couriers. One refused message or edit
(`MaxLost`) and one order edited or status set by the boss (`MaxEdits`), both
only while there is one order (`TroubledAlone`): two orders meet nowhere but
in the choice of the newest draft, and the theorems have any number of all. Histories: three orders in pages of one, two changes;
two closed orders in pages of one, two fetches at once. Figures: two orders,
two masters, two days, a week of one day (`WeekDays`; one day before and one
after its edge are there), schedule at the first instant after midnight, one
status set by the boss, a browser that may be ahead of UTC by one instant and a
server with any zone up to it. Form: two organizations with one vehicle and room
for a second, two pieces, two drafts. Cards: two orders, two changes behind the
page, into a status with a button to cancel, to deliver, to finish, and one with none
(`MovedTo`). Stock: two clerks and two open sales at once, two costs and one
sale price, one unit, which is the boundary of the check, and one below zero
(`MaxShort`), which two sales of it reach.
Suppliers: three purchases in three ages, money for two of the larger. An organization: an
opening debt or none, one settlement, payments below and above the debt, two
tabs. Totals: two items, two writers at once.

*Deadlock* is checked where the system never stops, and not in the runs of
`MCOrders`, `MCWriters`, `MCLive` and `MCDesk`: orders end (completed, cancelled, links used
up), pages are closed, bounds are used up, and then it really stops.

*Fairness.* The runs of the orders assume none: their properties are safety.
`MCLive` assumes weak fairness of what runs by itself once begun, and nothing of
people, faults or clocks:

- Broadcast: Node's event loop goes on with a started call and with the worker's
  job, BullMQ's stalled check comes round, the host restarts a process that died (a
  web service of Render, render.yaml). No message has to arrive.
- WebSession: the provider's timers fire and its effects run, and a fetch is
  answered or fails.
- ErpSession: a call under way goes on to an answer or a failure, `refetchInterval` keeps
  polling, logout is answered, the browser carries out a navigation. Faults are
  bounded by `MaxBroken`, as a network that never works shows nothing.
- ErpCache: the server answers what it is asked.

### Disagreements with what is written

1. `double_tap_courier`. "Atomic accept: only the first driver who clicks gets
   the order" (orders.service.ts:890; TZ.md:326). `driverAccept` is atomic, but
   `confirm()` updates by id: a second confirm() that read the draft sets the
   order back to `broadcasted` after a courier took it, and another takes it
   over. `OneSlotOneCourier` proves that the overlap is necessary. In the same way a
   request that read the order before the settlement writes its status over
   `completed`, and the unique index then rejects every further settlement;
   `OneSlotCompletedIsFinal` proves that this takes an overlap, too.
2. `early_receipt`. The endpoint is documented as `delivered_by_driver ->
   working` (webapp/utils/api.ts:486; TZ.md:349). `receive()` checks the
   table, which also allows `draft -> working` and `waiting_confirmation ->
   working`, and not delivery_needed. No overlap is needed.
3. `oversell`. "Check stock before decrement" (orders.service.ts:1103): the
   check reads without a lock at Read Committed, so two settlements with no
   common row before the product take the stock below zero.
4. `recalculate_lost_update`. recalculateOrderFees (admin.service.ts:1620-1629)
   reads a balance and writes back a sum, customerConfirm increments it: a
   settlement of another order of the same master in between is lost from the
   balance.
5. `recalculate_wrong_payee`. It finds the old wages by type
   (admin.service.ts:1604) and takes them off the present master
   (admin.service.ts:1625), who is another one after updateOrder.

6. `daily_gap`. "Har kuni 19:00 da (UTC+5 = 14:00 UTC)" the bosses get the
   sheet of the day (daily-report.cron.ts:13). Schedule and window are both taken
   in the zone of the process: the run is at 14:00, its window ends at 19:00. An
   order created between the two belongs to the window of a run that is over and
   comes before the window of the next: it is in no sheet.

Met while modelling, and not properties of a run:

- The courier's button "Yetkazib bo'ldim" (bot.update.ts:619) sets
  `delivered_by_driver` from any status, a settled order's too, although nothing
  follows `completed` (order-status-machine.ts:38). `OneCourierIsPaid` proves that
  nobody else can be paid by that. Unlike driverDelivered of the service, it writes
  no OrderEvent, so the audit log does not name him (TZ.md:140-141).
- The ERP's button that deletes an organization calls a route the backend does
  not have (organizations/page.tsx:62; no `@Delete` in the admin controller).
- toggleUserActive refuses to block a boss (admin.service.ts:214), updateUser
  with `is_active: false` does it.
- OrderDetail.tsx:92 copies the order into the form whenever a refetch brings a
  new one: edits that are not saved yet are gone.
- A client's telephone typed as the WebApp suggests ("90 123 45 67",
  new-order/page.tsx:281) has a row in getIndividualClients, but getClientOrders looks
  for digits only and finds none of its orders.
- The reports move the end of the browser's day to the end of the server's: in
  two zones the reports of neighbouring days overlap. The sheet of orders gets
  bare dates and begins at midnight of UTC.
- Today's revenue is by completed_at on the dashboard and by created_at in the bot.
- The low-stock alert leaves out a product whose stock is 0
  (stock-alert.service.ts:30).
- Two handlers are registered for every text (bot.update.ts:961, 1287).

Each property of a passing run has a mutant in `PROJECT.json`: a plausible bug
in a mapped definition that makes TLC report the property violated.

## 4. Proofs

Assumptions: the named ASSUME of each module (distinct kinds of users, no courier
that is nobody, types and finiteness of the constants), which TLC evaluates in the
runs of the MC modules. The sets of users, orders, couriers, tabs and slots may be
infinite unless a constant is assumed finite, and the bounds of the runs are any
numbers in the theorems. Fairness is not used. A theorem with a hypothesis of its
own has it in its statement; there are four hypotheses, each of which some run
satisfies, and the table names the runs that show what is lost without it.

| Hypothesis | Theorems | Satisfied in | Broken in |
|---|---|---|---|
| `OneSlot`: a user waits for the answer | all of `OrdersOneSlotProofs`; the last four of `WritersProofs` | `one_slot`, `writers_one_slot` | `double_tap_courier` |
| `LocksShared`: two orders for one product share a master or an organization | `SharedLocksCoverStock`, `StockSurvivesWriters` | `one_slot`, `writers_one_slot` | `oversell` |
| `[]PayeesApart`, `[][MastersStay]_vars`: requests under way on two orders have no payee in common; no order changes its master | `BalancesFollowWages` | `recalculate` | `recalculate_lost_update`, `recalculate_wrong_payee` |
| `CronHour < Evening`: the daily run comes before the edge of its window (14:00 and 19:00 in the code) | `FiguresCompare` | `desk_parts` | none: the schedule is fixed in the code |

`SumProofs` has no theorem of the system. `SumFunctionOnSet` is a recursive
function, that is, a CHOOSE; the lemmas show that the function exists
(`SolutionExists`) and has its equation (`SumUnfolds`), and that a sum over a finite
set grows by the row that is added (`SumWith`). The induction theorems of the
library take an operator as a parameter and cannot be used; the induction here is on
the least size of a counterexample (`LeastNumber`, from WFMin).

`OrdersServiceProofs`, for any number of slots:

- `TypeCorrect`: TypeOK is inductive by itself.
- `AlwaysChecked` (lemma): a request remembers that its checks passed on the
  row it saw (`CheckedInv`). Most other proofs start from this, since the
  `...Write` steps have no guard of their own. `StepKinds` reduces the
  actions to four kinds of step for the rest.
- `CourierIsKnown`: WithCourierHasDriver is not inductive, since a write moves
  an order to a courier status from whatever status it now has. The
  strengthening `CourierInv` adds that a request on its way to a courier status
  has found driver_id set in the row, and that the column is never cleared.
- `CompletionSettles`: the only write of `completed` posts the master's fee in
  the same step, and rows are never removed.
- `BooksAreKept`: Spec => FeeLedger. Needs that an open settlement has found
  its keys free and that no two open settlements share a payee (`LedgerInv`,
  from the row locks); otherwise the unique index would be passed twice.
- `BalancesAreSums`: a step posts rows with new keys or none (`LedgerInv`), and adds
  to a balance what it posts, so the sums follow (`BalanceInv`).
- `SettledOrdersMoveOnce`: the same for stock and organization debt, as sums over the
  settled orders (`SettlementInv`): a commit makes one more order settled.
- `SharedLocksCoverStock`: what an open settlement has found on the shelf is still
  there (`ShelfInv`), for whoever else is between check and commit locks none of its
  rows, so by `LocksShared` takes none of its products.

`OrdersOneSlotProofs`, under `OneSlot`:

- `ChecksStayFresh`, `LinksLiveWhileWaiting`, `OneSlotOneCourier`,
  `OneSlotCompletedIsFinal`, and `OneSlotImplementsFlow` (Spec => OrderFlow).
- The argument: the code locks nothing, but the statuses from which a master's
  handler may write and those from which a courier's may write do not overlap
  (`SourcesOf`), and each order has one master and one courier. So two requests
  that are about to write one order come from one user (`Alone`), who has only
  one. `OneSlotOf(o)` joins this to NoStaleWrite, to the statuses an order has
  while a customer confirms it, and to the absence of a courier before
  `received_by_driver`; no conjunct is inductive without the others, but each order
  is by itself: a step is shown to keep it for every order that has it
  (`OneSlotInv` says that all do), which is what `WritersProofs` builds on.
- `FeesAreEarned`: the fee is paid from a status only the courier's report leads to;
  `EarnedInv` keeps that report on the audit log from there on.

`WritersProofs`, for any number of users and orders and any statuses the boss sets:

- `WritersTypeCorrect`, `BooksSurviveWriters` (WritersSpec => FeeLedger),
  `SumsSurviveWriters`, `StockSurvivesWriters`: a stranger writes a status and nothing
  else (`StrangerRows`), and the invariants on requests, books and stock
  (`BooksInv`, `ShelfInv`) name no status: that is why they survive.
- `OnlyBossSkipsSettlement`, `OnlyBossForgetsCourier`: the second is not inductive. It
  needs `CourierKnown`, CourierOf for the orders the boss has left alone: the button
  finds its presser in driver_id.
- `UntouchedStaySound`, `UntouchedWalk`, under `OneSlot`: the per-order invariant
  `OneSlotOf` holds for every untouched order, since what is written to one order
  is read by no request on another (`UntouchedInv`). The walk through `OrderFlow` is a
  refinement for each order by itself (`OneFlow`).
- `CourierStays`, `OneCourierIsPaid`, under `OneSlot`: for the orders with the button
  pressed OneSlotOf is lost, because the button makes the checks of an open request
  stale. What is left is `CourierOnce`: there is no courier before the acceptance, a
  request that has seen an early status still finds that status (the button
  cannot be there yet), one that has seen a later status finds the order at a later
  one, and the courier it has seen is the courier. So no write leads back to an
  offer, and the fee goes to the one who has the order.

`AdminProofs`, for any number of requests, orders and users:

- `AdminTypeCorrect`: TypeOK, inductive by itself.
- `WagesSurvive`: WageSurvives. The strengthening `ReplaceInv` says that a
  recalculation deletes rows of its own order only and carries the wage that
  replaces them; `StepReplaces` that its stages keep both.
- `BalancesFollowWages`: a recalculation writes a sum it has computed two steps
  before. The invariant says that every row goes to the payee its order has
  (`Books`), that a request carries one slip of such rows (`Papers`), and that a
  recalculation in its `$transaction` has its rows to itself and the balances it
  has read are still those, unless the unique index is going to refuse it
  (`Stages`). The last alternative is what makes the code safe when an order found
  unpaid is paid in between.

`LiveProofs`, for any couriers, orders, calls, faults and limits:

- `OffersAreMade` and `LossesAreFaults`, from one invariant. OffersBounded is not
  inductive: it needs that the number of offers follows the number of times
  Redis handed the job out, the one under way included (`Handed`), also for a
  worker that goes on without its lock. CompletedTriedAll needs that a run serves
  or has still to serve whoever was there all along (`RunInv`).
- `ReloadsAreBounded`: calls are on their way only from a page the user opened,
  which has its reload still to come (`ReloadsInv`).
- `CallsRunOnce`: for cookies of any age, a call still to be tried has not run.
- `LogoutsLast`: needs, besides the age of the token left behind, that after a logout
  no call under way carries a refresh token (`GoneInv`); without this the token could
  be renewed for ever.
- `WrongRowsAreReplaced`: OwedIsUnderWay, that what a page is owed is on its way: a
  fetch, or the write whose answer asks for one. Each of the pages is sound by itself
  (`PagesSound`): a write tells every key its page shows and it changes, or closes
  the dialog that shows it, and the rollback of a status change tells the list it
  may have put wrong rows in. `CacheInv` adds that the write on its way is one of
  its page's, and that rows are wrong only in front of the page that wrote them.
  The induction needs that a rollback remembers in front of which page it has put
  rows back.
- `LiveTypeCorrect`: LiveTypeOK, from the invariants of the four parts (`LiveInv`).

`BotProofs`, for any chats, accounts, orders, messages and days:

- `ThirdFailure`: the counter in the row is the number of wrong passwords, and so is
  the copy in the one comparison under way (`CountInv`), outside accounts where two
  were compared at once.
- `LoggedOutIsSilent`: a chat belongs to one account; a chat that is out has none
  with a session; a logout between its two steps has found the only one
  (`LogoutInv`).
- `QuestionsStand`, `OnlyDeliveredReopens`: every press, call and write of the boss is
  shown to leave a waiting order its button, unless it is one of those that ask
  nothing, and a closed order closed (`DialogueStep`), handler by handler. A press
  takes off the buttons of its own message only, and then its order has moved on,
  was never waiting for it, or has another message in its place.
- `LeafingSeesAll`: as long as no order has left the list, those the reader is owed
  are still in it and the ones above his offset are shown (`Leafed`). Places count
  how many orders come before one; an order that joins only pushes others down.
- `FiguresCompare`: the comparisons hold in any state whose dates and payees make
  sense; `FiguresInv` says that all reachable ones do: an order is created before
  it is completed, and a sheet has orders of its own window, created before the run.

`DeskProofs`, the forms, pages and books around the orders:

- `DraftsAreTheForm` and `DraftsAreAnswered`, for any organizations and fleets. The
  argument is `Lists`: as long as no two lists crossed, the options are those of the
  organization in front or the select waits, and the vehicle chosen is one of the
  options, so its plate cannot be typed over. Drafts equal lost answers, plus one
  while an answer is on its way (`Replies`).
- `DebtsAreAccounted`: every reading that is not marked old is the debt, and every
  payment on its way that is not is the debt less the amount (`PageInv`).
- `CardsNeverGoBack`: answers and calls carry statuses the order has had, no older
  than the card they will replace (`CardsInv`). This needs that at most one of them
  is under way, and that a fetch is never beside a call of an order
  (`OneAtATime`, `FetchOrAct`).
- `StockCountsUnits` and `BooksFollowTheRow`: a clerk's handler that is not marked
  stale has in hand what the row has now (`AsRead`), so what it writes is a
  difference it is right about; a price or bill not yet written is on its way or
  named in `torn`. A sale decrements in the database, so its difference is right
  whatever its check has found.
- `TotalsFollowItems`: a writer that was alone since it read knows the items and the
  delivery it will count (`KnowsOrder`), and there is no other writer beside it.
- `TabsShowTheirOwn`: while no answers crossed there is one request on its way, for
  the tab in front and the page after the last one (`OneAsked`), so the rows are the
  list up to that page (`ShownTo`; `NextPageAppends`).
- `DebtsAreAged`: the FIFO loop and the total are two folds over one sequence; both
  are shown to have their equation, and by induction on the number of purchases the
  money left and the ages add up to the total (`Covered`).
- `PagesAreTyped`: a page cut from a list is a list of orders because every rank from 1
  to the size of the list is held by one (`RanksAreHeld`: the newest of those that
  have enough orders as new as themselves), and a request finds a number while fewer
  than `MaxFetches` are out (`NumberIsFree`).
- `DeskTypeCorrect`: DeskTypeOK, from the invariants of all twelve parts, those of
  `BotProofs` among them, which hold side by side (`DeskInv`).

Only model-checked: liveness (`QueuedJobSettles`, `SpinnerEnds`, `SessionOverShown`,
`OwnWriteShows`) and with it ENABLED, which are beyond the prover. What
`OwedIsUnderWay` says is the safety half of `OwnWriteShows`.

All safety properties of the passing runs, the refinements included, are proved.

## 5. Plan and limits

Done: the orders and their settlement, the other writers of the order rows, the
boss's corrections, the parts around the orders, and a theorem for each safety
property a run checks; some theorems state properties that no run does. What a next step would take up:

1. updateOrder beside the couriers' part of an order's life: a change of master or
   delivery_needed while a request is open (`OrdersService` holds both constant).
2. The composition of `Broadcast` with `OrdersService`: offers as the worker sends
   them, in the place of the queue the orders have.
3. The three hazards of `PROJECT.json` with no property: each names why.

## 6. Not modelled

- CRUD of users, services, vehicles and products beyond stock and price: checks
  of one request on one row. What a user's role and activity do to sessions is in
  `WebSession`, `ErpSession`, `BotAuth`; what the ERP shows after a write in `ErpCache`.
- OrganizationsModule, VehiclesModule, ServicesModule, UsersModule, HealthModule
  and ProductsController: not imported by `app.module.ts`, they answer nothing.
- Audit, upload, health, debug, configuration, filters, webhook set-up: I/O and plumbing.
- Texts, menus, cards, charts, layout of pages and Excel files.
- The vehicle history, the ten most sold services, recent orders: queries of one request whose
  figures nothing else repeats.
- The customer's confirmation page and the wallet of the WebApp: they show one
  answer and keep nothing; the confirmation itself is `customerConfirm`.
- Signatures (JWT, initData), bcrypt, PostgreSQL, Redis, BullMQ, Telegram and
  TanStack Query: external, modelled from how the code uses them.
