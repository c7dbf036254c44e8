---------------------------- MODULE AdminReports ----------------------------
(***************************************************************************)
(* The figures of the back office: the dashboard, the reports page, the    *)
(* reports of a master and of an organization, the sheet of orders and the *)
(* histories of clients, next to the bot's figures of the same orders.     *)
(* Here too a sum of money is the set of orders, or of Transaction rows,   *)
(* that it adds up.                                                        *)
(*                                                                         *)
(* Times are the server's. The page builds its dates in the browser, whose *)
(* clock is ahead of UTC by BrowserAhead; the server's is ahead by `u',    *)
(* which nothing in the repository sets, so the figures take it as a       *)
(* parameter.                                                              *)
(***************************************************************************)
EXTENDS BotReports

CONSTANTS
  Bills,        \* what the orders may say: a set of functions on SoldOrders
  MaxResets,    \* statuses the boss sets (bound)
  BrowserAhead  \* instants by which the browser is ahead of UTC

VARIABLES
  bill,     \* master, party, telephone and courier of each order
  settled,  \* orders that have their Transaction rows
  resets    \* statuses the boss has set

\* Two zones of the earth are less than a day apart.
ASSUME BooksAssumption ==
  /\ \A b \in Bills, o \in SoldOrders : b[o].master \in Masters /\ b[o].courier \in BOOLEAN
  /\ MaxResets \in Nat
  /\ BrowserAhead \in 0..(Day - 1)

booksVars == <<bill, settled, resets>>

Private == "private"    \* organization_id = null
ServerZones == 0..BrowserAhead

BooksTypeOK ==
  /\ ReportsTypeOK
  /\ bill \in Bills
  /\ settled \subseteq Sold
  /\ resets \in 0..MaxResets

BooksInit == bill \in Bills /\ settled = {} /\ resets = 0
-----------------------------------------------------------------------------
\* The settlement: the rows, completed and completed_at in one transaction.
HandOver(o) ==
  /\ CloseOrder(o, "completed")
  /\ settled' = settled \cup {o}
  /\ UNCHANGED <<bill, resets>>

\* The boss sets any status at any time. Completed once more, the order gets
\* a new completed_at; it gets no rows, and loses none when it is reopened.
UpdateOrderStatus(o, status) ==
  /\ o \in Sold
  /\ resets < MaxResets
  /\ resets' = resets + 1
  /\ sold' = [sold EXCEPT ![o].status = status]
  /\ doneBy' = [doneBy EXCEPT ![o] = IF status = "completed" THEN now ELSE @]
  /\ UNCHANGED <<now, sheets, ran, bill, settled>>

RecalculateOrderFees(o) ==
  /\ o \in Of("completed", Sold)
  /\ settled' = settled \cup {o}
  /\ UNCHANGED <<reportsVars, bill, resets>>

BooksNext ==
  \/ \E o \in SoldOrders : CreateOrder(o, bill[o].master) /\ UNCHANGED booksVars
  \/ \E o \in SoldOrders : HandOver(o) \/ RecalculateOrderFees(o)
  \/ \E o \in SoldOrders, s \in {"open", "completed", "cancelled"} : UpdateOrderStatus(o, s)
  \/ Passes /\ UNCHANGED booksVars

BooksSpec == ReportsInit /\ BooksInit /\ [][BooksNext]_<<reportsVars, booksVars>>
-----------------------------------------------------------------------------
(* Days as the browser, the server and UTC see them.                       *)

EndOfDay(t) == Midnight(t) + Day - 1
DayStart(u, d) == Day * d - (BrowserAhead - u)        \* d + 'T00:00:00' in the browser
BrowserDay(u, t) == (t + (BrowserAhead - u)) \div Day
UtcStart(u, d) == Day * d + u                         \* new Date('yyyy-MM-dd')

\* Mutant: the end of the period is taken as the page sends it, one zone
\* further on.
PeriodEnd_Shifted(u, d) == DayStart(u, d)

\* 'T23:59:59' of the page, and then setHours(23, 59, 59, 999) of the server.
PeriodEnd(u, d) == EndOfDay(DayStart(u, d) + Day - 1)

Completed(from, to) == {o \in Of("completed", Sold) : from <= doneBy[o] /\ doneBy[o] <= to}

\* Transaction rows of the settled orders.
FeeRows(orders) == {<<o, "master_fee">> : o \in orders \cap settled}
                     \cup {<<o, "driver_fee">> : o \in {p \in orders \cap settled : bill[p].courier}}
-----------------------------------------------------------------------------
\* getReports for the days d to e: summary, rows of the masters, days.
ReportOf(orders, u) ==
  [orders |-> orders,
   masters |-> [m \in {sold[o].master : o \in orders} |->
                  [orders |-> {o \in orders : sold[o].master = m},
                   fees |-> {<<o, "master_fee">> :
                               o \in {p \in orders \cap settled : sold[p].master = m}}]],
   drivers |-> {<<o, "driver_fee">> : o \in {p \in orders \cap settled : bill[p].courier}},
   days |-> [k \in {(doneBy[o] - u) \div Day : o \in orders} |->
               {o \in orders : (doneBy[o] - u) \div Day = k}]]
Reports(u, d, e) == ReportOf(Completed(DayStart(u, d), PeriodEnd(u, e)), u)

\* totalRevenue - totalMasterFees - totalDriverFees
BossProfit(r) ==
  [revenue |-> r.orders,
   fees |-> (UNION {r.masters[m].fees : m \in DOMAIN r.masters}) \cup r.drivers]

\* getMasterReport: the master's completed orders of the period and his fee.
MasterReport(m, u, d, e) ==
  LET own == {o \in Completed(DayStart(u, d), PeriodEnd(u, e)) : sold[o].master = m} IN
  [orders |-> own, fees |-> {r \in FeeRows(own) : r[2] = "master_fee"}]

\* getOrganizationReport and getOrdersReport: orders of any status, by
\* created_at; the second is sent bare dates, which are midnights of UTC.
OrganizationReport(org, u, d, e) ==
  {o \in Created(DayStart(u, d), PeriodEnd(u, e)) : bill[o].party = org}
OrdersReport(u, d, e) == Created(UtcStart(u, d), EndOfDay(UtcStart(u, e)))
-----------------------------------------------------------------------------
\* getDashboard: created today, completed today, open now.
Dashboard ==
  [orders |-> Created(Midnight(now), EndOfDay(now)),
   revenue |-> Completed(Midnight(now), EndOfDay(now)),
   active |-> Sold \ (Of("completed", Sold) \cup Of("cancelled", Sold))]

\* getWeeklyOrders, getWeeklyRevenue: one figure for each of the last days,
\* both by created_at. getOrderStatusCounts: all orders by status.
LastDays == {Midnight(now) - Day * k : k \in 0..(WeekDays - 1)}
WeeklyOrders == [t \in LastDays |-> Created(t, EndOfDay(t))]
WeeklyRevenue == [t \in LastDays |-> Of("completed", Created(t, EndOfDay(t)))]
OrderStatusCounts == [s \in {sold[o].status : o \in Sold} |-> Of(s, Sold)]

\* getUmumiyTushum, getSofFoyda: ever. The rows are those of all orders.
UmumiyTushum == Sold
SofFoyda == [tushum |-> Of("completed", Sold), ishHaqi |-> FeeRows(Sold)]
-----------------------------------------------------------------------------
(* Clients. A telephone is a number and the way it was typed; a search for *)
(* digits does not find a number that was typed with spaces.               *)

HasNumber(phone, number) == phone.number = number /\ phone.form = "digits"

\* getIndividualClients: one row for each telephone as it was typed.
IndividualClients ==
  LET individual == {o \in Sold : bill[o].party = Private} IN
  [p \in {bill[o].phone : o \in individual} |->
     LET own == {o \in individual : bill[o].phone = p} IN
     [orders |-> own, spent |-> Of("completed", own)]]

\* ParsePhone leaves the digits. getClientOrders looks for them in the orders
\* of individuals, getClientsHistory in all orders, and sums every status.
ClientOrders(phone) ==
  LET found == {o \in Sold : /\ bill[o].party = Private
                             /\ HasNumber(bill[o].phone, phone.number)} IN
  [orders |-> found, spent |-> Of("completed", found)]
ClientsHistory(phone) ==
  LET found == {o \in Sold : HasNumber(bill[o].phone, phone.number)} IN
  [orders |-> found, spent |-> found]
-----------------------------------------------------------------------------
\* Whatever zone the server runs in, an order completed on a day of the
\* boss's calendar is in the report of that day, and if the server shares his
\* zone in no other day's. The days of daily_revenue add up to the period.
NoDayIsLost ==
  \A u \in ServerZones, d \in Days :
    LET r == Reports(u, d, d) IN
    /\ \A o \in Of("completed", Sold) :
         /\ BrowserDay(u, doneBy[o]) = d => o \in r.orders
         /\ u = BrowserAhead /\ o \in r.orders => BrowserDay(u, doneBy[o]) = d
    /\ UNION {r.days[k] : k \in DOMAIN r.days} = r.orders

\* The master's page shows his row of the reports page, and the boss's profit
\* is after every fee that was paid for the orders of the period.
BreakdownsAgree ==
  \A u \in ServerZones, d \in Days, e \in Days :
    LET r == Reports(u, d, e) IN
    /\ \A m \in Masters :
         MasterReport(m, u, d, e) = IF m \in DOMAIN r.masters THEN r.masters[m]
                                    ELSE [orders |-> {}, fees |-> {}]
    /\ BossProfit(r).fees = FeeRows(r.orders)

\* The dashboard's profit is never above the reports' (they differ by the fees
\* of orders that were reopened after the settlement); its revenue of today
\* has the bot's, and its week is within the bot's, which is a day longer.
DashboardAgrees ==
  LET ever == BossProfit(ReportOf(Of("completed", Sold), 0)) IN
  /\ ever.revenue = SofFoyda.tushum
  /\ ever.fees = {r \in SofFoyda.ishHaqi : sold[r[1]].status = "completed"}
  /\ TodayRevenue \subseteq Dashboard.revenue
  /\ Dashboard.revenue = Reports(BrowserAhead, now \div Day, now \div Day).orders
  /\ \A t \in LastDays : WeeklyRevenue[t] \subseteq WeekCompleted
  /\ UNION {OrderStatusCounts[s] : s \in DOMAIN OrderStatusCounts} = UmumiyTushum

\* The sheet of orders has no order of an organization that its own report of
\* the same days misses (the converse fails: it begins at midnight of UTC). A
\* client typed in digits alone opens on at least the orders of his row.
HistoriesAgree ==
  /\ \A u \in ServerZones, d \in Days, o \in Sold :
       /\ o \in OrdersReport(u, d, d)
       => o \in OrganizationReport(bill[o].party, u, d, d)
  /\ \A p \in DOMAIN IndividualClients :
       /\ p.form = "digits" =>
            IndividualClients[p].orders \subseteq ClientOrders(p).orders
       /\ ClientOrders(p).spent \subseteq ClientsHistory(p).spent

\* The figures of several days and of several readers can be set side by side
\* (daily-report.cron.ts, bot.update.ts, admin.service.ts getReports,
\* getMasterReport, getDashboard, admin-dashboard.service.ts).
\* With no order yet there is nothing to compare.
FiguresAddUp ==
  Sold # {} =>
    /\ InOneSheet
    /\ FiguresAgree
    /\ NoDayIsLost
    /\ BreakdownsAgree
    /\ DashboardAgrees
    /\ HistoriesAgree
=============================================================================
