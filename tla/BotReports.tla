----------------------------- MODULE BotReports -----------------------------
(***************************************************************************)
(* What the bot tells the boss and the masters in figures: the daily Excel *)
(* sheet of DailyReportCronService, /today, /week and the master's own     *)
(* statistics. Every figure is the set of orders it counts or sums.        *)
(*                                                                         *)
(* A day has four instants: midnight, 14:00 (the default of                *)
(* DAILY_REPORT_CRON), the afternoon, and 19:00 (the edge of the sheet's   *)
(* window). Both 14:00 and 19:00 are of the process's own time zone, for   *)
(* node-cron and for setHours.                                             *)
(***************************************************************************)
EXTENDS Integers, FiniteSets

CONSTANTS
  SoldOrders,  \* orders of the period
  Masters,
  NoMaster,    \* an order that does not exist yet
  CronHour,    \* the instant DAILY_REPORT_CRON names
  WeekDays,    \* 7 in the code
  LastDay      \* days that pass (bound)

ASSUME ReportsAssumption ==
  /\ NoMaster \notin Masters
  /\ CronHour \in 1..3
  /\ WeekDays \in Nat \ {0}
  /\ LastDay \in Nat

VARIABLES
  now,
  sold,     \* created_at, master, whether it is open, completed or cancelled
  doneBy,   \* when each order was completed, -1 if it was not
  sheets,   \* the orders in the sheet of each day
  ran       \* days whose sheet has been made

reportsVars == <<now, sold, doneBy, sheets, ran>>

Day == 4
Evening == 3
Midnight(t) == t - (t % Day)
Times == 0..(Day * (LastDay + 1))
Days == 0..LastDay
Absent == [created |-> 0, master |-> NoMaster, status |-> "open"]

ReportsTypeOK ==
  /\ now \in Times
  /\ sold \in [SoldOrders -> [created : Times, master : Masters \cup {NoMaster},
                              status : {"open", "completed", "cancelled"}]]
  /\ doneBy \in [SoldOrders -> Times \cup {-1}]
  /\ sheets \in [Days -> SUBSET SoldOrders]
  /\ ran \subseteq Days

ReportsInit ==
  /\ now = 0
  /\ sold = [o \in SoldOrders |-> Absent]
  /\ doneBy = [o \in SoldOrders |-> -1]
  /\ sheets = [d \in Days |-> {}]
  /\ ran = {}

Sold == {o \in SoldOrders : sold[o].master # NoMaster}
Created(from, to) == {o \in Sold : from <= sold[o].created /\ sold[o].created <= to}
Of(status, orders) == {o \in orders : sold[o].status = status}
-----------------------------------------------------------------------------
CreateOrder(o, m) ==
  /\ o \notin Sold
  /\ sold' = [sold EXCEPT ![o] = [created |-> now, master |-> m, status |-> "open"]]
  /\ UNCHANGED <<now, doneBy, sheets, ran>>

CloseOrder(o, status) ==
  /\ o \in Of("open", Sold)
  /\ status # "open"
  /\ sold' = [sold EXCEPT ![o].status = status]
  /\ doneBy' = [doneBy EXCEPT ![o] = IF status = "completed" THEN now ELSE @]
  /\ UNCHANGED <<now, sheets, ran>>

Passes ==
  /\ now + 1 < Day * (LastDay + 1)
  /\ now' = now + 1
  /\ UNCHANGED <<sold, doneBy, sheets, ran>>

\* The window of the sheet: 19:00 of the day before to 19:00.
Window(d) == Created(Day * (d - 1) + Evening, Day * d + Evening)

\* runDailyReport: completed orders that were created in the window. A run
\* that throws is logged and not made up for; it simply does not happen here.
RunDailyReport(d) ==
  /\ now = Day * d + CronHour
  /\ d \notin ran
  /\ sheets' = [sheets EXCEPT ![d] = Of("completed", Window(d))]
  /\ ran' = ran \cup {d}
  /\ UNCHANGED <<now, sold, doneBy>>

ReportsNext ==
  \/ \E o \in SoldOrders, m \in Masters : CreateOrder(o, m)
  \/ \E o \in SoldOrders, s \in {"completed", "cancelled"} : CloseOrder(o, s)
  \/ Passes
  \/ \E d \in Days : RunDailyReport(d)

ReportsSpec == ReportsInit /\ [][ReportsNext]_reportsVars
-----------------------------------------------------------------------------
(* The figures of the moment.                                              *)

\* sendBossTodayReport: midnight to the last millisecond of the day.
TodayOrders == Created(Midnight(now), Midnight(now) + Day - 1)
TodayRevenue == Of("completed", TodayOrders)

\* from.setHours(0, 0, 0, 0), seven days ago.
WeekStart == Midnight(now) - Day * WeekDays

\* sendBossWeekReport: all, completed, cancelled, and completed by master.
WeekOrders == Created(WeekStart, now)
WeekCompleted == Of("completed", WeekOrders)
TopMasters == [m \in {sold[o].master : o \in WeekCompleted} |->
                 {o \in WeekCompleted : sold[o].master = m}]

\* sendBossStaffReport: orders of any status, from this very hour a week ago.
StaffOrders(m) == {o \in Created(now - Day * WeekDays, now) : sold[o].master = m}

\* sendMasterStats: today, since midnight seven days ago, and ever.
MasterFigures(m) ==
  LET own == {o \in Of("completed", Sold) : sold[o].master = m} IN
  [today |-> own \cap Created(Midnight(now), now),
   week |-> own \cap Created(Midnight(now) - Day * WeekDays, now),
   all |-> own]
-----------------------------------------------------------------------------
\* No completed order is in the sheets of two days, so their totals can be
\* added up: the windows share 19:00 itself, but the cron asks before it.
InOneSheet ==
  \A d \in Days, e \in Days : d # e => sheets[d] \cap sheets[e] = {}

\* The boss's week has for each master what he sees as his own week, contains
\* the revenue of the day and every order the staff list counts, though the
\* three begin their week at different hours and one is cut at the day's end.
FiguresAgree ==
  /\ \A m \in DOMAIN TopMasters : TopMasters[m] = MasterFigures(m).week
  /\ TodayRevenue = UNION {MasterFigures(m).today : m \in Masters}
  /\ TodayRevenue \subseteq WeekCompleted
  /\ \A m \in Masters : StaffOrders(m) \subseteq WeekOrders

\* "Kunlik hisobot": an order taken and completed between one run of the cron
\* and the next is in the sheet of that next run.
DayIsReported ==
  \A o \in SoldOrders, d \in ran \ {0} :
    /\ d - 1 \in ran
    /\ sold[o].created > Day * (d - 1) + CronHour
    /\ doneBy[o] # -1 /\ doneBy[o] < Day * d + CronHour
    => o \in sheets[d]
=============================================================================
