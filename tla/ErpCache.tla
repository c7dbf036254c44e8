------------------------------ MODULE ErpCache ------------------------------
(***************************************************************************)
(* What the pages of the ERP show of the server, through the query client  *)
(* they share: which keys each page mounts, which of its writes happen     *)
(* where, and which keys it invalidates afterwards. Keys do not influence  *)
(* one another but for the rollback of a status change, so a behaviour     *)
(* follows one key, any of them, through every page the boss may visit. A  *)
(* list's page number, filters and search are part of its key: the key     *)
(* leaves the front when they change. Rows are followed by whether they    *)
(* hold the last write of this tab.                                        *)
(***************************************************************************)
EXTENDS Integers, SequencesExt

CONSTANTS
  MaxVisits,    \* changes of page, dialog or filter (bound)
  MaxWrites,    \* writes of this tab (bound)
  MaxErrors     \* answers that never come (bound)

ASSUME CacheAssumption == MaxVisits \in Nat /\ MaxWrites \in Nat /\ MaxErrors \in Nat

VARIABLES
  key,       \* the key followed
  view,      \* the page in front, with its dialog
  inFront,   \* the page's filters are those of the key
  row,       \* data of the query
  marked,    \* isInvalidated
  fresh,     \* younger than staleTime
  fetch,     \* the fetch on its way: not yet read, or what it read
  write,     \* the mutation on its way
  owed,      \* the page shows rows its own write has made wrong
  visits, writes, errors

cacheVars == <<key, view, inFront, row, marked, fresh, fetch, write, owed,
               visits, writes, errors>>
counts == <<visits, writes, errors>>
-----------------------------------------------------------------------------
(* The pages: the keys they mount, with what their rows are made of, and   *)
(* their writes: what each changes and which prefixes it invalidates.      *)

List(name) == <<name, "page">>
Of(name) == <<name, "id">>
MasterNames == <<"users", "masters">>

\* changed: tables; tells: prefixes, after success; then: the page in front once
\* it has succeeded.
Write(changed, tells, then) ==
  [changed |-> changed, tells |-> tells, then |-> then, optimistic |-> FALSE]

\* A user added, edited or blocked.
UserForm == Write({"users"}, {<<"users">>}, "users")
UsersPage == [shows |-> {List("users")}, does |-> {UserForm}]

UserStats == [
  shows |-> {List("users"), <<"orders", "master", "id", "completed">>,
             <<"orders", "master", "id", "recent">>},
  does |-> {}]

ServiceForm == Write({"services"}, {<<"services">>}, "services")
ServicesPage == [shows |-> {<<"services">>}, does |-> {ServiceForm}]

\* A status change, which is shown at once and tells whether it succeeds or not.
OrdersPage == [
  shows |-> {List("orders"), MasterNames},
  does |-> {[Write({"orders"}, {<<"orders">>, <<"order">>}, "orders")
               EXCEPT !.optimistic = TRUE]}]

\* Mutant: saving an order invalidates the order and not the list behind it.
OrderDetail_OrderOnly == [
  shows |-> {List("orders"), Of("order"), MasterNames, <<"services">>,
             <<"organizations">>, Of("vehicles")},
  does |-> {Write({"orders"}, {Of("order")}, "orderDetail")}]

\* Main fields, items, the fees recalculated.
OrderDetail == [
  shows |-> {List("orders"), Of("order"), MasterNames, <<"services">>,
             <<"organizations">>, Of("vehicles")},
  does |-> {Write({"orders"}, {Of("order"), <<"orders">>}, "orderDetail")}]

NewOrderDialog == [
  shows |-> {List("orders"), MasterNames, <<"services">>, <<"organizations">>,
             Of("vehicles")},
  does |-> {Write({"orders"}, {<<"orders">>}, "orders")}]

OrgForm == Write({"organizations"}, {<<"organizations">>}, "organizations")
OrganizationsPage == [shows |-> {List("organizations")}, does |-> {OrgForm}]

\* The page of one organization. (The backend serves no route for its deletion,
\* which always fails and changes nothing.)
OrganizationKeys == {Of("organization"), <<"orders", "organization", "id">>,
                     Of("organization-vehicles")}
AddVehicleDialog == Write({"vehicles"}, OrganizationKeys, "organization")
EditOrgDialog == Write({"organizations"}, OrganizationKeys, "organization")
PaymentDialog == Write({"organizations"}, OrganizationKeys, "organization")
OrganizationPage == [
  shows |-> OrganizationKeys,
  does |-> {AddVehicleDialog, EditOrgDialog, PaymentDialog}]

ProductsPage == [
  shows |-> {List("products")},
  does |-> {Write({"products"}, {<<"products">>}, "products")}]

ProductForm == [
  shows |-> {List("products"), <<"suppliers-list">>},
  does |-> {Write({"products", "prices"}, {<<"products">>}, "products")}]

StockInDialog == [
  shows |-> {List("products"), <<"suppliers">>},
  does |-> {Write({"products", "debts"}, {<<"products">>}, "products")}]

PriceHistory == [
  shows |-> {List("products"), <<"product", "id", "price-history">>},
  does |-> {}]

SupplierForm == Write({"suppliers"}, {<<"suppliers">>, <<"suppliers", "debt-summary">>},
                      "suppliers")
SuppliersPage == [
  shows |-> {<<"suppliers">>, <<"suppliers", "debt-summary">>},
  does |-> {SupplierForm}]

PaymentForm == Write({"debts"}, {Of("supplier"), <<"suppliers">>}, "supplier")
SupplierPage == [shows |-> {Of("supplier")}, does |-> {PaymentForm}]

MastersPage == [shows |-> {List("masters"), <<"masters-kpi">>}, does |-> {}]
MasterPage == [shows |-> {Of("user"), Of("master-report")}, does |-> {}]
ReportsPage == [shows |-> {<<"reports">>}, does |-> {}]

DashboardCharts == {<<"dashboard", k>> :
  k \in {"weekly-orders", "weekly-revenue", "order-status-counts"}}
DashboardPage == [
  shows |-> DashboardCharts \cup
            {<<"dashboard">>, <<"dashboard", "umumiy-tushum">>, <<"dashboard", "sof-foyda">>},
  does |-> {}]

VehicleHistoryPage == [shows |-> {List("vehicle-history")}, does |-> {}]
ClientHistoryPage == [shows |-> {<<"clients", "individuals">>, Of("client-detail")},
                      does |-> {}]

Pages == [
  users |-> UsersPage, userStats |-> UserStats, services |-> ServicesPage,
  orders |-> OrdersPage, orderDetail |-> OrderDetail, newOrder |-> NewOrderDialog,
  organizations |-> OrganizationsPage, organization |-> OrganizationPage,
  products |-> ProductsPage, productForm |-> ProductForm, stockIn |-> StockInDialog,
  priceHistory |-> PriceHistory, suppliers |-> SuppliersPage, supplier |-> SupplierPage,
  masters |-> MastersPage, master |-> MasterPage, reports |-> ReportsPage,
  dashboard |-> DashboardPage, vehicleHistory |-> VehicleHistoryPage,
  clientHistory |-> ClientHistoryPage]

\* The page a dialog is opened on.
On(v) ==
  CASE v \in {"orderDetail", "newOrder"} -> "orders"
    [] v \in {"productForm", "stockIn", "priceHistory"} -> "products"
    [] v = "userStats" -> "users"
    [] OTHER -> v

Views == DOMAIN Pages
Keys == UNION {Pages[v].shows : v \in Views}
Writes == UNION {Pages[v].does : v \in Views}

\* The tables the rows of a key are made of, as far as the pages write them.
MadeOf(k) ==
  CASE k[1] \in {"users", "masters", "user"} -> {"users"}
    [] k[1] \in {"orders", "order", "masters-kpi", "master-report", "reports",
                 "dashboard", "vehicle-history", "clients", "client-detail"} -> {"orders"}
    [] k[1] \in {"organizations", "organization"} -> {"organizations"}
    [] k[1] \in {"vehicles", "organization-vehicles"} -> {"vehicles"}
    [] k[1] \in {"suppliers", "supplier"} -> {"suppliers", "debts"}
    [] k[1] = "suppliers-list" -> {"suppliers"}
    [] k[1] = "product" -> {"prices"}
    [] OTHER -> {k[1]}
-----------------------------------------------------------------------------
Rows == {"none", "good", "behind", "alien"}
NoWrite == [at |-> "none"]

CacheTypeOK ==
  /\ key \in Keys /\ view \in Views
  /\ {inFront, marked, fresh, owed} \subseteq BOOLEAN
  /\ row \in Rows
  /\ fetch \in {"none", "asked", "good", "behind"}
  /\ write = NoWrite \/ write \in [at : {"sent", "done"}, what : Writes, from : Views]
  /\ visits \in 0..MaxVisits /\ writes \in 0..MaxWrites /\ errors \in 0..MaxErrors

\* A page that shows the key, with other filters or before it has opened.
CacheInit ==
  /\ key \in Keys
  /\ view \in {v \in Views : key \in Pages[v].shows}
  /\ inFront = FALSE
  /\ row = "none" /\ marked = FALSE /\ fresh = FALSE
  /\ fetch = "none"
  /\ write = NoWrite
  /\ owed = FALSE
  /\ visits = 0 /\ writes = 0 /\ errors = 0

Mounted == inFront /\ key \in Pages[view].shows

\* An observer comes or goes: a fetch starts where the rows are missing, marked
\* or old; a fetch on its way goes on without its observer.
Observed(v, f) ==
  LET now == f /\ key \in Pages[v].shows
      stays == now /\ Mounted /\ On(v) = On(view)
  IN  /\ view' = v /\ inFront' = f
      /\ fetch' = IF now /\ ~stays /\ fetch = "none" /\ (row = "none" \/ marked \/ ~fresh)
                  THEN "asked" ELSE fetch
      /\ owed' = (owed /\ stays)
-----------------------------------------------------------------------------
(* The boss.                                                               *)

\* A link, or a dialog opened or closed.
Visits(v) ==
  /\ visits < MaxVisits
  /\ v # view
  /\ Observed(v, inFront)
  /\ visits' = visits + 1
  /\ UNCHANGED <<key, row, marked, fresh, write, writes, errors>>

\* Page number, filter, search, dates.
Filters ==
  /\ visits < MaxVisits
  /\ key \in Pages[view].shows
  /\ Observed(view, ~inFront)
  /\ visits' = visits + 1
  /\ UNCHANGED <<key, row, marked, fresh, write, writes, errors>>

\* mutate(). A status change first cancels the fetches of the lists and edits
\* the order in a list, which stays one of this write.
Writing(w) ==
  /\ write = NoWrite
  /\ writes < MaxWrites
  /\ w \in Pages[view].does
  /\ write' = [at |-> "sent", what |-> w, from |-> view]
  /\ writes' = writes + 1
  /\ fetch' = IF w.optimistic /\ key[1] = "orders" THEN "none" ELSE fetch
  /\ UNCHANGED <<key, view, inFront, row, marked, fresh, owed, visits, errors>>
-----------------------------------------------------------------------------
(* The server.                                                             *)

Behind(r) == IF r = "good" THEN "behind" ELSE r

WriteLands ==
  /\ write # NoWrite /\ write.at = "sent"
  /\ write' = [write EXCEPT !.at = "done"]
  /\ IF MadeOf(key) \cap write.what.changed # {}
     THEN /\ row' = Behind(row)
          /\ fetch' = Behind(fetch)
          /\ owed' = (owed \/ (Mounted /\ row # "none" /\ On(view) = On(write.from)
                                /\ key \in Pages[write.from].shows))
     ELSE UNCHANGED <<row, fetch, owed>>
  /\ UNCHANGED <<key, view, inFront, marked, fresh, counts>>

ServerReads ==
  /\ fetch = "asked"
  /\ fetch' = "good"
  /\ UNCHANGED <<key, view, inFront, row, marked, fresh, write, owed, counts>>
-----------------------------------------------------------------------------
(* The query client.                                                       *)

\* invalidateQueries: a mounted query is fetched anew; a fetch on its way is
\* given up, unless the query has no data yet.
Invalidated(tells, v) ==
  LET told == \E p \in tells : IsPrefix(p, key)
      now == inFront /\ key \in Pages[v].shows
  IN  /\ marked' = (marked \/ told)
      /\ fetch' = IF told /\ now /\ (fetch = "none" \/ row # "none") THEN "asked"
                  ELSE fetch

\* The answer of a write. The dialog closes if it is still open.
WriteAnswered ==
  /\ write # NoWrite /\ write.at = "done"
  /\ LET then == IF view = write.from THEN write.what.then ELSE view
         stays == inFront /\ key \in Pages[then].shows
     IN  /\ view' = then
         /\ owed' = (owed /\ stays /\ On(then) = On(view))
         /\ Invalidated(write.what.tells, then)
  /\ write' = NoWrite
  /\ UNCHANGED <<key, inFront, row, fresh, counts>>

\* The write failed, or its answer is lost: the page says so. The rollback of a
\* status change puts the rows of the list whose filter is the new status,
\* where that list is cached, under the key in front.
WriteFails ==
  /\ write # NoWrite
  /\ errors < MaxErrors
  /\ errors' = errors + 1
  /\ write' = NoWrite
  /\ \/ /\ ~write.what.optimistic
        /\ owed' = FALSE
        /\ UNCHANGED <<row, marked, fresh, fetch>>
     \/ /\ write.what.optimistic
        /\ \E restored \in BOOLEAN :
             /\ restored => Mounted /\ key = List("orders")
             /\ row' = IF restored THEN "alien" ELSE row
             /\ fresh' = (fresh \/ restored)
             /\ owed' = (owed \/ restored)
        /\ LET told == \E p \in write.what.tells : IsPrefix(p, key)
           IN  /\ marked' = (marked \/ told)
               /\ fetch' = IF told /\ Mounted /\ (fetch = "none" \/ row' # "none")
                           THEN "asked" ELSE fetch
  /\ UNCHANGED <<key, view, inFront, visits, writes>>

Lands ==
  /\ fetch \in {"good", "behind"}
  /\ row' = fetch
  /\ fetch' = "none"
  /\ marked' = FALSE /\ fresh' = TRUE
  /\ owed' = (owed /\ fetch = "behind")
  /\ UNCHANGED <<key, view, inFront, write, counts>>

\* Twice, with retry: 1. The page says so.
FetchFails ==
  /\ fetch # "none"
  /\ errors < MaxErrors
  /\ errors' = errors + 1
  /\ fetch' = "none"
  /\ owed' = FALSE
  /\ UNCHANGED <<key, view, inFront, row, marked, fresh, write, visits, writes>>

\* staleTime.
Ages ==
  /\ fresh
  /\ fresh' = FALSE
  /\ UNCHANGED <<key, view, inFront, row, marked, fetch, write, owed, counts>>

\* The window is looked at again, or the dashboard's refetchInterval is over.
Refetches ==
  /\ Mounted /\ fetch = "none"
  /\ marked \/ ~fresh \/ key = <<"dashboard">>
  /\ fetch' = "asked"
  /\ UNCHANGED <<key, view, inFront, row, marked, fresh, write, owed, counts>>

\* gcTime: a query nobody looks at is forgotten.
Forgotten ==
  /\ ~Mounted /\ row # "none" /\ fetch = "none"
  /\ row' = "none" /\ marked' = FALSE /\ fresh' = FALSE
  /\ UNCHANGED <<key, view, inFront, fetch, write, owed, counts>>

CacheNext ==
  \/ \E v \in Views : Visits(v)
  \/ Filters
  \/ \E w \in Writes : Writing(w)
  \/ WriteLands \/ ServerReads \/ WriteAnswered \/ WriteFails
  \/ Lands \/ FetchFails \/ Ages \/ Refetches \/ Forgotten

(* The server answers what it is asked; people and clocks owe nothing.     *)
CacheFairness ==
  /\ WF_cacheVars(WriteLands \/ WriteAnswered)
  /\ WF_cacheVars(ServerReads \/ Lands)

CacheSpec == CacheInit /\ [][CacheNext]_cacheVars /\ CacheFairness
-----------------------------------------------------------------------------
(* Properties.                                                             *)

\* A page that has written what it shows, or has rolled back to rows of
\* another list, gets rows that hold its write, unless they are left or an
\* error is shown: every write invalidates every key its own page shows and it
\* changes, and no fetch begun before the write takes the mark away.
OwnWriteShows == owed ~> ~owed

\* Until then rows that hold the write are on their way, or a write is whose
\* answer asks for them or closes the dialog that shows them: no cancelled,
\* failed or late fetch leaves the page with wrong rows and nothing under way.
OwedIsUnderWay ==
  owed => \/ fetch \in {"asked", "good"}
          \/ /\ write # NoWrite
             /\ \/ \E p \in write.what.tells : IsPrefix(p, key)
                \/ view = write.from /\ key \notin Pages[write.what.then].shows
=============================================================================
