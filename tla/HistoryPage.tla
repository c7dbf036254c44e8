----------------------------- MODULE HistoryPage -----------------------------
(***************************************************************************)
(* The WebApp's history (orders/history/page.tsx): three tabs over the     *)
(* closed orders, pages of PageSize fetched by number and appended. A tab  *)
(* change starts a fetch of its own and leaves those on their way to       *)
(* arrive when they do; any answer turns both loading flags off.           *)
(*                                                                         *)
(* Orders are numbered by created_at and belong to the user.               *)
(***************************************************************************)
EXTENDS Integers, FiniteSets, Sequences

CONSTANTS
  ClosedOrders,  \* how many orders there are
  PageSize,      \* PAGE_SIZE
  MaxFetches,    \* on their way at once (bound)
  MaxClosings    \* orders that close or reopen meanwhile (bound)

ASSUME PagesAssumption ==
  /\ ClosedOrders \in Nat /\ PageSize \in Nat \ {0}
  /\ MaxFetches \in Nat \ {0} /\ MaxClosings \in Nat

VARIABLES
  state,        \* of each order: open, completed, cancelled
  closings,
  tab,
  rows,         \* items
  total,
  pageNo,       \* page
  loading, loadingMore,
  failed,       \* error
  requests,     \* on their way; with the answer once the server has read
  crossed,      \* an answer was still out when the tab changed
  moved         \* an order entered or left since the tab was opened

pageVars == <<state, closings, tab, rows, total, pageNo, loading, loadingMore,
              failed, requests, crossed, moved>>

Tabs == {"all", "completed", "cancelled"}
States == {"open", "completed", "cancelled"}
ClosedIds == 1..ClosedOrders
PageRequest == [number : 1..MaxFetches, tab : Tabs, page : 1..(ClosedOrders + 1),
            read : BOOLEAN, items : Seq(ClosedIds), total : 0..ClosedOrders]

PagesTypeOK ==
  /\ state \in [ClosedIds -> States]
  /\ closings \in 0..MaxClosings
  /\ tab \in Tabs
  /\ rows \in Seq(ClosedIds)
  /\ total \in 0..ClosedOrders
  /\ pageNo \in 1..(ClosedOrders + 1)
  /\ loading \in BOOLEAN /\ loadingMore \in BOOLEAN /\ failed \in BOOLEAN
  /\ crossed \in BOOLEAN /\ moved \in BOOLEAN
  /\ requests \subseteq PageRequest

\* statusFilterForMyOrders: history is both.
InTab(t) == {o \in ClosedIds : state[o] \in IF t = "all" THEN {"completed", "cancelled"} ELSE {t}}

\* orderBy created_at desc.
Newest(list) == [n \in 1..Cardinality(list) |->
                   CHOOSE o \in list : Cardinality({x \in list : x >= o}) = n]

Ask(t, page) ==
  [number |-> CHOOSE n \in 1..MaxFetches :
                /\ \A q \in requests : q.number # n
                /\ \A m \in 1..(n - 1) : \E q \in requests : q.number = m,
   tab |-> t, page |-> page, read |-> FALSE, items |-> <<>>, total |-> 0]

PagesInit ==
  /\ state \in [ClosedIds -> States]
  /\ closings = 0
  /\ tab = "all"
  /\ rows = <<>>
  /\ total = 0
  /\ pageNo = 1
  /\ loading = TRUE /\ loadingMore = FALSE /\ failed = FALSE
  /\ requests = {[number |-> 1, tab |-> "all", page |-> 1, read |-> FALSE,
                  items |-> <<>>, total |-> 0]}
  /\ crossed = FALSE /\ moved = FALSE
-----------------------------------------------------------------------------
\* getMyOrdersByUserId with skip and take.
ServerPage(q) ==
  /\ q \in requests
  /\ ~q.read
  /\ LET list == Newest(InTab(q.tab))
         first == (q.page - 1) * PageSize + 1
         last == IF q.page * PageSize < Len(list) THEN q.page * PageSize ELSE Len(list)
     IN  requests' = (requests \ {q}) \cup
           {[q EXCEPT !.read = TRUE, !.items = SubSeq(list, first, last), !.total = Len(list)]}
  /\ UNCHANGED <<state, closings, tab, rows, total, pageNo, loading, loadingMore, failed, crossed,
                 moved>>

\* Another actor closes an order, or the boss reopens one.
Turns(o, to) ==
  /\ closings < MaxClosings
  /\ closings' = closings + 1
  /\ state[o] # to
  /\ state' = [state EXCEPT ![o] = to]
  /\ moved' = TRUE
  /\ UNCHANGED <<tab, rows, total, pageNo, loading, loadingMore, failed, requests, crossed>>

\* The page shows nothing but its skeleton.
Skeleton == loading /\ rows = <<>>

\* setTab, and the effect that follows.
SelectTab(t) ==
  /\ ~Skeleton
  /\ t # tab
  /\ Cardinality(requests) < MaxFetches
  /\ tab' = t
  /\ rows' = <<>>
  /\ requests' = requests \cup {Ask(t, 1)}
  /\ crossed' = (requests # {})
  /\ moved' = FALSE
  /\ loading' = TRUE
  /\ failed' = FALSE
  /\ UNCHANGED <<state, closings, total, pageNo, loadingMore>>

\* Mutant: the button has no flag of its own.
LoadMore_Twice ==
  /\ rows # <<>> /\ ~failed
  /\ pageNo <= ClosedOrders
  /\ Len(rows) < total
  /\ Cardinality(requests) < MaxFetches
  /\ loadingMore' = TRUE
  /\ requests' = requests \cup {Ask(tab, pageNo + 1)}
  /\ UNCHANGED <<state, closings, tab, rows, total, pageNo, loading, failed, crossed, moved>>

\* The button is there with the rows (the bound on pageNo is only met once an
\* answer for another tab has come in between).
LoadMore ==
  /\ rows # <<>> /\ ~failed
  /\ pageNo <= ClosedOrders
  /\ ~loadingMore
  /\ Len(rows) < total
  /\ Cardinality(requests) < MaxFetches
  /\ loadingMore' = TRUE
  /\ requests' = requests \cup {Ask(tab, pageNo + 1)}
  /\ UNCHANGED <<state, closings, tab, rows, total, pageNo, loading, failed, crossed, moved>>

\* An answer of page 1 replaces the rows, any other is appended, whichever tab
\* it was for.
Arrives(q) ==
  /\ q \in requests
  /\ q.read
  /\ requests' = requests \ {q}
  /\ rows' = IF q.page = 1 THEN q.items ELSE rows \o q.items
  /\ total' = q.total
  /\ pageNo' = q.page
  /\ loading' = FALSE /\ loadingMore' = FALSE
  /\ UNCHANGED <<state, closings, tab, failed, crossed, moved>>

\* A failed first page empties the list, a failed further one is not shown.
Lost(q) ==
  /\ q \in requests
  /\ requests' = requests \ {q}
  /\ rows' = IF q.page = 1 THEN <<>> ELSE rows
  /\ failed' = (failed \/ q.page = 1)
  /\ loading' = FALSE /\ loadingMore' = FALSE
  /\ UNCHANGED <<state, closings, tab, total, pageNo, crossed, moved>>

\* "Qayta urinish" of a failed first page.
Retry ==
  /\ failed /\ ~Skeleton
  /\ Cardinality(requests) < MaxFetches
  /\ requests' = requests \cup {Ask(tab, 1)}
  /\ loading' = TRUE
  /\ failed' = FALSE
  /\ UNCHANGED <<state, closings, tab, rows, total, pageNo, loadingMore, crossed, moved>>

PagesNext ==
  \/ \E q \in requests : ServerPage(q) \/ Arrives(q) \/ Lost(q)
  \/ \E o \in ClosedIds, to \in States : Turns(o, to)
  \/ \E t \in Tabs : SelectTab(t)
  \/ LoadMore \/ Retry

PagesSpec == PagesInit /\ [][PagesNext]_pageVars
-----------------------------------------------------------------------------
\* The list under a tab is the first rows of this tab, each once and in order,
\* and all of them when "Ko'proq yuklash" is gone, unless an answer for another
\* tab came in between or an order closed or reopened meanwhile (load, loadMore).
TabShowsItsOwn ==
  ~crossed /\ ~moved /\ requests = {} /\ rows # <<>> =>
    LET list == Newest(InTab(tab)) IN
    /\ Len(rows) <= Len(list)
    /\ rows = SubSeq(list, 1, Len(rows))
    /\ Len(rows) < total \/ rows = list
=============================================================================
