----------------------------- MODULE BotHistory -----------------------------
(***************************************************************************)
(* "Buyurtmalar tarixi" and "Yetkazish tarixi": the closed orders of a     *)
(* master or a courier, newest first, in pages of Take that he leafs       *)
(* through with the two buttons under the message (bot.update.ts). Each    *)
(* page is a query of its own by offset, while orders close and reopen.    *)
(*                                                                         *)
(* Orders are numbered by created_at; all belong to both readers.          *)
(***************************************************************************)
EXTENDS Integers, FiniteSets

CONSTANTS
  HistoryOrders,  \* how many orders there are
  Take,           \* TAKE, orders on a page
  MaxTurns        \* changes of an order's status (bound)

ASSUME HistoryAssumption == HistoryOrders \in Nat /\ Take \in Nat \ {0} /\ MaxTurns \in Nat

VARIABLES
  phase,    \* status of each order, as far as the lists look at it
  page,     \* the message each reader has: its offset and its next button
  shown,    \* orders a reader has seen since he opened the list
  owed,     \* orders listed when he opened it
  shifted,  \* readers from whose list an order has gone since
  turns

historyVars == <<phase, page, shown, owed, shifted, turns>>

Numbers == 1..HistoryOrders
Readers == {"master", "driver"}
Phases == {"open", "delivered_by_driver", "completed", "cancelled"}
NoPage == [skip |-> -1, next |-> FALSE]

HistoryTypeOK ==
  /\ phase \in [Numbers -> Phases]
  /\ page \in [Readers -> [skip : Int, next : BOOLEAN]]
  /\ \A r \in Readers : page[r] = NoPage \/ page[r].skip \in 0..(HistoryOrders * Take)
  /\ shown \in [Readers -> SUBSET Numbers]
  /\ owed \in [Readers -> SUBSET Numbers]
  /\ shifted \subseteq Readers
  /\ turns \in Nat

HistoryInit ==
  /\ phase \in [Numbers -> Phases]
  /\ page = [r \in Readers |-> NoPage]
  /\ shown = [r \in Readers |-> {}]
  /\ owed = [r \in Readers |-> {}]
  /\ shifted = {}
  /\ turns = 0
-----------------------------------------------------------------------------
\* The where clause of each list.
Listed(r, ph) ==
  LET wanted == {"completed", "cancelled"} \cup
                  IF r = "driver" THEN {"delivered_by_driver"} ELSE {}
  IN  {o \in Numbers : ph[o] \in wanted}

\* Place of an order in a list sorted by created_at desc.
Place(o, list) == Cardinality({x \in list : x >= o})

\* take: TAKE + 1, skip.
Fetched(list, skip) == {o \in list : skip < Place(o, list) /\ Place(o, list) <= skip + Take + 1}

\* Mutant: the query takes no order beyond the page.
HasNext_TakesTen(fetched) == Cardinality({o \in fetched : Place(o, fetched) <= Take}) > Take

HasNext(fetched) == Cardinality(fetched) > Take

OnPage(fetched) == {o \in fetched : Place(o, fetched) <= Take}

\* sendMasterTarixList and sendDriverTarixList, as a reply or as an edit.
Show(r, skip, before) ==
  LET fetched == Fetched(Listed(r, phase), skip) IN
  /\ page' = [page EXCEPT ![r] = [skip |-> skip, next |-> HasNext(fetched)]]
  /\ shown' = [shown EXCEPT ![r] = before \cup OnPage(fetched)]

\* The button of the menu, at any time.
OpenTarix(r) ==
  /\ Show(r, 0, {})
  /\ owed' = [owed EXCEPT ![r] = Listed(r, phase)]
  /\ shifted' = shifted \ {r}
  /\ UNCHANGED <<phase, turns>>

\* "Keyingi 10": the button carries the offset of the page it was sent with.
NextPage(r) ==
  /\ page[r].next
  /\ Show(r, page[r].skip + Take, shown[r])
  /\ UNCHANGED <<phase, owed, shifted, turns>>

\* "Oldingi 10", on every page but the first.
PrevPage(r) ==
  /\ page[r].skip > 0
  /\ Show(r, page[r].skip - Take, shown[r])
  /\ UNCHANGED <<phase, owed, shifted, turns>>

\* An order closes or leaves its closed status: the courier's delivery is
\* confirmed, or the boss sets another status (updateOrderStatus).
Turn(o, to) ==
  /\ turns < MaxTurns
  /\ turns' = turns + 1
  /\ phase[o] # to
  /\ phase' = [phase EXCEPT ![o] = to]
  /\ shifted' = shifted \cup
       {r \in Readers : o \in Listed(r, phase) /\ o \notin Listed(r, phase')}
  /\ UNCHANGED <<page, shown, owed>>

HistoryNext ==
  \/ \E r \in Readers : OpenTarix(r) \/ NextPage(r) \/ PrevPage(r)
  \/ \E o \in Numbers, to \in Phases : Turn(o, to)

HistorySpec == HistoryInit /\ [][HistoryNext]_historyVars
-----------------------------------------------------------------------------
\* Whoever leafs to a page without a next button has seen every order that was
\* in the list when he opened it, whatever closed meanwhile and however he went
\* to and fro; only an order that leaves the list can make him miss another.
LastPageMeansAllSeen ==
  \A r \in Readers :
    page[r] # NoPage /\ ~page[r].next /\ r \notin shifted => owed[r] \subseteq shown[r]
=============================================================================
