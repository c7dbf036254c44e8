------------------------------- MODULE MCDesk -------------------------------
(***************************************************************************)
(* The components around the orders, for TLC: the bot's login, dialogues,  *)
(* lists and figures, the WebApp's pages, the stock, the suppliers, the    *)
(* organizations and the order's total. They share no state in these       *)
(* modules, so a behaviour follows one of them, `part', while the others   *)
(* stand still.                                                            *)
(***************************************************************************)
EXTENDS BotAuth, BotDialogue, BotHistory, AdminReports, NewOrderForm, MyOrdersPage,
        HistoryPage, Inventory, Suppliers, Organizations, DraftTotals

CONSTANTS
  o1, o2, m, d1, d2, u1, c1, c2, k1, k2, A, B,
  Parts      \* the components this run follows

ASSUME DeskAssumption ==
  Parts \subseteq {"auth", "dialogue", "history", "reports", "books", "form", "cards",
                   "pages", "inventory", "suppliers", "organizations", "totals"}

VARIABLE part

deskVars == <<part, authVars, dialogueVars, historyVars, reportsVars, booksVars, formVars,
              cardVars, pageVars, inventoryVars, supplierVars, organizationVars, totalsVars>>

\* A courier's order and one without, both of private clients, one of them
\* typed with spaces; or one of an organization.
TypedInDigits ==
  [o \in SoldOrders |->
     [party |-> IF o = o1 THEN A ELSE "private", master |-> m,
      phone |-> [number |-> 1, form |-> "digits"], courier |-> o = o1]]
TypedWithSpaces ==
  [o \in SoldOrders |->
     [party |-> "private", master |-> IF o = o1 THEN m ELSE u1, courier |-> o = o2,
      phone |-> [number |-> 1, form |-> IF o = o1 THEN "spaces" ELSE "digits"]]]
TwoBills == {TypedInDigits, TypedWithSpaces}

\* The parts that stand still start in one state only.
DeskInit ==
  /\ part \in Parts
  /\ AuthInit /\ DialogueInit /\ HistoryInit /\ ReportsInit /\ BooksInit
  /\ FormInit /\ CardsInit
  /\ PagesInit /\ InventoryInit /\ SuppliersInit /\ OrganizationsInit /\ TotalsInit
  /\ part # "history" => phase = [n \in Numbers |-> "open"]
  /\ part # "books" => bill = TypedInDigits
  /\ part # "cards" => view = "active"
  /\ part # "cards" => cardStatus = [o \in Cards |-> "draft"]
  /\ part # "pages" => state = [o \in ClosedIds |-> "open"]

\* Two orders without the boss's edits and refused messages, or one with them
\* (bound).
TroubledAlone ==
  edits' + lost' = 0 \/ \E o \in Orders : \A x \in Orders \ {o} : status'[x] = "absent"

DeskNext ==
  /\ UNCHANGED part
  /\ \/ part = "auth" /\ AuthNext
     \/ part # "auth" /\ UNCHANGED authVars
  /\ \/ part = "dialogue" /\ DialogueNext /\ TroubledAlone
     \/ part # "dialogue" /\ UNCHANGED dialogueVars
  /\ \/ part = "history" /\ HistoryNext
     \/ part # "history" /\ UNCHANGED historyVars
  /\ \/ part = "reports" /\ ReportsNext
     \/ part = "books" /\ BooksNext
     \/ part \notin {"reports", "books"} /\ UNCHANGED reportsVars
  /\ part # "books" => UNCHANGED booksVars
  /\ \/ part = "form" /\ FormNext
     \/ part # "form" /\ UNCHANGED formVars
  /\ \/ part = "cards" /\ CardsNext
     \/ part # "cards" /\ UNCHANGED cardVars
  /\ \/ part = "pages" /\ PagesNext
     \/ part # "pages" /\ UNCHANGED pageVars
  /\ \/ part = "inventory" /\ InventoryNext
     \/ part # "inventory" /\ UNCHANGED inventoryVars
  /\ \/ part = "suppliers" /\ SuppliersNext
     \/ part # "suppliers" /\ UNCHANGED supplierVars
  /\ \/ part = "organizations" /\ OrganizationsNext
     \/ part # "organizations" /\ UNCHANGED organizationVars
  /\ \/ part = "totals" /\ TotalsNext
     \/ part # "totals" /\ UNCHANGED totalsVars

DeskSpec == DeskInit /\ [][DeskNext]_deskVars

\* The parts that stand still keep their first values.
DeskTypeOK ==
  CASE part = "auth" -> AuthTypeOK
    [] part = "dialogue" -> DialogueTypeOK
    [] part = "history" -> HistoryTypeOK
    [] part = "reports" -> ReportsTypeOK
    [] part = "books" -> BooksTypeOK
    [] part = "form" -> FormTypeOK
    [] part = "cards" -> CardsTypeOK
    [] part = "pages" -> PagesTypeOK
    [] part = "inventory" -> InventoryTypeOK
    [] part = "suppliers" -> SuppliersTypeOK
    [] part = "organizations" -> OrganizationsTypeOK
    [] part = "totals" -> TotalsTypeOK
=============================================================================
