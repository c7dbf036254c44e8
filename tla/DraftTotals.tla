---------------------------- MODULE DraftTotals -----------------------------
(***************************************************************************)
(* What an order costs: its items, the delivery fee and the total_amount   *)
(* that five handlers write beside them, each from what it has read. The   *)
(* master's: createDraft, addManualProductToOrder (from the bot),          *)
(* setLocation and confirm. The boss's: createOrder, and updateOrder,      *)
(* which rewrites the items one statement at a time. Only createDraft and  *)
(* the two statements of setLocation and confirm are transactions.         *)
(***************************************************************************)
EXTENDS Integers, FiniteSets, FiniteSetsExt, OrderStatusMachine

CONSTANTS
  Amounts,     \* price times quantity of an item (bound)
  Fee,         \* DELIVERY_FEE
  MaxItems,    \* items ever created (bound)
  MaxWriters   \* handlers that write a total (bound)

ASSUME TotalsAssumption ==
  Amounts \subseteq Nat /\ Fee \in Nat /\ MaxItems \in Nat /\ MaxWriters \in Nat

VARIABLES
  orderRow,   \* the Order row: status, total_amount, delivery_needed
  items,      \* the amount of each OrderItem row that exists
  created,    \* items ever created: ids are not used twice
  begun,      \* handlers that have begun
  writing,    \* handlers between their read and their last write
  exact       \* the last writer of the total worked alone and finished

totalsVars == <<orderRow, items, created, begun, writing, exact>>

Ids == 1..MaxItems
Statuses == {"draft", "waiting_confirmation", "broadcasted", "waiting_master_work_start"}

\* delivers, has: what it has read. todo: rows still to be written, those with
\* id 0 to be created; drop: rows then to be deleted. set: the columns of the
\* order it writes last. alone: nobody else has been under way beside it;
\* recounts: that total is a fresh sum; dirty: it has written an item.
Columns == [{"status"} -> Statuses] \cup [{"total"} -> Nat] \cup [{"delivers"} -> BOOLEAN]
             \cup [status : Statuses, total : Nat] \cup [delivers : BOOLEAN, total : Nat]

Writer == [w : 0..MaxWriters, at : {"insert", "rows", "sum", "write"},
           delivers : BOOLEAN, has : SUBSET Ids,
           todo : SUBSET ((Ids \cup {0}) \X Amounts), drop : SUBSET Ids, set : Columns,
           alone : BOOLEAN, recounts : BOOLEAN, dirty : BOOLEAN]

TotalsTypeOK ==
  /\ orderRow \in {[status |-> "absent"]} \cup
       [status : Statuses, total : Nat, delivers : BOOLEAN]
  /\ DOMAIN items \subseteq Ids /\ \A i \in DOMAIN items : items[i] \in Amounts
  /\ created \in 0..MaxItems
  /\ begun \in 0..MaxWriters
  /\ writing \subseteq Writer
  /\ exact \in BOOLEAN

TotalsInit ==
  /\ orderRow = [status |-> "absent"]
  /\ items = << >>
  /\ created = 0
  /\ begun = 0
  /\ writing = {}
  /\ exact = TRUE
-----------------------------------------------------------------------------
(* price-calculator.ts.                                                    *)

ItemsTotal(rows) == MapThenSumSet(LAMBDA i : rows[i], DOMAIN rows)

CalculateOrderTotal(rows, delivers) ==
  ItemsTotal(rows) + IF delivers THEN Fee ELSE 0

\* A handler begins: those under way are no longer alone, and nor is it.
Starts(r) ==
  /\ begun < MaxWriters
  /\ begun' = begun + 1
  /\ writing' = {[q EXCEPT !.alone = FALSE] : q \in writing}
                  \cup {[r EXCEPT !.alone = (writing = {})]}
  /\ UNCHANGED <<orderRow, items, created, exact>>

Request(at, set) ==
  [w |-> begun, at |-> at, delivers |-> FALSE, has |-> {},
   todo |-> {}, drop |-> {}, set |-> set, alone |-> TRUE, recounts |-> TRUE,
   dirty |-> FALSE]

Goes(r, q) == writing' = (writing \ {r}) \cup {q}

Insert(rows, id, amount) == [i \in DOMAIN rows \cup {id} |->
  IF i = id THEN amount ELSE rows[i]]
-----------------------------------------------------------------------------
(* The order appears.                                                      *)

\* createDraft: the order and its items in one transaction, the total still 0.
DraftCreated(amount, delivers) ==
  /\ orderRow.status = "absent"
  /\ MaxItems > 0
  /\ orderRow' = [status |-> "draft", total |-> 0, delivers |-> delivers]
  /\ items' = Insert(items, 1, amount)
  /\ created' = 1
  /\ UNCHANGED <<begun, writing, exact>>

\* The boss's createOrder: the order with its total first, then its items; if
\* they fail, it stays without them.
OrderEntered(amount, delivers, fails) ==
  /\ orderRow.status = "absent"
  /\ MaxItems > 0
  /\ orderRow' = [status |-> "draft", delivers |-> delivers,
                  total |-> CalculateOrderTotal(Insert(items, 1, amount), delivers)]
  /\ items' = IF fails THEN items ELSE Insert(items, 1, amount)
  /\ created' = 1
  /\ exact' = ~fails
  /\ UNCHANGED <<begun, writing>>
-----------------------------------------------------------------------------
(* The master.                                                             *)

\* addManualProductToOrder: read, insert, read the items, write the total.
AddManual ==
  /\ orderRow.status = "draft"
  /\ Starts([Request("insert", [total |-> 0]) EXCEPT !.delivers = orderRow.delivers])

AddInsert(r, amount) ==
  /\ r.at = "insert"
  /\ created < MaxItems
  /\ created' = created + 1
  /\ items' = Insert(items, created', amount)
  /\ Goes(r, [r EXCEPT !.at = "sum", !.dirty = TRUE])
  /\ UNCHANGED <<orderRow, begun, exact>>

\* setLocation: the total of the items it has read, and the status.
SetLocation ==
  /\ orderRow.status \in Statuses
  /\ CanTransition(orderRow.status, "waiting_confirmation")
  /\ Starts(Request("write", [status |-> "waiting_confirmation",
              total |-> CalculateOrderTotal(items, orderRow.delivers)]))

Confirmed(delivers) == IF delivers THEN "broadcasted" ELSE "waiting_master_work_start"

\* Mutant: a draft is believed to have its total.
UncountedDraft_Never == FALSE

\* A draft that createDraft has left at 0.
UncountedDraft ==
  orderRow.status = "draft" /\ orderRow.total = 0 /\ DOMAIN items # {}

\* confirm sums such a draft, and otherwise writes back the total it has read.
ConfirmTotal ==
  /\ orderRow.status \in Statuses
  /\ CanTransition(orderRow.status, Confirmed(orderRow.delivers))
  /\ Starts([Request("write", [status |-> Confirmed(orderRow.delivers),
               total |-> IF UncountedDraft
                         THEN CalculateOrderTotal(items, orderRow.delivers)
                         ELSE orderRow.total])
             EXCEPT !.recounts = UncountedDraft])
-----------------------------------------------------------------------------
(* The boss: updateOrder.                                                  *)

\* The items with it: rows of the list he has (kept, or new), the delivery as
\* it was or switched. Rows that are not in the list will be deleted.
EditItems(rows, delivers) ==
  /\ orderRow.status \in Statuses
  /\ \A q \in writing : q.todo = {} /\ q.drop = {}   \* one at a time (bound)
  /\ Starts([Request("rows", [delivers |-> delivers, total |-> 0])
             EXCEPT !.has = DOMAIN items, !.todo = rows,
                    !.drop = DOMAIN items \ {x[1] : x \in rows}])

\* The delivery alone: the total is not touched (OrderDetail's first button).
EditDelivery(delivers) ==
  /\ orderRow.status \in Statuses
  /\ Starts([Request("write", [delivers |-> delivers]) EXCEPT !.recounts = FALSE])

\* One statement: update a row that was there when the order was read, or
\* create one.
EditRow(r, x) ==
  /\ r.at = "rows"
  /\ x \in r.todo
  /\ IF x[1] \in r.has
     THEN x[1] \in DOMAIN items /\ items' = Insert(items, x[1], x[2]) /\ UNCHANGED created
     ELSE /\ created < MaxItems
          /\ created' = created + 1
          /\ items' = Insert(items, created', x[2])
  /\ Goes(r, [r EXCEPT !.todo = @ \ {x}, !.dirty = TRUE])
  /\ UNCHANGED <<orderRow, begun, exact>>

\* The rows of the read order that the list did not keep.
EditDrop(r, i) ==
  /\ r.at = "rows"
  /\ r.todo = {}
  /\ i \in r.drop \cap DOMAIN items
  /\ items' = [j \in DOMAIN items \ {i} |-> items[j]]
  /\ Goes(r, [r EXCEPT !.drop = @ \ {i}, !.dirty = TRUE])
  /\ UNCHANGED <<orderRow, created, begun, exact>>

\* The items are read again and summed, in addManualProductToOrder with the
\* delivery it has read and in updateOrder with the one it will write.
SumItems(r) ==
  /\ r.at = "sum" \/ (r.at = "rows" /\ r.todo = {} /\ r.drop = {})
  /\ Goes(r, [r EXCEPT !.at = "write", !.set.total = CalculateOrderTotal(items,
                         IF "delivers" \in DOMAIN r.set THEN r.set.delivers ELSE r.delivers)])
  /\ UNCHANGED <<orderRow, items, created, begun, exact>>
-----------------------------------------------------------------------------
\* The last statement: the order's columns.
WriteTotal(r) ==
  /\ r.at = "write"
  /\ orderRow' = [column \in DOMAIN orderRow |->
                    IF column \in DOMAIN r.set THEN r.set[column] ELSE orderRow[column]]
  /\ writing' = writing \ {r}
  /\ exact' = (r.alone /\ (r.recounts \/ (exact /\ "status" \in DOMAIN r.set)))
  /\ UNCHANGED <<items, created, begun>>

\* A statement fails and the handler with it; what it has written stays.
WriterFails(r) ==
  /\ writing' = writing \ {r}
  /\ exact' = (exact /\ ~r.dirty)
  /\ UNCHANGED <<orderRow, items, created, begun>>

TotalsNext ==
  \/ \E amount \in Amounts, delivers \in BOOLEAN :
       \/ DraftCreated(amount, delivers)
       \/ \E fails \in BOOLEAN : OrderEntered(amount, delivers, fails)
  \/ AddManual \/ SetLocation \/ ConfirmTotal
  \/ \E delivers \in BOOLEAN :
       \/ EditDelivery(delivers)
       \/ \E rows \in SUBSET ((DOMAIN items \cup {0}) \X Amounts) :
            /\ \A x, y \in rows : x[1] = y[1] => x = y
            /\ EditItems(rows, delivers)
  \/ \E r \in writing :
       \/ SumItems(r) \/ WriteTotal(r) \/ WriterFails(r)
       \/ \E amount \in Amounts : AddInsert(r, amount)
       \/ \E x \in r.todo : EditRow(r, x)
       \/ \E i \in r.drop : EditDrop(r, i)

TotalsSpec == TotalsInit /\ [][TotalsNext]_totalsVars
-----------------------------------------------------------------------------
\* A customer is asked for what is on the order: once it has left the draft,
\* its total is that of its items and its delivery, if the last to write it
\* was alone and wrote them all (price-calculator.ts). Overlapping writers, a
\* failure half-way and a switch of the delivery alone do break it; the next
\* edit of the items that runs alone repairs it.
TotalIsItems ==
  writing = {} /\ exact /\ orderRow.status # "absent" =>
    \/ orderRow.total = CalculateOrderTotal(items, orderRow.delivers)
    \/ orderRow.status = "draft" /\ orderRow.total = 0
=============================================================================
