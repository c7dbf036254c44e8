----------------------------- MODULE Inventory -----------------------------
(***************************************************************************)
(* One product of the stock (admin.service.ts): creation, price and stock  *)
(* edits, deliveries, and the sales of settled orders. createProduct and   *)
(* updateProduct are statements of their own, and stockIn writes the stock *)
(* it has read plus the quantity. A settlement looks at the stock and      *)
(* decrements it later; nothing locks the product in between, so the stock *)
(* may go below zero.                                                      *)
(***************************************************************************)
EXTENDS Integers

CONSTANTS
  Clerks,       \* handlers that may be under way at once
  Sales,        \* settlements that may be open at once
  Costs,        \* prices of one unit, for the boss
  SalePrices,   \* and for the customer
  MaxQuantity,  \* of a delivery or a sale (bound)
  MaxStock,     \* units in stock (bound)
  MaxShort      \* units the stock falls below zero (bound)

ASSUME InventoryAssumption ==
  /\ Costs \subseteq Nat \ {0} /\ SalePrices \subseteq Nat \ {0}
  /\ MaxStock \in Nat /\ MaxQuantity \in 0..MaxStock
  /\ MaxShort \in Nat

VARIABLES
  product,    \* the row, or NoProduct
  history,    \* prices in the latest row of ProductPriceHistory
  units,      \* what deliveries and corrections less sales add up to
  unbilled,   \* a delivery on credit has no SupplierPurchase
  checked,    \* units an open settlement has found in stock, 0 for none
  job,        \* handler each clerk is in
  torn        \* what a failure or an overlap of two handlers has spoilt

inventoryVars == <<product, history, units, unbilled, checked, job, torn>>

NoCount == -1   \* a request without stock_count
Quantities == 1..MaxQuantity
Product == [stock : Int, cost : Costs, sale : SalePrices]
NewProduct == [stock : 0..MaxStock, cost : Costs, sale : SalePrices]
NoProduct == [stock |-> 0, cost |-> 0, sale |-> 0]
PricesOf(row) == [cost |-> row.cost, sale |-> row.sale]

\* What a handler will write, from what it has been asked for and has read:
\* stale once another one has written in between.
Job == [step : {"created", "billing", "stockIn", "update", "updated"},
        stock : Int, n : NoCount..MaxStock, cost : Costs, sale : SalePrices,
        credit : BOOLEAN, changed : BOOLEAN, stale : BOOLEAN]
Idle == [step |-> "idle"]

InventoryTypeOK ==
  /\ product \in Product \cup {NoProduct}
  /\ history \in [cost : Costs, sale : SalePrices] \cup {PricesOf(NoProduct)}
  /\ units \in Int
  /\ unbilled \in BOOLEAN
  /\ checked \in [Sales -> Nat]
  /\ job \in [Clerks -> Job \cup {Idle}]
  /\ torn \subseteq {"stock", "prices", "bill"}

InventoryInit ==
  /\ product = NoProduct
  /\ history = PricesOf(NoProduct)
  /\ units = 0
  /\ unbilled = FALSE
  /\ checked = [s \in Sales |-> 0]
  /\ job = [c \in Clerks |-> Idle]
  /\ torn = {}

\* A handler under way goes on to j; with a write, the others are stale.
ClerkGoes(c, j) == job' = [job EXCEPT ![c] = j]
Stale(d) == IF job[d] = Idle THEN Idle ELSE [job[d] EXCEPT !.stale = TRUE]
Writes(c, j) == job' = [d \in Clerks |-> IF d = c THEN j ELSE Stale(d)]

\* A row of history written by a handler that ran alone is a true one again.
Spoils(c, what) == torn' = IF job[c].stale THEN torn \cup what ELSE torn \ {"prices"}

\* Once the stock is spoilt its units are counted from what it says.
Counted(n) == units' = IF "stock" \in torn' THEN product'.stock ELSE n
-----------------------------------------------------------------------------
(* createProduct: the row, its first prices, the supplier's bill.          *)

CreateProduct(c, row, credit) ==
  /\ product = NoProduct /\ job[c] = Idle
  /\ product' = row
  /\ units' = row.stock
  /\ unbilled' = (credit /\ row.stock > 0)
  /\ Writes(c, [step |-> "created", stock |-> row.stock, n |-> row.stock, cost |-> row.cost,
                sale |-> row.sale, credit |-> unbilled', changed |-> TRUE, stale |-> FALSE])
  /\ UNCHANGED <<history, checked, torn>>

CreateHistory(c) ==
  /\ job[c].step = "created"
  /\ history' = PricesOf(job[c])
  /\ Spoils(c, {"prices"})
  /\ Writes(c, IF job[c].credit THEN [job[c] EXCEPT !.step = "billing"] ELSE Idle)
  /\ UNCHANGED <<product, units, unbilled, checked>>

CreateBill(c) ==
  /\ job[c].step = "billing"
  /\ unbilled' = FALSE
  /\ ClerkGoes(c, Idle)
  /\ UNCHANGED <<product, history, units, checked, torn>>
-----------------------------------------------------------------------------
(* stockIn, one transaction of what was read before; its bill is in it.    *)

\* Mutant: the new stock is the quantity.
Received_Replaces(n) == n

Received(n) == product.stock + n

StockIn(c, n, cost) ==
  /\ product # NoProduct /\ job[c] = Idle
  /\ Received(n) <= MaxStock
  /\ ClerkGoes(c, [step |-> "stockIn", stock |-> Received(n), n |-> n, cost |-> cost,
              sale |-> product.sale, credit |-> FALSE, changed |-> TRUE, stale |-> FALSE])
  /\ UNCHANGED <<product, history, units, unbilled, checked, torn>>

StockInCommit(c) ==
  /\ job[c].step = "stockIn"
  /\ product' = [product EXCEPT !.stock = job[c].stock, !.cost = job[c].cost]
  /\ history' = PricesOf(job[c])
  /\ Spoils(c, {"stock", "prices"})
  /\ Counted(units + job[c].n)
  /\ Writes(c, Idle)
  /\ UNCHANGED <<unbilled, checked>>
-----------------------------------------------------------------------------
(* updateProduct: prices and perhaps a stock count; a row of history when  *)
(* a price differs from the row it has read.                               *)

UpdateProduct(c, n, cost, sale) ==
  /\ product # NoProduct /\ job[c] = Idle
  /\ ClerkGoes(c, [step |-> "update", stock |-> n, n |-> n, cost |-> cost, sale |-> sale,
              credit |-> FALSE, changed |-> <<cost, sale>> # <<product.cost, product.sale>>,
              stale |-> FALSE])
  /\ UNCHANGED <<product, history, units, unbilled, checked, torn>>

UpdateWrite(c) ==
  /\ job[c].step = "update"
  /\ product' = [stock |-> IF job[c].n = NoCount THEN product.stock ELSE job[c].n,
                 cost |-> job[c].cost, sale |-> job[c].sale]
  /\ torn' = (torn \ IF job[c].n = NoCount THEN {} ELSE {"stock"})
                \cup IF job[c].stale THEN {"prices"} ELSE {}
  /\ Counted(IF job[c].n = NoCount THEN units ELSE job[c].n)
  /\ Writes(c, IF job[c].changed THEN [job[c] EXCEPT !.step = "updated"] ELSE Idle)
  /\ UNCHANGED <<history, unbilled, checked>>

UpdateHistory(c) ==
  /\ job[c].step = "updated"
  /\ history' = PricesOf(job[c])
  /\ Spoils(c, {"prices"})
  /\ Writes(c, Idle)
  /\ UNCHANGED <<product, units, unbilled, checked>>
-----------------------------------------------------------------------------
\* The process ends, or a statement fails.
ClerkFails(c) ==
  /\ job[c] # Idle
  /\ torn' = torn \cup (IF job[c].step \in {"created", "updated"} THEN {"prices"} ELSE {})
                 \cup (IF job[c].credit THEN {"bill"} ELSE {})
  /\ ClerkGoes(c, Idle)
  /\ UNCHANGED <<product, history, units, unbilled, checked>>

-----------------------------------------------------------------------------
(* customerConfirm: the stock is read, and decremented in the database.    *)

SaleChecks(s, n) ==
  /\ product # NoProduct /\ checked[s] = 0
  /\ n <= product.stock
  /\ checked' = [checked EXCEPT ![s] = n]
  /\ UNCHANGED <<product, history, units, unbilled, job, torn>>

SaleDecrements(s) ==
  /\ checked[s] > 0
  /\ product.stock - checked[s] >= -MaxShort
  /\ product' = [product EXCEPT !.stock = @ - checked[s]]
  /\ units' = units - checked[s]
  /\ checked' = [checked EXCEPT ![s] = 0]
  /\ job' = [c \in Clerks |-> Stale(c)]
  /\ UNCHANGED <<history, unbilled, torn>>

\* Another item is short, or the process ends.
SaleRollsBack(s) ==
  /\ checked[s] > 0
  /\ checked' = [checked EXCEPT ![s] = 0]
  /\ UNCHANGED <<product, history, units, unbilled, job, torn>>

InventoryNext ==
  \/ \E c \in Clerks :
       \/ \E row \in NewProduct, credit \in BOOLEAN : CreateProduct(c, row, credit)
       \/ CreateHistory(c) \/ CreateBill(c)
       \/ \E n \in Quantities, cost \in Costs : StockIn(c, n, cost)
       \/ StockInCommit(c)
       \/ \E n \in {NoCount} \cup (0..MaxQuantity), cost \in Costs, sale \in SalePrices :
            UpdateProduct(c, n, cost, sale)
       \/ UpdateWrite(c) \/ UpdateHistory(c)
       \/ ClerkFails(c)
  \/ \E s \in Sales :
       \/ \E n \in Quantities : SaleChecks(s, n)
       \/ SaleDecrements(s) \/ SaleRollsBack(s)

InventorySpec == InventoryInit /\ [][InventoryNext]_inventoryVars
-----------------------------------------------------------------------------
\* The stock is what came in and was corrected less what was sold, unless a
\* delivery was written over a change it had not seen (stockIn).
StockIsAccounted ==
  product # NoProduct /\ "stock" \notin torn => product.stock = units

\* The newest row of the price history has the product's prices, between two
\* handlers, unless one of them failed halfway or overlapped with another
\* (createProduct, updateProduct, stockIn).
HistoryIsCurrent ==
  (\A c \in Clerks : job[c] = Idle \/ job[c].step \notin {"created", "updated"})
    /\ "prices" \notin torn => history = PricesOf(product)

\* A product created with a supplier is on his bill, unless createProduct ended
\* before its last statement.
FirstStockIsBilled ==
  unbilled => "bill" \in torn \/ \E c \in Clerks : job[c].step \in {"created", "billing"}

\* What is written beside the product's row follows it (createProduct,
\* updateProduct, stockIn).
HistoryAndBillFollow == HistoryIsCurrent /\ FirstStockIsBilled
=============================================================================
