---------------------------- MODULE StoreInventories ----------------------------
(***************************************************************************)
(* One row of the table store_inventories and what the UPDATE statements   *)
(* of InventoriesRepository do to it.  Each statement is a pair: the test  *)
(* of its WHERE clause and the new version of the row its SET clause       *)
(* computes; it returns 0 rows when the test fails.                        *)
(*                                                                         *)
(*   stock, reserved   the columns stock and reserved_stock                *)
(*   restocked, sold   what the rows of store_inventory_transactions that  *)
(*                     belong to this inventory add up to: the changes     *)
(*                     with reason "restock" or "adjustment", and the      *)
(*                     negated changes with reason "sale"                  *)
(*                                                                         *)
(* The ledger is kept as two sums, because the code only ever appends to   *)
(* it, while it holds the lock of the inventory row.                       *)
(***************************************************************************)
EXTENDS Integers

StoreInventoryRow == [stock : Int, reserved : Int, restocked : Int, sold : Int]

\* InventoriesService.create: the row, and the ledger line of an initial stock above zero.
NewRow(stock) == [stock |-> stock, reserved |-> 0, restocked |-> IF stock > 0 THEN stock ELSE 0, sold |-> 0]

CanReserveFromStock(row, qty) == row.stock >= qty                 \* mutant: ignores reservations
CanReserve(row, qty) == row.stock - row.reserved >= qty
ReserveStock(row, qty) == [row EXCEPT !.reserved = @ + qty]

CanRelease(row, qty) == row.reserved >= qty
ReleaseNothing(row, qty) == row                                   \* mutant: a release that is lost
ReleaseReservedStock(row, qty) == [row EXCEPT !.reserved = @ - qty]

CanConsume(row, qty) == row.stock >= qty /\ row.reserved >= qty
ConsumeStockOnly(row, qty) == [row EXCEPT !.stock = @ - qty]      \* mutant: keeps the reservation
ConsumeReservedStock(row, qty) == [row EXCEPT !.stock = @ - qty, !.reserved = @ - qty]

Restock(row, qty) == [row EXCEPT !.stock = @ + qty]

\* StoreInventoryTransactionsRepository.create as restock and confirm call it.
LogNothing(row, qty) == row                                       \* mutant: the ledger line is lost
LogRestock(row, qty) == [row EXCEPT !.restocked = @ + qty]
LogSale(row, qty) == [row EXCEPT !.sold = @ + qty]
=============================================================================
