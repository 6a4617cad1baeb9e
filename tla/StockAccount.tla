---------------------------- MODULE StockAccount ----------------------------
(***************************************************************************)
(* What the stock of the stores promises to whoever reads it: every change *)
(* is a booking of whole items.  A process that books several items of a   *)
(* request lists them first, and then books exactly these, each once and   *)
(* all at a time, or none.  PurchaseRequests implements it with a guarded  *)
(* UPDATE for each item, inside transactions.                              *)
(***************************************************************************)
EXTENDS Integers, Functions

CONSTANTS Inventories, Quantities, InitStock, Requests, Items, Procs
VARIABLES
    account,    \* store_inventories and the sums of its ledger, as committed
    item,       \* purchase_request_items
    list        \* the items each process is to book

Init ==
    /\ account = [i \in Inventories |->
                     [stock |-> InitStock[i], reserved |-> 0, restocked |-> InitStock[i], sold |-> 0]]
    /\ item = [k \in Items |-> [state |-> "absent"]]
    /\ list = [p \in Procs |-> {}]

\* What the items in K want of inventory i.
Of(K, i) == {k \in K : item[k].inv = i}
Wanted(K, i) == SumFunction([k \in Of(K, i) |-> item[k].qty])

\* An item is put in a cart, out of what is in stock and not yet reserved.
Reserve(k, r, i, qty) ==
    /\ item[k].state = "absent"
    /\ account[i].reserved + qty <= account[i].stock
    /\ item' = [item EXCEPT ![k] = [state |-> "live", req |-> r, inv |-> i, qty |-> qty]]
    /\ account' = [account EXCEPT ![i].reserved = @ + qty]
    /\ UNCHANGED list

\* An item is taken out of its cart, once.
Remove(k) ==
    /\ item[k].state = "live"
    /\ item[k].qty <= account[item[k].inv].reserved
    /\ item' = [item EXCEPT ![k].state = "deleted"]
    /\ account' = [account EXCEPT ![item[k].inv].reserved = @ - item[k].qty]
    /\ UNCHANGED list

\* Goods arrive, and the ledger says so.
Receive(i, qty) ==
    /\ account' = [account EXCEPT ![i].stock = @ + qty, ![i].restocked = @ + qty]
    /\ UNCHANGED <<item, list>>

\* p is to book the items that are in a request now.
List(p, r) ==
    /\ list' = [list EXCEPT ![p] = {k \in Items : item[k].state = "live" /\ item[k].req = r}]
    /\ UNCHANGED <<account, item>>

\* The items p has listed go back to the shelves.
Release(p) ==
    /\ \A i \in Inventories : Wanted(list[p], i) <= account[i].reserved
    /\ account' = [i \in Inventories |-> [account[i] EXCEPT !.reserved = @ - Wanted(list[p], i)]]
    /\ list' = [list EXCEPT ![p] = {}]
    /\ UNCHANGED item

\* The items p has listed are sold: out of stock and reservation, with lines in the ledger.
Sell(p) ==
    /\ \A i \in Inventories : Wanted(list[p], i) <= account[i].reserved
    /\ account' = [i \in Inventories |-> [account[i] EXCEPT !.stock = @ - Wanted(list[p], i),
                                                            !.reserved = @ - Wanted(list[p], i),
                                                            !.sold = @ + Wanted(list[p], i)]]
    /\ list' = [list EXCEPT ![p] = {}]
    /\ UNCHANGED item

\* Processes give up, and book nothing of what they have listed.
GiveUp(P) ==
    /\ list' = [p \in Procs |-> IF p \in P THEN {} ELSE list[p]]
    /\ UNCHANGED <<account, item>>

Next ==
    \/ \E i \in Inventories, qty \in Quantities :
          Receive(i, qty) \/ \E k \in Items, r \in Requests : Reserve(k, r, i, qty)
    \/ \E k \in Items : Remove(k)
    \/ \E p \in Procs : Release(p) \/ Sell(p) \/ \E r \in Requests : List(p, r)
    \/ \E P \in SUBSET Procs : GiveUp(P)

Spec == Init /\ [][Next]_<<account, item, list>>
=============================================================================
