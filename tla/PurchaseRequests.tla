---------------------------- MODULE PurchaseRequests ----------------------------
(***************************************************************************)
(* The purchase-request workflow of Selino: carts that reserve stock       *)
(* (addItem, removeItem), their confirmation, cancellation and expiry, and *)
(* the restocking of inventories, as they run against PostgreSQL.          *)
(*                                                                         *)
(* A session is one HTTP handler in progress, a worker is the expiry timer *)
(* of one application instance.  Every SQL statement is a step of its own, *)
(* under READ COMMITTED:                                                   *)
(*  - a read sees what is committed, and what its own transaction wrote;   *)
(*  - an UPDATE or DELETE whose WHERE clause fails on the version it sees  *)
(*    returns 0 rows at once; otherwise it waits for the lock of the row,  *)
(*    tests the newest version again, and keeps the lock until its         *)
(*    transaction ends.                                                    *)
(*                                                                         *)
(* Statements are merged with a neighbour only where no other process can  *)
(* tell: the last statement of a transaction with its COMMIT, an INSERT    *)
(* that nothing can conflict with with the statement before it.  Writes to *)
(* requests, items and invoices, which the writer alone could read, are    *)
(* applied at COMMIT; their locks are taken by the statement that writes.  *)
(***************************************************************************)
EXTENDS StoreInventories, Sequences, FiniteSets, Functions

CONSTANTS
    Sessions,      \* handlers that can be in progress at a time
    Workers,       \* application instances, each running one expiry timer
    HostOf,        \* the instance a session runs on
    Users, Inventories,
    StoreOf,       \* the store an inventory belongs to
    MaxOrderQty,   \* store_inventories.max_order_qty, None for NULL
    Quantities,    \* the quantities users ask for (IsInt, Min(1))
    InitStock,     \* the stock inventories are created with
    Window,        \* PURCHASE_REQUEST_ACTIVE_WINDOW_MINUTES
    None,
    \* Bounds of the model
    MaxTime, MaxRequests, MaxItems, MaxStock, MaxInFlight

Procs    == Sessions \cup Workers
Requests == 1..MaxRequests
Items    == 1..MaxItems
Times    == 0..(MaxTime + Window)

ASSUME ProcsAssumption == /\ Sessions \cap Workers = {}
                          /\ HostOf \in [Sessions -> Workers]
                          /\ None \notin Procs
ASSUME InventoriesAssumption == /\ InitStock \in [Inventories -> Nat]
                                /\ \A i \in Inventories : InitStock[i] <= MaxStock
                                /\ Quantities \subseteq Nat \ {0}
                                /\ MaxOrderQty \in [Inventories -> Nat \cup {None}]
ASSUME BoundsAssumption == /\ Window \in Nat \ {0}
                           /\ MaxTime \in Nat
                           /\ MaxRequests \in Nat
                           /\ MaxItems \in Nat
                           /\ MaxStock \in Nat

VARIABLES
    now,        \* the clock (Date.now(), and the database's)
    inv,        \* store_inventories with its ledger: the committed rows
    invDraft,   \* the newest version of each row, committed or not
    invLock,    \* the process whose open transaction wrote invDraft, or None
    req,        \* purchase_requests
    reqLock,    \* who holds a row of it FOR UPDATE or FOR NO KEY UPDATE
    lastReq,    \* the last value of the sequence behind purchase_requests.id
    item,       \* purchase_request_items
    itemLock,   \* who has deleted an item and not yet committed
    invoices,   \* the invoices of each request, in order, with their items
    proc,       \* the local state of each process
    \* History, which no action reads
    crossed,    \* requests two processes have worked on at a time
    hurried     \* users who have had two calls of addItem running at a time

inventoryVars == <<inv, invDraft, invLock>>
requestVars   == <<req, reqLock, lastReq>>
itemVars      == <<item, itemLock>>
historyVars   == <<crossed, hurried>>
vars == <<now, inventoryVars, requestVars, itemVars, invoices, proc, historyVars>>

Statuses == {"absent", "new", "confirmed", "cancelled", "expired"}

\* Amounts of money are the set of the items they are the sum of: two totals
\* are the same only if they count the same items.
RequestRows == [status : Statuses, user : Users \cup {None}, store : {StoreOf[i] : i \in Inventories} \cup {None},
                until : Times, total : SUBSET Items]
NoRequest == [status |-> "absent", user |-> None, store |-> None, until |-> 0, total |-> {}]

ItemRows == [state : {"live", "deleted"}, req : Requests, inv : Inventories, qty : Quantities]
NoItem == [state |-> "absent"]

Invoices == [total : SUBSET Items, lines : SUBSET Items]

Steps == {"idle", "find", "open", "reserve", "delete", "release", "count", "cancel", "sum",
          "list", "invoice", "consume", "next", "finish"}
Locals == [op : {"idle", "add", "remove", "confirm", "cancel", "restock", "expire"}, at : Steps,
           user : Users \cup {None}, inv : Inventories \cup {None}, qty : Quantities \cup {0},
           req : Requests \cup {0}, item : Items \cup {0}, todo : SUBSET Items, seen : SUBSET Items,
           total : SUBSET Items, until : Times, batch : SUBSET Requests]
Idle == [op |-> "idle", at |-> "idle", user |-> None, inv |-> None, qty |-> 0, req |-> 0, item |-> 0,
         todo |-> {}, seen |-> {}, total |-> {}, until |-> 0, batch |-> {}]

Init ==
    /\ now = 0
    /\ inv = [i \in Inventories |-> NewRow(InitStock[i])]
    /\ invDraft = inv
    /\ invLock = [i \in Inventories |-> None]
    /\ req = [r \in Requests |-> NoRequest]
    /\ reqLock = [r \in Requests |-> None]
    /\ lastReq = 0
    /\ item = [k \in Items |-> NoItem]
    /\ itemLock = [k \in Items |-> None]
    /\ invoices = [r \in Requests |-> <<>>]
    /\ proc = [p \in Procs |-> Idle]
    /\ crossed = {}
    /\ hurried = {}

-----------------------------------------------------------------------------
(* Reads *)

LiveItems(r) == {k \in Items : item[k].state = "live" /\ item[k].req = r}

IsOpen(r) == req[r].status = "new"
ActiveInAnyStatus(r) == req[r].until > now                              \* mutant: forgets the status
IsActive(r)  == req[r].status = "new" /\ req[r].until > now
OverdueInAnyStatus(r) == req[r].status # "absent" /\ req[r].until < now \* mutant: forgets the status
IsOverdue(r) == req[r].status = "new" /\ req[r].until < now

\* The rows of findActiveReservationRows, and the quantity addItem adds them up to.
ReservedRows(u, i) == {k \in Items : /\ item[k].state = "live" /\ item[k].inv = i
                                     /\ req[item[k].req].user = u /\ IsActive(item[k].req)}
QtyOf(K) == SumFunction([k \in K |-> item[k].qty])
EachWithinMaxOrderQty(u, i, qty) == MaxOrderQty[i] # None => qty <= MaxOrderQty[i]   \* mutant: item by item
WithinMaxOrderQty(u, i, qty) ==
    MaxOrderQty[i] # None => QtyOf(ReservedRows(u, i)) + qty <= MaxOrderQty[i]

FreshRequests(u, st, t) ==              \* mutant: compares with the new expiry instead of the clock
    {r \in Requests : req[r].user = u /\ req[r].store = st /\ IsOpen(r) /\ req[r].until > t + Window}
ActiveRequests(u, st, t) ==
    {r \in Requests : req[r].user = u /\ req[r].store = st /\ IsOpen(r) /\ req[r].until > t}

-----------------------------------------------------------------------------
(* Transactions and locks *)

\* The version of row i a statement of p tests: its own, or the committed one.
Visible(p, i) == IF invLock[i] = p THEN invDraft[i] ELSE inv[i]
FreeFor(p, lock) == lock \in {None, p}

\* p's UPDATE of row i writes the version new.
WriteInventory(p, i, new) ==
    /\ FreeFor(p, invLock[i])
    /\ invLock' = [invLock EXCEPT ![i] = p]
    /\ invDraft' = [invDraft EXCEPT ![i] = new]
    /\ UNCHANGED inv

Unlock(lock, P) == [x \in DOMAIN lock |-> IF lock[x] \in P THEN None ELSE lock[x]]

CommitInventories(p) ==
    /\ inv' = [i \in Inventories |-> IF invLock[i] = p THEN invDraft[i] ELSE inv[i]]
    /\ invLock' = Unlock(invLock, {p})
    /\ UNCHANGED invDraft
RollbackInventories(P) ==
    /\ invDraft' = [i \in Inventories |-> IF invLock[i] \in P THEN inv[i] ELSE invDraft[i]]
    /\ invLock' = Unlock(invLock, P)
    /\ UNCHANGED inv

\* The histories grow with every change of a local state.
Remember ==
    /\ crossed' = crossed \cup {r \in Requests : \E p, q \in Procs :
                                   p # q /\ proc'[p].req = r /\ proc'[q].req = r}
    /\ hurried' = hurried \cup {u \in Users : \E p, q \in Procs :
                                   p # q /\ \A o \in {p, q} : proc'[o].op = "add" /\ proc'[o].user = u}

\* The processes in P lose their transactions and are idle again.
Abort(P) ==
    /\ RollbackInventories(P)
    /\ reqLock' = Unlock(reqLock, P)
    /\ itemLock' = Unlock(itemLock, P)
    /\ proc' = [p \in Procs |-> IF p \in P THEN Idle ELSE proc[p]]
    /\ Remember
    /\ UNCHANGED <<now, req, lastReq, item, invoices>>

InstanceOf(w) == {w} \cup {s \in Sessions : HostOf[s] = w}

TryAgain(p) == UNCHANGED vars                                  \* mutant: the statement is tried until it succeeds
\* An exception in a handler is its HTTP error response.  One in the expiry pass rejects
\* a promise nobody handles, which ends the Node process of the instance.
Throw(p) == Abort(IF p \in Workers THEN InstanceOf(p) ELSE {p})

\* The foreign key of a new invoice keeps its request locked FOR KEY SHARE, which
\* conflicts with nothing but FOR UPDATE.
KeyShared(r) == \E s \in Sessions : /\ proc[s].op = "confirm" /\ proc[s].req = r
                                    /\ proc[s].at \in {"consume", "finish"}

Become(p, l) == proc' = [proc EXCEPT ![p] = l] /\ Remember
Goto(p, at) == Become(p, [proc[p] EXCEPT !.at = at])

\* The next round of a loop over the items K, at the step "at"; the rows come back in no
\* particular order.
NextButLast(l, K, at) ==                                       \* mutant: off by one
    IF Cardinality(K) <= 1 THEN {[l EXCEPT !.at = "finish", !.item = 0, !.todo = {}]}
                           ELSE {[l EXCEPT !.at = at, !.item = k, !.todo = K \ {k}] : k \in K}
NextItem(l, K, at) ==
    IF K = {} THEN {[l EXCEPT !.at = "finish", !.item = 0, !.todo = {}]}
              ELSE {[l EXCEPT !.at = at, !.item = k, !.todo = K \ {k}] : k \in K}

\* The start of a handler; the bound on the handlers in progress is the model's.
InFlight == {p \in Procs : proc[p].op # "idle"}
Start(p, local) ==
    /\ proc[p].op = "idle"
    /\ Cardinality(InFlight) < MaxInFlight
    /\ Become(p, local)
    /\ UNCHANGED <<now, inventoryVars, requestVars, itemVars, invoices>>

At(p, op, at) == proc[p].op = op /\ proc[p].at = at

-----------------------------------------------------------------------------
(* addItem *)

AddItem(s, u, i, qty) ==
    /\ WithinMaxOrderQty(u, i, qty)
    /\ Start(s, [Idle EXCEPT !.op = "add", !.at = "find", !.user = u, !.inv = i, !.qty = qty, !.until = now])

\* findLatestActiveRequestForUserStore: 0 when there is none.  The clock it compares with is
\* read in the application, some time after the query before (until, so far).
FindLatestActiveRequest(s) ==
    /\ At(s, "add", "find")
    /\ \E clock \in proc[s].until..now, r \in Requests \cup {0} :
          LET found == ActiveRequests(proc[s].user, StoreOf[proc[s].inv], clock) IN
          /\ IF found = {} THEN r = 0 ELSE r \in found /\ \A o \in found : o <= r
          /\ Become(s, [proc[s] EXCEPT !.at = "open", !.req = r, !.until = now + Window])
    /\ UNCHANGED <<now, inventoryVars, requestVars, itemVars, invoices>>

\* The new row is seen by nobody else before COMMIT; the sequence never goes back.
CreateRequest(s) ==
    /\ At(s, "add", "open") /\ proc[s].req = 0
    /\ IF lastReq + 1 \in Requests
       THEN /\ lastReq' = lastReq + 1
            /\ reqLock' = [reqLock EXCEPT ![lastReq + 1] = s]
            /\ Become(s, [proc[s] EXCEPT !.at = "reserve", !.req = lastReq + 1])
            /\ UNCHANGED <<now, inventoryVars, req, itemVars, invoices>>
       ELSE Throw(s)

TouchRequestExpiry(s) ==
    /\ At(s, "add", "open") /\ proc[s].req # 0
    /\ FreeFor(s, reqLock[proc[s].req])
    /\ reqLock' = [reqLock EXCEPT ![proc[s].req] = s]
    /\ Goto(s, "reserve")
    /\ UNCHANGED <<now, inventoryVars, req, lastReq, itemVars, invoices>>

ReserveForItem(s) ==
    LET i == proc[s].inv  row == Visible(s, i) IN
    /\ At(s, "add", "reserve")
    /\ IF CanReserve(row, proc[s].qty)
       THEN /\ WriteInventory(s, i, ReserveStock(row, proc[s].qty))
            /\ Goto(s, "finish")
            /\ UNCHANGED <<now, requestVars, itemVars, invoices>>
       ELSE Throw(s)

\* createItem, recalculateTotal and COMMIT.  The row of the request has been locked since it
\* was created or touched.
ExtendedRow(s) == [req[proc[s].req] EXCEPT !.until = @ + Window]  \* mutant: extends the old expiry
TouchedRow(s) == [req[proc[s].req] EXCEPT !.until = proc[s].until]
NewRequest(s) == [status |-> "new", user |-> proc[s].user, store |-> StoreOf[proc[s].inv],
                  until |-> proc[s].until, total |-> {}]
RequestRow(s) == IF req[proc[s].req].status = "absent" THEN NewRequest(s) ELSE TouchedRow(s)
TotalBefore(r, k) == LiveItems(r)                              \* mutant: recalculates before createItem
TotalWith(r, k) == LiveItems(r) \cup {k}
UnusedItems == {k \in Items : item[k].state = "absent"}
CreateItem(s) ==
    LET r == proc[s].req IN
    /\ At(s, "add", "finish")
    /\ IF UnusedItems = {} THEN Throw(s) ELSE
       \E k \in UnusedItems :
          /\ \A j \in UnusedItems : k <= j
          /\ item' = [item EXCEPT ![k] = [state |-> "live", req |-> r, inv |-> proc[s].inv, qty |-> proc[s].qty]]
          /\ req' = [req EXCEPT ![r] = [RequestRow(s) EXCEPT !.total = TotalWith(r, k)]]
          /\ reqLock' = Unlock(reqLock, {s})
          /\ CommitInventories(s)
          /\ Become(s, Idle)
          /\ UNCHANGED <<now, lastReq, itemLock, invoices>>

-----------------------------------------------------------------------------
(* removeItem, of a caller the CASL guard lets pass: the requester or an admin *)

RemoveItem(s, k) ==
    /\ item[k].state = "live" /\ IsOpen(item[k].req)
    /\ Start(s, [Idle EXCEPT !.op = "remove", !.at = "delete", !.item = k, !.req = item[k].req])

DeleteItemForOpenRequest(s) ==
    LET k == proc[s].item IN
    /\ At(s, "remove", "delete")
    /\ IF item[k].state = "live" /\ IsOpen(proc[s].req)
       THEN /\ FreeFor(s, itemLock[k])
            /\ itemLock' = [itemLock EXCEPT ![k] = s]
            /\ Goto(s, "release")
            /\ UNCHANGED <<now, inventoryVars, requestVars, item, invoices>>
       ELSE Throw(s)

\* countItemsByRequestId does not see the item the transaction deleted.
RemainingWithDeleted(s) == LiveItems(proc[s].req)              \* mutant: counts it
Remaining(s) == LiveItems(proc[s].req) \ {proc[s].item}
CountItems(s) ==
    /\ At(s, "remove", "count")
    /\ Goto(s, IF Remaining(s) = {} THEN "cancel" ELSE "sum")
    /\ UNCHANGED <<now, inventoryVars, requestVars, itemVars, invoices>>

\* recalculateTotal adds up the items in one statement and stores the sum in the next.
SumItems(s) ==
    /\ At(s, "remove", "sum")
    /\ Become(s, [proc[s] EXCEPT !.at = "finish", !.total = Remaining(s)])
    /\ UNCHANGED <<now, inventoryVars, requestVars, itemVars, invoices>>

\* The UPDATE of the request that ends a transaction of p, with its COMMIT.
CommitRequest(p, row) ==
    /\ FreeFor(p, reqLock[proc[p].req])
    /\ req' = [req EXCEPT ![proc[p].req] = row]
    /\ reqLock' = Unlock(reqLock, {p})
    /\ CommitInventories(p)
    /\ UNCHANGED <<now, lastReq>>

Closed(r, status) == [req[r] EXCEPT !.status = status, !.total = {}]
DeleteItem(s) ==
    /\ item' = [item EXCEPT ![proc[s].item].state = "deleted"]
    /\ itemLock' = Unlock(itemLock, {s})
    /\ Become(s, Idle)
    /\ UNCHANGED invoices

SetTotal(s) ==
    /\ At(s, "remove", "finish")
    /\ CommitRequest(s, [req[proc[s].req] EXCEPT !.total = proc[s].total])
    /\ DeleteItem(s)
CancelEmptyRequest(s) ==
    /\ At(s, "remove", "cancel")
    /\ CommitRequest(s, Closed(proc[s].req, "cancelled"))
    /\ DeleteItem(s)

-----------------------------------------------------------------------------
(* releaseReservedStock, in removeItem and in the loops of cancel and the expiry pass *)

ReleaseForItem(p) ==
    LET k == proc[p].item  i == item[k].inv  row == Visible(p, i) IN
    /\ proc[p].at = "release"
    /\ IF CanRelease(row, item[k].qty)
       THEN /\ WriteInventory(p, i, ReleaseReservedStock(row, item[k].qty))
            /\ \E l \in IF proc[p].op = "remove" THEN {[proc[p] EXCEPT !.at = "count"]}
                        ELSE NextItem(proc[p], proc[p].todo, "release") :
                  Become(p, l)
            /\ UNCHANGED <<now, requestVars, itemVars, invoices>>
       ELSE Throw(p)

-----------------------------------------------------------------------------
(* cancel *)

Cancel(s, r) ==
    /\ IsOpen(r)
    /\ Start(s, [Idle EXCEPT !.op = "cancel", !.at = "list", !.req = r])

ListItemsToCancel(s) ==
    LET K == LiveItems(proc[s].req) IN
    /\ At(s, "cancel", "list")
    /\ \E l \in NextItem([proc[s] EXCEPT !.seen = K], K, "release") : Become(s, l)
    /\ UNCHANGED <<now, inventoryVars, requestVars, itemVars, invoices>>

SetRequestCancelled(s) ==
    /\ At(s, "cancel", "finish")
    /\ CommitRequest(s, Closed(proc[s].req, "cancelled"))
    /\ Become(s, Idle)
    /\ UNCHANGED <<itemVars, invoices>>

-----------------------------------------------------------------------------
(* confirm *)

\* The total the invoice will show is the one of this read.
Confirm(s, r) ==
    /\ IsActive(r)
    /\ Start(s, [Idle EXCEPT !.op = "confirm", !.at = "list", !.req = r, !.total = req[r].total])

ListItemsToSell(s) ==
    LET K == LiveItems(proc[s].req) IN
    /\ At(s, "confirm", "list")
    /\ Become(s, IF K = {} THEN Idle ELSE [proc[s] EXCEPT !.at = "invoice", !.seen = K])
    /\ UNCHANGED <<now, inventoryVars, requestVars, itemVars, invoices>>

\* invoiceNumber is unique: two invoices of a request in one millisecond are refused.
CreateInvoice(s) ==
    LET r == proc[s].req IN
    /\ At(s, "confirm", "invoice")
    /\ \/ /\ reqLock[r] \notin Workers
          /\ \E l \in NextItem(proc[s], proc[s].seen, "consume") : Become(s, l)
          /\ UNCHANGED <<now, inventoryVars, requestVars, itemVars, invoices>>
       \/ invoices[r] # <<>> /\ Throw(s)

\* createInvoiceItem, consumeReservedStock and the "sale" line of the ledger.
SellItem(s) ==
    LET k == proc[s].item  i == item[k].inv  row == Visible(s, i) IN
    /\ At(s, "confirm", "consume")
    /\ IF CanConsume(row, item[k].qty)
       THEN /\ WriteInventory(s, i, LogSale(ConsumeReservedStock(row, item[k].qty), item[k].qty))
            /\ \E l \in NextItem(proc[s], proc[s].todo, "consume") : Become(s, l)
            /\ UNCHANGED <<now, requestVars, itemVars, invoices>>
       ELSE Throw(s)

SetRequestConfirmed(s) ==
    LET r == proc[s].req IN
    /\ At(s, "confirm", "finish")
    /\ CommitRequest(s, [req[r] EXCEPT !.status = "confirmed"])
    /\ invoices' = [invoices EXCEPT ![r] = Append(@, [total |-> proc[s].total, lines |-> proc[s].seen])]
    /\ Become(s, Idle)
    /\ UNCHANGED itemVars

-----------------------------------------------------------------------------
(* expireOpenPurchaseRequests.  isRunningExpiry is proc[w].op = "expire": a tick of the
   timer during a pass does nothing. *)

PassForEver(batch) == [Idle EXCEPT !.op = "expire", !.at = "next", !.batch = batch]  \* mutant: flag not reset
Pass(batch) == IF batch = {} THEN Idle ELSE [Idle EXCEPT !.op = "expire", !.at = "next", !.batch = batch]

ExpireOpenPurchaseRequests(w) == Start(w, Pass({r \in Requests : IsOverdue(r)}))

\* findExpiredOpenById, FOR UPDATE SKIP LOCKED, and the list of the items, which cannot
\* change while the request is locked.  A request that is locked, or no longer overdue, is
\* left for another pass.
LockNothing(r) == FALSE                                        \* mutant: a SELECT without FOR UPDATE
SkipLocked(r) == reqLock[r] # None \/ KeyShared(r)
LockExpiredRequest(w) ==
    /\ At(w, "expire", "next")
    /\ \E r \in proc[w].batch :
          LET rest == [proc[w] EXCEPT !.batch = @ \ {r}, !.req = r, !.seen = LiveItems(r)] IN
          IF IsOverdue(r) /\ ~SkipLocked(r)
          THEN /\ reqLock' = [reqLock EXCEPT ![r] = w]
               /\ \E l \in NextItem(rest, LiveItems(r), "release") : Become(w, l)
          ELSE /\ Become(w, Pass(rest.batch))
               /\ UNCHANGED reqLock
    /\ UNCHANGED <<now, inventoryVars, req, lastReq, itemVars, invoices>>

SetRequestExpired(w) ==
    /\ At(w, "expire", "finish")
    /\ CommitRequest(w, Closed(proc[w].req, "expired"))
    /\ Become(w, Pass(proc[w].batch))
    /\ UNCHANGED <<itemVars, invoices>>

-----------------------------------------------------------------------------
(* InventoriesService.restock: the UPDATE with its ledger line, and COMMIT.  A stock above
   MaxStock is an integer out of range. *)

RestockInventory(s, i, qty) ==
    /\ invDraft[i].stock + qty <= MaxStock
    /\ proc[s].op = "idle"
    /\ Cardinality(InFlight) < MaxInFlight
    /\ WriteInventory(s, i, LogRestock(Restock(invDraft[i], qty), qty))
    /\ Become(s, [Idle EXCEPT !.op = "restock", !.at = "finish", !.inv = i, !.qty = qty])
    /\ UNCHANGED <<now, requestVars, itemVars, invoices>>

CommitRestock(s) ==
    /\ At(s, "restock", "finish")
    /\ CommitInventories(s)
    /\ Become(s, Idle)
    /\ UNCHANGED <<now, requestVars, itemVars, invoices>>

-----------------------------------------------------------------------------
(* Deadlocks, crashes and the clock *)

WaitsForInventory(p, i) ==
    \/ /\ proc[p].at = "reserve" /\ i = proc[p].inv /\ CanReserve(inv[i], proc[p].qty)
    \/ /\ proc[p].at \in {"release", "consume"} /\ i = item[proc[p].item].inv
       /\ CanRelease(inv[i], item[proc[p].item].qty)

WaitsFor(p, q) ==
    /\ p # q
    /\ \/ \E i \in Inventories : WaitsForInventory(p, i) /\ invLock[i] = q
       \/ /\ proc[p].at \in {"open", "cancel", "finish"} /\ proc[p].req # 0
          /\ reqLock[proc[p].req] = q
       \/ At(p, "confirm", "invoice") /\ reqLock[proc[p].req] = q /\ q \in Workers
       \/ At(p, "remove", "delete") /\ itemLock[proc[p].item] = q

\* PostgreSQL ends a transaction that is on a cycle of transactions waiting for each other.
OnCycle(p) == \E D \in SUBSET Procs :
    p \in D /\ \A q \in D : (\E o \in D : WaitsFor(q, o)) /\ (\E o \in D : WaitsFor(o, q))
DeadlockDetected(p) == OnCycle(p) /\ Throw(p)

\* An instance dies: its connections close, its transactions roll back, and it restarts.
Crash(w) == (\E p \in InstanceOf(w) : proc[p].op # "idle") /\ Abort(InstanceOf(w))

Tick == /\ now < MaxTime
        /\ now' = now + 1
        /\ UNCHANGED <<inventoryVars, requestVars, itemVars, invoices, proc, historyVars>>

-----------------------------------------------------------------------------

StartHandler(s) ==
    \/ \E u \in Users, i \in Inventories, qty \in Quantities : AddItem(s, u, i, qty)
    \/ \E k \in Items : RemoveItem(s, k)
    \/ \E r \in Requests : Confirm(s, r) \/ Cancel(s, r)
    \/ \E i \in Inventories, qty \in Quantities : RestockInventory(s, i, qty)

HandlerStep(s) ==
    \/ FindLatestActiveRequest(s) \/ CreateRequest(s) \/ TouchRequestExpiry(s)
    \/ ReserveForItem(s) \/ CreateItem(s)
    \/ DeleteItemForOpenRequest(s) \/ CountItems(s) \/ SumItems(s) \/ SetTotal(s) \/ CancelEmptyRequest(s)
    \/ ListItemsToCancel(s) \/ SetRequestCancelled(s)
    \/ ListItemsToSell(s) \/ CreateInvoice(s) \/ SellItem(s) \/ SetRequestConfirmed(s)
    \/ CommitRestock(s)
    \/ ReleaseForItem(s)

WorkerStep(w) == LockExpiredRequest(w) \/ ReleaseForItem(w) \/ SetRequestExpired(w)

Next ==
    \/ \E s \in Sessions : StartHandler(s) \/ HandlerStep(s)
    \/ \E w \in Workers : ExpireOpenPurchaseRequests(w) \/ WorkerStep(w) \/ Crash(w)
    \/ \E p \in Procs : DeadlockDetected(p)
    \/ Tick

Spec == Init /\ [][Next]_vars

\* A handler that can go on does: the event loop runs it, and the queue of a lock is first
\* come, first served.  The deadlock detector runs.  Crashes, restarts and the requests of
\* users are never required to happen.
HandlerFairness ==
    /\ \A s \in Sessions : SF_vars(HandlerStep(s))
    /\ \A w \in Workers : SF_vars(WorkerStep(w))
    /\ WF_vars(\E p \in Procs : DeadlockDetected(p))
\* setInterval fires for as long as its instance runs.
TimerFairness == \A w \in Workers : SF_vars(ExpireOpenPurchaseRequests(w))
HandlerSpec == Spec /\ HandlerFairness
FairSpec == HandlerSpec /\ TimerFairness

-----------------------------------------------------------------------------
(* Properties that hold under every interleaving *)

\* Every variable has its type: the rows of the tables, the locks and the handlers.
TypeOK ==
    /\ now \in 0..MaxTime
    /\ inv \in [Inventories -> StoreInventoryRow]
    /\ invDraft \in [Inventories -> StoreInventoryRow]
    /\ invLock \in [Inventories -> Procs \cup {None}]
    /\ req \in [Requests -> RequestRows]
    /\ reqLock \in [Requests -> Procs \cup {None}]
    /\ lastReq \in Requests \cup {0}
    /\ item \in [Items -> ItemRows \cup {NoItem}]
    /\ itemLock \in [Items -> Procs \cup {None}]
    /\ invoices \in [Requests -> Seq(Invoices)]
    /\ proc \in [Procs -> Locals]
    /\ crossed \subseteq Requests
    /\ hurried \subseteq Users

\* However handlers interleave, fail or crash, the guarded UPDATE statements of
\* InventoriesRepository never promise more than there is: nothing negative is reserved,
\* and never more than is in stock.
NoOversell == \A i \in Inventories : 0 <= inv[i].reserved /\ inv[i].reserved <= inv[i].stock

\* The ledger explains the stock: what was put in minus what was sold, at every commit,
\* although stock and ledger are written by different statements.
StockMatchesLedger == \A i \in Inventories : inv[i].stock = inv[i].restocked - inv[i].sold

\* What confirm takes from stock is on an invoice, and what is on an invoice was taken from
\* stock: an aborted confirm leaves neither.
AllInvoices == UNION {{r} \X DOMAIN invoices[r] : r \in Requests}
SoldOnInvoices(i) ==
    SumFunction([v \in AllInvoices |-> QtyOf({k \in invoices[v[1]][v[2]].lines : item[k].inv = i})])
SoldMatchesInvoices == \A i \in Inventories : inv[i].sold = SoldOnInvoices(i)

\* The expiry pass closes only requests that are open and overdue at the moment it commits:
\* no other handler extends, confirms or cancels a request between its SELECT ... FOR UPDATE
\* and its UPDATE, which tests neither.
ExpiryOnlyStale ==
    [][\A r \in Requests : req'[r].status = "expired" /\ req[r].status # "expired" =>
         req[r].status = "new" /\ req[r].until < now]_vars

\* Sale and expiry exclude each other: no request ends up expired once it has an invoice.
ExpiredHasNoInvoice == \A r \in Requests : req[r].status = "expired" => invoices[r] = <<>>

\* Every transaction books all of its items or none: what a confirm, a cancel or a pass commits
\* is the items it has listed, each once, and a removeItem gives back its item while it is there,
\* although each item is booked by a statement of its own and any of them may fail.
Account == INSTANCE StockAccount WITH account <- inv, list <- [p \in Procs |-> proc[p].seen]
ImplementsStockAccount == Account!Spec

\* Every handler and every expiry pass ends, although they lock requests, items and
\* inventories in different orders: a deadlock is broken by the database.
HandlersFinish == \A p \in Procs : proc[p].op # "idle" ~> proc[p].op = "idle"

-----------------------------------------------------------------------------
(* How far the damage of a race goes.  Nothing keeps two handlers from one request, or two
   calls of addItem from one user; what they may spoil is that request, the inventories its
   items are of, and the limits and carts of that user. *)

\* The columns reserved_stock are what the items of the open requests add up to, unless two
\* handlers have met on the request of one of the items: whatever else runs at the time or fails
\* half way.
OpenItems(i) == {k \in Items : item[k].state = "live" /\ item[k].inv = i /\ IsOpen(item[k].req)}
ItemsCrossed(i) == \E k \in Items : item[k].state # "absent" /\ item[k].inv = i /\ item[k].req \in crossed
ReservedMatchesOpenItems == \A i \in Inventories : ItemsCrossed(i) \/ inv[i].reserved = QtyOf(OpenItems(i))

\* The total of an open request is the sum of its items, and the total of an invoice that of
\* its lines, although each is computed by a handler and stored by hand: unless two handlers
\* have met on the request.
TotalsMatch == \A r \in Requests \ crossed :
    /\ IsOpen(r) => req[r].total = LiveItems(r)
    /\ \A n \in DOMAIN invoices[r] : invoices[r][n].total = invoices[r][n].lines

\* What a user holds of an inventory in carts that are still active stays within
\* max_order_qty, over however many carts and calls it was collected, and whatever handlers do
\* with the carts at the time: unless two calls of addItem of that user have overlapped.
HoldsAtMostMaxOrderQty(u, i) == MaxOrderQty[i] # None => QtyOf(ReservedRows(u, i)) <= MaxOrderQty[i]
MaxOrderQtyRespected == \A u \in Users \ hurried, i \in Inventories : HoldsAtMostMaxOrderQty(u, i)

\* removeItem cancels a request with its last item: an open request always has one, unless two
\* handlers have met on it.
OpenRequestHasItems == \A r \in Requests \ crossed : IsOpen(r) => LiveItems(r) # {}

\* A user has one active cart per store: addItem opens another only when the old one is no
\* longer active, although it looks with a clock that may be late, and carts expire or are
\* extended meanwhile: unless two calls of addItem of that user have overlapped.
OneActiveRequest == \A r1, r2 \in Requests :
    IsActive(r1) /\ IsActive(r2) /\ req[r1].user = req[r2].user /\ req[r1].store = req[r2].store =>
        r1 = r2 \/ req[r1].user \in hurried

\* A request that was invoiced was invoiced once, and is confirmed for good, unless two handlers
\* have met on it.
InvoicedOnce == \A r \in Requests \ crossed :
    invoices[r] # <<>> => Len(invoices[r]) = 1 /\ req[r].status = "confirmed"

\* A request that is overdue is closed in the end, unless instances keep crashing for other
\* reasons than a "Stock reservation conflict" of the pass itself: the pass that finds the
\* request skips what is locked, and loses what it did when it crashes.
ReleaseConflict(p) == /\ proc[p].at = "release"
                      /\ LET i == item[proc[p].item].inv IN ~CanRelease(Visible(p, i), item[proc[p].item].qty)
CrashesForEver == []<><<\E w \in Workers : Crash(w) /\ ~ReleaseConflict(w)>>_vars
StaleRequestsExpire == CrashesForEver \/ \A r \in Requests : IsOverdue(r) ~> ~IsOverdue(r)

-----------------------------------------------------------------------------
(* What the documentation says, and interleavings break *)

\* "Removing/cancelling/expiry releases reserved stock": once nothing runs and no request is
\* open, nothing is reserved.
ClosedRequestsHoldNothing ==
    InFlight = {} /\ (\A r \in Requests : ~IsOpen(r)) => \A i \in Inventories : inv[i].reserved = 0

\* addItem refuses what "exceeds max_order_qty": no user ever holds more in active carts.
MaxOrderQtyNeverExceeded == \A u \in Users, i \in Inventories : HoldsAtMostMaxOrderQty(u, i)

\* confirm refuses a request that is "already processed": no request gets a second invoice.
AtMostOneInvoice == \A r \in Requests : Len(invoices[r]) <= 1

\* confirm "marks purchase request as confirmed": no handler that found the request open
\* before it was confirmed takes that back.
ConfirmedStays == [][\A r \in Requests : req[r].status = "confirmed" => req'[r].status = "confirmed"]_vars
=============================================================================
