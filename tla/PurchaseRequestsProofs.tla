------------------------- MODULE PurchaseRequestsProofs -------------------------
(***************************************************************************)
(* Proofs about PurchaseRequests, for any number of sessions, instances,   *)
(* users, inventories, requests and items.  Only the rows of the tables    *)
(* and the progress of the handlers matter here; nothing is assumed about  *)
(* fairness, and MaxInFlight bounds nothing the proofs use.                *)
(***************************************************************************)
EXTENDS PurchaseRequests, TLAPS

Present == {k \in Items : item[k].state # "absent"}

\* A handler that is past its first step knows what it works on.
WellFormed(p) ==
    /\ proc[p].op \in {"add", "restock"} => proc[p].inv \in Inventories /\ proc[p].qty \in Quantities
    /\ proc[p].op = "add" /\ proc[p].at \in {"reserve", "finish"} => proc[p].req \in Requests
    /\ proc[p].op \in {"remove", "cancel", "confirm"} => proc[p].req \in Requests
    /\ proc[p].op = "expire" /\ proc[p].at # "next" => proc[p].req \in Requests
    /\ proc[p].op = "remove" => proc[p].item \in Present
    /\ proc[p].at \in {"release", "consume"} => proc[p].item \in Present
    /\ proc[p].at = "release" => proc[p].op \in {"remove", "cancel", "expire"}
    /\ proc[p].todo \subseteq Present /\ proc[p].seen \subseteq Present

\* What the open transaction of p has done to row i so far: one kind of booking.
Booking(p, i) ==
    LET old == inv[i]  new == invDraft[i]  l == proc[p] IN
    \/ /\ l.op = "add" /\ l.at = "finish" /\ i = l.inv
       /\ new.reserved = old.reserved + l.qty /\ new.reserved <= old.stock
       /\ new.stock = old.stock /\ new.restocked = old.restocked /\ new.sold = old.sold
    \/ /\ l.op = "restock" /\ l.at = "finish" /\ i = l.inv
       /\ new.stock = old.stock + l.qty /\ new.restocked = old.restocked + l.qty
       /\ new.reserved = old.reserved /\ new.sold = old.sold
    \/ /\ l.op \in {"remove", "cancel", "expire"}
       /\ l.at \in {"release", "count", "sum", "cancel", "finish"}
       /\ 0 <= new.reserved /\ new.reserved <= old.reserved
       /\ new.stock = old.stock /\ new.restocked = old.restocked /\ new.sold = old.sold
    \/ /\ l.op = "confirm" /\ l.at \in {"consume", "finish"}
       /\ new.sold >= old.sold /\ new.reserved >= 0
       /\ new.stock = old.stock - (new.sold - old.sold)
       /\ new.reserved = old.reserved - (new.sold - old.sold)
       /\ new.restocked = old.restocked

\* A row nobody has locked is as committed, and a locked row is its owner's booking.
Booked(i) ==
    /\ invLock[i] = None => invDraft[i] = inv[i]
    /\ \A p \in Procs : invLock[i] = p => Booking(p, i)

Inv == /\ TypeOK
       /\ \A p \in Procs : WellFormed(p)
       /\ \A i \in Inventories : Booked(i)
       /\ NoOversell
       /\ StockMatchesLedger

-----------------------------------------------------------------------------
(* Rows, locks and local states *)

\* A quantity is a positive integer.
LEMMA QuantitiesAreIntegers == \A qty \in Quantities : qty \in Nat /\ qty \in Int /\ qty > 0
  BY InventoriesAssumption

\* The statements of InventoriesRepository turn rows into rows.
LEMMA RowTypes ==
  ASSUME NEW row \in StoreInventoryRow, NEW qty \in Int
  PROVE  /\ ReserveStock(row, qty) \in StoreInventoryRow
         /\ ReleaseReservedStock(row, qty) \in StoreInventoryRow
         /\ LogSale(ConsumeReservedStock(row, qty), qty) \in StoreInventoryRow
         /\ LogRestock(Restock(row, qty), qty) \in StoreInventoryRow
<1>1. /\ ReserveStock(row, qty) \in StoreInventoryRow
      /\ ReleaseReservedStock(row, qty) \in StoreInventoryRow
      /\ Restock(row, qty) \in StoreInventoryRow
  BY DEF StoreInventoryRow, ReserveStock, ReleaseReservedStock, Restock
<1>2. ASSUME NEW any \in StoreInventoryRow
      PROVE  /\ LogSale(any, qty) \in StoreInventoryRow
             /\ LogRestock(any, qty) \in StoreInventoryRow
             /\ [any EXCEPT !.reserved = @ - qty] \in StoreInventoryRow
  BY DEF StoreInventoryRow, LogSale, LogRestock
<1>3. [row EXCEPT !.stock = @ - qty] \in StoreInventoryRow
  BY DEF StoreInventoryRow
<1>4. ConsumeReservedStock(row, qty) \in StoreInventoryRow
  BY <1>2, <1>3 DEF ConsumeReservedStock
<1> QED
  BY <1>1, <1>2, <1>4

\* Releasing locks gives a map of locks.
LEMMA UnlockType ==
  ASSUME NEW K, NEW lock \in [K -> Procs \cup {None}], NEW P
  PROVE  Unlock(lock, P) \in [K -> Procs \cup {None}]
  BY DEF Unlock

\* Any field of a local state can be set to a value of its type.
LEMMA LocalUpdates ==
  ASSUME NEW l \in Locals
  PROVE  /\ \A x \in {"idle", "add", "remove", "confirm", "cancel", "restock", "expire"} :
               [l EXCEPT !.op = x] \in Locals
         /\ \A x \in Steps : [l EXCEPT !.at = x] \in Locals
         /\ \A x \in Users : [l EXCEPT !.user = x] \in Locals
         /\ \A x \in Inventories : [l EXCEPT !.inv = x] \in Locals
         /\ \A x \in Quantities : [l EXCEPT !.qty = x] \in Locals
         /\ \A x \in Requests \cup {0} : [l EXCEPT !.req = x] \in Locals
         /\ \A x \in Items \cup {0} : [l EXCEPT !.item = x] \in Locals
         /\ \A x \in SUBSET Items : [l EXCEPT !.todo = x] \in Locals
         /\ \A x \in SUBSET Items : [l EXCEPT !.seen = x] \in Locals
         /\ \A x \in SUBSET Items : [l EXCEPT !.total = x] \in Locals
         /\ \A x \in Times : [l EXCEPT !.until = x] \in Locals
         /\ \A x \in SUBSET Requests : [l EXCEPT !.batch = x] \in Locals
<1>1. \A x \in {"idle", "add", "remove", "confirm", "cancel", "restock", "expire"} : [l EXCEPT !.op = x] \in Locals
  BY DEF Locals
<1>2. \A x \in Steps : [l EXCEPT !.at = x] \in Locals
  BY DEF Locals
<1>3. \A x \in Users : [l EXCEPT !.user = x] \in Locals
  BY DEF Locals
<1>4. \A x \in Inventories : [l EXCEPT !.inv = x] \in Locals
  BY DEF Locals
<1>5. \A x \in Quantities : [l EXCEPT !.qty = x] \in Locals
  BY DEF Locals
<1>6. \A x \in Requests \cup {0} : [l EXCEPT !.req = x] \in Locals
  BY DEF Locals
<1>7. \A x \in Items \cup {0} : [l EXCEPT !.item = x] \in Locals
  BY DEF Locals
<1>8. \A x \in SUBSET Items : [l EXCEPT !.todo = x] \in Locals
  BY DEF Locals
<1>9. \A x \in SUBSET Items : [l EXCEPT !.seen = x] \in Locals
  BY DEF Locals
<1>10. \A x \in SUBSET Items : [l EXCEPT !.total = x] \in Locals
  BY DEF Locals
<1>11. \A x \in Times : [l EXCEPT !.until = x] \in Locals
  BY DEF Locals
<1>12. \A x \in SUBSET Requests : [l EXCEPT !.batch = x] \in Locals
  BY DEF Locals
<1> QED
  BY <1>1, <1>2, <1>3, <1>4, <1>5, <1>6, <1>7, <1>8, <1>9, <1>10, <1>11, <1>12

\* An idle session is a local state.
LEMMA IdleType == Idle \in Locals
  BY BoundsAssumption DEF Idle, Locals, Steps, Times

\* The next round of a loop is a local state that differs only in the loop's own fields.
LEMMA NextItemType ==
  ASSUME NEW l \in Locals, NEW K \in SUBSET Items, NEW at \in Steps,
         NEW n \in NextItem(l, K, at)
  PROVE  /\ n \in Locals
         /\ n.op = l.op /\ n.inv = l.inv /\ n.qty = l.qty /\ n.req = l.req /\ n.seen = l.seen
         /\ \/ n.at = "finish" /\ n.todo = {}
            \/ n.at = at /\ n.item \in K /\ n.todo \subseteq K
<1>1. ASSUME NEW x \in Steps, NEW k \in Items \cup {0}, NEW T \in SUBSET Items
      PROVE  [l EXCEPT !.at = x, !.item = k, !.todo = T] \in Locals
  <2>1. [l EXCEPT !.at = x] \in Locals
    BY LocalUpdates
  <2>2. [[l EXCEPT !.at = x] EXCEPT !.item = k] \in Locals
    BY <2>1, LocalUpdates
  <2> QED
    BY <2>2, LocalUpdates
<1>2. CASE K = {}
  <2>1. n = [l EXCEPT !.at = "finish", !.item = 0, !.todo = {}]
    BY <1>2 DEF NextItem
  <2>2. n \in Locals
    BY <1>1, <2>1 DEF Steps
  <2>3. n.at = "finish" /\ n.todo = {}
    BY <2>1 DEF Locals
  <2> QED
    BY <2>1, <2>2, <2>3 DEF Locals
<1>3. CASE K # {}
  <2>1. PICK k \in K : n = [l EXCEPT !.at = at, !.item = k, !.todo = K \ {k}]
    BY <1>3 DEF NextItem
  <2>2. n \in Locals
    BY <1>1, <2>1
  <2>3. n.at = at /\ n.item = k /\ n.todo = K \ {k}
    BY <2>1 DEF Locals
  <2> QED
    BY <2>1, <2>2, <2>3 DEF Locals
<1> QED
  BY <1>2, <1>3

-----------------------------------------------------------------------------
(* What the pieces that actions share do to the invariant *)

\* The histories grow, and keep their types.
LEMMA HistoryType ==
  ASSUME TypeOK, Remember
  PROVE  /\ crossed' \subseteq Requests /\ hurried' \subseteq Users
         /\ crossed \subseteq crossed' /\ hurried \subseteq hurried'
<1>1. crossed' \subseteq Requests /\ crossed \subseteq crossed'
  BY DEF TypeOK, Remember
<1>2. hurried' \subseteq Users /\ hurried \subseteq hurried'
  BY DEF TypeOK, Remember
<1> QED
  BY <1>1, <1>2

\* A step of one process changes its local state only.
LEMMA BecomeType ==
  ASSUME TypeOK, NEW p \in Procs, NEW l \in Locals, Become(p, l)
  PROVE  /\ proc' \in [Procs -> Locals]
         /\ proc'[p] = l
         /\ \A q \in Procs \ {p} : proc'[q] = proc[q]
         /\ crossed' \subseteq Requests /\ hurried' \subseteq Users
<1>1. proc' = [proc EXCEPT ![p] = l] /\ Remember
  BY DEF Become
<1>2. crossed' \subseteq Requests /\ hurried' \subseteq Users
  BY <1>1, HistoryType
<1> QED
  BY <1>1, <1>2 DEF TypeOK

\* The other processes stay well-formed when no item disappears.
LEMMA WellFormedStep ==
  ASSUME TypeOK, \A q \in Procs : WellFormed(q),
         NEW p \in Procs, NEW l \in Locals, Become(p, l),
         Present \subseteq Present', WellFormed(p)'
  PROVE  \A q \in Procs : WellFormed(q)'
<1> SUFFICES ASSUME NEW q \in Procs, q # p
             PROVE  WellFormed(q)'
  OBVIOUS
<1>1. proc'[q] = proc[q]
  BY BecomeType
<1> QED
  BY <1>1 DEF WellFormed

\* A step that touches no inventory: the other bookings stay, the process keeps its own.
LEMMA BookedQuiet ==
  ASSUME Inv, NEW p \in Procs, NEW l \in Locals, Become(p, l), UNCHANGED inventoryVars,
         \A i \in Inventories : invLock[i] = p => Booking(p, i)'
  PROVE  (\A i \in Inventories : Booked(i)') /\ NoOversell' /\ StockMatchesLedger'
<1>1. UNCHANGED <<inv, invDraft, invLock>>
  BY DEF inventoryVars
<1>2. ASSUME NEW i \in Inventories
      PROVE  Booked(i)'
  <2>1. ASSUME NEW q \in Procs, invLock[i] = q
        PROVE  Booking(q, i)'
    <3>1. CASE q = p
      BY <2>1, <3>1
    <3>2. CASE q # p
      <4>1. proc'[q] = proc[q]
        BY <3>2, BecomeType DEF Inv
      <4>2. Booking(q, i)
        BY <2>1 DEF Inv, Booked
      <4> QED
        BY <4>1, <4>2, <1>1 DEF Booking
    <3> QED
      BY <3>1, <3>2
  <2>2. invLock[i] = None => invDraft[i] = inv[i]
    BY DEF Inv, Booked
  <2> QED
    BY <2>1, <2>2, <1>1 DEF Booked
<1>3. NoOversell' /\ StockMatchesLedger'
  BY <1>1 DEF Inv, NoOversell, StockMatchesLedger
<1> QED
  BY <1>2, <1>3

\* An UPDATE of one row: the process now owns the booking it made of the row.
LEMMA BookedWrite ==
  ASSUME Inv, NEW p \in Procs, NEW l \in Locals, Become(p, l),
         NEW i \in Inventories, NEW new \in StoreInventoryRow, WriteInventory(p, i, new),
         Booking(p, i)',
         \A j \in Inventories \ {i} : invLock[j] = p => Booking(p, j)'
  PROVE  /\ (\A j \in Inventories : Booked(j)') /\ NoOversell' /\ StockMatchesLedger'
         /\ inv' \in [Inventories -> StoreInventoryRow]
         /\ invDraft' \in [Inventories -> StoreInventoryRow]
         /\ invLock' \in [Inventories -> Procs \cup {None}]
<1>1. /\ inv' = inv
      /\ invDraft' = [invDraft EXCEPT ![i] = new]
      /\ invLock' = [invLock EXCEPT ![i] = p]
      /\ invLock[i] \in {None, p}
  BY DEF WriteInventory, FreeFor
<1>2. /\ inv \in [Inventories -> StoreInventoryRow]
      /\ invDraft \in [Inventories -> StoreInventoryRow]
      /\ invLock \in [Inventories -> Procs \cup {None}]
  BY DEF Inv, TypeOK
<1>3. ASSUME NEW j \in Inventories
      PROVE  Booked(j)'
  <2>1. CASE j = i
    <3>1. invLock'[j] = p /\ p # None
      BY <1>1, <1>2, <2>1, ProcsAssumption
    <3> QED
      BY <2>1, <3>1 DEF Booked
  <2>2. CASE j # i
    <3>1. invLock'[j] = invLock[j] /\ invDraft'[j] = invDraft[j] /\ inv'[j] = inv[j]
      BY <1>1, <1>2, <2>2
    <3>2. ASSUME NEW q \in Procs, invLock[j] = q
          PROVE  Booking(q, j)'
      <4>1. CASE q = p
        BY <2>2, <3>2, <4>1
      <4>2. CASE q # p
        <5>1. proc'[q] = proc[q]
          BY <4>2, BecomeType DEF Inv
        <5>2. Booking(q, j)
          BY <3>2 DEF Inv, Booked
        <5> QED
          BY <5>1, <5>2, <3>1 DEF Booking
      <4> QED
        BY <4>1, <4>2
    <3>3. invLock[j] = None => invDraft[j] = inv[j]
      BY DEF Inv, Booked
    <3> QED
      BY <3>1, <3>2, <3>3 DEF Booked
  <2> QED
    BY <2>1, <2>2
<1>4. NoOversell' /\ StockMatchesLedger'
  BY <1>1 DEF Inv, NoOversell, StockMatchesLedger
<1> QED
  BY <1>1, <1>2, <1>3, <1>4

\* Every kind of booking leaves a row that is not oversold and matches its ledger.
LEMMA BookingIsSound ==
  ASSUME Inv, NEW p \in Procs, NEW i \in Inventories, Booking(p, i)
  PROVE  /\ 0 <= invDraft[i].reserved /\ invDraft[i].reserved <= invDraft[i].stock
         /\ invDraft[i].stock = invDraft[i].restocked - invDraft[i].sold
<1> DEFINE old == inv[i]
           new == invDraft[i]
           qty == proc[p].qty
<1>1. old \in StoreInventoryRow /\ new \in StoreInventoryRow
  BY DEF Inv, TypeOK
<1>2. /\ old.stock \in Int /\ old.reserved \in Int /\ old.restocked \in Int /\ old.sold \in Int
      /\ new.stock \in Int /\ new.reserved \in Int /\ new.restocked \in Int /\ new.sold \in Int
  BY <1>1 DEF StoreInventoryRow
<1>3. 0 <= old.reserved /\ old.reserved <= old.stock /\ old.stock = old.restocked - old.sold
  BY DEF Inv, NoOversell, StockMatchesLedger
<1>4. proc[p].op \in {"add", "restock"} => qty \in Int /\ qty > 0
  BY QuantitiesAreIntegers DEF Inv, WellFormed
<1> QED
  BY <1>2, <1>3, <1>4 DEF Booking

\* COMMIT makes the bookings of the process the committed rows.
LEMMA BookedCommit ==
  ASSUME Inv, NEW p \in Procs, NEW l \in Locals, Become(p, l), CommitInventories(p)
  PROVE  /\ (\A i \in Inventories : Booked(i)') /\ NoOversell' /\ StockMatchesLedger'
         /\ inv' \in [Inventories -> StoreInventoryRow]
         /\ invDraft' \in [Inventories -> StoreInventoryRow]
         /\ invLock' \in [Inventories -> Procs \cup {None}]
<1>1. /\ inv' = [i \in Inventories |-> IF invLock[i] = p THEN invDraft[i] ELSE inv[i]]
      /\ invDraft' = invDraft
      /\ invLock' = Unlock(invLock, {p})
  BY DEF CommitInventories
<1>2. /\ inv \in [Inventories -> StoreInventoryRow]
      /\ invDraft \in [Inventories -> StoreInventoryRow]
      /\ invLock \in [Inventories -> Procs \cup {None}]
  BY DEF Inv, TypeOK
<1>3. invLock' \in [Inventories -> Procs \cup {None}]
  BY <1>1, <1>2, UnlockType
<1>4. ASSUME NEW i \in Inventories
      PROVE  /\ Booked(i)'
             /\ 0 <= inv'[i].reserved /\ inv'[i].reserved <= inv'[i].stock
             /\ inv'[i].stock = inv'[i].restocked - inv'[i].sold
  <2>1. CASE invLock[i] = p
    <3>1. inv'[i] = invDraft[i] /\ invLock'[i] = None /\ None \notin Procs
      BY <1>1, <1>2, <2>1, ProcsAssumption DEF Unlock
    <3>2. Booking(p, i)
      BY <2>1 DEF Inv, Booked
    <3> QED
      BY <3>1, <3>2, <1>1, BookingIsSound DEF Booked
  <2>2. CASE invLock[i] # p
    <3>1. inv'[i] = inv[i] /\ invLock'[i] = invLock[i] /\ invDraft'[i] = invDraft[i]
      BY <1>1, <1>2, <2>2 DEF Unlock
    <3>2. ASSUME NEW q \in Procs, invLock[i] = q
          PROVE  Booking(q, i)'
      <4>1. proc'[q] = proc[q]
        BY <2>2, <3>2, BecomeType DEF Inv
      <4>2. Booking(q, i)
        BY <3>2 DEF Inv, Booked
      <4> QED
        BY <4>1, <4>2, <3>1 DEF Booking
    <3>3. invLock[i] = None => invDraft[i] = inv[i]
      BY DEF Inv, Booked
    <3>4. Booked(i)'
      BY <3>1, <3>2, <3>3 DEF Booked
    <3> QED
      BY <3>1, <3>4 DEF Inv, NoOversell, StockMatchesLedger
  <2> QED
    BY <2>1, <2>2
<1> QED
  BY <1>1, <1>2, <1>3, <1>4 DEF NoOversell, StockMatchesLedger

\* ROLLBACK, of a handler or of a whole instance, forgets the bookings.
LEMMA AbortStep ==
  ASSUME Inv, NEW P \in SUBSET Procs, Abort(P)
  PROVE  Inv'
<1>1. /\ invDraft' = [i \in Inventories |-> IF invLock[i] \in P THEN inv[i] ELSE invDraft[i]]
      /\ invLock' = Unlock(invLock, P) /\ reqLock' = Unlock(reqLock, P) /\ itemLock' = Unlock(itemLock, P)
      /\ inv' = inv
      /\ proc' = [p \in Procs |-> IF p \in P THEN Idle ELSE proc[p]]
      /\ Remember
      /\ UNCHANGED <<now, req, lastReq, item, invoices>>
  BY DEF Abort, RollbackInventories
<1>2. TypeOK
  BY DEF Inv
<1>3. TypeOK'
  <2>0. crossed' \subseteq Requests /\ hurried' \subseteq Users
    BY <1>1, <1>2, HistoryType
  <2>1. proc' \in [Procs -> Locals]
    BY <1>1, <1>2, IdleType DEF TypeOK
  <2>2. /\ invLock' \in [Inventories -> Procs \cup {None}]
        /\ reqLock' \in [Requests -> Procs \cup {None}]
        /\ itemLock' \in [Items -> Procs \cup {None}]
    BY <1>1, <1>2, UnlockType DEF TypeOK
  <2>3. inv' \in [Inventories -> StoreInventoryRow] /\ invDraft' \in [Inventories -> StoreInventoryRow]
    BY <1>1, <1>2 DEF TypeOK
  <2> QED
    BY <1>1, <1>2, <2>0, <2>1, <2>2, <2>3 DEF TypeOK
<1>4. ASSUME NEW p \in Procs
      PROVE  WellFormed(p)'
  <2>1. CASE p \in P
    BY <1>1, <2>1 DEF WellFormed, Idle
  <2>2. CASE p \notin P
    BY <1>1, <2>2 DEF Inv, WellFormed, Present
  <2> QED
    BY <2>1, <2>2
<1>5. ASSUME NEW i \in Inventories
      PROVE  Booked(i)'
  <2>1. CASE invLock[i] \in P
    BY <1>1, <1>2, <2>1, ProcsAssumption DEF Unlock, Booked, TypeOK
  <2>2. CASE invLock[i] \notin P
    <3>1. invLock'[i] = invLock[i] /\ invDraft'[i] = invDraft[i] /\ inv'[i] = inv[i]
      BY <1>1, <1>2, <2>2 DEF Unlock, TypeOK
    <3>2. ASSUME NEW q \in Procs, invLock[i] = q
          PROVE  Booking(q, i)'
      <4>1. proc'[q] = proc[q]
        BY <1>1, <2>2, <3>2
      <4>2. Booking(q, i)
        BY <3>2 DEF Inv, Booked
      <4> QED
        BY <4>1, <4>2, <3>1 DEF Booking
    <3> QED
      BY <3>1, <3>2 DEF Inv, Booked
  <2> QED
    BY <2>1, <2>2
<1>6. NoOversell' /\ StockMatchesLedger'
  BY <1>1 DEF Inv, NoOversell, StockMatchesLedger
<1> QED
  BY <1>3, <1>4, <1>5, <1>6 DEF Inv

\* So does an exception, of a handler or of the expiry pass.
LEMMA ThrowStep ==
  ASSUME Inv, NEW p \in Procs, Throw(p)
  PROVE  Inv'
  BY AbortStep DEF Throw, InstanceOf, Procs

\* What a step writes to the tables other than store_inventories.
TablesOK ==
    /\ now \in 0..MaxTime
    /\ req \in [Requests -> RequestRows]
    /\ reqLock \in [Requests -> Procs \cup {None}]
    /\ lastReq \in Requests \cup {0}
    /\ item \in [Items -> ItemRows \cup {NoItem}]
    /\ itemLock \in [Items -> Procs \cup {None}]
    /\ invoices \in [Requests -> Seq(Invoices)]

\* The tables a step does not touch keep their types and their items.
LEMMA SameTables ==
  ASSUME Inv, UNCHANGED <<now, requestVars, itemVars, invoices>>
  PROVE  TablesOK' /\ Present' = Present
<1>1. UNCHANGED <<now, req, reqLock, lastReq, item, itemLock, invoices>>
  BY DEF requestVars, itemVars
<1> QED
  BY <1>1 DEF TablesOK, Inv, TypeOK, Present

\* A step that touches no inventory.
LEMMA TableStep ==
  ASSUME Inv, NEW p \in Procs, NEW l \in Locals, Become(p, l), UNCHANGED inventoryVars,
         TablesOK', Present \subseteq Present',
         WellFormed(p)', \A i \in Inventories : invLock[i] = p => Booking(p, i)'
  PROVE  Inv'
<1>1. TypeOK'
  BY BecomeType DEF Inv, TypeOK, TablesOK, inventoryVars
<1>2. \A q \in Procs : WellFormed(q)'
  BY WellFormedStep DEF Inv
<1>3. (\A i \in Inventories : Booked(i)') /\ NoOversell' /\ StockMatchesLedger'
  BY BookedQuiet
<1> QED
  BY <1>1, <1>2, <1>3 DEF Inv

\* A step that changes nothing but the local state of one process.
LEMMA QuietStep ==
  ASSUME Inv, NEW p \in Procs, NEW l \in Locals, Become(p, l),
         UNCHANGED <<now, inventoryVars, requestVars, itemVars, invoices>>,
         WellFormed(p)', \A i \in Inventories : invLock[i] = p => Booking(p, i)'
  PROVE  Inv'
  BY SameTables, TableStep

\* A step that updates one inventory.
LEMMA WriteStep ==
  ASSUME Inv, NEW p \in Procs, NEW l \in Locals, Become(p, l),
         NEW i \in Inventories, NEW new \in StoreInventoryRow, WriteInventory(p, i, new),
         UNCHANGED <<now, requestVars, itemVars, invoices>>,
         WellFormed(p)', Booking(p, i)',
         \A j \in Inventories \ {i} : invLock[j] = p => Booking(p, j)'
  PROVE  Inv'
<1>1. TablesOK' /\ Present' = Present
  BY SameTables
<1>2. /\ (\A j \in Inventories : Booked(j)') /\ NoOversell' /\ StockMatchesLedger'
      /\ inv' \in [Inventories -> StoreInventoryRow]
      /\ invDraft' \in [Inventories -> StoreInventoryRow]
      /\ invLock' \in [Inventories -> Procs \cup {None}]
  BY BookedWrite
<1>3. TypeOK'
  BY <1>1, <1>2, BecomeType DEF Inv, TypeOK, TablesOK
<1>4. \A q \in Procs : WellFormed(q)'
  BY <1>1, WellFormedStep DEF Inv
<1> QED
  BY <1>2, <1>3, <1>4 DEF Inv

\* A step that ends with COMMIT.
LEMMA CommitStep ==
  ASSUME Inv, NEW p \in Procs, NEW l \in Locals, Become(p, l), CommitInventories(p),
         TablesOK', Present \subseteq Present', WellFormed(p)'
  PROVE  Inv'
<1>1. /\ (\A j \in Inventories : Booked(j)') /\ NoOversell' /\ StockMatchesLedger'
      /\ inv' \in [Inventories -> StoreInventoryRow]
      /\ invDraft' \in [Inventories -> StoreInventoryRow]
      /\ invLock' \in [Inventories -> Procs \cup {None}]
  BY BookedCommit
<1>2. TypeOK'
  BY <1>1, BecomeType DEF Inv, TypeOK, TablesOK
<1>3. \A q \in Procs : WellFormed(q)'
  BY WellFormedStep DEF Inv
<1> QED
  BY <1>1, <1>2, <1>3 DEF Inv

\* A process that is before its first UPDATE of an inventory has locked none.
LEMMA NothingBooked ==
  ASSUME Inv, NEW p \in Procs,
         \/ proc[p].op = "idle"
         \/ proc[p].at \in {"find", "open", "reserve", "delete", "list", "invoice", "next"}
  PROVE  \A i \in Inventories : invLock[i] # p
  BY DEF Inv, Booked, Booking

-----------------------------------------------------------------------------
(* The starts of the handlers *)

\* Starting a handler or a pass: it has locked nothing yet.
LEMMA StartStep ==
  ASSUME Inv, NEW p \in Procs, NEW l \in Locals, Start(p, l), WellFormed(p)'
  PROVE  Inv'
<1>1. proc[p].op = "idle" /\ Become(p, l) /\ UNCHANGED <<now, inventoryVars, requestVars, itemVars, invoices>>
  BY DEF Start
<1> QED
  BY <1>1, NothingBooked, QuietStep

\* The items a handler lists exist.
LEMMA LiveItemsArePresent ==
  ASSUME NEW r
  PROVE  LiveItems(r) \subseteq Present /\ LiveItems(r) \subseteq Items
  BY DEF LiveItems, Present

\* Local states at the start of a handler, field by field.
LEMMA StartTypes ==
  ASSUME NEW op \in {"idle", "add", "remove", "confirm", "cancel", "restock", "expire"}, NEW at \in Steps
  PROVE  [Idle EXCEPT !.op = op, !.at = at] \in Locals
<1>1. [Idle EXCEPT !.op = op] \in Locals
  BY IdleType, LocalUpdates
<1> QED
  BY <1>1, LocalUpdates

\* addItem passes the check of max_order_qty.
LEMMA AddItemStep ==
  ASSUME Inv, NEW s \in Sessions, NEW u \in Users, NEW i \in Inventories, NEW qty \in Quantities,
         AddItem(s, u, i, qty)
  PROVE  Inv'
<1> DEFINE l == [Idle EXCEPT !.op = "add", !.at = "find", !.user = u, !.inv = i, !.qty = qty, !.until = now]
<1>1. l \in Locals
  <2>1. [Idle EXCEPT !.op = "add", !.at = "find"] \in Locals
    BY StartTypes DEF Steps
  <2>2. [[Idle EXCEPT !.op = "add", !.at = "find"] EXCEPT !.user = u] \in Locals
    BY <2>1, LocalUpdates
  <2>3. [[Idle EXCEPT !.op = "add", !.at = "find", !.user = u] EXCEPT !.inv = i] \in Locals
    BY <2>2, LocalUpdates
  <2>4. [[Idle EXCEPT !.op = "add", !.at = "find", !.user = u, !.inv = i] EXCEPT !.qty = qty] \in Locals
    BY <2>3, LocalUpdates
  <2>5. now \in Times
    BY BoundsAssumption DEF Inv, TypeOK, Times
  <2> QED
    BY <2>4, <2>5, LocalUpdates
<1>2. /\ l.op = "add" /\ l.at = "find" /\ l.inv = i /\ l.qty = qty
      /\ l.todo = {} /\ l.seen = {}
  BY DEF Idle
<1>3. s \in Procs /\ Start(s, l)
  BY DEF Procs, AddItem
<1>4. proc'[s] = l
  BY <1>1, <1>3, BecomeType DEF Start, Inv
<1> HIDE DEF l
<1>5. WellFormed(s)'
  BY <1>2, <1>4 DEF WellFormed
<1> QED
  BY <1>1, <1>3, <1>5, StartStep

\* removeItem has found its item and request.
LEMMA RemoveItemStep ==
  ASSUME Inv, NEW s \in Sessions, NEW k \in Items, RemoveItem(s, k)
  PROVE  Inv'
<1> DEFINE l == [Idle EXCEPT !.op = "remove", !.at = "delete", !.item = k, !.req = item[k].req]
<1>1. k \in Present /\ item[k].req \in Requests
  BY DEF RemoveItem, Present, Inv, TypeOK, ItemRows, NoItem
<1>2. l \in Locals
  <2>1. [Idle EXCEPT !.op = "remove", !.at = "delete"] \in Locals
    BY StartTypes DEF Steps
  <2>2. [[Idle EXCEPT !.op = "remove", !.at = "delete"] EXCEPT !.item = k] \in Locals
    BY <2>1, LocalUpdates
  <2> QED
    BY <2>2, <1>1, LocalUpdates
<1>3. /\ l.op = "remove" /\ l.at = "delete" /\ l.item = k /\ l.req = item[k].req
      /\ l.todo = {} /\ l.seen = {}
  BY DEF Idle
<1>4. s \in Procs /\ Start(s, l)
  BY DEF Procs, RemoveItem
<1>5. proc'[s] = l /\ item' = item
  BY <1>2, <1>4, BecomeType DEF Start, Inv, itemVars
<1> HIDE DEF l
<1>6. WellFormed(s)'
  BY <1>1, <1>3, <1>5 DEF WellFormed, Present
<1> QED
  BY <1>2, <1>4, <1>6, StartStep

\* cancel has found its request open.
LEMMA CancelStep ==
  ASSUME Inv, NEW s \in Sessions, NEW r \in Requests, Cancel(s, r)
  PROVE  Inv'
<1> DEFINE l == [Idle EXCEPT !.op = "cancel", !.at = "list", !.req = r]
<1>1. l \in Locals
  <2>1. [Idle EXCEPT !.op = "cancel", !.at = "list"] \in Locals
    BY StartTypes DEF Steps
  <2> QED
    BY <2>1, LocalUpdates
<1>2. l.op = "cancel" /\ l.at = "list" /\ l.req = r /\ l.todo = {} /\ l.seen = {}
  BY DEF Idle
<1>3. s \in Procs /\ Start(s, l)
  BY DEF Procs, Cancel
<1>4. proc'[s] = l
  BY <1>1, <1>3, BecomeType DEF Start, Inv
<1> HIDE DEF l
<1>5. WellFormed(s)'
  BY <1>2, <1>4 DEF WellFormed
<1> QED
  BY <1>1, <1>3, <1>5, StartStep

\* confirm has found its request active.
LEMMA ConfirmStep ==
  ASSUME Inv, NEW s \in Sessions, NEW r \in Requests, Confirm(s, r)
  PROVE  Inv'
<1> DEFINE l == [Idle EXCEPT !.op = "confirm", !.at = "list", !.req = r, !.total = req[r].total]
<1>1. l \in Locals
  <2>1. [Idle EXCEPT !.op = "confirm", !.at = "list"] \in Locals
    BY StartTypes DEF Steps
  <2>2. [[Idle EXCEPT !.op = "confirm", !.at = "list"] EXCEPT !.req = r] \in Locals
    BY <2>1, LocalUpdates
  <2>3. req[r].total \in SUBSET Items
    BY DEF Inv, TypeOK, RequestRows
  <2> QED
    BY <2>2, <2>3, LocalUpdates
<1>2. l.op = "confirm" /\ l.at = "list" /\ l.req = r /\ l.todo = {} /\ l.seen = {}
  BY DEF Idle
<1>3. s \in Procs /\ Start(s, l)
  BY DEF Procs, Confirm
<1>4. proc'[s] = l
  BY <1>1, <1>3, BecomeType DEF Start, Inv
<1> HIDE DEF l
<1>5. WellFormed(s)'
  BY <1>2, <1>4 DEF WellFormed
<1> QED
  BY <1>1, <1>3, <1>5, StartStep

\* restock updates the stock and appends to the ledger.
LEMMA RestockInventoryStep ==
  ASSUME Inv, NEW s \in Sessions, NEW i \in Inventories, NEW qty \in Quantities, RestockInventory(s, i, qty)
  PROVE  Inv'
<1> DEFINE l == [Idle EXCEPT !.op = "restock", !.at = "finish", !.inv = i, !.qty = qty]
           new == LogRestock(Restock(invDraft[i], qty), qty)
<1>1. l \in Locals
  <2>1. [Idle EXCEPT !.op = "restock", !.at = "finish"] \in Locals
    BY StartTypes DEF Steps
  <2>2. [[Idle EXCEPT !.op = "restock", !.at = "finish"] EXCEPT !.inv = i] \in Locals
    BY <2>1, LocalUpdates
  <2> QED
    BY <2>2, LocalUpdates
<1>2. /\ l.op = "restock" /\ l.at = "finish" /\ l.inv = i /\ l.qty = qty
      /\ l.todo = {} /\ l.seen = {}
  BY DEF Idle
<1> HIDE DEF l
<1>3. /\ s \in Procs /\ proc[s].op = "idle" /\ Become(s, l) /\ WriteInventory(s, i, new)
      /\ UNCHANGED <<now, requestVars, itemVars, invoices>>
  BY DEF Procs, RestockInventory, l
<1>4. proc'[s] = l
  BY <1>1, <1>3, BecomeType DEF Inv
<1>5. /\ \A j \in Inventories : invLock[j] # s
      /\ invDraft[i] = inv[i] /\ invDraft[i] \in StoreInventoryRow
  BY <1>3, NothingBooked DEF Inv, TypeOK, Booked, WriteInventory, FreeFor
<1>6. /\ new.stock = inv[i].stock + qty /\ new.restocked = inv[i].restocked + qty
      /\ new.reserved = inv[i].reserved /\ new.sold = inv[i].sold
  BY <1>5 DEF LogRestock, Restock, StoreInventoryRow
<1>7. new \in StoreInventoryRow
  BY <1>5, RowTypes, QuantitiesAreIntegers
<1> HIDE DEF new
<1>8. invDraft'[i] = new /\ inv' = inv
  BY <1>3 DEF WriteInventory, Inv, TypeOK
<1>9. Booking(s, i)'
  BY <1>2, <1>4, <1>6, <1>8 DEF Booking
<1>10. WellFormed(s)'
  BY <1>2, <1>4 DEF WellFormed
<1> QED
  BY <1>1, <1>3, <1>5, <1>7, <1>9, <1>10, WriteStep

-----------------------------------------------------------------------------
(* The steps of addItem *)

\* addItem finds the cart of the user, or none.
LEMMA FindLatestActiveRequestStep ==
  ASSUME Inv, NEW s \in Sessions, FindLatestActiveRequest(s)
  PROVE  Inv'
<1>1. s \in Procs /\ proc[s] \in Locals /\ proc[s].op = "add" /\ proc[s].at = "find" /\ WellFormed(s)
  BY DEF Procs, FindLatestActiveRequest, At, Inv, TypeOK
<1>2. PICK r \in Requests \cup {0} : Become(s, [proc[s] EXCEPT !.at = "open", !.req = r, !.until = now + Window])
  BY DEF FindLatestActiveRequest
<1> DEFINE l == [proc[s] EXCEPT !.at = "open", !.req = r, !.until = now + Window]
<1>3. l \in Locals
  <2>1. [proc[s] EXCEPT !.at = "open"] \in Locals
    BY <1>1, LocalUpdates DEF Steps
  <2>2. [[proc[s] EXCEPT !.at = "open"] EXCEPT !.req = r] \in Locals
    BY <2>1, LocalUpdates
  <2>3. now + Window \in Times
    BY BoundsAssumption DEF Inv, TypeOK, Times
  <2> QED
    BY <2>2, <2>3, LocalUpdates
<1>4. /\ l.op = "add" /\ l.at = "open" /\ l.inv = proc[s].inv /\ l.qty = proc[s].qty
      /\ l.todo = proc[s].todo /\ l.seen = proc[s].seen
  BY <1>1 DEF Locals
<1> HIDE DEF l
<1>5. proc'[s] = l /\ Become(s, l)
  BY <1>1, <1>2, <1>3, BecomeType DEF Inv, l
<1>6. UNCHANGED <<now, inventoryVars, requestVars, itemVars, invoices>>
  BY DEF FindLatestActiveRequest
<1>7. Present' = Present
  BY <1>6, SameTables
<1>8. WellFormed(s)'
  BY <1>1, <1>4, <1>5, <1>7 DEF WellFormed
<1> QED
  BY <1>1, <1>3, <1>5, <1>6, <1>8, NothingBooked, QuietStep

\* addItem opens a cart.
LEMMA CreateRequestStep ==
  ASSUME Inv, NEW s \in Sessions, CreateRequest(s)
  PROVE  Inv'
<1>1. s \in Procs /\ proc[s] \in Locals /\ proc[s].op = "add" /\ proc[s].at = "open" /\ WellFormed(s)
  BY DEF Procs, CreateRequest, At, Inv, TypeOK
<1>2. CASE lastReq + 1 \in Requests
  <2> DEFINE l == [proc[s] EXCEPT !.at = "reserve", !.req = lastReq + 1]
  <2>1. l \in Locals
    <3>1. [proc[s] EXCEPT !.at = "reserve"] \in Locals
      BY <1>1, LocalUpdates DEF Steps
    <3> QED
      BY <3>1, <1>2, LocalUpdates
  <2>2. /\ l.op = "add" /\ l.at = "reserve" /\ l.inv = proc[s].inv /\ l.qty = proc[s].qty
        /\ l.req = lastReq + 1 /\ l.todo = proc[s].todo /\ l.seen = proc[s].seen
    BY <1>1 DEF Locals
  <2> HIDE DEF l
  <2>3. /\ lastReq' = lastReq + 1 /\ reqLock' = [reqLock EXCEPT ![lastReq + 1] = s] /\ Become(s, l)
        /\ UNCHANGED <<now, inventoryVars, req, itemVars, invoices>>
    BY <1>2 DEF CreateRequest, l
  <2>4. proc'[s] = l
    BY <1>1, <2>1, <2>3, BecomeType DEF Inv
  <2>5. TablesOK' /\ Present' = Present
    BY <1>1, <1>2, <2>3 DEF TablesOK, Present, Inv, TypeOK, itemVars
  <2>6. WellFormed(s)'
    BY <1>1, <1>2, <2>2, <2>4, <2>5 DEF WellFormed
  <2> QED
    BY <1>1, <2>1, <2>3, <2>5, <2>6, NothingBooked, TableStep
<1>3. CASE lastReq + 1 \notin Requests
  BY <1>1, <1>3, ThrowStep DEF CreateRequest
<1> QED
  BY <1>2, <1>3

\* A step that only moves to another step, and may lock rows.
LEMMA GotoState ==
  ASSUME Inv, NEW p \in Procs, NEW at \in Steps, Goto(p, at)
  PROVE  \E l \in Locals : /\ Become(p, l) /\ proc'[p] = l /\ l.at = at
                           /\ l.op = proc[p].op /\ l.inv = proc[p].inv /\ l.qty = proc[p].qty
                           /\ l.req = proc[p].req /\ l.item = proc[p].item
                           /\ l.todo = proc[p].todo /\ l.seen = proc[p].seen
<1> DEFINE l == [proc[p] EXCEPT !.at = at]
<1>1. proc[p] \in Locals
  BY DEF Inv, TypeOK
<1>2. l \in Locals
  BY <1>1, LocalUpdates
<1>3. /\ l.at = at /\ l.op = proc[p].op /\ l.inv = proc[p].inv /\ l.qty = proc[p].qty
      /\ l.req = proc[p].req /\ l.item = proc[p].item /\ l.todo = proc[p].todo /\ l.seen = proc[p].seen
  BY <1>1 DEF Locals
<1> HIDE DEF l
<1>4. Become(p, l)
  BY DEF Goto, l
<1>5. proc'[p] = l
  BY <1>2, <1>4, BecomeType DEF Inv
<1> QED
  BY <1>2, <1>3, <1>4, <1>5

\* addItem extends the cart it found.
LEMMA TouchRequestExpiryStep ==
  ASSUME Inv, NEW s \in Sessions, TouchRequestExpiry(s)
  PROVE  Inv'
<1>1. /\ s \in Procs /\ proc[s] \in Locals /\ proc[s].op = "add" /\ proc[s].at = "open" /\ WellFormed(s)
      /\ proc[s].req \in Requests
  BY DEF Procs, TouchRequestExpiry, At, Inv, TypeOK, Locals
<1>2. /\ reqLock' = [reqLock EXCEPT ![proc[s].req] = s] /\ Goto(s, "reserve")
      /\ UNCHANGED <<now, inventoryVars, req, lastReq, itemVars, invoices>>
  BY DEF TouchRequestExpiry
<1>3. PICK l \in Locals : /\ Become(s, l) /\ proc'[s] = l /\ l.at = "reserve"
                          /\ l.op = proc[s].op /\ l.inv = proc[s].inv /\ l.qty = proc[s].qty
                          /\ l.req = proc[s].req /\ l.todo = proc[s].todo /\ l.seen = proc[s].seen
  BY <1>1, <1>2, GotoState DEF Steps
<1>4. TablesOK' /\ Present' = Present
  BY <1>1, <1>2 DEF TablesOK, Present, Inv, TypeOK, itemVars
<1>5. WellFormed(s)'
  BY <1>1, <1>3, <1>4 DEF WellFormed
<1> QED
  BY <1>1, <1>2, <1>3, <1>4, <1>5, NothingBooked, TableStep

\* addItem reserves: its booking is a reservation out of what is free.
LEMMA ReserveForItemStep ==
  ASSUME Inv, NEW s \in Sessions, ReserveForItem(s)
  PROVE  Inv'
<1> DEFINE i == proc[s].inv
           qty == proc[s].qty
           new == ReserveStock(Visible(s, i), qty)
<1>1. /\ s \in Procs /\ proc[s] \in Locals /\ proc[s].op = "add" /\ proc[s].at = "reserve" /\ WellFormed(s)
      /\ i \in Inventories /\ qty \in Quantities /\ proc[s].req \in Requests
  BY DEF Procs, ReserveForItem, At, Inv, TypeOK, WellFormed
<1>2. /\ \A j \in Inventories : invLock[j] # s
      /\ Visible(s, i) = inv[i] /\ inv[i] \in StoreInventoryRow
  BY <1>1, NothingBooked DEF Visible, Inv, TypeOK
<1>3. CASE CanReserve(Visible(s, i), qty)
  <2>1. /\ WriteInventory(s, i, new) /\ Goto(s, "finish")
        /\ UNCHANGED <<now, requestVars, itemVars, invoices>>
    BY <1>3 DEF ReserveForItem
  <2>2. PICK l \in Locals : /\ Become(s, l) /\ proc'[s] = l /\ l.at = "finish"
                            /\ l.op = proc[s].op /\ l.inv = proc[s].inv /\ l.qty = proc[s].qty
                            /\ l.req = proc[s].req /\ l.todo = proc[s].todo /\ l.seen = proc[s].seen
    BY <1>1, <2>1, GotoState DEF Steps
  <2>3. new \in StoreInventoryRow
    BY <1>1, <1>2, RowTypes, QuantitiesAreIntegers
  <2>4. /\ new.reserved = inv[i].reserved + qty /\ new.reserved <= inv[i].stock
        /\ new.stock = inv[i].stock /\ new.restocked = inv[i].restocked /\ new.sold = inv[i].sold
    <3>1. qty \in Int
      BY <1>1, QuantitiesAreIntegers
    <3>2. inv[i].stock - inv[i].reserved >= qty
      BY <1>2, <1>3 DEF CanReserve
    <3> QED
      BY <1>2, <3>1, <3>2 DEF ReserveStock, StoreInventoryRow
  <2>5. invDraft'[i] = new /\ inv' = inv
    BY <1>1, <2>1 DEF WriteInventory, Inv, TypeOK
  <2> HIDE DEF new
  <2>6. Booking(s, i)'
    BY <1>1, <2>2, <2>4, <2>5 DEF Booking
  <2>7. Present' = Present
    BY <2>1, SameTables
  <2>8. WellFormed(s)'
    BY <1>1, <2>2, <2>7 DEF WellFormed
  <2> QED
    BY <1>1, <1>2, <2>1, <2>2, <2>3, <2>6, <2>8, WriteStep
<1>4. CASE ~CanReserve(Visible(s, i), qty)
  BY <1>1, <1>4, ThrowStep DEF ReserveForItem
<1> QED
  BY <1>3, <1>4

\* The columns of a request can be set to values of their types.
LEMMA RequestUpdates ==
  ASSUME NEW row \in RequestRows
  PROVE  /\ \A x \in Statuses : [row EXCEPT !.status = x] \in RequestRows
         /\ \A x \in Times : [row EXCEPT !.until = x] \in RequestRows
         /\ \A x \in SUBSET Items : [row EXCEPT !.total = x] \in RequestRows
         /\ \A x \in Statuses : [row EXCEPT !.status = x, !.total = {}] \in RequestRows
<1>1. \A x \in Statuses : [row EXCEPT !.status = x] \in RequestRows
  BY DEF RequestRows
<1>2. \A x \in Times : [row EXCEPT !.until = x] \in RequestRows
  BY DEF RequestRows
<1>3. ASSUME NEW any \in RequestRows, NEW x \in SUBSET Items
      PROVE  [any EXCEPT !.total = x] \in RequestRows
  BY DEF RequestRows
<1>4. ASSUME NEW x \in Statuses
      PROVE  [row EXCEPT !.status = x, !.total = {}] \in RequestRows
  <2>1. [row EXCEPT !.status = x] \in RequestRows
    BY <1>1
  <2> QED
    BY <2>1, <1>3
<1> QED
  BY <1>1, <1>2, <1>3, <1>4

\* A handler that ends leaves an idle session.
LEMMA BecomeIdle ==
  ASSUME Inv, NEW p \in Procs, Become(p, Idle)
  PROVE  WellFormed(p)'
<1>1. proc'[p] = Idle
  BY IdleType, BecomeType DEF Inv
<1> QED
  BY <1>1 DEF WellFormed, Idle

\* addItem creates its item and commits.
LEMMA CreateItemStep ==
  ASSUME Inv, NEW s \in Sessions, CreateItem(s)
  PROVE  Inv'
<1> DEFINE r == proc[s].req
<1>1. /\ s \in Procs /\ proc[s] \in Locals /\ WellFormed(s)
      /\ r \in Requests /\ proc[s].inv \in Inventories /\ proc[s].qty \in Quantities
  BY DEF Procs, CreateItem, At, Inv, TypeOK, WellFormed
<1>2. CASE UnusedItems = {}
  BY <1>1, <1>2, ThrowStep DEF CreateItem
<1>3. CASE UnusedItems # {}
  <2>1. PICK k \in UnusedItems :
          /\ item' = [item EXCEPT ![k] = [state |-> "live", req |-> r, inv |-> proc[s].inv, qty |-> proc[s].qty]]
          /\ req' = [req EXCEPT ![r] = [RequestRow(s) EXCEPT !.total = TotalWith(r, k)]]
          /\ reqLock' = Unlock(reqLock, {s}) /\ CommitInventories(s) /\ Become(s, Idle)
          /\ UNCHANGED <<now, lastReq, itemLock, invoices>>
    BY <1>3 DEF CreateItem
  <2>2. k \in Items
    BY DEF UnusedItems
  <2>3. [RequestRow(s) EXCEPT !.total = TotalWith(r, k)] \in RequestRows
    <3>1. proc[s].until \in Times /\ proc[s].user \in Users \cup {None}
      BY <1>1 DEF Locals
    <3>2. NewRequest(s) \in RequestRows
      BY <1>1, <3>1 DEF NewRequest, RequestRows, Statuses
    <3>3. TouchedRow(s) \in RequestRows
      BY <1>1, <3>1, RequestUpdates DEF TouchedRow, Inv, TypeOK
    <3>4. TotalWith(r, k) \in SUBSET Items
      BY <2>2 DEF TotalWith, LiveItems
    <3> QED
      BY <3>2, <3>3, <3>4, RequestUpdates DEF RequestRow
  <2>4. req' \in [Requests -> RequestRows]
    BY <1>1, <2>1, <2>3 DEF Inv, TypeOK
  <2>5. reqLock' \in [Requests -> Procs \cup {None}]
    BY <2>1, UnlockType DEF Inv, TypeOK
  <2>6. item' \in [Items -> ItemRows \cup {NoItem}]
    <3>1. [state |-> "live", req |-> r, inv |-> proc[s].inv, qty |-> proc[s].qty] \in ItemRows
      BY <1>1 DEF ItemRows
    <3> QED
      BY <2>1, <3>1 DEF Inv, TypeOK
  <2>7. TablesOK'
    BY <2>1, <2>4, <2>5, <2>6 DEF Inv, TypeOK, TablesOK
  <2>8. Present \subseteq Present'
    BY <2>1, <2>2 DEF Present, Inv, TypeOK
  <2>9. WellFormed(s)'
    BY <1>1, <2>1, BecomeIdle
  <2> QED
    BY <1>1, <2>1, <2>7, <2>8, <2>9, IdleType, CommitStep
<1> QED
  BY <1>2, <1>3

-----------------------------------------------------------------------------
(* The steps of removeItem *)

\* removeItem deletes its item, or fails.
LEMMA DeleteItemForOpenRequestStep ==
  ASSUME Inv, NEW s \in Sessions, DeleteItemForOpenRequest(s)
  PROVE  Inv'
<1> DEFINE k == proc[s].item
<1>1. /\ s \in Procs /\ proc[s] \in Locals /\ proc[s].op = "remove" /\ proc[s].at = "delete" /\ WellFormed(s)
      /\ proc[s].req \in Requests /\ k \in Present /\ k \in Items
  BY DEF Procs, DeleteItemForOpenRequest, At, Inv, TypeOK, WellFormed, Present
<1>2. CASE item[k].state = "live" /\ IsOpen(proc[s].req)
  <2>1. /\ itemLock' = [itemLock EXCEPT ![k] = s] /\ Goto(s, "release")
        /\ UNCHANGED <<now, inventoryVars, requestVars, item, invoices>>
    BY <1>2 DEF DeleteItemForOpenRequest
  <2>2. PICK l \in Locals : /\ Become(s, l) /\ proc'[s] = l /\ l.at = "release"
                            /\ l.op = proc[s].op /\ l.req = proc[s].req /\ l.item = k
                            /\ l.todo = proc[s].todo /\ l.seen = proc[s].seen
    BY <1>1, <2>1, GotoState DEF Steps
  <2>3. TablesOK' /\ Present' = Present
    BY <1>1, <2>1 DEF TablesOK, Present, Inv, TypeOK, requestVars
  <2>4. WellFormed(s)'
    BY <1>1, <2>2, <2>3 DEF WellFormed
  <2> QED
    BY <1>1, <2>1, <2>2, <2>3, <2>4, NothingBooked, TableStep
<1>3. CASE ~(item[k].state = "live" /\ IsOpen(proc[s].req))
  BY <1>1, <1>3, ThrowStep DEF DeleteItemForOpenRequest
<1> QED
  BY <1>2, <1>3

\* removeItem counts what is left.
LEMMA CountItemsStep ==
  ASSUME Inv, NEW s \in Sessions, CountItems(s)
  PROVE  Inv'
<1> DEFINE at == IF Remaining(s) = {} THEN "cancel" ELSE "sum"
<1>1. /\ s \in Procs /\ proc[s] \in Locals /\ proc[s].op = "remove" /\ proc[s].at = "count" /\ WellFormed(s)
  BY DEF Procs, CountItems, At, Inv, TypeOK
<1>2. at \in Steps /\ Goto(s, at) /\ UNCHANGED <<now, inventoryVars, requestVars, itemVars, invoices>>
  BY DEF CountItems, Steps
<1>3. PICK l \in Locals : /\ Become(s, l) /\ proc'[s] = l /\ l.at = at
                          /\ l.op = proc[s].op /\ l.req = proc[s].req /\ l.item = proc[s].item
                          /\ l.todo = proc[s].todo /\ l.seen = proc[s].seen
  BY <1>1, <1>2, GotoState
<1>4. Present' = Present
  BY <1>2, SameTables
<1>5. WellFormed(s)'
  BY <1>1, <1>3, <1>4 DEF WellFormed
<1>6. ASSUME NEW i \in Inventories, invLock[i] = s
      PROVE  Booking(s, i)'
  <2>1. Booking(s, i) /\ inv' = inv /\ invDraft' = invDraft
    BY <1>1, <1>2, <1>6 DEF Inv, Booked, inventoryVars
  <2> QED
    BY <1>1, <1>3, <2>1 DEF Booking
<1> QED
  BY <1>1, <1>2, <1>3, <1>5, <1>6, QuietStep

\* removeItem adds up what is left.
LEMMA SumItemsStep ==
  ASSUME Inv, NEW s \in Sessions, SumItems(s)
  PROVE  Inv'
<1> DEFINE l == [proc[s] EXCEPT !.at = "finish", !.total = Remaining(s)]
<1>1. /\ s \in Procs /\ proc[s] \in Locals /\ proc[s].op = "remove" /\ proc[s].at = "sum" /\ WellFormed(s)
  BY DEF Procs, SumItems, At, Inv, TypeOK
<1>2. l \in Locals
  <2>1. [proc[s] EXCEPT !.at = "finish"] \in Locals
    BY <1>1, LocalUpdates DEF Steps
  <2>2. Remaining(s) \in SUBSET Items
    BY DEF Remaining, LiveItems
  <2> QED
    BY <2>1, <2>2, LocalUpdates
<1>3. /\ l.at = "finish" /\ l.op = proc[s].op /\ l.req = proc[s].req /\ l.item = proc[s].item
      /\ l.todo = proc[s].todo /\ l.seen = proc[s].seen
  BY <1>1 DEF Locals
<1> HIDE DEF l
<1>4. Become(s, l) /\ UNCHANGED <<now, inventoryVars, requestVars, itemVars, invoices>>
  BY DEF SumItems, l
<1>5. proc'[s] = l /\ Present' = Present
  BY <1>1, <1>2, <1>4, BecomeType, SameTables DEF Inv
<1>6. WellFormed(s)'
  BY <1>1, <1>3, <1>5 DEF WellFormed
<1>7. ASSUME NEW i \in Inventories, invLock[i] = s
      PROVE  Booking(s, i)'
  <2>1. Booking(s, i) /\ inv' = inv /\ invDraft' = invDraft
    BY <1>1, <1>4, <1>7 DEF Inv, Booked, inventoryVars
  <2> QED
    BY <1>1, <1>3, <1>5, <2>1 DEF Booking
<1> QED
  BY <1>1, <1>2, <1>4, <1>6, <1>7, QuietStep

\* What CommitRequest writes has its type.
LEMMA CommitRequestTypes ==
  ASSUME Inv, NEW p \in Procs, proc[p].req \in Requests, NEW row \in RequestRows, CommitRequest(p, row)
  PROVE  /\ req' \in [Requests -> RequestRows] /\ reqLock' \in [Requests -> Procs \cup {None}]
         /\ CommitInventories(p) /\ UNCHANGED <<now, lastReq>>
  BY UnlockType DEF CommitRequest, Inv, TypeOK

\* What the commit of removeItem writes has its type.
LEMMA DeleteItemTypes ==
  ASSUME Inv, NEW s \in Procs, proc[s].item \in Present, DeleteItem(s)
  PROVE  /\ item' \in [Items -> ItemRows \cup {NoItem}] /\ itemLock' \in [Items -> Procs \cup {None}]
         /\ Present \subseteq Present' /\ Become(s, Idle) /\ UNCHANGED invoices
<1> DEFINE k == proc[s].item
<1>1. k \in Items /\ item \in [Items -> ItemRows \cup {NoItem}] /\ item[k] \in ItemRows
  BY DEF Inv, TypeOK, Present, NoItem
<1>2. item' = [item EXCEPT ![k] = [item[k] EXCEPT !.state = "deleted"]]
  BY DEF DeleteItem
<1>3. [item[k] EXCEPT !.state = "deleted"] \in ItemRows
  BY <1>1 DEF ItemRows
<1>4. [item[k] EXCEPT !.state = "deleted"].state = "deleted"
  BY <1>1 DEF ItemRows
<1>5. item' \in [Items -> ItemRows \cup {NoItem}]
  BY <1>1, <1>2, <1>3
<1>6. Present \subseteq Present'
  BY <1>1, <1>2, <1>4 DEF Present
<1>7. itemLock' \in [Items -> Procs \cup {None}] /\ Become(s, Idle) /\ UNCHANGED invoices
  BY UnlockType DEF DeleteItem, Inv, TypeOK
<1> QED
  BY <1>5, <1>6, <1>7

\* removeItem stores the new total and commits.
LEMMA SetTotalStep ==
  ASSUME Inv, NEW s \in Sessions, SetTotal(s)
  PROVE  Inv'
<1> DEFINE row == [req[proc[s].req] EXCEPT !.total = proc[s].total]
<1>1. /\ s \in Procs /\ proc[s] \in Locals /\ proc[s].req \in Requests /\ proc[s].item \in Present
      /\ CommitRequest(s, row) /\ DeleteItem(s)
  BY DEF Procs, SetTotal, At, Inv, TypeOK, WellFormed
<1>2. row \in RequestRows
  BY <1>1, RequestUpdates DEF Inv, TypeOK, Locals
<1> HIDE DEF row
<1>3. TablesOK' /\ CommitInventories(s) /\ Become(s, Idle) /\ Present \subseteq Present'
  BY <1>1, <1>2, CommitRequestTypes, DeleteItemTypes DEF TablesOK, Inv, TypeOK
<1> QED
  BY <1>1, <1>3, BecomeIdle, IdleType, CommitStep

\* Closing a request keeps its type.
LEMMA ClosedType ==
  ASSUME Inv, NEW r \in Requests, NEW status \in Statuses
  PROVE  Closed(r, status) \in RequestRows
  BY RequestUpdates DEF Closed, Inv, TypeOK

\* removeItem cancels an empty cart and commits.
LEMMA CancelEmptyRequestStep ==
  ASSUME Inv, NEW s \in Sessions, CancelEmptyRequest(s)
  PROVE  Inv'
<1>1. /\ s \in Procs /\ proc[s] \in Locals /\ proc[s].req \in Requests /\ proc[s].item \in Present
      /\ CommitRequest(s, Closed(proc[s].req, "cancelled")) /\ DeleteItem(s)
  BY DEF Procs, CancelEmptyRequest, At, Inv, TypeOK, WellFormed
<1>2. Closed(proc[s].req, "cancelled") \in RequestRows
  BY <1>1, ClosedType DEF Statuses
<1>3. TablesOK' /\ CommitInventories(s) /\ Become(s, Idle) /\ Present \subseteq Present'
  BY <1>1, <1>2, CommitRequestTypes, DeleteItemTypes DEF TablesOK, Inv, TypeOK
<1> QED
  BY <1>1, <1>3, BecomeIdle, IdleType, CommitStep

-----------------------------------------------------------------------------
(* The loops over the items of a request *)

\* An item that is present has an inventory and a quantity.
LEMMA PresentItems ==
  ASSUME Inv, NEW k \in Present
  PROVE  k \in Items /\ item[k].inv \in Inventories /\ item[k].qty \in Quantities
  BY DEF Inv, TypeOK, Present, ItemRows, NoItem

\* A step that enters or goes on with a loop over the items K.
LEMMA NextItemState ==
  ASSUME Inv, NEW p \in Procs, NEW m \in Locals, NEW K \in SUBSET Present, NEW at \in Steps,
         NEW l \in NextItem(m, K, at), Become(p, l),
         UNCHANGED item, m.seen \subseteq Present,
         \/ at = "release" /\ m.op \in {"cancel", "expire"}
         \/ at = "consume" /\ m.op = "confirm",
         m.req \in Requests
  PROVE  /\ l \in Locals /\ proc'[p] = l /\ WellFormed(p)' /\ Present' = Present
         /\ l.op = m.op /\ l.at \in {at, "finish"}
<1>1. K \in SUBSET Items
  BY DEF Present
<1>2. /\ l \in Locals /\ l.op = m.op /\ l.inv = m.inv /\ l.qty = m.qty /\ l.req = m.req /\ l.seen = m.seen
      /\ \/ l.at = "finish" /\ l.todo = {}
         \/ l.at = at /\ l.item \in K /\ l.todo \subseteq K
  BY <1>1, NextItemType
<1>3. proc'[p] = l
  BY <1>2, BecomeType DEF Inv
<1>4. Present' = Present
  BY DEF Present
<1>5. WellFormed(p)'
  BY <1>2, <1>3, <1>4 DEF WellFormed
<1> QED
  BY <1>2, <1>3, <1>4, <1>5

\* The version of a row a process sees is a row, and the process's own booking if it has one.
LEMMA VisibleType ==
  ASSUME Inv, NEW p \in Procs, NEW i \in Inventories
  PROVE  /\ Visible(p, i) \in StoreInventoryRow
         /\ invLock[i] = p => Visible(p, i) = invDraft[i] /\ Booking(p, i)
         /\ invLock[i] # p => Visible(p, i) = inv[i]
  BY DEF Visible, Inv, TypeOK, Booked

\* One more release in a transaction that only releases is still a booking of that kind.
LEMMA ReleaseBooking ==
  ASSUME Inv, NEW p \in Procs, NEW i \in Inventories, NEW qty \in Quantities,
         proc[p].op \in {"remove", "cancel", "expire"},
         CanRelease(Visible(p, i), qty)
  PROVE  LET new == ReleaseReservedStock(Visible(p, i), qty) IN
         /\ new \in StoreInventoryRow
         /\ 0 <= new.reserved /\ new.reserved <= inv[i].reserved
         /\ new.stock = inv[i].stock /\ new.restocked = inv[i].restocked /\ new.sold = inv[i].sold
<1> DEFINE row == Visible(p, i)
           new == ReleaseReservedStock(row, qty)
<1>1. qty \in Int /\ qty > 0
  BY QuantitiesAreIntegers
<1>2. row \in StoreInventoryRow /\ inv[i] \in StoreInventoryRow
  BY VisibleType DEF Inv, TypeOK
<1>3. /\ 0 <= row.reserved /\ row.reserved <= inv[i].reserved
      /\ row.stock = inv[i].stock /\ row.restocked = inv[i].restocked /\ row.sold = inv[i].sold
  <2>1. CASE invLock[i] = p
    BY <2>1, VisibleType DEF Booking
  <2>2. CASE invLock[i] # p
    <3>1. 0 <= inv[i].reserved /\ inv[i].reserved \in Int
      BY <1>2 DEF Inv, NoOversell, StoreInventoryRow
    <3> QED
      BY <2>2, <3>1, VisibleType
  <2> QED
    BY <2>1, <2>2
<1>4. row.reserved >= qty
  BY DEF CanRelease
<1> HIDE DEF row
<1>5. /\ new.reserved = row.reserved - qty
      /\ new.stock = row.stock /\ new.restocked = row.restocked /\ new.sold = row.sold
  BY <1>2 DEF ReleaseReservedStock, StoreInventoryRow
<1>6. new \in StoreInventoryRow
  BY <1>1, <1>2, RowTypes
<1>7. row.reserved \in Int /\ inv[i].reserved \in Int
  BY <1>2 DEF StoreInventoryRow
<1>8. 0 <= new.reserved /\ new.reserved <= inv[i].reserved
  BY <1>1, <1>3, <1>4, <1>5, <1>7
<1> QED
  BY <1>3, <1>5, <1>6, <1>8 DEF row

\* A release in removeItem, cancel or the expiry pass.
LEMMA ReleaseForItemStep ==
  ASSUME Inv, NEW p \in Procs, ReleaseForItem(p)
  PROVE  Inv'
<1> DEFINE k == proc[p].item
<1>1. /\ proc[p] \in Locals /\ proc[p].at = "release" /\ proc[p].op \in {"remove", "cancel", "expire"}
      /\ WellFormed(p) /\ proc[p].req \in Requests /\ k \in Present
  BY DEF ReleaseForItem, Inv, TypeOK, WellFormed
<1>2. PICK i \in Inventories, qty \in Quantities : i = item[k].inv /\ qty = item[k].qty
  BY <1>1, PresentItems
<1>3. CASE CanRelease(Visible(p, i), qty)
  <2>1. PICK l \in IF proc[p].op = "remove" THEN {[proc[p] EXCEPT !.at = "count"]}
                   ELSE NextItem(proc[p], proc[p].todo, "release") : Become(p, l)
    BY <1>2, <1>3 DEF ReleaseForItem
  <2>2. PICK new : /\ new = ReleaseReservedStock(Visible(p, i), qty)
                   /\ WriteInventory(p, i, new) /\ UNCHANGED <<now, requestVars, itemVars, invoices>>
    BY <1>2, <1>3 DEF ReleaseForItem
  <2>3. Present' = Present /\ item' = item
    BY <2>2, SameTables DEF itemVars
  <2>4. l \in Locals /\ proc'[p] = l /\ WellFormed(p)' /\ l.op = proc[p].op
        /\ l.at \in {"release", "count", "finish"}
    <3>1. CASE proc[p].op = "remove"
      <4>1. Goto(p, "count")
        BY <2>1, <3>1 DEF Goto
      <4>2. PICK m \in Locals : /\ Become(p, m) /\ proc'[p] = m /\ m.at = "count"
                                /\ m.op = proc[p].op /\ m.req = proc[p].req /\ m.item = proc[p].item
                                /\ m.todo = proc[p].todo /\ m.seen = proc[p].seen
        BY <1>1, <4>1, GotoState DEF Steps
      <4>3. l \in Locals
        <5>1. [proc[p] EXCEPT !.at = "count"] \in Locals
          BY <1>1, LocalUpdates DEF Steps
        <5> QED
          BY <2>1, <3>1, <5>1
      <4>4. l = m
        BY <2>1, <4>2, <4>3, BecomeType DEF Inv
      <4>5. WellFormed(p)'
        BY <1>1, <2>3, <3>1, <4>2 DEF WellFormed
      <4> QED
        BY <4>2, <4>4, <4>5
    <3>2. CASE proc[p].op # "remove"
      <4>1. l \in NextItem(proc[p], proc[p].todo, "release")
        BY <2>1, <3>2
      <4>2. proc[p].todo \in SUBSET Present /\ proc[p].seen \subseteq Present
        BY <1>1 DEF WellFormed
      <4>3. "release" \in Steps /\ proc[p].op \in {"cancel", "expire"}
        BY <1>1, <3>2 DEF Steps
      <4> QED
        BY <1>1, <2>1, <2>3, <4>1, <4>2, <4>3, NextItemState
    <3> QED
      BY <3>1, <3>2
  <2>5. /\ new \in StoreInventoryRow
        /\ 0 <= new.reserved /\ new.reserved <= inv[i].reserved
        /\ new.stock = inv[i].stock /\ new.restocked = inv[i].restocked /\ new.sold = inv[i].sold
    BY <1>1, <1>3, <2>2, ReleaseBooking
  <2>6. /\ inv' = inv /\ invDraft'[i] = new
        /\ \A j \in Inventories \ {i} : invDraft'[j] = invDraft[j]
    BY <2>2 DEF WriteInventory, Inv, TypeOK
  <2>7. Booking(p, i)'
    BY <1>1, <2>4, <2>5, <2>6 DEF Booking
  <2>8. ASSUME NEW j \in Inventories \ {i}, invLock[j] = p
        PROVE  Booking(p, j)'
    <3>1. Booking(p, j)
      BY <2>8 DEF Inv, Booked
    <3> QED
      BY <1>1, <2>4, <2>6, <3>1 DEF Booking
  <2> QED
    BY <2>1, <2>2, <2>4, <2>5, <2>7, <2>8, WriteStep
<1>4. CASE ~CanRelease(Visible(p, i), qty)
  BY <1>2, <1>4, ThrowStep DEF ReleaseForItem
<1> QED
  BY <1>3, <1>4

-----------------------------------------------------------------------------
(* The steps of cancel *)

\* cancel lists the items to release.
LEMMA ListItemsToCancelStep ==
  ASSUME Inv, NEW s \in Sessions, ListItemsToCancel(s)
  PROVE  Inv'
<1>1. /\ s \in Procs /\ proc[s] \in Locals /\ proc[s].op = "cancel" /\ proc[s].at = "list" /\ WellFormed(s)
      /\ proc[s].req \in Requests /\ proc[s].seen \subseteq Present
  BY DEF Procs, ListItemsToCancel, At, Inv, TypeOK, WellFormed
<1>2. UNCHANGED <<now, inventoryVars, requestVars, itemVars, invoices>>
  BY DEF ListItemsToCancel
<1> DEFINE K == LiveItems(proc[s].req)
           m == [proc[s] EXCEPT !.seen = K]
<1>3. PICK l \in NextItem(m, K, "release") : Become(s, l)
  BY DEF ListItemsToCancel
<1>4. K \in SUBSET Present /\ K \in SUBSET Items
  BY LiveItemsArePresent
<1>5. m \in Locals /\ m.op = "cancel" /\ m.req \in Requests /\ m.seen = K
  <2> HIDE DEF K
  <2>1. m \in Locals
    BY <1>1, <1>4, LocalUpdates
  <2>2. m.op = "cancel" /\ m.req \in Requests /\ m.seen = K
    BY <1>1 DEF Locals
  <2> QED
    BY <2>1, <2>2
<1>6. l \in Locals /\ WellFormed(s)'
  <2> HIDE DEF m, K
  <2> QED
    BY <1>1, <1>2, <1>3, <1>4, <1>5, NextItemState DEF Steps, itemVars
<1> HIDE DEF m
<1> QED
  BY <1>1, <1>2, <1>3, <1>6, NothingBooked, QuietStep

\* cancel closes its request and commits.
LEMMA SetRequestCancelledStep ==
  ASSUME Inv, NEW s \in Sessions, SetRequestCancelled(s)
  PROVE  Inv'
<1>1. /\ s \in Procs /\ proc[s].req \in Requests
      /\ CommitRequest(s, Closed(proc[s].req, "cancelled")) /\ Become(s, Idle)
      /\ UNCHANGED <<item, itemLock, invoices>>
  BY DEF Procs, SetRequestCancelled, At, Inv, WellFormed, itemVars
<1>2. Closed(proc[s].req, "cancelled") \in RequestRows
  BY <1>1, ClosedType DEF Statuses
<1>3. TablesOK' /\ CommitInventories(s) /\ Present \subseteq Present'
  BY <1>1, <1>2, CommitRequestTypes DEF TablesOK, Inv, TypeOK, Present
<1> QED
  BY <1>1, <1>3, BecomeIdle, IdleType, CommitStep

-----------------------------------------------------------------------------
(* The steps of confirm *)

\* confirm lists the items to sell.
LEMMA ListItemsToSellStep ==
  ASSUME Inv, NEW s \in Sessions, ListItemsToSell(s)
  PROVE  Inv'
<1> DEFINE K == LiveItems(proc[s].req)
           m == [proc[s] EXCEPT !.at = "invoice", !.seen = K]
           l == IF K = {} THEN Idle ELSE m
<1>1. /\ s \in Procs /\ proc[s] \in Locals /\ proc[s].op = "confirm" /\ proc[s].at = "list" /\ WellFormed(s)
      /\ proc[s].req \in Requests
  BY DEF Procs, ListItemsToSell, At, Inv, TypeOK, WellFormed
<1>2. UNCHANGED <<now, inventoryVars, requestVars, itemVars, invoices>> /\ Become(s, l)
  BY DEF ListItemsToSell
<1>3. K \subseteq Present /\ K \in SUBSET Items
  BY LiveItemsArePresent
<1>4. m \in Locals
  <2>1. [proc[s] EXCEPT !.at = "invoice"] \in Locals
    BY <1>1, LocalUpdates DEF Steps
  <2> QED
    BY <2>1, <1>3, LocalUpdates
<1>5. m.op = "confirm" /\ m.at = "invoice" /\ m.req = proc[s].req /\ m.todo = proc[s].todo /\ m.seen = K
  BY <1>1 DEF Locals
<1>6. l \in Locals
  BY <1>4, IdleType
<1>7. WellFormed(s)'
  <2>1. CASE K = {}
    BY <1>1, <1>2, <2>1, BecomeIdle
  <2>2. CASE K # {}
    <3>1. proc'[s] = m /\ Present' = Present
      BY <1>1, <1>2, <1>4, <2>2, BecomeType, SameTables DEF Inv
    <3> QED
      BY <1>1, <1>3, <1>5, <3>1 DEF WellFormed
  <2> QED
    BY <2>1, <2>2
<1> QED
  BY <1>1, <1>2, <1>6, <1>7, NothingBooked, QuietStep

\* confirm creates the invoice.
LEMMA CreateInvoiceStep ==
  ASSUME Inv, NEW s \in Sessions, CreateInvoice(s)
  PROVE  Inv'
<1>1. /\ s \in Procs /\ proc[s] \in Locals /\ proc[s].op = "confirm" /\ proc[s].at = "invoice" /\ WellFormed(s)
      /\ proc[s].req \in Requests /\ proc[s].seen \in SUBSET Present
  BY DEF Procs, CreateInvoice, At, Inv, TypeOK, WellFormed
<1>2. CASE Throw(s)
  BY <1>1, <1>2, ThrowStep
<1>3. CASE ~Throw(s)
  <2>1. UNCHANGED <<now, inventoryVars, requestVars, itemVars, invoices>>
    BY <1>3 DEF CreateInvoice
  <2>2. PICK l \in NextItem(proc[s], proc[s].seen, "consume") : Become(s, l)
    BY <1>3 DEF CreateInvoice
  <2>3. l \in Locals /\ WellFormed(s)'
    BY <1>1, <2>1, <2>2, NextItemState DEF Steps, itemVars
  <2> QED
    BY <1>1, <2>1, <2>2, <2>3, NothingBooked, QuietStep
<1> QED
  BY <1>2, <1>3

\* One more sale in a transaction that only sells is still a booking of that kind.
LEMMA SaleBooking ==
  ASSUME Inv, NEW p \in Procs, NEW i \in Inventories, NEW qty \in Quantities,
         proc[p].op = "confirm", CanConsume(Visible(p, i), qty)
  PROVE  LET new == LogSale(ConsumeReservedStock(Visible(p, i), qty), qty) IN
         /\ new \in StoreInventoryRow
         /\ new.sold >= inv[i].sold /\ new.reserved >= 0
         /\ new.stock = inv[i].stock - (new.sold - inv[i].sold)
         /\ new.reserved = inv[i].reserved - (new.sold - inv[i].sold)
         /\ new.restocked = inv[i].restocked
<1> DEFINE row == Visible(p, i)
           new == LogSale(ConsumeReservedStock(row, qty), qty)
<1>1. qty \in Int /\ qty > 0
  BY QuantitiesAreIntegers
<1>2. row \in StoreInventoryRow /\ inv[i] \in StoreInventoryRow
  BY VisibleType DEF Inv, TypeOK
<1>3. /\ row.stock \in Int /\ row.reserved \in Int /\ row.sold \in Int
      /\ inv[i].stock \in Int /\ inv[i].reserved \in Int /\ inv[i].sold \in Int
  BY <1>2 DEF StoreInventoryRow
<1>4. /\ row.sold >= inv[i].sold
      /\ row.stock = inv[i].stock - (row.sold - inv[i].sold)
      /\ row.reserved = inv[i].reserved - (row.sold - inv[i].sold)
      /\ row.restocked = inv[i].restocked
  <2>1. CASE invLock[i] = p
    BY <2>1, VisibleType DEF Booking
  <2>2. CASE invLock[i] # p
    <3>1. row = inv[i]
      BY <2>2, VisibleType
    <3> HIDE DEF row
    <3> QED
      BY <1>3, <3>1
  <2> QED
    BY <2>1, <2>2
<1>5. row.reserved >= qty
  BY DEF CanConsume
<1> HIDE DEF row
<1>6. /\ new.stock = row.stock - qty /\ new.reserved = row.reserved - qty
      /\ new.sold = row.sold + qty /\ new.restocked = row.restocked
  BY <1>2 DEF LogSale, ConsumeReservedStock, StoreInventoryRow
<1>7. new \in StoreInventoryRow
  BY <1>1, <1>2, RowTypes
<1> HIDE DEF new
<1>8. new.sold >= inv[i].sold /\ new.reserved >= 0
  BY <1>1, <1>3, <1>4, <1>5, <1>6
<1>9. /\ new.stock = inv[i].stock - (new.sold - inv[i].sold)
      /\ new.reserved = inv[i].reserved - (new.sold - inv[i].sold)
  BY <1>1, <1>3, <1>4, <1>6
<1> QED
  BY <1>4, <1>6, <1>7, <1>8, <1>9 DEF new, row

\* confirm sells an item: one more row, or one more time of the same row.
LEMMA SellItemStep ==
  ASSUME Inv, NEW s \in Sessions, SellItem(s)
  PROVE  Inv'
<1> DEFINE k == proc[s].item
<1>1. /\ s \in Procs /\ proc[s] \in Locals /\ proc[s].at = "consume" /\ proc[s].op = "confirm"
      /\ WellFormed(s) /\ proc[s].req \in Requests /\ k \in Present
      /\ proc[s].todo \in SUBSET Present /\ proc[s].seen \subseteq Present
  BY DEF Procs, SellItem, At, Inv, TypeOK, WellFormed
<1>2. PICK i \in Inventories, qty \in Quantities : i = item[k].inv /\ qty = item[k].qty
  BY <1>1, PresentItems
<1>3. CASE CanConsume(Visible(s, i), qty)
  <2>1. PICK l \in NextItem(proc[s], proc[s].todo, "consume") : Become(s, l)
    BY <1>2, <1>3 DEF SellItem
  <2>2. PICK new : /\ new = LogSale(ConsumeReservedStock(Visible(s, i), qty), qty)
                   /\ WriteInventory(s, i, new) /\ UNCHANGED <<now, requestVars, itemVars, invoices>>
    BY <1>2, <1>3 DEF SellItem
  <2>3. item' = item
    BY <2>2 DEF itemVars
  <2>4. l \in Locals /\ proc'[s] = l /\ WellFormed(s)' /\ l.op = "confirm" /\ l.at \in {"consume", "finish"}
    BY <1>1, <2>1, <2>3, NextItemState DEF Steps
  <2>5. /\ new \in StoreInventoryRow
        /\ new.sold >= inv[i].sold /\ new.reserved >= 0
        /\ new.stock = inv[i].stock - (new.sold - inv[i].sold)
        /\ new.reserved = inv[i].reserved - (new.sold - inv[i].sold)
        /\ new.restocked = inv[i].restocked
    BY <1>1, <1>3, <2>2, SaleBooking
  <2>6. /\ inv' = inv /\ invDraft'[i] = new
        /\ \A j \in Inventories \ {i} : invDraft'[j] = invDraft[j]
    BY <2>2 DEF WriteInventory, Inv, TypeOK
  <2>7. Booking(s, i)'
    BY <2>4, <2>5, <2>6 DEF Booking
  <2>8. ASSUME NEW j \in Inventories \ {i}, invLock[j] = s
        PROVE  Booking(s, j)'
    <3>1. Booking(s, j)
      BY <1>1, <2>8 DEF Inv, Booked
    <3> QED
      BY <1>1, <2>4, <2>6, <3>1 DEF Booking
  <2> QED
    BY <1>1, <2>1, <2>2, <2>4, <2>5, <2>7, <2>8, WriteStep
<1>4. CASE ~CanConsume(Visible(s, i), qty)
  BY <1>1, <1>2, <1>4, ThrowStep DEF SellItem
<1> QED
  BY <1>3, <1>4

\* confirm closes its request and commits.
LEMMA SetRequestConfirmedStep ==
  ASSUME Inv, NEW s \in Sessions, SetRequestConfirmed(s)
  PROVE  Inv'
<1> DEFINE r == proc[s].req
           row == [req[r] EXCEPT !.status = "confirmed"]
           invoice == [total |-> proc[s].total, lines |-> proc[s].seen]
<1>1. /\ s \in Procs /\ proc[s] \in Locals /\ r \in Requests
      /\ CommitRequest(s, row) /\ Become(s, Idle)
      /\ invoices' = [invoices EXCEPT ![r] = Append(invoices[r], invoice)]
      /\ UNCHANGED <<item, itemLock>>
  BY DEF Procs, SetRequestConfirmed, At, Inv, TypeOK, WellFormed, itemVars
<1>2. row \in RequestRows
  BY <1>1, RequestUpdates DEF Inv, TypeOK, Statuses
<1>3. invoice \in Invoices
  BY <1>1 DEF Invoices, Locals
<1> HIDE DEF invoice
<1>4. invoices' \in [Requests -> Seq(Invoices)]
  <2>1. invoices[r] \in Seq(Invoices)
    BY <1>1 DEF Inv, TypeOK
  <2>2. Append(invoices[r], invoice) \in Seq(Invoices)
    BY <1>3, <2>1
  <2> QED
    BY <1>1, <2>2 DEF Inv, TypeOK
<1> HIDE DEF row
<1>5. TablesOK' /\ CommitInventories(s) /\ Present \subseteq Present'
  BY <1>1, <1>2, <1>4, CommitRequestTypes DEF TablesOK, Inv, TypeOK, Present
<1> QED
  BY <1>1, <1>5, BecomeIdle, IdleType, CommitStep

-----------------------------------------------------------------------------
(* The steps of the expiry pass, of restock, and of the environment *)

\* What is left of a pass is a local state that has no request at hand.
LEMMA PassType ==
  ASSUME NEW batch \in SUBSET Requests
  PROVE  /\ Pass(batch) \in Locals
         /\ Pass(batch).op \in {"idle", "expire"} /\ Pass(batch).at \in {"idle", "next"}
         /\ Pass(batch).op = "expire" => Pass(batch).at = "next"
         /\ Pass(batch).todo = {} /\ Pass(batch).seen = {}
<1> DEFINE l == [Idle EXCEPT !.op = "expire", !.at = "next", !.batch = batch]
<1>1. l \in Locals
  <2>1. [Idle EXCEPT !.op = "expire", !.at = "next"] \in Locals
    BY StartTypes DEF Steps
  <2> QED
    BY <2>1, LocalUpdates
<1>2. l.op = "expire" /\ l.at = "next" /\ l.todo = {} /\ l.seen = {}
  BY DEF Idle
<1>3. Idle.op = "idle" /\ Idle.at = "idle" /\ Idle.todo = {} /\ Idle.seen = {}
  BY DEF Idle
<1>4. Pass(batch) = Idle \/ Pass(batch) = l
  BY DEF Pass
<1> HIDE DEF l
<1> QED
  BY <1>1, <1>2, <1>3, <1>4, IdleType

\* A worker that goes on with its pass, or ends it, is well-formed.
LEMMA BecomePass ==
  ASSUME Inv, NEW p \in Procs, NEW batch \in SUBSET Requests, Become(p, Pass(batch))
  PROVE  WellFormed(p)'
<1>1. proc'[p] = Pass(batch)
  BY PassType, BecomeType DEF Inv
<1> QED
  BY <1>1, PassType DEF WellFormed

\* The timer starts a pass.
LEMMA ExpireOpenPurchaseRequestsStep ==
  ASSUME Inv, NEW w \in Workers, ExpireOpenPurchaseRequests(w)
  PROVE  Inv'
<1> DEFINE batch == {r \in Requests : IsOverdue(r)}
<1>1. w \in Procs /\ Start(w, Pass(batch)) /\ Become(w, Pass(batch)) /\ batch \in SUBSET Requests
  BY DEF Procs, ExpireOpenPurchaseRequests, Start
<1> HIDE DEF batch
<1>2. PICK b \in SUBSET Requests : b = batch
  BY <1>1
<1>3. Start(w, Pass(b)) /\ Become(w, Pass(b))
  BY <1>1, <1>2
<1>4. WellFormed(w)'
  BY <1>1, <1>3, BecomePass
<1> QED
  BY <1>1, <1>3, <1>4, PassType, StartStep

\* The pass locks the next overdue request, or skips it.
LEMMA LockExpiredRequestStep ==
  ASSUME Inv, NEW w \in Workers, LockExpiredRequest(w)
  PROVE  Inv'
<1>1. /\ w \in Procs /\ proc[w] \in Locals /\ proc[w].op = "expire" /\ proc[w].at = "next" /\ WellFormed(w)
      /\ proc[w].batch \in SUBSET Requests
      /\ UNCHANGED <<now, inv, invDraft, invLock, req, lastReq, item, itemLock, invoices>>
  BY DEF Procs, LockExpiredRequest, At, Inv, TypeOK, Locals, inventoryVars, itemVars
<1>2. PICK r \in proc[w].batch :
        LET rest == [proc[w] EXCEPT !.batch = @ \ {r}, !.req = r, !.seen = LiveItems(r)] IN
          IF IsOverdue(r) /\ ~SkipLocked(r)
          THEN /\ reqLock' = [reqLock EXCEPT ![r] = w]
               /\ \E l \in NextItem(rest, LiveItems(r), "release") : Become(w, l)
          ELSE /\ Become(w, Pass(rest.batch))
               /\ UNCHANGED reqLock
  BY DEF LockExpiredRequest
<1> DEFINE K == LiveItems(r)
           rest == [proc[w] EXCEPT !.batch = proc[w].batch \ {r}, !.req = r, !.seen = K]
<1>3. r \in Requests
  BY <1>1, <1>2
<1>4. rest \in Locals
  <2>1. [proc[w] EXCEPT !.batch = proc[w].batch \ {r}] \in Locals
    BY <1>1, LocalUpdates
  <2>2. [[proc[w] EXCEPT !.batch = proc[w].batch \ {r}] EXCEPT !.req = r] \in Locals
    BY <2>1, <1>3, LocalUpdates
  <2>3. K \in SUBSET Items
    BY LiveItemsArePresent
  <2> HIDE DEF K
  <2> QED
    BY <2>2, <2>3, LocalUpdates
<1>5. rest.op = "expire" /\ rest.req = r /\ rest.seen = K /\ rest.batch \in SUBSET Requests
  <2> HIDE DEF K
  <2> QED
    BY <1>1 DEF Locals
<1>6. CASE IsOverdue(r) /\ ~SkipLocked(r)
  <2>1. PICK l \in NextItem(rest, LiveItems(r), "release") : Become(w, l)
    BY <1>2, <1>6
  <2>2. rest.seen \subseteq Present
    BY <1>5, LiveItemsArePresent
  <2>3. l \in Locals /\ WellFormed(w)' /\ Present' = Present
    <3> HIDE DEF rest
    <3> QED
      BY <1>1, <1>3, <1>4, <1>5, <2>1, <2>2, LiveItemsArePresent, NextItemState DEF Steps
  <2>4. TablesOK'
    BY <1>1, <1>2, <1>3, <1>6 DEF TablesOK, Inv, TypeOK
  <2> QED
    BY <1>1, <2>1, <2>3, <2>4, NothingBooked, TableStep DEF inventoryVars
<1>7. CASE ~(IsOverdue(r) /\ ~SkipLocked(r))
  <2>1. PICK b \in SUBSET Requests : b = rest.batch
    BY <1>5
  <2>2. Become(w, Pass(b)) /\ UNCHANGED reqLock
    BY <1>2, <1>7, <2>1
  <2>3. WellFormed(w)'
    BY <1>1, <2>2, BecomePass
  <2> QED
    BY <1>1, <2>2, <2>3, PassType, NothingBooked, QuietStep DEF inventoryVars, requestVars, itemVars
<1> QED
  BY <1>6, <1>7

\* The pass closes a request and commits.
LEMMA SetRequestExpiredStep ==
  ASSUME Inv, NEW w \in Workers, SetRequestExpired(w)
  PROVE  Inv'
<1>1. /\ w \in Procs /\ proc[w] \in Locals /\ proc[w].req \in Requests /\ proc[w].batch \in SUBSET Requests
      /\ CommitRequest(w, Closed(proc[w].req, "expired")) /\ Become(w, Pass(proc[w].batch))
      /\ UNCHANGED <<item, itemLock, invoices>>
  BY DEF Procs, SetRequestExpired, At, Inv, TypeOK, WellFormed, itemVars, Locals
<1>2. PICK b \in SUBSET Requests : b = proc[w].batch
  BY <1>1
<1>3. Closed(proc[w].req, "expired") \in RequestRows
  BY <1>1, ClosedType DEF Statuses
<1>4. TablesOK' /\ CommitInventories(w) /\ Present \subseteq Present'
  BY <1>1, <1>3, CommitRequestTypes DEF TablesOK, Inv, TypeOK, Present
<1>5. Become(w, Pass(b)) /\ WellFormed(w)'
  BY <1>1, <1>2, BecomePass
<1> QED
  BY <1>1, <1>4, <1>5, PassType, CommitStep

\* restock commits.
LEMMA CommitRestockStep ==
  ASSUME Inv, NEW s \in Sessions, CommitRestock(s)
  PROVE  Inv'
<1>1. /\ s \in Procs /\ CommitInventories(s) /\ Become(s, Idle)
      /\ UNCHANGED <<now, requestVars, itemVars, invoices>>
  BY DEF Procs, CommitRestock
<1>2. TablesOK' /\ Present' = Present
  BY <1>1, SameTables
<1> QED
  BY <1>1, <1>2, BecomeIdle, IdleType, CommitStep

\* Time passes.
LEMMA TickStep ==
  ASSUME Inv, Tick
  PROVE  Inv'
<1>1. /\ now' = now + 1 /\ now < MaxTime
      /\ UNCHANGED <<inv, invDraft, invLock, req, reqLock, lastReq, item, itemLock, invoices, proc, crossed, hurried>>
  BY DEF Tick, inventoryVars, requestVars, itemVars, historyVars
<1>2. now' \in 0..MaxTime
  BY <1>1, BoundsAssumption DEF Inv, TypeOK
<1>3. TypeOK'
  BY <1>1, <1>2 DEF Inv, TypeOK
<1>4. \A p \in Procs : WellFormed(p)'
  BY <1>1 DEF Inv, WellFormed, Present
<1>5. \A i \in Inventories : Booked(i)'
  BY <1>1 DEF Inv, Booked, Booking
<1> QED
  BY <1>1, <1>3, <1>4, <1>5 DEF Inv, NoOversell, StockMatchesLedger

\* Nothing happens.
LEMMA StutterStep ==
  ASSUME Inv, UNCHANGED vars
  PROVE  Inv'
<1>1. UNCHANGED <<now, inv, invDraft, invLock, req, reqLock, lastReq, item, itemLock, invoices, proc, crossed, hurried>>
  BY DEF vars, inventoryVars, requestVars, itemVars, historyVars
<1>2. TypeOK'
  BY <1>1 DEF Inv, TypeOK
<1>3. \A p \in Procs : WellFormed(p)'
  BY <1>1 DEF Inv, WellFormed, Present
<1>4. \A i \in Inventories : Booked(i)'
  BY <1>1 DEF Inv, Booked, Booking
<1> QED
  BY <1>1, <1>2, <1>3, <1>4 DEF Inv, NoOversell, StockMatchesLedger

-----------------------------------------------------------------------------
(* The invariant *)

\* The tables as they are created satisfy the invariant.
LEMMA InitInv == Init => Inv
<1> SUFFICES ASSUME Init
             PROVE  Inv
  OBVIOUS
<1>1. /\ now = 0 /\ lastReq = 0 /\ inv = [i \in Inventories |-> NewRow(InitStock[i])] /\ invDraft = inv
      /\ invLock = [i \in Inventories |-> None] /\ req = [r \in Requests |-> NoRequest]
      /\ reqLock = [r \in Requests |-> None] /\ item = [k \in Items |-> NoItem]
      /\ itemLock = [k \in Items |-> None] /\ invoices = [r \in Requests |-> <<>>]
      /\ proc = [p \in Procs |-> Idle] /\ crossed = {} /\ hurried = {}
  BY DEF Init
<1>2. \A i \in Inventories : InitStock[i] \in Nat
  BY InventoriesAssumption
<1>3. TypeOK
  <2>1. \A i \in Inventories : NewRow(InitStock[i]) \in StoreInventoryRow
    BY <1>2 DEF NewRow, StoreInventoryRow
  <2>2. NoRequest \in RequestRows
    BY BoundsAssumption DEF NoRequest, RequestRows, Statuses, Times
  <2>3. <<>> \in Seq(Invoices)
    OBVIOUS
  <2>4. now \in 0..MaxTime
    BY <1>1, BoundsAssumption
  <2> QED
    BY <1>1, <2>1, <2>2, <2>3, <2>4, IdleType DEF TypeOK
<1>4. \A p \in Procs : WellFormed(p)
  BY <1>1 DEF WellFormed, Idle
<1>5. \A i \in Inventories : Booked(i)
  BY <1>1, ProcsAssumption DEF Booked
<1>6. NoOversell /\ StockMatchesLedger
  BY <1>1, <1>2 DEF NoOversell, StockMatchesLedger, NewRow
<1> QED
  BY <1>3, <1>4, <1>5, <1>6 DEF Inv

\* Every step keeps the invariant.
LEMMA NextInv == Inv /\ [Next]_vars => Inv'
<1> SUFFICES ASSUME Inv, [Next]_vars
             PROVE  Inv'
  OBVIOUS
<1>1. ASSUME NEW s \in Sessions, StartHandler(s)
      PROVE  Inv'
  BY <1>1, AddItemStep, RemoveItemStep, ConfirmStep, CancelStep, RestockInventoryStep DEF StartHandler
<1>2. ASSUME NEW s \in Sessions, HandlerStep(s)
      PROVE  Inv'
  <2>1. s \in Procs
    BY DEF Procs
  <2>2. CASE \/ FindLatestActiveRequest(s) \/ CreateRequest(s) \/ TouchRequestExpiry(s)
             \/ ReserveForItem(s) \/ CreateItem(s)
    BY <2>2, FindLatestActiveRequestStep, CreateRequestStep, TouchRequestExpiryStep, ReserveForItemStep,
       CreateItemStep
  <2>3. CASE \/ DeleteItemForOpenRequest(s) \/ CountItems(s) \/ SumItems(s) \/ SetTotal(s)
             \/ CancelEmptyRequest(s)
    BY <2>3, DeleteItemForOpenRequestStep, CountItemsStep, SumItemsStep, SetTotalStep, CancelEmptyRequestStep
  <2>4. CASE ListItemsToCancel(s) \/ SetRequestCancelled(s) \/ CommitRestock(s) \/ ReleaseForItem(s)
    BY <2>1, <2>4, ListItemsToCancelStep, SetRequestCancelledStep, CommitRestockStep, ReleaseForItemStep
  <2>5. CASE ListItemsToSell(s) \/ CreateInvoice(s) \/ SellItem(s) \/ SetRequestConfirmed(s)
    BY <2>5, ListItemsToSellStep, CreateInvoiceStep, SellItemStep, SetRequestConfirmedStep
  <2> QED
    BY <1>2, <2>2, <2>3, <2>4, <2>5 DEF HandlerStep
<1>3. ASSUME NEW w \in Workers, ExpireOpenPurchaseRequests(w) \/ WorkerStep(w)
      PROVE  Inv'
  <2>1. w \in Procs
    BY DEF Procs
  <2> QED
    BY <1>3, <2>1, ExpireOpenPurchaseRequestsStep, LockExpiredRequestStep, ReleaseForItemStep,
       SetRequestExpiredStep DEF WorkerStep
<1>4. ASSUME NEW w \in Workers, Crash(w)
      PROVE  Inv'
  BY <1>4, AbortStep DEF Crash, InstanceOf, Procs
<1>5. ASSUME NEW p \in Procs, DeadlockDetected(p)
      PROVE  Inv'
  BY <1>5, ThrowStep DEF DeadlockDetected
<1> QED
  BY <1>1, <1>2, <1>3, <1>4, <1>5, TickStep, StutterStep DEF Next

\* The invariant holds in every state PurchaseRequestsService and the expiry timer can reach.
THEOREM Invariance == Spec => []Inv
  BY InitInv, NextInv, PTL DEF Spec

-----------------------------------------------------------------------------
(* What it implies *)

\* Every table row, lock and handler keeps its type, through every interleaving, failure
\* and crash of the handlers of PurchaseRequestsService.
THEOREM TypeCorrect == Spec => []TypeOK
<1>1. Inv => TypeOK
  BY DEF Inv
<1> QED
  BY <1>1, Invariance, PTL

\* reserveStock, releaseReservedStock, consumeReservedStock and restock never leave a
\* negative reservation or one above the stock, however their transactions interleave.
THEOREM NeverOversold == Spec => []NoOversell
<1>1. Inv => NoOversell
  BY DEF Inv
<1> QED
  BY <1>1, Invariance, PTL

\* The committed stock is what the ledger of store_inventory_transactions adds up to.
THEOREM LedgerIsComplete == Spec => []StockMatchesLedger
<1>1. Inv => StockMatchesLedger
  BY DEF Inv
<1> QED
  BY <1>1, Invariance, PTL
=============================================================================
