------------------------- MODULE PurchaseRequestsLocks -------------------------
(***************************************************************************)
(* What the locks of requests secure: a request that an expiry pass has    *)
(* locked stays as it was found, open and overdue, until the pass closes   *)
(* it.  The UPDATE that closes it tests neither.  And, from how the status *)
(* of a request may change: no request is both expired and sold.           *)
(***************************************************************************)
EXTENDS PurchaseRequestsProofs

\* addItem holds the cart it opened or touched, and a pass the request it found overdue.
Holds(p) ==
    /\ proc[p].req <= lastReq
    /\ proc[p].op = "add" /\ proc[p].at \in {"reserve", "finish"} => reqLock[proc[p].req] = p
    /\ proc[p].op = "expire" /\ proc[p].at \in {"release", "finish"} =>
         reqLock[proc[p].req] = p /\ IsOverdue(proc[p].req)

\* Ids the sequence has not reached are neither rows nor locked.
Fresh(r) == r > lastReq => req[r].status = "absent" /\ reqLock[r] = None

LockInv == (\A p \in Procs : Holds(p)) /\ (\A r \in Requests : Fresh(r))

-----------------------------------------------------------------------------
(* How a step may touch requests *)

\* The types the following proofs need.
LEMMA RequestTypes ==
  ASSUME Inv
  PROVE  /\ lastReq \in Int /\ Requests \subseteq Int /\ now \in Int
         /\ reqLock \in [Requests -> Procs \cup {None}] /\ None \notin Procs
         /\ \A r \in Requests : req[r].status \in Statuses /\ req[r].until \in Int
         /\ \A p \in Procs : proc[p] \in Locals /\ proc[p].req \in Int
<1>1. \A r \in Requests : req[r] \in RequestRows
  BY DEF Inv, TypeOK
<1>2. \A r \in Requests : req[r].status \in Statuses /\ req[r].until \in Int
  BY <1>1, BoundsAssumption DEF RequestRows, Times
<1>3. \A p \in Procs : proc[p] \in Locals
  BY DEF Inv, TypeOK
<1>4. \A p \in Procs : proc[p].req \in Int
  BY <1>3 DEF Locals, Requests
<1>5. lastReq \in Int /\ Requests \subseteq Int /\ now \in Int
  BY BoundsAssumption DEF Inv, TypeOK, Requests
<1> QED
  BY <1>2, <1>3, <1>4, <1>5, ProcsAssumption DEF Inv, TypeOK

\* A step of p that leaves alone what others hold, and what is not a row yet.
LEMMA LockStep ==
  ASSUME Inv, LockInv, NEW p \in Procs, NEW l, Become(p, l), now' = now,
         lastReq' \in Int, lastReq' >= lastReq,
         \A r \in Requests : reqLock[r] \in Procs \ {p} => reqLock'[r] = reqLock[r] /\ req'[r] = req[r],
         \A r \in Requests : r > lastReq' => reqLock'[r] = reqLock[r] /\ req'[r] = req[r],
         Holds(p)'
  PROVE  LockInv'
<1>1. ASSUME NEW q \in Procs, q # p
      PROVE  Holds(q)'
  <2>1. proc'[q] = proc[q] /\ Holds(q) /\ WellFormed(q)
    BY <1>1 DEF Become, Inv, TypeOK, LockInv
  <2>2. proc[q].req <= lastReq'
    BY <2>1, RequestTypes DEF Holds
  <2>3. ASSUME proc[q].op = "add", proc[q].at \in {"reserve", "finish"}
        PROVE  reqLock'[proc[q].req] = q
    <3>1. proc[q].req \in Requests /\ reqLock[proc[q].req] = q
      BY <2>1, <2>3 DEF Holds, WellFormed
    <3> QED
      BY <1>1, <3>1
  <2>4. ASSUME proc[q].op = "expire", proc[q].at \in {"release", "finish"}
        PROVE  reqLock'[proc[q].req] = q /\ IsOverdue(proc[q].req)'
    <3>1. proc[q].req \in Requests /\ reqLock[proc[q].req] = q /\ IsOverdue(proc[q].req)
      BY <2>1, <2>4 DEF Holds, WellFormed
    <3>2. reqLock'[proc[q].req] = q /\ req'[proc[q].req] = req[proc[q].req]
      BY <1>1, <3>1
    <3> QED
      BY <2>1, <3>1, <3>2 DEF IsOverdue
  <2> QED
    BY <2>1, <2>2, <2>3, <2>4 DEF Holds
<1>2. ASSUME NEW r \in Requests
      PROVE  Fresh(r)'
  <2>1. r > lastReq' => r > lastReq
    BY RequestTypes
  <2> QED
    BY <2>1 DEF LockInv, Fresh
<1> QED
  BY <1>1, <1>2 DEF LockInv

\* A step that changes no request and no lock of one.
LEMMA LockQuiet ==
  ASSUME Inv, LockInv, NEW p \in Procs, NEW l, Become(p, l), UNCHANGED <<now, req, reqLock, lastReq>>,
         l.req <= lastReq,
         l.op = "add" /\ l.at \in {"reserve", "finish"} => reqLock[l.req] = p,
         l.op = "expire" /\ l.at \in {"release", "finish"} => reqLock[l.req] = p /\ IsOverdue(l.req)
  PROVE  LockInv'
<1>1. proc'[p] = l
  BY DEF Become, Inv, TypeOK
<1>2. Holds(p)'
  BY <1>1 DEF Holds, IsOverdue
<1>3. lastReq' \in Int /\ lastReq' >= lastReq
  BY RequestTypes
<1> QED
  BY <1>2, <1>3, LockStep

\* A handler that starts holds nothing yet, and works on a request that exists, if any.
LEMMA LockStart ==
  ASSUME Inv, LockInv, NEW p \in Procs, NEW l, Become(p, l), UNCHANGED requestVars, now' = now,
         l.op \in {"add", "remove", "cancel", "confirm", "restock", "idle", "expire"},
         l.op = "add" => l.at = "find", l.op = "expire" => l.at = "next",
         \/ l.req = 0
         \/ l.req \in Requests /\ IsOpen(l.req)
  PROVE  LockInv'
<1>1. UNCHANGED <<now, req, reqLock, lastReq>>
  BY DEF requestVars
<1>2. l.req <= lastReq
  <2>1. CASE l.req = 0
    <3>1. lastReq >= 0
      BY BoundsAssumption DEF Inv, TypeOK, Requests
    <3> QED
      BY <2>1, <3>1
  <2>2. CASE l.req \in Requests /\ IsOpen(l.req)
    BY <2>2, RequestTypes DEF LockInv, Fresh, IsOpen
  <2> QED
    BY <2>1, <2>2
<1> QED
  BY <1>1, <1>2, LockQuiet

\* An idle process, or one between two requests of its pass, holds nothing.
LEMMA LockRest ==
  ASSUME Inv, NEW p \in Procs, NEW l, Become(p, l), l.req = 0, lastReq' >= 0, lastReq' \in Int,
         l.op = "idle" \/ (l.op = "expire" /\ l.at = "next")
  PROVE  Holds(p)'
<1>1. proc'[p] = l
  BY DEF Become, Inv, TypeOK
<1> QED
  BY <1>1 DEF Holds

\* The end of a transaction that wrote the request it works on.
LEMMA LockCommit ==
  ASSUME Inv, LockInv, NEW p \in Procs, NEW row, NEW l, Become(p, l),
         proc[p].req \in Requests, FreeFor(p, reqLock[proc[p].req]),
         req' = [req EXCEPT ![proc[p].req] = row], reqLock' = Unlock(reqLock, {p}),
         UNCHANGED <<now, lastReq>>, l.req = 0,
         l.op = "idle" \/ (l.op = "expire" /\ l.at = "next")
  PROVE  LockInv'
<1>1. proc[p].req <= lastReq /\ lastReq >= 0 /\ lastReq \in Int
  BY RequestTypes, BoundsAssumption DEF LockInv, Holds, Inv, TypeOK, Requests
<1>2. Holds(p)'
  BY <1>1, LockRest
<1>3. ASSUME NEW r \in Requests, reqLock[r] \in Procs \ {p}
      PROVE  reqLock'[r] = reqLock[r] /\ req'[r] = req[r]
  <2>1. r # proc[p].req
    BY <1>3, RequestTypes DEF FreeFor
  <2>2. reqLock'[r] = reqLock[r]
    BY <1>3, RequestTypes DEF Unlock
  <2>3. req'[r] = req[r]
    BY <2>1 DEF Inv, TypeOK
  <2> QED
    BY <2>2, <2>3
<1>4. ASSUME NEW r \in Requests, r > lastReq'
      PROVE  reqLock'[r] = reqLock[r] /\ req'[r] = req[r]
  <2>1. r # proc[p].req /\ reqLock[r] = None
    BY <1>1, <1>4, RequestTypes DEF LockInv, Fresh
  <2>2. reqLock'[r] = reqLock[r]
    BY <2>1, RequestTypes DEF Unlock
  <2>3. req'[r] = req[r]
    BY <2>1 DEF Inv, TypeOK
  <2> QED
    BY <2>2, <2>3
<1> QED
  BY <1>1, <1>2, <1>3, <1>4, LockStep

\* ROLLBACK, of a handler or of an instance, gives up locks and changes no request.
LEMMA LockAbort ==
  ASSUME Inv, LockInv, NEW P \in SUBSET Procs, Abort(P)
  PROVE  LockInv'
<1>1. /\ reqLock' = Unlock(reqLock, P) /\ proc' = [p \in Procs |-> IF p \in P THEN Idle ELSE proc[p]]
      /\ UNCHANGED <<now, req, lastReq>>
  BY DEF Abort
<1>2. ASSUME NEW p \in Procs
      PROVE  Holds(p)'
  <2>1. CASE p \in P
    <3>1. proc'[p].op = "idle" /\ proc'[p].req = 0
      BY <1>1, <2>1 DEF Idle
    <3>2. lastReq' >= 0
      BY <1>1, BoundsAssumption DEF Inv, TypeOK, Requests
    <3> QED
      BY <3>1, <3>2 DEF Holds
  <2>2. CASE p \notin P
    <3>1. proc'[p] = proc[p] /\ Holds(p) /\ WellFormed(p)
      BY <1>1, <2>2 DEF LockInv, Inv
    <3>2. \A r \in Requests : reqLock[r] = p => reqLock'[r] = p
      BY <1>1, <2>2, RequestTypes DEF Unlock
    <3>3. proc[p].op = "add" /\ proc[p].at \in {"reserve", "finish"} => proc[p].req \in Requests
      BY <3>1 DEF WellFormed
    <3>4. proc[p].op = "expire" /\ proc[p].at \in {"release", "finish"} => proc[p].req \in Requests
      BY <3>1 DEF WellFormed
    <3> QED
      BY <1>1, <3>1, <3>2, <3>3, <3>4 DEF Holds, IsOverdue
  <2> QED
    BY <2>1, <2>2
<1>3. ASSUME NEW r \in Requests
      PROVE  Fresh(r)'
  BY <1>1, RequestTypes DEF LockInv, Fresh, Unlock
<1> QED
  BY <1>2, <1>3 DEF LockInv

\* An exception gives up the locks of its handler, or of its instance.
LEMMA LockThrow ==
  ASSUME Inv, LockInv, NEW p \in Procs, Throw(p)
  PROVE  LockInv'
  BY LockAbort DEF Throw, InstanceOf, Procs

-----------------------------------------------------------------------------
(* The actions *)

\* The start of a handler or of a pass.
LEMMA StartLocks ==
  ASSUME Inv, LockInv, NEW s \in Sessions, StartHandler(s)
  PROVE  LockInv'
<1>1. s \in Procs
  BY DEF Procs
<1>2. ASSUME NEW u \in Users, NEW i \in Inventories, NEW qty \in Quantities, AddItem(s, u, i, qty)
      PROVE  LockInv'
  <2> DEFINE l == [Idle EXCEPT !.op = "add", !.at = "find", !.user = u, !.inv = i, !.qty = qty, !.until = now]
  <2>1. Become(s, l) /\ UNCHANGED requestVars /\ now' = now
    BY <1>2 DEF AddItem, Start
  <2>2. l.op = "add" /\ l.at = "find" /\ l.req = 0
    BY DEF Idle
  <2> HIDE DEF l
  <2> QED
    BY <1>1, <2>1, <2>2, LockStart
<1>3. ASSUME NEW k \in Items, RemoveItem(s, k)
      PROVE  LockInv'
  <2> DEFINE l == [Idle EXCEPT !.op = "remove", !.at = "delete", !.item = k, !.req = item[k].req]
  <2>1. Become(s, l) /\ UNCHANGED requestVars /\ now' = now
    BY <1>3 DEF RemoveItem, Start
  <2>2. l.op = "remove" /\ l.req = item[k].req
    BY DEF Idle
  <2>3. item[k].req \in Requests /\ IsOpen(item[k].req)
    BY <1>3 DEF RemoveItem, Inv, TypeOK, ItemRows, NoItem
  <2> HIDE DEF l
  <2> QED
    BY <1>1, <2>1, <2>2, <2>3, LockStart
<1>4. ASSUME NEW r \in Requests, Cancel(s, r)
      PROVE  LockInv'
  <2> DEFINE l == [Idle EXCEPT !.op = "cancel", !.at = "list", !.req = r]
  <2>1. Become(s, l) /\ UNCHANGED requestVars /\ now' = now /\ IsOpen(r)
    BY <1>4 DEF Cancel, Start
  <2>2. l.op = "cancel" /\ l.req = r
    BY DEF Idle
  <2> HIDE DEF l
  <2> QED
    BY <1>1, <2>1, <2>2, LockStart
<1>5. ASSUME NEW r \in Requests, Confirm(s, r)
      PROVE  LockInv'
  <2> DEFINE l == [Idle EXCEPT !.op = "confirm", !.at = "list", !.req = r, !.total = req[r].total]
  <2>1. Become(s, l) /\ UNCHANGED requestVars /\ now' = now /\ IsOpen(r)
    BY <1>5 DEF Confirm, Start, IsActive, IsOpen
  <2>2. l.op = "confirm" /\ l.req = r
    BY DEF Idle
  <2> HIDE DEF l
  <2> QED
    BY <1>1, <2>1, <2>2, LockStart
<1>6. ASSUME NEW i \in Inventories, NEW qty \in Quantities, RestockInventory(s, i, qty)
      PROVE  LockInv'
  <2> DEFINE l == [Idle EXCEPT !.op = "restock", !.at = "finish", !.inv = i, !.qty = qty]
  <2>1. Become(s, l) /\ UNCHANGED requestVars /\ now' = now
    BY <1>6 DEF RestockInventory
  <2>2. l.op = "restock" /\ l.req = 0
    BY DEF Idle
  <2> HIDE DEF l
  <2> QED
    BY <1>1, <2>1, <2>2, LockStart
<1> QED
  BY <1>2, <1>3, <1>4, <1>5, <1>6 DEF StartHandler

\* addItem finds a cart that exists, and then locks it: a new one that is nobody's yet, or
\* an old one that is free.
LEMMA FindLocks ==
  ASSUME Inv, LockInv, NEW s \in Sessions, FindLatestActiveRequest(s)
  PROVE  LockInv'
<1>1. s \in Procs /\ proc[s] \in Locals /\ proc[s].op = "add" /\ UNCHANGED <<now, req, reqLock, lastReq>>
  BY RequestTypes DEF Procs, FindLatestActiveRequest, At, requestVars
<1>2. PICK clock \in proc[s].until..now, r \in Requests \cup {0} :
        /\ r = 0 \/ r \in ActiveRequests(proc[s].user, StoreOf[proc[s].inv], clock)
        /\ Become(s, [proc[s] EXCEPT !.at = "open", !.req = r, !.until = now + Window])
  BY DEF FindLatestActiveRequest
<1> DEFINE l == [proc[s] EXCEPT !.at = "open", !.req = r, !.until = now + Window]
<1>3. l.op = "add" /\ l.at = "open" /\ l.req = r
  BY <1>1 DEF Locals
<1>4. r <= lastReq
  <2>1. CASE r = 0
    <3>1. lastReq >= 0
      BY BoundsAssumption DEF Inv, TypeOK, Requests
    <3> QED
      BY <2>1, <3>1
  <2>2. CASE r # 0
    <3>1. r \in Requests /\ req[r].status = "new"
      BY <1>2, <2>2 DEF ActiveRequests, IsOpen
    <3> QED
      BY <3>1, RequestTypes DEF LockInv, Fresh
  <2> QED
    BY <2>1, <2>2
<1>5. Become(s, l)
  BY <1>2
<1> HIDE DEF l
<1> QED
  BY <1>1, <1>3, <1>4, <1>5, LockQuiet

\* addItem inserts a new cart, which nobody else can see or lock.
LEMMA CreateLocks ==
  ASSUME Inv, LockInv, NEW s \in Sessions, CreateRequest(s)
  PROVE  LockInv'
<1>1. s \in Procs /\ proc[s] \in Locals /\ proc[s].op = "add"
  BY RequestTypes DEF Procs, CreateRequest, At
<1>2. CASE lastReq + 1 \in Requests
  <2> DEFINE l == [proc[s] EXCEPT !.at = "reserve", !.req = lastReq + 1]
  <2>1. /\ lastReq' = lastReq + 1 /\ reqLock' = [reqLock EXCEPT ![lastReq + 1] = s] /\ Become(s, l)
        /\ UNCHANGED <<now, req>>
    BY <1>2 DEF CreateRequest
  <2>2. l.op = "add" /\ l.at = "reserve" /\ l.req = lastReq + 1
    BY <1>1 DEF Locals
  <2> HIDE DEF l
  <2>3. proc'[s] = l
    BY <1>1, <2>1 DEF Become, Inv, TypeOK
  <2>4. lastReq' \in Int /\ lastReq' >= lastReq
    BY <2>1, RequestTypes
  <2>5. Holds(s)'
    <3>1. reqLock'[lastReq + 1] = s /\ lastReq + 1 <= lastReq'
      BY <1>2, <2>1, RequestTypes
    <3> QED
      BY <2>1, <2>2, <2>3, <3>1 DEF Holds
  <2>6. \A r \in Requests : reqLock[r] \in Procs \ {s} => reqLock'[r] = reqLock[r] /\ req'[r] = req[r]
    <3>1. reqLock[lastReq + 1] = None
      BY <1>2, RequestTypes DEF LockInv, Fresh
    <3> QED
      BY <2>1, <3>1, RequestTypes
  <2>7. \A r \in Requests : r > lastReq' => reqLock'[r] = reqLock[r] /\ req'[r] = req[r]
    BY <2>1, RequestTypes
  <2> QED
    BY <1>1, <2>1, <2>4, <2>5, <2>6, <2>7, LockStep
<1>3. CASE lastReq + 1 \notin Requests
  BY <1>1, <1>3, LockThrow DEF CreateRequest
<1> QED
  BY <1>2, <1>3

\* addItem waits for the lock of the cart it found, and keeps it.
LEMMA TouchLocks ==
  ASSUME Inv, LockInv, NEW s \in Sessions, TouchRequestExpiry(s)
  PROVE  LockInv'
<1> DEFINE l == [proc[s] EXCEPT !.at = "reserve"]
<1>1. /\ s \in Procs /\ proc[s] \in Locals /\ proc[s].op = "add" /\ proc[s].req \in Requests
      /\ proc[s].req <= lastReq /\ FreeFor(s, reqLock[proc[s].req])
      /\ reqLock' = [reqLock EXCEPT ![proc[s].req] = s] /\ Become(s, l)
      /\ UNCHANGED <<now, req, lastReq>>
  BY RequestTypes DEF Procs, TouchRequestExpiry, At, Locals, Goto, LockInv, Holds
<1>2. l.op = "add" /\ l.at = "reserve" /\ l.req = proc[s].req
  BY <1>1 DEF Locals
<1> HIDE DEF l
<1>3. proc'[s] = l
  BY <1>1 DEF Become, Inv, TypeOK
<1>4. Holds(s)'
  <2>1. reqLock'[proc[s].req] = s
    BY <1>1, RequestTypes
  <2> QED
    BY <1>1, <1>2, <1>3, <2>1 DEF Holds
<1>5. \A r \in Requests : reqLock[r] \in Procs \ {s} => reqLock'[r] = reqLock[r] /\ req'[r] = req[r]
  BY <1>1, RequestTypes DEF FreeFor
<1>6. \A r \in Requests : r > lastReq' => reqLock'[r] = reqLock[r] /\ req'[r] = req[r]
  BY <1>1, RequestTypes
<1>7. lastReq' \in Int /\ lastReq' >= lastReq
  BY <1>1, RequestTypes
<1> QED
  BY <1>1, <1>4, <1>5, <1>6, <1>7, LockStep

\* addItem keeps its cart locked while it reserves.
LEMMA ReserveLocks ==
  ASSUME Inv, LockInv, NEW s \in Sessions, ReserveForItem(s)
  PROVE  LockInv'
<1> DEFINE l == [proc[s] EXCEPT !.at = "finish"]
<1>1. /\ s \in Procs /\ proc[s] \in Locals /\ proc[s].op = "add" /\ proc[s].at = "reserve" /\ Holds(s)
  BY RequestTypes DEF Procs, ReserveForItem, At, LockInv
<1>2. CASE Throw(s)
  BY <1>1, <1>2, LockThrow
<1>3. CASE ~Throw(s)
  <2>1. Become(s, l) /\ UNCHANGED <<now, req, reqLock, lastReq>>
    BY <1>3 DEF ReserveForItem, Goto, requestVars
  <2>2. l.op = "add" /\ l.at = "finish" /\ l.req = proc[s].req
    BY <1>1 DEF Locals
  <2> HIDE DEF l
  <2>3. l.req <= lastReq /\ reqLock[l.req] = s
    BY <1>1, <2>2 DEF Holds
  <2> QED
    BY <1>1, <2>1, <2>2, <2>3, LockQuiet
<1> QED
  BY <1>2, <1>3

\* addItem writes the cart it holds, and nobody else's.
LEMMA CreateItemLocks ==
  ASSUME Inv, LockInv, NEW s \in Sessions, CreateItem(s)
  PROVE  LockInv'
<1>1. /\ s \in Procs /\ proc[s].op = "add" /\ proc[s].at = "finish" /\ Holds(s) /\ proc[s].req \in Requests
  BY DEF Procs, CreateItem, At, LockInv, Inv, WellFormed
<1>2. CASE UnusedItems = {}
  BY <1>1, <1>2, LockThrow DEF CreateItem
<1>3. CASE UnusedItems # {}
  <2>1. PICK k \in UnusedItems :
          /\ req' = [req EXCEPT ![proc[s].req] = [RequestRow(s) EXCEPT !.total = TotalWith(proc[s].req, k)]]
          /\ reqLock' = Unlock(reqLock, {s}) /\ Become(s, Idle) /\ UNCHANGED <<now, lastReq>>
    BY <1>3 DEF CreateItem
  <2>2. FreeFor(s, reqLock[proc[s].req])
    BY <1>1 DEF Holds, FreeFor
  <2>3. Idle.op = "idle" /\ Idle.req = 0
    BY DEF Idle
  <2> QED
    BY <1>1, <2>1, <2>2, <2>3, LockCommit
<1> QED
  BY <1>2, <1>3

\* A handler other than addItem that goes on with its request.
LEMMA OtherHandlersLocks ==
  ASSUME Inv, LockInv, NEW p \in Procs, proc[p].op \notin {"add", "expire"}, NEW l,
         l.op = proc[p].op, l.req = proc[p].req, Become(p, l), UNCHANGED <<now, req, reqLock, lastReq>>
  PROVE  LockInv'
<1>1. l.req <= lastReq
  BY DEF LockInv, Holds
<1> QED
  BY <1>1, LockQuiet

\* The round of a loop is about the request of its handler.
LEMMA NextItemRequest ==
  ASSUME NEW m \in Locals, NEW K \in SUBSET Items, NEW at \in Steps, NEW l \in NextItem(m, K, at)
  PROVE  l.op = m.op /\ l.req = m.req /\ l.at \in {at, "finish"}
<1>1. CASE K = {}
  <2>1. l = [m EXCEPT !.at = "finish", !.item = 0, !.todo = {}]
    BY <1>1 DEF NextItem
  <2> QED
    BY <2>1 DEF Locals
<1>2. CASE K # {}
  <2>1. PICK k \in K : l = [m EXCEPT !.at = at, !.item = k, !.todo = K \ {k}]
    BY <1>2 DEF NextItem
  <2> QED
    BY <2>1 DEF Locals
<1> QED
  BY <1>1, <1>2

\* removeItem until it commits.
LEMMA RemoveLocks ==
  ASSUME Inv, LockInv, NEW s \in Sessions, DeleteItemForOpenRequest(s) \/ CountItems(s) \/ SumItems(s)
  PROVE  LockInv'
<1>1. s \in Procs /\ proc[s] \in Locals /\ proc[s].op = "remove"
  BY RequestTypes DEF Procs, DeleteItemForOpenRequest, CountItems, SumItems, At
<1>2. CASE Throw(s)
  BY <1>1, <1>2, LockThrow
<1>3. CASE ~Throw(s)
  <2>1. UNCHANGED <<now, req, reqLock, lastReq>>
    BY <1>3 DEF DeleteItemForOpenRequest, CountItems, SumItems, requestVars
  <2>2. CASE DeleteItemForOpenRequest(s) \/ CountItems(s)
    <3>1. PICK at : Become(s, [proc[s] EXCEPT !.at = at])
      BY <1>3, <2>2 DEF DeleteItemForOpenRequest, CountItems, Goto
    <3>2. [proc[s] EXCEPT !.at = at].op = proc[s].op /\ [proc[s] EXCEPT !.at = at].req = proc[s].req
      BY <1>1 DEF Locals
    <3> QED
      BY <1>1, <2>1, <3>1, <3>2, OtherHandlersLocks
  <2>3. CASE SumItems(s)
    <3> DEFINE l == [proc[s] EXCEPT !.at = "finish", !.total = Remaining(s)]
    <3>1. Become(s, l)
      BY <2>3 DEF SumItems
    <3>2. l.op = proc[s].op /\ l.req = proc[s].req
      BY <1>1 DEF Locals
    <3> HIDE DEF l
    <3> QED
      BY <1>1, <2>1, <3>1, <3>2, OtherHandlersLocks
  <2> QED
    BY <2>2, <2>3
<1> QED
  BY <1>2, <1>3

\* cancel and confirm until they commit.
LEMMA LoopLocks ==
  ASSUME Inv, LockInv, NEW s \in Sessions,
         ListItemsToCancel(s) \/ ListItemsToSell(s) \/ CreateInvoice(s) \/ SellItem(s)
  PROVE  LockInv'
<1>1. s \in Procs /\ proc[s] \in Locals /\ proc[s].op \in {"cancel", "confirm"}
  BY RequestTypes DEF Procs, ListItemsToCancel, ListItemsToSell, CreateInvoice, SellItem, At
<1>2. CASE Throw(s)
  BY <1>1, <1>2, LockThrow
<1>3. CASE ~Throw(s)
  <2>1. UNCHANGED <<now, req, reqLock, lastReq>>
    BY <1>3 DEF ListItemsToCancel, ListItemsToSell, CreateInvoice, SellItem, requestVars
  <2>2. proc[s].todo \in SUBSET Items /\ proc[s].seen \in SUBSET Items
    BY <1>1 DEF Locals
  <2>3. CASE ListItemsToCancel(s) \/ CreateInvoice(s) \/ SellItem(s)
    <3>1. PICK m \in Locals, K \in SUBSET Items, at \in Steps :
            /\ m.op = proc[s].op /\ m.req = proc[s].req
            /\ \E l \in NextItem(m, K, at) : Become(s, l)
      <4>1. LiveItems(proc[s].req) \in SUBSET Items /\ "release" \in Steps /\ "consume" \in Steps
        BY DEF LiveItems, Steps
      <4>2. CASE ListItemsToCancel(s)
        <5> DEFINE L == LiveItems(proc[s].req)
                   n == [proc[s] EXCEPT !.seen = L]
        <5>1. \E l \in NextItem(n, L, "release") : Become(s, l)
          BY <4>2 DEF ListItemsToCancel
        <5> HIDE DEF L
        <5>2. n \in Locals
          BY <1>1, <4>1, LocalUpdates DEF L
        <5>3. n.op = proc[s].op /\ n.req = proc[s].req
          BY <1>1 DEF Locals
        <5> HIDE DEF n
        <5> QED
          BY <4>1, <5>1, <5>2, <5>3 DEF L
      <4>3. CASE CreateInvoice(s)
        BY <1>1, <1>3, <2>2, <4>1, <4>3 DEF CreateInvoice
      <4>4. CASE SellItem(s)
        BY <1>1, <1>3, <2>2, <4>1, <4>4 DEF SellItem
      <4> QED
        BY <2>3, <4>2, <4>3, <4>4
    <3>2. PICK l \in NextItem(m, K, at) : Become(s, l)
      BY <3>1
    <3>3. l.op = proc[s].op /\ l.req = proc[s].req
      BY <3>1, NextItemRequest
    <3> QED
      BY <1>1, <2>1, <3>2, <3>3, OtherHandlersLocks
  <2>4. CASE ListItemsToSell(s)
    <3> DEFINE K == LiveItems(proc[s].req)
               l == [proc[s] EXCEPT !.at = "invoice", !.seen = K]
    <3>1. CASE K = {}
      <4>1. Become(s, Idle) /\ UNCHANGED requestVars /\ now' = now
        BY <2>4, <3>1 DEF ListItemsToSell
      <4>2. Idle.op = "idle" /\ Idle.req = 0
        BY DEF Idle
      <4> QED
        BY <1>1, <4>1, <4>2, LockStart
    <3>2. CASE K # {}
      <4>1. Become(s, l)
        BY <2>4, <3>2 DEF ListItemsToSell
      <4>2. l.op = proc[s].op /\ l.req = proc[s].req
        BY <1>1 DEF Locals
      <4> HIDE DEF l
      <4> QED
        BY <1>1, <2>1, <4>1, <4>2, OtherHandlersLocks
    <3> QED
      BY <3>1, <3>2
  <2> QED
    BY <2>3, <2>4
<1> QED
  BY <1>2, <1>3

\* A release, with or without a lock of the request.
LEMMA ReleaseLocks ==
  ASSUME Inv, LockInv, NEW p \in Procs, ReleaseForItem(p)
  PROVE  LockInv'
<1>1. /\ proc[p] \in Locals /\ proc[p].op \in {"remove", "cancel", "expire"} /\ proc[p].at = "release"
      /\ Holds(p) /\ proc[p].todo \in SUBSET Items
  BY RequestTypes DEF ReleaseForItem, Inv, WellFormed, LockInv, Locals
<1>2. CASE Throw(p)
  BY <1>2, LockThrow
<1>3. CASE ~Throw(p)
  <2>1. UNCHANGED <<now, req, reqLock, lastReq>>
    BY <1>3 DEF ReleaseForItem, requestVars
  <2>2. PICK l \in IF proc[p].op = "remove" THEN {[proc[p] EXCEPT !.at = "count"]}
                   ELSE NextItem(proc[p], proc[p].todo, "release") : Become(p, l)
    BY <1>3 DEF ReleaseForItem
  <2>3. CASE proc[p].op = "remove"
    <3>1. l = [proc[p] EXCEPT !.at = "count"]
      BY <2>2, <2>3
    <3>2. l.op = proc[p].op /\ l.req = proc[p].req
      BY <1>1, <3>1 DEF Locals
    <3> QED
      BY <2>1, <2>2, <2>3, <3>2, OtherHandlersLocks
  <2>4. CASE proc[p].op # "remove"
    <3>1. l.op = proc[p].op /\ l.req = proc[p].req
      BY <1>1, <2>2, <2>4, NextItemRequest DEF Steps
    <3>2. l.req <= lastReq /\ (l.op = "expire" => reqLock[l.req] = p /\ IsOverdue(l.req))
      BY <1>1, <3>1 DEF Holds
    <3> QED
      BY <1>1, <2>1, <2>2, <3>1, <3>2, LockQuiet
  <2> QED
    BY <2>3, <2>4
<1> QED
  BY <1>2, <1>3

\* The commits of removeItem, cancel, confirm and the pass.
LEMMA CommitLocks ==
  ASSUME Inv, LockInv, NEW p \in Procs,
         \/ SetTotal(p) \/ CancelEmptyRequest(p) \/ SetRequestCancelled(p) \/ SetRequestConfirmed(p)
         \/ SetRequestExpired(p)
  PROVE  LockInv'
<1>1. proc[p].req \in Requests /\ proc[p] \in Locals
  BY RequestTypes DEF SetTotal, CancelEmptyRequest, SetRequestCancelled, SetRequestConfirmed, SetRequestExpired,
                      At, Inv, WellFormed
<1>2. PICK row : CommitRequest(p, row)
  BY DEF SetTotal, CancelEmptyRequest, SetRequestCancelled, SetRequestConfirmed, SetRequestExpired
<1>3. PICK l : Become(p, l) /\ (l = Idle \/ l = Pass(proc[p].batch))
  BY DEF SetTotal, CancelEmptyRequest, SetRequestCancelled, SetRequestConfirmed, SetRequestExpired, DeleteItem
<1>4. l.req = 0 /\ (l.op = "idle" \/ (l.op = "expire" /\ l.at = "next"))
  <2>1. Idle.req = 0 /\ Idle.op = "idle"
    BY DEF Idle
  <2>2. CASE l = [Idle EXCEPT !.op = "expire", !.at = "next", !.batch = proc[p].batch]
    <3>1. l.req = 0 /\ l.op = "expire" /\ l.at = "next"
      BY <2>2 DEF Idle
    <3> QED
      BY <3>1
  <2> QED
    BY <1>3, <2>1, <2>2 DEF Pass
<1> QED
  BY <1>1, <1>2, <1>3, <1>4, LockCommit DEF CommitRequest

\* restock has no request.
LEMMA RestockLocks ==
  ASSUME Inv, LockInv, NEW s \in Sessions, CommitRestock(s)
  PROVE  LockInv'
<1>1. s \in Procs /\ Become(s, Idle) /\ UNCHANGED requestVars /\ now' = now
  BY DEF Procs, CommitRestock
<1>2. Idle.op = "idle" /\ Idle.req = 0
  BY DEF Idle
<1> QED
  BY <1>1, <1>2, LockStart

\* A pass locks a request that nobody has locked, and that is overdue.
LEMMA PassLocks ==
  ASSUME Inv, LockInv, NEW w \in Workers, ExpireOpenPurchaseRequests(w) \/ LockExpiredRequest(w)
  PROVE  LockInv'
<1>1. w \in Procs /\ proc[w] \in Locals
  BY RequestTypes DEF Procs
<1>2. \A batch : /\ Pass(batch).req = 0 /\ Pass(batch).op \in {"idle", "expire"}
                 /\ Pass(batch).op = "expire" => Pass(batch).at = "next"
  BY DEF Pass, Idle
<1>3. CASE ExpireOpenPurchaseRequests(w)
  <2>1. PICK batch : Become(w, Pass(batch)) /\ UNCHANGED requestVars /\ now' = now
    BY <1>3 DEF ExpireOpenPurchaseRequests, Start
  <2> QED
    BY <1>1, <1>2, <2>1, LockStart
<1>4. CASE LockExpiredRequest(w)
  <2>1. /\ proc[w].op = "expire" /\ proc[w].batch \in SUBSET Requests
        /\ UNCHANGED <<now, req, lastReq>>
    BY <1>1, <1>4 DEF LockExpiredRequest, At, Locals
  <2>2. PICK r \in proc[w].batch :
          LET rest == [proc[w] EXCEPT !.batch = @ \ {r}, !.req = r, !.seen = LiveItems(r)] IN
            IF IsOverdue(r) /\ ~SkipLocked(r)
            THEN /\ reqLock' = [reqLock EXCEPT ![r] = w]
                 /\ \E l \in NextItem(rest, LiveItems(r), "release") : Become(w, l)
            ELSE /\ Become(w, Pass(rest.batch))
                 /\ UNCHANGED reqLock
    BY <1>4 DEF LockExpiredRequest
  <2>3. r \in Requests
    BY <2>1, <2>2
  <2>4. CASE IsOverdue(r) /\ ~SkipLocked(r)
    <3> DEFINE L == LiveItems(r)
               rest == [proc[w] EXCEPT !.batch = proc[w].batch \ {r}, !.req = r, !.seen = L]
    <3>1. rest \in Locals
      <4>1. [proc[w] EXCEPT !.batch = proc[w].batch \ {r}] \in Locals
        BY <1>1, <2>1, LocalUpdates
      <4>2. [[proc[w] EXCEPT !.batch = proc[w].batch \ {r}] EXCEPT !.req = r] \in Locals
        BY <4>1, <2>3, LocalUpdates
      <4>3. L \in SUBSET Items
        BY LiveItemsArePresent
      <4> HIDE DEF L
      <4> QED
        BY <4>2, <4>3, LocalUpdates
    <3>2. rest.op = "expire" /\ rest.req = r
      <4> HIDE DEF L
      <4> QED
        BY <1>1, <2>1 DEF Locals
    <3>3. PICK l \in NextItem(rest, LiveItems(r), "release") : Become(w, l)
      BY <2>2, <2>4
    <3> HIDE DEF rest
    <3>4. l.op = "expire" /\ l.req = r
      BY <3>1, <3>2, LiveItemsArePresent, NextItemRequest DEF Steps
    <3>5. reqLock' = [reqLock EXCEPT ![r] = w] /\ reqLock[r] = None
      BY <2>2, <2>4 DEF SkipLocked
    <3>6. r <= lastReq
      BY <2>3, <2>4, RequestTypes DEF LockInv, Fresh, IsOverdue
    <3>7. proc'[w] = l
      BY <1>1, <3>3 DEF Become, Inv, TypeOK
    <3>8. Holds(w)'
      <4>1. reqLock'[r] = w /\ IsOverdue(r)'
        BY <2>1, <2>3, <2>4, <3>5, RequestTypes DEF IsOverdue
      <4> QED
        BY <2>1, <3>4, <3>6, <3>7, <4>1 DEF Holds
    <3>9. /\ \A o \in Requests : reqLock[o] \in Procs \ {w} => reqLock'[o] = reqLock[o] /\ req'[o] = req[o]
          /\ \A o \in Requests : o > lastReq' => reqLock'[o] = reqLock[o] /\ req'[o] = req[o]
      BY <2>1, <2>3, <3>5, <3>6, RequestTypes
    <3>10. lastReq' \in Int /\ lastReq' >= lastReq
      BY <2>1, RequestTypes
    <3> QED
      BY <1>1, <2>1, <3>3, <3>8, <3>9, <3>10, LockStep
  <2>5. CASE ~(IsOverdue(r) /\ ~SkipLocked(r))
    <3>1. PICK batch : Become(w, Pass(batch))
      BY <2>2, <2>5
    <3>2. UNCHANGED requestVars
      BY <2>1, <2>2, <2>5 DEF requestVars
    <3> QED
      BY <1>1, <1>2, <2>1, <3>1, <3>2, LockStart
  <2> QED
    BY <2>4, <2>5
<1> QED
  BY <1>3, <1>4

\* What is overdue stays overdue.
LEMMA TickLocks ==
  ASSUME Inv, LockInv, Tick
  PROVE  LockInv'
<1>1. now' = now + 1 /\ UNCHANGED <<req, reqLock, lastReq, proc>>
  BY DEF Tick, requestVars
<1>2. \A r \in Requests : IsOverdue(r) => IsOverdue(r)'
  BY <1>1, RequestTypes DEF IsOverdue
<1>3. ASSUME NEW p \in Procs
      PROVE  Holds(p)'
  BY <1>1, <1>2 DEF LockInv, Holds, Inv, WellFormed
<1> QED
  BY <1>1, <1>3 DEF LockInv, Fresh

-----------------------------------------------------------------------------
(* The invariant and what it implies *)

\* Every step keeps it.
LEMMA NextLocks == Inv /\ LockInv /\ [Next]_vars => LockInv'
<1> SUFFICES ASSUME Inv, LockInv, [Next]_vars
             PROVE  LockInv'
  OBVIOUS
<1>1. ASSUME NEW s \in Sessions, HandlerStep(s)
      PROVE  LockInv'
  <2>1. s \in Procs
    BY DEF Procs
  <2> QED
    BY <1>1, <2>1, FindLocks, CreateLocks, TouchLocks, ReserveLocks, CreateItemLocks, RemoveLocks, LoopLocks,
       ReleaseLocks, CommitLocks, RestockLocks DEF HandlerStep
<1>2. ASSUME NEW w \in Workers, ExpireOpenPurchaseRequests(w) \/ WorkerStep(w) \/ Crash(w)
      PROVE  LockInv'
  <2>1. w \in Procs /\ InstanceOf(w) \subseteq Procs
    BY DEF Procs, InstanceOf
  <2> QED
    BY <1>2, <2>1, PassLocks, ReleaseLocks, CommitLocks, LockAbort DEF WorkerStep, Crash
<1>3. ASSUME NEW p \in Procs, DeadlockDetected(p)
      PROVE  LockInv'
  BY <1>3, LockThrow DEF DeadlockDetected
<1>4. CASE UNCHANGED vars
  BY <1>4 DEF vars, requestVars, LockInv, Holds, Fresh, IsOverdue
<1> QED
  BY <1>1, <1>2, <1>3, <1>4, StartLocks, TickLocks DEF Next

\* In every state, addItem and the expiry passes hold the locks they rely on.
THEOREM LocksAreHeld == Spec => []LockInv
<1>1. Init => LockInv
  <2> SUFFICES ASSUME Init
               PROVE  LockInv
    OBVIOUS
  <2>1. \A p \in Procs : proc[p] = Idle
    BY DEF Init
  <2>2. \A p \in Procs : Holds(p)
    BY <2>1 DEF Holds, Idle, Init
  <2>3. \A r \in Requests : Fresh(r)
    BY DEF Init, Fresh, NoRequest
  <2> QED
    BY <2>2, <2>3 DEF LockInv
<1> QED
  BY <1>1, NextLocks, Invariance, PTL DEF Spec

\* A step that makes a request expired is the commit of a pass that holds it.
LEMMA ExpiryStep ==
  ASSUME Inv, LockInv, [Next]_vars, NEW r \in Requests, req'[r].status = "expired", req[r].status # "expired"
  PROVE  req[r].status = "new" /\ req[r].until < now
<1>1. req \in [Requests -> RequestRows]
  BY DEF Inv, TypeOK
<1>2. ASSUME NEW w \in Workers, SetRequestExpired(w)
      PROVE  IsOverdue(r)
  <2>1. w \in Procs /\ proc[w].op = "expire" /\ proc[w].at = "finish" /\ Holds(w)
    BY <1>2 DEF Procs, SetRequestExpired, At, LockInv
  <2>2. IsOverdue(proc[w].req)
    BY <2>1 DEF Holds
  <2>3. r = proc[w].req
    BY <1>1, <1>2 DEF SetRequestExpired, CommitRequest
  <2> QED
    BY <2>2, <2>3
<1>3. ASSUME NEW p \in Procs, NEW row, CommitRequest(p, row), proc[p].req \in Requests,
             row.status = "expired" => req[proc[p].req].status = "expired"
      PROVE  FALSE
  BY <1>1, <1>3 DEF CommitRequest
<1>4. ASSUME NEW s \in Sessions, HandlerStep(s)
      PROVE  FALSE
  <2>1. s \in Procs /\ proc[s] \in Locals
    BY RequestTypes DEF Procs
  <2>2. req' # req
    OBVIOUS
  <2>3. ~Throw(s)
    BY <2>2 DEF Throw, Abort
  <2>4. ~(\/ FindLatestActiveRequest(s) \/ CreateRequest(s) \/ TouchRequestExpiry(s) \/ ReserveForItem(s)
          \/ DeleteItemForOpenRequest(s) \/ CountItems(s) \/ SumItems(s) \/ ListItemsToCancel(s))
    BY <2>2, <2>3 DEF FindLatestActiveRequest, CreateRequest, TouchRequestExpiry, ReserveForItem,
                      DeleteItemForOpenRequest, CountItems, SumItems, ListItemsToCancel, requestVars
  <2>5. ~(ListItemsToSell(s) \/ CreateInvoice(s) \/ SellItem(s) \/ CommitRestock(s) \/ ReleaseForItem(s))
    BY <2>2, <2>3 DEF ListItemsToSell, CreateInvoice, SellItem, CommitRestock, ReleaseForItem, requestVars
  <2>6. ASSUME CreateItem(s)
        PROVE  FALSE
    <3>1. proc[s].req \in Requests
      BY <2>6 DEF CreateItem, At, Inv, WellFormed, Procs
    <3>2. PICK k : req' = [req EXCEPT ![proc[s].req] = [RequestRow(s) EXCEPT !.total = TotalWith(proc[s].req, k)]]
      BY <2>3, <2>6 DEF CreateItem
    <3>3. RequestRow(s).status \in {"new", req[proc[s].req].status}
      BY <1>1, <3>1 DEF RequestRow, NewRequest, TouchedRow, RequestRows
    <3>4. [RequestRow(s) EXCEPT !.total = TotalWith(proc[s].req, k)].status = RequestRow(s).status
      BY <1>1, <3>1 DEF RequestRow, NewRequest, TouchedRow, RequestRows
    <3> QED
      BY <1>1, <3>1, <3>2, <3>3, <3>4
  <2>7. ASSUME SetTotal(s)
        PROVE  FALSE
    <3>1. proc[s].req \in Requests
      BY <2>7, <2>1 DEF SetTotal, At, Inv, WellFormed
    <3>2. [req[proc[s].req] EXCEPT !.total = proc[s].total].status = req[proc[s].req].status
      BY <1>1, <3>1 DEF RequestRows
    <3> QED
      BY <1>3, <2>1, <2>7, <3>1, <3>2 DEF SetTotal
  <2>8. ASSUME CancelEmptyRequest(s) \/ SetRequestCancelled(s)
        PROVE  FALSE
    <3>1. proc[s].req \in Requests
      BY <2>8, <2>1 DEF CancelEmptyRequest, SetRequestCancelled, At, Inv, WellFormed
    <3>2. Closed(proc[s].req, "cancelled").status = "cancelled"
      BY <1>1, <3>1 DEF Closed, RequestRows
    <3> QED
      BY <1>3, <2>1, <2>8, <3>1, <3>2 DEF CancelEmptyRequest, SetRequestCancelled
  <2>9. ASSUME SetRequestConfirmed(s)
        PROVE  FALSE
    <3>1. proc[s].req \in Requests
      BY <2>9, <2>1 DEF SetRequestConfirmed, At, Inv, WellFormed
    <3>2. [req[proc[s].req] EXCEPT !.status = "confirmed"].status = "confirmed"
      BY <1>1, <3>1 DEF RequestRows
    <3> QED
      BY <1>3, <2>1, <2>9, <3>1, <3>2 DEF SetRequestConfirmed
  <2> QED
    BY <1>4, <2>4, <2>5, <2>6, <2>7, <2>8, <2>9 DEF HandlerStep
<1>5. ASSUME NEW s \in Sessions, StartHandler(s)
      PROVE  FALSE
  BY <1>5 DEF StartHandler, AddItem, RemoveItem, Confirm, Cancel, Start, RestockInventory, requestVars
<1>6. ASSUME NEW w \in Workers, ExpireOpenPurchaseRequests(w) \/ WorkerStep(w) \/ Crash(w)
      PROVE  IsOverdue(r)
  <2>1. CASE SetRequestExpired(w)
    BY <1>2, <2>1
  <2>2. CASE ExpireOpenPurchaseRequests(w) \/ LockExpiredRequest(w) \/ ReleaseForItem(w) \/ Crash(w)
    BY <2>2 DEF ExpireOpenPurchaseRequests, Start, LockExpiredRequest, ReleaseForItem, Crash, Throw, Abort,
                requestVars
  <2> QED
    BY <1>6, <2>1, <2>2 DEF WorkerStep
<1>7. ASSUME (\E p \in Procs : DeadlockDetected(p)) \/ Tick \/ UNCHANGED vars
      PROVE  FALSE
  BY <1>7 DEF DeadlockDetected, Throw, Abort, Tick, vars, requestVars
<1> QED
  BY <1>4, <1>5, <1>6, <1>7 DEF Next, IsOverdue

\* The expiry pass never closes a request that was touched, confirmed or cancelled since it
\* was found overdue, although the UPDATE that closes it tests nothing: FOR UPDATE SKIP LOCKED
\* is enough, for any number of instances whose passes run side by side.
THEOREM OnlyStaleExpire == Spec => ExpiryOnlyStale
<1>1. Inv /\ LockInv /\ [Next]_vars =>
        [\A r \in Requests : req'[r].status = "expired" /\ req[r].status # "expired" =>
           req[r].status = "new" /\ req[r].until < now]_vars
  BY ExpiryStep
<1> QED
  BY <1>1, Invariance, LocksAreHeld, PTL DEF Spec, ExpiryOnlyStale

-----------------------------------------------------------------------------
(* Sale and expiry *)

\* How the transactions that end with an UPDATE of a request change its status and its invoices.
StatusChange(r) ==
    /\ invoices'[r] = invoices[r] \/ (req'[r].status = "confirmed" /\ invoices'[r] # <<>>)
    /\ req'[r].status = "confirmed" => req[r].status = "confirmed" \/ invoices'[r] # <<>>
    /\ \/ req'[r].status = req[r].status
       \/ req'[r].status \in {"confirmed", "cancelled", "expired"}
       \/ req[r].status = "absent"

\* An UPDATE of a request leaves the others alone.
LEMMA CommitChange ==
  ASSUME Inv, NEW r \in Requests, NEW p \in Procs, proc[p].req \in Requests, NEW row, CommitRequest(p, row),
         invoices'[r] = invoices[r] \/ (r = proc[p].req /\ row.status = "confirmed" /\ invoices'[r] # <<>>),
         row.status = "confirmed" => req[proc[p].req].status = "confirmed" \/ invoices'[proc[p].req] # <<>>,
         row.status \in {req[proc[p].req].status, "confirmed", "cancelled", "expired"}
  PROVE  StatusChange(r)
<1>1. req' = [req EXCEPT ![proc[p].req] = row] /\ req \in [Requests -> RequestRows]
  BY DEF CommitRequest, Inv, TypeOK
<1> QED
  BY <1>1 DEF StatusChange

\* The statuses of the rows the handlers write.
LEMMA WrittenStatus ==
  ASSUME Inv, NEW p \in Procs, proc[p].req \in Requests
  PROVE  /\ \A K : [req[proc[p].req] EXCEPT !.total = K].status = req[proc[p].req].status
         /\ \A st \in {"cancelled", "expired"} : Closed(proc[p].req, st).status = st
         /\ [req[proc[p].req] EXCEPT !.status = "confirmed"].status = "confirmed"
         /\ \A K : [RequestRow(p) EXCEPT !.total = K].status \in {"new", req[proc[p].req].status}
         /\ \A K : req[proc[p].req].status # "absent" =>
              [RequestRow(p) EXCEPT !.total = K].status = req[proc[p].req].status
<1>1. req[proc[p].req] \in RequestRows
  BY DEF Inv, TypeOK
<1> QED
  BY <1>1 DEF RequestRows, Closed, RequestRow, NewRequest, TouchedRow

\* Every step changes the status and the invoices of a request in one of these ways.
LEMMA StatusStep ==
  ASSUME Inv, [Next]_vars, NEW r \in Requests
  PROVE  StatusChange(r)
<1> SUFFICES ASSUME ~(UNCHANGED <<req, invoices>>)
             PROVE  StatusChange(r)
  BY DEF StatusChange
<1>1. \A p \in Procs : ~Throw(p)
  BY DEF Throw, Abort
<1>2. ASSUME NEW s \in Sessions, HandlerStep(s)
      PROVE  StatusChange(r)
  <2>1. s \in Procs /\ proc[s] \in Locals /\ WellFormed(s)
    BY RequestTypes DEF Procs, Inv
  <2>2. ~(\/ FindLatestActiveRequest(s) \/ CreateRequest(s) \/ TouchRequestExpiry(s) \/ ReserveForItem(s)
          \/ DeleteItemForOpenRequest(s) \/ CountItems(s) \/ SumItems(s) \/ ListItemsToCancel(s))
    BY <1>1, <2>1 DEF FindLatestActiveRequest, CreateRequest, TouchRequestExpiry, ReserveForItem,
                      DeleteItemForOpenRequest, CountItems, SumItems, ListItemsToCancel, requestVars
  <2>3. ~(ListItemsToSell(s) \/ CreateInvoice(s) \/ SellItem(s) \/ CommitRestock(s) \/ ReleaseForItem(s))
    BY <1>1, <2>1 DEF ListItemsToSell, CreateInvoice, SellItem, CommitRestock, ReleaseForItem, requestVars
  <2>4. CASE CreateItem(s)
    <3>1. proc[s].req \in Requests
      BY <2>1, <2>4 DEF CreateItem, At, WellFormed
    <3>2. PICK k : /\ req' = [req EXCEPT ![proc[s].req] = [RequestRow(s) EXCEPT !.total = TotalWith(proc[s].req, k)]]
                   /\ invoices' = invoices
      BY <1>1, <2>1, <2>4 DEF CreateItem
    <3> DEFINE row == [RequestRow(s) EXCEPT !.total = TotalWith(proc[s].req, k)]
    <3>3. /\ req[proc[s].req].status # "absent" => row.status = req[proc[s].req].status
          /\ row.status \in {"new", req[proc[s].req].status}
      BY <2>1, <3>1, WrittenStatus
    <3>4. req \in [Requests -> RequestRows]
      BY DEF Inv, TypeOK
    <3> HIDE DEF row
    <3>5. req' = [req EXCEPT ![proc[s].req] = row]
      BY <3>2 DEF row
    <3> QED
      BY <3>1, <3>2, <3>3, <3>4, <3>5 DEF StatusChange
  <2>5. CASE SetTotal(s)
    <3>1. proc[s].req \in Requests /\ invoices' = invoices
      BY <2>1, <2>5 DEF SetTotal, DeleteItem, At, WellFormed
    <3> QED
      <4> DEFINE row == [req[proc[s].req] EXCEPT !.total = proc[s].total]
      <4>1. row.status = req[proc[s].req].status
        BY <2>1, <3>1, WrittenStatus
      <4>2. CommitRequest(s, row)
        BY <2>5 DEF SetTotal
      <4> HIDE DEF row
      <4> QED
        BY <2>1, <3>1, <4>1, <4>2, CommitChange
  <2>6. CASE CancelEmptyRequest(s) \/ SetRequestCancelled(s)
    <3>1. proc[s].req \in Requests /\ invoices' = invoices
      BY <2>1, <2>6 DEF CancelEmptyRequest, SetRequestCancelled, DeleteItem, At, WellFormed
    <3> QED
      <4> DEFINE row == Closed(proc[s].req, "cancelled")
      <4>1. row.status = "cancelled"
        BY <2>1, <3>1, WrittenStatus
      <4>2. CommitRequest(s, row)
        BY <2>6 DEF CancelEmptyRequest, SetRequestCancelled
      <4> HIDE DEF row
      <4> QED
        BY <2>1, <3>1, <4>1, <4>2, CommitChange
  <2>7. CASE SetRequestConfirmed(s)
    <3>1. proc[s].req \in Requests
      BY <2>1, <2>7 DEF SetRequestConfirmed, At, WellFormed
    <3>2. r # proc[s].req => invoices'[r] = invoices[r]
      BY <2>7 DEF SetRequestConfirmed, Inv, TypeOK
    <3>3. invoices'[proc[s].req] # <<>>
      <4>1. PICK o, v : /\ o \in Requests /\ o = proc[s].req
                        /\ v = [total |-> proc[s].total, lines |-> proc[s].seen]
        BY <3>1
      <4>2. invoices' = [invoices EXCEPT ![o] = Append(@, v)]
        BY <2>7, <4>1 DEF SetRequestConfirmed
      <4>3. invoices'[o] = Append(invoices[o], v)
        BY <4>1, <4>2 DEF Inv, TypeOK
      <4>4. invoices[o] \in Seq(Invoices \cup {v})
        BY <4>1 DEF Inv, TypeOK
      <4> QED
        BY <4>1, <4>3, <4>4
    <3> DEFINE row == [req[proc[s].req] EXCEPT !.status = "confirmed"]
    <3>4. row.status = "confirmed"
      BY <2>1, <3>1, WrittenStatus
    <3>5. CommitRequest(s, row)
      BY <2>7 DEF SetRequestConfirmed
    <3> HIDE DEF row
    <3> QED
      BY <2>1, <3>1, <3>2, <3>3, <3>4, <3>5, CommitChange
  <2> QED
    BY <1>2, <2>2, <2>3, <2>4, <2>5, <2>6, <2>7 DEF HandlerStep
<1>3. ASSUME NEW s \in Sessions, StartHandler(s)
      PROVE  FALSE
  BY <1>3 DEF StartHandler, AddItem, RemoveItem, Confirm, Cancel, Start, RestockInventory, requestVars
<1>4. ASSUME NEW w \in Workers, ExpireOpenPurchaseRequests(w) \/ WorkerStep(w) \/ Crash(w)
      PROVE  StatusChange(r)
  <2>1. w \in Procs /\ proc[w] \in Locals /\ WellFormed(w)
    BY RequestTypes DEF Procs, Inv
  <2>2. CASE SetRequestExpired(w)
    <3>1. proc[w].req \in Requests /\ invoices' = invoices
      BY <2>1, <2>2 DEF SetRequestExpired, At, WellFormed
    <3> QED
      <4> DEFINE row == Closed(proc[w].req, "expired")
      <4>1. row.status = "expired"
        BY <2>1, <3>1, WrittenStatus
      <4>2. CommitRequest(w, row)
        BY <2>2 DEF SetRequestExpired
      <4> HIDE DEF row
      <4> QED
        BY <2>1, <3>1, <4>1, <4>2, CommitChange
  <2>3. ~(ExpireOpenPurchaseRequests(w) \/ LockExpiredRequest(w) \/ ReleaseForItem(w) \/ Crash(w))
    BY <1>1, <2>1 DEF ExpireOpenPurchaseRequests, Start, LockExpiredRequest, ReleaseForItem, Crash, Abort,
                      requestVars
  <2> QED
    BY <1>4, <2>2, <2>3 DEF WorkerStep
<1>5. ~((\E p \in Procs : DeadlockDetected(p)) \/ Tick \/ UNCHANGED vars)
  BY <1>1 DEF DeadlockDetected, Tick, vars, requestVars
<1> QED
  BY <1>2, <1>3, <1>4, <1>5 DEF Next

\* A request that has an invoice is closed by a sale or by its user.
SoldIsClosed == \A r \in Requests : invoices[r] # <<>> => req[r].status \in {"confirmed", "cancelled"}

\* A request that was sold is never found expired, and one that expired is never sold, however
\* confirmations and passes overlap: a pass closes only what is open, nothing opens a request
\* that is closed, and a sale closes its request in the transaction that writes its invoice.
THEOREM NoSaleOfExpired == Spec => []ExpiredHasNoInvoice
<1>1. Init => SoldIsClosed
  BY DEF Init, SoldIsClosed
<1>2. Inv /\ LockInv /\ SoldIsClosed /\ [Next]_vars => SoldIsClosed'
  <2> SUFFICES ASSUME Inv, LockInv, SoldIsClosed, [Next]_vars, NEW r \in Requests, invoices'[r] # <<>>
               PROVE  req'[r].status \in {"confirmed", "cancelled"}
    BY DEF SoldIsClosed
  <2>1. StatusChange(r)
    BY StatusStep
  <2>2. req'[r].status = "expired" => req[r].status \in {"expired", "new"}
    BY ExpiryStep
  <2> QED
    BY <2>1, <2>2 DEF StatusChange, SoldIsClosed
<1>3. SoldIsClosed => ExpiredHasNoInvoice
  BY DEF SoldIsClosed, ExpiredHasNoInvoice
<1> QED
  BY <1>1, <1>2, <1>3, Invariance, LocksAreHeld, PTL DEF Spec

\* A request is confirmed in the transaction that writes its invoice, and invoices stay.
ConfirmedHasInvoice == \A r \in Requests : req[r].status = "confirmed" => invoices[r] # <<>>

\* Whatever overlaps, a confirmed request has an invoice: confirm writes both in one transaction.
THEOREM ConfirmedIsInvoiced == Spec => []ConfirmedHasInvoice
<1>1. Init => ConfirmedHasInvoice
  BY DEF Init, ConfirmedHasInvoice, NoRequest
<1>2. Inv /\ ConfirmedHasInvoice /\ [Next]_vars => ConfirmedHasInvoice'
  BY StatusStep DEF StatusChange, ConfirmedHasInvoice
<1> QED
  BY <1>1, <1>2, Invariance, PTL DEF Spec
=============================================================================
