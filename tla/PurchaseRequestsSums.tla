------------------------- MODULE PurchaseRequestsSums -------------------------
(***************************************************************************)
(* What the quantities of items add up to.  Two parts:                     *)
(*  - sums: SumFunctionOnSet is a recursive fold, and that it can be taken *)
(*    apart is proved from the smallest set for which it could not;        *)
(*  - bookings: whatever handlers interleave, what the open transaction of *)
(*    each has reserved, given back and sold so far is its item, or what   *)
(*    it has passed of the items it has listed (BookInv).  So every COMMIT *)
(*    is one booking of StockAccount, of all it has listed, and what       *)
(*    confirmations take from stock is what invoices list.                 *)
(***************************************************************************)
EXTENDS PurchaseRequestsLocks, FiniteSetTheorems, WellFoundedInduction

\* Every nonempty set of numbers has a least one.
LEMMA LeastNumber ==
  ASSUME NEW N \in SUBSET Nat, N # {}
  PROVE  \E n \in N : \A m \in N : n <= m
<1> DEFINE R == OpToRel(<, Nat)
<1>1. IsWellFoundedOn(R, Nat)
  BY NatLessThanWellFounded
<1> HIDE DEF R
<1>2. \E n \in N : \A m \in N : ~(<<m, n>> \in R)
  BY <1>1, WFMin
<1>3. \A m, n \in Nat : m < n => <<m, n>> \in R
  BY DEF R, OpToRel
<1>4. PICK n \in N : \A m \in N : ~(<<m, n>> \in R)
  BY <1>2
<1>5. ASSUME NEW m \in N, m < n PROVE FALSE
  BY <1>3, <1>4, <1>5
<1> QED
  BY <1>5

\* A family of subsets of a finite set has a smallest member: what the inductions use.
LEMMA SmallestSet ==
  ASSUME NEW S, IsFiniteSet(S), NEW F, F \subseteq SUBSET S, F # {}
  PROVE  \E K \in F : \A L \in F : L \subseteq K => L = K
<1>1. IsWellFoundedOn(StrictSubsetOrdering(S), SUBSET S)
  BY FS_StrictSubsetOrderingWellFounded, FS_FiniteSubsetsOfFinite
<1>2. \E K \in F : \A L \in F : ~(<<L, K>> \in StrictSubsetOrdering(S))
  BY <1>1, WFMin
<1>3. \A K, L \in SUBSET S : L \subseteq K /\ L # K => <<L, K>> \in StrictSubsetOrdering(S)
  BY DEF StrictSubsetOrdering
<1> QED
  BY <1>2, <1>3

\* The member of s that a fold takes first.
Picked(s) == CHOOSE x \in s : TRUE

\* g is the recursive function of the fold that adds up f, on the sets in D.
IsSum(g, f, D) == g = [s \in D |-> IF s = {} THEN 0 ELSE f[Picked(s)] + g[s \ {Picked(s)}]]

\* The definition of the fold.
LEMMA SumUnfolds ==
  ASSUME NEW f, NEW S
  PROVE  SumFunctionOnSet(f, S) = (CHOOSE g : IsSum(g, f, SUBSET S))[S]
  BY DEF SumFunctionOnSet, FoldFunctionOnSet, MapThenFoldSet, IsSum, Picked

\* It is one.
LEMMA PickedIsMember == \A s : s # {} => Picked(s) \in s
  BY DEF Picked

\* The subsets of S with at most n members.
Upto(S, n) == {s \in SUBSET S : Cardinality(s) <= n}

\* The recursion has a solution on them.
LEMMA SumsExist ==
  ASSUME NEW S, IsFiniteSet(S), NEW f
  PROVE  \A n \in Nat : \E g : IsSum(g, f, Upto(S, n))
<1> DEFINE N == {n \in Nat : ~ \E g : IsSum(g, f, Upto(S, n))}
<1>1. SUFFICES ASSUME N # {}
             PROVE  FALSE
  OBVIOUS
<1>2. PICK n \in N : \A m \in N : n <= m
  BY <1>1, LeastNumber
<1>3. n # 0
  <2>1. ASSUME n = 0 PROVE IsSum([s \in Upto(S, 0) |-> 0], f, Upto(S, 0))
    <3>1. \A s \in Upto(S, 0) : s = {}
      BY FS_EmptySet, FS_Subset, FS_CardinalityType DEF Upto
    <3> QED
      BY <3>1 DEF IsSum
  <2> QED
    BY <2>1
<1>4. n - 1 \in Nat /\ n - 1 \notin N
  BY <1>2, <1>3
<1>5. PICK g : IsSum(g, f, Upto(S, n - 1))
  BY <1>4
<1> DEFINE v(s) == IF s = {} THEN 0 ELSE f[Picked(s)] + g[s \ {Picked(s)}]
           h == [s \in Upto(S, n) |-> v(s)]
<1>6. \A s \in Upto(S, n - 1) : g[s] = v(s)
  BY <1>5 DEF IsSum
<1>7. \A s \in Upto(S, n) : s # {} => s \ {Picked(s)} \in Upto(S, n - 1)
  <2> SUFFICES ASSUME NEW s \in Upto(S, n), s # {} PROVE s \ {Picked(s)} \in Upto(S, n - 1)
    OBVIOUS
  <2>1. IsFiniteSet(s) /\ s \subseteq S
    BY FS_Subset DEF Upto
  <2>2. Cardinality(s \ {Picked(s)}) = Cardinality(s) - 1
    BY <2>1, PickedIsMember, FS_RemoveElement
  <2>3. Cardinality(s) \in Nat /\ Cardinality(s) <= n
    BY <2>1, FS_CardinalityType DEF Upto
  <2> QED
    BY <2>1, <2>2, <2>3 DEF Upto
<1>8. \A s \in Upto(S, n - 1) : s \in Upto(S, n)
  <2> SUFFICES ASSUME NEW s \in Upto(S, n - 1) PROVE s \in Upto(S, n)
    OBVIOUS
  <2>1. Cardinality(s) \in Nat
    BY FS_Subset, FS_CardinalityType DEF Upto
  <2> QED
    BY <2>1 DEF Upto
<1>9. \A s \in Upto(S, n) : s # {} => h[s \ {Picked(s)}] = g[s \ {Picked(s)}]
  BY <1>6, <1>7, <1>8
<1>10. IsSum(h, f, Upto(S, n))
  BY <1>9 DEF IsSum
<1> QED
  BY <1>2, <1>10

\* So a sum is the value of a function that satisfies the equation.
LEMMA SumIsSum ==
  ASSUME NEW S, IsFiniteSet(S), NEW f
  PROVE  \E g : IsSum(g, f, SUBSET S) /\ SumFunctionOnSet(f, S) = g[S]
<1>1. Cardinality(S) \in Nat
  BY FS_CardinalityType
<1>2. Upto(S, Cardinality(S)) = SUBSET S
  BY FS_Subset DEF Upto
<1>3. \E g : IsSum(g, f, Upto(S, Cardinality(S)))
  BY <1>1, SumsExist
<1> QED
  BY <1>2, <1>3, SumUnfolds

\* Two solutions agree where both are defined.
LEMMA SumsAgree ==
  ASSUME NEW S, IsFiniteSet(S), NEW T \in SUBSET S, NEW f, NEW g, NEW h,
         IsSum(g, f, SUBSET S), IsSum(h, f, SUBSET T)
  PROVE  g[T] = h[T]
<1> DEFINE F == {s \in SUBSET T : g[s] # h[s]}
<1> SUFFICES ASSUME T \in F PROVE FALSE
  OBVIOUS
<1>1. IsFiniteSet(T) /\ F \subseteq SUBSET T
  BY FS_Subset
<1>2. PICK K \in F : \A L \in F : L \subseteq K => L = K
  <2> HIDE DEF F
  <2> QED
    BY <1>1, SmallestSet
<1>3. g[K] = (IF K = {} THEN 0 ELSE f[Picked(K)] + g[K \ {Picked(K)}])
  BY DEF IsSum
<1>4. h[K] = (IF K = {} THEN 0 ELSE f[Picked(K)] + h[K \ {Picked(K)}])
  BY DEF IsSum
<1>5. K # {}
  BY <1>3, <1>4
<1>6. K \ {Picked(K)} \notin F
  BY <1>2, <1>5, PickedIsMember
<1> QED
  BY <1>3, <1>4, <1>6

\* The equation of the fold, for the sums themselves.
LEMMA SumStep ==
  ASSUME NEW S, IsFiniteSet(S), NEW f
  PROVE  SumFunctionOnSet(f, S) = IF S = {} THEN 0 ELSE f[Picked(S)] + SumFunctionOnSet(f, S \ {Picked(S)})
<1> DEFINE T == S \ {Picked(S)}
<1>1. PICK g : IsSum(g, f, SUBSET S) /\ SumFunctionOnSet(f, S) = g[S]
  BY SumIsSum
<1>2. IsFiniteSet(T)
  BY FS_Subset
<1>3. PICK h : IsSum(h, f, SUBSET T) /\ SumFunctionOnSet(f, T) = h[T]
  BY <1>2, SumIsSum
<1>4. g[T] = h[T]
  <2>1. T \in SUBSET S
    OBVIOUS
  <2> HIDE DEF T
  <2>2. IsSum(g, f, SUBSET S)
    BY <1>1
  <2>3. IsSum(h, f, SUBSET T)
    BY <1>3
  <2> QED
    BY <2>1, <2>2, <2>3, SumsAgree
<1>5. g[S] = IF S = {} THEN 0 ELSE f[Picked(S)] + g[T]
  BY <1>1 DEF IsSum
<1> QED
  BY <1>1, <1>3, <1>4, <1>5

\* The sum of nothing.
LEMMA SumOfNothing == \A f : SumFunctionOnSet(f, {}) = 0
  BY SumStep, FS_EmptySet

\* Sums of natural numbers are natural numbers.
LEMMA SumType ==
  ASSUME NEW S, IsFiniteSet(S), NEW f, \A x \in S : f[x] \in Nat
  PROVE  SumFunctionOnSet(f, S) \in Nat
<1> DEFINE F == {s \in SUBSET S : SumFunctionOnSet(f, s) \notin Nat}
<1> SUFFICES ASSUME F # {} PROVE FALSE
  OBVIOUS
<1>2. PICK K \in F : \A L \in F : L \subseteq K => L = K
  <2>1. F \subseteq SUBSET S
    OBVIOUS
  <2> HIDE DEF F
  <2> QED
    BY <2>1, SmallestSet
<1>3. IsFiniteSet(K)
  BY FS_Subset
<1>4. K # {}
  BY SumOfNothing
<1>5. Picked(K) \in K
  BY <1>4, PickedIsMember
<1>6. SumFunctionOnSet(f, K \ {Picked(K)}) \in Nat
  BY <1>2, <1>5
<1> QED
  BY <1>3, <1>4, <1>5, <1>6, SumStep

\* Any member can be taken first.
LEMMA SumWith ==
  ASSUME NEW S, IsFiniteSet(S), NEW f, \A x \in S : f[x] \in Nat, NEW a \in S
  PROVE  SumFunctionOnSet(f, S) = SumFunctionOnSet(f, S \ {a}) + f[a]
<1> DEFINE Sum(K) == SumFunctionOnSet(f, K)
           F == {s \in SUBSET S : \E b \in s : Sum(s) # Sum(s \ {b}) + f[b]}
<1> SUFFICES ASSUME F # {} PROVE FALSE
  OBVIOUS
<1>1. PICK K \in F : \A L \in F : L \subseteq K => L = K
  <2>1. F \subseteq SUBSET S
    OBVIOUS
  <2> HIDE DEF F
  <2> QED
    BY <2>1, SmallestSet
<1>2. PICK b \in K : Sum(K) # Sum(K \ {b}) + f[b]
  OBVIOUS
<1> DEFINE c == Picked(K)
<1>3. c \in K
  BY PickedIsMember
<1>4. \A L \in SUBSET S : IsFiniteSet(L) /\ Sum(L) \in Nat
  BY FS_Subset, SumType
<1> HIDE DEF Sum, c
<1>5. Sum(K) = f[c] + Sum(K \ {c})
  BY <1>4, SumStep, <1>2 DEF Sum, c
<1>6. b # c
  <2>1. K \in SUBSET S /\ K \ {c} \in SUBSET S
    OBVIOUS
  <2>2. f[c] \in Nat /\ Sum(K \ {c}) \in Nat
    BY <1>3, <1>4, <2>1
  <2> QED
    BY <1>2, <1>5, <2>2
<1>7. K \ {c} \notin F /\ K \ {b} \notin F
  BY <1>1, <1>2, <1>3
<1>8. Sum(K \ {c}) = Sum((K \ {c}) \ {b}) + f[b]
  BY <1>2, <1>6, <1>7
<1>9. Sum(K \ {b}) = Sum((K \ {b}) \ {c}) + f[c]
  BY <1>3, <1>6, <1>7
<1>10. (K \ {b}) \ {c} = (K \ {c}) \ {b}
  OBVIOUS
<1>11. Sum((K \ {c}) \ {b}) \in Nat /\ f[b] \in Nat /\ f[c] \in Nat
  BY <1>2, <1>3, <1>4
<1> QED
  BY <1>2, <1>5, <1>8, <1>9, <1>10, <1>11, SMTT(40)

\* The sum over a set is the sum over a part of it and that over the rest.
LEMMA SumSplit ==
  ASSUME NEW S, IsFiniteSet(S), NEW f, \A x \in S : f[x] \in Nat, NEW T \in SUBSET S
  PROVE  SumFunctionOnSet(f, S) = SumFunctionOnSet(f, T) + SumFunctionOnSet(f, S \ T)
<1> DEFINE Sum(K) == SumFunctionOnSet(f, K)
           G == {K \in SUBSET T : Sum((S \ T) \cup K) # Sum(S \ T) + Sum(K)}
<1>1. \A K \in SUBSET S : IsFiniteSet(K) /\ Sum(K) \in Nat
  BY FS_Subset, SumType
<1>2. Sum({}) = 0
  BY SumOfNothing
<1> HIDE DEF Sum
<1>3. G = {}
  <2> SUFFICES ASSUME G # {}
               PROVE  FALSE
    OBVIOUS
  <2>1. PICK K \in G : \A L \in G : L \subseteq K => L = K
    <3>1. G \subseteq SUBSET T /\ IsFiniteSet(T)
      BY <1>1
    <3> HIDE DEF G
    <3> QED
      BY <3>1, SmallestSet
  <2>2. K # {}
    <3>1. Sum(S \ T) \in Nat /\ (S \ T) \cup {} = S \ T
      BY <1>1
    <3>2. Sum((S \ T) \cup {}) = Sum(S \ T) + Sum({})
      BY <1>2, <3>1
    <3>3. Sum((S \ T) \cup K) # Sum(S \ T) + Sum(K)
      OBVIOUS
    <3> HIDE DEF G
    <3> QED
      BY <3>2, <3>3
  <2>3. PICK a \in K : TRUE
    BY <2>2
  <2> DEFINE L == K \ {a}
             M == (S \ T) \cup K
  <2>4. Sum((S \ T) \cup L) = Sum(S \ T) + Sum(L)
    <3>1. L \in SUBSET T /\ L \subseteq K /\ L # K
      BY <2>3
    <3>2. L \notin G
      BY <2>1, <3>1
    <3> QED
      BY <3>1, <3>2
  <2>5. /\ K \in SUBSET S /\ L \in SUBSET S /\ M \in SUBSET S /\ S \ T \in SUBSET S
        /\ a \in M /\ M \ {a} = (S \ T) \cup L
    <3>1. K \in SUBSET T /\ a \in T
      BY <2>3
    <3> HIDE DEF G
    <3>2. M \ {a} = (S \ T) \cup L
      BY <3>1
    <3> QED
      BY <2>3, <3>1, <3>2
  <2>6. Sum(K) = Sum(L) + f[a] /\ f[a] \in Nat
    <3>1. IsFiniteSet(K) /\ \A x \in K : f[x] \in Nat
      BY <1>1, <2>5
    <3> QED
      BY <2>3, <3>1, SumWith DEF Sum
  <2>7. Sum(M) = Sum(M \ {a}) + f[a]
    <3>1. IsFiniteSet(M) /\ \A x \in M : f[x] \in Nat
      BY <1>1, <2>5
    <3> HIDE DEF M
    <3> QED
      BY <2>5, <3>1, SumWith DEF Sum
  <2>8. Sum(M) # Sum(S \ T) + Sum(K)
    OBVIOUS
  <2>9. Sum(L) \in Nat /\ Sum(S \ T) \in Nat
    BY <1>1, <2>5
  <2> HIDE DEF L, M
  <2> QED
    BY <2>4, <2>5, <2>6, <2>7, <2>8, <2>9
<1>4. T \in SUBSET T /\ (S \ T) \cup T = S
  OBVIOUS
<1>5. Sum(S) = Sum(S \ T) + Sum(T)
  BY <1>3, <1>4
<1> QED
  BY <1>1, <1>5 DEF Sum

\* A sum does not depend on the function outside the set.
LEMMA SumSame ==
  ASSUME NEW S, IsFiniteSet(S), NEW f, NEW g, \A x \in S : f[x] = g[x]
  PROVE  SumFunctionOnSet(f, S) = SumFunctionOnSet(g, S)
<1> DEFINE F == {K \in SUBSET S : SumFunctionOnSet(f, K) # SumFunctionOnSet(g, K)}
<1> SUFFICES ASSUME S \in F
             PROVE  FALSE
  OBVIOUS
<1>1. PICK K \in F : \A L \in F : L \subseteq K => L = K
  <2>1. F \subseteq SUBSET S /\ F # {}
    OBVIOUS
  <2> HIDE DEF F
  <2> QED
    BY <2>1, SmallestSet
<1>2. IsFiniteSet(K)
  BY FS_Subset
<1>3. K # {}
  BY SumOfNothing
<1>4. Picked(K) \in K
  BY <1>3, PickedIsMember
<1>5. SumFunctionOnSet(f, K \ {Picked(K)}) = SumFunctionOnSet(g, K \ {Picked(K)})
  BY <1>1, <1>4
<1> QED
  BY <1>2, <1>4, <1>5, SumStep

-----------------------------------------------------------------------------
(* Quantities of items *)

\* QtyOf, for the items q of this or the next state.
Qtys(q, K) == SumFunction([k \in K |-> q[k].qty])

\* It is QtyOf.
LEMMA QtyOfIsQtys == \A K : QtyOf(K) = Qtys(item, K)
  BY DEF QtyOf, Qtys

\* What quantities add up to is a natural number, nothing for no items and the quantity for
\* one; it can be taken apart.
LEMMA QtysSplit ==
  ASSUME NEW K, IsFiniteSet(K), NEW q, \A k \in K : q[k].qty \in Nat, NEW T \in SUBSET K
  PROVE  /\ Qtys(q, K) \in Nat /\ Qtys(q, T) \in Nat /\ Qtys(q, K \ T) \in Nat
         /\ Qtys(q, K) = Qtys(q, T) + Qtys(q, K \ T)
<1> DEFINE f(M) == [k \in M |-> q[k].qty]
<1>1. \A M \in SUBSET K : /\ IsFiniteSet(M)
                          /\ \A k \in M : f(M)[k] = f(K)[k] /\ f(K)[k] \in Nat
                          /\ Qtys(q, M) = SumFunctionOnSet(f(M), M)
  BY FS_Subset DEF Qtys, SumFunction
<1> HIDE DEF f
<1>2. \A M \in SUBSET K : /\ IsFiniteSet(M) /\ Qtys(q, M) = SumFunctionOnSet(f(K), M)
                          /\ SumFunctionOnSet(f(K), M) \in Nat
  BY <1>1, SumSame, SumType
<1>3. SumFunctionOnSet(f(K), K) = SumFunctionOnSet(f(K), T) + SumFunctionOnSet(f(K), K \ T)
  BY <1>1, SumSplit
<1> QED
  BY <1>2, <1>3

\* Nothing adds up to nothing.
LEMMA QtysOfNothing == \A q : Qtys(q, {}) = 0
  BY SumOfNothing DEF Qtys, SumFunction

\* One item adds up to its quantity.
LEMMA QtysOfOne ==
  ASSUME NEW q, NEW k, q[k].qty \in Nat
  PROVE  Qtys(q, {k}) = q[k].qty
<1> DEFINE f == [x \in {k} |-> q[x].qty]
<1>1. IsFiniteSet({k}) /\ {k} \ {k} = {}
  BY FS_Singleton
<1>2. f[k] = q[k].qty /\ (\A x \in {k} : f[x] \in Nat) /\ Qtys(q, {k}) = SumFunctionOnSet(f, {k})
  BY DEF Qtys, SumFunction
<1> HIDE DEF f
<1>3. SumFunctionOnSet(f, {k}) = SumFunctionOnSet(f, {k} \ {k}) + f[k]
  BY <1>1, <1>2, SumWith
<1> QED
  BY <1>1, <1>2, <1>3, SumOfNothing

\* Only the quantities of the items themselves count.
LEMMA QtysSame ==
  ASSUME NEW K, NEW q1, NEW q2, \A k \in K : q1[k].qty = q2[k].qty
  PROVE  Qtys(q1, K) = Qtys(q2, K)
<1>1. [k \in K |-> q1[k].qty] = [k \in K |-> q2[k].qty]
  OBVIOUS
<1> QED
  BY <1>1 DEF Qtys

-----------------------------------------------------------------------------
(* What a transaction has booked *)

\* The handlers that go through a list of items.
Looping == {"cancel", "expire", "confirm"}

\* The items the open transaction of p has given back, or sold, so far.
GivenBack(p) ==
    IF proc[p].op = "remove" /\ proc[p].at \in {"count", "sum", "cancel", "finish"} THEN {proc[p].item}
    ELSE IF proc[p].op \in Looping /\ proc[p].at \in {"release", "consume", "finish"}
    THEN proc[p].seen \ (proc[p].todo \cup {proc[p].item}) ELSE {}
SoldBy(p) == IF proc[p].op = "confirm" THEN GivenBack(p) ELSE {}
Of(K, i) == {k \in K : item[k].inv = i}

\* What addItem wants of inventory i, and what its open transaction has reserved of it.
Asked(p, i) == IF i = proc[p].inv THEN proc[p].qty ELSE 0
Reserved(p, i) == IF proc[p].op = "add" /\ proc[p].at = "finish" THEN Asked(p, i) ELSE 0

\* A loop goes once through the items it has listed, which are of its request; removeItem keeps
\* the item it has deleted from everybody else.
Passing(p) ==
    /\ proc[p].op \notin Looping => proc[p].seen = {}
    /\ proc[p].op \in Looping /\ proc[p].at \in {"release", "consume"} =>
         proc[p].item \in proc[p].seen /\ proc[p].todo \subseteq proc[p].seen \ {proc[p].item}
    /\ proc[p].op \in Looping /\ proc[p].at = "finish" => proc[p].todo = {} /\ proc[p].item \notin Items
    /\ \A k \in proc[p].seen : item[k].req = proc[p].req
    /\ proc[p].op = "remove" => item[proc[p].item].req = proc[p].req
    /\ proc[p].op = "remove" /\ proc[p].at # "delete" =>
         item[proc[p].item].state = "live" /\ itemLock[proc[p].item] = p

\* A row p has written differs from the committed one by what p has booked.
Reserving(p) == \A i \in Inventories :
    Visible(p, i).reserved = inv[i].reserved + Reserved(p, i) - QtyOf(Of(GivenBack(p), i))
Selling(p) == \A i \in Inventories : Visible(p, i).sold = inv[i].sold + QtyOf(Of(SoldBy(p), i))
Books(p) == Passing(p) /\ Reserving(p) /\ Selling(p)

\* Invoices are finitely many, and their items exist.
InvoicesOK ==
    /\ IsFiniteSet(AllInvoices)
    /\ \A v \in AllInvoices : invoices[v[1]][v[2]].lines \subseteq Present
Sales == InvoicesOK /\ SoldMatchesInvoices

BookInv == (\A p \in Procs : Books(p)) /\ Sales

\* The rows and items a statement or a COMMIT of p touches are not those others have locked.
Wrote(p) ==
    /\ inv' = inv
    /\ \E i \in Inventories : /\ FreeFor(p, invLock[i])
                              /\ invLock' = [invLock EXCEPT ![i] = p]
                              /\ \A j \in Inventories \ {i} : invDraft'[j] = invDraft[j]
RowStep(p) == UNCHANGED inventoryVars \/ Wrote(p) \/ CommitInventories(p)
SameRows(q) == \A i \in Inventories :
    /\ invLock'[i] = q <=> invLock[i] = q
    /\ invLock[i] = q => invDraft'[i] = invDraft[i] /\ inv'[i] = inv[i]
SameItems(q) == \A k \in Present : itemLock[k] = q => itemLock'[k] = q /\ item'[k] = item[k]

\* What is known of an item that exists does not change, except that it may be deleted.
ItemsKept == /\ Present \subseteq Present'
             /\ \A k \in Present : /\ item'[k].inv = item[k].inv
                                   /\ item'[k].qty = item[k].qty
                                   /\ item'[k].req = item[k].req

\* The types of items.
LEMMA ItemTypes ==
  ASSUME TypeOK
  PROVE  /\ IsFiniteSet(Items) /\ Present \subseteq Items
         /\ \A k \in Present : /\ item[k].qty \in Nat /\ item[k].qty \in Quantities
                               /\ item[k].inv \in Inventories /\ item[k].req \in Requests
<1>1. IsFiniteSet(Items)
  BY BoundsAssumption, FS_Interval DEF Items
<1>2. \A k \in Present : item[k] \in ItemRows
  BY DEF TypeOK, Present, NoItem
<1> QED
  BY <1>1, <1>2, InventoriesAssumption DEF Present, ItemRows

\* The quantities of existing items add up.
LEMMA QtyOfParts ==
  ASSUME TypeOK, NEW K \in SUBSET Present, NEW T \in SUBSET K
  PROVE  /\ QtyOf(K) \in Nat /\ QtyOf(T) \in Nat /\ QtyOf(K \ T) \in Nat
         /\ QtyOf(K) = QtyOf(T) + QtyOf(K \ T)
<1>1. IsFiniteSet(K) /\ \A k \in K : item[k].qty \in Nat
  BY ItemTypes, FS_Subset
<1> QED
  BY <1>1, QtysSplit, QtyOfIsQtys, ZenonT(40)

\* So do the items of this state.
LEMMA QtyOfOne ==
  ASSUME TypeOK, NEW k \in Present
  PROVE  QtyOf({k}) = item[k].qty /\ QtyOf({}) = 0
  BY ItemTypes, QtysOfOne, QtysOfNothing, QtyOfIsQtys

\* Sums over items that exist stay what they are.
LEMMA QtyOfKept ==
  ASSUME ItemsKept, NEW K \in SUBSET Present
  PROVE  Qtys(item', K) = QtyOf(K)
  BY QtysSame, QtyOfIsQtys DEF ItemsKept

\* The items of an inventory among some that exist stay the same.
LEMMA OfKept ==
  ASSUME ItemsKept, NEW K \in SUBSET Present, NEW i
  PROVE  {k \in K : item'[k].inv = i} = Of(K, i) /\ Of(K, i) \in SUBSET Present
  BY DEF ItemsKept, Of

\* Every step keeps the items.
LEMMA KeepItems ==
  ASSUME Inv, [Next]_vars
  PROVE  ItemsKept
<1> SUFFICES ASSUME item' # item
             PROVE  ItemsKept
  BY DEF ItemsKept, Present
<1>1. \A p \in Procs : ~Throw(p)
  BY DEF Throw, Abort
<1>2. item \in [Items -> ItemRows \cup {NoItem}]
  BY DEF Inv, TypeOK
<1>3. ASSUME NEW s \in Sessions, HandlerStep(s)
      PROVE  ItemsKept
  <2>1. s \in Procs
    BY DEF Procs
  <2>2. CASE CreateItem(s)
    <3>1. PICK k \in UnusedItems :
            item' = [item EXCEPT ![k] = [state |-> "live", req |-> proc[s].req, inv |-> proc[s].inv,
                                         qty |-> proc[s].qty]]
      BY <1>1, <2>1, <2>2 DEF CreateItem
    <3>2. k \in Items /\ k \notin Present
      BY DEF UnusedItems, Present
    <3> QED
      BY <1>2, <3>1, <3>2 DEF ItemsKept, Present
  <2>3. CASE SetTotal(s) \/ CancelEmptyRequest(s)
    <3>1. item' = [item EXCEPT ![proc[s].item].state = "deleted"]
      BY <2>3 DEF SetTotal, CancelEmptyRequest, DeleteItem
    <3>2. \A k \in Present : item[k] \in ItemRows
      BY <1>2 DEF Present, NoItem
    <3>3. \A k \in Present : item'[k].inv = item[k].inv /\ item'[k].qty = item[k].qty /\ item'[k].req = item[k].req
      BY <1>2, <3>1, <3>2 DEF Present, ItemRows
    <3>4. \A k \in Present : item'[k].state # "absent"
      BY <1>2, <3>1, <3>2, SMTT(40) DEF Present, ItemRows
    <3> QED
      BY <3>3, <3>4 DEF ItemsKept, Present
  <2>4. ~(\/ FindLatestActiveRequest(s) \/ CreateRequest(s) \/ TouchRequestExpiry(s) \/ ReserveForItem(s)
          \/ DeleteItemForOpenRequest(s) \/ CountItems(s) \/ SumItems(s) \/ ListItemsToCancel(s))
    BY <1>1, <2>1 DEF FindLatestActiveRequest, CreateRequest, TouchRequestExpiry, ReserveForItem,
                      DeleteItemForOpenRequest, CountItems, SumItems, ListItemsToCancel, itemVars
  <2>5. ~(\/ ListItemsToSell(s) \/ CreateInvoice(s) \/ SellItem(s) \/ CommitRestock(s) \/ ReleaseForItem(s)
          \/ SetRequestCancelled(s) \/ SetRequestConfirmed(s))
    BY <1>1, <2>1, SMTT(40) DEF ListItemsToSell, CreateInvoice, SellItem, CommitRestock, ReleaseForItem,
                      SetRequestCancelled, SetRequestConfirmed, itemVars
  <2> QED
    BY <1>3, <2>2, <2>3, <2>4, <2>5 DEF HandlerStep
<1>4. ASSUME NEW s \in Sessions, StartHandler(s)
      PROVE  FALSE
  BY <1>4, ZenonT(40) DEF StartHandler, AddItem, RemoveItem, Confirm, Cancel, Start, RestockInventory, itemVars
<1>5. ASSUME NEW w \in Workers, ExpireOpenPurchaseRequests(w) \/ WorkerStep(w) \/ Crash(w)
      PROVE  FALSE
  <2>1. w \in Procs
    BY DEF Procs
  <2> QED
    BY <1>1, <1>5, <2>1 DEF ExpireOpenPurchaseRequests, Start, WorkerStep, LockExpiredRequest, ReleaseForItem,
                            SetRequestExpired, Crash, Abort, itemVars
<1>6. ~((\E p \in Procs : DeadlockDetected(p)) \/ Tick \/ UNCHANGED vars)
  BY <1>1 DEF DeadlockDetected, Tick, vars, itemVars
<1> QED
  BY <1>3, <1>4, <1>5, <1>6 DEF Next

\* A statement or a COMMIT leaves the rows of other transactions alone.
LEMMA OthersRows ==
  ASSUME Inv, NEW p \in Procs, RowStep(p), NEW q \in Procs, q # p
  PROVE  SameRows(q)
<1>1. /\ invLock \in [Inventories -> Procs \cup {None}]
      /\ invDraft \in [Inventories -> StoreInventoryRow]
      /\ inv \in [Inventories -> StoreInventoryRow]
      /\ None \notin Procs
  BY ProcsAssumption DEF Inv, TypeOK
<1>2. CASE UNCHANGED inventoryVars
  BY <1>2 DEF inventoryVars, SameRows
<1>3. CASE Wrote(p)
  BY <1>1, <1>3 DEF Wrote, FreeFor, SameRows
<1>4. CASE CommitInventories(p)
  BY <1>1, <1>4 DEF CommitInventories, Unlock, SameRows
<1> QED
  BY <1>2, <1>3, <1>4 DEF RowStep

\* So does a ROLLBACK.
LEMMA AbortRows ==
  ASSUME Inv, NEW P \in SUBSET Procs, Abort(P), NEW q \in Procs \ P
  PROVE  SameRows(q) /\ proc'[q] = proc[q]
<1>1. /\ invLock \in [Inventories -> Procs \cup {None}]
      /\ None \notin Procs
  BY ProcsAssumption DEF Inv, TypeOK
<1> QED
  BY <1>1 DEF Abort, RollbackInventories, Unlock, SameRows

\* What a process has given back, reserved and sold exists.
LEMMA BookedPresent ==
  ASSUME Inv, NEW p \in Procs
  PROVE  /\ GivenBack(p) \in SUBSET Present /\ SoldBy(p) \in SUBSET Present
         /\ \A i : Of(GivenBack(p), i) \in SUBSET Present /\ Of(SoldBy(p), i) \in SUBSET Present
         /\ \A i : QtyOf(Of(GivenBack(p), i)) \in Nat /\ QtyOf(Of(SoldBy(p), i)) \in Nat
         /\ \A i : Reserved(p, i) \in Nat /\ Asked(p, i) \in Int
<1>1. WellFormed(p) /\ proc[p] \in Locals
  BY DEF Inv, TypeOK
<1>2. GivenBack(p) \in SUBSET Present /\ SoldBy(p) \in SUBSET Present
  BY <1>1 DEF WellFormed, SoldBy, GivenBack
<1>3. \A i : Of(GivenBack(p), i) \in SUBSET Present /\ Of(SoldBy(p), i) \in SUBSET Present
  BY <1>2 DEF Of
<1>4. \A K \in SUBSET Present : QtyOf(K) \in Nat
  BY QtyOfParts DEF Inv
<1>5. \A i : Reserved(p, i) \in Nat
  BY <1>1, QuantitiesAreIntegers DEF Reserved, Asked, WellFormed
<1>6. proc[p].qty \in Int
  BY <1>1, QuantitiesAreIntegers DEF Locals
<1> QED
  BY <1>2, <1>3, <1>4, <1>5, <1>6 DEF Asked

\* The sums over what a process has booked in the next state, when these are items that exist.
LEMMA BookedLater ==
  ASSUME ItemsKept, NEW p, NEW i, NEW K \in SUBSET Present
  PROVE  /\ GivenBack(p)' = K => QtyOf(Of(GivenBack(p), i))' = QtyOf(Of(K, i))
         /\ SoldBy(p)' = K => QtyOf(Of(SoldBy(p), i))' = QtyOf(Of(K, i))
<1>1. /\ QtyOf(Of(GivenBack(p), i))' = Qtys(item', {k \in GivenBack(p)' : item'[k].inv = i})
      /\ QtyOf(Of(SoldBy(p), i))' = Qtys(item', {k \in SoldBy(p)' : item'[k].inv = i})
  BY DEF QtyOf, Qtys, Of
<1>2. Qtys(item', {k \in K : item'[k].inv = i}) = QtyOf(Of(K, i))
  BY OfKept, QtyOfKept
<1> QED
  BY <1>1, <1>2

\* The step of another process does not disturb what q has booked.
LEMMA BooksKept ==
  ASSUME Inv, Inv', ItemsKept, NEW q \in Procs, Books(q), proc'[q] = proc[q], SameRows(q), SameItems(q)
  PROVE  Books(q)'
<1>1. GivenBack(q)' = GivenBack(q) /\ SoldBy(q)' = SoldBy(q) /\ \A i : Reserved(q, i)' = Reserved(q, i)
  BY DEF GivenBack, SoldBy, Reserved, Asked
<1>2. \A i \in Inventories : /\ QtyOf(Of(GivenBack(q), i))' = QtyOf(Of(GivenBack(q), i))
                             /\ QtyOf(Of(SoldBy(q), i))' = QtyOf(Of(SoldBy(q), i))
  BY <1>1, BookedPresent, BookedLater
<1>3. ASSUME NEW i \in Inventories
      PROVE  /\ Visible(q, i)'.reserved = inv'[i].reserved + Reserved(q, i)' - QtyOf(Of(GivenBack(q), i))'
             /\ Visible(q, i)'.sold = inv'[i].sold + QtyOf(Of(SoldBy(q), i))'
  <2>1. /\ inv[i].sold \in Int /\ inv'[i].sold \in Int /\ inv[i].reserved \in Int /\ inv'[i].reserved \in Int
        /\ QtyOf(Of(SoldBy(q), i)) \in Nat /\ QtyOf(Of(GivenBack(q), i)) \in Nat /\ Reserved(q, i) \in Nat
    BY BookedPresent DEF Inv, TypeOK, StoreInventoryRow
  <2>2. /\ Visible(q, i).reserved = inv[i].reserved + Reserved(q, i) - QtyOf(Of(GivenBack(q), i))
        /\ Visible(q, i).sold = inv[i].sold + QtyOf(Of(SoldBy(q), i))
    BY DEF Books, Reserving, Selling
  <2>3. CASE invLock[i] = q
    <3>1. Visible(q, i)' = Visible(q, i) /\ inv'[i] = inv[i]
      BY <2>3 DEF SameRows, Visible
    <3> QED
      BY <1>1, <1>2, <2>2, <3>1
  <2>4. CASE invLock[i] # q
    <3>1. Visible(q, i)' = inv'[i] /\ Visible(q, i) = inv[i]
      BY <2>4 DEF SameRows, Visible
    <3>2. Reserved(q, i) = QtyOf(Of(GivenBack(q), i)) /\ QtyOf(Of(SoldBy(q), i)) = 0
      BY <2>1, <2>2, <3>1
    <3>3. Reserved(q, i)' = QtyOf(Of(GivenBack(q), i))' /\ QtyOf(Of(SoldBy(q), i))' = 0 /\ Reserved(q, i)' \in Nat
      BY <1>1, <1>2, <2>1, <3>2
    <3> QED
      BY <2>1, <3>1, <3>3
  <2> QED
    BY <2>3, <2>4
<1>4. Passing(q)'
  <2>1. /\ proc[q].seen \subseteq Present
        /\ proc[q].op = "remove" => proc[q].item \in Present /\ proc[q].item \in Items
    BY DEF Inv, WellFormed, Present
  <2>2. \A k \in proc[q].seen : item'[k].req = proc[q].req
    BY <2>1 DEF ItemsKept, Books, Passing
  <2>3. proc[q].op = "remove" => item'[proc[q].item].req = proc[q].req
    BY <2>1 DEF ItemsKept, Books, Passing
  <2>4. proc[q].op = "remove" /\ proc[q].at # "delete" =>
          item'[proc[q].item].state = "live" /\ itemLock'[proc[q].item] = q
    BY <2>1 DEF SameItems, Present, Books, Passing
  <2> QED
    BY <2>2, <2>3, <2>4 DEF Books, Passing
<1> QED
  BY <1>3, <1>4 DEF Books, Reserving, Selling

\* A process that has booked nothing.
LEMMA NoBooks ==
  ASSUME Inv', NEW p \in Procs, proc'[p].seen = {},
         proc'[p].op \in {"idle", "restock"} \/ (proc'[p].op = "expire" /\ proc'[p].at = "next")
  PROVE  Books(p)'
<1>1. GivenBack(p)' = {} /\ SoldBy(p)' = {} /\ \A i \in Inventories : Reserved(p, i)' = 0
  BY DEF GivenBack, SoldBy, Reserved
<1>2. \A i \in Inventories : /\ Visible(p, i)'.reserved = inv'[i].reserved
                             /\ Visible(p, i)'.sold = inv'[i].sold
  BY DEF Inv, Booked, Booking, Visible
<1>3. \A i \in Inventories : inv'[i].reserved \in Int /\ inv'[i].sold \in Int
  BY DEF Inv, TypeOK, StoreInventoryRow
<1>4. \A i \in Inventories : QtyOf(Of(GivenBack(p), i))' = 0 /\ QtyOf(Of(SoldBy(p), i))' = 0
  <2> SUFFICES ASSUME NEW i \in Inventories
               PROVE  QtyOf(Of(GivenBack(p), i))' = 0 /\ QtyOf(Of(SoldBy(p), i))' = 0
    OBVIOUS
  <2>1. /\ QtyOf(Of(GivenBack(p), i))' = Qtys(item', {k \in GivenBack(p)' : item'[k].inv = i})
        /\ QtyOf(Of(SoldBy(p), i))' = Qtys(item', {k \in SoldBy(p)' : item'[k].inv = i})
    BY DEF QtyOf, Qtys, Of
  <2>2. {k \in {} : item'[k].inv = i} = {}
    OBVIOUS
  <2> QED
    BY <1>1, <2>1, <2>2, QtysOfNothing
<1>5. Passing(p)'
  BY DEF Passing, Looping
<1>6. Reserving(p)' /\ Selling(p)'
  BY <1>1, <1>2, <1>3, <1>4 DEF Reserving, Selling
<1> QED
  BY <1>5, <1>6 DEF Books

\* The invoices, and what is sold on them, when no invoice is written.
LEMMA InvoicesKept ==
  ASSUME Inv, Sales, ItemsKept, invoices' = invoices, \A i \in Inventories : inv'[i].sold = inv[i].sold
  PROVE  Sales'
<1>1. AllInvoices' = AllInvoices
  BY DEF AllInvoices
<1>2. InvoicesOK'
  BY <1>1 DEF Sales, InvoicesOK, ItemsKept
<1>3. ASSUME NEW i \in Inventories
      PROVE  SoldOnInvoices(i)' = SoldOnInvoices(i)
  <2> DEFINE K(v) == {k \in invoices[v[1]][v[2]].lines : item[k].inv = i}
             L(v) == {k \in invoices[v[1]][v[2]].lines : item'[k].inv = i}
  <2>1. ASSUME NEW v \in AllInvoices
        PROVE  L(v) = K(v) /\ Qtys(item', K(v)) = QtyOf(K(v))
    <3>1. invoices[v[1]][v[2]].lines \in SUBSET Present
      BY DEF Sales, InvoicesOK
    <3> QED
      BY <3>1, OfKept, QtyOfKept DEF Of
  <2>2. SoldOnInvoices(i)' = SumFunction([v \in AllInvoices |-> Qtys(item', L(v))])
    BY <1>1 DEF SoldOnInvoices, QtyOf, Qtys
  <2>3. SoldOnInvoices(i) = SumFunction([v \in AllInvoices |-> QtyOf(K(v))])
    BY DEF SoldOnInvoices
  <2> HIDE DEF K, L
  <2>4. [v \in AllInvoices |-> Qtys(item', L(v))] = [v \in AllInvoices |-> QtyOf(K(v))]
    BY <2>1
  <2> QED
    BY <2>2, <2>3, <2>4
<1>4. SoldMatchesInvoices'
  BY <1>3 DEF Sales, SoldMatchesInvoices
<1> QED
  BY <1>2, <1>4 DEF Sales

\* A step of one process.
LEMMA BookStep ==
  ASSUME Inv, BookInv, Inv', ItemsKept, NEW p \in Procs, RowStep(p),
         \A q \in Procs \ {p} : proc'[q] = proc[q] /\ SameItems(q), Books(p)', Sales'
  PROVE  BookInv'
<1>1. \A q \in Procs \ {p} : Books(q)'
  BY OthersRows, BooksKept DEF BookInv
<1> QED
  BY <1>1 DEF BookInv

\* What Become and the write of one row do.
LEMMA BecomeOthers ==
  ASSUME Inv, NEW p \in Procs, NEW l, Become(p, l)
  PROVE  proc'[p] = l /\ \A q \in Procs \ {p} : proc'[q] = proc[q]
  BY DEF Become, Inv, TypeOK

\* The write of a row is a step on rows.
LEMMA WriteIsRowStep ==
  ASSUME Inv, NEW p \in Procs, NEW i \in Inventories, NEW new, WriteInventory(p, i, new)
  PROVE  RowStep(p)
<1>1. invDraft \in [Inventories -> StoreInventoryRow]
  BY DEF Inv, TypeOK
<1> QED
  BY <1>1 DEF WriteInventory, Wrote, RowStep

\* A statement that writes no row: what p has booked is what it had.
LEMMA BookQuiet ==
  ASSUME Inv, BookInv, Inv', NEW p \in Procs, \A q \in Procs \ {p} : proc'[q] = proc[q] /\ SameItems(q),
         UNCHANGED <<item, invoices, inventoryVars>>, Passing(p)',
         \A i \in Inventories : Reserved(p, i)' = Reserved(p, i),
         GivenBack(p)' = GivenBack(p), SoldBy(p)' = SoldBy(p)
  PROVE  BookInv'
<1>1. ItemsKept
  BY DEF ItemsKept, Present
<1>2. Sales'
  BY <1>1, InvoicesKept DEF BookInv, inventoryVars
<1>3. \A i \in Inventories : Visible(p, i)' = Visible(p, i)
  BY DEF Visible, inventoryVars
<1>4. \A i \in Inventories : /\ QtyOf(Of(GivenBack(p), i))' = QtyOf(Of(GivenBack(p), i))
                             /\ QtyOf(Of(SoldBy(p), i))' = QtyOf(Of(SoldBy(p), i))
  BY <1>1, BookedPresent, BookedLater
<1>5. Reserving(p)' /\ Selling(p)'
  BY <1>3, <1>4 DEF BookInv, Books, Reserving, Selling, inventoryVars
<1> QED
  BY <1>1, <1>2, <1>5, BookStep DEF Books, RowStep

\* A statement that writes the version new of row i.
LEMMA BookWrite ==
  ASSUME Inv, BookInv, Inv', NEW p \in Procs, \A q \in Procs \ {p} : proc'[q] = proc[q],
         UNCHANGED <<item, itemLock, invoices>>, Passing(p)',
         NEW i \in Inventories, NEW new, WriteInventory(p, i, new),
         NEW G \in SUBSET Present, GivenBack(p)' = G, NEW S \in SUBSET Present, SoldBy(p)' = S,
         new.reserved = inv[i].reserved + Reserved(p, i)' - QtyOf(Of(G, i)),
         new.sold = inv[i].sold + QtyOf(Of(S, i)),
         \A j \in Inventories \ {i} : /\ Reserved(p, j)' = Reserved(p, j)
                                      /\ Of(G, j) = Of(GivenBack(p), j)
                                      /\ Of(S, j) = Of(SoldBy(p), j)
  PROVE  BookInv'
<1>1. ItemsKept
  BY DEF ItemsKept, Present
<1>2. inv' = inv /\ invDraft'[i] = new /\ invLock'[i] = p
  BY DEF WriteInventory, Inv, TypeOK
<1>3. \A j \in Inventories \ {i} : invDraft'[j] = invDraft[j] /\ invLock'[j] = invLock[j]
  BY DEF WriteInventory, Inv, TypeOK
<1>4. Sales'
  BY <1>1, <1>2, InvoicesKept DEF BookInv
<1>5. \A j \in Inventories : /\ QtyOf(Of(GivenBack(p), j))' = QtyOf(Of(G, j))
                             /\ QtyOf(Of(SoldBy(p), j))' = QtyOf(Of(S, j))
  BY <1>1, BookedLater
<1>6. ASSUME NEW j \in Inventories
      PROVE  /\ Visible(p, j)'.reserved = inv'[j].reserved + Reserved(p, j)' - QtyOf(Of(GivenBack(p), j))'
             /\ Visible(p, j)'.sold = inv'[j].sold + QtyOf(Of(SoldBy(p), j))'
  <2>1. CASE j = i
    BY <1>2, <1>5, <2>1 DEF Visible
  <2>2. CASE j # i
    <3>1. /\ Visible(p, j).reserved = inv[j].reserved + Reserved(p, j) - QtyOf(Of(GivenBack(p), j))
          /\ Visible(p, j).sold = inv[j].sold + QtyOf(Of(SoldBy(p), j))
      BY DEF BookInv, Books, Reserving, Selling
    <3>2. Visible(p, j)' = Visible(p, j)
      BY <1>2, <1>3, <2>2 DEF Visible
    <3> QED
      BY <1>2, <1>5, <2>2, <3>1, <3>2
  <2> QED
    BY <2>1, <2>2
<1>7. Books(p)'
  BY <1>6 DEF Books, Reserving, Selling
<1>8. RowStep(p) /\ \A q \in Procs \ {p} : SameItems(q)
  BY WriteIsRowStep DEF SameItems, Present
<1> QED
  BY <1>1, <1>4, <1>7, <1>8, BookStep

\* COMMIT books what the transaction has reserved, given back and sold.
LEMMA CommitSums ==
  ASSUME Inv, NEW p \in Procs, Books(p), CommitInventories(p)
  PROVE  \A i \in Inventories :
            /\ inv'[i].reserved = inv[i].reserved + Reserved(p, i) - QtyOf(Of(GivenBack(p), i))
            /\ inv'[i].sold = inv[i].sold + QtyOf(Of(SoldBy(p), i))
  BY DEF CommitInventories, Visible, Books, Reserving, Selling

\* The end of a transaction that writes no invoice.
LEMMA BookCommit ==
  ASSUME Inv, BookInv, Inv', ItemsKept, NEW p \in Procs, CommitInventories(p), NEW l, Become(p, l),
         \A q \in Procs \ {p} : SameItems(q), proc[p].op # "confirm", invoices' = invoices,
         l.seen = {}, l.op = "idle" \/ (l.op = "expire" /\ l.at = "next")
  PROVE  BookInv'
<1>1. proc'[p] = l /\ \A q \in Procs \ {p} : proc'[q] = proc[q]
  BY BecomeOthers
<1>2. Books(p)'
  BY <1>1, NoBooks
<1>3. \A i \in Inventories : inv'[i].sold = inv[i].sold
  <2> SUFFICES ASSUME NEW i \in Inventories
               PROVE  inv'[i].sold = inv[i].sold
    OBVIOUS
  <2>1. inv'[i].sold = inv[i].sold + QtyOf(Of(SoldBy(p), i))
    BY CommitSums DEF BookInv
  <2>2. Of(SoldBy(p), i) = {}
    BY DEF SoldBy, Of
  <2>3. QtyOf({}) = 0 /\ inv[i].sold \in Int
    BY QtysOfNothing, QtyOfIsQtys DEF Inv, TypeOK, StoreInventoryRow
  <2> QED
    BY <2>1, <2>2, <2>3
<1>4. Sales'
  BY <1>3, InvoicesKept DEF BookInv
<1> QED
  BY <1>1, <1>2, <1>4, BookStep DEF RowStep

\* A ROLLBACK.
LEMMA BookAbort ==
  ASSUME Inv, BookInv, Inv', NEW P \in SUBSET Procs, Abort(P)
  PROVE  BookInv'
<1>1. ItemsKept
  BY DEF Abort, ItemsKept, Present
<1>2. \A p \in P : Books(p)'
  <2>1. \A p \in P : proc'[p] = Idle
    BY DEF Abort
  <2>2. Idle.op = "idle" /\ Idle.seen = {}
    BY DEF Idle
  <2> QED
    BY <2>1, <2>2, NoBooks
<1>3. \A q \in Procs \ P : SameItems(q)
  <2>1. itemLock \in [Items -> Procs \cup {None}]
    BY DEF Inv, TypeOK
  <2> QED
    BY <2>1 DEF Abort, Unlock, SameItems, Present
<1>4. \A q \in Procs \ P : Books(q)'
  BY <1>1, <1>3, AbortRows, BooksKept DEF BookInv
<1>5. invoices' = invoices /\ inv' = inv
  BY DEF Abort, RollbackInventories
<1>6. Sales'
  BY <1>1, <1>5, InvoicesKept DEF BookInv
<1> QED
  BY <1>2, <1>4, <1>6 DEF BookInv


\* The next round of a loop, in detail.
LEMMA NextItemParts ==
  ASSUME NEW l \in Locals, NEW K, NEW at, NEW n \in NextItem(l, K, at)
  PROVE  /\ n.op = l.op /\ n.seen = l.seen /\ n.req = l.req /\ n.total = l.total
         /\ \/ K = {} /\ n.at = "finish" /\ n.todo = {} /\ n.item = 0
            \/ n.at = at /\ n.item \in K /\ n.todo = K \ {n.item}
<1>1. CASE K = {}
  <2>1. n = [l EXCEPT !.at = "finish", !.item = 0, !.todo = {}]
    BY <1>1 DEF NextItem
  <2> QED
    BY <1>1, <2>1 DEF Locals
<1>2. CASE K # {}
  <2>1. PICK k \in K : n = [l EXCEPT !.at = at, !.item = k, !.todo = K \ {k}]
    BY <1>2 DEF NextItem
  <2>2. n.at = at /\ n.item = k /\ n.todo = K \ {k}
    BY <2>1 DEF Locals
  <2>3. n.op = l.op /\ n.seen = l.seen /\ n.req = l.req /\ n.total = l.total
    BY <2>1 DEF Locals
  <2> QED
    BY <2>2, <2>3
<1> QED
  BY <1>1, <1>2

\* A loop that goes on to the next of the items K has given back the other ones it has listed.
LEMMA LoopBooks ==
  ASSUME Inv, NEW p \in Procs, NEW l \in Locals, l.op \in Looping, NEW K \in SUBSET l.seen,
         l.seen \subseteq Present, \A k \in l.seen : item[k].req = l.req, UNCHANGED <<item, itemLock>>,
         NEW at \in {"release", "consume"}, NEW n \in NextItem(l, K, at), proc'[p] = n
  PROVE  /\ Passing(p)' /\ GivenBack(p)' = l.seen \ K
         /\ SoldBy(p)' = IF l.op = "confirm" THEN l.seen \ K ELSE {}
         /\ \A i : Reserved(p, i)' = 0
<1>1. /\ n.op = l.op /\ n.seen = l.seen /\ n.req = l.req
      /\ \/ K = {} /\ n.at = "finish" /\ n.todo = {} /\ n.item = 0
         \/ n.at = at /\ n.item \in K /\ n.todo = K \ {n.item}
  BY NextItemParts
<1>2. Present \subseteq Items /\ 0 \notin Items
  BY DEF Present, Items
<1>3. GivenBack(p)' = l.seen \ K
  BY <1>1, <1>2 DEF GivenBack, Looping
<1>4. SoldBy(p)' = IF l.op = "confirm" THEN l.seen \ K ELSE {}
  BY <1>1, <1>3 DEF SoldBy
<1>5. \A i : Reserved(p, i)' = 0
  BY <1>1 DEF Reserved, Looping
<1>6. Passing(p)'
  BY <1>1, <1>2 DEF Passing, Looping
<1> QED
  BY <1>3, <1>4, <1>5, <1>6

\* Rows a process has booked nothing of are, for it, as committed.
LEMMA Unbooked ==
  ASSUME Inv, NEW p \in Procs, Books(p), NEW i \in Inventories,
         Reserved(p, i) = 0, Of(GivenBack(p), i) = {}, Of(SoldBy(p), i) = {}
  PROVE  Visible(p, i).reserved = inv[i].reserved /\ Visible(p, i).sold = inv[i].sold
<1>1. QtyOf({}) = 0
  BY QtysOfNothing, QtyOfIsQtys
<1>2. inv[i].reserved \in Int /\ inv[i].sold \in Int
  BY DEF Inv, TypeOK, StoreInventoryRow
<1>3. /\ Visible(p, i).reserved = inv[i].reserved + Reserved(p, i) - QtyOf(Of(GivenBack(p), i))
      /\ Visible(p, i).sold = inv[i].sold + QtyOf(Of(SoldBy(p), i))
  BY DEF Books, Reserving, Selling
<1>4. QtyOf(Of(GivenBack(p), i)) = 0 /\ QtyOf(Of(SoldBy(p), i)) = 0
  BY <1>1
<1> QED
  BY <1>2, <1>3, <1>4

\* A handler starts.
LEMMA BookStart ==
  ASSUME Inv, BookInv, Inv', NEW p \in Procs, NEW l, Start(p, l), l.seen = {},
         l.op \in {"idle", "add", "remove", "confirm", "cancel", "expire"},
         l.at \in {"idle", "find", "delete", "list", "next"}, l.op = "remove" => item[l.item].req = l.req /\ l.at = "delete"
  PROVE  BookInv'
<1>1. /\ proc[p].op = "idle" /\ UNCHANGED <<item, itemLock, invoices, inventoryVars>>
      /\ proc'[p] = l /\ \A q \in Procs \ {p} : proc'[q] = proc[q]
  BY BecomeOthers DEF Start, itemVars
<1>2. GivenBack(p) = {} /\ SoldBy(p) = {} /\ \A i : Reserved(p, i) = 0
  BY <1>1 DEF GivenBack, SoldBy, Reserved, Looping
<1>3. GivenBack(p)' = {} /\ SoldBy(p)' = {} /\ \A i : Reserved(p, i)' = 0
  BY <1>1 DEF GivenBack, SoldBy, Reserved, Looping
<1>4. Passing(p)'
  BY <1>1 DEF Passing, Looping
<1>5. \A q : SameItems(q)
  BY <1>1 DEF SameItems, Present
<1> QED
  BY <1>1, <1>2, <1>3, <1>4, <1>5, BookQuiet

LEMMA RestockBooks ==
  ASSUME Inv, BookInv, Inv', NEW s \in Sessions, NEW i \in Inventories, NEW qty \in Quantities,
         RestockInventory(s, i, qty)
  PROVE  BookInv'
<1> DEFINE new == LogRestock(Restock(invDraft[i], qty), qty)
           l == [Idle EXCEPT !.op = "restock", !.at = "finish", !.inv = i, !.qty = qty]
<1>1. /\ s \in Procs /\ proc[s].op = "idle" /\ WriteInventory(s, i, new) /\ Become(s, l)
      /\ UNCHANGED <<item, itemLock, invoices>>
  BY DEF Procs, RestockInventory, itemVars
<1>2. l.op = "restock" /\ l.seen = {}
  BY DEF Idle
<1> HIDE DEF l
<1>3. proc'[s] = l /\ \A q \in Procs \ {s} : proc'[q] = proc[q]
  BY <1>1, BecomeOthers
<1>4. GivenBack(s) = {} /\ SoldBy(s) = {} /\ \A j : Reserved(s, j) = 0
  BY <1>1 DEF GivenBack, SoldBy, Reserved, Looping
<1>5. GivenBack(s)' = {} /\ SoldBy(s)' = {} /\ \A j : Reserved(s, j)' = 0
  BY <1>2, <1>3 DEF GivenBack, SoldBy, Reserved, Looping
<1>6. invDraft[i] = inv[i]
  BY <1>1 DEF WriteInventory, FreeFor, Inv, Booked, Booking
<1>7. new.reserved = inv[i].reserved /\ new.sold = inv[i].sold
  BY <1>6 DEF LogRestock, Restock, Inv, TypeOK, StoreInventoryRow
<1>8. Passing(s)'
  BY <1>2, <1>3 DEF Passing, Looping
<1>9. {} \in SUBSET Present /\ Of({}, i) = {} /\ QtyOf({}) = 0 /\ inv[i].reserved \in Int /\ inv[i].sold \in Int
  BY QtysOfNothing, QtyOfIsQtys DEF Of, Inv, TypeOK, StoreInventoryRow
<1> HIDE DEF new
<1>10. /\ new.reserved = inv[i].reserved + Reserved(s, i)' - QtyOf(Of({}, i))
       /\ new.sold = inv[i].sold + QtyOf(Of({}, i))
  BY <1>5, <1>7, <1>9
<1>11. PICK none : none = {}
  OBVIOUS
<1>12. PICK row : row = new
  OBVIOUS
<1>13. /\ WriteInventory(s, i, row) /\ none \in SUBSET Present /\ GivenBack(s)' = none /\ SoldBy(s)' = none
       /\ row.reserved = inv[i].reserved + Reserved(s, i)' - QtyOf(Of(none, i))
       /\ row.sold = inv[i].sold + QtyOf(Of(none, i))
       /\ \A j \in Inventories \ {i} : /\ Reserved(s, j)' = Reserved(s, j)
                                      /\ Of(none, j) = Of(GivenBack(s), j)
                                      /\ Of(none, j) = Of(SoldBy(s), j)
  BY <1>1, <1>4, <1>5, <1>9, <1>10, <1>11, <1>12
<1> HIDE DEF new
<1> QED
  BY <1>1, <1>3, <1>8, <1>13, BookWrite

LEMMA StartBooks ==
  ASSUME Inv, BookInv, Inv', NEW s \in Sessions, StartHandler(s)
  PROVE  BookInv'
<1>1. s \in Procs
  BY DEF Procs
<1>2. ASSUME NEW u \in Users, NEW i \in Inventories, NEW qty \in Quantities, AddItem(s, u, i, qty)
      PROVE  BookInv'
  <2> DEFINE l == [Idle EXCEPT !.op = "add", !.at = "find", !.user = u, !.inv = i, !.qty = qty, !.until = now]
  <2>1. Start(s, l) /\ l.op = "add" /\ l.at = "find" /\ l.seen = {}
    BY <1>2 DEF AddItem, Idle
  <2> HIDE DEF l
  <2> QED
    BY <1>1, <2>1, BookStart
<1>3. ASSUME NEW k \in Items, RemoveItem(s, k)
      PROVE  BookInv'
  <2> DEFINE l == [Idle EXCEPT !.op = "remove", !.at = "delete", !.item = k, !.req = item[k].req]
  <2>1. Start(s, l) /\ l.op = "remove" /\ l.at = "delete" /\ l.seen = {} /\ item[l.item].req = l.req
    BY <1>3 DEF RemoveItem, Idle
  <2> HIDE DEF l
  <2> QED
    BY <1>1, <2>1, BookStart
<1>4. ASSUME NEW r \in Requests, Confirm(s, r)
      PROVE  BookInv'
  <2> DEFINE l == [Idle EXCEPT !.op = "confirm", !.at = "list", !.req = r, !.total = req[r].total]
  <2>1. Start(s, l) /\ l.op = "confirm" /\ l.at = "list" /\ l.seen = {}
    BY <1>4 DEF Confirm, Idle
  <2> HIDE DEF l
  <2> QED
    BY <1>1, <2>1, BookStart
<1>5. ASSUME NEW r \in Requests, Cancel(s, r)
      PROVE  BookInv'
  <2> DEFINE l == [Idle EXCEPT !.op = "cancel", !.at = "list", !.req = r]
  <2>1. Start(s, l) /\ l.op = "cancel" /\ l.at = "list" /\ l.seen = {}
    BY <1>5 DEF Cancel, Idle
  <2> HIDE DEF l
  <2> QED
    BY <1>1, <2>1, BookStart
<1> QED
  BY <1>2, <1>3, <1>4, <1>5, RestockBooks DEF StartHandler

\* The first steps of addItem write no row.
LEMMA OpenBooks ==
  ASSUME Inv, BookInv, Inv', NEW s \in Sessions, ~Throw(s),
         FindLatestActiveRequest(s) \/ CreateRequest(s) \/ TouchRequestExpiry(s)
  PROVE  BookInv'
<1>1. /\ s \in Procs /\ proc[s] \in Locals /\ proc[s].op = "add" /\ proc[s].at # "finish"
      /\ UNCHANGED <<item, itemLock, invoices, inventoryVars>> /\ Passing(s)
  BY DEF Procs, FindLatestActiveRequest, CreateRequest, TouchRequestExpiry, At, itemVars, BookInv, Books, Inv, TypeOK
<1>2. PICK l : Become(s, l) /\ l.op = "add" /\ l.at # "finish" /\ l.seen = proc[s].seen
  <2>1. CASE FindLatestActiveRequest(s)
    <3>1. PICK r : Become(s, [proc[s] EXCEPT !.at = "open", !.req = r, !.until = now + Window])
      BY <2>1 DEF FindLatestActiveRequest
    <3> DEFINE n == [proc[s] EXCEPT !.at = "open", !.req = r, !.until = now + Window]
    <3>2. n.op = "add" /\ n.at = "open" /\ n.seen = proc[s].seen
      BY <1>1 DEF Locals
    <3> HIDE DEF n
    <3> QED
      BY <3>1, <3>2 DEF n
  <2>2. CASE CreateRequest(s)
    <3> DEFINE n == [proc[s] EXCEPT !.at = "reserve", !.req = lastReq + 1]
    <3>1. Become(s, n)
      BY <2>2 DEF CreateRequest
    <3>2. n.op = "add" /\ n.at = "reserve" /\ n.seen = proc[s].seen
      BY <1>1 DEF Locals
    <3> HIDE DEF n
    <3> QED
      BY <3>1, <3>2
  <2>3. CASE TouchRequestExpiry(s)
    <3>1. Become(s, [proc[s] EXCEPT !.at = "reserve"])
      BY <2>3 DEF TouchRequestExpiry, Goto
    <3> QED
      BY <1>1, <3>1 DEF Locals
  <2> QED
    BY <2>1, <2>2, <2>3
<1>3. proc'[s] = l /\ \A q \in Procs \ {s} : proc'[q] = proc[q]
  BY <1>1, <1>2, BecomeOthers
<1>4. GivenBack(s) = {} /\ SoldBy(s) = {} /\ \A j : Reserved(s, j) = 0
  BY <1>1 DEF GivenBack, SoldBy, Reserved, Looping
<1>5. GivenBack(s)' = {} /\ SoldBy(s)' = {} /\ \A j : Reserved(s, j)' = 0
  BY <1>2, <1>3 DEF GivenBack, SoldBy, Reserved, Looping
<1>6. Passing(s)'
  BY <1>1, <1>2, <1>3 DEF Passing, Looping
<1>7. \A q : SameItems(q)
  BY <1>1 DEF SameItems, Present
<1> QED
  BY <1>1, <1>3, <1>4, <1>5, <1>6, <1>7, BookQuiet

\* addItem reserves what it was asked for.
LEMMA ReserveBooks ==
  ASSUME Inv, BookInv, Inv', NEW s \in Sessions, ~Throw(s), ReserveForItem(s)
  PROVE  BookInv'
<1>0. PICK i : i = proc[s].inv
  OBVIOUS
<1> DEFINE new == ReserveStock(Visible(s, i), proc[s].qty)
           l == [proc[s] EXCEPT !.at = "finish"]
<1>1. /\ s \in Procs /\ proc[s] \in Locals /\ proc[s].op = "add" /\ proc[s].at = "reserve"
      /\ Become(s, l) /\ WriteInventory(s, i, new) /\ UNCHANGED <<item, itemLock, invoices>>
      /\ Books(s) /\ WellFormed(s)
  BY <1>0 DEF Procs, ReserveForItem, At, Goto, itemVars, BookInv, Inv, TypeOK
<1>2. i \in Inventories /\ proc[s].qty \in Nat
  BY <1>0, <1>1, QuantitiesAreIntegers DEF WellFormed
<1>3. l.op = "add" /\ l.at = "finish" /\ l.inv = i /\ l.qty = proc[s].qty /\ l.seen = proc[s].seen
  BY <1>0, <1>1 DEF Locals
<1>4. proc'[s] = l /\ \A q \in Procs \ {s} : proc'[q] = proc[q]
  BY <1>1, BecomeOthers
<1>5. GivenBack(s) = {} /\ SoldBy(s) = {} /\ \A j : Reserved(s, j) = 0
  BY <1>1 DEF GivenBack, SoldBy, Reserved, Looping
<1> HIDE DEF l
<1>6. /\ GivenBack(s)' = {} /\ SoldBy(s)' = {} /\ Reserved(s, i)' = proc[s].qty
      /\ \A j \in Inventories \ {i} : Reserved(s, j)' = 0
  BY <1>3, <1>4 DEF GivenBack, SoldBy, Reserved, Looping, Asked
<1>7. Passing(s)'
  BY <1>1, <1>3, <1>4 DEF Passing, Looping, Books
<1>8. {} \in SUBSET Present /\ (\A j : Of({}, j) = {}) /\ QtyOf({}) = 0
  BY QtysOfNothing, QtyOfIsQtys DEF Of
<1>9. Visible(s, i).reserved = inv[i].reserved /\ Visible(s, i).sold = inv[i].sold
  BY <1>1, <1>2, <1>5, <1>8, Unbooked
<1>10. Visible(s, i) \in StoreInventoryRow /\ inv[i].reserved \in Int /\ inv[i].sold \in Int
  BY <1>1, <1>2, VisibleType DEF Inv, TypeOK, StoreInventoryRow
<1>11. new.reserved = inv[i].reserved + proc[s].qty /\ new.sold = inv[i].sold
  BY <1>9, <1>10 DEF ReserveStock, StoreInventoryRow
<1>13. PICK q : q = proc[s].qty
  OBVIOUS
<1> HIDE DEF new
<1>12. /\ new.reserved = inv[i].reserved + Reserved(s, i)' - QtyOf(Of({}, i))
       /\ new.sold = inv[i].sold + QtyOf(Of({}, i))
  <2>1. QtyOf(Of({}, i)) = 0
    BY <1>8
  <2>2. Reserved(s, i)' = q /\ q \in Nat /\ new.reserved = inv[i].reserved + q /\ new.sold = inv[i].sold
    BY <1>2, <1>6, <1>11, <1>13
  <2> QED
    BY <1>10, <2>1, <2>2
<1>14. PICK none : none = {}
  OBVIOUS
<1>15. PICK row : row = new
  OBVIOUS
<1>16. /\ WriteInventory(s, i, row) /\ none \in SUBSET Present /\ GivenBack(s)' = none /\ SoldBy(s)' = none
       /\ row.reserved = inv[i].reserved + Reserved(s, i)' - QtyOf(Of(none, i))
       /\ row.sold = inv[i].sold + QtyOf(Of(none, i))
       /\ \A j \in Inventories \ {i} : /\ Reserved(s, j)' = Reserved(s, j)
                                      /\ Of(none, j) = Of(GivenBack(s), j)
                                      /\ Of(none, j) = Of(SoldBy(s), j)
  BY <1>1, <1>5, <1>6, <1>8, <1>12, <1>14, <1>15
<1> QED
  BY <1>1, <1>2, <1>4, <1>7, <1>16, BookWrite

\* removeItem deletes, counts and sums.
LEMMA RemoveBooks ==
  ASSUME Inv, BookInv, Inv', NEW s \in Sessions, ~Throw(s),
         DeleteItemForOpenRequest(s) \/ CountItems(s) \/ SumItems(s)
  PROVE  BookInv'
<1>1. /\ s \in Procs /\ proc[s] \in Locals /\ proc[s].op = "remove" /\ Passing(s) /\ WellFormed(s)
      /\ UNCHANGED <<item, invoices, inventoryVars>>
  BY DEF Procs, DeleteItemForOpenRequest, CountItems, SumItems, At, itemVars, BookInv, Books, Inv, TypeOK
<1>2. CASE DeleteItemForOpenRequest(s)
  <2> DEFINE k == proc[s].item
             l == [proc[s] EXCEPT !.at = "release"]
  <2>1. /\ proc[s].at = "delete" /\ item[k].state = "live" /\ FreeFor(s, itemLock[k])
        /\ itemLock' = [itemLock EXCEPT ![k] = s] /\ Become(s, l)
    BY <1>2 DEF DeleteItemForOpenRequest, At, Goto
  <2>2. l.op = "remove" /\ l.at = "release" /\ l.item = k /\ l.seen = proc[s].seen /\ l.req = proc[s].req
    BY <1>1 DEF Locals
  <2>3. proc'[s] = l /\ \A q \in Procs \ {s} : proc'[q] = proc[q]
    BY <1>1, <2>1, BecomeOthers
  <2>4. k \in Items /\ itemLock \in [Items -> Procs \cup {None}] /\ None \notin Procs
    BY <1>1, ProcsAssumption DEF WellFormed, Present, Inv, TypeOK
  <2>5. itemLock'[k] = s
    BY <2>1, <2>4
  <2>6. \A q \in Procs \ {s} : SameItems(q)
    BY <1>1, <2>1, <2>4 DEF FreeFor, SameItems, Present
  <2> HIDE DEF l
  <2>7. /\ GivenBack(s) = {} /\ SoldBy(s) = {} /\ GivenBack(s)' = {} /\ SoldBy(s)' = {}
        /\ \A j : Reserved(s, j) = 0 /\ Reserved(s, j)' = 0
    BY <1>1, <2>1, <2>2, <2>3 DEF GivenBack, SoldBy, Reserved, Looping
  <2>8. Passing(s)'
    BY <1>1, <2>1, <2>2, <2>3, <2>5 DEF Passing, Looping
  <2> QED
    BY <1>1, <2>3, <2>6, <2>7, <2>8, BookQuiet
<1>3. CASE CountItems(s) \/ SumItems(s)
  <2>1. PICK l : /\ Become(s, l) /\ l.op = "remove" /\ l.at \in {"cancel", "sum", "finish"} /\ l.item = proc[s].item
                 /\ l.seen = proc[s].seen /\ l.req = proc[s].req
    <3>1. CASE CountItems(s)
      <4>1. PICK x \in {"cancel", "sum"} : Become(s, [proc[s] EXCEPT !.at = x])
        BY <3>1 DEF CountItems, Goto
      <4> QED
        BY <1>1, <4>1 DEF Locals
    <3>2. CASE SumItems(s)
      <4>1. PICK K : Become(s, [proc[s] EXCEPT !.at = "finish", !.total = K])
        BY <3>2 DEF SumItems
      <4> DEFINE n == [proc[s] EXCEPT !.at = "finish", !.total = K]
      <4>2. n.op = "remove" /\ n.at = "finish" /\ n.item = proc[s].item /\ n.seen = proc[s].seen /\ n.req = proc[s].req
        BY <1>1 DEF Locals
      <4> HIDE DEF n
      <4> QED
        BY <4>1, <4>2 DEF n
    <3> QED
      BY <1>3, <3>1, <3>2
  <2>2. proc'[s] = l /\ \A q \in Procs \ {s} : proc'[q] = proc[q]
    BY <1>1, <2>1, BecomeOthers
  <2>3. proc[s].at \in {"count", "sum"} /\ itemLock' = itemLock
    BY <1>3 DEF CountItems, SumItems, At, itemVars
  <2>4. /\ GivenBack(s)' = GivenBack(s) /\ SoldBy(s) = {} /\ SoldBy(s)' = {}
        /\ \A j : Reserved(s, j) = 0 /\ Reserved(s, j)' = 0
    BY <1>1, <2>1, <2>2, <2>3 DEF GivenBack, SoldBy, Reserved, Looping
  <2>5. Passing(s)'
    BY <1>1, <2>1, <2>2, <2>3 DEF Passing, Looping
  <2>6. \A q : SameItems(q)
    BY <1>1, <2>3 DEF SameItems, Present
  <2> QED
    BY <1>1, <2>2, <2>4, <2>5, <2>6, BookQuiet
<1> QED
  BY <1>2, <1>3

\* A handler lists what is in its request: it has given back nothing yet.
LEMMA ListBooks ==
  ASSUME Inv, BookInv, Inv', NEW p \in Procs, proc[p].op \in Looping, proc[p].at \in {"list", "invoice", "next"},
         NEW l \in Locals, l.op = proc[p].op, l.seen \subseteq Present, \A k \in l.seen : item[k].req = l.req,
         NEW at \in {"release", "consume"}, NEW n \in NextItem(l, l.seen, at), Become(p, n),
         UNCHANGED <<item, itemLock, invoices, inventoryVars>>
  PROVE  BookInv'
<1>1. proc'[p] = n /\ \A q \in Procs \ {p} : proc'[q] = proc[q]
  BY BecomeOthers
<1>2. /\ Passing(p)' /\ GivenBack(p)' = l.seen \ l.seen
      /\ SoldBy(p)' = IF l.op = "confirm" THEN l.seen \ l.seen ELSE {}
      /\ \A i : Reserved(p, i)' = 0
  BY <1>1, LoopBooks
<1>3. GivenBack(p)' = {} /\ SoldBy(p)' = {}
  BY <1>2
<1>4. GivenBack(p) = {} /\ SoldBy(p) = {} /\ \A i : Reserved(p, i) = 0
  BY DEF GivenBack, SoldBy, Reserved, Looping
<1>5. \A q : SameItems(q)
  BY DEF SameItems, Present
<1> QED
  BY <1>1, <1>2, <1>3, <1>4, <1>5, BookQuiet

\* The lists of cancel, confirm and the expiry pass.
LEMMA ListItemsBooks ==
  ASSUME Inv, BookInv, Inv', NEW p \in Procs, ~Throw(p),
         ListItemsToCancel(p) \/ ListItemsToSell(p) \/ CreateInvoice(p) \/ LockExpiredRequest(p)
  PROVE  BookInv'
<1>1. /\ proc[p] \in Locals /\ Passing(p) /\ UNCHANGED <<item, itemLock, invoices, inventoryVars>>
  BY DEF ListItemsToCancel, ListItemsToSell, CreateInvoice, LockExpiredRequest, itemVars, BookInv, Books, Inv, TypeOK
<1>2. ASSUME NEW r
      PROVE  /\ LiveItems(r) \subseteq Present /\ LiveItems(r) \in SUBSET Items
             /\ \A k \in LiveItems(r) : item[k].req = r
  BY DEF LiveItems, Present
<1>3. CASE ListItemsToCancel(p)
  <2> DEFINE K == LiveItems(proc[p].req)
             l == [proc[p] EXCEPT !.seen = K]
  <2>1. proc[p].op = "cancel" /\ proc[p].at = "list" /\ \E n \in NextItem(l, K, "release") : Become(p, n)
    BY <1>3 DEF ListItemsToCancel, At
  <2>2. l \in Locals
    BY <1>1, <1>2, LocalUpdates
  <2>3. l.op = "cancel" /\ l.seen = K /\ l.req = proc[p].req
    BY <1>1, <2>1 DEF Locals
  <2>4. K \subseteq Present /\ \A k \in K : item[k].req = l.req
    BY <1>2, <2>3
  <2> HIDE DEF l, K
  <2> QED
    BY <1>1, <2>1, <2>2, <2>3, <2>4, ListBooks DEF Looping
<1>4. CASE ListItemsToSell(p)
  <2> DEFINE K == LiveItems(proc[p].req)
             l == [proc[p] EXCEPT !.at = "invoice", !.seen = K]
  <2>1. proc[p].op = "confirm" /\ proc[p].at = "list" /\ Become(p, IF K = {} THEN Idle ELSE l)
    BY <1>4 DEF ListItemsToSell, At
  <2>2. l.op = "confirm" /\ l.at = "invoice" /\ l.seen = K /\ l.req = proc[p].req
    BY <1>1, <2>1 DEF Locals
  <2>3. K \subseteq Present /\ \A k \in K : item[k].req = l.req
    BY <1>2, <2>2
  <2> HIDE DEF l, K
  <2>4. PICK n : Become(p, n) /\ (n = Idle \/ n = l)
    BY <2>1
  <2>5. proc'[p] = n /\ \A q \in Procs \ {p} : proc'[q] = proc[q]
    BY <2>4, BecomeOthers
  <2>6. Idle.op = "idle" /\ Idle.seen = {}
    BY DEF Idle
  <2>7. Passing(p)'
    BY <1>1, <2>2, <2>3, <2>4, <2>5, <2>6 DEF Passing, Looping
  <2>8. /\ GivenBack(p) = {} /\ SoldBy(p) = {} /\ GivenBack(p)' = {} /\ SoldBy(p)' = {}
        /\ \A j : Reserved(p, j) = 0 /\ Reserved(p, j)' = 0
    BY <2>1, <2>2, <2>4, <2>5, <2>6 DEF GivenBack, SoldBy, Reserved, Looping
  <2>9. \A q : SameItems(q)
    BY <1>1 DEF SameItems, Present
  <2> QED
    BY <1>1, <2>5, <2>7, <2>8, <2>9, BookQuiet
<1>5. CASE CreateInvoice(p)
  <2>1. /\ proc[p].op = "confirm" /\ proc[p].at = "invoice"
        /\ \E n \in NextItem(proc[p], proc[p].seen, "consume") : Become(p, n)
    BY <1>5 DEF CreateInvoice, At
  <2>2. \A k \in proc[p].seen : item[k].req = proc[p].req
    BY <1>1 DEF Passing
  <2>3. proc[p].seen \subseteq Present
    BY DEF Inv, WellFormed
  <2> QED
    BY <1>1, <2>1, <2>2, <2>3, ListBooks DEF Looping
<1>6. CASE LockExpiredRequest(p)
  <2>1. proc[p].op = "expire" /\ proc[p].at = "next"
    BY <1>6 DEF LockExpiredRequest, At
  <2>2. PICK r \in proc[p].batch :
          LET rest == [proc[p] EXCEPT !.batch = @ \ {r}, !.req = r, !.seen = LiveItems(r)] IN
          \/ \E n \in NextItem(rest, LiveItems(r), "release") : Become(p, n)
          \/ Become(p, Pass(rest.batch))
    BY <1>6 DEF LockExpiredRequest
  <2> DEFINE rest == [proc[p] EXCEPT !.batch = @ \ {r}, !.req = r, !.seen = LiveItems(r)]
             K == LiveItems(r)
  <2>3. rest \in Locals
    <3>1. r \in Requests /\ proc[p].batch \ {r} \in SUBSET Requests
      BY <1>1 DEF Locals
    <3>2. [proc[p] EXCEPT !.batch = @ \ {r}] \in Locals
      BY <1>1, <3>1, LocalUpdates
    <3>3. [[proc[p] EXCEPT !.batch = @ \ {r}] EXCEPT !.req = r] \in Locals
      BY <3>1, <3>2, LocalUpdates
    <3> QED
      BY <1>2, <3>3, LocalUpdates
  <2>4. rest.op = "expire" /\ rest.seen = K /\ rest.req = r
    BY <1>1, <2>1 DEF Locals
  <2>5. K \subseteq Present /\ \A k \in K : item[k].req = rest.req
    BY <1>2, <2>4
  <2>6. CASE \E n \in NextItem(rest, K, "release") : Become(p, n)
    <3> HIDE DEF rest, K
    <3> QED
      BY <1>1, <2>1, <2>3, <2>4, <2>5, <2>6, ListBooks DEF Looping
  <2>7. CASE Become(p, Pass(rest.batch))
    <3>0. PICK b : b = rest.batch
      OBVIOUS
    <3>1. PICK n : n = Pass(b)
      OBVIOUS
    <3>2. n.seen = {} /\ (n.op = "idle" \/ (n.op = "expire" /\ n.at = "next"))
      BY <3>1 DEF Pass, Idle
    <3>3. proc'[p] = n /\ \A q \in Procs \ {p} : proc'[q] = proc[q]
      BY <2>7, <3>0, <3>1, BecomeOthers
    <3>4. Passing(p)'
      BY <3>2, <3>3 DEF Passing, Looping
    <3>5. /\ GivenBack(p) = {} /\ SoldBy(p) = {} /\ GivenBack(p)' = {} /\ SoldBy(p)' = {}
          /\ \A j : Reserved(p, j) = 0 /\ Reserved(p, j)' = 0
      BY <2>1, <3>2, <3>3 DEF GivenBack, SoldBy, Reserved, Looping
    <3>6. \A q : SameItems(q)
      BY <1>1 DEF SameItems, Present
    <3> QED
      BY <1>1, <3>3, <3>4, <3>5, <3>6, BookQuiet
  <2> QED
    BY <2>2, <2>6, <2>7
<1> QED
  BY <1>3, <1>4, <1>5, <1>6

\* One more item adds its quantity.
LEMMA OneMoreItem ==
  ASSUME TypeOK, NEW L \in SUBSET Present, NEW k \in Present \ L
  PROVE  QtyOf(L \cup {k}) = QtyOf(L) + item[k].qty
<1>1. PICK K : K = L \cup {k}
  OBVIOUS
<1>2. K \in SUBSET Present /\ {k} \in SUBSET K /\ K \ {k} = L
  BY <1>1
<1>3. QtyOf(K) = QtyOf({k}) + QtyOf(L) /\ QtyOf({k}) \in Nat /\ QtyOf(L) \in Nat
  BY <1>2, QtyOfParts
<1>4. QtyOf({k}) = item[k].qty
  BY QtyOfOne
<1> QED
  BY <1>1, <1>3, <1>4

\* The statement that gives back, or sells, one more item.
LEMMA OneMoreBooks ==
  ASSUME Inv, BookInv, Inv', NEW p \in Procs, \A q \in Procs \ {p} : proc'[q] = proc[q],
         UNCHANGED <<item, itemLock, invoices>>, Passing(p)', proc[p].op # "add", proc'[p].op # "add",
         NEW k \in Present \ GivenBack(p), NEW i \in Inventories, i = item[k].inv,
         NEW new, WriteInventory(p, i, new), new.reserved = Visible(p, i).reserved - item[k].qty,
         new.sold = Visible(p, i).sold + (IF proc[p].op = "confirm" THEN item[k].qty ELSE 0),
         GivenBack(p)' = GivenBack(p) \cup {k},
         SoldBy(p)' = IF proc[p].op = "confirm" THEN GivenBack(p) \cup {k} ELSE {}
  PROVE  BookInv'
<1>1. PICK G : G = GivenBack(p) \cup {k}
  OBVIOUS
<1>2. PICK S : S = IF proc[p].op = "confirm" THEN G ELSE {}
  OBVIOUS
<1>3. PICK T : T = GivenBack(p)
  OBVIOUS
<1>4. T \in SUBSET Present /\ G \in SUBSET Present /\ S \in SUBSET Present /\ G = T \cup {k} /\ k \notin T
  BY <1>1, <1>2, <1>3, BookedPresent
<1>5. Of(T, i) \in SUBSET Present /\ k \in Present \ Of(T, i) /\ Of(G, i) = Of(T, i) \cup {k}
  BY <1>4 DEF Of
<1>6. QtyOf(Of(G, i)) = QtyOf(Of(T, i)) + item[k].qty
  BY <1>5, OneMoreItem DEF Inv
<1>7. QtyOf(Of(T, i)) \in Nat /\ item[k].qty \in Nat /\ inv[i].reserved \in Int /\ inv[i].sold \in Int /\ QtyOf({}) = 0
  BY <1>3, BookedPresent, ItemTypes, QtysOfNothing, QtyOfIsQtys DEF Inv, TypeOK, StoreInventoryRow
<1>8. \A j \in Inventories : Reserved(p, j) = 0 /\ Reserved(p, j)' = 0
  BY DEF Reserved
<1>9. /\ Visible(p, i).reserved = inv[i].reserved - QtyOf(Of(T, i))
      /\ Visible(p, i).sold = inv[i].sold + QtyOf(Of(SoldBy(p), i))
  <2>1. /\ Visible(p, i).reserved = inv[i].reserved + Reserved(p, i) - QtyOf(Of(GivenBack(p), i))
        /\ Visible(p, i).sold = inv[i].sold + QtyOf(Of(SoldBy(p), i))
    BY DEF BookInv, Books, Reserving, Selling
  <2> QED
    BY <1>3, <1>7, <1>8, <2>1
<1>10. new.reserved = inv[i].reserved + Reserved(p, i)' - QtyOf(Of(G, i))
  BY <1>6, <1>7, <1>8, <1>9
<1>11. new.sold = inv[i].sold + QtyOf(Of(S, i))
  <2>1. CASE proc[p].op = "confirm"
    <3>1. SoldBy(p) = T /\ S = G
      BY <1>2, <1>3, <2>1 DEF SoldBy
    <3> QED
      BY <1>6, <1>7, <1>9, <2>1, <3>1
  <2>2. CASE proc[p].op # "confirm"
    <3>1. Of(SoldBy(p), i) = {} /\ Of(S, i) = {}
      BY <1>2, <2>2 DEF SoldBy, Of
    <3>2. Visible(p, i).sold = inv[i].sold /\ new.sold = inv[i].sold
      BY <1>7, <1>9, <2>2, <3>1
    <3> QED
      BY <1>7, <3>1, <3>2
  <2> QED
    BY <2>1, <2>2
<1>12. GivenBack(p)' = G /\ SoldBy(p)' = S
  BY <1>1, <1>2
<1>13. \A j \in Inventories \ {i} : /\ Of(G, j) = Of(GivenBack(p), j)
                                    /\ Of(S, j) = Of(SoldBy(p), j)
  <2>1. \A j \in Inventories \ {i} : Of(G, j) = Of(T, j)
    BY <1>4 DEF Of
  <2> QED
    BY <1>2, <1>3, <2>1 DEF SoldBy
<1>14. \A j \in Inventories \ {i} : /\ Reserved(p, j)' = Reserved(p, j)
                                    /\ Of(G, j) = Of(GivenBack(p), j)
                                    /\ Of(S, j) = Of(SoldBy(p), j)
  BY <1>8, <1>13
<1>15. G \in SUBSET Present /\ S \in SUBSET Present
  BY <1>4
<1> QED
  BY <1>10, <1>11, <1>12, <1>14, <1>15, BookWrite

\* releaseReservedStock, in removeItem and in the loops, and the sale of an item.
LEMMA GiveBackBooks ==
  ASSUME Inv, BookInv, Inv', NEW p \in Procs, ~Throw(p), ReleaseForItem(p) \/ SellItem(p)
  PROVE  BookInv'
<1>0. PICK k : k = proc[p].item
  OBVIOUS
<1>00. PICK i : i = item[k].inv
  OBVIOUS
<1>1. /\ proc[p] \in Locals /\ Passing(p) /\ WellFormed(p) /\ UNCHANGED <<item, itemLock, invoices>>
      /\ proc[p].at \in {"release", "consume"}
  BY DEF ReleaseForItem, SellItem, At, itemVars, BookInv, Books, Inv, TypeOK
<1>2. k \in Present /\ i \in Inventories /\ item[k].qty \in Nat /\ Visible(p, i) \in StoreInventoryRow
  BY <1>0, <1>00, <1>1, PresentItems, QuantitiesAreIntegers, VisibleType DEF WellFormed
<1>3. /\ ReleaseForItem(p) => WriteInventory(p, i, ReleaseReservedStock(Visible(p, i), item[k].qty))
      /\ SellItem(p) =>
           /\ WriteInventory(p, i, LogSale(ConsumeReservedStock(Visible(p, i), item[k].qty), item[k].qty))
           /\ proc[p].op = "confirm" /\ proc[p].at = "consume"
      /\ ReleaseForItem(p) => proc[p].at = "release" /\ proc[p].op \in {"remove", "cancel", "expire"}
  BY <1>0, <1>00, <1>1 DEF ReleaseForItem, SellItem, At, WellFormed
<1>4. PICK new : /\ WriteInventory(p, i, new) /\ new.reserved = Visible(p, i).reserved - item[k].qty
                 /\ new.sold = Visible(p, i).sold + (IF proc[p].op = "confirm" THEN item[k].qty ELSE 0)
  <2>1. CASE ReleaseForItem(p)
    <3>1. PICK new : new = ReleaseReservedStock(Visible(p, i), item[k].qty)
      OBVIOUS
    <3>2. new.reserved = Visible(p, i).reserved - item[k].qty /\ new.sold = Visible(p, i).sold /\ Visible(p, i).sold \in Int
      BY <1>2, <3>1 DEF ReleaseReservedStock, StoreInventoryRow
    <3>3. new.sold = Visible(p, i).sold + 0
      BY <3>2
    <3>4. proc[p].op # "confirm" /\ WriteInventory(p, i, new)
      BY <1>3, <2>1, <3>1
    <3> QED
      BY <3>2, <3>3, <3>4
  <2>2. CASE SellItem(p)
    <3>1. PICK new : new = LogSale(ConsumeReservedStock(Visible(p, i), item[k].qty), item[k].qty)
      OBVIOUS
    <3>2. new.reserved = Visible(p, i).reserved - item[k].qty /\ new.sold = Visible(p, i).sold + item[k].qty
      BY <1>2, <3>1 DEF LogSale, ConsumeReservedStock, StoreInventoryRow
    <3>3. proc[p].op = "confirm" /\ WriteInventory(p, i, new)
      BY <1>3, <2>2, <3>1
    <3> QED
      BY <3>2, <3>3
  <2> QED
    BY <2>1, <2>2
<1>5. CASE proc[p].op = "remove"
  <2> DEFINE l == [proc[p] EXCEPT !.at = "count"]
  <2>1. Become(p, l)
    BY <1>3, <1>5 DEF ReleaseForItem
  <2>2. l.op = "remove" /\ l.at = "count" /\ l.item = k /\ l.seen = proc[p].seen /\ l.req = proc[p].req
    BY <1>0, <1>1, <1>5 DEF Locals
  <2> HIDE DEF l
  <2>3. proc'[p] = l /\ \A q \in Procs \ {p} : proc'[q] = proc[q]
    BY <2>1, BecomeOthers
  <2>4. GivenBack(p) = {} /\ GivenBack(p)' = {k} /\ SoldBy(p)' = {}
    BY <1>1, <1>3, <1>5, <2>2, <2>3 DEF GivenBack, SoldBy, Looping
  <2>5. Passing(p)'
    BY <1>0, <1>1, <1>5, <2>2, <2>3 DEF Passing, Looping
  <2>6. k \in Present \ GivenBack(p) /\ GivenBack(p)' = GivenBack(p) \cup {k} /\ proc'[p].op # "add"
    BY <1>2, <2>2, <2>3, <2>4
  <2> QED
    BY <1>00, <1>1, <1>2, <1>4, <1>5, <2>3, <2>4, <2>5, <2>6, OneMoreBooks
<1>6. CASE proc[p].op # "remove"
  <2>1. proc[p].op \in Looping
    BY <1>3, <1>6 DEF Looping
  <2>2. PICK at \in {"release", "consume"} : \E n \in NextItem(proc[p], proc[p].todo, at) : Become(p, n)
    BY <1>6 DEF ReleaseForItem, SellItem
  <2>22. PICK n \in NextItem(proc[p], proc[p].todo, at) : Become(p, n)
    BY <2>2
  <2>3. proc'[p] = n /\ \A q \in Procs \ {p} : proc'[q] = proc[q]
    BY <2>22, BecomeOthers
  <2>4. /\ k \in proc[p].seen /\ proc[p].todo \subseteq proc[p].seen \ {k}
        /\ proc[p].seen \subseteq Present /\ \A j \in proc[p].seen : item[j].req = proc[p].req
    BY <1>0, <1>1, <2>1 DEF Passing, WellFormed
  <2>5. proc[p].todo \in SUBSET proc[p].seen
    BY <2>4
  <2>6. /\ Passing(p)' /\ GivenBack(p)' = proc[p].seen \ proc[p].todo
        /\ SoldBy(p)' = IF proc[p].op = "confirm" THEN proc[p].seen \ proc[p].todo ELSE {}
    BY <1>1, <2>1, <2>2, <2>3, <2>4, <2>5, LoopBooks
  <2>7. GivenBack(p) = proc[p].seen \ (proc[p].todo \cup {k})
    BY <1>0, <1>1, <2>1 DEF GivenBack, Looping
  <2>8. k \in Present \ GivenBack(p) /\ proc[p].seen \ proc[p].todo = GivenBack(p) \cup {k}
    BY <1>2, <2>4, <2>7
  <2>9. proc[p].op # "add" /\ proc'[p].op # "add"
    <3>1. n.op = proc[p].op
      BY <1>1, <2>2, NextItemParts
    <3> QED
      BY <2>1, <2>3, <3>1 DEF Looping
  <2>10. GivenBack(p)' = GivenBack(p) \cup {k} /\ SoldBy(p)' = IF proc[p].op = "confirm" THEN GivenBack(p) \cup {k} ELSE {}
    BY <2>6, <2>8
  <2> QED
    BY <1>00, <1>1, <1>2, <1>4, <2>3, <2>6, <2>8, <2>9, <2>10, OneMoreBooks
<1> QED
  BY <1>5, <1>6

\* One more invoice adds its lines to what is sold.
LEMMA NewInvoice ==
  ASSUME Inv, Sales, ItemsKept, NEW r \in Requests, NEW v, v.lines \in SUBSET Present,
         invoices' = [invoices EXCEPT ![r] = Append(@, v)]
  PROVE  /\ InvoicesOK'
         /\ \A i \in Inventories : SoldOnInvoices(i)' = SoldOnInvoices(i) + QtyOf(Of(v.lines, i))
<1> DEFINE n == Len(invoices[r]) + 1
           a == <<r, n>>
           Lines(w) == invoices[w[1]][w[2]].lines
           Lines2(w) == invoices'[w[1]][w[2]].lines
<1>1. invoices \in [Requests -> Seq(Invoices)] /\ invoices[r] \in Seq(Invoices)
  BY DEF Inv, TypeOK
<1>2. /\ DOMAIN invoices'[r] = DOMAIN invoices[r] \cup {n} /\ n \notin DOMAIN invoices[r]
      /\ invoices'[r][n] = v
      /\ \A m \in DOMAIN invoices[r] : invoices'[r][m] = invoices[r][m]
  BY <1>1
<1>3. \A o \in Requests \ {r} : invoices'[o] = invoices[o]
  BY <1>1
<1> HIDE DEF n
<1>4. AllInvoices' = AllInvoices \cup {a} /\ a \notin AllInvoices
  <2>1. \A o \in Requests : {o} \X DOMAIN invoices'[o] =
           ({o} \X DOMAIN invoices[o]) \cup (IF o = r THEN {a} ELSE {})
    BY <1>2, <1>3
  <2>2. a \in {r} \X DOMAIN invoices'[r]
    BY <1>2
  <2> QED
    BY <1>2, <2>1, <2>2 DEF AllInvoices
<1>5. \A w \in AllInvoices : Lines2(w) = Lines(w) /\ Lines(w) \in SUBSET Present
  <2>1. \A w \in AllInvoices : w[1] \in Requests /\ w[2] \in DOMAIN invoices[w[1]]
    BY DEF AllInvoices
  <2> QED
    BY <1>2, <1>3, <2>1 DEF Sales, InvoicesOK
<1>6. Lines2(a) = v.lines
  BY <1>2
<1>7. InvoicesOK'
  <2>1. IsFiniteSet(AllInvoices')
    BY <1>4, FS_AddElement DEF Sales, InvoicesOK
  <2>2. \A w \in AllInvoices' : Lines2(w) \subseteq Present'
    BY <1>4, <1>5, <1>6 DEF ItemsKept
  <2> QED
    BY <2>1, <2>2 DEF InvoicesOK
<1> DEFINE I == AllInvoices
           J == AllInvoices'
<1>8. ASSUME NEW i \in Inventories
      PROVE  SoldOnInvoices(i)' = SoldOnInvoices(i) + QtyOf(Of(v.lines, i))
  <2> DEFINE f == [w \in I |-> QtyOf({k \in Lines(w) : item[k].inv = i})]
             g == [w \in J |-> Qtys(item', {k \in Lines2(w) : item'[k].inv = i})]
  <2>1. SoldOnInvoices(i) = SumFunctionOnSet(f, I)
    BY DEF SoldOnInvoices, SumFunction
  <2>2. SoldOnInvoices(i)' = SumFunctionOnSet(g, J)
    <3>1. SoldOnInvoices(i)' = SumFunction(g)
      BY DEF SoldOnInvoices, QtyOf, Qtys
    <3> QED
      BY <3>1 DEF SumFunction
  <2>3. ASSUME NEW K \in SUBSET Present
        PROVE  Qtys(item', {k \in K : item'[k].inv = i}) = QtyOf(Of(K, i))
    BY OfKept, QtyOfKept
  <2>4. \A w \in I : g[w] = f[w]
    <3> SUFFICES ASSUME NEW w \in I PROVE g[w] = f[w]
      OBVIOUS
    <3>1. g[w] = Qtys(item', {k \in Lines2(w) : item'[k].inv = i}) /\ f[w] = QtyOf({k \in Lines(w) : item[k].inv = i})
      BY <1>4
    <3>2. Lines2(w) = Lines(w) /\ Lines(w) \in SUBSET Present
      BY <1>5
    <3> HIDE DEF Lines, Lines2
    <3>3. Qtys(item', {k \in Lines(w) : item'[k].inv = i}) = QtyOf(Of(Lines(w), i))
      BY <2>3, <3>2
    <3> QED
      BY <3>1, <3>2, <3>3 DEF Of
  <2>5. g[a] = QtyOf(Of(v.lines, i))
    <3>1. g[a] = Qtys(item', {k \in Lines2(a) : item'[k].inv = i})
      BY <1>4
    <3> QED
      BY <1>6, <2>3, <3>1
  <2>6. IsFiniteSet(J) /\ J \ {a} = I /\ a \in J /\ IsFiniteSet(I)
    BY <1>4, <1>7 DEF InvoicesOK, Sales
  <2>7. \A w \in I : f[w] \in Nat
    <3>1. \A w \in I : {k \in Lines(w) : item[k].inv = i} \in SUBSET Present
      BY <1>5
    <3> QED
      BY <3>1, QtyOfParts DEF Inv
  <2>8. g[a] \in Nat
    <3>1. Of(v.lines, i) \in SUBSET Present
      BY DEF Of
    <3> QED
      BY <2>5, <3>1, QtyOfParts DEF Inv
  <2> HIDE DEF f, g, a, J, I
  <2>9. \A w \in J : g[w] \in Nat
    BY <2>4, <2>6, <2>7, <2>8
  <2>10. SumFunctionOnSet(g, J) = SumFunctionOnSet(g, I) + g[a]
    BY <2>6, <2>9, SumWith
  <2>11. SumFunctionOnSet(g, I) = SumFunctionOnSet(f, I)
    BY <2>4, <2>6, SumSame
  <2> QED
    BY <2>1, <2>2, <2>5, <2>10, <2>11
<1> QED
  BY <1>7, <1>8

\* COMMIT, of all transactions but that of confirm.
LEMMA CommitBooks ==
  ASSUME Inv, BookInv, Inv', ItemsKept, NEW p \in Procs, ~Throw(p),
         \/ CreateItem(p) \/ SetTotal(p) \/ CancelEmptyRequest(p) \/ SetRequestCancelled(p)
         \/ SetRequestExpired(p) \/ CommitRestock(p)
  PROVE  BookInv'
<1>1. /\ CommitInventories(p) /\ invoices' = invoices /\ proc[p].op # "confirm"
  BY DEF CreateItem, SetTotal, CancelEmptyRequest, SetRequestCancelled, SetRequestExpired, CommitRestock, CommitRequest,
         DeleteItem, At
<1>2. PICK l : Become(p, l) /\ l.seen = {} /\ (l.op = "idle" \/ (l.op = "expire" /\ l.at = "next"))
  <2>1. Idle.op = "idle" /\ Idle.seen = {}
    BY DEF Idle
  <2>2. PICK b : SetRequestExpired(p) => Become(p, Pass(b))
    BY DEF SetRequestExpired
  <2>3. Pass(b).seen = {} /\ (Pass(b).op = "idle" \/ (Pass(b).op = "expire" /\ Pass(b).at = "next"))
    BY DEF Pass, Idle
  <2>4. SetRequestExpired(p) \/ Become(p, Idle)
    BY DEF CreateItem, SetTotal, CancelEmptyRequest, SetRequestCancelled, CommitRestock, DeleteItem
  <2> QED
    BY <2>1, <2>2, <2>3, <2>4
<1>3. \A q \in Procs \ {p} : SameItems(q)
  <2>1. /\ item \in [Items -> ItemRows \cup {NoItem}] /\ itemLock \in [Items -> Procs \cup {None}]
        /\ None \notin Procs /\ Passing(p)
    BY ProcsAssumption DEF Inv, TypeOK, BookInv, Books
  <2>2. CASE UNCHANGED <<item, itemLock>>
    BY <2>2 DEF SameItems
  <2>3. CASE CreateItem(p)
    <3>1. itemLock' = itemLock
      BY <2>3 DEF CreateItem
    <3>2. PICK k \in UnusedItems : \A j \in Items \ {k} : item'[j] = item[j]
      BY <2>1, <2>3 DEF CreateItem
    <3>3. item[k].state = "absent" /\ k \in Items
      BY <3>2 DEF UnusedItems
    <3> QED
      BY <3>1, <3>2, <3>3 DEF SameItems, Present
  <2>4. CASE SetTotal(p) \/ CancelEmptyRequest(p)
    <3>1. /\ item' = [item EXCEPT ![proc[p].item].state = "deleted"] /\ itemLock' = Unlock(itemLock, {p})
          /\ proc[p].op = "remove" /\ proc[p].at # "delete"
      BY <2>4 DEF SetTotal, CancelEmptyRequest, DeleteItem, At
    <3>2. itemLock[proc[p].item] = p
      BY <2>1, <3>1 DEF Passing
    <3>3. \A j \in Items \ {proc[p].item} : item'[j] = item[j]
      BY <2>1, <3>1
    <3> QED
      BY <2>1, <3>1, <3>2, <3>3 DEF SameItems, Unlock, Present
  <2> QED
    BY <2>2, <2>3, <2>4 DEF SetRequestCancelled, SetRequestExpired, CommitRestock, itemVars
<1> QED
  BY <1>1, <1>2, <1>3, BookCommit

\* confirm commits: its invoice and what it took from stock appear together.
LEMMA ConfirmBooks ==
  ASSUME Inv, BookInv, ItemsKept, Inv', NEW s \in Sessions, SetRequestConfirmed(s)
  PROVE  BookInv'
<1>0. PICK r : r = proc[s].req
  OBVIOUS
<1>00. PICK v : v = [total |-> proc[s].total, lines |-> proc[s].seen]
  OBVIOUS
<1>1. /\ s \in Procs /\ proc[s] \in Locals /\ proc[s].op = "confirm" /\ proc[s].at = "finish"
      /\ Books(s) /\ WellFormed(s)
  BY DEF Procs, Inv, TypeOK, SetRequestConfirmed, At, BookInv
<1>2. r \in Requests /\ v.lines \in SUBSET Present /\ v.lines = proc[s].seen
  BY <1>0, <1>00, <1>1 DEF WellFormed
<1>3. /\ CommitInventories(s) /\ Become(s, Idle) /\ UNCHANGED <<item, itemLock>>
      /\ invoices' = [invoices EXCEPT ![r] = Append(@, v)]
  BY <1>0, <1>00 DEF SetRequestConfirmed, CommitRequest, itemVars
<1>4. proc'[s] = Idle /\ \A q \in Procs \ {s} : proc'[q] = proc[q]
  BY <1>1, <1>3, BecomeOthers
<1>5. SoldBy(s) = v.lines
  <2>1. proc[s].todo = {} /\ proc[s].item \notin Items /\ proc[s].seen \subseteq Items
    BY <1>1 DEF Books, Passing, Looping, WellFormed, Present
  <2>2. GivenBack(s) = proc[s].seen
    BY <1>1, <2>1 DEF GivenBack, Looping
  <2> QED
    BY <1>1, <1>2, <2>2 DEF SoldBy
<1>6. InvoicesOK' /\ \A i \in Inventories : SoldOnInvoices(i)' = SoldOnInvoices(i) + QtyOf(Of(v.lines, i))
  BY <1>2, <1>3, NewInvoice DEF BookInv
<1>7. \A i \in Inventories : inv'[i].sold = inv[i].sold + QtyOf(Of(v.lines, i))
  BY <1>1, <1>3, <1>5, CommitSums
<1>8. SoldMatchesInvoices'
  BY <1>6, <1>7 DEF BookInv, Sales, SoldMatchesInvoices
<1>9. Books(s)'
  <2>1. Idle.op = "idle" /\ Idle.seen = {}
    BY DEF Idle
  <2> QED
    BY <1>1, <1>4, <2>1, NoBooks
<1>10. \A q : SameItems(q)
  BY <1>3 DEF SameItems, Present
<1> QED
  BY <1>1, <1>3, <1>4, <1>6, <1>8, <1>9, <1>10, BookStep DEF Sales, RowStep

\* The clock, and a step that changes nothing.
LEMMA QuietBooks ==
  ASSUME Inv, BookInv, ItemsKept, Inv', Tick \/ UNCHANGED vars
  PROVE  BookInv'
<1>1. UNCHANGED inventoryVars /\ invoices' = invoices /\ proc' = proc /\ UNCHANGED <<item, itemLock>>
  BY DEF Tick, vars, itemVars
<1>2. \A q \in Procs : SameRows(q) /\ SameItems(q)
  BY <1>1 DEF SameRows, SameItems, Present, inventoryVars
<1>3. \A q \in Procs : Books(q)'
  BY <1>1, <1>2, BooksKept DEF BookInv
<1>4. Sales'
  BY <1>1, InvoicesKept DEF BookInv, inventoryVars
<1> QED
  BY <1>3, <1>4 DEF BookInv

\* At the start nothing is booked.
LEMMA InitBooks == Init => BookInv
<1> SUFFICES ASSUME Init
             PROVE  BookInv
  OBVIOUS
<1>1. AllInvoices = {}
  BY DEF AllInvoices, Init
<1>2. ASSUME NEW p \in Procs
      PROVE  Books(p)
  <2>1. proc[p].op = "idle" /\ proc[p].seen = {}
    BY DEF Init, Idle
  <2>2. GivenBack(p) = {} /\ SoldBy(p) = {} /\ \A i : Reserved(p, i) = 0
    BY <2>1 DEF GivenBack, SoldBy, Reserved, Looping
  <2>3. \A i \in Inventories : /\ Visible(p, i).sold = 0 /\ inv[i].sold = 0
                               /\ Visible(p, i).reserved = 0 /\ inv[i].reserved = 0
    BY DEF Init, Visible, NewRow
  <2>4. \A i : QtyOf(Of(SoldBy(p), i)) = 0 /\ QtyOf(Of(GivenBack(p), i)) = 0
    <3>1. \A i : Of(SoldBy(p), i) = {} /\ Of(GivenBack(p), i) = {}
      BY <2>2 DEF Of
    <3> QED
      BY <3>1, QtyOfIsQtys, QtysOfNothing
  <2>5. Passing(p)
    BY <2>1 DEF Passing, Looping
  <2>6. Reserving(p) /\ Selling(p)
    BY <2>2, <2>3, <2>4 DEF Reserving, Selling
  <2> QED
    BY <2>5, <2>6 DEF Books
<1>3. ASSUME NEW i \in Inventories
      PROVE  inv[i].sold = SoldOnInvoices(i)
  <2>1. inv[i].sold = 0
    BY DEF Init, NewRow
  <2>2. SoldOnInvoices(i) = 0
    BY <1>1, SumOfNothing DEF SoldOnInvoices, SumFunction
  <2> QED
    BY <2>1, <2>2
<1> QED
  BY <1>1, <1>2, <1>3, FS_EmptySet DEF BookInv, Sales, InvoicesOK, SoldMatchesInvoices

\* Every step keeps the bookings in order.
LEMMA NextBooks == Inv /\ BookInv /\ [Next]_vars /\ Inv' => BookInv'
<1> SUFFICES ASSUME Inv, BookInv, [Next]_vars, Inv'
             PROVE  BookInv'
  OBVIOUS
<1>1. ItemsKept
  BY KeepItems
<1>2. ASSUME NEW p \in Procs, Throw(p)
      PROVE  BookInv'
  <2>1. (IF p \in Workers THEN InstanceOf(p) ELSE {p}) \in SUBSET Procs
    BY DEF InstanceOf, Procs
  <2> QED
    BY <1>2, <2>1, BookAbort DEF Throw
<1>3. ASSUME NEW s \in Sessions, StartHandler(s)
      PROVE  BookInv'
  BY <1>3, StartBooks
<1>4. ASSUME NEW s \in Sessions, HandlerStep(s)
      PROVE  BookInv'
  <2>1. s \in Procs
    BY DEF Procs
  <2>2. CASE Throw(s)
    BY <1>2, <2>1, <2>2
  <2>3. CASE ~Throw(s)
    <3>1. CASE FindLatestActiveRequest(s) \/ CreateRequest(s) \/ TouchRequestExpiry(s)
      BY <2>3, <3>1, OpenBooks
    <3>2. CASE ReserveForItem(s)
      BY <2>3, <3>2, ReserveBooks
    <3>3. CASE DeleteItemForOpenRequest(s) \/ CountItems(s) \/ SumItems(s)
      BY <2>3, <3>3, RemoveBooks
    <3>4. CASE ListItemsToCancel(s) \/ ListItemsToSell(s) \/ CreateInvoice(s)
      BY <2>1, <2>3, <3>4, ListItemsBooks
    <3>5. CASE ReleaseForItem(s) \/ SellItem(s)
      BY <2>1, <2>3, <3>5, GiveBackBooks
    <3>6. CASE CreateItem(s) \/ SetTotal(s) \/ CancelEmptyRequest(s) \/ SetRequestCancelled(s) \/ CommitRestock(s)
      BY <1>1, <2>1, <2>3, <3>6, CommitBooks
    <3>7. CASE SetRequestConfirmed(s)
      BY <1>1, <3>7, ConfirmBooks
    <3> QED
      BY <1>4, <3>1, <3>2, <3>3, <3>4, <3>5, <3>6, <3>7 DEF HandlerStep
  <2> QED
    BY <2>2, <2>3
<1>5. ASSUME NEW w \in Workers, ExpireOpenPurchaseRequests(w) \/ WorkerStep(w)
      PROVE  BookInv'
  <2>1. w \in Procs
    BY DEF Procs
  <2>2. CASE ExpireOpenPurchaseRequests(w)
    <3>1. PICK l : Start(w, l) /\ l.seen = {} /\ l.op \in {"idle", "expire"} /\ l.at \in {"idle", "next"}
      <4>1. \A b : Pass(b).seen = {} /\ Pass(b).op \in {"idle", "expire"} /\ Pass(b).at \in {"idle", "next"}
        BY DEF Pass, Idle
      <4> QED
        BY <2>2, <4>1 DEF ExpireOpenPurchaseRequests
    <3> QED
      BY <2>1, <3>1, BookStart
  <2>3. CASE ~Throw(w) /\ WorkerStep(w)
    BY <1>1, <2>1, <2>3, ListItemsBooks, GiveBackBooks, CommitBooks DEF WorkerStep
  <2> QED
    BY <1>2, <1>5, <2>1, <2>2, <2>3
<1>6. ASSUME NEW w \in Workers, Crash(w)
      PROVE  BookInv'
  <2>1. InstanceOf(w) \in SUBSET Procs
    BY DEF InstanceOf, Procs
  <2> QED
    BY <1>6, <2>1, BookAbort DEF Crash
<1>7. CASE \E p \in Procs : DeadlockDetected(p)
  BY <1>2, <1>7 DEF DeadlockDetected
<1>8. CASE Tick \/ UNCHANGED vars
  BY <1>1, <1>8, QuietBooks
<1> QED
  BY <1>3, <1>4, <1>5, <1>6, <1>7, <1>8 DEF Next

\* What every open transaction has booked so far is its item, or what it has passed of its list.
THEOREM BookInvariance == Spec => []BookInv
<1>1. Inv /\ BookInv /\ [Next]_vars /\ Inv' => BookInv'
  BY NextBooks
<1> QED
  BY <1>1, InitBooks, InitInv, Invariance, PTL DEF Spec

\* The stock confirm takes is on invoices, and what is on invoices was taken: at every commit the
\* two ledgers agree, whatever confirmations run at a time, are rolled back or crash half way.
THEOREM SalesAreInvoiced == Spec => []SoldMatchesInvoices
<1>1. BookInv => SoldMatchesInvoices
  BY DEF BookInv, Sales
<1> QED
  BY <1>1, BookInvariance, PTL

-----------------------------------------------------------------------------
(* Every commit is one booking of a StockAccount *)

AccountStep == [Account!Next]_<<inv, item, [p \in Procs |-> proc[p].seen]>>

\* A step that books nothing, and after which some processes have no list any more.
LEMMA GiveUpBooks ==
  ASSUME NEW P \in SUBSET Procs, inv' = inv, item' = item,
         \A p \in Procs : proc'[p].seen = IF p \in P THEN {} ELSE proc[p].seen
  PROVE  AccountStep
<1>1. Account!GiveUp(P)
  BY DEF Account!GiveUp
<1> QED
  BY <1>1 DEF AccountStep, Account!Next

LEMMA QuietStepBooks ==
  ASSUME NEW p \in Procs, inv' = inv, item' = item, \A q \in Procs \ {p} : proc'[q] = proc[q],
         proc'[p].seen = proc[p].seen \/ proc'[p].seen = {}
  PROVE  AccountStep
<1>1. CASE proc'[p].seen = proc[p].seen
  <2>1. \A q \in Procs : proc'[q].seen = IF q \in {} THEN {} ELSE proc[q].seen
    BY <1>1
  <2>2. {} \in SUBSET Procs
    OBVIOUS
  <2> QED
    BY <2>1, <2>2, GiveUpBooks
<1>2. CASE proc'[p].seen = {}
  <2>1. \A q \in Procs : proc'[q].seen = IF q \in {p} THEN {} ELSE proc[q].seen
    BY <1>2
  <2>2. {p} \in SUBSET Procs
    OBVIOUS
  <2> QED
    BY <2>1, <2>2, GiveUpBooks
<1> QED
  BY <1>1, <1>2

\* A process lists the items of a request.
LEMMA ListStepBooks ==
  ASSUME NEW p \in Procs, NEW r \in Requests, inv' = inv, item' = item,
         \A q \in Procs \ {p} : proc'[q] = proc[q], proc'[p].seen = LiveItems(r)
  PROVE  AccountStep
<1>1. Account!List(p, r)
  BY DEF Account!List, LiveItems
<1> QED
  BY <1>1 DEF AccountStep, Account!Next

\* Rows with the same columns are the same.
LEMMA RowEquality ==
  ASSUME NEW a \in StoreInventoryRow, NEW b \in StoreInventoryRow,
         a.stock = b.stock, a.reserved = b.reserved, a.restocked = b.restocked, a.sold = b.sold
  PROVE  a = b
  BY DEF StoreInventoryRow

\* What a commit of p does to the committed rows.
LEMMA CommitRows ==
  ASSUME Inv, NEW p \in Procs, Books(p), CommitInventories(p)
  PROVE  /\ inv' \in [Inventories -> StoreInventoryRow]
         /\ \A i \in Inventories :
               /\ inv'[i].reserved = inv[i].reserved + Reserved(p, i) - QtyOf(Of(GivenBack(p), i))
               /\ inv'[i].sold = inv[i].sold + QtyOf(Of(SoldBy(p), i))
               /\ proc[p].op # "restock" =>
                    /\ inv'[i].restocked = inv[i].restocked
                    /\ inv'[i].stock = inv[i].stock - QtyOf(Of(SoldBy(p), i))
               /\ proc[p].op = "restock" =>
                    \/ inv'[i] = inv[i]
                    \/ /\ i = proc[p].inv
                       /\ inv'[i].stock = inv[i].stock + proc[p].qty
                       /\ inv'[i].restocked = inv[i].restocked + proc[p].qty
<1>1. /\ inv' = [i \in Inventories |-> IF invLock[i] = p THEN invDraft[i] ELSE inv[i]]
      /\ inv \in [Inventories -> StoreInventoryRow] /\ invDraft \in [Inventories -> StoreInventoryRow]
  BY DEF CommitInventories, Inv, TypeOK
<1>2. inv' \in [Inventories -> StoreInventoryRow]
  BY <1>1
<1>3. ASSUME NEW i \in Inventories
      PROVE  /\ inv'[i].reserved = inv[i].reserved + Reserved(p, i) - QtyOf(Of(GivenBack(p), i))
             /\ inv'[i].sold = inv[i].sold + QtyOf(Of(SoldBy(p), i))
             /\ proc[p].op # "restock" =>
                  /\ inv'[i].restocked = inv[i].restocked
                  /\ inv'[i].stock = inv[i].stock - QtyOf(Of(SoldBy(p), i))
             /\ proc[p].op = "restock" =>
                  \/ inv'[i] = inv[i]
                  \/ /\ i = proc[p].inv
                     /\ inv'[i].stock = inv[i].stock + proc[p].qty
                     /\ inv'[i].restocked = inv[i].restocked + proc[p].qty
  <2>1. /\ inv'[i].reserved = inv[i].reserved + Reserved(p, i) - QtyOf(Of(GivenBack(p), i))
        /\ inv'[i].sold = inv[i].sold + QtyOf(Of(SoldBy(p), i))
    BY CommitSums
  <2>2. \/ inv'[i] = inv[i]
        \/ inv'[i] = invDraft[i] /\ Booking(p, i)
    BY <1>1 DEF Inv, Booked
  <2>3. /\ inv[i].stock \in Int /\ inv[i].sold \in Int /\ inv[i].restocked \in Int
        /\ inv'[i].sold \in Int /\ QtyOf(Of(SoldBy(p), i)) \in Nat
    BY <1>1, <1>2, BookedPresent DEF StoreInventoryRow
  <2>4. CASE inv'[i] = inv[i]
    <3>1. QtyOf(Of(SoldBy(p), i)) = 0
      BY <2>1, <2>3, <2>4
    <3>2. inv[i].stock = inv[i].stock - QtyOf(Of(SoldBy(p), i))
      BY <2>3, <3>1
    <3> QED
      BY <2>1, <2>4, <3>2
  <2>5. CASE inv'[i] = invDraft[i] /\ Booking(p, i)
    <3>1. CASE proc[p].op = "restock"
      BY <2>1, <2>5, <3>1 DEF Booking
    <3>2. CASE proc[p].op # "restock"
      <4>1. inv'[i].restocked = inv[i].restocked /\ inv'[i].stock = inv[i].stock - (inv'[i].sold - inv[i].sold)
        BY <2>3, <2>5, <3>2 DEF Booking
      <4> QED
        BY <2>1, <2>3, <3>2, <4>1
    <3> QED
      BY <3>1, <3>2
  <2> QED
    BY <2>2, <2>4, <2>5
<1> QED
  BY <1>2, <1>3

\* addItem commits: its item is reserved.
LEMMA CreateItemAccount ==
  ASSUME Inv, BookInv, Inv', NEW s \in Sessions, CreateItem(s), ~Throw(s)
  PROVE  AccountStep
<1>1. /\ s \in Procs /\ proc[s].op = "add" /\ proc[s].at = "finish" /\ CommitInventories(s) /\ Become(s, Idle)
      /\ Books(s) /\ WellFormed(s)
  BY DEF Procs, CreateItem, At, BookInv, Inv
<1>2. PICK i \in Inventories, qty \in Quantities, r \in Requests : i = proc[s].inv /\ qty = proc[s].qty /\ r = proc[s].req
  BY <1>1 DEF WellFormed
<1>3. PICK k \in UnusedItems : item' = [item EXCEPT ![k] = [state |-> "live", req |-> r, inv |-> i, qty |-> qty]]
  BY <1>2 DEF CreateItem
<1>4. k \in Items /\ item[k].state = "absent"
  BY <1>3 DEF UnusedItems
<1>5. GivenBack(s) = {} /\ SoldBy(s) = {} /\ Reserved(s, i) = qty /\ \A j \in Inventories \ {i} : Reserved(s, j) = 0
  BY <1>1, <1>2 DEF GivenBack, SoldBy, Reserved, Asked, Looping
<1>6. /\ inv \in [Inventories -> StoreInventoryRow] /\ inv' \in [Inventories -> StoreInventoryRow]
      /\ \A j \in Inventories : QtyOf(Of(GivenBack(s), j)) = 0 /\ QtyOf(Of(SoldBy(s), j)) = 0
      /\ qty \in Int
  <2>1. \A j : Of({}, j) = {} /\ QtyOf({}) = 0
    BY QtysOfNothing, QtyOfIsQtys DEF Of
  <2> QED
    BY <1>1, <1>5, <2>1, CommitRows, QuantitiesAreIntegers DEF Inv, TypeOK
<1>7. ASSUME NEW j \in Inventories
      PROVE  /\ inv'[j].reserved = inv[j].reserved + (IF j = i THEN qty ELSE 0)
             /\ inv'[j].stock = inv[j].stock /\ inv'[j].restocked = inv[j].restocked /\ inv'[j].sold = inv[j].sold
  <2>1. /\ inv'[j].reserved = inv[j].reserved + Reserved(s, j) - QtyOf(Of(GivenBack(s), j))
        /\ inv'[j].sold = inv[j].sold + QtyOf(Of(SoldBy(s), j))
        /\ inv'[j].restocked = inv[j].restocked
        /\ inv'[j].stock = inv[j].stock - QtyOf(Of(SoldBy(s), j))
    BY <1>1, CommitRows
  <2>2. inv[j].reserved \in Int /\ inv[j].sold \in Int /\ inv[j].stock \in Int
    BY <1>6 DEF StoreInventoryRow
  <2>3. Reserved(s, j) = IF j = i THEN qty ELSE 0
    BY <1>5
  <2> QED
    BY <1>6, <2>1, <2>2, <2>3
<1>8. inv' = [inv EXCEPT ![i].reserved = @ + qty]
  <2> DEFINE new == [inv[i] EXCEPT !.reserved = @ + qty]
  <2>1. /\ new \in StoreInventoryRow /\ new.reserved = inv[i].reserved + qty /\ new.stock = inv[i].stock
        /\ new.restocked = inv[i].restocked /\ new.sold = inv[i].sold
    BY <1>6 DEF StoreInventoryRow
  <2>2. inv'[i] = new
    <3>1. inv'[i].reserved = inv[i].reserved + qty
      BY <1>7
    <3> HIDE DEF new
    <3> QED
      BY <1>6, <1>7, <2>1, <3>1, RowEquality
  <2>3. \A j \in Inventories \ {i} : inv'[j] = inv[j]
    <3> SUFFICES ASSUME NEW j \in Inventories \ {i} PROVE inv'[j] = inv[j]
      OBVIOUS
    <3>1. inv[j].reserved \in Int /\ inv[j] \in StoreInventoryRow /\ inv'[j] \in StoreInventoryRow
      BY <1>6 DEF StoreInventoryRow
    <3>2. inv'[j].reserved = inv[j].reserved
      BY <1>7, <3>1
    <3> QED
      BY <1>7, <3>1, <3>2, RowEquality
  <2> HIDE DEF new
  <2>4. inv' = [inv EXCEPT ![i] = new]
    BY <1>6, <2>2, <2>3
  <2> QED
    BY <2>4 DEF new
<1>9. inv[i].reserved + qty <= inv[i].stock
  BY <1>7 DEF Inv, NoOversell
<1>10. [p \in Procs |-> proc'[p].seen] = [p \in Procs |-> proc[p].seen]
  <2>1. proc'[s] = Idle /\ Idle.seen = {} /\ \A q \in Procs \ {s} : proc'[q] = proc[q]
    BY <1>1, BecomeOthers DEF Idle
  <2>2. proc[s].seen = {}
    BY <1>1 DEF Books, Passing, Looping
  <2> QED
    BY <2>1, <2>2
<1>11. Account!Reserve(k, r, i, qty)
  BY <1>3, <1>4, <1>8, <1>9, <1>10 DEF Account!Reserve
<1> QED
  BY <1>4, <1>11 DEF AccountStep, Account!Next

\* A commit that releases L: only the reservations change.
LEMMA ReleasedRows ==
  ASSUME Inv, Inv', NEW p \in Procs, Books(p), CommitInventories(p), proc[p].op \in {"remove", "cancel", "expire"},
         NEW L, GivenBack(p) = L
  PROVE  \A i \in Inventories : /\ inv'[i] = [inv[i] EXCEPT !.reserved = @ - QtyOf(Of(L, i))]
                                /\ QtyOf(Of(L, i)) <= inv[i].reserved /\ QtyOf(Of(L, i)) \in Nat
<1> SUFFICES ASSUME NEW i \in Inventories
             PROVE  /\ inv'[i] = [inv[i] EXCEPT !.reserved = @ - QtyOf(Of(L, i))]
                    /\ QtyOf(Of(L, i)) <= inv[i].reserved /\ QtyOf(Of(L, i)) \in Nat
  OBVIOUS
<1>1. QtyOf(Of(L, i)) \in Nat /\ Reserved(p, i) = 0 /\ QtyOf(Of(SoldBy(p), i)) = 0
  <2>1. Of(SoldBy(p), i) = {} /\ QtyOf({}) = 0
    BY QtysOfNothing, QtyOfIsQtys DEF SoldBy, Of
  <2> QED
    BY <2>1, BookedPresent DEF Reserved
<1> DEFINE n == QtyOf(Of(L, i))
<1>2. inv[i] \in StoreInventoryRow /\ inv'[i] \in StoreInventoryRow /\ 0 <= inv'[i].reserved
  BY DEF Inv, TypeOK, NoOversell
<1>3. inv[i].reserved \in Int /\ inv[i].sold \in Int /\ inv[i].stock \in Int
  BY <1>2 DEF StoreInventoryRow
<1>4. /\ inv'[i].reserved = inv[i].reserved - n /\ inv'[i].stock = inv[i].stock
      /\ inv'[i].restocked = inv[i].restocked /\ inv'[i].sold = inv[i].sold
  <2>1. /\ inv'[i].reserved = inv[i].reserved + Reserved(p, i) - n
        /\ inv'[i].sold = inv[i].sold + QtyOf(Of(SoldBy(p), i))
        /\ inv'[i].restocked = inv[i].restocked
        /\ inv'[i].stock = inv[i].stock - QtyOf(Of(SoldBy(p), i))
    BY CommitRows
  <2>2. n \in Nat
    BY <1>1
  <2> HIDE DEF n
  <2> QED
    BY <1>1, <1>3, <2>1, <2>2
<1>5. n \in Nat
  BY <1>1
<1> HIDE DEF n
<1> DEFINE new == [inv[i] EXCEPT !.reserved = @ - n]
<1>6. /\ new \in StoreInventoryRow /\ new.reserved = inv[i].reserved - n /\ new.stock = inv[i].stock
      /\ new.restocked = inv[i].restocked /\ new.sold = inv[i].sold
  BY <1>2, <1>5 DEF StoreInventoryRow
<1>7. inv'[i] = new
  <2> HIDE DEF new
  <2> QED
    BY <1>2, <1>4, <1>6, RowEquality
<1>8. n <= inv[i].reserved
  BY <1>2, <1>3, <1>4, <1>5
<1> QED
  BY <1>5, <1>7, <1>8 DEF n

\* removeItem commits: its item, and nothing else, is given back, once.
LEMMA RemoveAccount ==
  ASSUME Inv, BookInv, Inv', NEW s \in Sessions, SetTotal(s) \/ CancelEmptyRequest(s)
  PROVE  AccountStep
<1>1. PICK k : k = proc[s].item
  OBVIOUS
<1>2. PICK i : i = item[k].inv
  OBVIOUS
<1>3. /\ s \in Procs /\ proc[s].op = "remove" /\ proc[s].at \in {"finish", "cancel"}
      /\ CommitInventories(s) /\ Become(s, Idle) /\ item' = [item EXCEPT ![k].state = "deleted"]
      /\ Books(s) /\ WellFormed(s)
  BY <1>1 DEF Procs, SetTotal, CancelEmptyRequest, DeleteItem, CommitRequest, At, BookInv, Inv
<1>4. k \in Present /\ i \in Inventories /\ item[k].state = "live" /\ k \in Items
  BY <1>1, <1>2, <1>3, PresentItems DEF Books, Passing, WellFormed, Present
<1>5. GivenBack(s) = {k}
  BY <1>1, <1>3 DEF GivenBack
<1>6. \A j \in Inventories : inv'[j] = [inv[j] EXCEPT !.reserved = @ - QtyOf(Of({k}, j))]
  BY <1>3, <1>5, ReleasedRows
<1>7. QtyOf(Of({k}, i)) = item[k].qty /\ item[k].qty <= inv[i].reserved
  <2>1. Of({k}, i) = {k} /\ QtyOf({k}) = item[k].qty
    BY <1>2, <1>4, QtyOfOne DEF Of, Inv
  <2>2. QtyOf(Of({k}, i)) <= inv[i].reserved
    BY <1>3, <1>4, <1>5, ReleasedRows
  <2> QED
    BY <2>1, <2>2
<1>8. /\ inv \in [Inventories -> StoreInventoryRow] /\ inv' \in [Inventories -> StoreInventoryRow]
  BY DEF Inv, TypeOK
<1>9. \A j \in Inventories \ {i} : inv'[j] = inv[j]
  <2> SUFFICES ASSUME NEW j \in Inventories \ {i} PROVE inv'[j] = inv[j]
    OBVIOUS
  <2>1. QtyOf(Of({k}, j)) = 0
    <3>1. Of({k}, j) = {}
      BY <1>2 DEF Of
    <3> QED
      BY <3>1, QtysOfNothing, QtyOfIsQtys
  <2>2. inv'[j] = [inv[j] EXCEPT !.reserved = @ - 0] /\ inv[j].reserved \in Int /\ inv[j] \in StoreInventoryRow
    BY <1>6, <1>8, <2>1 DEF StoreInventoryRow
  <2> QED
    BY <2>2 DEF StoreInventoryRow
<1>10. inv' = [inv EXCEPT ![i].reserved = @ - item[k].qty]
  <2> DEFINE new == [inv[i] EXCEPT !.reserved = @ - item[k].qty]
  <2>1. inv'[i] = new
    BY <1>4, <1>6, <1>7
  <2> HIDE DEF new
  <2>2. inv' = [inv EXCEPT ![i] = new]
    BY <1>4, <1>8, <1>9, <2>1
  <2> QED
    BY <2>2 DEF new
<1>11. [p \in Procs |-> proc'[p].seen] = [p \in Procs |-> proc[p].seen]
  <2>1. proc'[s] = Idle /\ Idle.seen = {} /\ \A q \in Procs \ {s} : proc'[q] = proc[q]
    BY <1>3, BecomeOthers DEF Idle
  <2>2. proc[s].seen = {}
    BY <1>3 DEF Books, Passing, Looping
  <2> QED
    BY <2>1, <2>2
<1>12. Account!Remove(k)
  BY <1>2, <1>3, <1>4, <1>7, <1>10, <1>11 DEF Account!Remove
<1> QED
  BY <1>4, <1>12 DEF AccountStep, Account!Next

\* What an item of the list wants of an inventory is what the account says it wants.
LEMMA WantedIsQty ==
  ASSUME NEW K, NEW i
  PROVE  Account!Wanted(K, i) = QtyOf(Of(K, i))
<1>1. ASSUME NEW f
      PROVE  Account!SumFunction(f) = SumFunction(f)
  BY DEF Account!SumFunction, Account!SumFunctionOnSet, Account!FoldFunctionOnSet, Account!MapThenFoldSet,
         SumFunction, SumFunctionOnSet, FoldFunctionOnSet, MapThenFoldSet
<1> QED
  BY <1>1 DEF Account!Wanted, Account!Of, QtyOf, Of

\* The list of a process that is done with its items.
LEMMA ListDone ==
  ASSUME NEW p \in Procs, \A q \in Procs \ {p} : proc'[q] = proc[q], proc'[p].seen = {}
  PROVE  [q \in Procs |-> proc'[q].seen] = [[q \in Procs |-> proc[q].seen] EXCEPT ![p] = {}]
  OBVIOUS

\* A loop at its end has passed all items of its list.
LEMMA AllPassed ==
  ASSUME Inv, NEW p \in Procs, Passing(p), proc[p].op \in Looping, proc[p].at = "finish"
  PROVE  GivenBack(p) = proc[p].seen
<1>1. proc[p].todo = {} /\ proc[p].item \notin Items /\ proc[p].seen \subseteq Items
  BY DEF Passing, Inv, WellFormed, Present
<1> QED
  BY <1>1 DEF GivenBack, Looping

\* cancel and the expiry pass commit: all they have listed is given back, each item once.
LEMMA ReleaseAccount ==
  ASSUME Inv, BookInv, Inv', NEW p \in Procs, SetRequestCancelled(p) \/ SetRequestExpired(p)
  PROVE  AccountStep
<1>1. PICK L : L = proc[p].seen
  OBVIOUS
<1>2. /\ proc[p].op \in {"cancel", "expire"} /\ proc[p].at = "finish"
      /\ CommitInventories(p) /\ item' = item /\ Books(p)
  BY DEF SetRequestCancelled, SetRequestExpired, CommitRequest, At, itemVars, BookInv
<1>3. /\ \A q \in Procs \ {p} : proc'[q] = proc[q]
      /\ proc'[p].seen = {}
  <2>1. Idle.seen = {} /\ \A b : Pass(b).seen = {}
    BY DEF Idle, Pass
  <2>2. PICK l : Become(p, l) /\ l.seen = {}
    BY <2>1 DEF SetRequestCancelled, SetRequestExpired
  <2> QED
    BY <2>2, BecomeOthers
<1>4. GivenBack(p) = L
  BY <1>1, <1>2, AllPassed DEF Books, Looping
<1>5. /\ \A i \in Inventories : inv'[i] = [inv[i] EXCEPT !.reserved = @ - Account!Wanted(L, i)]
      /\ \A i \in Inventories : Account!Wanted(L, i) <= inv[i].reserved
  BY <1>2, <1>4, ReleasedRows, WantedIsQty
<1>6. inv' = [i \in Inventories |-> [inv[i] EXCEPT !.reserved = @ - Account!Wanted(L, i)]]
  <2>1. inv' \in [Inventories -> StoreInventoryRow]
    BY DEF Inv, TypeOK
  <2> QED
    BY <1>5, <2>1
<1>7. [q \in Procs |-> proc[q].seen][p] = L
  BY <1>1
<1>8. Account!Release(p)
  BY <1>2, <1>3, <1>5, <1>6, <1>7, ListDone DEF Account!Release
<1> QED
  BY <1>8 DEF AccountStep, Account!Next

\* confirm commits: all it has listed is sold, each item once.
LEMMA SellAccount ==
  ASSUME Inv, BookInv, Inv', NEW s \in Sessions, SetRequestConfirmed(s)
  PROVE  AccountStep
<1>1. PICK L : L = proc[s].seen
  OBVIOUS
<1>2. /\ s \in Procs /\ proc[s].op = "confirm" /\ proc[s].at = "finish"
      /\ CommitInventories(s) /\ item' = item /\ Books(s) /\ Become(s, Idle)
  BY DEF Procs, SetRequestConfirmed, CommitRequest, At, itemVars, BookInv
<1>3. /\ \A q \in Procs \ {s} : proc'[q] = proc[q]
      /\ proc'[s].seen = {}
  BY <1>2, BecomeOthers DEF Idle
<1>4. GivenBack(s) = L /\ SoldBy(s) = L
  BY <1>1, <1>2, AllPassed DEF Books, Looping, SoldBy
<1>5. ASSUME NEW i \in Inventories
      PROVE  /\ inv'[i] = [inv[i] EXCEPT !.stock = @ - QtyOf(Of(L, i)), !.reserved = @ - QtyOf(Of(L, i)),
                                         !.sold = @ + QtyOf(Of(L, i))]
             /\ QtyOf(Of(L, i)) <= inv[i].reserved
  <2> DEFINE n == QtyOf(Of(L, i))
  <2>1. n \in Nat /\ Reserved(s, i) = 0
    BY <1>2, <1>4, BookedPresent DEF Reserved
  <2>2. inv[i] \in StoreInventoryRow /\ inv'[i] \in StoreInventoryRow /\ 0 <= inv'[i].reserved
    BY DEF Inv, TypeOK, NoOversell
  <2>3. inv[i].reserved \in Int /\ inv[i].sold \in Int /\ inv[i].stock \in Int
    BY <2>2 DEF StoreInventoryRow
  <2>4. /\ inv'[i].reserved = inv[i].reserved + Reserved(s, i) - n
        /\ inv'[i].sold = inv[i].sold + n
        /\ inv'[i].restocked = inv[i].restocked
        /\ inv'[i].stock = inv[i].stock - n
    BY <1>2, <1>4, CommitRows
  <2> HIDE DEF n
  <2>5. inv'[i].reserved = inv[i].reserved - n
    BY <2>1, <2>3, <2>4
  <2> DEFINE one == [inv[i] EXCEPT !.stock = @ - n]
             two == [one EXCEPT !.reserved = @ - n]
             new == [two EXCEPT !.sold = @ + n]
  <2>6. one \in StoreInventoryRow /\ one.reserved = inv[i].reserved /\ one.sold = inv[i].sold
        /\ one.stock = inv[i].stock - n /\ one.restocked = inv[i].restocked
    BY <2>1, <2>2 DEF StoreInventoryRow
  <2> HIDE DEF one
  <2>7. two \in StoreInventoryRow /\ two.reserved = inv[i].reserved - n /\ two.sold = inv[i].sold
        /\ two.stock = inv[i].stock - n /\ two.restocked = inv[i].restocked
    BY <2>1, <2>6 DEF StoreInventoryRow
  <2> HIDE DEF two
  <2>8. new \in StoreInventoryRow /\ new.reserved = inv[i].reserved - n /\ new.sold = inv[i].sold + n
        /\ new.stock = inv[i].stock - n /\ new.restocked = inv[i].restocked
    BY <2>1, <2>7 DEF StoreInventoryRow
  <2>9. inv'[i] = new
    <3> HIDE DEF new
    <3> QED
      BY <2>2, <2>4, <2>5, <2>8, RowEquality
  <2>10. n <= inv[i].reserved
    BY <2>1, <2>2, <2>3, <2>5
  <2> QED
    BY <2>9, <2>10 DEF n, one, two
<1>6. \A i \in Inventories : Account!Wanted(L, i) <= inv[i].reserved
  BY <1>5, WantedIsQty
<1>7. inv' = [i \in Inventories |-> [inv[i] EXCEPT !.stock = @ - Account!Wanted(L, i),
                                                   !.reserved = @ - Account!Wanted(L, i),
                                                   !.sold = @ + Account!Wanted(L, i)]]
  <2>1. inv' \in [Inventories -> StoreInventoryRow]
    BY DEF Inv, TypeOK
  <2>2. \A i \in Inventories : inv'[i] = [inv[i] EXCEPT !.stock = @ - Account!Wanted(L, i),
                                                       !.reserved = @ - Account!Wanted(L, i),
                                                       !.sold = @ + Account!Wanted(L, i)]
    BY <1>5, WantedIsQty
  <2> QED
    BY <2>1, <2>2
<1>8. [q \in Procs |-> proc[q].seen][s] = L
  BY <1>1, <1>2
<1>9. Account!Sell(s)
  BY <1>2, <1>3, <1>6, <1>7, <1>8, ListDone DEF Account!Sell
<1> QED
  BY <1>2, <1>9 DEF AccountStep, Account!Next

\* restock commits: its goods have arrived.
LEMMA RestockAccount ==
  ASSUME Inv, BookInv, Inv', NEW s \in Sessions, CommitRestock(s)
  PROVE  AccountStep
<1>1. /\ s \in Procs /\ proc[s].op = "restock" /\ proc[s].at = "finish" /\ CommitInventories(s) /\ Become(s, Idle)
      /\ Books(s) /\ WellFormed(s) /\ item' = item
  BY DEF Procs, CommitRestock, At, BookInv, Inv, itemVars
<1>2. PICK i \in Inventories, qty \in Quantities : i = proc[s].inv /\ qty = proc[s].qty
  BY <1>1 DEF WellFormed
<1>3. /\ proc'[s].seen = {} /\ proc[s].seen = {} /\ \A q \in Procs \ {s} : proc'[q] = proc[q]
  BY <1>1, BecomeOthers DEF Idle, Books, Passing, Looping
<1>4. \A j \in Inventories : Reserved(s, j) = 0 /\ QtyOf(Of(GivenBack(s), j)) = 0 /\ QtyOf(Of(SoldBy(s), j)) = 0
  <2>1. GivenBack(s) = {} /\ SoldBy(s) = {} /\ \A j : Reserved(s, j) = 0
    BY <1>1 DEF GivenBack, SoldBy, Reserved, Looping
  <2>2. \A j : Of({}, j) = {} /\ QtyOf({}) = 0
    BY QtysOfNothing, QtyOfIsQtys DEF Of
  <2> QED
    BY <2>1, <2>2
<1>5. /\ inv \in [Inventories -> StoreInventoryRow] /\ inv' \in [Inventories -> StoreInventoryRow] /\ qty \in Int
  BY QuantitiesAreIntegers DEF Inv, TypeOK
<1>6. ASSUME NEW j \in Inventories
      PROVE  /\ inv'[j].reserved = inv[j].reserved /\ inv'[j].sold = inv[j].sold
             /\ \/ inv'[j] = inv[j]
                \/ /\ i = j
                   /\ inv'[j].stock = inv[j].stock + qty
                   /\ inv'[j].restocked = inv[j].restocked + qty
  <2>1. /\ inv'[j].reserved = inv[j].reserved + Reserved(s, j) - QtyOf(Of(GivenBack(s), j))
        /\ inv'[j].sold = inv[j].sold + QtyOf(Of(SoldBy(s), j))
        /\ \/ inv'[j] = inv[j]
           \/ /\ j = i
              /\ inv'[j].stock = inv[j].stock + qty
              /\ inv'[j].restocked = inv[j].restocked + qty
    BY <1>1, <1>2, CommitRows
  <2>2. inv[j].reserved \in Int /\ inv[j].sold \in Int
    BY <1>5 DEF StoreInventoryRow
  <2> QED
    BY <1>4, <2>1, <2>2
<1>7. CASE inv'[i] = inv[i]
  <2>1. inv' = inv
    BY <1>5, <1>6, <1>7
  <2> QED
    BY <1>1, <1>3, <2>1, QuietStepBooks
<1>8. CASE inv'[i] # inv[i]
  <2>1. /\ inv'[i].stock = inv[i].stock + qty /\ inv'[i].restocked = inv[i].restocked + qty
        /\ inv'[i].reserved = inv[i].reserved /\ inv'[i].sold = inv[i].sold
        /\ \A j \in Inventories \ {i} : inv'[j] = inv[j]
    BY <1>6, <1>8
  <2> DEFINE half == [inv[i] EXCEPT !.stock = @ + qty]
             new == [half EXCEPT !.restocked = @ + qty]
  <2>2. /\ half \in StoreInventoryRow /\ half.stock = inv[i].stock + qty /\ half.restocked = inv[i].restocked
        /\ half.reserved = inv[i].reserved /\ half.sold = inv[i].sold
    BY <1>5 DEF StoreInventoryRow
  <2> HIDE DEF half
  <2>3. /\ new \in StoreInventoryRow /\ new.stock = inv[i].stock + qty /\ new.restocked = inv[i].restocked + qty
        /\ new.reserved = inv[i].reserved /\ new.sold = inv[i].sold
    BY <1>5, <2>2 DEF StoreInventoryRow
  <2>4. inv'[i] = new
    <3> HIDE DEF new
    <3> QED
      BY <1>5, <2>1, <2>3, RowEquality
  <2> HIDE DEF new
  <2>5. inv' = [inv EXCEPT ![i] = new]
    BY <1>5, <2>1, <2>4
  <2>6. inv' = [inv EXCEPT ![i].stock = @ + qty, ![i].restocked = @ + qty]
    BY <1>5, <2>5, <2>3 DEF new, half
  <2>7. [p \in Procs |-> proc'[p].seen] = [p \in Procs |-> proc[p].seen]
    BY <1>3
  <2>8. Account!Receive(i, qty)
    BY <1>1, <2>6, <2>7 DEF Account!Receive
  <2> QED
    BY <2>8 DEF AccountStep, Account!Next
<1> QED
  BY <1>7, <1>8

\* A statement of p that commits nothing.
LEMMA NothingCommitted ==
  ASSUME Inv, NEW p \in Procs, inv' = inv, item' = item, NEW l, Become(p, l),
         l.seen = proc[p].seen \/ l.seen = {} \/ \E r \in Requests : l.seen = LiveItems(r)
  PROVE  AccountStep
<1>1. proc'[p] = l /\ \A q \in Procs \ {p} : proc'[q] = proc[q]
  BY BecomeOthers
<1> QED
  BY <1>1, QuietStepBooks, ListStepBooks

\* A transaction that is rolled back books nothing.
LEMMA AbortAccount ==
  ASSUME NEW P \in SUBSET Procs, Abort(P)
  PROVE  AccountStep
<1>1. inv' = inv /\ item' = item
  BY DEF Abort, RollbackInventories
<1>2. \A p \in Procs : proc'[p].seen = IF p \in P THEN {} ELSE proc[p].seen
  BY DEF Abort, Idle
<1> QED
  BY <1>1, <1>2, GiveUpBooks

\* The start of a handler.
LEMMA StartAccount ==
  ASSUME Inv, NEW s \in Sessions, StartHandler(s)
  PROVE  AccountStep
<1>1. s \in Procs
  BY DEF Procs
<1>2. inv' = inv /\ item' = item
  BY DEF StartHandler, AddItem, RemoveItem, Confirm, Cancel, Start, RestockInventory, WriteInventory, inventoryVars,
         itemVars
<1>3. PICK l : Become(s, l) /\ l.seen = {}
  <2>1. ASSUME NEW u \in Users, NEW i \in Inventories, NEW qty \in Quantities, AddItem(s, u, i, qty)
        PROVE  \E l : Become(s, l) /\ l.seen = {}
    <3> DEFINE l == [Idle EXCEPT !.op = "add", !.at = "find", !.user = u, !.inv = i, !.qty = qty, !.until = now]
    <3>1. Become(s, l) /\ l.seen = {}
      BY <2>1 DEF AddItem, Start, Idle
    <3> QED
      BY <3>1
  <2>2. ASSUME NEW k \in Items, RemoveItem(s, k)
        PROVE  \E l : Become(s, l) /\ l.seen = {}
    <3> DEFINE l == [Idle EXCEPT !.op = "remove", !.at = "delete", !.item = k, !.req = item[k].req]
    <3>1. Become(s, l) /\ l.seen = {}
      BY <2>2 DEF RemoveItem, Start, Idle
    <3> QED
      BY <3>1
  <2>3. ASSUME NEW r \in Requests, Confirm(s, r)
        PROVE  \E l : Become(s, l) /\ l.seen = {}
    <3> DEFINE l == [Idle EXCEPT !.op = "confirm", !.at = "list", !.req = r, !.total = req[r].total]
    <3>1. Become(s, l) /\ l.seen = {}
      BY <2>3 DEF Confirm, Start, Idle
    <3> QED
      BY <3>1
  <2>4. ASSUME NEW r \in Requests, Cancel(s, r)
        PROVE  \E l : Become(s, l) /\ l.seen = {}
    <3> DEFINE l == [Idle EXCEPT !.op = "cancel", !.at = "list", !.req = r]
    <3>1. Become(s, l) /\ l.seen = {}
      BY <2>4 DEF Cancel, Start, Idle
    <3> QED
      BY <3>1
  <2>5. ASSUME NEW i \in Inventories, NEW qty \in Quantities, RestockInventory(s, i, qty)
        PROVE  \E l : Become(s, l) /\ l.seen = {}
    <3> DEFINE l == [Idle EXCEPT !.op = "restock", !.at = "finish", !.inv = i, !.qty = qty]
    <3>1. Become(s, l) /\ l.seen = {}
      BY <2>5 DEF RestockInventory, Idle
    <3> QED
      BY <3>1
  <2> QED
    BY <2>1, <2>2, <2>3, <2>4, <2>5 DEF StartHandler
<1> QED
  BY <1>1, <1>2, <1>3, NothingCommitted

\* The statements of the handlers that write requests and items only at their commit.
LEMMA QuietAccount ==
  ASSUME Inv, NEW p \in Procs, ~Throw(p),
         \/ FindLatestActiveRequest(p) \/ CreateRequest(p) \/ TouchRequestExpiry(p) \/ ReserveForItem(p)
         \/ DeleteItemForOpenRequest(p) \/ CountItems(p) \/ SumItems(p)
  PROVE  AccountStep
<1>1. inv' = inv /\ item' = item /\ proc[p] \in Locals
  BY DEF FindLatestActiveRequest, CreateRequest, TouchRequestExpiry, ReserveForItem, DeleteItemForOpenRequest,
         CountItems, SumItems, WriteInventory, inventoryVars, itemVars, Inv, TypeOK
<1>2. PICK a, r, n, K :
        \/ Become(p, [proc[p] EXCEPT !.at = a])
        \/ Become(p, [proc[p] EXCEPT !.at = a, !.req = r])
        \/ Become(p, [proc[p] EXCEPT !.at = a, !.req = r, !.until = n])
        \/ Become(p, [proc[p] EXCEPT !.at = a, !.total = K])
  <2>1. CASE FindLatestActiveRequest(p)
    BY <2>1 DEF FindLatestActiveRequest
  <2>2. CASE CreateRequest(p) \/ SumItems(p)
    BY <2>2 DEF CreateRequest, SumItems
  <2>3. CASE TouchRequestExpiry(p) \/ ReserveForItem(p) \/ DeleteItemForOpenRequest(p) \/ CountItems(p)
    BY <2>3 DEF TouchRequestExpiry, ReserveForItem, DeleteItemForOpenRequest, CountItems, Goto
  <2> QED
    BY <2>1, <2>2, <2>3
<1>3. PICK l : Become(p, l) /\ l.seen = proc[p].seen
  <2>1. /\ [proc[p] EXCEPT !.at = a].seen = proc[p].seen
        /\ [proc[p] EXCEPT !.at = a, !.req = r].seen = proc[p].seen
        /\ [proc[p] EXCEPT !.at = a, !.req = r, !.until = n].seen = proc[p].seen
        /\ [proc[p] EXCEPT !.at = a, !.total = K].seen = proc[p].seen
    BY <1>1 DEF Locals
  <2> QED
    BY <1>2, <2>1
<1> QED
  BY <1>1, <1>3, NothingCommitted

\* The lists, and the loops.
LEMMA LoopAccount ==
  ASSUME Inv, NEW p \in Procs, ~Throw(p),
         \/ ListItemsToCancel(p) \/ ListItemsToSell(p) \/ CreateInvoice(p) \/ SellItem(p) \/ ReleaseForItem(p)
         \/ LockExpiredRequest(p)
  PROVE  AccountStep
<1>1. inv' = inv /\ item' = item /\ proc[p] \in Locals /\ WellFormed(p)
  BY DEF ListItemsToCancel, ListItemsToSell, CreateInvoice, SellItem, ReleaseForItem, LockExpiredRequest,
         WriteInventory, inventoryVars, itemVars, Inv, TypeOK
<1>2. \A r : LiveItems(r) \in SUBSET Items
  BY DEF LiveItems
<1>3. PICK l : Become(p, l) /\ (l.seen = proc[p].seen \/ l.seen = {} \/ \E r \in Requests : l.seen = LiveItems(r))
  <2>1. CASE ListItemsToCancel(p)
    <3> DEFINE K == LiveItems(proc[p].req)
               rest == [proc[p] EXCEPT !.seen = K]
    <3>1. PICK l \in NextItem(rest, K, "release") : Become(p, l)
      BY <2>1 DEF ListItemsToCancel
    <3>2. rest \in Locals
      BY <1>1, <1>2, LocalUpdates
    <3>3. rest.seen = K
      BY <1>1 DEF Locals
    <3>4. proc[p].req \in Requests
      BY <1>1, <2>1 DEF ListItemsToCancel, At, WellFormed
    <3> HIDE DEF rest
    <3>5. l.seen = K
      BY <3>1, <3>2, <3>3, NextItemParts
    <3> QED
      BY <3>1, <3>4, <3>5
  <2>2. CASE ListItemsToSell(p)
    <3> DEFINE K == LiveItems(proc[p].req)
               l == [proc[p] EXCEPT !.at = "invoice", !.seen = K]
    <3>1. Become(p, IF K = {} THEN Idle ELSE l)
      BY <2>2 DEF ListItemsToSell
    <3>2. l.seen = K /\ Idle.seen = {}
      BY <1>1 DEF Locals, Idle
    <3>3. proc[p].req \in Requests
      BY <1>1, <2>2 DEF ListItemsToSell, At, WellFormed
    <3> HIDE DEF l
    <3> QED
      BY <3>1, <3>2, <3>3
  <2>3. CASE CreateInvoice(p) \/ SellItem(p) \/ ReleaseForItem(p)
    <3>1. PICK K, at : \/ \E l \in NextItem(proc[p], K, at) : Become(p, l)
                       \/ Become(p, [proc[p] EXCEPT !.at = "count"])
      BY <2>3 DEF CreateInvoice, SellItem, ReleaseForItem
    <3>2. [proc[p] EXCEPT !.at = "count"].seen = proc[p].seen
      BY <1>1 DEF Locals
    <3>3. \A l \in NextItem(proc[p], K, at) : l.seen = proc[p].seen
      BY <1>1, NextItemParts
    <3> QED
      BY <3>1, <3>2, <3>3
  <2>4. CASE LockExpiredRequest(p)
    <3>1. PICK r \in proc[p].batch :
            LET rest == [proc[p] EXCEPT !.batch = @ \ {r}, !.req = r, !.seen = LiveItems(r)] IN
            \/ \E n \in NextItem(rest, LiveItems(r), "release") : Become(p, n)
            \/ Become(p, Pass(rest.batch))
      BY <2>4 DEF LockExpiredRequest
    <3> DEFINE rest == [proc[p] EXCEPT !.batch = @ \ {r}, !.req = r, !.seen = LiveItems(r)]
               K == LiveItems(r)
    <3>2. r \in Requests /\ rest \in Locals
      <4>1. r \in Requests /\ proc[p].batch \ {r} \in SUBSET Requests
        BY <1>1 DEF Locals
      <4>2. [proc[p] EXCEPT !.batch = @ \ {r}] \in Locals
        BY <1>1, <4>1, LocalUpdates
      <4>3. [[proc[p] EXCEPT !.batch = @ \ {r}] EXCEPT !.req = r] \in Locals
        BY <4>1, <4>2, LocalUpdates
      <4> QED
        BY <1>2, <4>1, <4>3, LocalUpdates
    <3>3. rest.seen = K
      BY <1>1 DEF Locals
    <3>4. \A b : Pass(b).seen = {}
      BY DEF Pass, Idle
    <3> HIDE DEF rest, K
    <3>5. \A n \in NextItem(rest, K, "release") : n.seen = K
      BY <3>2, <3>3, NextItemParts
    <3>6. (\E n \in NextItem(rest, K, "release") : Become(p, n)) \/ Become(p, Pass(rest.batch))
      BY <3>1 DEF rest, K
    <3>7. K = LiveItems(r)
      BY DEF K
    <3> QED
      BY <3>2, <3>4, <3>5, <3>6, <3>7
  <2> QED
    BY <2>1, <2>2, <2>3, <2>4
<1> QED
  BY <1>1, <1>3, NothingCommitted

\* Every step is a booking of an account, or none.
LEMMA StepAccount ==
  ASSUME Inv, BookInv, Inv', [Next]_vars
  PROVE  AccountStep
<1>1. ASSUME NEW p \in Procs, Throw(p)
      PROVE  AccountStep
  <2>1. (IF p \in Workers THEN InstanceOf(p) ELSE {p}) \in SUBSET Procs
    BY DEF InstanceOf, Procs
  <2> QED
    BY <1>1, <2>1, AbortAccount DEF Throw
<1>2. ASSUME NEW s \in Sessions, HandlerStep(s)
      PROVE  AccountStep
  <2>1. s \in Procs
    BY DEF Procs
  <2>2. CASE Throw(s)
    BY <1>1, <2>1, <2>2
  <2>3. CASE ~Throw(s)
    <3>1. CASE \/ FindLatestActiveRequest(s) \/ CreateRequest(s) \/ TouchRequestExpiry(s) \/ ReserveForItem(s)
               \/ DeleteItemForOpenRequest(s) \/ CountItems(s) \/ SumItems(s)
      BY <2>1, <2>3, <3>1, QuietAccount
    <3>2. CASE ListItemsToCancel(s) \/ ListItemsToSell(s) \/ CreateInvoice(s) \/ SellItem(s) \/ ReleaseForItem(s)
      BY <2>1, <2>3, <3>2, LoopAccount
    <3>3. CASE CreateItem(s)
      BY <2>3, <3>3, CreateItemAccount
    <3>4. CASE SetTotal(s) \/ CancelEmptyRequest(s)
      BY <3>4, RemoveAccount
    <3>5. CASE SetRequestCancelled(s)
      BY <2>1, <3>5, ReleaseAccount
    <3>6. CASE SetRequestConfirmed(s)
      BY <3>6, SellAccount
    <3>7. CASE CommitRestock(s)
      BY <3>7, RestockAccount
    <3> QED
      BY <1>2, <3>1, <3>2, <3>3, <3>4, <3>5, <3>6, <3>7 DEF HandlerStep
  <2> QED
    BY <2>2, <2>3
<1>3. ASSUME NEW w \in Workers, ExpireOpenPurchaseRequests(w) \/ WorkerStep(w)
      PROVE  AccountStep
  <2>1. w \in Procs
    BY DEF Procs
  <2>2. CASE ExpireOpenPurchaseRequests(w)
    <3>1. inv' = inv /\ item' = item /\ \E b : Become(w, Pass(b))
      BY <2>2 DEF ExpireOpenPurchaseRequests, Start, inventoryVars, itemVars
    <3>2. \A b : Pass(b).seen = {}
      BY DEF Pass, Idle
    <3> QED
      BY <2>1, <3>1, <3>2, NothingCommitted
  <2>3. CASE WorkerStep(w) /\ ~Throw(w)
    BY <2>1, <2>3, LoopAccount, ReleaseAccount DEF WorkerStep
  <2> QED
    BY <1>1, <1>3, <2>1, <2>2, <2>3
<1>4. ASSUME NEW w \in Workers, Crash(w)
      PROVE  AccountStep
  <2>1. InstanceOf(w) \in SUBSET Procs
    BY DEF InstanceOf, Procs
  <2> QED
    BY <1>4, <2>1, AbortAccount DEF Crash
<1>5. CASE Tick \/ UNCHANGED vars
  <2>1. inv' = inv /\ item' = item /\ proc' = proc
    BY <1>5 DEF Tick, vars, inventoryVars, itemVars
  <2> QED
    BY <2>1 DEF AccountStep
<1> QED
  BY <1>1, <1>2, <1>3, <1>4, <1>5, StartAccount DEF Next, DeadlockDetected

\* The commits of the workflow are bookings of whole items, one at a time: a cart gets an item with
\* its reservation, loses one that is there, and a cancel, a pass or a confirm books all it has
\* listed, each item once, or nothing; whatever interleaves, fails half way or crashes.
THEOREM Refinement == Spec => ImplementsStockAccount
<1>1. Init => Account!Init
  <2> SUFFICES ASSUME Init
               PROVE  Account!Init
    OBVIOUS
  <2>1. \A i \in Inventories : NewRow(InitStock[i]) =
          [stock |-> InitStock[i], reserved |-> 0, restocked |-> InitStock[i], sold |-> 0]
    BY InventoriesAssumption DEF NewRow
  <2>2. inv = [i \in Inventories |->
                 [stock |-> InitStock[i], reserved |-> 0, restocked |-> InitStock[i], sold |-> 0]]
    BY <2>1 DEF Init
  <2>3. item = [k \in Items |-> [state |-> "absent"]] /\ [p \in Procs |-> proc[p].seen] = [p \in Procs |-> {}]
    BY DEF Init, NoItem, Idle
  <2> QED
    BY <2>2, <2>3 DEF Account!Init
<1>2. Inv /\ BookInv /\ Inv' /\ [Next]_vars => AccountStep
  BY StepAccount
<1> QED
  BY <1>1, <1>2, Invariance, BookInvariance, PTL DEF Spec, ImplementsStockAccount, Account!Spec, AccountStep

=============================================================================
