-------------------------------- MODULE ProductsProofs --------------------------------
(***************************************************************************)
(* Proofs about Products, for any requests, products, images, categories,  *)
(* schemas and spec fields.                                                *)
(*                                                                         *)
(* What a request has read is a property of its local state l and of the   *)
(* tables: the schema its specs were checked against is that of the        *)
(* category the row will have, the positions it adds are free, its list    *)
(* holds every image, unless the history says that this is stale.  Rows    *)
(* are never removed, and products are numbered in the order they come.    *)
(*                                                                         *)
(* The last two parts are about the hierarchy of Categories.  makeTree and *)
(* Above are folds that apply one function as often as there are           *)
(* categories; they find the least set that the function adds nothing to,  *)
(* and of two such sets the smaller is found by comparing what they have.  *)
(***************************************************************************)
EXTENDS Products, FiniteSetTheorems, WellFoundedInduction, TLAPS

\* A request knows what it works on.
WellFormed(l) ==
    /\ l.op # "idle" => l.product \in ProductIds
    /\ l.op \in {"update", "delete", "addImage", "reorder"} => Exists(l.product)
    /\ l.op = "create" => l.specs \in Specs /\ l.category # None
    /\ l.op \in {"create", "update"} =>
         l.checked \in FindActiveById /\ (l.category # None => l.category = l.checked)
    /\ l.at = "list" => l.next = 1
    /\ l.at = "positions" =>
         /\ l.op = "reorder"
         /\ \E n \in 0..MaxImages : l.ids \in [1..n -> Images(l.product)] /\ l.next <= n + 1

\* update has read the last position, and reorderImages got the list of all the images.
FreshPositions(l) ==
    l.op = "update" /\ l.at = "write" /\ l.pictures > 0 /\ "positions" \notin l.stale =>
        \A i \in Images(l.product) : image[i].position < l.start
FreshList(l) ==
    l.at = "positions" /\ "positions" \notin l.stale /\ ~Repeats(l.ids) =>
        \A i \in Images(l.product) : \E k \in DOMAIN l.ids : l.ids[k] = i

\* create and update have checked the specs against the schema of the category the row will have.
FreshSpecs(l) ==
    l.op \in {"create", "update"} /\ l.specs # None /\ "specs" \notin l.stale =>
        /\ l.op = "update" /\ l.category = None => product[l.product].category = l.checked
        /\ l.at # "validate" => Validates(SchemaOf(l.checked), l.specs)

Known(l) == WellFormed(l) /\ FreshPositions(l) /\ FreshList(l) /\ FreshSpecs(l)

\* The products that exist are the first n, and at most one request creates the next.
Creating(s) == proc[s].op = "create"
Numbered(n) == /\ \A p \in ProductIds : Exists(p) <=> p <= n
               /\ \A s \in Sessions : Creating(s) => proc[s].product = n + 1
OneCreates == \A s, t \in Sessions : Creating(s) /\ Creating(t) => s = t

ImagesBelong == \A i \in ImageIds : image[i] # NoImage => Exists(image[i].product)
CategoriesExist == \A p \in ProductIds : Exists(p) => product[p].category \in FindActiveById

Inv ==
    /\ TypeOK /\ proc \in [Sessions -> Locals]
    /\ ImagesBelong /\ CategoriesExist
    /\ (\E n \in 0..MaxProducts : Numbered(n)) /\ OneCreates
    /\ PositionsDistinct
    /\ \A s \in Sessions : Known(proc[s])

-----------------------------------------------------------------------------
(* Numbers and lists *)

\* A bounded set of integers has a largest member, which is what MaxOf chooses.
LEMMA MaxOfIsMax ==
  ASSUME NEW a \in Int, NEW b \in Int, NEW S \in SUBSET (a..b), S # {}
  PROVE  MaxOf(S) \in S /\ \A m \in S : m <= MaxOf(S)
<1> DEFINE N == {n \in Nat : b - n \in S}
           R == OpToRel(<, Nat)
<1>1. IsWellFoundedOn(R, Nat)
  BY NatLessThanWellFounded
<1>2. N # {} /\ N \subseteq Nat
  <2>1. PICK m \in S : TRUE
    OBVIOUS
  <2>2. m \in Int /\ m <= b
    OBVIOUS
  <2>3. b - m \in Nat /\ b - (b - m) = m
    BY <2>2
  <2> QED
    BY <2>1, <2>3
<1>3. \A m, n \in Nat : m < n => <<m, n>> \in R
  BY DEF OpToRel
<1> HIDE DEF R, N
<1>4. PICK n \in N : \A m \in N : ~(<<m, n>> \in R)
  BY <1>1, <1>2, WFMin
<1>5. b - n \in S /\ \A m \in S : m <= b - n
  <2>1. n \in Nat /\ b - n \in S
    BY <1>4 DEF N
  <2>2. ASSUME NEW m \in S, m > b - n
        PROVE  FALSE
    <3>1. m \in Int /\ m <= b
      OBVIOUS
    <3>2. b - m \in Nat /\ b - (b - m) = m /\ b - m < n
      BY <2>1, <2>2, <3>1
    <3>3. b - m \in N
      BY <3>2 DEF N
    <3> QED
      BY <1>3, <1>4, <2>1, <3>2, <3>3
  <2> QED
    BY <2>1, <2>2
<1> QED
  BY <1>5 DEF MaxOf

\* As many different ids as there are images are all of them.
LEMMA CompleteList ==
  ASSUME NEW K, IsFiniteSet(K), NEW ids \in [1..Cardinality(K) -> K], ~Repeats(ids), NEW i \in K
  PROVE  \E k \in DOMAIN ids : ids[k] = i
<1> SUFFICES ASSUME \A k \in DOMAIN ids : ids[k] # i
             PROVE  FALSE
  OBVIOUS
<1> DEFINE n == Cardinality(K)  T == K \ {i}
<1>1. n \in Nat
  BY FS_CardinalityType
<1>2. IsFiniteSet(T) /\ Cardinality(T) = n - 1
  BY FS_RemoveElement
<1>3. IsFiniteSet(1..n) /\ Cardinality(1..n) = n
  BY <1>1, FS_Interval
<1>4. ids \in [1..n -> T]
  OBVIOUS
<1>5. Cardinality(T) < Cardinality(1..n)
  BY <1>1, <1>2, <1>3
<1>6. PICK S : S = 1..n
  OBVIOUS
<1> HIDE DEF T
<1>7. \E x, y \in S : x # y /\ ids[x] = ids[y]
  BY <1>2, <1>3, <1>4, <1>5, <1>6, FS_PigeonHole
<1> QED
  BY <1>6, <1>7 DEF Repeats

\* The images of a product are finite in number.
LEMMA ImagesAreFinite ==
  /\ IsFiniteSet(ImageIds) /\ IsFiniteSet(FreeImages)
  /\ \A p : IsFiniteSet(Images(p)) /\ Cardinality(Images(p)) \in 0..MaxImages
<1>1. IsFiniteSet(ImageIds) /\ Cardinality(ImageIds) = MaxImages
  BY BoundsAssumption, FS_Interval DEF ImageIds
<1>2. FreeImages \in SUBSET ImageIds /\ \A p : Images(p) \in SUBSET ImageIds
  BY DEF FreeImages, Images
<1>3. \A T \in SUBSET ImageIds : IsFiniteSet(T) /\ Cardinality(T) \in Nat /\ Cardinality(T) <= MaxImages
  BY <1>1, FS_Subset, FS_CardinalityType
<1> QED
  BY <1>1, <1>2, <1>3, BoundsAssumption

\* Each of the first free ids has an index of its own.
LEMMA FreeIds ==
  ASSUME NEW n \in Nat
  PROVE  /\ \A i \in FirstFree(n) : i \in FreeImages /\ IndexOf(i) \in 0..(n - 1)
         /\ \A i, j \in FirstFree(n) : IndexOf(i) = IndexOf(j) => i = j
<1> DEFINE Below(i) == {j \in FreeImages : j < i}
<1>1. \A i : IsFiniteSet(Below(i)) /\ Cardinality(Below(i)) \in Nat
  <2>1. \A i : Below(i) \in SUBSET FreeImages
    OBVIOUS
  <2> QED
    BY <2>1, ImagesAreFinite, FS_Subset, FS_CardinalityType
<1>2. \A i : IndexOf(i) = Cardinality(Below(i))
  BY DEF IndexOf
<1>3. ASSUME NEW i \in FreeImages, NEW j \in FreeImages, i < j
      PROVE  IndexOf(i) # IndexOf(j)
  <2>1. i \in Int /\ j \in Int
    BY BoundsAssumption DEF FreeImages, ImageIds
  <2>2. Below(i) \in SUBSET Below(j)
    <3> SUFFICES ASSUME NEW k \in Below(i)
                 PROVE  k \in Below(j)
      OBVIOUS
    <3>1. k \in FreeImages /\ k < i /\ k \in Int
      BY BoundsAssumption DEF FreeImages, ImageIds
    <3>2. k < j
      BY <1>3, <2>1, <3>1
    <3> QED
      BY <3>1, <3>2
  <2>3. i \in Below(j) /\ i \notin Below(i)
    BY <1>3, <2>1
  <2> HIDE DEF Below
  <2>4. PICK K, L : K = Below(i) /\ L = Below(j)
    OBVIOUS
  <2>5. K \in SUBSET L /\ K # L /\ IsFiniteSet(L)
    BY <1>1, <2>2, <2>3, <2>4
  <2>6. Cardinality(L) # Cardinality(K)
    BY <2>5, FS_Subset
  <2> QED
    BY <1>2, <2>4, <2>6
<1>4. \A i \in FirstFree(n) : i \in FreeImages /\ IndexOf(i) < n
  BY DEF FirstFree, IndexOf
<1>5. ASSUME NEW i \in FirstFree(n)
      PROVE  i \in FreeImages /\ IndexOf(i) \in 0..(n - 1)
  <2>1. IndexOf(i) \in Nat
    BY <1>1, <1>2
  <2> QED
    BY <1>4, <2>1
<1>6. \A i, j \in FreeImages : i # j => i < j \/ j < i
  BY BoundsAssumption DEF FreeImages, ImageIds
<1> QED
  BY <1>3, <1>4, <1>5, <1>6

-----------------------------------------------------------------------------
(* Rows and local states *)

\* A row is none of the records of its table when it does not exist.
LEMMA RowsExist ==
  ASSUME TypeOK
  PROVE  /\ \A p \in ProductIds : Exists(p) <=> product[p] \in ProductRows
         /\ \A i \in ImageIds : image[i] # NoImage <=> image[i] \in ImageRows
         /\ \A p \in ProductIds : \A i \in Images(p) : i \in ImageIds /\ image[i] \in ImageRows
         /\ \A c \in Categories : CategoryExists(c) <=> category[c] \in CategoryRows
         /\ \A c \in FindActiveById : c \in Categories /\ SchemaOf(c) \in Schemas /\ c # None
<1>1. \A p \in ProductIds : Exists(p) <=> product[p] \in ProductRows
  <2>1. NoProduct \notin ProductRows
    BY CategoriesAssumption DEF NoProduct, ProductRows
  <2> QED
    BY <2>1 DEF TypeOK, Exists
<1>2. \A i \in ImageIds : image[i] # NoImage <=> image[i] \in ImageRows
  <2>1. NoImage \notin ImageRows
    BY BoundsAssumption DEF NoImage, ImageRows, ProductIds
  <2> QED
    BY <2>1 DEF TypeOK
<1>3. \A p \in ProductIds : \A i \in Images(p) : i \in ImageIds /\ image[i] \in ImageRows
  BY <1>2, BoundsAssumption DEF Images, NoImage, ProductIds
<1>4. \A c \in Categories : CategoryExists(c) <=> category[c] \in CategoryRows
  <2>1. NoCategory \notin CategoryRows
    BY CategoriesAssumption DEF NoCategory, CategoryRows
  <2> QED
    BY <2>1 DEF TypeOK, CategoryExists
<1>5. \A c \in FindActiveById : c \in Categories /\ SchemaOf(c) \in Schemas /\ c # None
  BY <1>4, CategoriesAssumption DEF FindActiveById, SchemaOf, CategoryRows
<1> QED
  BY <1>1, <1>2, <1>3, <1>4, <1>5

\* What validateSpecs lets pass has the fields and values its schema asks for.
LEMMA ValidatesConforms ==
  ASSUME NEW sch \in Schemas, NEW specs, Validates(sch, specs)
  PROVE  Conforms(sch, specs)
<1> SUFFICES ASSUME NEW f \in Fields, sch[f] # None
             PROVE  specs[f] \in IF sch[f].required THEN Domain(sch[f]) \ {Empty} ELSE Domain(sch[f]) \cup {None}
  BY DEF Conforms
<1>1. sch[f] \in Definitions /\ ValidField(sch[f], specs[f])
  BY SchemasAssumption DEF Validates
<1>2. PICK d, v : d = sch[f] /\ v = specs[f]
  OBVIOUS
<1>3. d.type \in {"string", "number", "enum"} /\ ValidField(d, v)
  BY <1>1, <1>2 DEF Definitions
<1>4. v # None => v \in Domain(d)
  BY <1>3 DEF ValidField, Domain
<1>5. d.required => v # None /\ v # Empty
  BY <1>3 DEF ValidField
<1> QED
  BY <1>2, <1>4, <1>5

\* A request that is over, or has not begun.
LEMMA IdleKnown ==
  /\ Idle \in Locals /\ Idle.op = "idle"
  /\ Known(Idle) /\ Known(Idle)'
<1>1. Idle \in Locals
  <2>1. <<>> \in [1..0 -> ImageIds]
    OBVIOUS
  <2>2. <<>> \in UNION {[1..n -> ImageIds] : n \in 0..MaxImages}
    BY <2>1, BoundsAssumption
  <2> QED
    BY <2>2, BoundsAssumption DEF Idle, Locals, Ops, Steps
<1> QED
  BY <1>1 DEF Idle, Known, WellFormed, FreshPositions, FreshList, FreshSpecs

\* The types of the parts of a local state.
LEMMA LocalTypes ==
  ASSUME NEW l \in Locals
  PROVE  /\ l.op \in Ops /\ l.at \in Steps /\ l.product \in ProductIds \cup {0}
         /\ l.category \in Categories \cup {None} /\ l.specs \in Specs \cup {None}
         /\ l.checked \in Categories \cup {None} /\ l.pictures \in 0..MaxPictures
         /\ l.start \in 0..(MaxPosition + 1) /\ l.next \in 1..(MaxImages + 1)
         /\ l.stale \in SUBSET {"specs", "positions"}
  BY DEF Locals

\* The images that a create, an update or addImage inserts: new ones, one after the other.
LEMMA AddPictures ==
  ASSUME TypeOK, NEW p \in ProductIds, NEW n \in Nat, NEW start \in 0..(MaxPosition + 1), RoomFor(n, start),
         NEW img, img = WithPictures(p, n, start)
  PROVE  /\ img \in [ImageIds -> ImageRows \cup {NoImage}]
         /\ \A i \in ImageIds : image[i] # NoImage => img[i] = image[i]
         /\ \A i \in ImageIds : image[i] = NoImage /\ img[i] # NoImage =>
              img[i].product = p /\ img[i].position >= start
         /\ \A i, j \in ImageIds :
              image[i] = NoImage /\ img[i] # NoImage /\ image[j] = NoImage /\ img[j] # NoImage =>
                (img[i].position = img[j].position => i = j)
         /\ n = 0 => img = image
<1>1. /\ start \in Int /\ start >= 0 /\ start + n <= MaxPosition + 1 /\ MaxPosition \in Nat
  BY BoundsAssumption DEF RoomFor
<1>2. ASSUME NEW i \in FirstFree(n)
      PROVE  /\ i \in ImageIds /\ image[i] = NoImage
             /\ img[i] = [product |-> p, position |-> start + IndexOf(i)] /\ img[i] \in ImageRows
             /\ img[i].position = start + IndexOf(i) /\ img[i].product = p /\ IndexOf(i) \in Nat
  <2>1. i \in FreeImages /\ IndexOf(i) \in 0..(n - 1)
    BY FreeIds
  <2>2. i \in ImageIds /\ image[i] = NoImage
    BY <2>1 DEF FreeImages
  <2>3. img[i] = [product |-> p, position |-> start + IndexOf(i)]
    BY <2>2 DEF WithPictures
  <2>4. start + IndexOf(i) \in Positions /\ IndexOf(i) \in Nat
    BY <1>1, <2>1 DEF Positions
  <2> QED
    BY <2>2, <2>3, <2>4 DEF ImageRows
<1>3. \A i \in ImageIds \ FirstFree(n) : img[i] = image[i]
  BY DEF WithPictures
<1>4. img \in [ImageIds -> ImageRows \cup {NoImage}]
  <2>1. \A i \in ImageIds : img[i] \in ImageRows \cup {NoImage}
    BY <1>2, <1>3 DEF TypeOK
  <2>2. img = [i \in ImageIds |-> img[i]]
    BY DEF WithPictures
  <2> QED
    BY <2>1, <2>2
<1>5. ASSUME NEW i \in ImageIds, image[i] = NoImage, img[i] # NoImage
      PROVE  i \in FirstFree(n) /\ img[i].product = p /\ img[i].position >= start
  <2>1. i \in FirstFree(n)
    BY <1>3, <1>5
  <2>2. img[i].position = start + IndexOf(i) /\ img[i].product = p /\ IndexOf(i) \in Nat
    BY <1>2, <2>1
  <2>3. PICK k \in Nat : k = IndexOf(i)
    BY <2>2
  <2>4. start + k >= start
    BY <1>1
  <2> QED
    BY <2>1, <2>2, <2>3, <2>4
<1>6. ASSUME NEW i \in FirstFree(n), NEW j \in FirstFree(n), img[i].position = img[j].position
      PROVE  i = j
  <2>1. start + IndexOf(i) = start + IndexOf(j) /\ IndexOf(i) \in Nat /\ IndexOf(j) \in Nat
    BY <1>2, <1>6
  <2>2. IndexOf(i) = IndexOf(j)
    BY <1>1, <2>1
  <2> QED
    BY <2>2, FreeIds
<1>7. ASSUME n = 0
      PROVE  img = image
  <2>1. FirstFree(n) = {}
    <3>1. \A i \in FirstFree(n) : IndexOf(i) \in 0..(n - 1)
      BY FreeIds
    <3>2. 0..(0 - 1) = {}
      OBVIOUS
    <3> QED
      BY <1>7, <3>1, <3>2
  <2> QED
    BY <1>3, <1>4, <2>1 DEF TypeOK
<1>8. \A i \in ImageIds : image[i] # NoImage => img[i] = image[i]
  BY <1>2, <1>3
<1>9. \A i, j \in ImageIds :
        image[i] = NoImage /\ img[i] # NoImage /\ image[j] = NoImage /\ img[j] # NoImage =>
          (img[i].position = img[j].position => i = j)
  <2>1. \A i \in ImageIds : image[i] = NoImage /\ img[i] # NoImage => i \in FirstFree(n)
    BY <1>5
  <2> QED
    BY <1>6, <2>1
<1>10. \A i \in ImageIds : image[i] = NoImage /\ img[i] # NoImage => img[i].product = p /\ img[i].position >= start
  BY <1>5
<1> QED
  BY <1>4, <1>7, <1>8, <1>9, <1>10

\* They have positions of their own, if those the product has are below the first of them.
LEMMA AddedDistinct ==
  ASSUME Inv, NEW p \in ProductIds, NEW n \in Nat, NEW start \in 0..(MaxPosition + 1), RoomFor(n, start),
         image' = WithPictures(p, n, start), suspect \subseteq suspect',
         p \in suspect' \/ n = 0 \/ \A i \in Images(p) : image[i].position < start
  PROVE  PositionsDistinct'
<1>1. TypeOK
  BY DEF Inv
<1>2. PICK img : img = image'
  OBVIOUS
<1>3. /\ \A i \in ImageIds : image[i] # NoImage => img[i] = image[i]
      /\ \A i \in ImageIds : image[i] = NoImage /\ img[i] # NoImage =>
           img[i].product = p /\ img[i].position >= start
      /\ \A i, j \in ImageIds :
           image[i] = NoImage /\ img[i] # NoImage /\ image[j] = NoImage /\ img[j] # NoImage =>
             (img[i].position = img[j].position => i = j)
      /\ n = 0 => img = image
  BY <1>1, <1>2, AddPictures
<1> SUFFICES ASSUME NEW q \in ProductIds, q \notin suspect', NEW i \in Images(q)', NEW j \in Images(q)',
                    image'[i].position = image'[j].position
             PROVE  i = j
  BY DEF PositionsDistinct
<1>4. /\ i \in ImageIds /\ j \in ImageIds /\ img[i].product = q /\ img[j].product = q
      /\ img[i].position = img[j].position /\ img[i] # NoImage /\ img[j] # NoImage
  BY <1>2, BoundsAssumption DEF Images, NoImage, ProductIds
<1>5. \A k \in {i, j} : image[k] # NoImage => k \in Images(q) /\ image[k].position = img[k].position
  BY <1>3, <1>4 DEF Images
<1>6. CASE image[i] # NoImage /\ image[j] # NoImage
  BY <1>4, <1>5, <1>6 DEF Inv, PositionsDistinct
<1>7. CASE image[i] = NoImage /\ image[j] = NoImage
  BY <1>3, <1>4, <1>7
<1>8. ASSUME NEW k \in {i, j}, NEW m \in {i, j}, image[k] = NoImage, image[m] # NoImage
      PROVE  FALSE
  <2>1. q = p /\ img[k].position >= start /\ k \in ImageIds /\ n # 0
    BY <1>3, <1>4, <1>8
  <2>2. m \in Images(p) /\ image[m].position < start
    BY <1>5, <1>8, <2>1
  <2>3. image[m].position \in Int
    BY <1>1, <2>2, RowsExist, BoundsAssumption DEF ImageRows, Positions
  <2>4. img[m].position < start /\ img[m].position = img[k].position
    BY <1>4, <1>5, <1>8, <2>2
  <2> QED
    BY <1>5, <1>8, <2>1, <2>3, <2>4
<1> QED
  BY <1>6, <1>7, <1>8

-----------------------------------------------------------------------------
(* What the steps of others leave of a request *)

\* What l knows stays true while the tables change, if its stale names what has changed.
LEMMA KnownLater ==
  ASSUME TypeOK, NEW l \in Locals, Known(l), NEW m \in Locals,
         m = [l EXCEPT !.stale = m.stale], l.stale \subseteq m.stale,
         \A p \in ProductIds : Exists(p) => Exists(p)',
         FindActiveById \subseteq FindActiveById',
         \A i \in ImageIds : image[i] # NoImage => image'[i].product = image[i].product,
         \/ "positions" \in m.stale \/ l.op \notin {"update", "reorder"}
         \/ \A i \in Images(l.product)' : i \in Images(l.product) /\ image'[i].position = image[i].position,
         \/ "specs" \in m.stale \/ l.op \notin {"create", "update"} \/ l.specs = None
         \/ /\ l.at # "validate" => SchemaOf(l.checked)' = SchemaOf(l.checked)
            /\ l.op = "update" /\ l.category = None => product'[l.product].category = product[l.product].category
  PROVE  Known(m)'
<1>1. /\ m.op = l.op /\ m.at = l.at /\ m.product = l.product /\ m.category = l.category /\ m.specs = l.specs
      /\ m.checked = l.checked /\ m.pictures = l.pictures /\ m.start = l.start /\ m.ids = l.ids /\ m.next = l.next
  BY DEF Locals
<1>2. \A p \in ProductIds : Images(p) \subseteq Images(p)'
  <2>1. \A p \in ProductIds : \A i \in Images(p) : image[i] # NoImage
    BY BoundsAssumption DEF Images, NoImage, ProductIds
  <2> QED
    BY <2>1 DEF Images
<1>3. WellFormed(m)'
  <2>1. m.op # "idle" => m.product \in ProductIds
    BY <1>1 DEF Known, WellFormed
  <2>2. m.op \in {"update", "delete", "addImage", "reorder"} => Exists(m.product)'
    BY <1>1, <2>1 DEF Known, WellFormed
  <2>3. m.op = "create" => m.specs \in Specs /\ m.category # None
    BY <1>1 DEF Known, WellFormed
  <2>4. m.op \in {"create", "update"} =>
          m.checked \in FindActiveById' /\ (m.category # None => m.category = m.checked)
    BY <1>1 DEF Known, WellFormed
  <2>5. ASSUME m.at = "positions"
        PROVE  m.op = "reorder" /\ \E n \in 0..MaxImages : m.ids \in [1..n -> Images(m.product)'] /\ m.next <= n + 1
    <3>1. m.op = "reorder"
      BY <1>1, <2>5 DEF Known, WellFormed
    <3>2. PICK n \in 0..MaxImages : l.ids \in [1..n -> Images(l.product)] /\ l.next <= n + 1
      BY <1>1, <2>5 DEF Known, WellFormed
    <3>3. l.ids \in [1..n -> Images(l.product)']
      BY <1>1, <1>2, <2>1, <3>1, <3>2
    <3> QED
      BY <1>1, <3>1, <3>2, <3>3
  <2>6. m.at = "list" => m.next = 1
    BY <1>1 DEF Known, WellFormed
  <2> QED
    BY <2>1, <2>2, <2>3, <2>4, <2>5, <2>6 DEF WellFormed
<1>4. FreshPositions(m)'
  BY <1>1 DEF Known, FreshPositions
<1>5. FreshList(m)'
  <2> SUFFICES ASSUME m.at = "positions", "positions" \notin m.stale, ~Repeats(m.ids), NEW i \in Images(m.product)'
               PROVE  \E k \in DOMAIN m.ids : m.ids[k] = i
    BY DEF FreshList, Repeats
  <2>1. l.op = "reorder"
    BY <1>1 DEF Known, WellFormed
  <2>2. i \in Images(l.product)
    BY <1>1, <2>1
  <2> QED
    BY <1>1, <2>2 DEF Known, FreshList
<1>6. FreshSpecs(m)'
  <2> SUFFICES ASSUME m.op \in {"create", "update"}, m.specs # None, "specs" \notin m.stale
               PROVE  /\ m.op = "update" /\ m.category = None => product'[m.product].category = m.checked
                      /\ m.at # "validate" => Validates(SchemaOf(m.checked)', m.specs)
    BY DEF FreshSpecs, Validates
  <2> QED
    BY <1>1 DEF Known, FreshSpecs
<1> QED
  BY <1>3, <1>4, <1>5, <1>6 DEF Known

\* The numbers of products do not change with a step that creates none.
LEMMA StillNumbered ==
  ASSUME Inv, \A p \in ProductIds : Exists(p)' <=> Exists(p),
         \A t \in Sessions : Creating(t)' => Creating(t) /\ proc'[t].product = proc[t].product
  PROVE  (\E n \in 0..MaxProducts : Numbered(n))' /\ OneCreates'
<1>1. PICK n \in 0..MaxProducts : Numbered(n)
  BY DEF Inv
<1>2. Numbered(n)'
  BY <1>1 DEF Numbered
<1>3. OneCreates'
  BY DEF Inv, OneCreates
<1> QED
  BY <1>2, <1>3

\* A step of one request that changes no table.
LEMMA QuietStep ==
  ASSUME Inv, NEW s \in Sessions, NEW l \in Locals, Known(l), proc' = [proc EXCEPT ![s] = l],
         category' = category, product' = product, image' = image, suspect' = suspect,
         lock' \in [ImageIds -> Sessions \cup {None}],
         l.op = "create" => \/ Creating(s) /\ l.product = proc[s].product
                            \/ /\ \A t \in Sessions : ~Creating(t)
                               /\ \A n \in 0..MaxProducts : Numbered(n) => l.product = n + 1
  PROVE  Inv'
<1>1. proc \in [Sessions -> Locals] /\ TypeOK
  BY DEF Inv
<1>2. proc'[s] = l /\ \A t \in Sessions \ {s} : proc'[t] = proc[t]
  BY <1>1
<1>3. proc' \in [Sessions -> Locals]
  BY <1>1
<1>4. TypeOK'
  BY <1>1, <1>3 DEF TypeOK, Locals
<1>5. ASSUME NEW m, Known(m)
      PROVE  Known(m)'
  BY <1>5 DEF Known, WellFormed, FreshPositions, FreshList, FreshSpecs, Exists, Images, FindActiveById,
              CategoryExists, SchemaOf, Validates, ValidField, Repeats
<1>6. ASSUME NEW t \in Sessions
      PROVE  Known(proc[t])'
  <2>1. PICK m : m = proc'[t]
    OBVIOUS
  <2>2. m = l \/ m = proc[t]
    BY <1>2, <2>1
  <2>3. Known(m)
    <3>1. Known(proc[t])
      BY DEF Inv
    <3> QED
      BY <2>2, <3>1 DEF Known, WellFormed, FreshPositions, FreshList, FreshSpecs
  <2>4. Known(m)'
    BY <1>5, <2>3
  <2> QED
    BY <2>1, <2>4 DEF Known, WellFormed, FreshPositions, FreshList, FreshSpecs
<1>7. ImagesBelong' /\ CategoriesExist' /\ PositionsDistinct'
  BY DEF Inv, ImagesBelong, CategoriesExist, PositionsDistinct, Exists, Images, FindActiveById, CategoryExists
<1>8. (\E n \in 0..MaxProducts : Numbered(n))'
  BY <1>2 DEF Inv, Numbered, Creating, Exists
<1>9. OneCreates'
  BY <1>2 DEF Inv, OneCreates, Creating
<1> QED
  BY <1>3, <1>4, <1>6, <1>7, <1>8, <1>9 DEF Inv

-----------------------------------------------------------------------------
(* The steps that change no table *)

\* The facts of the invariant about one request.
LEMMA AboutRequest ==
  ASSUME Inv, NEW s \in Sessions
  PROVE  /\ TypeOK /\ proc[s] \in Locals /\ Known(proc[s])
         /\ \A l : Become(s, l) => proc' = [proc EXCEPT ![s] = l]
         /\ lock' = lock => lock' \in [ImageIds -> Sessions \cup {None}]
         /\ Release(s) => lock' \in [ImageIds -> Sessions \cup {None}]
  BY DEF Inv, TypeOK, Become, Release

\* findActiveByIdAssert and validateSpecs of create, which takes the next number.
LEMMA CreateStep ==
  ASSUME Inv, NEW s \in Sessions, Create(s)
  PROVE  Inv'
<1>1. PICK p \in ProductIds, c \in FindActiveById, specs \in Specs, n \in 0..MaxPictures :
        /\ p = Cardinality({q \in ProductIds : Exists(q)}) + 1
        /\ \A t \in Sessions : proc[t].op # "create"
        /\ Validates(SchemaOf(c), specs)
        /\ Start(s, [Idle EXCEPT !.op = "create", !.at = AfterChecks(n), !.product = p, !.category = c,
                                 !.specs = specs, !.checked = c, !.pictures = n])
        /\ UNCHANGED <<category, product, image, lock, suspect>>
  BY DEF Create
<1> DEFINE l == [Idle EXCEPT !.op = "create", !.at = AfterChecks(n), !.product = p, !.category = c,
                             !.specs = specs, !.checked = c, !.pictures = n]
<1>2. TypeOK
  BY DEF Inv
<1>3. AfterChecks(n) \in {"write", "pictures"}
  BY DEF AfterChecks
<1>4. c \in Categories /\ c # None
  BY <1>2, RowsExist
<1>5. l \in Locals
  BY <1>3, <1>4, IdleKnown DEF Locals, Ops, Steps
<1>6. /\ l.op = "create" /\ l.at \notin {"list", "positions"} /\ l.product = p /\ l.category = c /\ l.specs = specs /\ l.checked = c
  BY <1>3, <1>5 DEF Idle
<1>7. Known(l)
  <2>1. WellFormed(l)
    BY <1>4, <1>6 DEF WellFormed
  <2>2. FreshPositions(l) /\ FreshList(l)
    BY <1>6 DEF FreshPositions, FreshList
  <2>3. FreshSpecs(l)
    BY <1>1, <1>6 DEF FreshSpecs
  <2> QED
    BY <2>1, <2>2, <2>3 DEF Known
<1>8. ASSUME NEW k \in 0..MaxProducts, Numbered(k)
      PROVE  p = k + 1
  <2>1. k \in Nat /\ k <= MaxProducts /\ MaxProducts \in Nat
    BY BoundsAssumption
  <2>2. {q \in ProductIds : Exists(q)} = 1..k
    BY <1>8, <2>1 DEF Numbered, ProductIds
  <2>3. Cardinality(1..k) = k
    BY <2>1, FS_Interval
  <2> QED
    BY <1>1, <2>2, <2>3
<1>9. proc' = [proc EXCEPT ![s] = l]
  BY <1>1 DEF Start
<1>10. \A t \in Sessions : ~Creating(t)
  BY <1>1 DEF Creating
<1>11. lock' \in [ImageIds -> Sessions \cup {None}]
  BY <1>1, AboutRequest
<1> HIDE DEF l
<1> QED
  BY <1>1, <1>5, <1>6, <1>7, <1>8, <1>9, <1>10, <1>11, QuietStep

\* findActiveByIdAssert of update, which reads the category of the product.
LEMMA UpdateStep ==
  ASSUME Inv, NEW s \in Sessions, NEW p \in ProductIds, Update(s, p)
  PROVE  Inv'
<1>1. PICK c \in FindActiveById \cup {None}, specs \in Specs \cup {None}, n \in 0..MaxPictures :
        /\ IsActive(p)
        /\ Start(s, [Idle EXCEPT !.op = "update", !.product = p, !.category = c, !.specs = specs, !.pictures = n,
                                 !.at = IF specs # None THEN "validate" ELSE AfterChecks(n),
                                 !.checked = CategoryToCheck(product[p].category, c)])
        /\ UNCHANGED <<category, product, image, lock, suspect>>
  BY DEF Update
<1> DEFINE at == IF specs # None THEN "validate" ELSE AfterChecks(n)
           l == [Idle EXCEPT !.op = "update", !.product = p, !.category = c, !.specs = specs, !.pictures = n,
                             !.at = at, !.checked = CategoryToCheck(product[p].category, c)]
<1>2. TypeOK
  BY DEF Inv
<1>3. at \in {"validate", "write", "pictures"} /\ (at = "write" => n = 0) /\ (specs # None => at = "validate")
  BY DEF AfterChecks
<1>4. PICK current \in FindActiveById : current = product[p].category
  BY <1>1 DEF Inv, CategoriesExist, IsActive
<1>5. PICK checked \in FindActiveById : /\ checked = CategoryToCheck(product[p].category, c)
                                        /\ c # None => c = checked
                                        /\ c = None => checked = product[p].category
  BY <1>4 DEF CategoryToCheck
<1>6. checked \in Categories /\ c \in Categories \cup {None}
  BY <1>2, RowsExist
<1> HIDE DEF at
<1>7. l \in Locals
  BY <1>3, <1>5, <1>6, IdleKnown DEF Locals, Ops, Steps
<1>8. /\ l.op = "update" /\ l.at = at /\ l.product = p /\ l.category = c /\ l.specs = specs /\ l.checked = checked
      /\ l.pictures = n
  BY <1>5, <1>7 DEF Idle
<1>9. Known(l)
  <2>1. WellFormed(l)
    BY <1>1, <1>3, <1>5, <1>8 DEF WellFormed, IsActive
  <2>2. FreshPositions(l) /\ FreshList(l)
    BY <1>3, <1>8 DEF FreshPositions, FreshList
  <2>3. FreshSpecs(l)
    BY <1>3, <1>5, <1>8 DEF FreshSpecs
  <2> QED
    BY <2>1, <2>2, <2>3 DEF Known
<1>10. proc' = [proc EXCEPT ![s] = l]
  BY <1>1 DEF Start, at
<1>11. lock' \in [ImageIds -> Sessions \cup {None}]
  BY <1>1, AboutRequest
<1> HIDE DEF l
<1> QED
  BY <1>1, <1>7, <1>8, <1>9, <1>10, <1>11, QuietStep

\* softDelete, addImage and reorderImages find the product.
LEMMA ReadStep ==
  ASSUME Inv, NEW s \in Sessions, NEW p \in ProductIds, NEW op \in {"delete", "addImage", "reorder"}, Read(s, p, op)
  PROVE  Inv'
<1> DEFINE at == IF op = "reorder" THEN "list" ELSE "write"
           l == [Idle EXCEPT !.op = op, !.at = at, !.product = p]
<1>1. /\ Exists(p) /\ proc' = [proc EXCEPT ![s] = l]
      /\ category' = category /\ product' = product /\ image' = image /\ suspect' = suspect /\ lock' = lock
  BY DEF Read, Start, IsActive
<1>2. at \in {"list", "write"}
  OBVIOUS
<1> HIDE DEF at
<1>3. l \in Locals
  BY <1>2, IdleKnown DEF Locals, Ops, Steps
<1>4. l.op = op /\ l.at = at /\ l.product = p /\ l.next = 1
  BY <1>3 DEF Idle
<1>5. Known(l)
  BY <1>1, <1>2, <1>4 DEF Known, WellFormed, FreshPositions, FreshList, FreshSpecs
<1>6. lock' \in [ImageIds -> Sessions \cup {None}]
  BY <1>1, AboutRequest
<1> HIDE DEF l
<1> QED
  BY <1>1, <1>3, <1>4, <1>5, <1>6, QuietStep

\* create has uploaded its pictures.
LEMMA UploadedForCreateStep ==
  ASSUME Inv, NEW s \in Sessions, UploadedForCreate(s)
  PROVE  Inv'
<1> DEFINE l == [proc[s] EXCEPT !.at = "write"]
<1>1. PICK m \in Locals : m = proc[s] /\ Known(m)
  BY AboutRequest
<1>2. /\ m.op = "create" /\ m.at = "pictures" /\ proc' = [proc EXCEPT ![s] = l]
      /\ category' = category /\ product' = product /\ image' = image /\ suspect' = suspect /\ lock' = lock
  BY <1>1 DEF UploadedForCreate, At, Become
<1>3. /\ l \in Locals /\ l.at = "write" /\ l.op = "create" /\ l.product = m.product /\ l.category = m.category
      /\ l.specs = m.specs /\ l.checked = m.checked /\ l.stale = m.stale
  BY <1>1, <1>2 DEF Locals, Steps
<1>4. Known(l)
  BY <1>1, <1>2, <1>3 DEF Known, WellFormed, FreshPositions, FreshList, FreshSpecs
<1>5. lock' \in [ImageIds -> Sessions \cup {None}]
  BY <1>2, AboutRequest
<1>6. Creating(s) /\ l.product = proc[s].product
  BY <1>1, <1>2, <1>3 DEF Creating
<1> HIDE DEF l
<1> QED
  BY <1>2, <1>3, <1>4, <1>5, <1>6, QuietStep

\* A request that ends, and lets its images go.
LEMMA OverStep ==
  ASSUME Inv, NEW s \in Sessions, Become(s, Idle), Release(s) \/ lock' = lock,
         category' = category, product' = product, image' = image, suspect' = suspect
  PROVE  Inv'
<1>1. lock' \in [ImageIds -> Sessions \cup {None}]
  BY AboutRequest
<1> QED
  BY <1>1, IdleKnown, QuietStep DEF Become

\* validateSpecs of update.
LEMMA ValidateStep ==
  ASSUME Inv, NEW s \in Sessions, Validate(s)
  PROVE  Inv'
<1> DEFINE l == [proc[s] EXCEPT !.at = AfterChecks(proc[s].pictures)]
<1>1. PICK m \in Locals : m = proc[s] /\ Known(m)
  BY AboutRequest
<1>2. /\ m.op = "update" /\ m.at = "validate" /\ lock' = lock
      /\ category' = category /\ product' = product /\ image' = image /\ suspect' = suspect
      /\ IF Validates(SchemaOf(m.checked), m.specs) THEN proc' = [proc EXCEPT ![s] = l] ELSE Become(s, Idle)
  BY <1>1 DEF Validate, At, Become
<1>3. CASE Validates(SchemaOf(m.checked), m.specs)
  <2>1. AfterChecks(m.pictures) \in {"write", "pictures"} /\ (AfterChecks(m.pictures) = "write" => m.pictures = 0)
    BY DEF AfterChecks
  <2>2. /\ l \in Locals /\ l.at = AfterChecks(m.pictures) /\ l.op = "update" /\ l.product = m.product
        /\ l.category = m.category /\ l.specs = m.specs /\ l.checked = m.checked /\ l.stale = m.stale
        /\ l.pictures = m.pictures
    BY <1>1, <1>2, <2>1 DEF Locals, Steps
  <2>3. Known(l)
    BY <1>1, <1>2, <1>3, <2>1, <2>2 DEF Known, WellFormed, FreshPositions, FreshList, FreshSpecs
  <2>4. lock' \in [ImageIds -> Sessions \cup {None}]
    BY <1>2, AboutRequest
  <2>5. proc' = [proc EXCEPT ![s] = l]
    BY <1>2, <1>3
  <2> HIDE DEF l
  <2> QED
    BY <1>2, <2>2, <2>3, <2>4, <2>5, QuietStep
<1>4. CASE ~Validates(SchemaOf(m.checked), m.specs)
  BY <1>2, <1>4, OverStep
<1> QED
  BY <1>3, <1>4

\* The position after the last is free, and within the bounds.
LEMMA StartIsFree ==
  ASSUME TypeOK, NEW p \in ProductIds
  PROVE  /\ StartPosition(p) \in 0..(MaxPosition + 1)
         /\ \A i \in Images(p) : image[i].position < StartPosition(p)
<1> DEFINE S == {image[i].position : i \in Images(p)} \cup {-1}
<1>1. \A i \in Images(p) : image[i].position \in 0..MaxPosition
  BY RowsExist DEF ImageRows, Positions
<1>2. MaxPosition \in Nat
  BY BoundsAssumption
<1>3. S \in SUBSET (-1..MaxPosition) /\ S # {}
  <2>1. \A x \in S : x \in -1..MaxPosition
    BY <1>1, <1>2
  <2> QED
    BY <2>1
<1>4. PICK T : T = S
  OBVIOUS
<1>5. MaxOf(T) \in T /\ \A x \in T : x <= MaxOf(T)
  <2>1. T \in SUBSET (-1..MaxPosition) /\ T # {}
    BY <1>3, <1>4
  <2>2. -1 \in Int /\ MaxPosition \in Int
    BY <1>2
  <2>3. PICK a \in Int : a = -1
    BY <2>2
  <2>4. T \in SUBSET (a..MaxPosition)
    BY <2>1, <2>3
  <2> QED
    BY <2>1, <2>2, <2>4, MaxOfIsMax
<1>6. PICK max : max = MaxOf(T)
  OBVIOUS
<1>7. max \in -1..MaxPosition /\ \A i \in Images(p) : image[i].position <= max
  BY <1>3, <1>4, <1>5, <1>6
<1>8. StartPosition(p) = max + 1
  BY <1>4, <1>6 DEF StartPosition
<1> QED
  BY <1>1, <1>2, <1>7, <1>8

\* getMaxImagePosition.
LEMMA GetMaxImagePositionStep ==
  ASSUME Inv, NEW s \in Sessions, GetMaxImagePosition(s)
  PROVE  Inv'
<1> DEFINE l == [proc[s] EXCEPT !.at = "write", !.start = StartPosition(proc[s].product), !.stale = @ \ {"positions"}]
<1>1. PICK m \in Locals : m = proc[s] /\ Known(m)
  BY AboutRequest
<1>2. /\ m.op = "update" /\ m.at = "pictures" /\ lock' = lock
      /\ category' = category /\ product' = product /\ image' = image /\ suspect' = suspect
      /\ proc' = [proc EXCEPT ![s] = l]
  BY <1>1 DEF GetMaxImagePosition, At, Become
<1>3. m.product \in ProductIds
  BY <1>1, <1>2 DEF Known, WellFormed
<1>4. PICK start \in 0..(MaxPosition + 1) :
        start = StartPosition(m.product) /\ \A i \in Images(m.product) : image[i].position < start
  BY <1>3, AboutRequest, StartIsFree
<1>5. /\ l \in Locals /\ l.at = "write" /\ l.op = "update" /\ l.product = m.product /\ l.start = start
      /\ l.category = m.category /\ l.specs = m.specs /\ l.checked = m.checked /\ l.stale = m.stale \ {"positions"}
  BY <1>1, <1>2, <1>4 DEF Locals, Steps
<1>6. Known(l)
  BY <1>1, <1>2, <1>4, <1>5 DEF Known, WellFormed, FreshPositions, FreshList, FreshSpecs
<1>7. lock' \in [ImageIds -> Sessions \cup {None}]
  BY <1>2, AboutRequest
<1> HIDE DEF l
<1> QED
  BY <1>2, <1>5, <1>6, <1>7, QuietStep

\* reorderImages has as many ids as there are images: if none comes twice, they are all of them.
LEMMA ListImageIdsStep ==
  ASSUME Inv, NEW s \in Sessions, ListImageIds(s)
  PROVE  Inv'
<1>1. PICK m \in Locals : m = proc[s] /\ Known(m)
  BY AboutRequest
<1>2. PICK K : K = Images(m.product)
  OBVIOUS
<1>3. /\ m.op = "reorder" /\ m.at = "list" /\ lock' = lock
      /\ category' = category /\ product' = product /\ image' = image /\ suspect' = suspect
      /\ IF Cardinality(K) = 0 THEN Become(s, Idle)
         ELSE \E ids \in [1..Cardinality(K) -> ImageIds] :
                /\ Complete(ids, m.product)
                /\ Become(s, [m EXCEPT !.at = "positions", !.ids = ids, !.stale = @ \ {"positions"}])
  BY <1>1, <1>2 DEF ListImageIds, At
<1>4. IsFiniteSet(K) /\ Cardinality(K) \in 0..MaxImages
  BY <1>2, ImagesAreFinite
<1>5. CASE Cardinality(K) = 0
  BY <1>3, <1>5, OverStep
<1>6. CASE Cardinality(K) # 0
  <2>1. PICK ids \in [1..Cardinality(K) -> ImageIds] :
          /\ Complete(ids, m.product)
          /\ Become(s, [m EXCEPT !.at = "positions", !.ids = ids, !.stale = @ \ {"positions"}])
    BY <1>3, <1>6
  <2> DEFINE l == [m EXCEPT !.at = "positions", !.ids = ids, !.stale = @ \ {"positions"}]
  <2>2. ids \in [1..Cardinality(K) -> K]
    BY <1>2, <2>1 DEF Complete
  <2>3. PICK n \in 0..MaxImages : n = Cardinality(K)
    BY <1>4
  <2>4. ids \in UNION {[1..k -> ImageIds] : k \in 0..MaxImages}
    BY <2>1, <2>3
  <2>5. /\ l \in Locals /\ l.at = "positions" /\ l.op = "reorder" /\ l.product = m.product /\ l.ids = ids
        /\ l.next = m.next
    BY <1>1, <1>3, <2>4 DEF Locals, Steps
  <2>6. m.product \in ProductIds /\ Exists(m.product)
    BY <1>1, <1>3 DEF Known, WellFormed
  <2>7. m.next = 1
    BY <1>1, <1>3 DEF Known, WellFormed
  <2>8. WellFormed(l)
    BY <1>2, <2>2, <2>3, <2>5, <2>6, <2>7 DEF WellFormed
  <2>9. FreshList(l)
    <3> SUFFICES ASSUME ~Repeats(ids), NEW i \in K
                 PROVE  \E k \in DOMAIN ids : ids[k] = i
      BY <1>2, <2>5 DEF FreshList
    <3> QED
      BY <1>4, <2>2, CompleteList
  <2>10. Known(l)
    BY <2>5, <2>8, <2>9 DEF Known, FreshPositions, FreshSpecs
  <2>11. lock' \in [ImageIds -> Sessions \cup {None}]
    BY <1>3, AboutRequest
  <2>12. proc' = [proc EXCEPT ![s] = l]
    BY <2>1 DEF Become
  <2> HIDE DEF l
  <2> QED
    BY <1>3, <2>5, <2>10, <2>11, <2>12, QuietStep
<1> QED
  BY <1>5, <1>6

\* The length of a list of reorderImages.
LEMMA ListLength ==
  ASSUME NEW l \in Locals, Known(l), l.at = "positions"
  PROVE  /\ Len(l) \in 0..MaxImages /\ l.next <= Len(l) + 1 /\ DOMAIN l.ids = 1..Len(l)
         /\ l.op = "reorder" /\ l.product \in ProductIds /\ Exists(l.product)
         /\ l.ids \in [1..Len(l) -> Images(l.product)]
<1>1. l.op = "reorder" /\ l.product \in ProductIds /\ Exists(l.product)
  BY DEF Known, WellFormed
<1>2. PICK n \in 0..MaxImages : l.ids \in [1..n -> Images(l.product)] /\ l.next <= n + 1
  BY DEF Known, WellFormed
<1>3. n \in Nat /\ Cardinality(1..n) = n
  BY <1>2, BoundsAssumption, FS_Interval
<1>4. DOMAIN l.ids = 1..n
  BY <1>2
<1>5. Len(l) = n
  BY <1>3, <1>4 DEF Len
<1> QED
  BY <1>1, <1>2, <1>4, <1>5

\* One UPDATE of reorderImages.
LEMMA UpdateImagePositionStep ==
  ASSUME Inv, NEW s \in Sessions, UpdateImagePosition(s)
  PROVE  Inv'
<1> DEFINE l == [proc[s] EXCEPT !.next = @ + 1]
<1>1. PICK m \in Locals : m = proc[s] /\ Known(m)
  BY AboutRequest
<1>2. PICK n \in 0..MaxImages : n = Len(m)
  BY <1>1, ListLength DEF UpdateImagePosition, Updating
<1>3. /\ m.at = "positions" /\ m.next <= n /\ proc' = [proc EXCEPT ![s] = l]
      /\ category' = category /\ product' = product /\ image' = image /\ suspect' = suspect
      /\ \E i : lock' = [lock EXCEPT ![i] = s]
  BY <1>1, <1>2 DEF UpdateImagePosition, Updating, Become
<1>4. m.op = "reorder" /\ m.product \in ProductIds /\ Exists(m.product) /\ m.ids \in [1..n -> Images(m.product)]
  BY <1>1, <1>2, <1>3, ListLength
<1>5. m.next + 1 \in 1..(MaxImages + 1) /\ m.next + 1 <= n + 1
  BY <1>1, <1>3, LocalTypes, BoundsAssumption
<1>6. /\ l \in Locals /\ l.at = "positions" /\ l.op = "reorder" /\ l.product = m.product
      /\ l.ids = m.ids /\ l.stale = m.stale /\ l.next = m.next + 1
  BY <1>1, <1>3, <1>4, <1>5 DEF Locals
<1>7. WellFormed(l)
  BY <1>4, <1>5, <1>6 DEF WellFormed
<1>8. Known(l)
  BY <1>1, <1>3, <1>6, <1>7 DEF Known, FreshPositions, FreshList, FreshSpecs
<1>9. lock' \in [ImageIds -> Sessions \cup {None}]
  BY <1>3, AboutRequest DEF TypeOK
<1> HIDE DEF l
<1> QED
  BY <1>3, <1>6, <1>8, <1>9, QuietStep

-----------------------------------------------------------------------------
(* The steps that write a table *)

\* What a step that ends one request and writes the product p, or images of p, leaves of the requests.
LEMMA FinishStep ==
  ASSUME Inv, NEW s \in Sessions, NEW p \in ProductIds, NEW what \in SUBSET {"specs", "positions"},
         FinishAndOutdate(s, p, what), category' = category,
         \A q \in ProductIds : Exists(q) => Exists(q)',
         \A i \in ImageIds : image[i] # NoImage => image'[i].product = image[i].product,
         \A q \in ProductIds \ {p} : \A i \in Images(q)' : i \in Images(q) /\ image'[i] = image[i],
         \A q \in ProductIds \ {p} : product'[q] = product[q],
         "positions" \in what \/ image' = image \/ ~Exists(p),
         "specs" \in what \/ product'[p].category = product[p].category \/ ~Exists(p)
  PROVE  /\ proc' \in [Sessions -> Locals]
         /\ \A t \in Sessions : Known(proc[t])'
         /\ \A t \in Sessions : Creating(t)' => t # s /\ Creating(t) /\ proc'[t].product = proc[t].product
<1>1. TypeOK /\ proc \in [Sessions -> Locals]
  BY DEF Inv
<1>2. ASSUME NEW t \in Sessions
      PROVE  /\ proc'[t] \in Locals /\ Known(proc[t])'
             /\ Creating(t)' => t # s /\ Creating(t) /\ proc'[t].product = proc[t].product
  <2>1. CASE t = s
    <3>1. proc'[t] = Idle
      BY <2>1 DEF FinishAndOutdate
    <3> QED
      BY <3>1, IdleKnown DEF Creating, Known, WellFormed, FreshPositions, FreshList, FreshSpecs
  <2>2. CASE t # s
    <3>1. PICK l \in Locals : l = proc[t] /\ Known(l)
      BY AboutRequest
    <3>2. PICK m : m = proc'[t]
      OBVIOUS
    <3>3. m = IF l.product = p THEN [l EXCEPT !.stale = @ \cup what] ELSE l
      BY <2>2, <3>1, <3>2 DEF FinishAndOutdate
    <3>4. /\ m \in Locals /\ m = [l EXCEPT !.stale = m.stale] /\ l.stale \subseteq m.stale
          /\ m.op = l.op /\ m.product = l.product /\ (l.product = p => what \subseteq m.stale)
      <4>1. CASE l.product = p
        BY <3>3, <4>1 DEF Locals
      <4>2. CASE l.product # p
        BY <3>3, <4>2 DEF Locals
      <4> QED
        BY <4>1, <4>2
    <3>5. \/ "positions" \in m.stale \/ l.op \notin {"update", "reorder"}
          \/ \A i \in Images(l.product)' : i \in Images(l.product) /\ image'[i].position = image[i].position
      <4>1. CASE l.product = p /\ image' = image
        BY <4>1 DEF Images
      <4>2. CASE l.product = p /\ ~Exists(p)
        BY <3>1, <4>2 DEF Known, WellFormed
      <4>3. CASE l.product = p /\ "positions" \in what
        BY <3>4, <4>3
      <4>4. CASE l.product # p
        <5>1. l.op \in {"update", "reorder"} => l.product \in ProductIds
          BY <3>1 DEF Known, WellFormed
        <5> QED
          BY <4>4, <5>1
      <4> QED
        BY <4>1, <4>2, <4>3, <4>4
    <3>6. SchemaOf(l.checked)' = SchemaOf(l.checked) /\ FindActiveById' = FindActiveById
      BY DEF SchemaOf, FindActiveById, CategoryExists
    <3>7. "specs" \in m.stale \/ (l.op = "update" => product'[l.product].category = product[l.product].category)
      <4>1. l.op = "update" => l.product \in ProductIds /\ Exists(l.product)
        BY <3>1 DEF Known, WellFormed
      <4> QED
        BY <3>4, <4>1
    <3>8. Known(m)'
      BY <1>1, <3>1, <3>4, <3>5, <3>6, <3>7, KnownLater
    <3>9. Known(proc[t])'
      BY <3>2, <3>8 DEF Known, WellFormed, FreshPositions, FreshList, FreshSpecs
    <3> QED
      BY <2>2, <3>1, <3>2, <3>4, <3>9 DEF Creating
  <2> QED
    BY <2>1, <2>2
<1>3. proc' \in [Sessions -> Locals]
  BY <1>2 DEF FinishAndOutdate
<1> QED
  BY <1>2, <1>3

\* What create, update and addImage do to the images.
LEMMA PicturesStep ==
  ASSUME TypeOK, ImagesBelong, NEW p \in ProductIds, NEW n \in Nat, NEW start \in 0..(MaxPosition + 1),
         RoomFor(n, start), image' = WithPictures(p, n, start),
         Exists(p)', \A q \in ProductIds : Exists(q) => Exists(q)'
  PROVE  /\ image' \in [ImageIds -> ImageRows \cup {NoImage}] /\ ImagesBelong'
         /\ \A i \in ImageIds : image[i] # NoImage => image'[i].product = image[i].product
         /\ \A q \in ProductIds \ {p} : \A i \in Images(q)' : i \in Images(q) /\ image'[i] = image[i]
         /\ n = 0 => image' = image
<1>1. PICK img : img = image'
  OBVIOUS
<1>2. /\ img \in [ImageIds -> ImageRows \cup {NoImage}]
      /\ \A i \in ImageIds : image[i] # NoImage => img[i] = image[i]
      /\ \A i \in ImageIds : image[i] = NoImage /\ img[i] # NoImage => img[i].product = p
      /\ n = 0 => img = image
  BY <1>1, AddPictures
<1>3. ImagesBelong'
  <2> SUFFICES ASSUME NEW i \in ImageIds, img[i] # NoImage
               PROVE  Exists(img[i].product)'
    BY <1>1 DEF ImagesBelong, Exists
  <2>1. CASE image[i] = NoImage
    <3>1. img[i].product = p
      BY <1>2, <2>1
    <3> QED
      BY <3>1 DEF Exists
  <2>2. CASE image[i] # NoImage
    <3>1. img[i] = image[i] /\ image[i].product \in ProductIds
      BY <1>2, <2>2 DEF TypeOK, ImageRows
    <3>2. Exists(image[i].product)
      BY <2>2 DEF ImagesBelong
    <3>3. PICK q \in ProductIds : q = image[i].product
      BY <3>1
    <3>4. Exists(q)'
      BY <3>2, <3>3
    <3> QED
      BY <3>1, <3>3, <3>4 DEF Exists
  <2> QED
    BY <2>1, <2>2
<1>4. ASSUME NEW q \in ProductIds \ {p}, NEW i \in Images(q)'
      PROVE  i \in Images(q) /\ image'[i] = image[i]
  <2>1. i \in ImageIds /\ img[i].product = q /\ img[i] # NoImage
    BY <1>1, BoundsAssumption DEF Images, NoImage, ProductIds
  <2>2. image[i] # NoImage
    BY <1>2, <2>1
  <2> QED
    BY <1>1, <1>2, <2>1, <2>2 DEF Images
<1> QED
  BY <1>1, <1>2, <1>3, <1>4

\* The INSERT of a product: its number is the next, and it has no images yet.
LEMMA InsertProductStep ==
  ASSUME Inv, NEW s \in Sessions, InsertProduct(s)
  PROVE  Inv'
<1>1. PICK l \in Locals : l = proc[s] /\ Known(l)
  BY AboutRequest
<1>2. PICK row : row = [category |-> l.category, specs |-> l.specs, deleted |-> FALSE]
  OBVIOUS
<1>3. /\ l.op = "create" /\ l.at = "write" /\ RoomFor(l.pictures, 0)
      /\ product' = [product EXCEPT ![l.product] = row]
      /\ image' = WithPictures(l.product, l.pictures, 0)
      /\ FinishAndOutdate(s, l.product, {})
      /\ category' = category /\ lock' = lock /\ suspect' = suspect
  BY <1>1, <1>2 DEF InsertProduct, At
<1>4. /\ l.product \in ProductIds /\ l.specs \in Specs /\ l.category # None
      /\ l.checked \in FindActiveById /\ l.category = l.checked
  BY <1>1, <1>3 DEF Known, WellFormed
<1>5. TypeOK /\ ImagesBelong
  BY DEF Inv
<1>6. l.category \in Categories /\ l.category \in FindActiveById /\ row \in ProductRows
  BY <1>2, <1>4, <1>5, RowsExist DEF ProductRows
<1>7. /\ product' \in [ProductIds -> ProductRows \cup {NoProduct}]
      /\ product'[l.product] = row /\ row.category = l.category
      /\ \A q \in ProductIds \ {l.product} : product'[q] = product[q]
  BY <1>2, <1>3, <1>4, <1>5, <1>6 DEF TypeOK
<1>8. row # NoProduct
  BY <1>2, <1>4 DEF NoProduct
<1>9. PICK n \in 0..MaxProducts : Numbered(n)
  BY DEF Inv
<1>10. l.product = n + 1 /\ n \in Nat /\ MaxProducts \in Nat /\ n + 1 <= MaxProducts
  BY <1>1, <1>3, <1>4, <1>9, BoundsAssumption DEF Numbered, Creating, ProductIds
<1>11. ~Exists(l.product)
  BY <1>4, <1>9, <1>10 DEF Numbered
<1>12. Exists(l.product)' /\ \A q \in ProductIds : Exists(q) => Exists(q)'
  BY <1>7, <1>8 DEF Exists
<1>13. l.pictures \in Nat /\ 0 \in 0..(MaxPosition + 1)
  BY LocalTypes, BoundsAssumption
<1>14. /\ image' \in [ImageIds -> ImageRows \cup {NoImage}] /\ ImagesBelong'
       /\ \A i \in ImageIds : image[i] # NoImage => image'[i].product = image[i].product
       /\ \A q \in ProductIds \ {l.product} : \A i \in Images(q)' : i \in Images(q) /\ image'[i] = image[i]
  BY <1>3, <1>4, <1>5, <1>12, <1>13, PicturesStep
<1>15. PositionsDistinct'
  <2>1. Images(l.product) = {}
    <3> SUFFICES ASSUME NEW i \in Images(l.product)
                 PROVE  FALSE
      OBVIOUS
    <3>1. i \in ImageIds /\ image[i].product = l.product /\ image[i] # NoImage
      BY <1>4, BoundsAssumption DEF Images, NoImage, ProductIds
    <3> QED
      BY <1>5, <1>11, <3>1 DEF ImagesBelong
  <2> QED
    BY <1>3, <1>4, <1>13, <2>1, AddedDistinct
<1>16. /\ proc' \in [Sessions -> Locals]
       /\ \A t \in Sessions : Known(proc[t])'
       /\ \A t \in Sessions : Creating(t)' => t # s /\ Creating(t) /\ proc'[t].product = proc[t].product
  <2>1. {} \in SUBSET {"specs", "positions"}
    OBVIOUS
  <2> QED
    BY <1>3, <1>4, <1>7, <1>11, <1>12, <1>14, <2>1, FinishStep
<1>17. \A t \in Sessions : ~Creating(t)'
  BY <1>1, <1>3, <1>16 DEF Inv, OneCreates, Creating
<1>18. Numbered(n + 1)'
  <2>1. ASSUME NEW q \in ProductIds
        PROVE  Exists(q)' <=> q <= n + 1
    <3>1. q \in Int
      BY BoundsAssumption DEF ProductIds
    <3>2. CASE q = l.product
      BY <1>10, <1>12, <3>1, <3>2
    <3>3. CASE q # l.product
      <4>1. Exists(q)' <=> Exists(q)
        BY <1>7, <3>3 DEF Exists
      <4>2. Exists(q) <=> q <= n
        BY <1>9 DEF Numbered
      <4> QED
        BY <1>10, <3>1, <3>3, <4>1, <4>2
    <3> QED
      BY <3>2, <3>3
  <2> QED
    BY <1>17, <2>1 DEF Numbered
<1>19. n + 1 \in 0..MaxProducts
  BY <1>10
<1>20. CategoriesExist'
  <2>1. FindActiveById' = FindActiveById
    BY <1>3 DEF FindActiveById, CategoryExists
  <2>2. ASSUME NEW q \in ProductIds, Exists(q)'
        PROVE  product'[q].category \in FindActiveById
    <3>1. CASE q = l.product
      BY <1>6, <1>7, <3>1
    <3>2. CASE q # l.product
      BY <1>7, <2>2, <3>2 DEF Exists, Inv, CategoriesExist
    <3> QED
      BY <3>1, <3>2
  <2> QED
    BY <2>1, <2>2 DEF CategoriesExist
<1>21. TypeOK'
  BY <1>3, <1>5, <1>7, <1>14, <1>16 DEF TypeOK, Locals
<1>22. OneCreates'
  BY <1>17 DEF OneCreates
<1> QED
  BY <1>14, <1>15, <1>16, <1>18, <1>19, <1>20, <1>21, <1>22 DEF Inv

\* The UPDATE of a product, by its id, and its new images.
LEMMA WriteStep ==
  ASSUME Inv, NEW s \in Sessions, Write(s)
  PROVE  Inv'
<1>1. PICK l \in Locals : l = proc[s] /\ Known(l)
  BY AboutRequest
<1>2. PICK what : what = (IF l.pictures > 0 THEN {"positions"} ELSE {})
                         \cup IF l.category # None THEN {"specs"} ELSE {}
  OBVIOUS
<1>3. /\ l.op = "update" /\ l.at = "write" /\ RoomFor(l.pictures, l.start)
      /\ product' = [product EXCEPT ![l.product] = Updated(@, l)]
      /\ image' = WithPictures(l.product, l.pictures, l.start)
      /\ suspect' = IF l.pictures > 0 /\ "positions" \in l.stale THEN suspect \cup {l.product} ELSE suspect
      /\ FinishAndOutdate(s, l.product, what)
      /\ category' = category /\ lock' = lock
  BY <1>1, <1>2 DEF Write, At
<1>4. /\ l.product \in ProductIds /\ Exists(l.product)
      /\ l.checked \in FindActiveById /\ (l.category # None => l.category = l.checked)
  BY <1>1, <1>3 DEF Known, WellFormed
<1>5. TypeOK /\ ImagesBelong
  BY DEF Inv
<1>6. PICK row : row = Updated(product[l.product], l)
  OBVIOUS
<1>7. PICK old \in ProductRows : old = product[l.product]
  BY <1>4, <1>5, RowsExist
<1>8. /\ row \in ProductRows /\ row.category = IF l.category = None THEN old.category ELSE l.category
  <2>1. l.category \in Categories \cup {None} /\ l.specs \in Specs \cup {None}
    BY LocalTypes
  <2> QED
    BY <1>6, <1>7, <2>1 DEF Updated, ProductRows
<1>9. /\ product' \in [ProductIds -> ProductRows \cup {NoProduct}]
      /\ product'[l.product] = row
      /\ \A q \in ProductIds \ {l.product} : product'[q] = product[q]
  BY <1>3, <1>4, <1>5, <1>6, <1>8 DEF TypeOK
<1>10. \A q \in ProductIds : Exists(q)' <=> Exists(q)
  <2>1. row # NoProduct
    BY <1>8, CategoriesAssumption DEF NoProduct, ProductRows
  <2> QED
    BY <1>4, <1>9, <2>1 DEF Exists
<1>11. l.pictures \in Nat /\ l.start \in 0..(MaxPosition + 1)
  BY LocalTypes, BoundsAssumption
<1>12. /\ image' \in [ImageIds -> ImageRows \cup {NoImage}] /\ ImagesBelong'
       /\ \A i \in ImageIds : image[i] # NoImage => image'[i].product = image[i].product
       /\ \A q \in ProductIds \ {l.product} : \A i \in Images(q)' : i \in Images(q) /\ image'[i] = image[i]
       /\ l.pictures = 0 => image' = image
  BY <1>3, <1>4, <1>5, <1>10, <1>11, PicturesStep
<1>13. PositionsDistinct'
  <2>1. l.product \in suspect' \/ l.pictures = 0 \/ \A i \in Images(l.product) : image[i].position < l.start
    <3>1. l.pictures > 0 \/ l.pictures = 0
      BY <1>11
    <3> QED
      BY <1>1, <1>3, <3>1 DEF Known, FreshPositions
  <2>2. suspect \subseteq suspect'
    BY <1>3
  <2> QED
    BY <1>3, <1>4, <1>11, <2>1, <2>2, AddedDistinct
<1>14. /\ proc' \in [Sessions -> Locals]
       /\ \A t \in Sessions : Known(proc[t])'
       /\ \A t \in Sessions : Creating(t)' => t # s /\ Creating(t) /\ proc'[t].product = proc[t].product
  <2>1. what \in SUBSET {"specs", "positions"}
    BY <1>2
  <2>2. "positions" \in what \/ image' = image
    <3>1. l.pictures > 0 \/ l.pictures = 0
      BY <1>11
    <3> QED
      BY <1>2, <1>12, <3>1
  <2>3. "specs" \in what \/ product'[l.product].category = product[l.product].category
    BY <1>2, <1>7, <1>8, <1>9
  <2> QED
    BY <1>3, <1>4, <1>9, <1>10, <1>12, <2>1, <2>2, <2>3, FinishStep
<1>15. (\E n \in 0..MaxProducts : Numbered(n))' /\ OneCreates'
  BY <1>10, <1>14, StillNumbered
<1>16. CategoriesExist'
  <2>1. FindActiveById' = FindActiveById
    BY <1>3 DEF FindActiveById, CategoryExists
  <2>2. ASSUME NEW q \in ProductIds, Exists(q)'
        PROVE  product'[q].category \in FindActiveById
    <3>1. product[q].category \in FindActiveById
      BY <1>10, <2>2 DEF Inv, CategoriesExist
    <3> QED
      BY <1>4, <1>7, <1>8, <1>9, <3>1
  <2> QED
    BY <2>1, <2>2 DEF CategoriesExist
<1>17. TypeOK'
  BY <1>3, <1>4, <1>5, <1>9, <1>12, <1>14 DEF TypeOK, Locals
<1> QED
  BY <1>12, <1>13, <1>14, <1>15, <1>16, <1>17 DEF Inv

\* The INSERT of addImage, at the client's position: nothing is promised of the product from here on.
LEMMA AddImageStep ==
  ASSUME Inv, NEW s \in Sessions, AddImage(s)
  PROVE  Inv'
<1>1. PICK l \in Locals : l = proc[s] /\ Known(l)
  BY AboutRequest
<1>2. PICK start \in Positions : RoomFor(1, start) /\ image' = WithPictures(l.product, 1, start)
  BY <1>1 DEF AddImage
<1>3. /\ l.op = "addImage" /\ l.at = "write" /\ suspect' = suspect \cup {l.product}
      /\ FinishAndOutdate(s, l.product, {"positions"})
      /\ category' = category /\ product' = product /\ lock' = lock
  BY <1>1 DEF AddImage, At
<1>4. l.product \in ProductIds /\ Exists(l.product)
  BY <1>1, <1>3 DEF Known, WellFormed
<1>5. TypeOK /\ ImagesBelong
  BY DEF Inv
<1>6. \A q \in ProductIds : Exists(q)' <=> Exists(q)
  BY <1>3 DEF Exists
<1>7. start \in 0..(MaxPosition + 1)
  BY <1>2, BoundsAssumption DEF Positions
<1>8. /\ image' \in [ImageIds -> ImageRows \cup {NoImage}] /\ ImagesBelong'
      /\ \A i \in ImageIds : image[i] # NoImage => image'[i].product = image[i].product
      /\ \A q \in ProductIds \ {l.product} : \A i \in Images(q)' : i \in Images(q) /\ image'[i] = image[i]
  BY <1>2, <1>4, <1>5, <1>6, <1>7, PicturesStep
<1>9. PositionsDistinct'
  <2>1. suspect \subseteq suspect' /\ l.product \in suspect'
    BY <1>3
  <2> QED
    BY <1>2, <1>4, <1>7, <2>1, AddedDistinct
<1>10. /\ proc' \in [Sessions -> Locals]
       /\ \A t \in Sessions : Known(proc[t])'
       /\ \A t \in Sessions : Creating(t)' => t # s /\ Creating(t) /\ proc'[t].product = proc[t].product
  <2>1. {"positions"} \in SUBSET {"specs", "positions"} /\ "positions" \in {"positions"}
    OBVIOUS
  <2> QED
    BY <1>3, <1>4, <1>6, <1>8, <2>1, FinishStep
<1>11. (\E n \in 0..MaxProducts : Numbered(n))' /\ OneCreates'
  BY <1>6, <1>10, StillNumbered
<1>12. CategoriesExist'
  BY <1>3 DEF Inv, CategoriesExist, Exists, FindActiveById, CategoryExists
<1>13. TypeOK'
  BY <1>3, <1>4, <1>5, <1>8, <1>10 DEF TypeOK, Locals
<1> QED
  BY <1>8, <1>9, <1>10, <1>11, <1>12, <1>13 DEF Inv

\* The positions that reorderImages gives are its images' places in the list.
LEMMA PlacesInList ==
  ASSUME NEW n \in 0..MaxImages, NEW l, DOMAIN l.ids = 1..n
  PROVE  /\ \A i : (\E k \in DOMAIN l.ids : l.ids[k] = i) =>
              PositionOf(i, l) \in Positions /\ l.ids[PositionOf(i, l) + 1] = i
<1> SUFFICES ASSUME NEW i, \E k \in DOMAIN l.ids : l.ids[k] = i
             PROVE  PositionOf(i, l) \in Positions /\ l.ids[PositionOf(i, l) + 1] = i
  OBVIOUS
<1>1. n \in Nat /\ n <= MaxPosition + 1 /\ MaxPosition \in Nat
  BY BoundsAssumption
<1>2. PICK T : T = {k \in DOMAIN l.ids : l.ids[k] = i}
  OBVIOUS
<1>3. T \in SUBSET (1..n) /\ T # {}
  BY <1>2
<1>4. PICK one \in Int : one = 1
  OBVIOUS
<1>5. T \in SUBSET (one..n) /\ n \in Int
  BY <1>1, <1>3, <1>4
<1>6. MaxOf(T) \in T
  BY <1>3, <1>5, MaxOfIsMax
<1>7. PICK k \in 1..n : k = MaxOf(T) /\ l.ids[k] = i
  BY <1>2, <1>3, <1>6
<1>8. PositionOf(i, l) = k - 1
  BY <1>2, <1>7 DEF PositionOf
<1>9. k - 1 \in Positions /\ (k - 1) + 1 = k
  BY <1>1 DEF Positions
<1> QED
  BY <1>7, <1>8, <1>9

\* The COMMIT of reorderImages.
LEMMA CommitPositionsStep ==
  ASSUME Inv, NEW s \in Sessions, CommitPositions(s)
  PROVE  Inv'
<1>1. PICK l \in Locals : l = proc[s] /\ Known(l)
  BY AboutRequest
<1> DEFINE Listed(i) == \E k \in DOMAIN l.ids : l.ids[k] = i
<1>2. /\ l.at = "positions"
      /\ image' = [i \in ImageIds |-> IF Listed(i) THEN [image[i] EXCEPT !.position = PositionOf(i, l)] ELSE image[i]]
      /\ suspect' = IF Repeats(l.ids) \/ "positions" \in l.stale
                    THEN suspect \cup {l.product} ELSE suspect \ {l.product}
      /\ Release(s)
      /\ FinishAndOutdate(s, l.product, {"positions"})
      /\ category' = category /\ product' = product
  BY <1>1 DEF CommitPositions
<1>3. PICK n \in 0..MaxImages : DOMAIN l.ids = 1..n /\ l.ids \in [1..n -> Images(l.product)]
  BY <1>1, <1>2, ListLength
<1>4. l.product \in ProductIds /\ Exists(l.product)
  BY <1>1, <1>2, ListLength
<1>5. TypeOK /\ ImagesBelong
  BY DEF Inv
<1>6. \A i : Listed(i) => PositionOf(i, l) \in Positions /\ l.ids[PositionOf(i, l) + 1] = i
  BY <1>3, PlacesInList
<1>7. \A i : Listed(i) => i \in Images(l.product) /\ i \in ImageIds /\ image[i] \in ImageRows
  BY <1>3, <1>4, <1>5, RowsExist DEF Images
<1> HIDE DEF Listed
<1>8. \A i \in ImageIds : Listed(i) =>
        /\ image'[i] \in ImageRows /\ image'[i].product = image[i].product /\ image'[i].position = PositionOf(i, l)
  BY <1>2, <1>6, <1>7 DEF ImageRows
<1>9. \A i \in ImageIds : ~Listed(i) => image'[i] = image[i]
  BY <1>2
<1>10. \A i \in ImageIds : image'[i].product = image[i].product
  BY <1>8, <1>9
<1>11. \A q : Images(q)' = Images(q)
  BY <1>10 DEF Images
<1>12. \A q \in ProductIds \ {l.product} : \A i \in Images(q)' : i \in Images(q) /\ image'[i] = image[i]
  BY <1>7, <1>9, <1>11 DEF Images
<1>13. image' \in [ImageIds -> ImageRows \cup {NoImage}]
  <2>1. \A i \in ImageIds : image'[i] \in ImageRows \cup {NoImage}
    BY <1>5, <1>8, <1>9 DEF TypeOK
  <2> QED
    BY <1>2, <2>1
<1>14. \A q \in ProductIds : Exists(q)' <=> Exists(q)
  BY <1>2 DEF Exists
<1>15. ImagesBelong'
  <2>1. ASSUME NEW i \in ImageIds, image'[i] # NoImage
        PROVE  product[image'[i].product] # NoProduct
    <3>1. image[i] # NoImage
      BY <1>5, <1>7, <1>9, <2>1, RowsExist
    <3> QED
      BY <1>5, <1>10, <3>1 DEF ImagesBelong, Exists
  <2> QED
    BY <1>2, <2>1 DEF ImagesBelong, Exists
<1>16. PositionsDistinct'
  <2> SUFFICES ASSUME NEW q \in ProductIds, q \notin suspect', NEW i \in Images(q), NEW j \in Images(q),
                      image'[i].position = image'[j].position
               PROVE  i = j
    BY <1>11 DEF PositionsDistinct
  <2>1. i \in ImageIds /\ j \in ImageIds
    BY DEF Images
  <2>2. CASE q = l.product
    <3>1. ~Repeats(l.ids) /\ "positions" \notin l.stale
      BY <1>2, <2>2
    <3>2. Listed(i) /\ Listed(j)
      BY <1>1, <1>2, <2>2, <3>1 DEF Known, FreshList, Listed
    <3>3. PositionOf(i, l) = PositionOf(j, l)
      BY <1>8, <2>1, <3>2
    <3> QED
      BY <1>6, <3>2, <3>3
  <2>3. CASE q # l.product
    <3>1. image'[i] = image[i] /\ image'[j] = image[j] /\ q \notin suspect
      BY <1>2, <1>11, <1>12, <2>3
    <3> QED
      BY <3>1 DEF Inv, PositionsDistinct
  <2> QED
    BY <2>2, <2>3
<1>17. /\ proc' \in [Sessions -> Locals]
       /\ \A t \in Sessions : Known(proc[t])'
       /\ \A t \in Sessions : Creating(t)' => t # s /\ Creating(t) /\ proc'[t].product = proc[t].product
  <2>1. {"positions"} \in SUBSET {"specs", "positions"} /\ "positions" \in {"positions"}
    OBVIOUS
  <2> QED
    BY <1>2, <1>4, <1>10, <1>12, <1>14, <2>1, FinishStep
<1>18. (\E k \in 0..MaxProducts : Numbered(k))' /\ OneCreates'
  BY <1>14, <1>17, StillNumbered
<1>19. CategoriesExist'
  BY <1>2 DEF Inv, CategoriesExist, Exists, FindActiveById, CategoryExists
<1>20. lock' \in [ImageIds -> Sessions \cup {None}]
  BY <1>2, AboutRequest
<1>21. TypeOK'
  BY <1>2, <1>4, <1>5, <1>13, <1>17, <1>20 DEF TypeOK, Locals
<1> QED
  BY <1>15, <1>16, <1>17, <1>18, <1>19, <1>21 DEF Inv

\* The deletion of a product, which its row survives.
LEMMA SoftDeleteStep ==
  ASSUME Inv, NEW s \in Sessions, SoftDelete(s)
  PROVE  /\ Inv'
         /\ \A q \in ProductIds : /\ Exists(q)' <=> Exists(q)
                                  /\ product'[q].category = product[q].category
                                  /\ Exists(q) => product'[q].specs = product[q].specs
<1>1. PICK l \in Locals : l = proc[s] /\ Known(l)
  BY AboutRequest
<1>2. /\ l.op = "delete" /\ product' = [product EXCEPT ![l.product].deleted = TRUE]
      /\ proc' = [proc EXCEPT ![s] = Idle]
      /\ category' = category /\ image' = image /\ lock' = lock /\ suspect' = suspect
  BY <1>1 DEF SoftDelete, At, Become
<1>3. l.product \in ProductIds /\ Exists(l.product)
  BY <1>1, <1>2 DEF Known, WellFormed
<1>4. TypeOK
  BY DEF Inv
<1>5. PICK old \in ProductRows : old = product[l.product]
  BY <1>3, <1>4, RowsExist
<1>6. PICK row : row = [old EXCEPT !.deleted = TRUE]
  OBVIOUS
<1>7. row \in ProductRows /\ row.category = old.category /\ row.specs = old.specs
  BY <1>6 DEF ProductRows
<1>8. /\ product' \in [ProductIds -> ProductRows \cup {NoProduct}]
      /\ product'[l.product] = row
      /\ \A q \in ProductIds \ {l.product} : product'[q] = product[q]
  BY <1>2, <1>3, <1>4, <1>5, <1>6, <1>7 DEF TypeOK
<1>9. \A q \in ProductIds : /\ Exists(q)' <=> Exists(q)
                            /\ product'[q].category = product[q].category
                            /\ Exists(q) => product'[q].specs = product[q].specs
  <2>1. row # NoProduct
    BY <1>7, CategoriesAssumption DEF NoProduct, ProductRows
  <2> QED
    BY <1>3, <1>5, <1>7, <1>8, <2>1 DEF Exists
<1>10. proc \in [Sessions -> Locals]
  BY DEF Inv
<1>11. proc' \in [Sessions -> Locals] /\ proc'[s] = Idle /\ \A t \in Sessions \ {s} : proc'[t] = proc[t]
  BY <1>2, <1>10, IdleKnown
<1>12. ASSUME NEW t \in Sessions
       PROVE  Known(proc[t])'
  <2>1. CASE t = s
    BY <1>11, <2>1, IdleKnown DEF Known, WellFormed, FreshPositions, FreshList, FreshSpecs
  <2>2. CASE t # s
    <3>1. PICK m \in Locals : m = proc[t] /\ Known(m)
      BY AboutRequest
    <3>2. m = [m EXCEPT !.stale = m.stale]
      BY DEF Locals
    <3>3. m.op \in {"create", "update", "reorder"} => m.product \in ProductIds
      BY <3>1 DEF Known, WellFormed
    <3>4. SchemaOf(m.checked)' = SchemaOf(m.checked) /\ FindActiveById' = FindActiveById
          /\ \A q : Images(q)' = Images(q)
      BY <1>2 DEF SchemaOf, FindActiveById, CategoryExists, Images
    <3>5. m.op = "update" => product'[m.product].category = product[m.product].category
      BY <1>9, <3>3
    <3>6. \/ "positions" \in m.stale \/ m.op \notin {"update", "reorder"}
          \/ \A i \in Images(m.product)' : i \in Images(m.product) /\ image'[i].position = image[i].position
      BY <1>2, <3>4
    <3>7. Known(m)'
      BY <1>2, <1>4, <1>9, <3>1, <3>2, <3>4, <3>5, <3>6, KnownLater
    <3> QED
      BY <1>11, <2>2, <3>1, <3>7 DEF Known, WellFormed, FreshPositions, FreshList, FreshSpecs
  <2> QED
    BY <2>1, <2>2
<1>13. \A t \in Sessions : Creating(t)' => Creating(t) /\ proc'[t].product = proc[t].product
  BY <1>11, IdleKnown DEF Creating
<1>14. (\E n \in 0..MaxProducts : Numbered(n))' /\ OneCreates'
  BY <1>9, <1>13, StillNumbered
<1>15. CategoriesExist'
  BY <1>2, <1>9 DEF Inv, CategoriesExist, FindActiveById, CategoryExists
<1>16. ImagesBelong' /\ PositionsDistinct'
  <2>1. ImagesBelong'
    BY <1>2, <1>4, <1>9, RowsExist DEF Inv, ImagesBelong, ImageRows
  <2>2. PositionsDistinct'
    BY <1>2 DEF Inv, PositionsDistinct, Images
  <2> QED
    BY <2>1, <2>2
<1>17. TypeOK'
  BY <1>2, <1>4, <1>8, <1>11 DEF TypeOK, Locals
<1> QED
  BY <1>9, <1>11, <1>12, <1>14, <1>15, <1>16, <1>17 DEF Inv

\* What is done to a category: it does not go away, and no other category changes.
LEMMA CategoryStep ==
  ASSUME TypeOK, NEW c \in Categories, EditCategory(c)
  PROVE  /\ category' \in [Categories -> CategoryRows \cup {NoCategory}]
         /\ FindActiveById \subseteq FindActiveById'
         /\ \A d \in Categories \ {c} : SchemaOf(d)' = SchemaOf(d)
<1>1. PICK row \in CategoryRows : category' = [category EXCEPT ![c] = row]
  <2>1. CASE CreateCategory(c) \/ UpdateCategory(c)
    <3>1. PICK parent \in FindActiveById \cup {None}, schema \in Schemas :
            category' = [category EXCEPT ![c] = [parent |-> parent, schema |-> schema]]
      BY <2>1 DEF CreateCategory, UpdateCategory
    <3>2. parent \in Categories \cup {None}
      BY DEF FindActiveById
    <3>3. [parent |-> parent, schema |-> schema] \in CategoryRows
      BY <3>2 DEF CategoryRows
    <3> QED
      BY <3>1, <3>3
  <2>2. CASE ReplaceSpecSchema(c)
    <3>1. PICK schema \in Schemas : CategoryExists(c) /\ category' = [category EXCEPT ![c].schema = schema]
      BY <2>2 DEF ReplaceSpecSchema
    <3>2. PICK old \in CategoryRows : old = category[c]
      BY <3>1, RowsExist
    <3>3. [old EXCEPT !.schema = schema] \in CategoryRows
      BY DEF CategoryRows
    <3> QED
      BY <3>1, <3>2, <3>3
  <2> QED
    BY <2>1, <2>2 DEF EditCategory
<1>2. row # NoCategory
  BY CategoriesAssumption DEF CategoryRows, NoCategory
<1>3. category' \in [Categories -> CategoryRows \cup {NoCategory}]
  BY <1>1 DEF TypeOK
<1>4. category'[c] = row /\ \A d \in Categories \ {c} : category'[d] = category[d]
  BY <1>1 DEF TypeOK
<1>5. FindActiveById \subseteq FindActiveById'
  BY <1>2, <1>4 DEF FindActiveById, CategoryExists
<1>6. \A d \in Categories \ {c} : SchemaOf(d)' = SchemaOf(d)
  BY <1>4 DEF SchemaOf
<1> QED
  BY <1>3, <1>5, <1>6

\* A change of a category outdates what has been checked against its schema.
LEMMA EditStep ==
  ASSUME Inv, NEW c \in Categories, Edit(c)
  PROVE  Inv'
<1>1. TypeOK /\ proc \in [Sessions -> Locals]
  BY DEF Inv
<1>2. /\ category' \in [Categories -> CategoryRows \cup {NoCategory}]
      /\ FindActiveById \subseteq FindActiveById'
      /\ \A d \in Categories \ {c} : SchemaOf(d)' = SchemaOf(d)
  BY <1>1, CategoryStep DEF Edit
<1>3. product' = product /\ image' = image /\ lock' = lock /\ suspect' = suspect
  BY DEF Edit
<1>4. ASSUME NEW t \in Sessions
      PROVE  /\ proc'[t] \in Locals /\ Known(proc[t])'
             /\ proc'[t].op = proc[t].op /\ proc'[t].product = proc[t].product
  <2>1. PICK l \in Locals : l = proc[t] /\ Known(l)
    BY AboutRequest
  <2>2. PICK m : m = proc'[t]
    OBVIOUS
  <2> DEFINE Outdated == l.checked = c /\ l.specs # None /\ l.at # "validate" /\ SchemaOf(c)' # SchemaOf(c)
  <2>3. m = IF Outdated THEN [l EXCEPT !.stale = @ \cup {"specs"}] ELSE l
    BY <2>1, <2>2 DEF Edit
  <2>4. /\ m \in Locals /\ m = [l EXCEPT !.stale = m.stale] /\ l.stale \subseteq m.stale
        /\ m.op = l.op /\ m.product = l.product /\ (Outdated => "specs" \in m.stale)
    <3>1. CASE Outdated
      BY <2>3, <3>1 DEF Locals
    <3>2. CASE ~Outdated
      BY <2>3, <3>2 DEF Locals
    <3> QED
      BY <3>1, <3>2
  <2>5. l.op \in {"create", "update"} => l.checked \in Categories
    BY <2>1 DEF Known, WellFormed, FindActiveById
  <2>6. \/ "specs" \in m.stale \/ l.op \notin {"create", "update"} \/ l.specs = None
        \/ /\ l.at # "validate" => SchemaOf(l.checked)' = SchemaOf(l.checked)
           /\ l.op = "update" /\ l.category = None => product'[l.product].category = product[l.product].category
    BY <1>2, <1>3, <2>4, <2>5
  <2>7. \A p \in ProductIds : Exists(p) => Exists(p)'
    BY <1>3 DEF Exists
  <2>8. \A i \in Images(l.product)' : i \in Images(l.product) /\ image'[i].position = image[i].position
    BY <1>3 DEF Images
  <2> HIDE DEF Outdated
  <2>9. Known(m)'
    BY <1>1, <1>2, <1>3, <2>1, <2>4, <2>6, <2>7, <2>8, KnownLater
  <2>10. Known(proc[t])'
    BY <2>2, <2>9 DEF Known, WellFormed, FreshPositions, FreshList, FreshSpecs
  <2> QED
    BY <2>1, <2>2, <2>4, <2>10
<1>5. proc' \in [Sessions -> Locals]
  BY <1>4 DEF Edit
<1>6. (\E n \in 0..MaxProducts : Numbered(n))' /\ OneCreates'
  BY <1>3, <1>4, StillNumbered DEF Creating, Exists
<1>7. CategoriesExist'
  BY <1>2, <1>3 DEF Inv, CategoriesExist, Exists
<1>8. ImagesBelong' /\ PositionsDistinct'
  BY <1>3 DEF Inv, ImagesBelong, PositionsDistinct, Images, Exists
<1>9. TypeOK'
  BY <1>1, <1>2, <1>3, <1>5 DEF TypeOK, Locals
<1> QED
  BY <1>4, <1>5, <1>6, <1>7, <1>8, <1>9 DEF Inv

-----------------------------------------------------------------------------
(* The invariant *)

\* There are no products, no images and no requests at first.
LEMMA InitInv == Init => Inv
<1> SUFFICES ASSUME Init
             PROVE  Inv
  OBVIOUS
<1>1. \A s \in Sessions : proc[s] = Idle
  BY DEF Init
<1>2. proc \in [Sessions -> Locals]
  BY <1>1, IdleKnown DEF Init
<1>3. TypeOK
  BY <1>2 DEF Init, InitCategories, TypeOK, Locals
<1>4. \A i \in ImageIds : image[i] = NoImage
  BY DEF Init
<1>5. \A p \in ProductIds : ~Exists(p)
  BY DEF Init, Exists
<1>6. ImagesBelong /\ CategoriesExist /\ PositionsDistinct
  BY <1>4, <1>5, BoundsAssumption
  DEF ImagesBelong, CategoriesExist, PositionsDistinct, Images, NoImage, ProductIds
<1>7. Numbered(0) /\ OneCreates
  BY <1>1, <1>5, IdleKnown, BoundsAssumption DEF Numbered, OneCreates, Creating, ProductIds
<1>8. \A s \in Sessions : Known(proc[s])
  BY <1>1, IdleKnown
<1> QED
  BY <1>2, <1>3, <1>6, <1>7, <1>8, BoundsAssumption DEF Inv

\* Each step of a request, and of a category, keeps the invariant.
LEMMA NextInv == Inv /\ [Next]_vars => Inv'
<1> SUFFICES ASSUME Inv, [Next]_vars
             PROVE  Inv'
  OBVIOUS
<1>1. ASSUME NEW s \in Sessions, Request(s)
      PROVE  Inv'
  <2>1. CASE Create(s)
    BY <2>1, CreateStep
  <2>2. ASSUME NEW p \in ProductIds, Update(s, p)
        PROVE  Inv'
    BY <2>2, UpdateStep
  <2>3. ASSUME NEW p \in ProductIds, NEW op \in {"delete", "addImage", "reorder"}, Read(s, p, op)
        PROVE  Inv'
    BY <2>3, ReadStep
  <2> QED
    BY <1>1, <2>1, <2>2, <2>3 DEF Request
<1>2. ASSUME NEW s \in Sessions, Continue(s)
      PROVE  Inv'
  <2>1. CASE UploadedForCreate(s) \/ InsertProduct(s)
    BY <2>1, UploadedForCreateStep, InsertProductStep
  <2>2. CASE Validate(s) \/ GetMaxImagePosition(s) \/ Write(s)
    BY <2>2, ValidateStep, GetMaxImagePositionStep, WriteStep
  <2>3. CASE SoftDelete(s) \/ AddImage(s)
    BY <2>3, SoftDeleteStep, AddImageStep
  <2>4. CASE ListImageIds(s) \/ UpdateImagePosition(s) \/ CommitPositions(s)
    BY <2>4, ListImageIdsStep, UpdateImagePositionStep, CommitPositionsStep
  <2>5. CASE AbortDeadlock(s)
    BY <2>5, OverStep DEF AbortDeadlock
  <2> QED
    BY <1>2, <2>1, <2>2, <2>3, <2>4, <2>5 DEF Continue
<1>3. ASSUME NEW s \in Sessions, Throw(s)
      PROVE  Inv'
  BY <1>3, OverStep DEF Throw
<1>4. ASSUME NEW c \in Categories, Edit(c)
      PROVE  Inv'
  BY <1>4, EditStep
<1>5. CASE UNCHANGED vars
  <2>1. /\ category' = category /\ product' = product /\ image' = image /\ suspect' = suspect
        /\ lock' = lock /\ proc' = proc
    BY <1>5 DEF vars
  <2>2. ASSUME NEW s \in Sessions
        PROVE  Known(proc[s])'
    <3>1. PICK m : m = proc[s] /\ Known(m)
      BY DEF Inv
    <3>2. Known(m)'
      BY <2>1, <3>1 DEF Known, WellFormed, FreshPositions, FreshList, FreshSpecs, Exists, Images, FindActiveById,
                        CategoryExists, SchemaOf, Validates, ValidField, Repeats
    <3>3. m = proc'[s]
      BY <2>1, <3>1
    <3> QED
      BY <3>2, <3>3, SMTT(40) DEF Known, WellFormed, FreshPositions, FreshList, FreshSpecs
  <2>3. TypeOK' /\ (proc \in [Sessions -> Locals])'
    BY <2>1 DEF Inv, TypeOK
  <2>4. (\E n \in 0..MaxProducts : Numbered(n))' /\ OneCreates'
    BY <2>1, StillNumbered DEF Creating, Exists
  <2>5. ImagesBelong' /\ CategoriesExist' /\ PositionsDistinct'
    BY <2>1 DEF Inv, ImagesBelong, CategoriesExist, PositionsDistinct, Images, Exists, FindActiveById, CategoryExists
  <2> QED
    BY <2>2, <2>3, <2>4, <2>5 DEF Inv
<1> QED
  BY <1>1, <1>2, <1>3, <1>4, <1>5 DEF Next

\* The invariant holds in every state.
LEMMA Invariance == Spec => []Inv
<1> QED
  BY InitInv, NextInv, PTL DEF Spec

\* The tables hold rows of their columns, and the requests are at steps of the handlers, whatever
\* the products, images, categories, schemas and requests are.
THEOREM TypeCorrect == Spec => []TypeOK
<1>1. Inv => TypeOK
  BY DEF Inv
<1> QED
  BY <1>1, Invariance, PTL

\* create and update number the images they add one after the other, from a position above all of
\* the product, and reorderImages gives each image a place of its own: no two images of a product
\* share a position, for any number of requests that upload, reorder, delete, fail and are ended by
\* a deadlock in any order, as long as nothing disturbs a product in the ways the history records.
THEOREM ImagesHavePlaces == Spec => []PositionsDistinct
<1>1. Inv => PositionsDistinct
  BY DEF Inv
<1> QED
  BY <1>1, Invariance, PTL

-----------------------------------------------------------------------------
(* Specs *)

\* A product fits or does not, as its row and the schema of its category are.
LEMMA FitsStill ==
  ASSUME NEW p, NEW c, c = product[p].category, product'[p].category = c, Exists(p)' => Exists(p),
         Exists(p) => product'[p].specs = product[p].specs, SchemaOf(c)' = SchemaOf(c), Fits(p)
  PROVE  Fits(p)'
<1>1. PICK sch, specs : sch = SchemaOf(c) /\ specs = product[p].specs
  OBVIOUS
<1>2. Exists(p) => Conforms(sch, specs)
  BY <1>1 DEF Fits
<1>3. category'[c].schema = sch
  BY <1>1 DEF SchemaOf
<1>4. Exists(p)' => Conforms(category'[product'[p].category].schema, product'[p].specs)
  BY <1>1, <1>2, <1>3
<1> QED
  BY <1>4 DEF Fits, SchemaOf, Conforms

\* What create inserts, and an update that gives specs writes, fits, unless it was outdated.
LEMMA WrittenFits ==
  ASSUME Inv, NEW l \in Locals, Known(l), l.op \in {"create", "update"}, l.at = "write",
         l.specs # None, "specs" \notin l.stale, category' = category,
         NEW p \in ProductIds, product'[p].category = l.checked, product'[p].specs = l.specs
  PROVE  Fits(p)'
<1>1. l.checked \in FindActiveById /\ Validates(SchemaOf(l.checked), l.specs)
  BY DEF Known, WellFormed, FreshSpecs
<1>2. SchemaOf(l.checked) \in Schemas
  BY <1>1, RowsExist DEF Inv
<1>3. Conforms(SchemaOf(l.checked), l.specs)
  BY <1>1, <1>2, ValidatesConforms
<1> QED
  BY <1>3 DEF Fits, SchemaOf, Conforms

\* The specs of a product, checked once when they or their category are written, go on to fit the
\* schema of its category whatever other requests do, but for the replacement of that schema and the
\* two ways in which validateSpecs is passed by.
THEOREM SpecsFit == Spec => SpecsStayFit
<1> DEFINE Unfit(p) ==
             \/ \E c \in Categories : SchemaOf(c)' # SchemaOf(c)
             \/ \E s \in Sessions : /\ proc[s].at = "write" /\ proc[s].product = p /\ proc'[s] = Idle
                                    /\ proc[s].specs = None \/ "specs" \in proc[s].stale
           Action == \A p \in ProductIds : Fits(p) /\ ~Fits(p)' => Unfit(p)
<1>1. ASSUME Inv, [Next]_vars
      PROVE  Action
  <2> SUFFICES ASSUME NEW p \in ProductIds, Fits(p), ~Fits(p)', \A c \in Categories : SchemaOf(c)' = SchemaOf(c)
               PROVE  \E s \in Sessions : /\ proc[s].at = "write" /\ proc[s].product = p /\ proc'[s] = Idle
                                          /\ proc[s].specs = None \/ "specs" \in proc[s].stale
    BY DEF Action, Unfit
  <2>1. PICK c : c = product[p].category
    OBVIOUS
  <2>2. Exists(p) => SchemaOf(c)' = SchemaOf(c)
    BY <1>1, <2>1 DEF Inv, CategoriesExist, FindActiveById
  <2>3. product'[p] # product[p]
    <3> SUFFICES ASSUME product'[p] = product[p]
                 PROVE  FALSE
      OBVIOUS
    <3>1. Exists(p)' <=> Exists(p)
      BY DEF Exists
    <3>2. Exists(p)
      BY <3>1 DEF Fits
    <3> QED
      BY <2>1, <2>2, <3>1, <3>2, FitsStill
  <2>4. PICK s \in Sessions : InsertProduct(s) \/ Write(s) \/ SoftDelete(s)
    <3>1. product' # product
      BY <2>3, SMTT(40)
    <3>2. ASSUME NEW t \in Sessions, Request(t)
          PROVE  product' = product
      BY <3>2, ZenonT(40) DEF Request, Create, Update, Read
    <3>3. ASSUME NEW t \in Sessions, Continue(t)
          PROVE  InsertProduct(t) \/ Write(t) \/ SoftDelete(t) \/ product' = product
      BY <3>3 DEF Continue, UploadedForCreate, Validate, GetMaxImagePosition, AddImage, ListImageIds,
                  UpdateImagePosition, CommitPositions, AbortDeadlock
    <3>4. ASSUME NEW t \in Sessions, Throw(t)
          PROVE  product' = product
      BY <3>4 DEF Throw
    <3>5. ASSUME NEW d \in Categories, Edit(d)
          PROVE  product' = product
      BY <3>5 DEF Edit
    <3>6. UNCHANGED vars => product' = product
      BY DEF vars
    <3> QED
      BY <1>1, <3>1, <3>2, <3>3, <3>4, <3>5, <3>6 DEF Next
  <2>5. PICK l \in Locals : l = proc[s] /\ Known(l)
    BY <1>1, AboutRequest
  <2>6. TypeOK
    BY <1>1 DEF Inv
  <2>7. CASE SoftDelete(s)
    <3>1. /\ Exists(p)' <=> Exists(p)
          /\ product'[p].category = product[p].category
          /\ Exists(p) => product'[p].specs = product[p].specs
      BY <1>1, <2>7, SoftDeleteStep
    <3>2. Exists(p)
      BY <3>1 DEF Fits
    <3> QED
      BY <2>1, <2>2, <3>1, <3>2, FitsStill
  <2>8. CASE InsertProduct(s)
    <3>1. /\ l.op = "create" /\ l.at = "write" /\ category' = category
          /\ product' = [product EXCEPT ![l.product] =
                           [category |-> l.category, specs |-> l.specs, deleted |-> FALSE]]
      BY <2>5, <2>8 DEF InsertProduct, At
    <3>2. p = l.product /\ product'[p].category = l.category /\ product'[p].specs = l.specs
      BY <2>3, <2>6, <3>1 DEF TypeOK
    <3>3. l.category = l.checked
      BY <2>5, <3>1 DEF Known, WellFormed
    <3>4. l.specs = None \/ "specs" \in l.stale
      BY <1>1, <2>5, <3>1, <3>2, <3>3, WrittenFits
    <3>5. proc'[s] = Idle
      BY <2>8 DEF InsertProduct, FinishAndOutdate
    <3> QED
      BY <2>5, <3>1, <3>2, <3>4, <3>5
  <2>9. CASE Write(s)
    <3>1. /\ l.op = "update" /\ l.at = "write" /\ category' = category
          /\ product' = [product EXCEPT ![l.product] = Updated(@, l)]
      BY <2>5, <2>9 DEF Write, At
    <3>2. p = l.product /\ product'[p] = Updated(product[p], l)
      BY <2>3, <2>6, <3>1 DEF TypeOK
    <3>3. PICK old \in ProductRows : old = product[p]
      BY <2>5, <2>6, <3>1, <3>2, RowsExist DEF Known, WellFormed
    <3>4. /\ product'[p].category = IF l.category = None THEN old.category ELSE l.category
          /\ l.specs # None => product'[p].specs = l.specs
      BY <3>2, <3>3 DEF Updated, ProductRows
    <3>5. l.specs # None /\ "specs" \notin l.stale => product'[p].category = l.checked
      BY <2>5, <3>1, <3>2, <3>3, <3>4 DEF Known, WellFormed, FreshSpecs
    <3>6. l.specs = None \/ "specs" \in l.stale
      BY <1>1, <2>5, <3>1, <3>4, <3>5, WrittenFits
    <3>7. proc'[s] = Idle
      BY <2>9 DEF Write, FinishAndOutdate
    <3> QED
      BY <2>5, <3>1, <3>2, <3>6, <3>7
  <2> QED
    BY <2>4, <2>7, <2>8, <2>9
<1>2. Inv /\ [Next]_vars => [Action]_vars
  BY <1>1
<1> QED
  BY <1>2, Invariance, PTL DEF SpecsStayFit, Spec

-----------------------------------------------------------------------------
(* Folds that apply one function again and again *)

\* Every nonempty set of numbers has a least one.
LEMMA LeastNumber ==
  ASSUME NEW N \in SUBSET Nat, N # {}
  PROVE  \E n \in N : \A m \in N : n <= m
<1> DEFINE R == OpToRel(<, Nat)
<1>1. IsWellFoundedOn(R, Nat)
  BY NatLessThanWellFounded
<1>2. \A m, n \in Nat : m < n => <<m, n>> \in R
  BY DEF OpToRel
<1> HIDE DEF R
<1>3. PICK n \in N : \A m \in N : ~(<<m, n>> \in R)
  BY <1>1, WFMin
<1>4. ASSUME NEW m \in N, m < n
      PROVE  FALSE
  BY <1>2, <1>3, <1>4
<1> QED
  BY <1>4

\* A nonempty family of subsets of a finite set has a smallest member.
LEMMA SmallestSet ==
  ASSUME NEW S, IsFiniteSet(S), NEW F, F \subseteq SUBSET S, F # {}
  PROVE  \E K \in F : \A L \in F : L \subseteq K => L = K
<1>1. IsWellFoundedOn(StrictSubsetOrdering(S), SUBSET S)
  BY FS_StrictSubsetOrderingWellFounded, FS_FiniteSubsetsOfFinite
<1>2. \E K \in F : \A L \in F : ~(<<L, K>> \in StrictSubsetOrdering(S))
  BY <1>1, WFMin
<1>3. \A K, L \in SUBSET S : L \subseteq K /\ L # K => <<L, K>> \in StrictSubsetOrdering(S)
  BY DEF StrictSubsetOrdering
<1> QED
  BY <1>2, <1>3

\* The member of s that a fold takes first.
Picked(s) == CHOOSE x \in s : TRUE

\* g applies F to base once for each member of a set, on the sets in D.
Iterates(g, F, base, D) == g = [s \in D |-> IF s = {} THEN base ELSE F[g[s \ {Picked(s)}]]]

\* The subsets of S with at most n members.
Upto(S, n) == {s \in SUBSET S : Cardinality(s) <= n}

\* What is left without the first member of a finite set.
LEMMA WithoutPicked ==
  ASSUME NEW S, IsFiniteSet(S), NEW s \in SUBSET S, s # {}
  PROVE  /\ Picked(s) \in s /\ s \ {Picked(s)} \in SUBSET S /\ IsFiniteSet(s)
         /\ Cardinality(s) \in Nat /\ Cardinality(s \ {Picked(s)}) = Cardinality(s) - 1
<1>1. Picked(s) \in s
  BY DEF Picked
<1>2. IsFiniteSet(s) /\ Cardinality(s) \in Nat
  BY FS_Subset, FS_CardinalityType
<1> QED
  BY <1>1, <1>2, FS_RemoveElement

\* The recursion of a fold has a solution.
LEMMA IterationExists ==
  ASSUME NEW S, IsFiniteSet(S), NEW base \in SUBSET S, NEW F \in [SUBSET S -> SUBSET S]
  PROVE  \E g \in [SUBSET S -> SUBSET S] : Iterates(g, F, base, SUBSET S)
<1> DEFINE Solvable(n) == \E g \in [Upto(S, n) -> SUBSET S] : Iterates(g, F, base, Upto(S, n))
           N == {n \in Nat : ~Solvable(n)}
<1>1. N = {}
  <2> SUFFICES ASSUME N # {}
               PROVE  FALSE
    OBVIOUS
  <2>1. PICK n \in N : \A m \in N : n <= m
    <3>1. N \in SUBSET Nat
      OBVIOUS
    <3> HIDE DEF N
    <3> QED
      BY <3>1, LeastNumber
  <2>2. n # 0
    <3>1. \A s \in Upto(S, 0) : s = {}
      BY FS_EmptySet, FS_Subset, FS_CardinalityType DEF Upto
    <3>2. Iterates([s \in Upto(S, 0) |-> base], F, base, Upto(S, 0))
      BY <3>1 DEF Iterates
    <3>3. Solvable(0)
      BY <3>2
    <3> QED
      BY <3>3
  <2>3. n - 1 \in Nat /\ n - 1 \notin N
    BY <2>1, <2>2
  <2>4. PICK g \in [Upto(S, n - 1) -> SUBSET S] : Iterates(g, F, base, Upto(S, n - 1))
    BY <2>3
  <2> DEFINE v(s) == IF s = {} THEN base ELSE F[g[s \ {Picked(s)}]]
             h == [s \in Upto(S, n) |-> v(s)]
  <2>5. \A s \in Upto(S, n - 1) : g[s] = v(s) /\ s \in Upto(S, n)
    <3>1. \A s \in Upto(S, n - 1) : g[s] = v(s)
      BY <2>4 DEF Iterates
    <3>2. \A s \in SUBSET S : Cardinality(s) \in Nat
      BY FS_Subset, FS_CardinalityType
    <3>3. \A s \in SUBSET S : Cardinality(s) <= n - 1 => Cardinality(s) <= n
      BY <2>3, <3>2
    <3>4. \A s \in Upto(S, n - 1) : s \in Upto(S, n)
      BY <3>3 DEF Upto
    <3> QED
      BY <3>1, <3>4
  <2>6. \A s \in Upto(S, n) : s # {} => s \ {Picked(s)} \in Upto(S, n - 1)
    <3> SUFFICES ASSUME NEW s \in Upto(S, n), s # {}
                 PROVE  s \ {Picked(s)} \in Upto(S, n - 1)
      OBVIOUS
    <3>1. s \in SUBSET S /\ Cardinality(s) <= n
      BY DEF Upto
    <3>2. /\ s \ {Picked(s)} \in SUBSET S /\ Cardinality(s) \in Nat
          /\ Cardinality(s \ {Picked(s)}) = Cardinality(s) - 1
      BY <3>1, WithoutPicked
    <3> QED
      BY <2>3, <3>1, <3>2 DEF Upto
  <2>7. \A s \in Upto(S, n) : s # {} => h[s \ {Picked(s)}] = g[s \ {Picked(s)}]
    BY <2>5, <2>6
  <2>8. Iterates(h, F, base, Upto(S, n))
    BY <2>7 DEF Iterates
  <2>9. h \in [Upto(S, n) -> SUBSET S]
    BY <2>4, <2>6
  <2> QED
    BY <2>1, <2>8, <2>9
<1>2. Cardinality(S) \in Nat
  BY FS_CardinalityType
<1>3. Solvable(Cardinality(S))
  BY <1>1, <1>2
<1>4. Upto(S, Cardinality(S)) = SUBSET S
  BY FS_Subset DEF Upto
<1> QED
  BY <1>3, <1>4

\* F only adds to the subsets of S, and T is the least that has base and to which F adds nothing.
Adds(F, S) == \A X \in SUBSET S : X \subseteq F[X]
LeastFixed(T, F, base, S) ==
    /\ base \subseteq T /\ F[T] = T
    /\ \A U \in SUBSET S : base \subseteq U /\ (\A X \in SUBSET U : F[X] \subseteq U) => T \subseteq U

\* As many iterations as S has members of an F that only adds to a set reach the least set that
\* F adds nothing to.
LEMMA IterationEnds ==
  ASSUME NEW S, IsFiniteSet(S), NEW base \in SUBSET S, NEW F \in [SUBSET S -> SUBSET S], Adds(F, S),
         NEW g \in [SUBSET S -> SUBSET S], Iterates(g, F, base, SUBSET S)
  PROVE  LeastFixed(g[S], F, base, S)
<1> USE DEF Adds
<1> DEFINE Rest(s) == s \ {Picked(s)}
<1>0. \A s \in SUBSET S : s # {} =>
        /\ Picked(s) \in s /\ Rest(s) \in SUBSET S /\ Cardinality(s) \in Nat
        /\ Cardinality(Rest(s)) = Cardinality(s) - 1
  BY WithoutPicked
<1>1. g[{}] = base /\ \A s \in SUBSET S : s # {} => g[s] = F[g[Rest(s)]]
  BY DEF Iterates
<1> HIDE DEF Rest
<1>2. ASSUME NEW Bad, Bad \subseteq SUBSET S, {} \notin Bad,
             \A s \in SUBSET S : s # {} /\ s \in Bad => Rest(s) \in Bad
      PROVE  Bad = {}
  <2> SUFFICES ASSUME Bad # {}
               PROVE  FALSE
    OBVIOUS
  <2>1. PICK K \in Bad : \A L \in Bad : L \subseteq K => L = K
    BY <1>2, SmallestSet
  <2>2. K # {} /\ K \in SUBSET S
    BY <1>2
  <2>3. Picked(K) \in K /\ Rest(K) \in Bad /\ Rest(K) = K \ {Picked(K)}
    BY <1>0, <1>2, <2>2 DEF Rest
  <2> QED
    BY <2>1, <2>3
<1>3. base \subseteq g[S]
  <2> DEFINE Bad == {s \in SUBSET S : ~(base \subseteq g[s])}
  <2>1. \A s \in SUBSET S : s # {} => g[Rest(s)] \subseteq g[s]
    BY <1>0, <1>1
  <2>2. Bad \subseteq SUBSET S /\ {} \notin Bad
    BY <1>1
  <2>3. \A s \in SUBSET S : s # {} /\ s \in Bad => Rest(s) \in Bad
    BY <1>0, <1>1, <2>1
  <2> HIDE DEF Bad
  <2>4. Bad = {}
    BY <1>2, <2>2, <2>3
  <2> QED
    BY <2>4 DEF Bad
<1>4. F[g[S]] = g[S]
  <2> DEFINE Bad == {s \in SUBSET S : F[g[s]] # g[s] /\ Cardinality(g[s]) < Cardinality(s)}
  <2>1. Bad \subseteq SUBSET S /\ {} \notin Bad
    <3>1. IsFiniteSet(g[{}])
      BY FS_Subset
    <3>2. Cardinality(g[{}]) \in Nat /\ Cardinality({}) = 0
      BY <3>1, FS_CardinalityType, FS_EmptySet
    <3> QED
      BY <3>2
  <2>2. ASSUME NEW s \in SUBSET S, s # {}, s \in Bad
        PROVE  Rest(s) \in Bad
    <3>1. PICK t \in SUBSET S : t = Rest(s) /\ Cardinality(t) = Cardinality(s) - 1 /\ Cardinality(s) \in Nat
      BY <1>0, <2>2
    <3>2. g[s] = F[g[t]]
      BY <1>1, <2>2, <3>1
    <3>3. F[g[t]] # g[t]
      BY <2>2, <3>2
    <3>4. PICK A, B \in SUBSET S : A = g[t] /\ B = g[s]
      OBVIOUS
    <3>5. A \in SUBSET B /\ A # B
      BY <3>2, <3>3, <3>4
    <3>6. IsFiniteSet(B) /\ IsFiniteSet(A)
      BY FS_Subset
    <3>7. Cardinality(A) < Cardinality(B) /\ Cardinality(A) \in Nat /\ Cardinality(B) \in Nat
      BY <3>5, <3>6, FS_Subset, FS_CardinalityType
    <3>8. Cardinality(B) < Cardinality(s)
      BY <2>2, <3>4
    <3>9. Cardinality(A) < Cardinality(t)
      BY <3>1, <3>7, <3>8
    <3> QED
      BY <3>1, <3>3, <3>4, <3>9
  <2> HIDE DEF Bad
  <2>3. Bad = {}
    BY <1>2, <2>1, <2>2
  <2>4. PICK A \in SUBSET S : A = g[S]
    OBVIOUS
  <2>5. F[A] = A \/ ~(Cardinality(A) < Cardinality(S))
    BY <2>3, <2>4 DEF Bad
  <2>6. Cardinality(A) <= Cardinality(S) /\ Cardinality(A) \in Nat /\ Cardinality(S) \in Nat
        /\ (Cardinality(S) = Cardinality(A) => S = A)
    BY FS_Subset, FS_CardinalityType
  <2>7. F[A] = A \/ A = S
    BY <2>5, <2>6
  <2>8. A \subseteq F[A] /\ F[A] \subseteq S
    OBVIOUS
  <2> QED
    BY <2>4, <2>7, <2>8
<1>5. ASSUME NEW U \in SUBSET S, base \subseteq U, \A X \in SUBSET U : F[X] \subseteq U
      PROVE  g[S] \subseteq U
  <2> DEFINE Bad == {s \in SUBSET S : ~(g[s] \subseteq U)}
  <2>1. Bad \subseteq SUBSET S /\ {} \notin Bad
    BY <1>1, <1>5
  <2>2. \A s \in SUBSET S : s # {} /\ s \in Bad => Rest(s) \in Bad
    BY <1>0, <1>1, <1>5
  <2> HIDE DEF Bad
  <2>3. Bad = {}
    BY <1>2, <2>1, <2>2
  <2> QED
    BY <2>3 DEF Bad
<1> QED
  BY <1>3, <1>4, <1>5 DEF LeastFixed

\* A function that goes as the iterations go ends where they end.
LEMMA IterationIsUnique ==
  ASSUME NEW S, IsFiniteSet(S), NEW g, NEW h, h[{}] = g[{}],
         \A s \in SUBSET S : s # {} /\ h[s \ {Picked(s)}] = g[s \ {Picked(s)}] => h[s] = g[s]
  PROVE  h[S] = g[S]
<1> DEFINE Bad == {s \in SUBSET S : h[s] # g[s]}
<1> SUFFICES ASSUME Bad # {}
             PROVE  FALSE
  OBVIOUS
<1>1. PICK K \in Bad : \A L \in Bad : L \subseteq K => L = K
  <2>1. Bad \subseteq SUBSET S
    OBVIOUS
  <2> HIDE DEF Bad
  <2> QED
    BY <2>1, SmallestSet
<1>2. K # {} /\ K \in SUBSET S
  OBVIOUS
<1>3. Picked(K) \in K /\ K \ {Picked(K)} \in Bad
  BY <1>2, WithoutPicked
<1> QED
  BY <1>1, <1>3

-----------------------------------------------------------------------------
(* The hierarchy of categories *)

\* The foreign key of categories on their parents.
ParentsExist == \A c \in Categories : category[c].parent \in FindActiveById \cup {None}
TreeOK == category \in [Categories -> CategoryRows \cup {NoCategory}] /\ ParentsExist

\* makeTree finds the least set that has the roots and, with a category, its children.
TreeIsLeast ==
    /\ MakeTree \subseteq Categories /\ Children({None}) \subseteq MakeTree /\ Children(MakeTree) \subseteq MakeTree
    /\ \A U \in SUBSET Categories : Children({None}) \subseteq U /\ Children(U) \subseteq U => MakeTree \subseteq U
\* The categories above c are the least set that has the parent of c and, with a category, its parent.
AboveIsLeast(c) ==
    /\ Above(c) \subseteq Categories /\ Parents({c}) \subseteq Above(c) /\ Parents(Above(c)) \subseteq Above(c)
    /\ \A U \in SUBSET Categories : Parents({c}) \subseteq U /\ Parents(U) \subseteq U => Above(c) \subseteq U

\* makeTree goes down as many levels as there are categories: no tree is deeper.
LEMMA MakeTreeReachesAll == TreeIsLeast
<1> DEFINE F == [X \in SUBSET Categories |-> X \cup Children(X)]
           base == Children({None})
           IsTree(h) == h = [s \in SUBSET Categories |->
                              IF s = {} THEN base ELSE h[s \ {Picked(s)}] \cup Children(h[s \ {Picked(s)}])]
<1>1. MakeTree = (CHOOSE h : IsTree(h))[Categories]
  BY DEF MakeTree, FoldSet, MapThenFoldSet, Picked
<1>2. /\ base \in SUBSET Categories /\ F \in [SUBSET Categories -> SUBSET Categories]
      /\ \A X \in SUBSET Categories : F[X] = X \cup Children(X) /\ X \subseteq F[X]
  BY DEF Children, FindActiveById
<1>3. IsFiniteSet(Categories)
  BY CategoriesAssumption
<1> HIDE DEF F, base
<1>4. PICK g \in [SUBSET Categories -> SUBSET Categories] : Iterates(g, F, base, SUBSET Categories)
  BY <1>2, <1>3, IterationExists
<1>5. LeastFixed(g[Categories], F, base, Categories)
  <2>1. base \in SUBSET Categories /\ F \in [SUBSET Categories -> SUBSET Categories]
    BY <1>2
  <2>2. Adds(F, Categories)
    BY <1>2 DEF Adds
  <2>3. g \in [SUBSET Categories -> SUBSET Categories] /\ Iterates(g, F, base, SUBSET Categories)
    BY <1>4
  <2> QED
    BY <2>1, <2>2, <2>3, <1>3, IterationEnds
<1>6. \A s \in SUBSET Categories : s # {} => g[s] = g[s \ {Picked(s)}] \cup Children(g[s \ {Picked(s)}])
  <2> SUFFICES ASSUME NEW s \in SUBSET Categories, s # {}
               PROVE  g[s] = g[s \ {Picked(s)}] \cup Children(g[s \ {Picked(s)}])
    OBVIOUS
  <2>1. g[s] = F[g[s \ {Picked(s)}]] /\ g[s \ {Picked(s)}] \in SUBSET Categories
    BY <1>4 DEF Iterates
  <2> QED
    BY <1>2, <2>1
<1>7. g[{}] = base
  BY <1>4 DEF Iterates
<1>8. IsTree(g)
  BY <1>4, <1>6, <1>7
<1>9. PICK h : IsTree(h) /\ MakeTree = h[Categories]
  BY <1>1, <1>8
<1>10. h[Categories] = g[Categories]
  <2>1. h[{}] = g[{}]
    BY <1>7, <1>9
  <2>2. \A s \in SUBSET Categories : s # {} => h[s] = h[s \ {Picked(s)}] \cup Children(h[s \ {Picked(s)}])
    BY <1>9
  <2> HIDE DEF IsTree
  <2>3. \A s \in SUBSET Categories : s # {} /\ h[s \ {Picked(s)}] = g[s \ {Picked(s)}] => h[s] = g[s]
    <3> SUFFICES ASSUME NEW s \in SUBSET Categories, s # {}, h[s \ {Picked(s)}] = g[s \ {Picked(s)}]
                 PROVE  h[s] = g[s]
      OBVIOUS
    <3> QED
      BY <1>6, <2>2
  <2> QED
    BY <1>3, <2>1, <2>3, IterationIsUnique
<1>11. PICK T \in SUBSET Categories : T = g[Categories]
  BY <1>4
<1>12. Children(T) \subseteq T
  BY <1>2, <1>5, <1>11 DEF LeastFixed
<1>13. ASSUME NEW U \in SUBSET Categories, base \subseteq U, Children(U) \subseteq U
       PROVE  T \subseteq U
  <2>1. \A X \in SUBSET U : Children(X) \subseteq Children(U) /\ X \in SUBSET Categories
    BY DEF Children
  <2>2. \A X \in SUBSET U : F[X] \subseteq U
    BY <1>2, <1>13, <2>1
  <2> QED
    BY <1>5, <1>11, <1>13, <2>2 DEF LeastFixed
<1> QED
  BY <1>5, <1>9, <1>10, <1>11, <1>12, <1>13 DEF TreeIsLeast, LeastFixed, base

\* As many steps up as there are categories reach everything above a category.
LEMMA AboveReachesAll == TreeOK => \A c \in Categories : AboveIsLeast(c)
<1> SUFFICES ASSUME TreeOK, NEW c \in Categories
             PROVE  AboveIsLeast(c)
  OBVIOUS
<1> DEFINE F == [X \in SUBSET Categories |-> X \cup Parents(X)]
           base == Parents({c})
           IsClimb(h) == h = [s \in SUBSET Categories |->
                               IF s = {} THEN base ELSE h[s \ {Picked(s)}] \cup Parents(h[s \ {Picked(s)}])]
<1>1. Above(c) = (CHOOSE h : IsClimb(h))[Categories]
  BY DEF Above, FoldSet, MapThenFoldSet, Picked
<1>2. \A X \in SUBSET Categories : Parents(X) \in SUBSET Categories
  BY DEF Parents, TreeOK, ParentsExist, FindActiveById
<1>3. /\ base \in SUBSET Categories /\ F \in [SUBSET Categories -> SUBSET Categories]
      /\ \A X \in SUBSET Categories : F[X] = X \cup Parents(X) /\ X \subseteq F[X]
  BY <1>2
<1>4. IsFiniteSet(Categories)
  BY CategoriesAssumption
<1> HIDE DEF F, base
<1>5. PICK g \in [SUBSET Categories -> SUBSET Categories] : Iterates(g, F, base, SUBSET Categories)
  BY <1>3, <1>4, IterationExists
<1>6. LeastFixed(g[Categories], F, base, Categories)
  <2>1. base \in SUBSET Categories /\ F \in [SUBSET Categories -> SUBSET Categories]
    BY <1>3
  <2>2. Adds(F, Categories)
    BY <1>3 DEF Adds
  <2>3. g \in [SUBSET Categories -> SUBSET Categories] /\ Iterates(g, F, base, SUBSET Categories)
    BY <1>5
  <2> QED
    BY <2>1, <2>2, <2>3, <1>4, IterationEnds
<1>7. \A s \in SUBSET Categories : s # {} => g[s] = g[s \ {Picked(s)}] \cup Parents(g[s \ {Picked(s)}])
  <2> SUFFICES ASSUME NEW s \in SUBSET Categories, s # {}
               PROVE  g[s] = g[s \ {Picked(s)}] \cup Parents(g[s \ {Picked(s)}])
    OBVIOUS
  <2>1. g[s] = F[g[s \ {Picked(s)}]] /\ g[s \ {Picked(s)}] \in SUBSET Categories
    BY <1>5 DEF Iterates
  <2> QED
    BY <1>3, <2>1
<1>8. g[{}] = base
  BY <1>5 DEF Iterates
<1>9. IsClimb(g)
  BY <1>5, <1>7, <1>8
<1>10. PICK h : IsClimb(h) /\ Above(c) = h[Categories]
  BY <1>1, <1>9
<1>11. h[Categories] = g[Categories]
  <2>1. h[{}] = g[{}]
    BY <1>8, <1>10
  <2>2. \A s \in SUBSET Categories : s # {} => h[s] = h[s \ {Picked(s)}] \cup Parents(h[s \ {Picked(s)}])
    BY <1>10
  <2> HIDE DEF IsClimb
  <2>3. \A s \in SUBSET Categories : s # {} /\ h[s \ {Picked(s)}] = g[s \ {Picked(s)}] => h[s] = g[s]
    <3> SUFFICES ASSUME NEW s \in SUBSET Categories, s # {}, h[s \ {Picked(s)}] = g[s \ {Picked(s)}]
                 PROVE  h[s] = g[s]
      OBVIOUS
    <3> QED
      BY <1>7, <2>2
  <2> QED
    BY <1>4, <2>1, <2>3, IterationIsUnique
<1>12. PICK T \in SUBSET Categories : T = g[Categories]
  BY <1>5
<1>13. Parents(T) \subseteq T
  BY <1>3, <1>6, <1>12 DEF LeastFixed
<1>14. ASSUME NEW U \in SUBSET Categories, base \subseteq U, Parents(U) \subseteq U
       PROVE  T \subseteq U
  <2>1. \A X \in SUBSET U : Parents(X) \subseteq Parents(U) /\ X \in SUBSET Categories
    BY DEF Parents
  <2>2. \A X \in SUBSET U : F[X] \subseteq U
    BY <1>3, <1>14, <2>1
  <2> QED
    BY <1>6, <1>12, <1>14, <2>2 DEF LeastFixed
<1>15. Above(c) = T
  BY <1>10, <1>11, <1>12
<1>16. base \subseteq T
  BY <1>6, <1>12 DEF LeastFixed
<1>17. \A U \in SUBSET Categories : base \subseteq U /\ Parents(U) \subseteq U => T \subseteq U
  BY <1>14
<1> QED
  BY <1>13, <1>15, <1>16, <1>17 DEF AboveIsLeast, base

\* The parent of a category is above it, and so is what is above its parent.
LEMMA AboveTheParent ==
  ASSUME TreeOK, NEW c \in Categories, NEW p, p = category[c].parent, p # None
  PROVE  p \in FindActiveById /\ p \in Categories /\ p \in Above(c) /\ Above(p) \subseteq Above(c)
<1>1. p \in FindActiveById /\ p \in Categories
  BY DEF TreeOK, ParentsExist, FindActiveById
<1>2. AboveIsLeast(c) /\ AboveIsLeast(p)
  BY <1>1, AboveReachesAll
<1>3. p \in Above(c)
  BY <1>2 DEF AboveIsLeast, Parents
<1>4. Parents({p}) \subseteq Above(c)
  BY <1>2, <1>3 DEF AboveIsLeast, Parents
<1> QED
  BY <1>1, <1>2, <1>3, <1>4 DEF AboveIsLeast

\* A category that is not in the hierarchy is below a cycle, or on it: whoever goes up from it
\* never comes to a root, and there are finitely many categories to come to.
Rootless == \A c \in FindActiveById \ MakeTree : \E e \in Above(c) : OnCycle(e)

\* Above whoever has no root, take the categories with the fewest above them: they are above themselves.
LEMMA RootlessAreBelowCycles == TreeOK => Rootless
<1> SUFFICES ASSUME TreeOK, NEW c \in FindActiveById \ MakeTree, \A e \in Above(c) : ~OnCycle(e)
             PROVE  FALSE
  BY DEF Rootless
<1> DEFINE U == FindActiveById \ MakeTree
<1>1. TreeIsLeast
  BY MakeTreeReachesAll
<1>2. U \in SUBSET Categories /\ c \in Categories
  BY DEF FindActiveById
<1>3. \A z \in U : category[z].parent # None /\ category[z].parent \in U
  <2> SUFFICES ASSUME NEW z \in U
               PROVE  category[z].parent # None /\ category[z].parent \in U
    OBVIOUS
  <2>1. category[z].parent # None
    BY <1>1 DEF TreeIsLeast, Children
  <2>2. category[z].parent \in FindActiveById
    BY <2>1, <1>2 DEF TreeOK, ParentsExist
  <2>3. category[z].parent \notin MakeTree
    BY <1>1 DEF TreeIsLeast, Children
  <2> QED
    BY <2>1, <2>2, <2>3
<1>4. Parents({c}) \subseteq U /\ Parents(U) \subseteq U
  BY <1>3 DEF Parents
<1>5. AboveIsLeast(c)
  BY <1>2, AboveReachesAll
<1>6. Above(c) \subseteq U
  BY <1>2, <1>4, <1>5 DEF AboveIsLeast
<1> HIDE DEF U
<1> DEFINE Fam == {Above(e) : e \in Above(c)}
<1>7. \A e \in Categories : Above(e) \in SUBSET Categories
  BY AboveReachesAll DEF AboveIsLeast
<1>8. Fam \subseteq SUBSET Categories
  BY <1>2, <1>6, <1>7
<1>9. Fam # {}
  <2>1. category[c].parent # None
    BY <1>3 DEF U
  <2>2. category[c].parent \in Above(c)
    BY <1>2, <2>1, AboveTheParent
  <2> QED
    BY <2>2
<1>10. PICK K \in Fam : \A L \in Fam : L \subseteq K => L = K
  <2>1. IsFiniteSet(Categories)
    BY CategoriesAssumption
  <2> HIDE DEF Fam
  <2> QED
    BY <1>8, <1>9, <2>1, SmallestSet
<1>11. PICK e \in Above(c) : K = Above(e)
  OBVIOUS
<1>12. PICK p : p = category[e].parent
  OBVIOUS
<1>13. e \in Categories /\ p # None
  BY <1>2, <1>3, <1>6, <1>12
<1>14. p \in Above(e) /\ Above(p) \subseteq Above(e)
  BY <1>12, <1>13, AboveTheParent
<1>15. p \in Above(c)
  <2>1. p \in Parents(Above(c))
    BY <1>12, <1>13 DEF Parents
  <2> QED
    BY <1>5, <2>1 DEF AboveIsLeast
<1>16. p \notin Above(p)
  BY <1>15 DEF OnCycle
<1> QED
  BY <1>10, <1>11, <1>14, <1>15, <1>16

\* Only an edit writes categories.
LEMMA CategoryStays ==
  ASSUME [Next]_vars
  PROVE  category' = category \/ \E c \in Categories : EditCategory(c)
<1>1. ASSUME NEW s \in Sessions, Request(s)
      PROVE  category' = category
  BY <1>1, ZenonT(40) DEF Request, Create, Update, Read
<1>2. ASSUME NEW s \in Sessions, Continue(s)
      PROVE  category' = category
  BY <1>2 DEF Continue, UploadedForCreate, InsertProduct, Validate, GetMaxImagePosition, Write, SoftDelete, AddImage,
              ListImageIds, UpdateImagePosition, CommitPositions, AbortDeadlock
<1>3. ASSUME NEW s \in Sessions, Throw(s)
      PROVE  category' = category
  BY <1>3 DEF Throw
<1>4. ASSUME NEW c \in Categories, Edit(c)
      PROVE  EditCategory(c)
  BY <1>4 DEF Edit
<1>5. UNCHANGED vars => category' = category
  BY DEF vars
<1> QED
  BY <1>1, <1>2, <1>3, <1>4, <1>5, Zenon DEF Next

\* The foreign key holds, as nothing removes a category.
LEMMA TreeStep ==
  ASSUME TreeOK, NEW c \in Categories, EditCategory(c)
  PROVE  TreeOK' /\ FindActiveById \subseteq FindActiveById'
<1>1. PICK row \in CategoryRows : /\ category' = [category EXCEPT ![c] = row]
                                  /\ row.parent \in FindActiveById \cup {None}
  <2>1. CASE CreateCategory(c) \/ UpdateCategory(c)
    <3>1. PICK parent \in FindActiveById \cup {None}, schema \in Schemas :
            category' = [category EXCEPT ![c] = [parent |-> parent, schema |-> schema]]
      BY <2>1 DEF CreateCategory, UpdateCategory
    <3>2. PICK row : row = [parent |-> parent, schema |-> schema]
      OBVIOUS
    <3>3. row \in CategoryRows /\ row.parent = parent
      BY <3>2 DEF CategoryRows, FindActiveById
    <3> QED
      BY <3>1, <3>2, <3>3
  <2>2. CASE ReplaceSpecSchema(c)
    <3>1. PICK schema \in Schemas : CategoryExists(c) /\ category' = [category EXCEPT ![c].schema = schema]
      BY <2>2 DEF ReplaceSpecSchema
    <3>2. PICK old \in CategoryRows : old = category[c]
      BY <3>1 DEF TreeOK, CategoryExists
    <3>3. PICK row : row = [old EXCEPT !.schema = schema]
      OBVIOUS
    <3>4. row \in CategoryRows /\ row.parent = old.parent
      BY <3>3 DEF CategoryRows
    <3>5. category' = [category EXCEPT ![c] = row]
      BY <3>1, <3>2, <3>3
    <3>6. old.parent \in FindActiveById \cup {None}
      BY <3>2 DEF TreeOK, ParentsExist
    <3> QED
      BY <3>4, <3>5, <3>6
  <2> QED
    BY <2>1, <2>2 DEF EditCategory
<1>2. row # NoCategory
  BY CategoriesAssumption DEF CategoryRows, NoCategory
<1>3. category'[c] = row /\ \A d \in Categories \ {c} : category'[d] = category[d]
  BY <1>1 DEF TreeOK
<1>4. FindActiveById \subseteq FindActiveById'
  BY <1>2, <1>3 DEF FindActiveById, CategoryExists
<1>5. category' \in [Categories -> CategoryRows \cup {NoCategory}]
  BY <1>1 DEF TreeOK
<1>6. ASSUME NEW d \in Categories
      PROVE  category'[d].parent \in FindActiveById' \cup {None}
  <2>1. CASE d = c
    BY <1>1, <1>3, <1>4, <2>1
  <2>2. CASE d # c
    BY <1>3, <1>4, <2>2 DEF TreeOK, ParentsExist
  <2> QED
    BY <2>1, <2>2
<1> QED
  BY <1>4, <1>5, <1>6 DEF TreeOK, ParentsExist

\* The parents of categories exist in every state.
LEMMA TreeInvariance == Spec => []TreeOK
<1>1. Init => TreeOK
  BY DEF Init, InitCategories, TreeOK, ParentsExist, NoCategory
<1>2. TreeOK /\ [Next]_vars => TreeOK'
  <2> SUFFICES ASSUME TreeOK, [Next]_vars
               PROVE  TreeOK'
    OBVIOUS
  <2>1. category' = category \/ \E c \in Categories : EditCategory(c)
    BY CategoryStays
  <2>2. CASE category' = category
    BY <2>2 DEF TreeOK, ParentsExist, FindActiveById, CategoryExists
  <2> QED
    BY <2>1, <2>2, TreeStep
<1> QED
  BY <1>1, <1>2, PTL DEF Spec

\* What leaves the hierarchy is below a category that was given another parent and has no root.
HierarchyStep ==
    \A c \in MakeTree \ MakeTree' :
        \E d \in {c} \cup Above(c) :
            /\ category'[d].parent # category[d].parent
            /\ (\E e \in Above(d) : OnCycle(e))'

\* If a shown category is lost then it, or one above it, was moved: were none of them, they would all
\* still be shown, as the categories of which this is true have the roots and are closed under children.
LEMMA LossesAreCycles ==
  ASSUME TreeOK, TreeOK', Rootless', TreeIsLeast', FindActiveById \subseteq FindActiveById'
  PROVE  HierarchyStep
<1>1. PICK T, S : T = MakeTree /\ S = MakeTree'
  OBVIOUS
<1> DEFINE Moved(d) == d \in FindActiveById /\ d \notin S /\ category'[d].parent # category[d].parent
           U == {z \in FindActiveById : z \in S \/ \E d \in {z} \cup Above(z) : Moved(d)}
<1>2. U \in SUBSET Categories
  BY DEF FindActiveById
<1>3. \A z \in FindActiveById : category'[z].parent = None \/ category'[z].parent \in S => z \in S
  <2> SUFFICES ASSUME NEW z \in FindActiveById, category'[z].parent = None \/ category'[z].parent \in S
               PROVE  z \in S
    OBVIOUS
  <2>1. z \in FindActiveById'
    OBVIOUS
  <2> QED
    BY <1>1, <2>1 DEF TreeIsLeast, Children
<1>4. Children({None}) \subseteq U
  <2> SUFFICES ASSUME NEW z \in FindActiveById, category[z].parent = None
               PROVE  z \in S \/ Moved(z)
    BY DEF Children
  <2> QED
    BY <1>3
<1>5. Children(U) \subseteq U
  <2> SUFFICES ASSUME NEW z \in FindActiveById, NEW u \in U, category[z].parent = u, z \notin S, ~Moved(z)
               PROVE  \E d \in Above(z) : Moved(d)
    BY DEF Children
  <2>1. category'[z].parent = u
    OBVIOUS
  <2>2. PICK d \in {u} \cup Above(u) : Moved(d)
    BY <1>3, <2>1
  <2>3. z \in Categories /\ u # None
    BY CategoriesAssumption DEF FindActiveById
  <2>4. u \in Above(z) /\ Above(u) \subseteq Above(z)
    BY <2>3, AboveTheParent
  <2> QED
    BY <2>2, <2>4
<1>6. T \subseteq U
  BY <1>1, <1>2, <1>4, <1>5, MakeTreeReachesAll DEF TreeIsLeast
<1> SUFFICES ASSUME NEW c \in T, c \notin S
             PROVE  \E d \in {c} \cup Above(c) : /\ category'[d].parent # category[d].parent
                                                 /\ (\E e \in Above(d) : OnCycle(e))'
  BY <1>1 DEF HierarchyStep
<1>7. PICK d \in {c} \cup Above(c) : Moved(d)
  BY <1>6
<1>8. d \in FindActiveById' /\ d \notin MakeTree'
  BY <1>1, <1>7
<1>9. (\E e \in Above(d) : OnCycle(e))'
  BY <1>8 DEF Rootless
<1> QED
  BY <1>7, <1>9

\* A category that makeTree shows goes on to be shown after any change of the categories, unless the
\* change puts it, or one above it, at or below a cycle of parents: no change of one part of the
\* tree, however deep it is, loses another.
THEOREM HierarchyIsKept == Spec => HierarchyLosesOnlyCycles
<1> DEFINE Action == category' # category => HierarchyStep
<1>1. TreeOK /\ TreeOK' /\ Rootless' /\ TreeIsLeast' /\ [Next]_vars => [Action]_category
  <2> SUFFICES ASSUME TreeOK, TreeOK', Rootless', TreeIsLeast', [Next]_vars, category' # category
               PROVE  HierarchyStep
    OBVIOUS
  <2>1. PICK c \in Categories : EditCategory(c)
    BY CategoryStays
  <2>2. FindActiveById \subseteq FindActiveById'
    BY <2>1, TreeStep
  <2> QED
    BY <2>2, LossesAreCycles
<1> QED
  BY <1>1, TreeInvariance, RootlessAreBelowCycles, MakeTreeReachesAll, PTL
     DEF Spec, HierarchyLosesOnlyCycles, HierarchyStep
=============================================================================
