---------------------------------- MODULE Products ----------------------------------
(***************************************************************************)
(* Products, their specs and their images: ProductsService on              *)
(* ProductsRepository, with the categories.  What an image shows, and      *)
(* whether its file is ready, is in Files.                                 *)
(*                                                                         *)
(* A read, and a statement outside a transaction, is a step.  The          *)
(* transactions of create and update insert images nobody sees before      *)
(* COMMIT and are one step with it.  That of reorderImages updates, and    *)
(* locks, one image after the other, in the order the client gave.         *)
(***************************************************************************)
EXTENDS Categories

CONSTANTS
    Sessions,    \* requests that can be in progress at a time
    Fields, Words,
    \* Bounds of the model
    MaxProducts, MaxImages, MaxPosition, MaxPictures

\* The values of a spec: a string, the empty one too, a number, or undefined and null, which are alike.
Number == "number"
Empty == ""
Values == Words \cup {Number, Empty, None}
Definitions == [type : {"string", "number", "enum"}, required : BOOLEAN, options : SUBSET Words]
Specs == [Fields -> Values]

ProductIds == 1..MaxProducts
ImageIds == 1..MaxImages
Positions == 0..MaxPosition

ASSUME SchemasAssumption == Schemas \subseteq [Fields -> Definitions \cup {None}]
ASSUME ValuesAssumption == Words \cap {Number, Empty, None} = {} /\ None \notin Definitions \cup {Number, Empty}
\* The positions suffice to number all the images.
ASSUME BoundsAssumption == /\ MaxProducts \in Nat /\ MaxImages \in Nat /\ MaxPosition \in Nat /\ MaxPictures \in Nat
                           /\ MaxImages <= MaxPosition + 1

VARIABLES
    product,   \* products
    image,     \* product_images
    lock,      \* the transaction that has updated an image and is not over
    proc,      \* the local state of each request
    suspect    \* history: the products of whose positions nothing is promised (see PositionsDistinct)

vars == <<category, product, image, lock, proc, suspect>>

ProductRows == [category : Categories, specs : Specs, deleted : BOOLEAN]
NoProduct == [category |-> None]
ImageRows == [product : ProductIds, position : Positions]
NoImage == [product |-> 0]

Ops == {"idle", "create", "update", "delete", "addImage", "reorder"}
Steps == {"idle", "validate", "pictures", "write", "list", "positions"}
Locals == [op : Ops, at : Steps, product : ProductIds \cup {0},
           category : Categories \cup {None},    \* what the row will be given, or None to leave it
           specs : Specs \cup {None},
           checked : Categories \cup {None},     \* whose schema the specs are checked against
           pictures : 0..MaxPictures, start : 0..(MaxPosition + 1),
           ids : UNION {[1..n -> ImageIds] : n \in 0..MaxImages}, next : 1..(MaxImages + 1),
           stale : SUBSET {"specs", "positions"}]  \* history: what it has read and others have changed since
Idle == [op |-> "idle", at |-> "idle", product |-> 0, category |-> None, specs |-> None, checked |-> None,
         pictures |-> 0, start |-> 0, ids |-> <<>>, next |-> 1, stale |-> {}]

Init ==
    /\ InitCategories
    /\ product = [p \in ProductIds |-> NoProduct]
    /\ image = [i \in ImageIds |-> NoImage]
    /\ lock = [i \in ImageIds |-> None]
    /\ proc = [s \in Sessions |-> Idle]
    /\ suspect = {}

-----------------------------------------------------------------------------
(* validateSpecs *)

ValidField(definition, v) ==
    /\ definition.required => v \notin {None, Empty}
    /\ v # None =>
        CASE definition.type = "string" -> v \in Words \cup {Empty}
          [] definition.type = "number" -> v = Number
          [] definition.type = "enum"   -> v \in definition.options
Validates(sch, specs) == \A f \in Fields : sch[f] # None => ValidField(sch[f], specs[f])

-----------------------------------------------------------------------------
(* Rows and requests *)

Exists(p) == product[p] # NoProduct
IsActive(p) == Exists(p) /\ ~product[p].deleted
Images(p) == {i \in ImageIds : image[i].product = p}
FreeImages == {i \in ImageIds : image[i] = NoImage}

MaxOf(S) == CHOOSE m \in S : \A n \in S : n <= m
LastPosition(p) == MaxOf({image[i].position : i \in Images(p)} \cup {-1})   \* mutant: the last one, taken
StartPosition(p) == MaxOf({image[i].position : i \in Images(p)} \cup {-1}) + 1

\* The first n free ids, each with its index.
FirstFree(n) == {i \in FreeImages : Cardinality({j \in FreeImages : j < i}) < n}
IndexOf(i) == Cardinality({j \in FreeImages : j < i})
WithPictures(p, n, start) ==
    [i \in ImageIds |-> IF i \in FirstFree(n) THEN [product |-> p, position |-> start + IndexOf(i)] ELSE image[i]]
RoomFor(n, start) == n <= Cardinality(FreeImages) /\ start + n <= MaxPosition + 1   \* the bound of the model

Start(s, l) == proc[s] = Idle /\ proc' = [proc EXCEPT ![s] = l]
Become(s, l) == proc' = [proc EXCEPT ![s] = l]
At(s, op, at) == proc[s].op = op /\ proc[s].at = at

\* The step ends the request of s, and what the others have read of the product is stale.
FinishAndOutdate(s, p, what) == proc' = [t \in Sessions |->
    CASE t = s -> Idle
      [] t # s /\ proc[t].product = p -> [proc[t] EXCEPT !.stale = @ \cup what]
      [] OTHER -> proc[t]]

-----------------------------------------------------------------------------
(* create *)

AfterChecks(n) == IF n = 0 THEN "write" ELSE "pictures"

\* findActiveByIdAssert and validateSpecs.
Create(s) == \E p \in ProductIds, c \in FindActiveById, specs \in Specs, n \in 0..MaxPictures :
    /\ p = Cardinality({q \in ProductIds : Exists(q)}) + 1
    /\ \A t \in Sessions : proc[t].op # "create"           \* the bound of the model
    /\ Validates(SchemaOf(c), specs)
    /\ Start(s, [Idle EXCEPT !.op = "create", !.at = AfterChecks(n), !.product = p, !.category = c,
                             !.specs = specs, !.checked = c, !.pictures = n])
    /\ UNCHANGED <<category, product, image, lock, suspect>>

\* The uploads are over; only update looks for the first free position.
UploadedForCreate(s) ==
    /\ At(s, "create", "pictures")
    /\ Become(s, [proc[s] EXCEPT !.at = "write"])
    /\ UNCHANGED <<category, product, image, lock, suspect>>

\* The product and its images; which of them is the default image is left out.
InsertProduct(s) == LET l == proc[s] IN
    /\ At(s, "create", "write")
    /\ RoomFor(l.pictures, 0)
    /\ product' = [product EXCEPT ![l.product] = [category |-> l.category, specs |-> l.specs, deleted |-> FALSE]]
    /\ image' = WithPictures(l.product, l.pictures, 0)
    /\ FinishAndOutdate(s, l.product, {})
    /\ UNCHANGED <<category, lock, suspect>>

-----------------------------------------------------------------------------
(* update *)

CurrentOnly(current, c) == current                         \* mutant: the schema of the category it leaves
CategoryToCheck(current, c) == IF c = None THEN current ELSE c

Update(s, p) == \E c \in FindActiveById \cup {None}, specs \in Specs \cup {None}, n \in 0..MaxPictures :
    /\ IsActive(p)
    /\ Start(s, [Idle EXCEPT !.op = "update", !.product = p, !.category = c, !.specs = specs, !.pictures = n,
                             !.at = IF specs # None THEN "validate" ELSE AfterChecks(n),
                             !.checked = CategoryToCheck(product[p].category, c)])
    /\ UNCHANGED <<category, product, image, lock, suspect>>

Validate(s) == LET l == proc[s] IN
    /\ At(s, "update", "validate")
    /\ IF Validates(SchemaOf(l.checked), l.specs)
         THEN Become(s, [l EXCEPT !.at = AfterChecks(l.pictures)])
         ELSE Become(s, Idle)
    /\ UNCHANGED <<category, product, image, lock, suspect>>

\* After the uploads: getMaxImagePosition, outside the transaction.
GetMaxImagePosition(s) == LET l == proc[s] IN
    /\ At(s, "update", "pictures")
    /\ Become(s, [l EXCEPT !.at = "write", !.start = StartPosition(l.product), !.stale = @ \ {"positions"}])
    /\ UNCHANGED <<category, product, image, lock, suspect>>

NamedOrNull(row, l) ==                                     \* mutant: null where the request names no category
    [row EXCEPT !.category = l.category, !.specs = IF l.specs = None THEN @ ELSE l.specs]
\* The UPDATE is by id, whether the product is deleted or not, and leaves what the request does not name.
Updated(row, l) ==
    [row EXCEPT !.category = IF l.category = None THEN @ ELSE l.category,
                !.specs = IF l.specs = None THEN @ ELSE l.specs]
Write(s) == LET l == proc[s] IN
    /\ At(s, "update", "write")
    /\ RoomFor(l.pictures, l.start)
    /\ product' = [product EXCEPT ![l.product] = Updated(@, l)]
    /\ image' = WithPictures(l.product, l.pictures, l.start)
    /\ suspect' = IF l.pictures > 0 /\ "positions" \in l.stale THEN suspect \cup {l.product} ELSE suspect
    /\ FinishAndOutdate(s, l.product, (IF l.pictures > 0 THEN {"positions"} ELSE {})
                                      \cup IF l.category # None THEN {"specs"} ELSE {})
    /\ UNCHANGED <<category, lock>>

-----------------------------------------------------------------------------
(* softDelete and addImage *)

Read(s, p, op) ==
    /\ IsActive(p)
    /\ Start(s, [Idle EXCEPT !.op = op, !.at = IF op = "reorder" THEN "list" ELSE "write", !.product = p])
    /\ UNCHANGED <<category, product, image, lock, suspect>>

SoftDelete(s) ==
    /\ At(s, "delete", "write")
    /\ product' = [product EXCEPT ![proc[s].product].deleted = TRUE]
    /\ Become(s, Idle)
    /\ UNCHANGED <<category, image, lock, suspect>>

\* The position is the client's, or 0; assertFileReady has passed.
AddImage(s) == LET p == proc[s].product IN
    /\ At(s, "addImage", "write")
    /\ \E position \in Positions :
          /\ RoomFor(1, position)
          /\ image' = WithPictures(p, 1, position)
    /\ suspect' = suspect \cup {p}
    /\ FinishAndOutdate(s, p, {"positions"})
    /\ UNCHANGED <<category, product, lock>>

-----------------------------------------------------------------------------
(* reorderImages *)

\* As many ids as there are images, each of the product: one may come twice.
Complete(ids, p) == \A k \in DOMAIN ids : ids[k] \in Images(p)
ListImageIds(s) == LET p == proc[s].product n == Cardinality(Images(p)) IN
    /\ At(s, "reorder", "list")
    /\ IF n = 0 THEN Become(s, Idle)
       ELSE \E ids \in [1..n -> ImageIds] :
              /\ Complete(ids, p)
              /\ Become(s, [proc[s] EXCEPT !.at = "positions", !.ids = ids, !.stale = @ \ {"positions"}])
    /\ UNCHANGED <<category, product, image, lock, suspect>>

Len(l) == Cardinality(DOMAIN l.ids)
Updating(s) == proc[s].at = "positions" /\ proc[s].next <= Len(proc[s])
NextImage(s) == proc[s].ids[proc[s].next]
UpdateImagePosition(s) ==
    /\ Updating(s)
    /\ lock[NextImage(s)] \in {None, s}
    /\ lock' = [lock EXCEPT ![NextImage(s)] = s]
    /\ Become(s, [proc[s] EXCEPT !.next = @ + 1])
    /\ UNCHANGED <<category, product, image, suspect>>

Release(s) == lock' = [i \in ImageIds |-> IF lock[i] = s THEN None ELSE lock[i]]
Repeats(ids) == \E j, k \in DOMAIN ids : j # k /\ ids[j] = ids[k]
\* The index of its last occurrence.
PositionOf(i, l) == MaxOf({k \in DOMAIN l.ids : l.ids[k] = i}) - 1
CommitPositions(s) == LET l == proc[s] IN
    /\ proc[s].at = "positions" /\ ~Updating(s)
    /\ image' = [i \in ImageIds |-> IF \E k \in DOMAIN l.ids : l.ids[k] = i
                                    THEN [image[i] EXCEPT !.position = PositionOf(i, l)] ELSE image[i]]
    /\ suspect' = IF Repeats(l.ids) \/ "positions" \in l.stale
                  THEN suspect \cup {l.product} ELSE suspect \ {l.product}
    /\ Release(s)
    /\ FinishAndOutdate(s, l.product, {"positions"})
    /\ UNCHANGED <<category, product>>

\* PostgreSQL ends a transaction of a set that wait for each other.
Waits(s) == Updating(s) /\ lock[NextImage(s)] \notin {None, s}
Deadlocked(s) == \E S \in SUBSET Sessions : s \in S /\ \A t \in S : Waits(t) /\ lock[NextImage(t)] \in S
AbortDeadlock(s) ==
    /\ Deadlocked(s)
    /\ Release(s)
    /\ Become(s, Idle)
    /\ UNCHANGED <<category, product, image, suspect>>

-----------------------------------------------------------------------------

\* The schema that specs were checked against is stale once it is replaced.
Edit(c) ==
    /\ EditCategory(c)
    /\ proc' = [s \in Sessions |->
                   IF /\ proc[s].checked = c /\ proc[s].specs # None /\ proc[s].at # "validate"
                      /\ SchemaOf(c)' # SchemaOf(c)
                   THEN [proc[s] EXCEPT !.stale = @ \cup {"specs"}] ELSE proc[s]]
    /\ UNCHANGED <<product, image, lock, suspect>>

\* A request throws: an upload, a statement or the process fails.
Throw(s) ==
    /\ proc[s] # Idle
    /\ Release(s)
    /\ Become(s, Idle)
    /\ UNCHANGED <<category, product, image, suspect>>

Request(s) ==
    \/ Create(s)
    \/ \E p \in ProductIds : Update(s, p) \/ \E op \in {"delete", "addImage", "reorder"} : Read(s, p, op)
Continue(s) ==
    \/ UploadedForCreate(s) \/ InsertProduct(s)
    \/ Validate(s) \/ GetMaxImagePosition(s) \/ Write(s)
    \/ SoftDelete(s) \/ AddImage(s)
    \/ ListImageIds(s) \/ UpdateImagePosition(s) \/ CommitPositions(s) \/ AbortDeadlock(s)

Next ==
    \/ \E s \in Sessions : Request(s) \/ Continue(s) \/ Throw(s)
    \/ \E c \in Categories : Edit(c)
Spec == Init /\ [][Next]_vars

-----------------------------------------------------------------------------
(* Properties *)

TypeOK ==
    /\ category \in [Categories -> CategoryRows \cup {NoCategory}]
    /\ product \in [ProductIds -> ProductRows \cup {NoProduct}]
    /\ image \in [ImageIds -> ImageRows \cup {NoImage}]
    /\ lock \in [ImageIds -> Sessions \cup {None}]
    /\ DOMAIN proc = Sessions /\ \A s \in Sessions : proc[s].op \in Ops /\ proc[s].at \in Steps
    /\ suspect \subseteq ProductIds

\* The images of a product have positions of their own: those of create and update, also beside a
\* deletion or another request, and all of them after a reorder of each image once.  Nothing is
\* promised from the moment addImage puts an image at a place of the client's choice, a list names an
\* image twice, or an update or reorder works on images that have changed since it read them, up to
\* the next undisturbed reorder.
PositionsDistinct == \A p \in ProductIds \ suspect : \A i, j \in Images(p) :
    image[i].position = image[j].position => i = j

\* The fields that a schema requires are filled, and each has a value of its type.
Domain(definition) ==
    CASE definition.type = "string" -> Words \cup {Empty}
      [] definition.type = "number" -> {Number}
      [] definition.type = "enum"   -> definition.options
Conforms(sch, specs) == \A f \in {g \in Fields : sch[g] # None} :
    specs[f] \in IF sch[f].required THEN Domain(sch[f]) \ {Empty} ELSE Domain(sch[f]) \cup {None}
Fits(p) == Exists(p) => Conforms(SchemaOf(product[p].category), product[p].specs)

\* The specs of a product do not cease to fit the schema of its category, except where the schema is
\* replaced, an update names a category and no specs, or an update or create worked on a schema or a
\* category that was replaced after it was read.
SpecsStayFit == [][\A p \in ProductIds :
    Fits(p) /\ ~Fits(p)' =>
        \/ \E c \in Categories : SchemaOf(c)' # SchemaOf(c)
        \/ \E s \in Sessions : /\ proc[s].at = "write" /\ proc[s].product = p /\ proc'[s] = Idle
                               /\ proc[s].specs = None \/ "specs" \in proc[s].stale]_vars
=============================================================================
