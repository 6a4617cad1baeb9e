--------------------------------- MODULE MCProducts ---------------------------------
(***************************************************************************)
(* Instances of Products for TLC: one spec field, which a category leaves  *)
(* free or requires to be one of a list of words.                          *)
(***************************************************************************)
EXTENDS Products, TLC

CONSTANTS s1, s2, c1, c2, c3, f1, red

Free == [f \in Fields |-> None]
MCSchemas == {Free, [f \in Fields |-> [type |-> "enum", required |-> TRUE, options |-> {red}]]}

MCFree == {Free}

SessionSymmetry == Permutations(Sessions)
\* c3 is there for the tree only.
Symmetry == Permutations(Sessions) \cup Permutations({c1, c2})

\* Bound of the model: one thing varies at a time, the tree, the specs or the images.
Flat == \A c \in Categories : category[c].parent = None
AllFree == \A c \in FindActiveById : SchemaOf(c) = Free
NoProducts == \A s \in Sessions : proc[s] = Idle /\ \A p \in ProductIds : ~Exists(p)
OnlyTree == AllFree /\ NoProducts
OnlySpecs ==
    /\ Flat /\ ~CategoryExists(c3)
    /\ FreeImages = ImageIds
    /\ \A s \in Sessions : proc[s].op \notin {"addImage", "reorder"} /\ proc[s].pictures = 0
OnlyImages ==
    /\ Flat /\ AllFree /\ ~CategoryExists(c3) /\ Cardinality(FindActiveById) = 1
    /\ \A s \in Sessions :
          IF proc[s].op = "create" THEN proc[s].specs = Free ELSE proc[s].specs = None /\ proc[s].category = None
    /\ \A p \in ProductIds : Exists(p) => product[p].specs = Free
OneConcern == OnlyTree \/ OnlySpecs \/ OnlyImages
=============================================================================
