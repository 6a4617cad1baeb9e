---------------------------------- MODULE Categories ----------------------------------
(***************************************************************************)
(* The category tree and the spec schemas of categories:                   *)
(* CategoriesService on CategoriesRepository.                              *)
(*                                                                         *)
(* A handler reads the category, for its name and slug, which are left     *)
(* out, and writes it by id in one statement.  Nothing sets deleted_at of  *)
(* a category, and nothing reads is_active: every category that exists is  *)
(* active.                                                                 *)
(***************************************************************************)
EXTENDS Integers, FiniteSets, FiniteSetsExt

CONSTANTS
    Categories,
    Schemas,     \* spec schemas a category may have
    None

VARIABLE category   \* categories

CategoryRows == [parent : Categories \cup {None}, schema : Schemas]
NoCategory == [parent |-> None, schema |-> None]

\* The rows of a table are finite in number.
ASSUME CategoriesAssumption == None \notin Categories \cup Schemas /\ IsFiniteSet(Categories)

InitCategories == category = [c \in Categories |-> NoCategory]

CategoryExists(c) == category[c] # NoCategory
FindActiveById == {c \in Categories : CategoryExists(c)}
SchemaOf(c) == category[c].schema

-----------------------------------------------------------------------------

\* The foreign key refuses a parent that does not exist.
CreateCategory(c) == \E parent \in FindActiveById \cup {None}, schema \in Schemas :
    /\ ~CategoryExists(c)
    /\ category' = [category EXCEPT ![c] = [parent |-> parent, schema |-> schema]]

\* What the request does not name stays; any category may become the parent, itself too.
UpdateCategory(c) == \E parent \in FindActiveById \cup {None}, schema \in Schemas :
    /\ CategoryExists(c)
    /\ category' = [category EXCEPT ![c] = [parent |-> parent, schema |-> schema]]

ReplaceSpecSchema(c) == \E schema \in Schemas :
    /\ CategoryExists(c)
    /\ category' = [category EXCEPT ![c].schema = schema]

EditCategory(c) == CreateCategory(c) \/ UpdateCategory(c) \/ ReplaceSpecSchema(c)

-----------------------------------------------------------------------------
(* listHierarchy *)

Children(parents) == {c \in FindActiveById : category[c].parent \in parents}
OneLevel == Children({None} \cup Children({None}))         \* mutant: the roots and their children
\* makeTree goes down from the roots, level by level, until nothing is left.
MakeTree == FoldSet(LAMBDA n, level : level \cup Children(level), Children({None}), Categories)

\* The reference: who is above a category, by its links of parents.
Parents(S) == {category[c].parent : c \in S} \ {None}
Above(c) == FoldSet(LAMBDA n, S : S \cup Parents(S), Parents({c}), Categories)

\* A category leaves the hierarchy only by a change that moves it, or a category above it, below one
\* that is below itself: to the end of a chain of parents that has no root.
OnCycle(c) == c \in Above(c)
HierarchyLosesOnlyCycles == [][category' # category =>
    \A c \in MakeTree \ MakeTree' :
        \E d \in {c} \cup Above(c) :
            /\ category'[d].parent # category[d].parent
            /\ (\E e \in Above(d) : OnCycle(e))']_category
=============================================================================
