---------------------------------- MODULE MCFiles ----------------------------------
(***************************************************************************)
(* Instances of Files for TLC.  A store has all that a user has, and the   *)
(* update that brings no picture besides.                                  *)
(***************************************************************************)
EXTENDS Files, TLC

CONSTANTS s1, s2, store1

MCInitPicture == [o \in Owners |-> 1]

Symmetry == Permutations(Sessions)
=============================================================================
