----------------------------- MODULE MCRefreshTokens -----------------------------
(***************************************************************************)
(* Instances of RefreshTokens for TLC.                                     *)
(***************************************************************************)
EXTENDS RefreshTokens, TLC

CONSTANTS s1, s2, u1, u2

\* Handlers are alike, and so are users.
Symmetry == Permutations(Sessions) \cup Permutations(Users)
=============================================================================
