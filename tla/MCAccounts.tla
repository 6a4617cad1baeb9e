------------------------------- MODULE MCAccounts -------------------------------
(***************************************************************************)
(* Instances of Accounts for TLC.                                          *)
(***************************************************************************)
EXTENDS Accounts, TLC

CONSTANTS s1, s2, p1, p2, e1, e2, c1, c2

\* Handlers are alike, and so are phones, e-mail addresses and codes.
Symmetry == UNION {Permutations(Sessions), Permutations(Phones), Permutations(Emails), Permutations(Codes)}
=============================================================================
