--------------------------- MODULE MCRegistration ---------------------------
(***************************************************************************)
(* Small instances of Registration for TLC.                                *)
(***************************************************************************)
EXTENDS Registration, TLC

CONSTANTS s1, s2, b1, b2

\* Two SKUs with one payload each, or a single one.
MCSkuOfTwo == (b1 :> s1) @@ (b2 :> s2)
MCSkuOfOne == b1 :> s1

Symmetry == Permutations(Handlers) \union Permutations(Keys) \union Permutations(Products)
=============================================================================
