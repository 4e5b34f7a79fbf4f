----------------------------- MODULE MCAccounts -----------------------------
(***************************************************************************)
(* Two requests at a time, two accounts and one login more than a limit.   *)
(***************************************************************************)
EXTENDS Accounts, TLC

Symmetry == Permutations(Calls) \union Permutations(Users) \union Permutations(Tokens)
=============================================================================
