---------------------------- MODULE MCAuthGuard ----------------------------
(***************************************************************************)
(* Small instances of AuthGuard for TLC.                                   *)
(***************************************************************************)
EXTENDS AuthGuard, TLC

MCLimit == [k \in Keys |-> IF k = <<"login", Everyone>> THEN 2 ELSE 1]
MCWindow == [k \in Keys |-> IF k[2] \in Idents THEN 1 ELSE 2]

Symmetry == Permutations(Logins) \union Permutations(Idents) \union Permutations(Sources)
=============================================================================
