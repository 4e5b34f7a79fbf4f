----------------------------- MODULE MCApproval -----------------------------
(***************************************************************************)
(* Small instances of Approval for TLC.                                    *)
(***************************************************************************)
EXTENDS Approval, TLC

CONSTANTS owner, tester

\* One owner on the bot, one tester on the web.
MCKindOf == (owner :> "telegram") @@ (tester :> "web")

Symmetry == Permutations(Ids) \union Permutations(Markets) \union Permutations(Values)
=============================================================================
