--------------------------- MODULE MCSnapshotStore ---------------------------
(***************************************************************************)
(* Three mutations: one in the backup, one in the snapshot, one under way. *)
(***************************************************************************)
EXTENDS SnapshotStore, TLC
CONSTANTS o1, o2, o3
MCOps == {o1, o2, o3}
Symmetry == Permutations(MCOps)
=============================================================================
