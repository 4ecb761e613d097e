-------------------------- MODULE MCSnapshotCache ---------------------------
(* Small instances of SnapshotCache.                                       *)
EXTENDS SnapshotCache, TLC

CONSTANTS r1, r2

RequestSymmetry == Permutations(Request)
=============================================================================
