------------------------ MODULE MCPartStoreRefinement ------------------------
(* A small instance of PartStoreRefinement for TLC. *)
EXTENDS PartStoreRefinement

TwoGranulesEach == [n \in Part |-> 2 * Granularity]
(* Parts of one granule and of two. *)
MixedSizes == [n \in Part |-> IF n % 2 = 1 THEN Granularity + 1 ELSE Granularity]
(* The first two INSERTs fall into the same millisecond. *)
TiedStamps == [n \in Part |-> IF n <= 2 THEN 1 ELSE n]
(* Without the failure after which the merge thread waits for itself, and  *)
(* the one whose log line asks for manual repair.                          *)
ReleasedFaults == {"save", "rename", "remove", "read", "skip", "cleanup"}
(* Failures after which the merge thread waits for itself, and is blocked  *)
(* by a `.old` directory.                                                  *)
LiveFaults == {"publish", "remove"}
=============================================================================
