----------------------------- MODULE MCPartStore -----------------------------
(* Small instances of PartStore for TLC. *)
EXTENDS PartStoreInvariant, TLC

CONSTANTS c1, c2

ClientSymmetry == Permutations({c1, c2})

(* Parts of one granule, as small INSERTs make them. *)
OneGranuleEach == [n \in Part |-> Granularity]
(* Parts of two full granules: merging never meets the panic. *)
TwoGranulesEach == [n \in Part |-> 2 * Granularity]
(* Sizes that straddle a granule boundary. *)
MixedSizes == [n \in Part |-> IF n % 2 = 1 THEN Granularity + 1 ELSE Granularity]

DistinctStamps == [n \in Part |-> n]
(* The first two INSERTs fall into the same millisecond. *)
TiedStamps == [n \in Part |-> IF n <= 2 THEN 1 ELSE n]

AllFaults == FaultKinds
(* Without the two failures whose log line asks for manual repair. *)
RepairedFaults == FaultKinds \ {"undo", "skip"}
(* Without the failure after which the merge thread waits for itself. *)
ReleasedFaults == FaultKinds \ {"publish"}
=============================================================================
