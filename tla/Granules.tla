------------------------------ MODULE Granules ------------------------------
(***************************************************************************)
(* How a part's rows are cut into granules and how `NativeStorage` walks   *)
(* from one granule to the next (src/src/storage/tables/native.rs, and     *)
(* generate_indexes in src/src/storage/table_part.rs).  A part's rows are a*)
(* sequence; the values of the rows are irrelevant here.                   *)
(***************************************************************************)
EXTENDS Integers, Sequences

CONSTANT Granularity     \* TableSettings::index_granularity (8192 unless set)

ASSUME GranularityAssumption == Granularity \in Nat \ {0}

(* Number of marks of a part: one for every started granule. *)
MarkCount(rows) == (Len(rows) + Granularity - 1) \div Granularity

(* Mutant: a granule ends with the first row of the next one. *)
Granule_Overlaps(rows, k) ==
    LET last == k * Granularity + 1
    IN  SubSeq(rows, last - Granularity,
               IF last <= Len(rows) THEN last ELSE Len(rows))

(* The rows of the k-th granule, counted from 1; the last may be short. *)
Granule(rows, k) ==
    LET last == k * Granularity
    IN  SubSeq(rows, last - Granularity + 1,
               IF last <= Len(rows) THEN last ELSE Len(rows))

Members(s) == {s[i] : i \in DOMAIN s}

(* Position of a part in the table's list `infos`; 0 when it is not there. *)
Position(infos, p) ==
    IF p \in Members(infos) THEN CHOOSE i \in DOMAIN infos : infos[i] = p ELSE 0

(* The part listed after p, in a set: empty when p is last or not listed. *)
After(infos, p) ==
    LET i == Position(infos, p)
    IN  IF i # 0 /\ i < Len(infos) THEN {infos[i + 1]} ELSE {}

(***************************************************************************)
(* What load_part_cols returns for part p.  The storage it opens already   *)
(* stands on granule 1 (gen_next_chunk), but none of its bytes are loaded; *)
(* every load_next_chunk first steps FORWARD.  The MarkCount calls         *)
(* therefore return granules 2, 3, ... of p and then, for the last call,   *)
(* granule 1 of the part listed after p.  When no part follows, the last   *)
(* call returns None, which load_part_cols ignores: it reads the bytes     *)
(* that are still loaded once more, and with one granule there are none,   *)
(* so that the access panics.  TableScan checks this closed form           *)
(* against the calls made one by one.                                      *)
(***************************************************************************)
MergeReadPanics(infos, rowsOf, p) ==
    After(infos, p) = {} /\ MarkCount(rowsOf[p]) = 1

MergeRead(infos, rowsOf, p) ==
    SubSeq(rowsOf[p], Granularity + 1, Len(rowsOf[p])) \o
    IF After(infos, p) = {}
    THEN Granule(rowsOf[p], MarkCount(rowsOf[p]))
    ELSE Granule(rowsOf[CHOOSE q \in After(infos, p) : TRUE], 1)
=============================================================================
