-------------------------------- MODULE Scans --------------------------------
(***************************************************************************)
(* What the scan of a storage, the engines and the answer of a SELECT have *)
(* in common: some rows of a sequence are kept, in their order.            *)
(***************************************************************************)
EXTENDS Integers, SequencesExt

Least(a, b) == IF a < b THEN a ELSE b

(* The rows that are in `keep`, as retain and dedup leave them.            *)
Filtered(rows, keep) ==
    FlattenSeq([i \in DOMAIN rows |-> IF rows[i] \in keep THEN <<rows[i]>> ELSE <<>>])
=============================================================================
