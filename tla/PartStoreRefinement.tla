------------------------- MODULE PartStoreRefinement -------------------------
(***************************************************************************)
(* PartStore implements TableService as long as the process runs: parts,   *)
(* their renames and their merging cannot be observed by clients.  A part  *)
(* counts for the INSERTs it stands for.                                   *)
(***************************************************************************)
EXTENDS PartStore

(* What a listed part stands for; during a merge it may be shelved. *)
StandsFor(n) == IF n \in Live THEN normal[n].covers ELSE old[n].covers

ListedBatches == UNION {StandsFor(n) : n \in Members(infos)}

(* What a running SELECT has read, and what it is still going to read. *)
ReadAndLeft(c) ==
    IF pc[c] # "scan" THEN {}
    ELSE LET left == {infos[i] : i \in {j \in DOMAIN infos :
                                            j > Position(infos, at[c])}}
         IN  UNION {StandsFor(n) : n \in seen[c] \cup left}

CallOf(c) == IF pc[c] \in {"save", "publish"} THEN "insert" ELSE pc[c]

Service == INSTANCE TableService WITH
    Batch <- Part,
    batches <- ListedBatches,
    call <- [c \in Client |-> CallOf(c)],
    result <- [c \in Client |-> ReadAndLeft(c)]

(* Every step of the part store is one atomic step of the table service,   *)
(* or invisible: merging (atomic_part_move), failing INSERTs and half-done *)
(* scans change nothing a client can tell.                                 *)
ImplementsService == Service!Spec
=============================================================================
