------------------------------ MODULE TableScan ------------------------------
(***************************************************************************)
(* One scan of a storage, call by call: CommandRunner::scan_from_storage   *)
(* over NativeStorage (a table) or VirtualStorage (the rows of a nested    *)
(* SELECT), and BackgroundMerge::load_part_cols, which drives the same     *)
(* NativeStorage for a merge.  The storage holds the table's lock for the  *)
(* whole scan, so the parts do not change under it; how scans and writers  *)
(* interleave is the subject of PartStore.                                 *)
(*                                                                         *)
(* A row is <<part, position>>; WHERE is the set of the rows it keeps.     *)
(***************************************************************************)
EXTENDS Granules, Scans

CONSTANTS
    PartLists,    \* values of TABLE_DATA[table].infos
    PartSizes,    \* numbers of rows a part may have
    Queries(_),   \* the queries asked of the parts with the given rows
    UsizeMax,     \* usize::MAX
    OutputCap     \* bound: rows of the output that are told apart

NoLimit == -1          \* no LIMIT clause

Row == Nat \X Nat

(* The parts of a list that have the given sizes, and all of their rows.   *)
DataOf(size) == [p \in DOMAIN size |-> [i \in 1..size[p] |-> <<p, i>>]]

RowsIn(list, data) == FlattenSeq([i \in DOMAIN list |-> data[list[i]]])

(* What is asked of parts with the rows of data.  Without a WHERE all rows *)
(* are kept; a projected literal is asked of a table, not of a nested      *)
(* SELECT; a merge loads one of the parts.                                 *)
WellAsked(q, list, data) ==
    /\ q.kind \in {"rows", "count", "nested", "merge"}
    /\ q.filtered \in BOOLEAN /\ q.ordered \in BOOLEAN /\ q.literal \in BOOLEAN
    /\ q.limit \in Nat \cup {NoLimit} /\ q.offset \in Nat
    /\ q.inner \in Seq(Row)
    /\ q.kind = "merge" => q.part \in Members(list)
    /\ q.literal => q.kind = "rows" /\ (q.filtered \/ Members(RowsIn(list, data)) \subseteq q.keep)

(* A list names each part once (MemoryMatchesDisk of PartStore), no part   *)
(* is empty, and the bound on the output cuts off no row of the input.     *)
ASSUME TableScanAssumption ==
    /\ UsizeMax \in Nat /\ OutputCap \in Nat
    /\ PartSizes \subseteq Nat \ {0}
    /\ \A list \in PartLists :
          /\ list \in Seq(Nat \ {0})
          /\ \A i, j \in DOMAIN list : list[i] = list[j] => i = j
          /\ \A size \in [Members(list) -> PartSizes] :
                \A q \in Queries(DataOf(size)) :
                    /\ WellAsked(q, list, DataOf(size))
                    /\ Len(RowsIn(list, DataOf(size))) <= OutputCap
                    /\ Len(q.inner) <= OutputCap

VARIABLES
    infos, rowsOf,  \* the parts, and the rows of each
    query,          \* what is asked
    stand,          \* loaded_chunk: the part and the granule, or NotOpen
    bytes,          \* chunk_bytes: the rows that are loaded
    calls,          \* load_next_chunk calls load_part_cols has made
    linesRead,      \* Strategy::lines_read
    out,            \* rows appended so far
    fill,           \* values appended so far for a projected literal
    pc, answer

parts == <<infos, rowsOf, query>>
vars == <<parts, stand, bytes, calls, linesRead, out, fill, pc, answer>>

NotOpen == [part |-> 0, granule |-> 0]

AllRows == RowsIn(infos, rowsOf)

(* The rows a query is about: the inner SELECT's rows when it is nested.   *)
Source == IF query.kind = "nested" THEN query.inner ELSE AllRows

Cap(s) == SubSeq(s, 1, IF Len(s) < OutputCap THEN Len(s) ELSE OutputCap)

(***************************************************************************)
(* Strategy::new.  An ORDER BY or a GROUP BY reads everything.             *)
(***************************************************************************)

(* Mutant: the rows OFFSET skips are not read. *)
LinesToRead_NoOffset ==
    IF query.ordered \/ query.limit = NoLimit THEN Len(Source)
    ELSE Least(Len(Source), query.limit)

LinesToRead ==
    IF query.ordered \/ query.limit = NoLimit THEN Len(Source)
    ELSE Least(Len(Source), query.limit) + query.offset

(* The addition panics when it overflows, in every build: src/Cargo.toml   *)
(* switches overflow-checks on for release builds.                         *)
(* Mutant: the addition is done before the minimum is taken. *)
StrategyFits_LimitFirst ==
    query.ordered \/ query.limit = NoLimit \/ query.limit + query.offset <= UsizeMax

StrategyFits == LinesToRead <= UsizeMax

ShouldReadNextChunk == LinesToRead > linesRead

-----------------------------------------------------------------------------
(* NativeStorage::advance_chunk_metadata: where the next chunk is, in a    *)
(* set that is empty when there is none.  The part is looked up again in   *)
(* `infos` when its last granule is used up.                               *)

(* Mutant: the storage of a merge behaves as if nothing were open yet. *)
NextNative_Restarts ==
    IF bytes = <<>>
    THEN {[part |-> infos[i], granule |-> 1] : i \in {1} \cap DOMAIN infos}
    ELSE IF stand.granule = MarkCount(rowsOf[stand.part])
         THEN {[part |-> p, granule |-> 1] : p \in After(infos, stand.part)}
         ELSE {[stand EXCEPT !.granule = @ + 1]}

NextNative ==
    IF stand = NotOpen
    THEN {[part |-> infos[i], granule |-> 1] : i \in {1} \cap DOMAIN infos}
    ELSE IF stand.granule = MarkCount(rowsOf[stand.part])
         THEN {[part |-> p, granule |-> 1] : p \in After(infos, stand.part)}
         ELSE {[stand EXCEPT !.granule = @ + 1]}

(* VirtualStorage::load_next_chunk: past the last granule it starts over.  *)
NextVirtual ==
    LET count == MarkCount(query.inner)
    IN  IF stand # NotOpen /\ stand.granule < count
        THEN {[stand EXCEPT !.granule = @ + 1]}
        ELSE IF count # 0 THEN {[part |-> 0, granule |-> 1]} ELSE {}

(* Mutant: the metadata of the loaded chunk is never advanced. *)
NextChunk_StaysOnFirst ==
    IF query.kind = "nested" THEN NextVirtual
    ELSE {[part |-> infos[i], granule |-> 1] : i \in {1} \cap DOMAIN infos}

NextChunk == IF query.kind = "nested" THEN NextVirtual ELSE NextNative

(* VirtualStorage slices whole granules out of its columns. *)
SliceEndsInside(s) ==
    query.kind = "nested" => s.granule * Granularity <= Len(query.inner)

ChunkAt(s) == IF query.kind = "nested" THEN Granule(query.inner, s.granule)
              ELSE Granule(rowsOf[s.part], s.granule)

-----------------------------------------------------------------------------
(* What is left to do once all chunks are read: aggregate or order, then   *)
(* OFFSET, then LIMIT.  Rows are ordered by their position first, which    *)
(* differs from the order of storage.                                      *)
Before(r, s) == r[2] < s[2] \/ (r[2] = s[2] /\ r[1] < s[1])

Shape(rows) == IF query.kind = "count" THEN <<Len(rows)>>
               ELSE IF query.ordered THEN SortSeq(rows, Before)
               ELSE rows

DropTo(s, n) == SubSeq(s, Least(n, Len(s)) + 1, Len(s))
Truncate(s) ==
    IF query.limit = NoLimit THEN s
    ELSE SubSeq(s, 1, Least(Len(s), query.limit))

AnswerOf(rows) == Truncate(DropTo(Shape(rows), query.offset))

Kept(rows) == Filtered(rows, query.keep)

-----------------------------------------------------------------------------
(* A SELECT starts with no chunk; try_from_table_def_and_part opens the    *)
(* part to merge at once, without loading any of its bytes.                *)
Init ==
    /\ infos \in PartLists
    /\ \E size \in [Members(infos) -> PartSizes] : rowsOf = DataOf(size)
    /\ query \in Queries(rowsOf)
    /\ stand = IF query.kind = "merge" THEN [part |-> query.part, granule |-> 1]
               ELSE NotOpen
    /\ bytes = <<>> /\ calls = 0 /\ linesRead = 0 /\ out = <<>> /\ fill = 0
    /\ pc = "scan" /\ answer = <<>>

Answering == query.kind # "merge"

(* Strategy::new overflows before anything is read. *)
StrategyPanics ==
    /\ pc = "scan" /\ Answering
    /\ ~StrategyFits
    /\ pc' = "panic"
    /\ UNCHANGED <<parts, stand, bytes, calls, linesRead, out, fill, answer>>

(***************************************************************************)
(* One turn of the loop: load a chunk, filter it, append it.  lines_read   *)
(* is SET to the rows of this chunk that the filter kept.  A projected     *)
(* literal has no column: access_chunk_column returns as many Nulls as a   *)
(* full granule, whatever the chunk holds, and filtering them walks past   *)
(* the end of the mask when the chunk is short.                            *)
(***************************************************************************)
Load(s) ==
    /\ stand' = s
    /\ bytes' = ChunkAt(s)

MaskTooShort(s) ==
    /\ query.literal /\ query.filtered
    /\ Len(ChunkAt(s)) < Granularity

(* Mutant: the filter does not reach the column that is not in the part. *)
LiteralValues_NotFiltered(chunk) == IF query.literal THEN Granularity ELSE 0

LiteralValues(chunk) ==
    IF ~query.literal THEN 0
    ELSE IF query.filtered THEN Len(Kept(chunk))
    ELSE Granularity

ReadChunk ==
    /\ pc = "scan" /\ Answering
    /\ StrategyFits /\ ShouldReadNextChunk
    /\ \E s \in NextChunk :
          /\ SliceEndsInside(s) /\ ~MaskTooShort(s)
          /\ Load(s)
          /\ out' = Cap(out \o Kept(ChunkAt(s)))
          /\ linesRead' = Len(Kept(ChunkAt(s)))
          /\ fill' = fill + LiteralValues(ChunkAt(s))
    /\ UNCHANGED <<parts, calls, pc, answer>>

(* The panic is caught by the connection's task and answered as an error. *)
ReadPanics ==
    /\ pc = "scan" /\ Answering
    /\ StrategyFits /\ ShouldReadNextChunk
    /\ \E s \in NextChunk :
          /\ ~SliceEndsInside(s) \/ MaskTooShort(s)
          /\ stand' = s
    /\ pc' = "panic"
    /\ UNCHANGED <<parts, bytes, calls, linesRead, out, fill, answer>>

Finish ==
    /\ pc = "scan" /\ Answering /\ StrategyFits
    /\ ~ShouldReadNextChunk \/ NextChunk = {}
    /\ answer' = AnswerOf(out)
    /\ pc' = "done"
    /\ UNCHANGED <<parts, stand, bytes, calls, linesRead, out, fill>>

(***************************************************************************)
(* load_part_cols: one load_next_chunk for each mark of the part, whose    *)
(* answer is ignored, then the values of whatever bytes are loaded.        *)
(***************************************************************************)
MergeCall ==
    /\ pc = "scan" /\ query.kind = "merge"
    /\ calls < MarkCount(rowsOf[query.part])
    /\ calls' = calls + 1
    /\ \/ \E s \in NextNative : Load(s)
       \/ NextNative = {} /\ UNCHANGED <<stand, bytes>>
    /\ IF bytes' = <<>> THEN pc' = "panic" /\ out' = out
       ELSE pc' = "scan" /\ out' = out \o bytes'
    /\ UNCHANGED <<parts, linesRead, fill, answer>>

MergeReturn ==
    /\ pc = "scan" /\ query.kind = "merge"
    /\ calls = MarkCount(rowsOf[query.part])
    /\ pc' = "done"
    /\ answer' = out
    /\ UNCHANGED <<parts, stand, bytes, calls, linesRead, out, fill>>

Next == StrategyPanics \/ ReadChunk \/ ReadPanics \/ Finish \/ MergeCall \/ MergeReturn

Spec == Init /\ [][Next]_vars

(* A running scan waits for nothing: its thread goes on. *)
FairSpec == Spec /\ WF_vars(Next)

-----------------------------------------------------------------------------
(* Properties *)

TypeOK ==
    /\ stand.granule \in Nat /\ stand.part \in Nat
    /\ Members(bytes) \subseteq Members(Source)
    /\ calls \in Nat /\ linesRead \in 0..Granularity
    /\ Members(out) \subseteq Members(Source)
    /\ fill \in Nat
    /\ pc \in {"scan", "done", "panic"}

(* A SELECT that ends returns exactly the rows asked for: those of all     *)
(* parts that the filter keeps, in storage order or in the order asked     *)
(* for, without the first OFFSET and up to LIMIT.  Reading stops early,    *)
(* with a counter that is overwritten by every chunk, and the storage may  *)
(* hand out a granule twice; neither shows.  Counting is held to this when *)
(* no LIMIT is given.  (scan_from_storage, src/src/sql/execution/select)   *)
AnswerExact ==
    (/\ pc = "done" /\ Answering
     /\ query.kind = "count" => query.limit = NoLimit)
        => answer = AnswerOf(Kept(Source))

(* A count is the count of all rows, LIMIT or not.                         *)
(* (README.md:41 announces aggregation.)                                   *)
CountExact ==
    pc = "done" /\ query.kind = "count" => answer = AnswerOf(Kept(Source))

(* What a merge gets for a part is MergeRead, the closed form that         *)
(* PartStore uses; it panics exactly when MergeReadPanics says so.         *)
LoadIsMergeRead ==
    query.kind = "merge" =>
        /\ pc = "done" => answer = MergeRead(infos, rowsOf, query.part)
        /\ pc = "panic" => MergeReadPanics(infos, rowsOf, query.part)

(* A scan of a table, and loading a part, come to an end.                  *)
TableScanEnds == query.kind # "nested" => <>(pc # "scan")

(* So does a SELECT over a nested SELECT.                                  *)
NestedScanEnds == query.kind = "nested" => <>(pc # "scan")

(* A nested SELECT is answered with rows (docs/arch.md:107).               *)
NestedNeverPanics == query.kind = "nested" => pc # "panic"

(* All columns of an answer have equally many values, also that of a       *)
(* projected literal, which the parser accepts as a projection             *)
(* (src/src/sql/sql_parser.rs:287).                                        *)
ColumnsAligned == query.literal => pc # "panic" /\ (pc = "done" => fill = Len(out))

(* They have as long as the parts that are read consist of whole granules: *)
(* then no WHERE, LIMIT or OFFSET, which end the scan early, sets the      *)
(* columns apart (src/src/storage/tables/native.rs:149).                   *)
WholeGranules == \A p \in Members(infos) : Len(rowsOf[p]) % Granularity = 0

LiteralAligned == WholeGranules /\ StrategyFits => ColumnsAligned

(* LIMIT and OFFSET of any size are answered as long as the table's rows   *)
(* and the OFFSET fit: a LIMIT that is larger than the table, usize::MAX   *)
(* included, takes part in no addition (src/src/sql/execution/select/      *)
(* strategy.rs:21).                                                        *)
LargeLimitsAnswered ==
    (query.kind \in {"rows", "count"} /\ ~query.literal
       /\ Len(AllRows) + query.offset <= UsizeMax)
        => <>(pc = "done")
=============================================================================
