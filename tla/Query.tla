------------------------------- MODULE Query -------------------------------
(***************************************************************************)
(* From CREATE TABLE over INSERTs to the answer of a SELECT, in values:    *)
(* what the planner (src/src/sql/logical_plan) accepts, how the engine     *)
(* stores the rows, and how a SELECT filters, aggregates, orders and cuts  *)
(* them (src/src/sql/execution/select).  One client uses the table here;   *)
(* concurrent clients, merges and failures are the subject of PartStore,   *)
(* the chunk-by-chunk reading of a storage that of TableScan.              *)
(***************************************************************************)
EXTENDS Filter, Engines, Granules

CONSTANTS
    Definitions,   \* CREATE TABLE statements: [columns, options, order_by, primary_key]
    ValidName(_),  \* what validate_name accepts
    Batches(_),    \* INSERT statements into a schema: [columns, rows]
    Selects(_),    \* SELECT statements over a schema
    UsizeMax,      \* usize::MAX
    MaxInserts,    \* bound: INSERTs before the SELECT
    MaxRows        \* bound: rows the table may hold

VARIABLES
    table,      \* the table as planned: [schema, engine, order_by, primary_key]
    batches,    \* the rows of every INSERT, as they were given
    parts,      \* the rows of every part, as they are stored
    query,      \* the SELECT, as planned
    read,       \* chunks read so far
    linesRead,  \* Strategy::lines_read
    values,     \* Aggregator, without aggregates: the columns so far
    groups,     \* Aggregator, with aggregates: key -> one accumulator each
    output,     \* the columns of the answer: [alias, name, data]
    ordered,    \* ORDER BY lists that are done
    pc, outcome \* outcome of the last command: "ok", "error" or "panic"

tableVars == <<table, batches, parts>>
selectVars == <<query, read, linesRead, values, groups, output,
                ordered>>
vars == <<tableVars, selectVars, pc, outcome>>

Names(schema) == {schema[i].name : i \in DOMAIN schema}
Column(schema, name) == schema[IndexOf(schema, name)]
NamesIn(seq, schema) == \A i \in DOMAIN seq : seq[i] \in Names(schema)
NoDuplicates(seq) == \A i, j \in DOMAIN seq : seq[i] = seq[j] => i = j

-----------------------------------------------------------------------------
(***************************************************************************)
(* CREATE TABLE: the columns with their constraints, each [kind, value],   *)
(* and the options of the table, each [key, name].                         *)
(***************************************************************************)
EngineName == {"MergeTree", "ReplacingMergeTree"}
ColumnType == {"int", "str", "bool"}

Said(column, kinds) ==
    Filtered(column.constraints,
             {constraint \in ToSet(column.constraints) : constraint.kind \in kinds})
Default(column, i) == Typed(Said(column, {"default"})[i].value, column.type)

ValidColumn(column) ==
    /\ ValidName(column.name)
    /\ column.type \in ColumnType
    /\ \A i \in DOMAIN column.constraints :
          column.constraints[i].kind \in {"null", "notnull", "default"}
    /\ Len(Said(column, {"null", "notnull"})) <= 1
    /\ \A i \in DOMAIN Said(column, {"default"}) : Default(column, i) # {}

(* The column as planned: nullable unless it says NOT NULL.  Its default   *)
(* is a set, empty when it has none; of several the last one counts.       *)
ColumnDef(column) ==
    LET defaults == Len(Said(column, {"default"}))
    IN  [name |-> column.name, type |-> column.type,
         nullable |-> Said(column, {"notnull"}) = <<>>,
         default |-> IF defaults = 0 THEN {} ELSE Default(column, defaults)]

Schema(def) == [i \in DOMAIN def.columns |-> ColumnDef(def.columns[i])]

Settings(def) == IF def.options = <<>> THEN "MergeTree" ELSE Last(def.options).name

Valid(def) ==
    /\ def.columns # <<>>
    /\ \A i \in DOMAIN def.columns : ValidColumn(def.columns[i])
    /\ NoDuplicates([i \in DOMAIN def.columns |-> def.columns[i].name])
    /\ \A i \in DOMAIN def.options :
          def.options[i].key = "engine" /\ def.options[i].name \in EngineName

(* The two keys, in a set that is empty when they are refused.  An absent  *)
(* clause is <<>>.  A PRIMARY KEY may repeat a column.                     *)
Settled(order_by, primary_key) == {[order_by |-> order_by, primary_key |-> primary_key]}

(* Mutant: any columns of the ORDER BY may be the PRIMARY KEY. *)
Keys_AnySubset(def) ==
    IF \/ ~NamesIn(def.order_by \o def.primary_key, Schema(def))
       \/ ~NoDuplicates(def.order_by)
    THEN {}
    ELSE IF def.order_by # <<>> /\ def.primary_key # <<>>
    THEN IF ToSet(def.primary_key) \subseteq ToSet(def.order_by)
         THEN Settled(def.order_by, def.primary_key) ELSE {}
    ELSE IF def.order_by # <<>> THEN Settled(def.order_by, def.order_by)
    ELSE IF def.primary_key # <<>> THEN Settled(def.primary_key, def.primary_key)
    ELSE LET first == <<def.columns[1].name>> IN Settled(first, first)

Keys(def) ==
    IF \/ ~NamesIn(def.order_by \o def.primary_key, Schema(def))
       \/ ~NoDuplicates(def.order_by)
    THEN {}
    ELSE IF def.order_by # <<>> /\ def.primary_key # <<>>
    THEN IF IsPrefix(def.primary_key, def.order_by)
         THEN Settled(def.order_by, def.primary_key) ELSE {}
    ELSE IF def.order_by # <<>> THEN Settled(def.order_by, def.order_by)
    ELSE IF def.primary_key # <<>> THEN Settled(def.primary_key, def.primary_key)
    ELSE LET first == <<def.columns[1].name>> IN Settled(first, first)

(* The table as it is created, in a set that is empty when it is refused.  *)
Planned(def) ==
    IF ~Valid(def) THEN {}
    ELSE {[schema |-> Schema(def), engine |-> Settings(def),
           order_by |-> keys.order_by, primary_key |-> keys.primary_key] :
             keys \in Keys(def)}

(***************************************************************************)
(* INSERT: the rows with every column of the schema filled in, in a set    *)
(* that is empty when the statement is refused.  Given values are checked  *)
(* against NOT NULL, defaults are not.                                     *)
(***************************************************************************)
Required(c) == ~c.nullable /\ c.default = {}

(* The value of column c in a row given for the listed columns. *)
Filled(c, columns, row) ==
    IF c.name \in ToSet(columns)
    THEN Typed(row[CHOOSE i \in DOMAIN columns : columns[i] = c.name], c.type)
    ELSE IF c.default # {} THEN c.default ELSE {Null}

(* Mutant: NULL is taken for a column without a value. *)
Accepted_AnyNull(schema, insert) ==
    /\ insert.columns # <<>> /\ insert.rows # <<>>
    /\ NoDuplicates(insert.columns) /\ NamesIn(insert.columns, schema)
    /\ \A r \in DOMAIN insert.rows :
          \A i \in DOMAIN schema :
             Filled(schema[i], insert.columns, insert.rows[r]) # {}

Accepted(schema, insert) ==
    /\ insert.columns # <<>> /\ insert.rows # <<>>
    /\ NoDuplicates(insert.columns) /\ NamesIn(insert.columns, schema)
    /\ \A i \in DOMAIN schema :
          Required(schema[i]) => schema[i].name \in ToSet(insert.columns)
    /\ \A r \in DOMAIN insert.rows :
          /\ Len(insert.rows[r]) = Len(insert.columns)
          /\ \A i \in DOMAIN schema :
                LET v == Filled(schema[i], insert.columns, insert.rows[r])
                IN  /\ v # {}
                    /\ v = {Null} /\ schema[i].name \in ToSet(insert.columns)
                          => schema[i].nullable

Rows(schema, insert) ==
    [r \in DOMAIN insert.rows |->
        [n \in Names(schema) |->
            CHOOSE v \in Filled(Column(schema, n), insert.columns, insert.rows[r]) : TRUE]]

InsertRows(schema, insert) ==
    IF Accepted(schema, insert) THEN {Rows(schema, insert)} ELSE {}

(* A part's columns are those of the schema. *)
ColumnsOf(schema, rows) ==
    [c \in DOMAIN schema |-> [i \in DOMAIN rows |-> rows[i][schema[c].name]]]
RowsOf(schema, cols) ==
    [i \in 1..RowCount(cols) |->
        [n \in Names(schema) |-> cols[IndexOf(schema, n)][i]]]
Positions(schema, names) == [k \in DOMAIN names |-> IndexOf(schema, names[k])]

OrderKeys == Positions(table.schema, table.order_by)
PrimaryKeys == Positions(table.schema, table.primary_key)

-----------------------------------------------------------------------------
(***************************************************************************)
(* Planning a SELECT.  A statement has items [what, name, alias, fn] where *)
(* what is "star", "col" or "agg"; an absent alias is "".  ORDER BY is a   *)
(* sequence of lists of names, ORDER BY ALL is <<<<"*">>>>; GROUP BY is a  *)
(* list of names, GROUP BY ALL is <<"*">>.                                 *)
(***************************************************************************)
Projection(alias, name) == [alias |-> alias, name |-> name]
Available(schema) == [i \in DOMAIN schema |-> Projection("", schema[i].name)]

ItemsOf(select, what) ==
    Filtered(select.items, {item \in ToSet(select.items) : item.what = what})

ReadColumns(schema, select) ==
    LET items == ItemsOf(select, "col")
        named == [i \in DOMAIN items |-> Projection(items[i].alias, items[i].name)]
    IN  IF ItemsOf(select, "star") = <<>> THEN named
        ELSE named \o Filtered(Available(schema), ToSet(Available(schema)) \ ToSet(named))

(* Projection::try_from_ident: an alias replaces the column's name. *)
Identified(name, projections) ==
    Filtered(projections,
             {p \in ToSet(projections) : (IF p.alias # "" THEN p.alias ELSE p.name) = name})

GroupBy(schema, select) ==
    IF select.group_by = <<"*">> THEN ReadColumns(schema, select)
    ELSE [i \in DOMAIN select.group_by |-> Projection("", select.group_by[i])]

OrderBy(schema, select) ==
    LET columns == ReadColumns(schema, select)
    IN  IF select.order_by = <<<<"*">>>> THEN <<columns>>
        ELSE [i \in DOMAIN select.order_by |->
                [j \in DOMAIN select.order_by[i] |->
                    Identified(select.order_by[i][j], columns)[1]]]

(* Mutant: a selected column need not be in the GROUP BY. *)
Plannable_NotGrouped(schema, select) ==
    /\ \A i \in DOMAIN select.items :
          /\ select.items[i].what # "star" => select.items[i].name \in Names(schema)
          /\ select.items[i].what = "star" => i = Len(select.items)
    /\ select.group_by # <<"*">> => NamesIn(select.group_by, schema)
    /\ \A i \in DOMAIN select.order_by : \A j \in DOMAIN select.order_by[i] :
          \/ select.order_by = <<<<"*">>>>
          \/ Identified(select.order_by[i][j], ReadColumns(schema, select)) # <<>>

Plannable(schema, select) ==
    /\ \A i \in DOMAIN select.items :
          /\ select.items[i].what # "star" => select.items[i].name \in Names(schema)
          /\ select.items[i].what = "star" => i = Len(select.items)
    /\ select.group_by # <<"*">> => NamesIn(select.group_by, schema)
    /\ select.group_by = <<>> /\ ItemsOf(select, "agg") # <<>>
          => ReadColumns(schema, select) = <<>>
    /\ GroupBy(schema, select) # <<>>
          => ToSet(ReadColumns(schema, select)) \subseteq ToSet(GroupBy(schema, select))
    /\ \A i \in DOMAIN select.order_by : \A j \in DOMAIN select.order_by[i] :
          \/ select.order_by = <<<<"*">>>>
          \/ Identified(select.order_by[i][j], ReadColumns(schema, select)) # <<>>

(* The SelectNode.  HAVING is planned and then ignored. *)
SelectNode(schema, select) ==
    [columns |-> ReadColumns(schema, select),
     aggregates |-> ItemsOf(select, "agg"),
     group_by |-> GroupBy(schema, select),
     order_by |-> OrderBy(schema, select),
     where |-> select.where, having |-> select.having,
     limit |-> select.limit, offset |-> select.offset]

NoLimit == -1
Everything == Lit(Value("bool", 1))      \* no WHERE clause

Aggregating(q) == q.group_by # <<>> \/ q.columns = <<>>
Compiles(where, schema) == Root(Compile(where, schema)) # Failed
CompiledWhere == Compile(query.where, table.schema)

-----------------------------------------------------------------------------
(***************************************************************************)
(* The statements, as the parser delivers them.                            *)
(***************************************************************************)
AggregateFn == {"count", "sum", "avg", "min", "max"}

IsDefinition(def) ==
    /\ def.columns \in Seq([name : STRING, type : STRING,
                            constraints : Seq([kind : STRING, value : Literal])])
    /\ def.options \in Seq([key : STRING, name : STRING])
    /\ def.order_by \in Seq(STRING) /\ def.primary_key \in Seq(STRING)

IsInsert(insert) ==
    insert.columns \in Seq(STRING) /\ insert.rows \in Seq(Seq(Literal))

IsSelect(select) ==
    /\ select.items # <<>>
    /\ select.items \in Seq([what : {"star", "col", "agg"}, name : STRING,
                             alias : STRING, fn : STRING])
    /\ \A i \in DOMAIN select.items :
          select.items[i].what = "agg" => select.items[i].fn \in AggregateFn
    /\ IsExpression(select.where)
    /\ select.group_by \in Seq(STRING) /\ select.order_by \in Seq(Seq(STRING))
    /\ select.limit \in 0..UsizeMax \cup {NoLimit} /\ select.offset \in 0..UsizeMax

ASSUME QueryAssumption ==
    /\ MaxInserts \in Nat /\ UsizeMax \in Nat
    /\ \A def \in Definitions :
          /\ IsDefinition(def)
          /\ \A t \in Planned(def) :
                /\ \A insert \in Batches(t.schema) : IsInsert(insert)
                /\ \A select \in Selects(t.schema) : IsSelect(select)

-----------------------------------------------------------------------------
(***************************************************************************)
(* Aggregator.  An accumulator holds what RawData holds for any function.  *)
(* Averages are given in twelfths, which are whole for up to four rows.    *)
(***************************************************************************)
Fresh == [total |-> Null, count |-> 0]

Combined(fn, total, v) ==
    IF fn = "count" THEN Null
    ELSE IF total = Null THEN Value("num", v.v)
    ELSE CASE fn \in {"sum", "avg"} -> Value("num", total.v + v.v)
           [] fn = "min" -> IF v.v < total.v THEN Value("num", v.v) ELSE total
           [] fn = "max" -> IF v.v > total.v THEN Value("num", v.v) ELSE total

Addable(fn, v) == fn = "count" \/ Numeric(v)
AddValue(fn, a, v) == [total |-> Combined(fn, a.total, v), count |-> a.count + 1]

Final(fn, a) ==
    CASE fn = "count" -> Value("uint", a.count)
      [] fn = "avg" /\ a.count # 0 -> Value("twelfths", (12 * a.total.v) \div a.count)
      [] OTHER -> a.total

(* A row of the buffer: the GROUP BY columns first, then the aggregates'.  *)
KeyOf(q, row) == SubSeq(row, 1, Len(q.group_by))
ArgumentOf(q, row, i) == row[Len(q.group_by) + i]

NewGroup(q) == [i \in DOMAIN q.aggregates |-> Fresh]

(* Mutant: a row that opens a group is not counted in it. *)
AddRow_OpensOnly(gs, q, row) ==
    LET key == KeyOf(q, row)
    IN  [k \in DOMAIN gs \cup {key} |->
            IF k \notin DOMAIN gs THEN NewGroup(q)
            ELSE IF k # key THEN gs[k]
            ELSE [i \in DOMAIN q.aggregates |->
                    AddValue(q.aggregates[i].fn, gs[k][i], ArgumentOf(q, row, i))]]

AddRow(gs, q, row) ==
    LET key == KeyOf(q, row)
        old == IF key \in DOMAIN gs THEN gs[key] ELSE NewGroup(q)
    IN  [k \in DOMAIN gs \cup {key} |->
            IF k # key THEN gs[k]
            ELSE [i \in DOMAIN q.aggregates |->
                    AddValue(q.aggregates[i].fn, old[i], ArgumentOf(q, row, i))]]

(* The columns a query reads: get_projs_to_read. *)
ToRead(q) ==
    IF ~Aggregating(q) THEN [i \in DOMAIN q.columns |-> q.columns[i].name]
    ELSE [i \in DOMAIN q.group_by |-> q.group_by[i].name]
         \o [i \in DOMAIN q.aggregates |-> q.aggregates[i].name]

(* finalize: aliases of plain columns are lost, groups come in any order.  *)
(* Without any group the aggregates' columns go by their arguments' names. *)
Named(alias, fn, name, data) ==
    [alias |-> alias, fn |-> fn, name |-> name, data |-> data]

PlainOutput == [c \in DOMAIN query.columns |->
                   Named("", "", query.columns[c].name, values[c])]

GroupedOutput(arrangement) ==
    [c \in DOMAIN query.group_by |->
        Named("", "", query.group_by[c].name,
              [g \in DOMAIN arrangement |-> arrangement[g][c]])]
    \o
    [i \in DOMAIN query.aggregates |->
        LET item == query.aggregates[i]
        IN  Named(item.alias, IF DOMAIN groups = {} THEN "" ELSE item.fn, item.name,
                  [g \in DOMAIN arrangement |-> Final(item.fn, groups[arrangement[g]][i])])]

Arrangements(S) ==
    {s \in [1..Cardinality(S) -> S] : NoDuplicates(s)}

(* The table as a scan reads it: get_total_rows, load_next_chunk.          *)
Total == Len(FlattenSeq(parts))
Chunks == FlattenSeq([i \in DOMAIN parts |->
                         [g \in 1..MarkCount(parts[i]) |-> Granule(parts[i], g)]])

-----------------------------------------------------------------------------
(* Actions *)

Init ==
    /\ table = [schema |-> <<>>, engine |-> "none", order_by |-> <<>>, primary_key |-> <<>>]
    /\ batches = <<>> /\ parts = <<>>
    /\ query = <<>> /\ read = 0 /\ linesRead = 0 /\ values = <<>>
    /\ groups = <<>> /\ output = <<>> /\ ordered = 0
    /\ pc = "create" /\ outcome = "ok"

CreateTable ==
    /\ pc = "create"
    /\ \E def \in Definitions : table' \in Planned(def)
    /\ pc' = "ready"
    /\ UNCHANGED <<batches, parts, selectVars, outcome>>

CreateTableRefused ==
    /\ pc = "create"
    /\ \E def \in Definitions : Planned(def) = {}
    /\ pc' = "done" /\ outcome' = "error"
    /\ UNCHANGED <<tableVars, selectVars>>

(* CommandRunner::insert: TablePart::try_new orders the rows. *)
Insert ==
    /\ pc = "ready" /\ Len(parts) < MaxInserts
    /\ \E insert \in Batches(table.schema) :
       \E rows \in InsertRows(table.schema, insert) :
       LET cols == ColumnsOf(table.schema, rows)
       IN  /\ Total + Len(rows) <= MaxRows
           /\ ~OrderPanics(cols, OrderKeys)
           /\ \E stored \in StoreResults(table.engine, cols, OrderKeys, PrimaryKeys) :
                 parts' = Append(parts, RowsOf(table.schema, stored))
           /\ batches' = Append(batches, rows)
    /\ outcome' = "ok"
    /\ UNCHANGED <<table, selectVars, pc>>

InsertRefused ==
    /\ pc = "ready" /\ Len(parts) < MaxInserts
    /\ \E insert \in Batches(table.schema) : InsertRows(table.schema, insert) = {}
    /\ outcome' = "error"
    /\ UNCHANGED <<tableVars, selectVars, pc>>

(* The connection's task catches the panic; nothing has been stored. *)
InsertPanics ==
    /\ pc = "ready" /\ Len(parts) < MaxInserts
    /\ \E insert \in Batches(table.schema) :
       \E rows \in InsertRows(table.schema, insert) :
          OrderPanics(ColumnsOf(table.schema, rows), OrderKeys)
    /\ outcome' = "panic"
    /\ UNCHANGED <<tableVars, selectVars, pc>>

(* Strategy::new adds OFFSET to the lines to read; overflow-checks are on  *)
(* in every build (src/Cargo.toml).                                        *)
StrategyFits(q) ==
    \/ q.order_by # <<>> \/ q.group_by # <<>> \/ q.limit = NoLimit
    \/ Least(Total, q.limit) + q.offset <= UsizeMax

(* scan_from_storage makes its Strategy, then compiles WHERE, before it    *)
(* reads anything.                                                         *)
Select ==
    /\ pc = "ready"
    /\ \E select \in Selects(table.schema) :
          /\ Plannable(table.schema, select)
          /\ StrategyFits(SelectNode(table.schema, select))
          /\ Compiles(select.where, table.schema)
          /\ query' = SelectNode(table.schema, select)
    /\ values' = [c \in DOMAIN query'.columns |-> <<>>]
    /\ groups' = [k \in (IF query'.group_by = <<>> THEN {<<>>} ELSE {}) |-> NewGroup(query')]
    /\ pc' = "scan" /\ outcome' = "ok"
    /\ UNCHANGED <<tableVars, read, linesRead, output, ordered>>

SelectRefused ==
    /\ pc = "ready"
    /\ \E select \in Selects(table.schema) :
          Plannable(table.schema, select) =>
             /\ StrategyFits(SelectNode(table.schema, select))
             /\ ~Compiles(select.where, table.schema)
    /\ pc' = "done" /\ outcome' = "error"
    /\ UNCHANGED <<tableVars, selectVars>>

(* The overflow comes before any fault of WHERE. *)
SelectPanics ==
    /\ pc = "ready"
    /\ \E select \in Selects(table.schema) :
          /\ Plannable(table.schema, select)
          /\ ~StrategyFits(SelectNode(table.schema, select))
          /\ query' = SelectNode(table.schema, select)
    /\ pc' = "done" /\ outcome' = "panic"
    /\ UNCHANGED <<tableVars, read, linesRead, values, groups, output, ordered>>

LinesToRead ==
    IF query.order_by # <<>> \/ query.group_by # <<>> \/ query.limit = NoLimit
    THEN Total ELSE Least(Total, query.limit) + query.offset

Reading == pc = "scan" /\ LinesToRead > linesRead /\ read < Len(Chunks)

(* The granule buffer of the next chunk, and its rows that WHERE keeps.    *)
Buffer ==
    LET chunk == Chunks[read + 1]
    IN  [c \in DOMAIN ToRead(query) |->
            [i \in DOMAIN chunk |-> chunk[i][ToRead(query)[c]]]]
FilterInBuffer == Needs(CompiledWhere) \subseteq DOMAIN ToRead(query)

KeptOfBuffer ==
    LET kept == Filtered([i \in 1..RowCount(Buffer) |-> i], Mask(CompiledWhere, Buffer))
    IN  [i \in DOMAIN kept |-> RowAt(Buffer, kept[i])]

(* The groups after each of the rows kept. *)
GroupsOfBuffer ==
    LET after[i \in 0..Len(KeptOfBuffer)] ==
            IF i = 0 THEN groups ELSE AddRow(after[i - 1], query, KeptOfBuffer[i])
    IN  after[Len(KeptOfBuffer)]

CanAdd ==
    Aggregating(query) =>
        \A i \in DOMAIN KeptOfBuffer, a \in DOMAIN query.aggregates :
            Addable(query.aggregates[a].fn, ArgumentOf(query, KeptOfBuffer[i], a))

ReadChunk ==
    /\ Reading /\ FilterInBuffer /\ CanAdd
    /\ read' = read + 1
    /\ linesRead' = Len(KeptOfBuffer)
    /\ IF Aggregating(query)
       THEN groups' = GroupsOfBuffer /\ values' = values
       ELSE /\ values' = [c \in DOMAIN values |->
                             values[c] \o [i \in DOMAIN KeptOfBuffer |-> KeptOfBuffer[i][c]]]
            /\ groups' = groups
    /\ UNCHANGED <<tableVars, query, output, ordered, pc, outcome>>

(* An index of WHERE that the buffer does not have. *)
ReadPanics ==
    /\ Reading /\ ~FilterInBuffer
    /\ pc' = "done" /\ outcome' = "panic"
    /\ UNCHANGED <<tableVars, selectVars>>

(* Only numbers can be summed, averaged and compared by an aggregate. *)
AggregateFails ==
    /\ Reading /\ FilterInBuffer /\ ~CanAdd
    /\ pc' = "done" /\ outcome' = "error"
    /\ UNCHANGED <<tableVars, selectVars>>

Finalize ==
    /\ pc = "scan" /\ ~Reading
    /\ IF Aggregating(query)
       THEN \E arrangement \in Arrangements(DOMAIN groups) :
               output' = GroupedOutput(arrangement)
       ELSE output' = PlainOutput
    /\ pc' = "order"
    /\ UNCHANGED <<tableVars, query, read, linesRead, values, groups, ordered, outcome>>

(* Where the columns of an ORDER BY list are in the output; 0 when not. A  *)
(* column of a function's results is never the one that is meant.          *)
OutputPosition(p) ==
    LET found == {c \in DOMAIN output : /\ output[c].alias = p.alias
                                        /\ output[c].fn = "" /\ output[c].name = p.name}
    IN  IF found = {} THEN 0 ELSE CHOOSE c \in found : \A d \in found : c <= d
OutputKeys == LET by == query.order_by[ordered + 1]
              IN  [k \in DOMAIN by |-> OutputPosition(by[k])]
OutputData == [c \in DOMAIN output |-> output[c].data]
Ordering == pc = "order" /\ ordered < Len(query.order_by)
KeysFound == OutputKeys # <<>> /\ 0 \notin ToSet(OutputKeys)

(* Mutant: the lists after the first are not applied. *)
OrderOnce_FirstOnly ==
    /\ Ordering /\ KeysFound
    /\ ~OrderPanics(OutputData, OutputKeys)
    /\ IF ordered = 0
       THEN \E result \in MergeTreeResults(OutputData, OutputKeys) :
               output' = [c \in DOMAIN output |-> [output[c] EXCEPT !.data = result[c]]]
       ELSE output' = output
    /\ ordered' = ordered + 1
    /\ UNCHANGED <<tableVars, query, read, linesRead, values, groups, pc, outcome>>

(* Each list orders the whole answer anew, by an order that need not keep  *)
(* equal rows where they are.                                              *)
OrderOnce ==
    /\ Ordering /\ KeysFound
    /\ ~OrderPanics(OutputData, OutputKeys)
    /\ \E result \in MergeTreeResults(OutputData, OutputKeys) :
          output' = [c \in DOMAIN output |-> [output[c] EXCEPT !.data = result[c]]]
    /\ ordered' = ordered + 1
    /\ UNCHANGED <<tableVars, query, read, linesRead, values, groups, pc, outcome>>

OrderFails ==
    /\ Ordering
    /\ IF KeysFound
       THEN OrderPanics(OutputData, OutputKeys) /\ outcome' = "panic"
       ELSE outcome' = "error"
    /\ pc' = "done"
    /\ UNCHANGED <<tableVars, selectVars>>

Window(q, data) ==
    LET rest == SubSeq(data, Least(q.offset, Len(data)) + 1, Len(data))
    IN  IF q.limit = NoLimit THEN rest ELSE SubSeq(rest, 1, Least(q.limit, Len(rest)))

Answer ==
    /\ pc = "order" /\ ordered = Len(query.order_by)
    /\ output' = [c \in DOMAIN output |-> [output[c] EXCEPT !.data = Window(query, @)]]
    /\ pc' = "done"
    /\ UNCHANGED <<tableVars, query, read, linesRead, values, groups, ordered, outcome>>

Next ==
    \/ CreateTable \/ CreateTableRefused
    \/ Insert \/ InsertRefused \/ InsertPanics
    \/ Select \/ SelectRefused \/ SelectPanics
    \/ ReadChunk \/ ReadPanics \/ AggregateFails
    \/ Finalize \/ OrderOnce \/ OrderFails \/ Answer

Spec == Init /\ [][Next]_vars

-----------------------------------------------------------------------------
(* Reference: the answers SQL allows. *)

AllRows == FlattenSeq(parts)
KeptRows == Filtered(AllRows, {row \in ToSet(AllRows) : Holds(query.where, row)})

PlainRows(q, rows) == [i \in DOMAIN rows |->
                         [c \in DOMAIN q.columns |-> rows[i][q.columns[c].name]]]

GroupKey(q, row) == [c \in DOMAIN q.group_by |-> row[q.group_by[c].name]]
GroupKeys(q, rows) == {GroupKey(q, rows[i]) : i \in DOMAIN rows}
                         \cup (IF q.group_by = <<>> THEN {<<>>} ELSE {})
RowsOfKey(q, rows, key) == {i \in DOMAIN rows : GroupKey(q, rows[i]) = key}

SumOver(rows, name, I) ==
    LET sum[i \in 0..Len(rows)] ==
            IF i = 0 THEN 0 ELSE sum[i - 1] + IF i \in I THEN rows[i][name].v ELSE 0
    IN  sum[Len(rows)]

AggregateOver(rows, fn, name, I) ==
    LET numbers == {rows[i][name].v : i \in I}
    IN  CASE fn = "count" -> Value("uint", Cardinality(I))
          [] fn # "count" /\ I = {} -> Null
          [] fn = "sum" /\ I # {} -> Value("num", SumOver(rows, name, I))
          [] fn = "avg" /\ I # {} ->
                Value("twelfths", (12 * SumOver(rows, name, I)) \div Cardinality(I))
          [] fn = "min" /\ I # {} -> Value("num", Min(numbers))
          [] fn = "max" /\ I # {} -> Value("num", Max(numbers))

GroupRow(q, rows, key) ==
    key \o [a \in DOMAIN q.aggregates |->
               AggregateOver(rows, q.aggregates[a].fn, q.aggregates[a].name,
                             RowsOfKey(q, rows, key))]
GroupRows(q, rows) == {GroupRow(q, rows, key) : key \in GroupKeys(q, rows)}

ColumnPosition(q, p) ==
    LET columns == IF Aggregating(q) THEN q.group_by ELSE q.columns
    IN  CHOOSE c \in DOMAIN columns : columns[c] = p

SortedBy(q, by, rows) ==
    LET keys == [k \in DOMAIN by |-> ColumnPosition(q, by[k])]
    IN  \A i, j \in DOMAIN rows : i < j => ~Below(rows[j], rows[i], keys)

(* All rows of the answer, before OFFSET and LIMIT, ordered by `by`. *)
Results(q, rows, by) ==
    IF Aggregating(q)
    THEN {r \in Arrangements(GroupRows(q, rows)) : SortedBy(q, by, r)}
    ELSE IF by = <<>> THEN {PlainRows(q, rows)}
    ELSE {r \in {[i \in DOMAIN p |-> PlainRows(q, rows)[p[i]]] : p \in Orders(Len(rows))} :
             SortedBy(q, by, r)}

AnswerRows == [i \in 1..RowCount(OutputData) |-> RowAt(OutputData, i)]
Answered == pc = "done" /\ outcome = "ok"
IsAnswerBy(by) == AnswerRows \in {Window(query, r) : r \in Results(query, KeptRows, by)}
IsSQLAnswer == IsAnswerBy(FlattenSeq(query.order_by))

(* What an answer must not ask for to be right: WHERE must find its        *)
(* columns where the schema has them, ORDER BY must be one list, and LIMIT *)
(* must not cut the rows of a single aggregate.                            *)
FilterAligned ==
    \A i \in Needs(CompiledWhere) :
        i \in DOMAIN ToRead(query) /\ ToRead(query)[i] = table.schema[i].name
Counted ==
    /\ FilterAligned
    /\ Aggregating(query) /\ query.group_by = <<>> => query.limit = NoLimit
Dependable == Counted /\ Len(query.order_by) <= 1

-----------------------------------------------------------------------------
(* Properties *)

(* Variables stay in their sets; every stored value has its column's type, *)
(* or is Null in a column that allows it, or that has it as its default.   *)
TypeOK ==
    /\ pc \in {"create", "ready", "scan", "order", "done"}
    /\ outcome \in {"ok", "error", "panic"}
    /\ Len(parts) = Len(batches) /\ Len(parts) <= MaxInserts
    /\ \A p \in DOMAIN parts : \A r \in DOMAIN parts[p] : \A i \in DOMAIN table.schema :
          LET c == table.schema[i]  v == parts[p][r][c.name]
          IN  v.type = c.type \/ (v = Null /\ (c.nullable \/ c.default = {Null}))
    /\ read \in 0..Len(Chunks) /\ linesRead \in 0..Granularity

(* A SELECT without aggregates returns what SQL says, row by row: the      *)
(* constants folded away in WHERE, the mask, the chunks and the            *)
(* permutation of the columns change nothing.  (scan_from_storage)         *)
AnswerIsSQL ==
    Answered /\ query # <<>> /\ ~Aggregating(query) /\ Dependable => IsSQLAnswer

(* Of several ORDER BY lists the last one decides alone, since each orders *)
(* the whole answer anew by a sort that need not be stable: the rows are   *)
(* those of SQL, whole and each once, in an order by that list.            *)
(* (src/src/sql/execution/select/mod.rs:129-139)                           *)
OrderedByLast ==
    Answered /\ query # <<>> /\ Len(query.order_by) > 1 /\ Counted
        => IsAnswerBy(Last(query.order_by))

(* An aggregated SELECT has one row for every key, each over exactly the   *)
(* rows of that key, however they are spread over chunks and parts.        *)
(* (Aggregator::append_chunk and finalize)                                 *)
GroupsAreExact ==
    Answered /\ query # <<>> /\ Aggregating(query) /\ Dependable => IsSQLAnswer

(* Nothing that was asked for is left out of an answer: the planner lets   *)
(* no statement through whose columns or aggregates the aggregator drops.  *)
(* (apply_group_by against Aggregator::new)                                *)
EveryItemAnswered ==
    Answered /\ query # <<>> =>
        /\ \A c \in DOMAIN query.columns :
              \E o \in DOMAIN output :
                 output[o].fn = "" /\ output[o].name = query.columns[c].name
        /\ DOMAIN groups # {} => \A a \in DOMAIN query.aggregates :
              \E o \in DOMAIN output : /\ output[o].fn = query.aggregates[a].fn
                                       /\ output[o].name = query.aggregates[a].name

(* An INSERT panics only where an ORDER BY column of the table may hold    *)
(* NULL next to values, and a SELECT (of columns and aggregates) only      *)
(* there, where OFFSET overflows the lines to read, or where WHERE looks   *)
(* for a column that is not read: what INSERT lets into a NOT NULL column, *)
(* and what aggregates and ordering make of it, can always be compared     *)
(* (src/src/engines/merge_tree.rs:58, src/src/sql/execution/select/        *)
(* strategy.rs:21).                                                        *)
MayBeNull(name) ==
    LET c == Column(table.schema, name) IN c.nullable \/ c.default = {Null}

PanicsExplained ==
    /\ pc = "ready" /\ outcome = "panic" =>
          \E name \in ToSet(table.order_by) : MayBeNull(name)
    /\ pc = "done" /\ outcome = "panic" =>
          \/ ~StrategyFits(query)
          \/ ~FilterAligned
          \/ \E p \in ToSet(query.order_by[ordered + 1]) : MayBeNull(p.name)

(* A part of a MergeTree holds the rows of its INSERT, whole and each once *)
(* ("Does not perform any changes to data. Just keeps it sorted in ASC by  *)
(* ORDER BY", src/src/engines/merge_tree.rs).                              *)
RowsStayWhole ==
    table.engine = "MergeTree" => \A p \in DOMAIN parts :
        /\ \E order \in Orders(Len(batches[p])) :
              parts[p] = [i \in DOMAIN batches[p] |-> batches[p][order[i]]]
        /\ \A i, j \in DOMAIN parts[p] :
              i < j => ~Below(parts[p][j], parts[p][i], table.order_by)

(* A part of a ReplacingMergeTree holds one row for every primary key of   *)
(* its INSERT: of the rows with the greatest ORDER BY columns, the one     *)
(* given last.  That is the newest row of the key only where ORDER BY has  *)
(* no more columns than the primary key (NewestOfEachKey, below).  Only    *)
(* neighbours are compared, so that this depends on the keys CREATE TABLE  *)
(* accepts.  (ReplacingMergeTreeEngine::order_columns)                     *)
Outdone(t, rows, i) ==
    \E j \in DOMAIN rows :
        /\ SameKey(rows[i], rows[j], t.primary_key)
        /\ \/ Below(rows[i], rows[j], t.order_by)
           \/ i < j /\ SameKey(rows[i], rows[j], t.order_by)

LastOfEachKey ==
    table.engine = "ReplacingMergeTree" /\ pc # "create" => \A p \in DOMAIN parts :
        /\ ToSet(parts[p]) = {batches[p][i] : i \in {i \in DOMAIN batches[p] :
                                                       ~Outdone(table, batches[p], i)}}
        /\ \A i, j \in DOMAIN parts[p] : i < j =>
              ~SameKey(parts[p][i], parts[p][j], table.primary_key)

-----------------------------------------------------------------------------
(* What the repository says and the code does not keep. *)

(* WHERE may use a column that is not selected, as in                      *)
(* "SELECT name, age FROM default.users WHERE id > 2 AND id <= 4 LIMIT 1"  *)
(* (test_queries.sql:6).                                                   *)
FilterReadsItsColumns ==
    Answered /\ query # <<>> /\ ~Aggregating(query) /\ Len(query.order_by) <= 1
        => IsSQLAnswer

(* "When it finds rows with the same PK values, it replaces with the       *)
(* newest row values" (src/docs/arch.md:60, and replacing_merge_tree.rs:10 *)
(* and :44): of the rows of a primary key, the one given last stays.       *)
NewestOfEachKey ==
    table.engine = "ReplacingMergeTree" => \A p \in DOMAIN parts :
        ToSet(parts[p]) =
            {batches[p][i] : i \in {i \in DOMAIN batches[p] :
                \A j \in DOMAIN batches[p] :
                    i < j => ~SameKey(batches[p][i], batches[p][j], table.primary_key)}}

(* "Values in the same column are of the same type and ARE comparable"     *)
(* (src/src/engines/merge_tree.rs:58): ordering never panics.              *)
InsertsNeverPanic == pc \in {"create", "ready"} => outcome # "panic"
=============================================================================
